----------------------------- MODULE DeviceStore -----------------------------
(***************************************************************************)
(* The trusted devices (internal/config/config.go): the list the daemon    *)
(* keeps in memory, its copy devices.json, and the last-used peer.  Every  *)
(* operation runs under the store's lock; sends hold a device they looked  *)
(* up while others revoke, rename or pair.                                 *)
(*                                                                         *)
(* A fingerprint prefix of eight or more digits stands for the fingerprint *)
(* itself.                                                                 *)
(***************************************************************************)
EXTENDS Integers, Sequences

CONSTANTS
  Fp,          \* fingerprints
  Name,        \* device names
  Info,        \* what else is stored: address, FCM token, Reticulum key
  Sends,       \* outbound sends
  DiskErrors,  \* whether writing devices.json may fail
  None         \* no fingerprint

ASSUME StoreConstantsOK ==
  /\ DiskErrors \in BOOLEAN
  /\ None \notin Fp /\ Name \cap Fp = {}

VARIABLES
  devices,    \* Store.devices
  lastPeer,   \* Store.lastPeer
  saved,      \* devices.json: the devices and the last peer
  \* sends in flight
  target,     \* target[s]: what the send was asked to go to, None when idle
  goes,       \* goes[s]: the device it looked up
  meant,      \* meant[s]: the device the user meant by it
  \* history
  revoked     \* fingerprints reported as revoked and not paired since

store == <<devices, lastPeer, saved>>
sends == <<target, goes, meant>>
vars == <<store, sends, revoked>>

Device == [fp : Fp, name : Name, info : Info]

TypeOK ==
  /\ devices \in Seq(Device)
  /\ lastPeer \in Fp \cup {None}
  /\ saved.devices \in Seq(Device) /\ saved.lastPeer \in Fp \cup {None}
  /\ target \in [Sends -> Name \cup Fp \cup {None}]
  /\ goes \in [Sends -> Fp \cup {None}]
  /\ meant \in [Sends -> Fp \cup {None}]
  /\ revoked \subseteq Fp

Init ==
  /\ devices = <<>> /\ lastPeer = None
  /\ saved = [devices |-> <<>>, lastPeer |-> None]
  /\ target = [s \in Sends |-> None]
  /\ goes = [s \in Sends |-> None]
  /\ meant = [s \in Sends |-> None]
  /\ revoked = {}
-----------------------------------------------------------------------------
Fps(ds) == {ds[i].fp : i \in DOMAIN ds}
IsTrusted(fp) == fp \in Fps(devices)

Matches(d, t) == d.name = t \/ d.fp = t

Hit(t) == {i \in DOMAIN devices : Matches(devices[i], t)}

\* Lookup: the first device that matches.
Found(t) == Hit(t) # {}
FirstHit(t) == CHOOSE i \in Hit(t) : \A j \in Hit(t) : i <= j
Lookup(t) == devices[FirstHit(t)]

\* saveDevicesLocked: a temporary file renamed into place.
Saves == saved' = [devices |-> devices', lastPeer |-> lastPeer']
SaveFails == DiskErrors /\ UNCHANGED saved

\* AddDevice replaces the entry of a fingerprint it has, in place, and appends
\* one it has not; memory changes whether or not the save succeeds.
AddDevice(d) ==
  /\ devices' = IF IsTrusted(d.fp)
                THEN [i \in DOMAIN devices |->
                        IF devices[i].fp = d.fp THEN d ELSE devices[i]]
                ELSE Append(devices, d)
  /\ revoked' = revoked \ {d.fp}
  /\ UNCHANGED <<lastPeer, sends>>
  /\ Saves \/ SaveFails

\* Mutant: an update of a device that is not there adds it.
UpdateOrAdd(fp, v) ==
  /\ devices' = IF IsTrusted(fp)
                THEN [i \in DOMAIN devices |->
                        IF devices[i].fp = fp THEN [devices[i] EXCEPT !.info = v]
                                              ELSE devices[i]]
                ELSE Append(devices, [fp |-> fp, name |-> CHOOSE n \in Name : TRUE, info |-> v])
  /\ UNCHANGED <<lastPeer, sends, revoked>>
  /\ Saves

\* UpdateAddr, UpdateFcmToken, UpdateRNS.
UpdateInfo(fp, v) ==
  /\ \E i \in DOMAIN devices : /\ devices[i].fp = fp /\ devices[i].info # v
                               /\ devices' = [devices EXCEPT ![i].info = v]
  /\ UNCHANGED <<lastPeer, sends, revoked>>
  /\ Saves \/ SaveFails

\* The devices that do not match, in their order.
Kept(t) ==
  LET Upto[i \in 0..Len(devices)] ==
        IF i = 0 THEN <<>>
        ELSE IF i \in Hit(t) THEN Upto[i - 1] ELSE Append(Upto[i - 1], devices[i])
  IN Upto[Len(devices)]

\* RemoveDevice drops every match, and the last peer with it; only a saved
\* removal is reported as "revoked".
RemoveDevice(t) ==
  /\ Found(t)
  /\ devices' = Kept(t)
  /\ lastPeer' = IF \E i \in Hit(t) : devices[i].fp = lastPeer THEN None ELSE lastPeer
  /\ \/ Saves /\ revoked' = revoked \cup {devices[i].fp : i \in Hit(t)}
     \/ SaveFails /\ UNCHANGED revoked
  /\ UNCHANGED sends

\* RenameDevice: the first match takes a name no other device has; a failed
\* save leaves everything as it was.
RenameDevice(t, n) ==
  /\ Found(t)
  /\ LET i == FirstHit(t) IN
       /\ \A j \in DOMAIN devices : j # i => devices[j].name # n
       /\ devices[i].name # n
       /\ devices' = [devices EXCEPT ![i].name = n]
  /\ UNCHANGED <<lastPeer, sends, revoked>>
  /\ Saves

\* The daemon starts again: a last peer that is not among the devices goes.
Restart ==
  /\ devices' = saved.devices
  /\ lastPeer' = IF saved.lastPeer \in Fps(saved.devices) THEN saved.lastPeer ELSE None
  /\ target' = [s \in Sends |-> None]
  /\ goes' = [s \in Sends |-> None]
  /\ meant' = [s \in Sends |-> None]
  /\ UNCHANGED <<saved, revoked>>
-----------------------------------------------------------------------------
(* Sends *)

\* `adrop send <peer>`
RequestTo(s, t) ==
  /\ target[s] = None /\ Found(t)
  /\ target' = [target EXCEPT ![s] = t]
  /\ meant' = [meant EXCEPT ![s] = IF t \in Fp THEN t ELSE None]
  /\ UNCHANGED <<store, goes, revoked>>

\* Without a peer, resolveTarget turns the last one into its name.
RequestDefault(s) ==
  /\ target[s] = None
  /\ lastPeer # None /\ Found(lastPeer)
  /\ target' = [target EXCEPT ![s] = Lookup(lastPeer).name]
  /\ meant' = [meant EXCEPT ![s] = lastPeer]
  /\ UNCHANGED <<store, goes, revoked>>

\* dialPeer looks the target up and connects to that device.
DialPeer(s) ==
  /\ target[s] # None /\ goes[s] = None /\ Found(target[s])
  /\ goes' = [goes EXCEPT ![s] = Lookup(target[s]).fp]
  /\ UNCHANGED <<store, target, meant, revoked>>

Idle(s) ==
  /\ target' = [target EXCEPT ![s] = None]
  /\ goes' = [goes EXCEPT ![s] = None]
  /\ meant' = [meant EXCEPT ![s] = None]

SendFails(s) ==
  /\ target[s] # None
  /\ Idle(s)
  /\ UNCHANGED <<store, revoked>>

\* The last ack arrived: SetLastPeer.
SendSucceeds(s) ==
  /\ goes[s] # None
  /\ lastPeer' = goes[s]
  /\ Idle(s)
  /\ UNCHANGED <<devices, revoked>>
  /\ IF lastPeer = goes[s] THEN UNCHANGED saved ELSE Saves \/ SaveFails

Next ==
  \/ \E d \in Device : AddDevice(d)
  \/ \E fp \in Fp, v \in Info : UpdateInfo(fp, v)
  \/ \E t \in Name \cup Fp : RemoveDevice(t) \/ \E n \in Name : RenameDevice(t, n)
  \/ Restart
  \/ \E s \in Sends : \/ \E t \in Name \cup Fp : RequestTo(s, t)
                      \/ RequestDefault(s) \/ DialPeer(s)
                      \/ SendFails(s) \/ SendSucceeds(s)

Spec == Init /\ [][Next]_vars
-----------------------------------------------------------------------------
(* Properties *)

\* A device reported as revoked is trusted neither now nor, whatever saves
\* failed, after a restart, until it is paired again: no update of a
\* connection still open brings it back.
RevokedStaysOut ==
  revoked \cap (Fps(devices) \cup Fps(saved.devices)) = {}

\* "don't leave sends defaulting to a revoked peer" (config.go:361): the last
\* peer is a device that is paired.  Does not hold (README, section 7).
LastPeerPaired == lastPeer = None \/ IsTrusted(lastPeer)

\* "it defaults to the last-used peer" (README): a send without a peer goes
\* there and nowhere else.  Does not hold (README, section 7).
DefaultGoesToLastPeer ==
  \A s \in Sends : meant[s] # None /\ goes[s] # None => goes[s] = meant[s]
=============================================================================
