-------------------------------- MODULE Dial --------------------------------
(***************************************************************************)
(* Reaching a peer (dialPeer of internal/daemon/send.go): the stored LAN   *)
(* address, a one-shot mDNS resolve and redials while the stored address   *)
(* changes, a direct channel, a wake push through the relay; then the      *)
(* check of the fingerprint and the Hello exchange.  The relay             *)
(* (cmd/adrop-relay) fetches an access token and pushes, without a         *)
(* deadline of its own.  Meanwhile devices move, sleep and wake up, mDNS   *)
(* and Hellos change stored addresses, and the user revokes devices or     *)
(* gives the name to another: also while a dial is under way, which a      *)
(* stale address may hold up for minutes.                                  *)
(***************************************************************************)
EXTENDS Integers, FiniteSets

CONSTANTS
  Fp,         \* devices paired at the start
  Addr,       \* LAN addresses
  MaxEvents,  \* bound: what happens around the call
  Away, None

ASSUME DialConstantsOK ==
  /\ MaxEvents \in Nat
  /\ Away \notin Addr /\ None \notin Fp

VARIABLES
  \* the store
  paired,     \* the trusted fingerprints
  addr,       \* addr[f]: the stored address of f
  holder,     \* the device Lookup(target) finds
  \* the devices
  at,         \* at[f]: where f is
  listening,  \* devices with their listener open
  \* the call
  stage,      \* where it is
  dev,        \* the device it is dialling: its fingerprint and address
  conn,       \* the fingerprint proved on the connection it has
  canGoDirect, \* Reticulum is on here and the device looked up shared its key
  relay,      \* where the relay's handler of its wake is
  \* history
  steady,     \* since the call began the target stayed what it was, where it
              \* was, listening, the resolve saw it and no dial of it failed
  events

surroundings == <<paired, addr, holder, at, listening>>
call == <<stage, dev, conn, canGoDirect, relay>>
dvars == <<surroundings, call, steady, events>>

Stage == {"lookup", "lan", "resolve", "poll", "redial", "polled", "direct", "wake", "posted", "wakewait",
       "wakedial", "waked", "check", "hello", "connected", "mismatch", "unreachable", "cancelled", "failed"}
Returned == {"connected", "mismatch", "unreachable", "cancelled", "failed"}

DTypeOK ==
  /\ paired \subseteq Fp
  /\ addr \in [Fp -> Addr]
  /\ holder \in paired \cup {None}
  /\ at \in [Fp -> Addr \cup {Away}]
  /\ listening \subseteq Fp
  /\ stage \in Stage
  /\ dev \in [fp : Fp \cup {None}, addr : Addr \cup {Away}]
  /\ conn \in Fp \cup {None}
  /\ canGoDirect \in BOOLEAN
  /\ relay \in {"idle", "token", "push", "woken", "refused"}
  /\ steady \in BOOLEAN
  /\ events \in 0..MaxEvents

\* Two devices are never at one address.
Apart(w) == \A f, g \in Fp : w[f] = w[g] /\ w[f] # Away => f = g

DInit ==
  /\ paired = Fp /\ holder \in Fp
  /\ addr \in [Fp -> Addr]
  /\ at \in {w \in [Fp -> Addr \cup {Away}] : Apart(w)}
  /\ listening \in SUBSET Fp
  /\ stage = "lookup" /\ dev = [fp |-> None, addr |-> Away] /\ conn = None
  /\ canGoDirect = FALSE /\ relay = "idle"
  /\ steady = FALSE /\ events = 0
-----------------------------------------------------------------------------
(* The call *)

Proceed(to) == stage' = to

\* transport.DialTimeout: who completes a handshake at address a.  Any trusted
\* device passes the pinned configuration.
Answers(a) == {f \in paired \cap listening : at[f] = a}

Found == holder # None
Current == [fp |-> holder, addr |-> addr[holder]]

\* The end of a dial of dev's address: the connection goes to the fingerprint
\* check, or stage to failure.  A dial of a device that listens may fail too
\* (lanTimeout), and then that device is not steady.
Dial(failure) ==
  \/ conn' \in Answers(dev.addr) /\ Proceed("check") /\ UNCHANGED steady
  \/ /\ Proceed(failure) /\ UNCHANGED conn
     /\ steady' = (steady /\ dev.fp \notin Answers(dev.addr))

Lookup ==
  /\ stage = "lookup"
  /\ IF Found THEN dev' = Current /\ canGoDirect' \in BOOLEAN /\ Proceed("lan")
              ELSE UNCHANGED <<dev, canGoDirect>> /\ Proceed("failed")
  /\ steady' = (Found /\ holder \in listening /\ at[holder] # Away)
  /\ UNCHANGED <<surroundings, conn, relay, events>>

DialLAN ==
  /\ stage = "lan"
  /\ Dial("resolve")
  /\ UNCHANGED <<surroundings, dev, canGoDirect, relay, events>>

\* refreshAddrViaMDNS: the trusted devices it sees get their address stored.
Resolve ==
  /\ stage = "resolve"
  /\ \E seen \in SUBSET {f \in paired : at[f] # Away} :
       /\ addr' = [f \in Fp |-> IF f \in seen THEN at[f] ELSE addr[f]]
       /\ steady' = (steady /\ dev.fp \in seen)
  /\ Proceed("poll")
  /\ UNCHANGED <<paired, holder, at, listening, dev, conn, canGoDirect, relay, events>>

Changed == Found /\ addr[holder] # dev.addr

\* Mutant: a changed address is not dialled.
LookOnly ==
  /\ stage = "poll"
  /\ dev' = (IF Changed THEN Current ELSE dev) /\ Proceed("polled")
  /\ UNCHANGED <<surroundings, conn, canGoDirect, relay, steady, events>>

\* A stored address that changed is dialled.
LookAgain ==
  /\ stage = "poll"
  /\ IF Changed THEN dev' = Current /\ Proceed("redial") ELSE UNCHANGED dev /\ Proceed("polled")
  /\ UNCHANGED <<surroundings, conn, canGoDirect, relay, steady, events>>

Redial ==
  /\ stage = "redial"
  /\ Dial("polled")
  /\ UNCHANGED <<surroundings, dev, canGoDirect, relay, events>>

\* mdnsRecoverTimeout: looked at after the dial, without a look at the store.
RecoverTimeout ==
  /\ stage = "polled"
  /\ Proceed(IF canGoDirect THEN "direct" ELSE "wake")
  /\ UNCHANGED <<surroundings, dev, conn, canGoDirect, relay, steady, events>>

PollWait ==
  /\ stage = "polled"
  /\ Proceed("poll")
  /\ UNCHANGED <<surroundings, dev, conn, canGoDirect, relay, steady, events>>

\* dialDirect gives a connection to dev itself, or nothing: a cancelled
\* context counts as nothing.
DialOverDirect ==
  /\ stage = "direct"
  /\ \/ dev.fp \in paired /\ conn' = dev.fp /\ Proceed("check")
     \/ UNCHANGED conn /\ Proceed("wake")
  /\ UNCHANGED <<surroundings, dev, canGoDirect, relay, steady, events>>

\* wakeViRelay posts a request, if there is an FCM token and a relay that
\* answers.
Wake ==
  /\ stage = "wake"
  /\ \/ Proceed("posted") /\ relay' = "token"
     \/ Proceed("unreachable") /\ UNCHANGED relay
  /\ UNCHANGED <<surroundings, dev, conn, canGoDirect, steady, events>>

\* Mutant: the request to the relay has no deadline.
WakeWaits ==
  /\ stage = "posted" /\ relay \in {"woken", "refused"}
  /\ Proceed(IF relay = "woken" THEN "wakewait" ELSE "unreachable")
  /\ UNCHANGED <<surroundings, dev, conn, canGoDirect, relay, steady, events>>

\* The answer is a success, or an error, or the request's ten seconds are over
\* (the relay's handler goes on).
WakeAnswered ==
  /\ stage = "posted"
  /\ (relay = "woken" /\ Proceed("wakewait")) \/ Proceed("unreachable")
  /\ UNCHANGED <<surroundings, dev, conn, canGoDirect, relay, steady, events>>

\* Every round of the wake loop looks the device up afresh, once: the dial that
\* follows keeps the address for as long as it lasts.
WakePoll ==
  /\ stage = "wakewait"
  /\ dev' = (IF Found THEN Current ELSE dev) /\ Proceed("wakedial")
  /\ UNCHANGED <<surroundings, conn, canGoDirect, relay, steady, events>>

WakeDial ==
  /\ stage = "wakedial"
  /\ Dial("waked")
  /\ UNCHANGED <<surroundings, dev, canGoDirect, relay, events>>

\* wakeTimeout.
WakeTimeout ==
  /\ stage = "waked"
  /\ Proceed("unreachable")
  /\ UNCHANGED <<surroundings, dev, conn, canGoDirect, relay, steady, events>>

WakeWait ==
  /\ stage = "waked"
  /\ Proceed("wakewait")
  /\ UNCHANGED <<surroundings, dev, conn, canGoDirect, relay, steady, events>>

\* ctx.Done, noticed only where the two polling loops wait.
Cancel ==
  /\ stage \in {"polled", "wakewait"}
  /\ Proceed("cancelled")
  /\ UNCHANGED <<surroundings, dev, conn, canGoDirect, relay, steady, events>>

\* The fingerprint must be the one of the device looked up.
Check ==
  /\ stage = "check"
  /\ Proceed(IF conn = dev.fp THEN "hello" ELSE "mismatch")
  /\ UNCHANGED <<surroundings, dev, conn, canGoDirect, relay, steady, events>>

\* The exchange of Hellos.  The peer may lack folder support.
Hello ==
  /\ stage = "hello"
  /\ Proceed("connected") \/ Proceed("failed")
  /\ UNCHANGED <<surroundings, dev, conn, canGoDirect, relay, steady, events>>
-----------------------------------------------------------------------------
(* The relay: handleWake and the FCM client.  It has no deadline of its own. *)

\* handleWake answers with success or with the error of Send.
HandleWake(sent) == relay' = IF sent THEN "woken" ELSE "refused"

\* accessToken, under the client's lock: the one in the cache or a new one,
\* which may be refused.
AccessToken ==
  /\ relay = "token"
  /\ relay' = "push" \/ HandleWake(FALSE)
  /\ UNCHANGED <<surroundings, stage, dev, conn, canGoDirect, steady, events>>

\* FCM takes the push, or does not.
Push ==
  /\ relay = "push"
  /\ HandleWake(TRUE) \/ HandleWake(FALSE)
  /\ UNCHANGED <<surroundings, stage, dev, conn, canGoDirect, steady, events>>
-----------------------------------------------------------------------------
(* The surroundings *)

Event == events < MaxEvents /\ events' = events + 1 /\ stage \notin Returned

Moves(f, a) ==
  /\ Event
  /\ at' = [at EXCEPT ![f] = a] /\ a # at[f] /\ Apart(at')
  /\ steady' = (steady /\ f # dev.fp)
  /\ UNCHANGED <<paired, addr, holder, listening, call>>

\* A phone opens its receive window, for a push or on its own, or closes it.
Opens(f) ==
  /\ Event /\ f \notin listening
  /\ listening' = listening \cup {f}
  /\ UNCHANGED <<paired, addr, holder, at, call, steady>>

Closes(f) ==
  /\ Event /\ f \in listening
  /\ listening' = listening \ {f}
  /\ steady' = (steady /\ f # dev.fp)
  /\ UNCHANGED <<paired, addr, holder, at, call>>

\* UpdateAddr from Browse, AddNearby or the Hello of an inbound connection.
Seen(f) ==
  /\ Event /\ f \in paired /\ at[f] # Away /\ addr[f] # at[f]
  /\ addr' = [addr EXCEPT ![f] = at[f]]
  /\ UNCHANGED <<paired, holder, at, listening, call, steady>>

\* A rename gives the target's name to another device, or to none.
Renamed ==
  /\ Event
  /\ holder' \in (paired \cup {None}) \ {holder}
  /\ steady' = FALSE
  /\ UNCHANGED <<paired, addr, at, listening, call>>

\* RemoveDevice.
Revoked(f) ==
  /\ Event /\ f \in paired
  /\ paired' = paired \ {f}
  /\ holder' = IF holder = f THEN None ELSE holder
  /\ steady' = (steady /\ f # dev.fp)
  /\ UNCHANGED <<addr, at, listening, call>>

\* What the code does without waiting for the peer.
DStep == Lookup \/ Resolve \/ LookAgain \/ RecoverTimeout \/ PollWait \/ Wake \/ WakeAnswered
          \/ WakePoll \/ WakeTimeout \/ WakeWait \/ Check

\* What ends when the peer, or its kernel, says so.
DWait == DialLAN \/ Redial \/ DialOverDirect \/ WakeDial \/ Hello

DNext ==
  \/ DStep \/ DWait \/ Cancel \/ Renamed
  \/ AccessToken \/ Push
  \/ \E f \in Fp : \/ Opens(f) \/ Closes(f) \/ Seen(f) \/ Revoked(f)
                   \/ \E a \in Addr \cup {Away} : Moves(f, a)

DSpec == DInit /\ [][DNext]_dvars

\* The call's own steps are taken, and the deadlines of its two loops pass.
\* With a direct channel to fall back on, a LAN dial and its handshake end
\* within lanTimeout; no other wait for a peer has a deadline, nor has the
\* relay.
DFairSpec ==
  /\ DSpec
  /\ WF_dvars(DStep) /\ SF_dvars(RecoverTimeout) /\ SF_dvars(WakeTimeout)
  /\ WF_dvars(canGoDirect /\ (DialLAN \/ Redial))
-----------------------------------------------------------------------------
(* Properties *)

\* A device that stayed where it is, with its listener open, and whose dials
\* succeed is never reported as unreachable, and so never queued for: a stale
\* stored address is made good by the resolve, if that sees the device.  (A
\* dial that fails although the device listens is not repeated while the
\* address is unchanged, send.go:86.)
ThereIsReached == stage = "unreachable" => ~steady

\* "This recovers a same-network IP change even when no relay is configured"
\* (send.go:79): a device that is there is reached although its address is not
\* the stored one any more.  Does not hold (README, section 7).
MoveIsRecovered == stage \in {"unreachable", "mismatch"} => ~steady

\* Waits without a deadline.
Blocked == \/ stage \in {"direct", "wakedial", "hello"}
           \/ stage \in {"lan", "redial"} /\ ~canGoDirect

\* A call whose waits for the peer end returns: its loops and the request to
\* the relay have deadlines, whatever happens to the device or its entry
\* meanwhile, and although the relay holds its token lock over a fetch that
\* has none.
DialReturns == []<>~Blocked => <>(stage \in Returned)
=============================================================================
