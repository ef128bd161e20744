----------------------------- MODULE PairWindow ------------------------------
(***************************************************************************)
(* Who may connect: inbound connections (handlePeer and servePeer of       *)
(* internal/daemon/receive.go, the pinned handshake of                     *)
(* internal/transport), the pairing window of a device that shows its QR   *)
(* (internal/daemon/pairing.go), and the trusted devices of DeviceStore,   *)
(* which other requests change meanwhile.                                  *)
(***************************************************************************)
EXTENDS DeviceStore

CONSTANTS
  Conn,        \* inbound connections at a time
  Bare,        \* what pairing itself stores of a device, before any update
  MaxWindows   \* bound: pairing windows opened

VARIABLES
  window,     \* d.pairWindow: the number of the open window, 0 for nil
  opened,     \* windows opened so far
  done,       \* windows whose done channel is closed
  cpc,        \* cpc[c]: where the connection's goroutine is
  cfp,        \* cfp[c]: the peer's fingerprint
  cps,        \* cps[c]: the window tryCompletePairing read
  \* history
  invited,    \* fingerprints let through by an open window, or added by the user
  late        \* connections whose device was revoked after they were admitted

conns == <<cpc, cfp, cps>>
windows == <<window, opened, done>>
pvars == <<vars, windows, conns, invited, late>>

ASSUME WindowConstantsOK == MaxWindows \in Nat /\ Bare \in Info

Window == 1..MaxWindows
CPC == {"new", "hello", "greeted", "try", "add", "close", "paired", "check", "refresh", "session"}

WTypeOK ==
  /\ TypeOK
  /\ window \in 0..opened /\ opened \in 0..MaxWindows /\ done \subseteq 1..opened
  /\ cpc \in [Conn -> CPC]
  /\ cfp \in [Conn -> Fp \cup {None}]
  /\ cps \in [Conn -> 0..MaxWindows]
  /\ invited \subseteq Fp /\ late \subseteq Conn

WInit ==
  /\ Init
  /\ window = 0 /\ opened = 0 /\ done = {}
  /\ cpc = [c \in Conn |-> "new"]
  /\ cfp = [c \in Conn |-> None]
  /\ cps = [c \in Conn |-> 0]
  /\ invited = {} /\ late = {}

At(c, from, to) == cpc[c] = from /\ cpc' = [cpc EXCEPT ![c] = to]

\* The goroutine of a connection ends and its locals go; a new connection may
\* take its place.
Ends(c, from) ==
  /\ At(c, from, "new")
  /\ cfp' = [cfp EXCEPT ![c] = None]
  /\ cps' = [cps EXCEPT ![c] = 0]
  /\ late' = late \ {c}
-----------------------------------------------------------------------------
(* The window *)

\* OpenPairWindow; one that is open is replaced, its done channel left alone.
OpenWindow ==
  /\ opened < MaxWindows
  /\ opened' = opened + 1 /\ window' = opened + 1
  /\ UNCHANGED <<vars, done, conns, invited, late>>

\* Mutant: closing an old window closes the current one too.
CloseAny(w) ==
  /\ window' = 0
  /\ done' = done \cup {w}

\* closePairWindow
Close(w) ==
  /\ window' = IF window = w THEN 0 ELSE window
  /\ done' = done \cup {w}

\* The window's timer, or the client that shows the QR going away.
WindowEnds(w) ==
  /\ w \in (1..opened) \ done
  /\ Close(w)
  /\ UNCHANGED <<vars, opened, conns, invited, late>>
-----------------------------------------------------------------------------
(* Inbound connections *)

\* Mutant: the handshake does not ask.
AdmittedAlways(fp) == TRUE

\* Daemon.IsTrusted, asked by the handshake.
Admitted(fp) == IsTrusted(fp) \/ window # 0

Handshake(c, fp) ==
  /\ Admitted(fp)
  /\ At(c, "new", "hello")
  /\ cfp' = [cfp EXCEPT ![c] = fp]
  /\ invited' = IF window # 0 THEN invited \cup {fp} ELSE invited
  /\ UNCHANGED <<vars, windows, cps, late>>

\* The Hello exchange; the peer may act on the answer from now on.
SendHello(c) ==
  /\ At(c, "hello", "greeted")
  /\ UNCHANGED <<vars, windows, cfp, cps, invited, late>>

\* tryCompletePairing reads the window ...
ReadWindow(c) ==
  /\ At(c, "greeted", IF window # 0 THEN "try" ELSE "check")
  /\ cps' = [cps EXCEPT ![c] = window]
  /\ UNCHANGED <<vars, windows, cfp, invited, late>>

\* tryCompletePairing returns false.
NotPaired(c, from) ==
  /\ At(c, from, "check")
  /\ cps' = [cps EXCEPT ![c] = 0]

\* Mutant: the window is closed before the peer is saved.
TryPairingClaims(c) ==
  /\ \/ ~IsTrusted(cfp[c]) /\ At(c, "try", "add") /\ Close(cps[c]) /\ UNCHANGED cps
     \/ IsTrusted(cfp[c]) /\ NotPaired(c, "try") /\ UNCHANGED <<window, done>>
  /\ UNCHANGED <<vars, opened, cfp, invited, late>>

\* ... and looks whether the peer is paired already.
TryPairing(c) ==
  /\ \/ ~IsTrusted(cfp[c]) /\ At(c, "try", "add") /\ UNCHANGED cps
     \/ IsTrusted(cfp[c]) /\ NotPaired(c, "try")
  /\ UNCHANGED <<vars, windows, cfp, invited, late>>

\* AddDevice, which counts as a pairing only when the list was saved.
AddPaired(c) ==
  \E n \in Name :
    /\ AddDevice([fp |-> cfp[c], name |-> n, info |-> Bare])
    /\ \/ Saves /\ At(c, "add", "close") /\ UNCHANGED cps
       \/ SaveFails /\ NotPaired(c, "add")
    /\ UNCHANGED <<windows, cfp, invited, late>>

\* The window is closed.
Paired(c) ==
  /\ At(c, "close", "paired")
  /\ Close(cps[c])
  /\ cps' = [cps EXCEPT ![c] = 0]
  /\ UNCHANGED <<vars, opened, cfp, invited, late>>

\* Mutant: who passed the handshake is trusted.
CheckSkipped(c) ==
  /\ At(c, "check", "refresh")
  /\ UNCHANGED <<vars, windows, cfp, cps, invited, late>>

\* servePeer refuses a peer that is not paired, whatever the handshake said.
CheckTrusted(c) ==
  /\ \/ ~IsTrusted(cfp[c]) /\ Ends(c, "check")
     \/ /\ IsTrusted(cfp[c]) /\ At(c, "check", "refresh")
        /\ UNCHANGED <<cfp, cps, late>>
  /\ UNCHANGED <<vars, windows, invited>>

\* What the Hello says of the peer is stored, if it is paired and this is
\* news; a connection that paired ends without a session.
Refresh(c) ==
  /\ UNCHANGED vars \/ \E v \in Info \ {Bare} : UpdateInfo(cfp[c], v)
  /\ \/ Ends(c, "paired")
     \/ At(c, "refresh", "session") /\ UNCHANGED <<cfp, cps, late>>
  /\ UNCHANGED <<windows, invited>>

\* receiveSession takes files or a clipboard, then the connection ends.
SessionDone(c) ==
  /\ Ends(c, "session")
  /\ UNCHANGED <<vars, windows, invited>>

\* The connection breaks while the daemon reads from it.
ConnLost(c) ==
  /\ Ends(c, "hello")
  /\ UNCHANGED <<vars, windows, invited>>
-----------------------------------------------------------------------------
(* Requests of the user *)

\* `adrop pair add`: AddPeer.
AddPeer(d) ==
  /\ d.info = Bare /\ AddDevice(d)
  /\ invited' = invited \cup {d.fp}
  /\ UNCHANGED <<windows, conns, late>>

Revoke(t) ==
  /\ RemoveDevice(t)
  /\ late' = late \cup {c \in Conn : /\ cpc[c] \in {"refresh", "session"}
                                     /\ cfp[c] \notin Fps(devices')}
  /\ UNCHANGED <<windows, conns, invited>>

\* The daemon starts again.
DaemonRestarts ==
  /\ Restart
  /\ window' = 0 /\ done' = 1..opened
  /\ cpc' = [c \in Conn |-> "new"]
  /\ cfp' = [c \in Conn |-> None]
  /\ cps' = [c \in Conn |-> 0]
  /\ late' = {}
  /\ UNCHANGED <<opened, invited>>

Serve(c) ==
  \/ SendHello(c) \/ ReadWindow(c) \/ TryPairing(c) \/ AddPaired(c) \/ Paired(c)
  \/ CheckTrusted(c) \/ Refresh(c) \/ SessionDone(c)

WNext ==
  \/ OpenWindow
  \/ \E w \in Window : WindowEnds(w)
  \/ \E c \in Conn : \/ \E fp \in Fp : Handshake(c, fp)
                     \/ Serve(c) \/ ConnLost(c)
  \/ \E d \in Device : AddPeer(d)
  \/ \E t \in Fp : Revoke(t)
  \/ DaemonRestarts

WSpec == WInit /\ [][WNext]_pvars
-----------------------------------------------------------------------------
(* Properties *)

\* Nobody becomes trusted uninvited: every device in the list came through
\* the handshake while a window was open, or was added by the user, also when
\* windows are closed, replaced and devices revoked between two steps.
TrustedWasInvited ==
  Fps(devices) \cup Fps(saved.devices) \subseteq invited

\* A session belongs to a paired device: one admitted only because of a
\* window, or revoked between its handshake and its Hello, gets none.
SessionIsPaired ==
  \A c \in Conn : cpc[c] \in {"refresh", "session"} => IsTrusted(cfp[c]) \/ c \in late

\* Closing a window, by its timer or a cancelled request, never takes another
\* one away: a window that is open stays open until it ended itself.
OtherWindowsStay ==
  [][\A w \in Window : window = w /\ window' = 0 => w \in done']_pvars

\* "the listener admits a single inbound connection from an as-yet-untrusted
\* peer and pins it" (pairing.go:16).  Does not hold (README, section 7).
OnePerWindow ==
  \A c, e \in Conn : cpc[c] = "close" /\ cpc[e] = "close" /\ cps[c] = cps[e] => cfp[c] = cfp[e]

\* "consulted at handshake time so revocation takes effect immediately"
\* (transport.go:28), "Revocation is immediate" (README): a revoked device has
\* no session.  Does not hold (README, section 7).
RevocationIsImmediate ==
  \A c \in Conn : cpc[c] = "session" => IsTrusted(cfp[c])
=============================================================================
