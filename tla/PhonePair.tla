------------------------------ MODULE PhonePair ------------------------------
(***************************************************************************)
(* A phone scans the QR of a PC: Pair of the mobile core (core/core.go)    *)
(* and AddPeer, helloPeer and Hello of the daemon in it, against the       *)
(* windows, connections and devices of the PC, module PairWindow.  The     *)
(* phone connects twice: AddPeer's Hello makes the PC save it, and a       *)
(* second Hello decides whether the phone keeps the PC.                    *)
(***************************************************************************)
EXTENDS PairWindow

CONSTANT Phone   \* the phone's fingerprint

ASSUME PhoneOK == Phone \in Fp

VARIABLES
  ppc,     \* where Pair is: in AddPeer's Hello, in the second, or over
  pconn,   \* the connection on which it awaits the PC's Hello
  has,     \* whether the PC is among the phone's devices
  onDisk,  \* ... and in its devices.json
  \* history
  clean    \* nothing else interfered with the latest Pair

phone == <<ppc, pconn, has, onDisk>>
phoneVars == <<pvars, phone, clean>>

PTypeOK ==
  /\ WTypeOK
  /\ ppc \in {"idle", "back", "hello", "undo", "ok", "failed"}
  /\ pconn \in Conn \cup {None}
  /\ has \in BOOLEAN /\ onDisk \in BOOLEAN /\ clean \in BOOLEAN

PInit ==
  /\ WInit
  /\ ppc = "idle" /\ pconn = None
  /\ has = FALSE /\ onDisk = FALSE /\ clean = FALSE

FromPhone == {c \in Conn : cfp[c] = Phone}
-----------------------------------------------------------------------------
(* The phone *)

\* AddPeer adds the PC; a list that cannot be saved ends Pair with an error.
Pair ==
  /\ ppc \in {"idle", "ok", "failed"}
  /\ has' = TRUE
  /\ \/ /\ onDisk' = TRUE /\ ppc' = "back"
        /\ clean' = (FromPhone = {})
     \/ /\ DiskErrors /\ UNCHANGED onDisk /\ ppc' = "failed"
        /\ clean' = FALSE
  /\ UNCHANGED <<pvars, pconn>>

\* A Hello that fails is none of AddPeer's business, the second one is Pair's.
AfterHello(passed) ==
  ppc' = IF ppc = "back" THEN "hello" ELSE IF passed THEN "ok" ELSE "undo"

Dialing == ppc \in {"back", "hello"} /\ pconn = None

\* helloPeer and dialPeer: each side pins the other's certificate.
DialPC(c) ==
  /\ Dialing /\ has
  /\ Handshake(c, Phone)
  /\ pconn' = c
  /\ UNCHANGED <<ppc, has, onDisk, clean>>

\* The PC does not admit the phone, or is not reached.
DialFails ==
  /\ Dialing
  /\ AfterHello(FALSE)
  /\ clean' = (clean /\ has /\ ~Admitted(Phone))
  /\ UNCHANGED <<pvars, pconn, has, onDisk>>

\* The PC's Hello arrives, before the PC has looked at its window, and the
\* phone hangs up.
HelloArrives ==
  /\ pconn # None /\ SendHello(pconn)
  /\ AfterHello(TRUE)
  /\ pconn' = None
  /\ UNCHANGED <<has, onDisk, clean>>

\* The connection breaks first.
HelloBreaks ==
  /\ pconn # None
  /\ AfterHello(FALSE)
  /\ pconn' = None /\ clean' = FALSE
  /\ UNCHANGED <<pvars, has, onDisk>>

\* Pair removes the PC again, paired before or not; the error of a save that
\* fails is ignored.
Undo ==
  /\ ppc = "undo" /\ ppc' = "failed"
  /\ has' = FALSE
  /\ onDisk' = FALSE \/ (DiskErrors /\ UNCHANGED onDisk)
  /\ UNCHANGED <<pvars, pconn, clean>>

PhoneRevokes ==
  /\ has /\ has' = FALSE /\ onDisk' = FALSE
  /\ clean' = FALSE
  /\ UNCHANGED <<pvars, ppc, pconn>>

\* Stop, or Android ends the app, and Start.
PhoneRestarts ==
  /\ ppc' = "idle" /\ pconn' = None
  /\ has' = onDisk
  /\ clean' = FALSE
  /\ UNCHANGED <<pvars, onDisk>>
-----------------------------------------------------------------------------
(* The PC *)

\* A step of the PC that takes nothing away from the phone's Pair: it opens a
\* window or serves the phone.
Undisturbed ==
  \/ OpenWindow
  \/ \E c \in Conn : Handshake(c, Phone) \/ (c \in FromPhone /\ Serve(c))

\* The phone connects to the PC also to send, when it has paired.
PCStep ==
  /\ WNext
  /\ pconn # None => cpc'[pconn] = cpc[pconn]
  /\ (ppc = "ok" /\ has) \/ FromPhone' \subseteq FromPhone
  /\ clean' = (clean /\ Undisturbed)
  /\ UNCHANGED phone

PNext ==
  \/ Pair \/ (\E c \in Conn : DialPC(c)) \/ DialFails
  \/ HelloArrives \/ HelloBreaks \/ Undo \/ PhoneRevokes \/ PhoneRestarts
  \/ PCStep

PSpec == PInit /\ [][PNext]_phoneVars
-----------------------------------------------------------------------------
(* Properties *)

\* Once the PC has served the phone's connections, a Pair that nothing
\* interfered with leaves both devices paired if it returned without an error
\* and neither if it failed: the second Hello is not turned away while the
\* first connection is still being saved.
PairIsMutual ==
  ppc \in {"ok", "failed"} /\ clean /\ FromPhone = {}
    => has = (ppc = "ok") /\ IsTrusted(Phone) = (ppc = "ok")

\* "here a Hello must pass, or the peer is dropped again: a peer that never
\* pinned this device answers every later Hello with "tls: bad certificate""
\* (core.go:160): the phone keeps only a PC that pinned it, or had.  Does not
\* hold (README, section 7).
OkMeansPinned ==
  ppc = "ok" /\ FromPhone = {}
    => IsTrusted(Phone) \/ Phone \in revoked
=============================================================================
