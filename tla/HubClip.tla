------------------------------- MODULE HubClip -------------------------------
(***************************************************************************)
(* A short clipboard text through the Reticulum hubs (sendClipOverHubs and *)
(* receiveClipPart in internal/daemon/queue.go, the signalling of          *)
(* internal/daemon/rns.go): the text is cut into packets, which the hubs   *)
(* may lose, repeat and reorder, collected at the other end until it is    *)
(* whole or a minute has passed, and acknowledged.  Beside it pings and    *)
(* pongs: a pong and an acknowledgement are awaited in the same table.     *)
(***************************************************************************)
EXTENDS Integers, Sequences, FiniteSets

CONSTANTS
  Text,         \* sends under way, each with an id of its own
  Ping,         \* calls of Ping, each with an id of its own
  Byte,
  Original,     \* Original[t]: the clipboard text of send t
  HubClipPart,  \* hubClipPart: bytes per packet
  HubClipMax,   \* hubClipMax: the longest text sent this way
  MaxTimers,    \* bound: collections begun for one text
  NoClip        \* no collection for a text

ASSUME HubClipConstantsOK ==
  /\ Text \cap Ping = {}
  /\ HubClipPart \in Nat \ {0} /\ HubClipMax \in Nat /\ MaxTimers \in Nat
  /\ Original \in [Text -> Seq(Byte)]
  /\ \A t \in Text : Len(Original[t]) <= HubClipMax

VARIABLES
  spc,        \* spc[t]: where sendClipOverHubs is
  sent,       \* sent[t]: packets of t handed to the hubs
  ppc,        \* ppc[g]: where Ping is
  pongs,      \* pongs: ids for which an answer is awaited
  acked,      \* ids whose channel was closed
  \* Packets in the hubs arrive late, again, or never: nothing takes them out.
  air,        \* clip packets
  acks,       \* clip-ack and pong packets
  clips,      \* clips[t]: the parts collected, by number
  timers,     \* timers[t]: AfterFunc calls pending for t
  clipboard,  \* history: every text the receiver's clipboard was set to, with its send
  heard       \* history: pings the receiver read

sender == <<spc, sent, ppc, pongs, acked>>
receiver == <<clips, timers, clipboard, heard>>
vars == <<sender, air, acks, receiver>>

Id == Text \cup Ping

\* The number of packets for a text of n bytes.
PartsFor(n) ==
  LET k == (n + HubClipPart - 1) \div HubClipPart IN IF k = 0 THEN 1 ELSE k

Parts(t) == PartsFor(Len(Original[t]))

\* Part n (from 0) of text t.
Piece(t, n) ==
  LET end == IF (n + 1) * HubClipPart < Len(Original[t])
             THEN (n + 1) * HubClipPart ELSE Len(Original[t])
  IN SubSeq(Original[t], n * HubClipPart + 1, end)

Packet(t, n) == [id |-> t, n |-> n, of |-> Parts(t), data |-> Piece(t, n)]

TypeOK ==
  /\ spc \in [Text -> {"idle", "parts", "waiting", "sent", "failed"}]
  /\ sent \in [Text -> Nat]
  /\ ppc \in [Ping -> {"idle", "waiting", "answered", "failed"}]
  /\ pongs \subseteq Id /\ acked \subseteq Id /\ acks \subseteq Id
  /\ heard \subseteq Ping
  /\ \A p \in air : p.id \in Text /\ p.n \in 0..(p.of - 1) /\ p.data \in Seq(Byte)
  /\ \A t \in Text : clips[t] # NoClip =>
       /\ DOMAIN clips[t] \subseteq 0..(Parts(t) - 1)
       /\ Cardinality(DOMAIN clips[t]) < Parts(t)
  /\ timers \in [Text -> 0..MaxTimers]
  /\ \A c \in clipboard : c.id \in Text

Init ==
  /\ spc = [t \in Text |-> "idle"]
  /\ sent = [t \in Text |-> 0]
  /\ ppc = [g \in Ping |-> "idle"]
  /\ pongs = {} /\ acked = {} /\ air = {} /\ acks = {}
  /\ clips = [t \in Text |-> NoClip]
  /\ timers = [t \in Text |-> 0]
  /\ clipboard = {} /\ heard = {}
-----------------------------------------------------------------------------
(* The sender *)

\* The id is registered before the first packet goes out.
StartClip(t) ==
  /\ spc[t] = "idle"
  /\ spc' = [spc EXCEPT ![t] = "parts"]
  /\ pongs' = pongs \cup {t}
  /\ UNCHANGED <<sent, ppc, acked, air, acks, receiver>>

SendPart(t) ==
  /\ spc[t] = "parts"
  /\ air' = air \cup {Packet(t, sent[t])}
  /\ sent' = [sent EXCEPT ![t] = @ + 1]
  /\ spc' = [spc EXCEPT ![t] = IF sent[t] + 1 = Parts(t) THEN "waiting" ELSE "parts"]
  /\ UNCHANGED <<ppc, pongs, acked, acks, receiver>>

\* rnsInbox on clip-ack and on pong: close the channel registered for the id,
\* if any.
RecvAck(i) ==
  /\ i \in acks
  /\ acked' = IF i \in pongs THEN acked \cup {i} ELSE acked
  /\ pongs' = pongs \ {i}
  /\ UNCHANGED <<spc, sent, ppc, air, acks, receiver>>

\* Mutant: any way out of the select counts as success.
ClipWaitEnds(t) ==
  /\ spc[t] = "waiting"
  /\ spc' = [spc EXCEPT ![t] = "sent"]
  /\ pongs' = pongs \ {t}
  /\ UNCHANGED <<sent, ppc, acked, air, acks, receiver>>

ClipAcked(t) ==
  /\ spc[t] = "waiting" /\ t \in acked
  /\ spc' = [spc EXCEPT ![t] = "sent"]
  /\ pongs' = pongs \ {t}
  /\ UNCHANGED <<sent, ppc, acked, air, acks, receiver>>

\* No path to the peer, or 45 seconds without an acknowledgement.
ClipFails(t) ==
  /\ spc[t] \in {"parts", "waiting"}
  /\ spc' = [spc EXCEPT ![t] = "failed"]
  /\ pongs' = pongs \ {t}
  /\ UNCHANGED <<sent, ppc, acked, air, acks, receiver>>

\* Ping registers its id and sends one packet, which may arrive from then on.
StartPing(g) ==
  /\ ppc[g] = "idle"
  /\ ppc' = [ppc EXCEPT ![g] = "waiting"]
  /\ pongs' = pongs \cup {g}
  /\ UNCHANGED <<spc, sent, acked, air, acks, receiver>>

\* The pong is there; or no path to the peer, or the caller's time is over.
PingEnds(g) ==
  /\ ppc[g] = "waiting"
  /\ \E end \in {"answered", "failed"} :
       (end = "answered" => g \in acked) /\ ppc' = [ppc EXCEPT ![g] = end]
  /\ pongs' = pongs \ {g}
  /\ UNCHANGED <<spc, sent, acked, air, acks, receiver>>
-----------------------------------------------------------------------------
(* The receiver *)

\* Mutant: the bound forgets that the last part may be a short one.
TooManyPartsStrict(of) == of * HubClipPart > HubClipMax

TooManyParts(of) == of * HubClipPart > HubClipMax + HubClipPart

\* The checks receiveClipPart makes before it looks at the collection.
Acceptable(p) ==
  /\ p.of > 0 /\ ~TooManyParts(p.of)
  /\ p.n \in 0..(p.of - 1)
  /\ Len(p.data) <= HubClipPart

Collected(t) == IF clips[t] = NoClip THEN [n \in {} |-> <<>>] ELSE clips[t]

\* Mutant: the parts are appended as they arrive.
PutOnArrival(c, p) ==
  LET k == Cardinality(DOMAIN c) IN
    [n \in DOMAIN c \cup {k} |-> IF n = k THEN p.data ELSE c[n]]

Put(c, p) == [n \in DOMAIN c \cup {p.n} |-> IF n = p.n THEN p.data ELSE c[n]]

Complete(c, of) == Cardinality(DOMAIN c) = of

\* The parts in the order of their numbers.
Join(c) ==
  LET Upto[k \in 0..Cardinality(DOMAIN c)] ==
        IF k = 0 THEN <<>> ELSE Upto[k - 1] \o c[k - 1]
  IN Upto[Cardinality(DOMAIN c)]

\* Mutant: the timer is armed when a text is complete.
ArmTimerLate(t, first, complete) ==
  timers' = IF complete THEN [timers EXCEPT ![t] = @ + 1] ELSE timers

\* time.AfterFunc: one call for every collection begun, never stopped.
ArmTimer(t, first, complete) ==
  timers' = IF first THEN [timers EXCEPT ![t] = @ + 1] ELSE timers

\* receiveClipPart for a packet of a trusted device.  The packet may arrive
\* again.  When the text is whole the collection goes, the clipboard is set
\* and an acknowledgement sent, unless the clipboard tool fails.
RecvPart(p) ==
  LET t == p.id
      first == clips[t] = NoClip
      new == Put(Collected(t), p)
      complete == Complete(new, p.of)
  IN /\ p \in air
     /\ Acceptable(p)
     /\ first => timers[t] < MaxTimers
     /\ p.n \notin DOMAIN Collected(t)
     /\ ArmTimer(t, first, complete)
     /\ clips' = [clips EXCEPT ![t] = IF complete THEN NoClip ELSE new]
     /\ \/ /\ complete
           /\ clipboard' = clipboard \cup {[id |-> t, text |-> Join(new)]}
           /\ acks' = acks \cup {t}
        \/ UNCHANGED <<clipboard, acks>>
     /\ UNCHANGED <<sender, air, heard>>

\* rnsInbox on ping: a goroutine answers, if it finds a path.
RecvPing(g) ==
  /\ ppc[g] # "idle"
  /\ heard' = heard \cup {g}
  /\ acks' = acks \cup {g} \/ UNCHANGED acks
  /\ UNCHANGED <<sender, air, clips, timers, clipboard>>

\* The minute is over: whatever is collected under the key goes, also a
\* collection begun later than the timer.
TimerFires(t) ==
  /\ timers[t] > 0
  /\ timers' = [timers EXCEPT ![t] = @ - 1]
  /\ clips' = [clips EXCEPT ![t] = NoClip]
  /\ UNCHANGED <<sender, air, acks, clipboard, heard>>

ReceiverRestarts ==
  /\ clips' = [t \in Text |-> NoClip]
  /\ timers' = [t \in Text |-> 0]
  /\ UNCHANGED <<sender, air, acks, clipboard, heard>>
-----------------------------------------------------------------------------
Next ==
  \/ \E t \in Text : \/ StartClip(t) \/ SendPart(t)
                     \/ ClipAcked(t) \/ ClipFails(t) \/ TimerFires(t)
  \/ \E g \in Ping : StartPing(g) \/ PingEnds(g) \/ RecvPing(g)
  \/ \E i \in acks : RecvAck(i)
  \/ \E p \in air : RecvPart(p)
  \/ ReceiverRestarts

Spec == Init /\ [][Next]_vars

\* Timers fire.
FairSpec == Spec /\ \A t \in Text : WF_vars(TimerFires(t))
-----------------------------------------------------------------------------
(* Properties *)

\* The clipboard is only ever set to a whole text as it was sent: parts of two
\* sends are not mixed, and losses, repetitions, reordering, expired
\* collections and restarts never yield a text with a hole.
SetIsOriginal ==
  \A c \in clipboard : c.text = Original[c.id]

\* "clipboard sent through reticulum hubs" is only said when the receiver's
\* clipboard was set to that text, and a ping is only answered by a peer that
\* read it: an answer never serves the wrong waiter of the shared table.
SentIsSet ==
  /\ \A t \in Text : spc[t] = "sent" => \E c \in clipboard : c.id = t
  /\ \A g \in Ping : ppc[g] = "answered" => g \in heard

\* No packet the sender makes of a text of at most hubClipMax bytes is turned
\* down by the receiver's bounds.
PacketsAcceptable ==
  \A p \in air : Acceptable(p)

\* An unfinished collection does not stay in memory.
CollectionsExpire ==
  \A t \in Text : (clips[t] # NoClip) ~> (clips[t] = NoClip)
=============================================================================
