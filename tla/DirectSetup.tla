----------------------------- MODULE DirectSetup -----------------------------
(***************************************************************************)
(* Setting up a direct channel (internal/direct, internal/daemon/          *)
(* directch.go): dialer and accepter exchange credentials and ICE          *)
(* candidates as signals over Reticulum, which loses, repeats, reorders    *)
(* and holds them back for any time.  Each offer that arrives, a repeated  *)
(* one too, starts an accepting run.  Signals that arrive wait in the      *)
(* inbox of their id, which is created by whoever comes first, shared by   *)
(* the runs of the id and dropped when one of them ends or its timer       *)
(* fires.                                                                  *)
(***************************************************************************)
EXTENDS Integers, FiniteSets

CONSTANTS
  Setup,      \* the ids of the setups the dialer starts
  SetupLife,  \* Options.Timeout
  InboxLife,  \* the AfterFunc of iceInbox (2 min)
  MaxRepeats, \* bound: repeated signals
  MaxCands    \* bound: runs that find a candidate of their own

ASSUME SetupConstantsOK ==
  /\ SetupLife \in Nat \ {0} /\ InboxLife \in Nat /\ MaxRepeats \in Nat /\ MaxCands \in Nat
  /\ SetupLife <= InboxLife

\* The runs of setup for an id: the dialer's, and one per offer that arrives.
Dialer == 0
Accepter == 1..(MaxRepeats + 1)
Run == {Dialer} \cup Accepter
Side == {"dialer", "accepter"}
SideOf(r) == IF r = Dialer THEN "dialer" ELSE "accepter"
Other(d) == IF d = "dialer" THEN "accepter" ELSE "dialer"

VARIABLES
  net,       \* signals under way
  repeats,   \* signals repeated so far
  box,       \* box[d][i]: the inbox d.iceSetups[i], numbered; 0 for none
  content,   \* content[d][i][n]: signals waiting in inbox n
  timers,    \* timers[d][i]: time left on the AfterFuncs
  pc,        \* pc[r][i]: how far the run is
  left,      \* left[r][i]: time left for it
  held,      \* held[r][i]: the inbox it reads; 0 for none
  creds,     \* creds[r][i]: the run whose credentials it has, if any
  cands,     \* cands[r][i]: the runs whose candidate its agent has
  gathered,  \* gathered[r][i]: its own candidate was signalled
  own        \* own[r][i]: its inbox was made by itself (history)

inboxes == <<box, content, timers>>
setups == <<pc, left, held, creds, cands, gathered, own>>
vars == <<net, repeats, inboxes, setups>>

PC == {"idle", "signal", "creds", "ice", "quic", "up", "failed", "closed"}

\* Past the signal, which waits for a path without a deadline of its own.
Timed == {"creds", "ice", "quic"}
InProgress == {"signal"} \cup Timed

\* Enough for one inbox per run that reads, and the current one.
Box == 1..(MaxRepeats + 2)

BySide(S) == [Side -> [Setup -> S]]
ByRun(S) == [Run -> [Setup -> S]]
EachSide(v) == [d \in Side |-> [i \in Setup |-> v]]
EachRun(v) == [r \in Run |-> [i \in Setup |-> v]]

Signal == [to : Side, kind : {"offer", "answer", "cand"}, id : Setup, from : Run]

TypeOK ==
  /\ net \subseteq Signal /\ repeats \in 0..MaxRepeats
  /\ box \in BySide({0} \cup Box)
  /\ content \in BySide([Box -> SUBSET ({"answer", "cand"} \X Run)])
  /\ timers \in BySide(SUBSET (0..InboxLife))
  /\ pc \in ByRun(PC) /\ left \in ByRun(0..SetupLife) /\ held \in ByRun({0} \cup Box)
  /\ creds \in ByRun(SUBSET Run) /\ cands \in ByRun(SUBSET Run)
  /\ gathered \in ByRun(BOOLEAN) /\ own \in ByRun(BOOLEAN)

Init ==
  /\ net = {} /\ repeats = 0
  /\ box = EachSide(0) /\ content = EachSide([n \in Box |-> {}]) /\ timers = EachSide({})
  /\ pc = EachRun("idle") /\ left = EachRun(0) /\ held = EachRun(0)
  /\ creds = EachRun({}) /\ cands = EachRun({})
  /\ gathered = EachRun(FALSE) /\ own = EachRun(FALSE)
-----------------------------------------------------------------------------
(* The inbox of a setup *)

\* A channel that no run reads.
NewBox(d, i) == CHOOSE n \in Box : \A r \in Run : SideOf(r) = d => held[r][i] # n

\* Mutant: the timer runs for less than a setup.
IceInboxShort(d, i) ==
  IF box[d][i] = 0
  THEN /\ box' = [box EXCEPT ![d][i] = NewBox(d, i)]
       /\ timers' = [timers EXCEPT ![d][i] = @ \cup {SetupLife - 1}]
  ELSE UNCHANGED <<box, timers>>

\* Mutant: an inbox is left to the setup that uses it.
IceInboxUntimed(d, i) ==
  IF box[d][i] = 0
  THEN box' = [box EXCEPT ![d][i] = NewBox(d, i)] /\ UNCHANGED timers
  ELSE UNCHANGED <<box, timers>>

\* iceInbox
IceInbox(d, i) ==
  IF box[d][i] = 0
  THEN /\ box' = [box EXCEPT ![d][i] = NewBox(d, i)]
       /\ timers' = [timers EXCEPT ![d][i] = @ \cup {InboxLife}]
  ELSE UNCHANGED <<box, timers>>

\* A channel that is neither the inbox of its id nor read is gone.
Collected ==
  content' = [d \in Side |-> [i \in Setup |-> [n \in Box |->
                IF n = box'[d][i] \/ \E r \in Run : SideOf(r) = d /\ n = held'[r][i]
                THEN content[d][i][n] ELSE {}]]]

\* dropIceInbox, of whatever inbox the id has by now.
DropIceInbox(d, i) == box' = [box EXCEPT ![d][i] = 0]

TimerFires(d, i) ==
  /\ 0 \in timers[d][i]
  /\ timers' = [timers EXCEPT ![d][i] = @ \ {0}]
  /\ UNCHANGED setups /\ DropIceInbox(d, i) /\ Collected
  /\ UNCHANGED <<net, repeats>>
-----------------------------------------------------------------------------
(* A setup *)

GoTo(r, i, to) == pc' = [pc EXCEPT ![r][i] = to]

\* The beginning of dialDirect and acceptDirect.
Begin(r, i) ==
  /\ pc[r][i] = "idle"
  /\ GoTo(r, i, "signal")
  /\ IceInbox(SideOf(r), i)
  /\ held' = [held EXCEPT ![r][i] = box'[SideOf(r)][i]]
  /\ own' = [own EXCEPT ![r][i] = (box[SideOf(r)][i] = 0)]
  /\ left' = [left EXCEPT ![r][i] = SetupLife]
  /\ creds' = [creds EXCEPT ![r][i] = IF r = Dialer THEN {} ELSE {Dialer}]
  /\ UNCHANGED <<content, cands, gathered>>

DialDirect(i) == Begin(Dialer, i) /\ UNCHANGED <<net, repeats>>

\* setup returns, and with it the goroutine that reads the inbox.
Return(r, i, to) ==
  /\ GoTo(r, i, to)
  /\ held' = [held EXCEPT ![r][i] = 0] /\ Collected
  /\ left' = [left EXCEPT ![r][i] = 0] /\ cands' = [cands EXCEPT ![r][i] = {}]
  /\ UNCHANGED <<net, repeats, timers, creds, gathered, own>>

\* It returns an error: the deferred drop.
End(r, i) == DropIceInbox(SideOf(r), i) /\ Return(r, i, "failed")

\* Reticulum takes a signal (and may still lose it).
Sends(r, i, kind) ==
  net' = net \cup {[to |-> Other(SideOf(r)), kind |-> kind, id |-> i, from |-> r]}

\* The offer or the answer goes out, once there is a path to the peer.
SignalCreds(r, i) ==
  /\ pc[r][i] = "signal"
  /\ GoTo(r, i, "creds")
  /\ Sends(r, i, IF r = Dialer THEN "offer" ELSE "answer")
  /\ UNCHANGED <<repeats, inboxes, left, held, creds, cands, gathered, own>>

\* OnCandidate: the agent found a candidate of ours.
SignalCand(r, i) ==
  /\ pc[r][i] \in {"creds", "ice"} /\ ~gathered[r][i]
  /\ Cardinality({q \in Run : gathered[q][i]}) < MaxCands
  /\ gathered' = [gathered EXCEPT ![r][i] = TRUE]
  /\ Sends(r, i, "cand")
  /\ UNCHANGED <<repeats, inboxes, pc, left, held, creds, cands, own>>

\* The goroutine that reads the inbox.  The first answer counts.
TakeSignal(r, i) ==
  /\ pc[r][i] \in Timed
  /\ \E s \in content[SideOf(r)][i][held[r][i]] :
       /\ content' = [content EXCEPT ![SideOf(r)][i][held[r][i]] = @ \ {s}]
       /\ creds' = [creds EXCEPT ![r][i] = IF s[1] = "answer" /\ @ = {} THEN {s[2]} ELSE @]
       /\ cands' = [cands EXCEPT ![r][i] = IF s[1] = "cand" THEN @ \cup {s[2]} ELSE @]
  /\ UNCHANGED <<net, repeats, box, timers, pc, left, held, gathered, own>>

HasCreds(r, i) ==
  /\ pc[r][i] = "creds" /\ creds[r][i] # {}
  /\ GoTo(r, i, "ice")
  /\ UNCHANGED <<net, repeats, inboxes, left, held, creds, cands, gathered, own>>

\* The two have each other's credentials, and candidates of one side: enough.
Paths(r, q, i) ==
  /\ r \in creds[q][i] /\ q \in creds[r][i]
  /\ r \in cands[q][i] \/ q \in cands[r][i]

IceConnects(r, i) ==
  /\ pc[r][i] = "ice"
  /\ \E q \in Run : pc[q][i] \in {"ice", "quic"} /\ Paths(r, q, i)
  /\ GoTo(r, i, "quic")
  /\ UNCHANGED <<net, repeats, inboxes, left, held, creds, cands, gathered, own>>

\* The QUIC handshake, the stream and the check of the fingerprint.  The
\* dialer is done first: the stream reaches the peer with its first bytes.
\* dialDirect drops the inbox now, acceptDirect after the session.
DialerUp(i) ==
  /\ pc[Dialer][i] = "quic"
  /\ \E a \in creds[Dialer][i] : pc[a][i] = "quic"
  /\ DropIceInbox("dialer", i) /\ Return(Dialer, i, "up")

AccepterUp(a, i) ==
  /\ pc[a][i] = "quic"
  /\ pc[Dialer][i] = "up" /\ a \in creds[Dialer][i]
  /\ UNCHANGED box /\ Return(a, i, "up")

\* A signal cannot be sent, the handshake or the check fails, or the caller
\* gives up.
Fails(r, i) == pc[r][i] \in InProgress /\ End(r, i)

\* Mutant: nothing ends the wait for the answer.
TimeOutAnswered(r, i) ==
  /\ pc[r][i] \in Timed /\ left[r][i] = 0
  /\ creds[r][i] # {}
  /\ End(r, i)

\* Options.Timeout counts from the start, but the signal does not heed it.
TimeOut(r, i) ==
  /\ pc[r][i] \in Timed /\ left[r][i] = 0
  /\ End(r, i)

\* The accepter's session is over.
Closed(a, i) ==
  /\ pc[a][i] = "up"
  /\ GoTo(a, i, "closed")
  /\ UNCHANGED held /\ DropIceInbox("accepter", i) /\ Collected
  /\ UNCHANGED <<net, repeats, timers, left, creds, cands, gathered, own>>
-----------------------------------------------------------------------------
(* Signals and time *)

\* The signal is used up, or will be there once more.  One that is never
\* delivered is lost.
Taken(m) ==
  \/ net' = net \ {m} /\ UNCHANGED repeats
  \/ repeats < MaxRepeats /\ repeats' = repeats + 1 /\ UNCHANGED net

\* rnsInbox: an offer is answered by a run of its own, the rest is put into the
\* inbox of its id.
Deliver(m) ==
  /\ m \in net /\ Taken(m)
  /\ \/ /\ m.kind = "offer"
        /\ \E a \in Accepter : /\ \A q \in Accepter : pc[q][m.id] = "idle" => a <= q
                               /\ Begin(a, m.id)
     \/ /\ m.kind # "offer"
        /\ IceInbox(m.to, m.id)
        /\ content' = [content EXCEPT ![m.to][m.id][box'[m.to][m.id]] =
                         @ \cup {<<m.kind, m.from>>}]
        /\ UNCHANGED setups

Overdue == \/ \E d \in Side, i \in Setup : 0 \in timers[d][i]
           \/ \E r \in Run, i \in Setup : pc[r][i] \in Timed /\ left[r][i] = 0

\* Timers fire when they are due.
Tick ==
  /\ ~Overdue
  /\ timers' = [d \in Side |-> [i \in Setup |-> {t - 1 : t \in timers[d][i]}]]
  /\ left' = [r \in Run |-> [i \in Setup |->
                IF pc[r][i] \in InProgress /\ left[r][i] > 0 THEN left[r][i] - 1 ELSE left[r][i]]]
  /\ UNCHANGED <<net, repeats, box, content, pc, held, creds, cands, gathered, own>>

Step(r, i) ==
  \/ SignalCreds(r, i) \/ SignalCand(r, i) \/ TakeSignal(r, i) \/ HasCreds(r, i)
  \/ IceConnects(r, i) \/ Fails(r, i) \/ TimeOut(r, i)

Next ==
  \/ \E i \in Setup : \/ DialDirect(i) \/ DialerUp(i)
                      \/ \E a \in Accepter : AccepterUp(a, i) \/ Closed(a, i)
                      \/ \E r \in Run : Step(r, i)
                      \/ \E d \in Side : TimerFires(d, i)
  \/ \E m \in net : Deliver(m)
  \/ Tick

Spec == Init /\ [][Next]_vars

\* What Tick waits for.
Due == \/ \E r \in Run, i \in Setup : TimeOut(r, i)
       \/ \E d \in Side, i \in Setup : TimerFires(d, i)

\* Time passes and timers fire; nothing else need ever happen.
FairSpec == Spec /\ WF_vars(Tick \/ Due)
-----------------------------------------------------------------------------
(* Properties *)

\* r is the only run that its side has seen of setup i.
Alone(r, i) == \A q \in Run : SideOf(q) = SideOf(r) /\ q # r => pc[q][i] = "idle"

\* A setup hears the signals that arrive within its time: the inbox it made
\* stays the inbox of its id, unless a repeated offer starts a second run,
\* whose end drops it.  (A run that found an inbox, made by candidates that
\* overtook the offer, may lose it to a timer that started with them: signals
\* up to five minutes old are taken, internal/rns/rns.go:283.)
SetupHears ==
  \A r \in Run, i \in Setup :
    pc[r][i] \in InProgress /\ left[r][i] > 0 /\ own[r][i] /\ Alone(r, i)
      => box[SideOf(r)][i] = held[r][i] /\ held[r][i] # 0

\* No inbox stays behind, whatever arrives after its setup ended, or without
\* any setup at all, and also when a setup never ends.
InboxesGo == <>[](\A d \in Side, i \in Setup : box[d][i] = 0)

\* A setup that could send its offer or answer ends, on both sides, whatever is
\* lost after that.
SetupsEnd ==
  \A r \in Run, i \in Setup : pc[r][i] \in Timed ~> pc[r][i] \notin InProgress
=============================================================================
