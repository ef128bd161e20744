------------------------------- MODULE TapPair -------------------------------
(***************************************************************************)
(* Tap pairing (internal/daemon/tappair.go): two devices meet over a TLS   *)
(* connection without pinning, each shows the code, each user answers on   *)
(* their own device, and a device is saved when both said yes.  Both users *)
(* may tap at once, so several pairings between the two may be under way.  *)
(***************************************************************************)
EXTENDS Integers, Sequences

CONSTANTS
  Pairing,    \* pairings, each over a connection of its own
  Nothing     \* no answer

Side == {"caller", "called"}
Other(x) == IF x = "caller" THEN "called" ELSE "caller"

ASSUME TapConstantsOK == Nothing \notin BOOLEAN

VARIABLES
  pc,         \* pc[p][x]: where side x of pairing p is
  chan,       \* chan[p][x]: messages on their way to side x
  up,         \* up[p]: the connection is open
  decide,     \* decide[p][x]: pendingPair.decide, a channel of capacity one
  localYes, remoteYes,
  trusted,    \* trusted[x]: the device of side x trusts the other
  answer,     \* history: answer[p][x]: the first answer of the user
  asked,      \* asked[p][x]: ConfirmPair calls waiting for the outcome
  fault       \* fault[p]: history: something other than an answer ended a side

vars == <<pc, chan, up, decide, localYes, remoteYes, trusted, answer, asked, fault>>
Answers == BOOLEAN \cup {Nothing}

TypeOK ==
  /\ pc \in [Pairing -> [Side -> {"start", "request", "wait", "save", "paired", "failed"}]]
  /\ chan \in [Pairing -> [Side -> Seq({"request", "yes", "no"})]]
  /\ up \in [Pairing -> BOOLEAN]
  /\ decide \in [Pairing -> [Side -> Answers]]
  /\ localYes \in [Pairing -> [Side -> BOOLEAN]]
  /\ remoteYes \in [Pairing -> [Side -> BOOLEAN]]
  /\ trusted \in [Side -> BOOLEAN]
  /\ answer \in [Pairing -> [Side -> Answers]]
  /\ asked \in [Pairing -> [Side -> BOOLEAN]]
  /\ fault \in [Pairing -> BOOLEAN]

Each(v) == [p \in Pairing |-> [x \in Side |-> v]]

Init ==
  /\ pc = Each("start") /\ chan = Each(<<>>)
  /\ up = [p \in Pairing |-> FALSE]
  /\ decide = Each(Nothing) /\ localYes = Each(FALSE) /\ remoteYes = Each(FALSE)
  /\ trusted = [x \in Side |-> FALSE]
  /\ answer = Each(Nothing) /\ asked = Each(FALSE)
  /\ fault = [p \in Pairing |-> FALSE]

Done(p, x) == pc[p][x] \in {"paired", "failed"}
GoTo(p, x, to) == pc' = [pc EXCEPT ![p][x] = to]
Write(p, x, m) == chan' = [chan EXCEPT ![p][Other(x)] = IF up[p] THEN Append(@, m) ELSE @]

\* Mutant: the caller of ConfirmPair is not told.
FinishSilently(p, x, to) ==
  /\ GoTo(p, x, to)
  /\ decide' = [decide EXCEPT ![p][x] = Nothing]
  /\ up' = [up EXCEPT ![p] = FALSE]
  /\ UNCHANGED asked

\* The outcome is set, the pairing forgotten, done closed and, in the caller
\* of tapPairSession, the connection: ConfirmPair returns.
Finish(p, x, to) ==
  /\ GoTo(p, x, to)
  /\ asked' = [asked EXCEPT ![p][x] = FALSE]
  /\ decide' = [decide EXCEPT ![p][x] = Nothing]
  /\ up' = [up EXCEPT ![p] = FALSE]
-----------------------------------------------------------------------------
(* The exchange of requests *)

\* PairWith: dial, send the request, read the other's.
Dial(p) ==
  /\ pc[p]["caller"] = "start"
  /\ up' = [up EXCEPT ![p] = TRUE]
  /\ pc' = [pc EXCEPT ![p] = [x \in Side |-> "request"]]
  /\ chan' = [chan EXCEPT ![p]["called"] = <<"request">>]
  /\ UNCHANGED <<decide, localYes, remoteYes, trusted, answer, asked, fault>>

\* readPairRequest; the called side answers with its own request.  The pairing
\* is registered and its code shown.
ReadRequest(p, x) ==
  /\ pc[p][x] = "request" /\ chan[p][x] # <<>>
  /\ chan' = [chan EXCEPT ![p][x] = Tail(@),
                          ![p][Other(x)] = IF x = "called" /\ up[p]
                                           THEN Append(@, "request") ELSE @]
  /\ GoTo(p, x, "wait")
  /\ UNCHANGED <<up, decide, localYes, remoteYes, trusted, answer, asked, fault>>
-----------------------------------------------------------------------------
(* The answers *)

\* ConfirmPair: the first answer is buffered, a later one is not heard; both
\* wait for the outcome.
ConfirmPair(p, x, ok) ==
  /\ pc[p][x] = "wait" /\ ~asked[p][x]
  /\ decide' = [decide EXCEPT ![p][x] = IF answer[p][x] = Nothing THEN ok ELSE @]
  /\ answer' = [answer EXCEPT ![p][x] = IF @ = Nothing THEN ok ELSE @]
  /\ asked' = [asked EXCEPT ![p][x] = TRUE]
  /\ UNCHANGED <<pc, chan, up, localYes, remoteYes, trusted, fault>>

\* The caller of ConfirmPair gives up waiting; its answer stands.
AskerLeaves(p, x) ==
  /\ asked[p][x]
  /\ asked' = [asked EXCEPT ![p][x] = FALSE]
  /\ UNCHANGED <<pc, chan, up, decide, localYes, remoteYes, trusted, answer, fault>>

\* Mutant: one yes is taken for both.
EitherYes(l, r) == l \/ r

BothYes(l, r) == l /\ r

\* awaitAnswers takes the local answer: a write that fails ends it.
TakeLocal(p, x) ==
  /\ pc[p][x] = "wait" /\ decide[p][x] # Nothing
  /\ \/ /\ ~up[p] /\ Finish(p, x, "failed")
        /\ UNCHANGED <<chan, localYes>>
     \/ /\ decide[p][x] = FALSE
        /\ Write(p, x, "no")
        /\ Finish(p, x, "failed")
        /\ UNCHANGED localYes
     \/ /\ decide[p][x] = TRUE
        /\ Write(p, x, "yes")
        /\ localYes' = [localYes EXCEPT ![p][x] = TRUE]
        /\ decide' = [decide EXCEPT ![p][x] = Nothing]
        /\ GoTo(p, x, IF BothYes(TRUE, remoteYes[p][x]) THEN "save" ELSE "wait")
        /\ UNCHANGED <<up, asked>>
  /\ UNCHANGED <<remoteYes, trusted, answer, fault>>

\* ... and the remote one, from the reader goroutine: an error or anything but
\* a yes is a no.
TakeRemote(p, x) ==
  /\ pc[p][x] = "wait" /\ ~remoteYes[p][x]
  /\ \/ /\ chan[p][x] # <<>> /\ Head(chan[p][x]) = "yes"
        /\ chan' = [chan EXCEPT ![p][x] = Tail(@)]
        /\ remoteYes' = [remoteYes EXCEPT ![p][x] = TRUE]
        /\ GoTo(p, x, IF BothYes(localYes[p][x], TRUE) THEN "save" ELSE "wait")
        /\ UNCHANGED <<up, decide, asked>>
     \/ /\ IF chan[p][x] = <<>> THEN ~up[p] ELSE Head(chan[p][x]) # "yes"
        /\ Finish(p, x, "failed")
        /\ UNCHANGED <<chan, remoteYes>>
  /\ UNCHANGED <<localYes, trusted, answer, fault>>

\* AddDevice
Save(p, x) ==
  /\ pc[p][x] = "save"
  /\ trusted' = [trusted EXCEPT ![x] = TRUE]
  /\ Finish(p, x, "paired")
  /\ UNCHANGED <<chan, localYes, remoteYes, answer, fault>>
-----------------------------------------------------------------------------
(* What else may end a side *)

Fail(p, x) ==
  /\ Finish(p, x, "failed")
  /\ fault' = [fault EXCEPT ![p] = TRUE]
  /\ UNCHANGED <<chan, localYes, remoteYes, trusted, answer>>

\* tapPairTimeout, or the deadline of readPairRequest.
TimeOut(p, x) == pc[p][x] \in {"request", "wait"} /\ Fail(p, x)

\* The context is cancelled: noticed while the answers are awaited.
GiveUp(p, x) == pc[p][x] = "wait" /\ Fail(p, x)

\* AddDevice cannot write the list; the device stays in it in memory.
SaveFails(p, x) ==
  /\ pc[p][x] = "save"
  /\ trusted' = [trusted EXCEPT ![x] = TRUE]
  /\ Finish(p, x, "failed")
  /\ fault' = [fault EXCEPT ![p] = TRUE]
  /\ UNCHANGED <<chan, localYes, remoteYes, answer>>

\* The connection breaks; messages on their way may be lost.
Drop(p) ==
  /\ up[p]
  /\ up' = [up EXCEPT ![p] = FALSE]
  /\ fault' = [fault EXCEPT ![p] = TRUE]
  /\ chan' \in {chan, [chan EXCEPT ![p] = [x \in Side |-> <<>>]]}
  /\ UNCHANGED <<pc, decide, localYes, remoteYes, trusted, answer, asked>>

\* A read of the other's request fails.
RequestFails(p, x) ==
  /\ pc[p][x] = "request" /\ chan[p][x] = <<>> /\ ~up[p]
  /\ Finish(p, x, "failed")
  /\ UNCHANGED <<chan, localYes, remoteYes, trusted, answer, fault>>

Run(p, x) == ReadRequest(p, x) \/ RequestFails(p, x) \/ TakeLocal(p, x)
               \/ TakeRemote(p, x) \/ Save(p, x)

Next ==
  \E p \in Pairing :
    \/ Dial(p) \/ Drop(p)
    \/ \E x \in Side : \/ Run(p, x) \/ TimeOut(p, x) \/ GiveUp(p, x) \/ SaveFails(p, x)
                       \/ AskerLeaves(p, x)
                       \/ \E ok \in BOOLEAN : ConfirmPair(p, x, ok)

Spec == Init /\ [][Next]_vars

\* The goroutines keep running and the timers fire: some side moves as long as
\* one can.  Each has finitely many moves, so all of them get their turn.
FairSpec ==
  Spec /\ WF_vars(\E p \in Pairing : \E x \in Side : Run(p, x) \/ TimeOut(p, x))
-----------------------------------------------------------------------------
(* Properties *)

\* "A device is saved only when both said yes" (tappair.go:23): in one and the
\* same pairing, and with the answers the users gave first.
SavedOnlyIfBothYes ==
  \A x \in Side : trusted[x] =>
    \E p \in Pairing : \A y \in Side : answer[p][y] = TRUE

\* The two sides of a pairing end the same way unless a timer, a cancelled
\* request, a failed save or a broken connection came in between: the order in
\* which answers are given, sent and read, and the connection one side closes
\* when it is done, never leave only one device paired.
SidesAgree ==
  \A p \in Pairing :
    Done(p, "caller") /\ Done(p, "called") /\ ~fault[p] =>
      pc[p]["caller"] = pc[p]["called"]

\* ConfirmPair returns.
ConfirmReturns ==
  \A p \in Pairing : \A x \in Side : asked[p][x] ~> ~asked[p][x]
=============================================================================
