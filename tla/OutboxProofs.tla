---------------------------- MODULE OutboxProofs ----------------------------
(***************************************************************************)
(* The queue is what waits and no kick is lost, for any number of items.   *)
(***************************************************************************)
EXTENDS Outbox, SequenceTheorems, TLAPS

NoRepeats(q) == \A j, k \in DOMAIN q : q[j] = q[k] => j = k

\* Appending a new element, and removing one, from a sequence without repeats.
LEMMA Appended ==
  ASSUME NEW S, NEW q \in Seq(S), NEW i \in S
  PROVE  /\ Append(q, i) \in Seq(S)
         /\ Range(Append(q, i)) = Range(q) \cup {i}
         /\ NoRepeats(q) /\ i \notin Range(q) => NoRepeats(Append(q, i))
<1>1. /\ Append(q, i) \in Seq(S) /\ Len(q) \in Nat
      /\ DOMAIN q = 1..Len(q) /\ DOMAIN Append(q, i) = 1..(Len(q) + 1)
      /\ \A k \in 1..Len(q) : Append(q, i)[k] = q[k]
      /\ Append(q, i)[Len(q) + 1] = i
  BY AppendProperties, LenProperties
<1> QED
  BY <1>1 DEF Range, NoRepeats

\* Without takes exactly that element out and keeps the others in order.
LEMMA Removed ==
  ASSUME NEW S, NEW q \in Seq(S), NoRepeats(q), NEW i \in Range(q)
  PROVE  /\ Without(q, i) \in Seq(S)
         /\ Range(Without(q, i)) = Range(q) \ {i}
         /\ NoRepeats(Without(q, i))
<1> DEFINE k == CHOOSE j \in DOMAIN q : q[j] = i
           r == Without(q, i)
<1>1. Len(q) \in Nat /\ DOMAIN q = 1..Len(q)
  BY LenProperties
<1>2. k \in 1..Len(q) /\ q[k] = i
  BY <1>1 DEF Range
<1>3. r = SubSeq(q, 1, k - 1) \o SubSeq(q, k + 1, Len(q))
  BY DEF Without
<1> HIDE DEF k, r
<1>4. /\ SubSeq(q, 1, k - 1) \in Seq(S) /\ Len(SubSeq(q, 1, k - 1)) = k - 1
      /\ \A j \in 1..(k - 1) : SubSeq(q, 1, k - 1)[j] = q[j]
  BY <1>1, <1>2, SubSeqProperties
<1>5. /\ SubSeq(q, k + 1, Len(q)) \in Seq(S)
      /\ Len(SubSeq(q, k + 1, Len(q))) = Len(q) - k
      /\ \A j \in 1..(Len(q) - k) : SubSeq(q, k + 1, Len(q))[j] = q[k + j]
  <2>1. k + 1 \in Int /\ Len(q) \in Int /\ \A j \in (k + 1)..Len(q) : q[j] \in S
    BY <1>1, <1>2
  <2>2. PICK v : v = SubSeq(q, k + 1, Len(q))
    BY Zenon
  <2>3. PICK n : n = Len(v)
    BY Zenon
  <2>4. /\ v \in Seq(S)
        /\ n = IF k + 1 <= Len(q) THEN Len(q) - (k + 1) + 1 ELSE 0
        /\ \A j \in 1..(Len(q) - (k + 1) + 1) : v[j] = q[(k + 1) + j - 1]
    BY <2>1, <2>2, <2>3, SubSeqProperties, SMTT(30)
  <2>5. n = Len(q) - k
    <3>1. PICK l \in Nat : l = Len(q)
      BY <1>1, ZenonT(30)
    <3>2. n = (IF k + 1 <= l THEN l - (k + 1) + 1 ELSE 0) /\ k \in 1..l
      BY <1>2, <2>4, <3>1
    <3>3. n = l - k
      BY <3>2
    <3> QED
      BY <3>1, <3>3
  <2>6. ASSUME NEW j \in 1..(Len(q) - k)
        PROVE  v[j] = q[k + j]
    <3>1. j \in 1..(Len(q) - (k + 1) + 1) /\ (k + 1) + j - 1 = k + j
      BY <1>1, <1>2
    <3> QED
      BY <2>4, <3>1
  <2> QED
    BY <2>2, <2>3, <2>4, <2>5, <2>6
<1>6. /\ r \in Seq(S) /\ Len(r) = Len(q) - 1 /\ DOMAIN r = 1..(Len(q) - 1)
      /\ \A j \in 1..(Len(q) - 1) : r[j] = IF j < k THEN q[j] ELSE q[j + 1]
  <2> DEFINE u == SubSeq(q, 1, k - 1)
             v == SubSeq(q, k + 1, Len(q))
  <2>1. /\ u \in Seq(S) /\ Len(u) = k - 1 /\ \A j \in 1..(k - 1) : u[j] = q[j]
        /\ v \in Seq(S) /\ Len(v) = Len(q) - k /\ \A j \in 1..(Len(q) - k) : v[j] = q[k + j]
        /\ r = u \o v
    BY <1>3, <1>4, <1>5
  <2> HIDE DEF u, v
  <2>2. /\ u \o v \in Seq(S) /\ Len(u \o v) = Len(u) + Len(v)
        /\ \A j \in 1..(Len(u) + Len(v)) :
             (u \o v)[j] = IF j <= Len(u) THEN u[j] ELSE v[j - Len(u)]
    BY <2>1, ConcatProperties, ZenonT(30)
  <2>3. Len(r) = Len(q) - 1 /\ r \in Seq(S) /\ DOMAIN r = 1..(Len(q) - 1)
    <3>1. r \in Seq(S) /\ Len(r) = (k - 1) + (Len(q) - k)
      BY <2>1, <2>2
    <3>2. (k - 1) + (Len(q) - k) = Len(q) - 1
      BY <1>1, <1>2
    <3> QED
      BY <3>1, <3>2, LenProperties, SMTT(30)
  <2>4. ASSUME NEW j \in 1..(Len(q) - 1)
        PROVE  r[j] = IF j < k THEN q[j] ELSE q[j + 1]
    <3>1. j \in 1..(Len(u) + Len(v))
      BY <1>1, <1>2, <2>1
    <3>2. CASE j < k
      BY <1>1, <1>2, <2>1, <2>2, <3>1, <3>2, SMTT(30)
    <3>3. CASE ~(j < k)
      <4>1. r[j] = v[j - (k - 1)]
        BY <1>1, <1>2, <2>1, <2>2, <3>1, <3>3, SMTT(30)
      <4>2. j - (k - 1) \in 1..(Len(q) - k) /\ k + (j - (k - 1)) = j + 1
        BY <1>1, <1>2, <3>3
      <4>3. v[j - (k - 1)] = q[k + (j - (k - 1))]
        BY <2>1, <4>2, Zenon
      <4> QED
        BY <3>3, <4>1, <4>2, <4>3
    <3> QED
      BY <3>2, <3>3
  <2> QED
    BY <2>3, <2>4
<1>7. Range(r) = Range(q) \ {i}
  <2>1. ASSUME NEW x \in Range(r)
        PROVE  x \in Range(q) \ {i}
    BY <1>1, <1>2, <1>6, <2>1, SMTT(30) DEF Range, NoRepeats
  <2>2. ASSUME NEW x \in Range(q), x # i
        PROVE  x \in Range(r)
    <3>1. PICK j \in 1..Len(q) : q[j] = x
      BY <1>1, <2>2 DEF Range
    <3>2. CASE j < k
      <4>1. j \in DOMAIN r /\ r[j] = x
        BY <1>1, <1>2, <1>6, <3>1, <3>2
      <4> QED
        BY <4>1 DEF Range
    <3>3. CASE j > k
      <4>1. j - 1 \in DOMAIN r /\ r[j - 1] = x
        BY <1>1, <1>2, <1>6, <3>1, <3>3, SMTT(30)
      <4> QED
        BY <4>1 DEF Range
    <3> QED
      BY <1>2, <2>2, <3>1, <3>2, <3>3
  <2> QED
    BY <2>1, <2>2
<1>8. NoRepeats(r)
  <2> SUFFICES ASSUME NEW j \in DOMAIN r, NEW l \in DOMAIN r, r[j] = r[l]
               PROVE  j = l
    BY DEF NoRepeats
  <2>1. PICK a \in DOMAIN q : a = (IF j < k THEN j ELSE j + 1) /\ r[j] = q[a]
    BY <1>1, <1>2, <1>6
  <2>2. PICK c \in DOMAIN q : c = (IF l < k THEN l ELSE l + 1) /\ r[l] = q[c]
    BY <1>1, <1>2, <1>6
  <2>3. a = c
    BY <2>1, <2>2, ZenonT(30) DEF NoRepeats
  <2> QED
    BY <1>1, <1>2, <1>6, <2>1, <2>2, <2>3, SMTT(30)
<1> QED
  BY <1>6, <1>7, <1>8 DEF r

\* The first element of a sequence, and the others.
LEMMA HeadAndTail ==
  ASSUME NEW S, NEW q \in Seq(S), q # <<>>
  PROVE  /\ Head(q) \in S /\ Tail(q) \in Seq(S)
         /\ Range(q) = Range(Tail(q)) \cup {Head(q)}
         /\ NoRepeats(q) => NoRepeats(Tail(q)) /\ Head(q) \notin Range(Tail(q))
<1>1. PICK h, t : h = Head(q) /\ t = Tail(q)
  BY Zenon
<1>2. /\ Len(q) \in Nat /\ Len(q) # 0 /\ DOMAIN q = 1..Len(q)
      /\ h \in S /\ h = q[1] /\ t \in Seq(S)
      /\ DOMAIN t = 1..(Len(q) - 1)
      /\ \A k \in 1..(Len(q) - 1) : t[k] = q[k + 1]
  BY <1>1, HeadTailProperties, LenProperties, EmptySeq
<1>3. ASSUME NEW x \in Range(q), x # h
      PROVE  x \in Range(t)
  <2>1. PICK k \in 1..Len(q) : q[k] = x
    BY <1>2, <1>3 DEF Range
  <2>2. k - 1 \in DOMAIN t /\ t[k - 1] = x
    BY <1>2, <1>3, <2>1
  <2> QED
    BY <2>2, ZenonT(30) DEF Range
<1>4. h \in Range(q) /\ \A x \in Range(t) : x \in Range(q)
  <2>1. 1 \in DOMAIN q /\ \A k \in DOMAIN t : k + 1 \in DOMAIN q /\ t[k] = q[k + 1]
    BY <1>2
  <2> QED
    BY <1>2, <2>1, ZenonT(30) DEF Range
<1>5. ASSUME NoRepeats(q)
      PROVE  NoRepeats(t) /\ h \notin Range(t)
  <2>1. \A j, k \in 1..Len(q) : q[j] = q[k] => j = k
    BY <1>2, <1>5, Zenon DEF NoRepeats
  <2>2. \A k \in DOMAIN t : k + 1 \in 1..Len(q) /\ t[k] = q[k + 1] /\ k + 1 # 1 /\ k \in Int
    BY <1>2
  <2>3. \A k \in DOMAIN t : t[k] # h
    BY <1>2, <2>1, <2>2
  <2>4. \A j, k \in DOMAIN t : t[j] = t[k] => j + 1 = k + 1
    BY <2>1, <2>2, ZenonT(30)
  <2>5. \A j, k \in DOMAIN t : j + 1 = k + 1 => j = k
    BY <2>2
  <2> QED
    BY <2>3, <2>4, <2>5, ZenonT(30) DEF NoRepeats, Range
<1> QED
  BY <1>1, <1>2, <1>3, <1>4, <1>5
-----------------------------------------------------------------------------
\* The queue holds requests answered "queued", each once; nothing else has an
\* outcome, was taken off by the user or is waited for since a signal.
QueueInv ==
  /\ queue \in Seq(Item) /\ NoRepeats(queue)
  /\ req = [i \in Item |-> req[i]] /\ outcome = [i \in Item |-> outcome[i]]
  /\ \A i \in Item : \/ Queued(i) \/ outcome[i] # "none" \/ i \in unqueued \/ i \in heard
                     => req[i] = "queued"
  /\ heard \subseteq Item
  /\ ~unsaved =>
       \A i \in Item : Queued(i) <=> /\ req[i] = "queued"
                                     /\ outcome[i] = "none"
                                     /\ i \notin unqueued

\* The runner's snapshot: the item being sent was heard again only with a kick
\* for the next pass.
RunnerInv ==
  /\ todo \in Seq(Item)
  /\ runner = "sending" => todo # <<>> /\ (Head(todo) \in heard => kick)
  /\ KickPending

OutInv == QueueInv /\ RunnerInv

\* A daemon starts with a runner that waits, or with none.
LEMMA FirstRunners == \A w \in FirstRunner : w \in {"idle", "none"}
  BY OutboxConstantsOK DEF FirstRunner

\* The daemon starts with an empty queue.
LEMMA InitOutInv ==
  ASSUME Init
  PROVE  OutInv
<1>1. queue = <<>> /\ todo = <<>> /\ heard = {} /\ unqueued = {} /\ runner # "sending"
      /\ req = [i \in Item |-> "new"] /\ outcome = [i \in Item |-> "none"]
  BY FirstRunners DEF Init
<1>2. Range(queue) = {} /\ queue \in Seq(Item) /\ NoRepeats(queue)
  BY <1>1, EmptySeq DEF Range, NoRepeats
<1>3. QueueInv
  BY <1>1, <1>2 DEF QueueInv, Queued
<1>4. RunnerInv
  BY <1>1, EmptySeq DEF RunnerInv, KickPending
<1> QED
  BY <1>3, <1>4 DEF OutInv

\* What an append to the queue, perhaps not saved, does.
LEMMA Enqueues ==
  ASSUME QueueInv, NEW i \in Item, req[i] # "queued",
         req' = [req EXCEPT ![i] = "queued"], SaveQueue(Append(queue, i)),
         UNCHANGED <<outcome, unqueued, heard>>
  PROVE  QueueInv' /\ (\A j \in heard : Queued(j)' => Queued(j))
<1>1. /\ Append(queue, i) \in Seq(Item) /\ Range(Append(queue, i)) = Range(queue) \cup {i}
      /\ i \notin Range(queue) /\ i \notin heard
      /\ NoRepeats(Append(queue, i)) /\ outcome[i] = "none" /\ i \notin unqueued
  BY Appended DEF QueueInv, Queued
<1>2. CASE queue' = Append(queue, i) /\ UNCHANGED unsaved
  BY <1>1, <1>2, Zenon DEF QueueInv, Queued
<1>3. CASE UNCHANGED queue /\ unsaved'
  BY <1>1, <1>3 DEF QueueInv, Queued
<1> QED
  BY <1>2, <1>3 DEF SaveQueue

\* What taking an item off the queue does, recorded as removed or resolved.
LEMMA Dequeues ==
  ASSUME QueueInv, NEW i \in Item, Queued(i), SaveQueue(Without(queue, i)),
         UNCHANGED <<req, heard>>,
         \/ unqueued' = unqueued \cup {i} /\ UNCHANGED outcome
         \/ \E r \in Result : outcome' = [outcome EXCEPT ![i] = r] /\ UNCHANGED unqueued
  PROVE  QueueInv' /\ (\A j \in heard : Queued(j)' => Queued(j))
<1>1. /\ Without(queue, i) \in Seq(Item) /\ Range(Without(queue, i)) = Range(queue) \ {i}
      /\ NoRepeats(Without(queue, i)) /\ req[i] = "queued"
  BY Removed DEF QueueInv, Queued
<1>2. /\ \A j \in Item : outcome'[j] # "none" \/ j \in unqueued' => req[j] = "queued"
      /\ outcome' = [j \in Item |-> outcome'[j]]
      /\ \A j \in Item : outcome'[j] = "none" /\ j \notin unqueued' <=>
                           outcome[j] = "none" /\ j \notin unqueued /\ j # i
  <2>1. "none" \notin Result
    BY DEF Result
  <2> QED
    BY <1>1, <2>1 DEF QueueInv
<1>3. CASE queue' = Without(queue, i) /\ UNCHANGED unsaved
  BY <1>1, <1>2, <1>3 DEF QueueInv, Queued
<1>4. CASE UNCHANGED queue /\ unsaved'
  BY <1>1, <1>2, <1>4 DEF QueueInv, Queued
<1> QED
  BY <1>3, <1>4 DEF SaveQueue

\* Steps that touch neither the runner nor a signal: no item heard becomes
\* queued by them.
LEMMA RunnerStays ==
  ASSUME RunnerInv, UNCHANGED <<todo, runner, kick, heard>>, stopping => stopping',
         \A j \in heard : Queued(j)' => Queued(j)
  PROVE  RunnerInv'
  BY DEF RunnerInv, KickPending

\* Requests and `adrop queue rm`.
LEMMA RequestsKeep ==
  ASSUME OutInv, NEW i \in Item,
         \/ Submit(i) \/ Abort(i) \/ RequestStep(i) \/ Reach(i) \/ PeerTakes(i)
         \/ HubDelivers(i) \/ HubLoses(i) \/ Unqueue(i)
  PROVE  OutInv'
<1> USE DEF OutInv, memory, history
<1>1. UNCHANGED <<todo, runner, kick, heard, stopping>>
  BY ZenonT(30) DEF Submit, Abort, RequestStep, Answer, HubAcked, HubGivesUp, Reach,
     PeerTakes, HubDelivers, HubLoses, Unqueue
<1> SUFFICES QueueInv' /\ \A j \in heard : Queued(j)' => Queued(j)
  BY <1>1, RunnerStays
<1>2. CASE Submit(i) \/ HubAcked(i)
  BY <1>2, SMTT(30) DEF Submit, HubAcked, QueueInv, Queued
<1>3. CASE Abort(i) \/ Reach(i) \/ PeerTakes(i) \/ HubDelivers(i) \/ HubLoses(i)
  BY <1>3, Zenon DEF Abort, Reach, PeerTakes, HubDelivers, HubLoses, QueueInv, Queued
<1>4. ASSUME NEW r \in Result, Answer(i, r)
      PROVE  QueueInv' /\ \A j \in heard : Queued(j)' => Queued(j)
  <2>1. req[i] = "sending" /\ UNCHANGED <<outcome, unqueued>>
    BY <1>4 DEF Answer
  <2>2. CASE /\ \E a \in {"sent", "error", "hub"} : req' = [req EXCEPT ![i] = a]
             /\ UNCHANGED <<queue, unsaved>>
    BY <1>1, <2>1, <2>2 DEF QueueInv, Queued
  <2>3. CASE req' = [req EXCEPT ![i] = "queued"] /\ SaveQueue(Append(queue, i))
    BY <1>1, <2>1, <2>3, Enqueues, ZenonT(30)
  <2> QED
    BY <1>4, <2>2, <2>3, ZenonT(30) DEF Answer
<1>5. CASE HubGivesUp(i)
  BY <1>1, <1>5, Enqueues, ZenonT(30) DEF HubGivesUp
<1>6. CASE Unqueue(i)
  BY <1>1, <1>6, Dequeues DEF Unqueue
<1> QED
  BY <1>2, <1>3, <1>4, <1>5, <1>6, SMTT(30) DEF RequestStep

\* After an attempt: the queue on disk is read again and saved, the snapshot
\* moves on.
LEMMA RetryDoneKeeps ==
  ASSUME OutInv, NEW r \in Result, RetryDone(r)
  PROVE  OutInv'
<1> DEFINE i == Head(todo)
<1>1. /\ runner = "sending" /\ runner' = "pass" /\ todo' = Tail(todo)
      /\ UNCHANGED <<req, kick, stopping, heard, unqueued>>
      /\ \/ /\ Queued(i) /\ SaveQueue(Without(queue, i))
            /\ outcome' = [outcome EXCEPT ![i] = r]
         \/ SaveQueue(queue) /\ UNCHANGED outcome
  BY Zenon DEF RetryDone, Rest
<1>2. /\ todo # <<>> /\ todo \in Seq(Item) /\ (i \in heard => kick)
  BY <1>1 DEF OutInv, RunnerInv
<1>3. i \in Item /\ Tail(todo) \in Seq(Item) /\ Range(todo) = Range(Tail(todo)) \cup {i}
  BY <1>2, HeadAndTail
<1> HIDE DEF i
<1>4. QueueInv' /\ \A j \in heard : Queued(j)' => Queued(j)
  <2>1. CASE /\ Queued(i) /\ SaveQueue(Without(queue, i))
             /\ outcome' = [outcome EXCEPT ![i] = r]
    BY <1>1, <1>3, <2>1, Dequeues, ZenonT(30) DEF OutInv
  <2>2. CASE SaveQueue(queue) /\ UNCHANGED outcome
    BY <1>1, <2>2 DEF SaveQueue, OutInv, QueueInv, Queued
  <2> QED
    BY <1>1, <2>1, <2>2
<1>5. RunnerInv'
  BY <1>1, <1>2, <1>3, <1>4, SMTT(30) DEF OutInv, RunnerInv, KickPending
<1> QED
  BY <1>4, <1>5 DEF OutInv

\* Requests, passes, removals and restarts keep the invariant.
LEMMA NextOutInv ==
  ASSUME OutInv, [Next]_vars
  PROVE  OutInv'
<1> USE DEF OutInv, memory, history
<1>1. CASE UNCHANGED vars \/ PeerComesOrGoes
  BY <1>1 DEF vars, PeerComesOrGoes, QueueInv, RunnerInv, KickPending, Queued
<1>2. CASE Tick \/ Kicked
  <2>1. /\ runner' = "pass" /\ todo' = queue
        /\ UNCHANGED <<queue, req, outcome, unqueued, unsaved, heard>>
    BY <1>2 DEF Tick, Kicked
  <2> QED
    BY <2>1 DEF QueueInv, RunnerInv, KickPending, Queued
<1>3. CASE Signal
  BY <1>3 DEF Signal, QueueInv, RunnerInv, KickPending, Queued, Range
<1>4. CASE RetryNext
  BY <1>4 DEF RetryNext, QueueInv, RunnerInv, KickPending, Queued
<1>5. CASE PassEnds
  <2>1. todo' = <<>> /\ (todo = <<>> \/ stopping) /\ runner' # "sending"
        /\ UNCHANGED <<queue, req, outcome, unqueued, unsaved, heard, kick, stopping>>
    BY <1>5 DEF PassEnds
  <2> QED
    BY <2>1, EmptySeq DEF QueueInv, RunnerInv, KickPending, Queued
<1>6. CASE RunnerStops \/ Stop
  BY <1>6 DEF RunnerStops, Stop, QueueInv, RunnerInv, KickPending, Queued
<1>7. CASE Exit
  <2>1. /\ req' = [i \in Item |-> IF req[i] \in {"sending", "hub"} THEN "lost" ELSE req[i]]
        /\ runner' # "sending" /\ todo' = <<>> /\ heard' = {}
        /\ UNCHANGED <<queue, outcome, unqueued, unsaved>>
    BY <1>7, FirstRunners DEF Exit, Restart
  <2> QED
    BY <2>1, EmptySeq, SMTT(30) DEF QueueInv, RunnerInv, KickPending, Queued
<1> QED
  BY <1>1, <1>2, <1>3, <1>4, <1>5, <1>6, <1>7, RequestsKeep, RetryDoneKeeps
    , SMTT(30) DEF Next, RunnerStep

\* The queue and the runner of queue.go are consistent in every state.
THEOREM OutInvariance == Spec => []OutInv
<1>1. Init => OutInv
  BY InitOutInv
<1>2. OutInv /\ [Next]_vars => OutInv'
  BY NextOutInv
<1> QED
  BY <1>1, <1>2, PTL DEF Spec

\* queue.json holds exactly what was answered "queued" and has neither been
\* resolved nor removed, however requests, the runner and `adrop queue rm`
\* interleave and whenever the process ends.
THEOREM QueueSafety == Spec => []QueueIsWhatWaits
<1>1. OutInv => QueueIsWhatWaits
  BY DEF OutInv, QueueInv, QueueIsWhatWaits, NoRepeats
<1> QED
  BY <1>1, OutInvariance, PTL

\* kickQueue's channel of capacity one loses no kick.
THEOREM KickSafety == Spec => []KickPending
<1>1. OutInv => KickPending
  BY DEF OutInv, RunnerInv
<1> QED
  BY <1>1, OutInvariance, PTL
-----------------------------------------------------------------------------
\* As long as the queue is saved, a file or a long text that the peer took, in an
\* attempt that the process survived, is in the attempt that delivered it, or
\* off the queue and out of the rest of the snapshot.
NotYetTaken(i) ==
  /\ taken[i] <= 1
  /\ req[i] = "new" => taken[i] = 0
  /\ Attempt(i) /\ wire[i] # "taken" => taken[i] = 0
  /\ (Queued(i) \/ i \in Range(todo)) /\ ~BeingRetried(i) => taken[i] = 0

TakenInv ==
  /\ air \subseteq Short /\ \A i \in Item : req[i] = "hub" => i \in Short
  /\ taken \in [Item -> 0..2] /\ wire = [i \in Item |-> wire[i]]
  /\ NoRepeats(todo) /\ \A i \in Range(todo) : req[i] = "queued"
  /\ ~unsaved => \A i \in Item \ Short : i \in cut \/ NotYetTaken(i)

\* Nothing has been sent at the start.
LEMMA InitTakenInv ==
  ASSUME Init
  PROVE  TakenInv
<1>1. /\ queue = <<>> /\ todo = <<>> /\ air = {} /\ runner # "sending"
      /\ req = [i \in Item |-> "new"] /\ wire = [i \in Item |-> "none"]
      /\ taken = [i \in Item |-> 0]
  BY FirstRunners DEF Init
<1>2. Range(<<>>) = {} /\ NoRepeats(<<>>)
  BY DEF Range, NoRepeats
<1> QED
  BY <1>1, <1>2 DEF TakenInv, NotYetTaken, Queued

\* An item that a step leaves alone.
LEMMA UntouchedItem ==
  ASSUME NEW i \in Item, NotYetTaken(i), Queued(i)' => Queued(i),
         taken'[i] = taken[i], req'[i] = req[i], wire'[i] = wire[i],
         UNCHANGED <<runner, todo>>
  PROVE  NotYetTaken(i)'
  BY DEF NotYetTaken, Attempt, BeingRetried

\* A file the peer has not taken may go from one place to the next.
LEMMA NotTaken ==
  ASSUME NEW i \in Item, taken'[i] = 0
  PROVE  NotYetTaken(i)'
  BY DEF NotYetTaken

\* Of the other items none becomes queued by an append, and no save makes an
\* earlier failure undone.
LEMMA OthersNotQueued ==
  ASSUME queue \in Seq(Item), NEW i \in Item,
         SaveQueue(Append(queue, i)) \/ UNCHANGED <<queue, unsaved>>
  PROVE  /\ \A j \in Item \ {i} : Queued(j)' => Queued(j)
         /\ ~unsaved' => ~unsaved
<1>0. Range(Append(queue, i)) = Range(queue) \cup {i}
  BY Appended
<1>1. PICK q : q = Append(queue, i) /\ Range(q) = Range(queue) \cup {i}
  BY <1>0, Zenon
<1>2. CASE UNCHANGED <<queue, unsaved>>
  BY <1>2 DEF Queued
<1>3. CASE SaveQueue(q)
  <2>1. CASE queue' = q /\ UNCHANGED unsaved
    BY <1>1, <2>1 DEF Queued
  <2>2. CASE ~unsaved /\ unsaved' = TRUE /\ UNCHANGED queue
    BY <2>2 DEF Queued
  <2> QED
    BY <1>3, <2>1, <2>2, Zenon DEF SaveQueue
<1> QED
  BY <1>1, <1>2, <1>3

\* Requests, attempts and `adrop queue rm`.
LEMMA RequestsTakeOnce ==
  ASSUME OutInv, TakenInv, NEW i \in Item,
         \/ Submit(i) \/ Abort(i) \/ RequestStep(i) \/ Reach(i) \/ PeerTakes(i)
         \/ HubDelivers(i) \/ HubLoses(i) \/ Unqueue(i)
  PROVE  TakenInv'
<1> USE DEF memory, history
<1>0. /\ req = [j \in Item |-> req[j]] /\ wire = [j \in Item |-> wire[j]]
      /\ taken \in [Item -> 0..2] /\ queue \in Seq(Item) /\ NoRepeats(queue)
      /\ \A j \in Item : Queued(j) => req[j] = "queued"
      /\ \A j \in Range(todo) : req[j] = "queued"
  BY DEF OutInv, QueueInv, TakenInv
<1>1. UNCHANGED <<todo, runner, cut>>
  BY ZenonT(30) DEF Submit, Abort, RequestStep, Answer, HubAcked, HubGivesUp, Reach,
     PeerTakes, HubDelivers, HubLoses, Unqueue
<1>2. BeingRetried(i) => i \in Range(todo)
  BY HeadAndTail DEF BeingRetried, OutInv, RunnerInv
<1>3. ASSUME NEW v, NEW w, NEW n \in 0..2,
             req' = [req EXCEPT ![i] = v], wire' = [wire EXCEPT ![i] = w],
             taken' = [taken EXCEPT ![i] = n],
             v = req[i] \/ req[i] # "queued", v = "hub" => i \in Short,
             air' \subseteq Short, ~unsaved' => ~unsaved,
             ~unsaved' => \A j \in Item \ {i} : Queued(j)' => Queued(j),
             i \notin Short /\ ~unsaved' /\ NotYetTaken(i) => NotYetTaken(i)'
      PROVE  TakenInv'
  <2>1. ASSUME NEW j \in Item \ Short, ~unsaved'
        PROVE  j \in cut' \/ NotYetTaken(j)'
    <3>0. CASE j \in cut
      BY <1>1, <3>0
    <3>1. CASE j \notin cut /\ j = i
      <4>1. NotYetTaken(j)
        BY <1>3, <2>1, <3>1 DEF TakenInv
      <4> QED
        BY <1>3, <2>1, <3>1, <4>1
    <3>3. CASE j \notin cut /\ j # i
      <4>0. NotYetTaken(j)
        BY <1>3, <2>1, <3>3 DEF TakenInv
      <4>1. req'[j] = req[j] /\ wire'[j] = wire[j] /\ taken'[j] = taken[j]
        BY <1>0, <1>3, <3>3, Zenon
      <4> QED
        BY <1>1, <1>3, <2>1, <3>3, <4>0, <4>1, UntouchedItem
    <3> QED
      BY <3>0, <3>1, <3>3
  <2>2. taken' \in [Item -> 0..2] /\ wire' = [j \in Item |-> wire'[j]]
    BY <1>0, <1>3, Zenon
  <2>3. \A j \in Item : req'[j] = IF j = i THEN v ELSE req[j]
    BY <1>0, <1>3, Zenon
  <2>4. \A j \in Range(todo) : j \in Item
    BY DEF OutInv, RunnerInv, Range
  <2>5. \A j \in Range(todo)' : req'[j] = "queued"
    BY <1>0, <1>1, <1>3, <2>3, <2>4, Zenon
  <2>6. \A j \in Item : req'[j] = "hub" => j \in Short
    BY <1>3, <2>3 DEF TakenInv
  <2>7. NoRepeats(todo)'
    BY <1>1 DEF TakenInv
  <2> QED
    BY <1>3, <2>1, <2>2, <2>5, <2>6, <2>7 DEF TakenInv
<1>4. CASE Submit(i)
  <2>1. /\ req[i] = "new" /\ req' = [req EXCEPT ![i] = "sending"]
        /\ wire' = [wire EXCEPT ![i] = "none"] /\ taken' = [taken EXCEPT ![i] = taken[i]]
        /\ UNCHANGED <<queue, air, unsaved>>
    BY <1>0, <1>4 DEF Submit
  <2>2. NotYetTaken(i) => NotYetTaken(i)'
    BY <1>0, <2>1, NotTaken DEF NotYetTaken
  <2> QED
    BY <1>0, <1>3, <2>1, <2>2, Zenon DEF TakenInv, Queued
<1>5. CASE Abort(i) \/ HubLoses(i)
  <2>1. /\ req' = [req EXCEPT ![i] = req[i]] /\ wire' = [wire EXCEPT ![i] = wire[i]]
        /\ taken' = [taken EXCEPT ![i] = taken[i]] /\ UNCHANGED <<queue, unsaved>>
        /\ air' \subseteq air /\ UNCHANGED <<req, wire, taken>>
    BY <1>0, <1>5 DEF Abort, HubLoses
  <2>2. NotYetTaken(i) => NotYetTaken(i)'
    BY <1>1, <2>1, UntouchedItem DEF Queued
  <2> QED
    BY <1>0, <1>3, <2>1, <2>2, Zenon DEF TakenInv, Queued
<1>6. ASSUME NEW r \in Result, Answer(i, r)
      PROVE  TakenInv'
  <2>1. PICK v \in {"sent", "error", "hub", "queued"} : req' = [req EXCEPT ![i] = v]
    BY <1>6 DEF Answer
  <2>2. /\ req[i] = "sending" /\ wire' = [wire EXCEPT ![i] = "none"]
        /\ UNCHANGED taken /\ taken' = [taken EXCEPT ![i] = taken[i]]
        /\ v = "hub" => i \in Short
        /\ v = "queued" => wire[i] = "none"
        /\ air' \subseteq air \cup Short
        /\ \/ v = "queued" /\ SaveQueue(Append(queue, i))
           \/ v # "queued" /\ UNCHANGED <<queue, unsaved>>
    <3>1. req'[i] = v
      BY <1>0, <2>1
    <3>2. \/ /\ req' = [req EXCEPT ![i] = IF r = "ok" THEN "sent" ELSE "error"]
             /\ UNCHANGED <<queue, air, unsaved>>
          \/ /\ req' = [req EXCEPT ![i] = "hub"] /\ i \in Short
             /\ air' = air \cup {i} /\ UNCHANGED <<queue, unsaved>>
          \/ /\ req' = [req EXCEPT ![i] = "queued"] /\ r = "unreachable"
             /\ SaveQueue(Append(queue, i)) /\ UNCHANGED air
      BY <1>6 DEF Answer
    <3>3. r = "unreachable" => wire[i] = "none"
      BY <1>6 DEF Answer, Returns
    <3>4. req[i] = "sending" /\ UNCHANGED taken /\ wire' = [wire EXCEPT ![i] = "none"]
      BY <1>6 DEF Answer
    <3> QED
      BY <1>0, <3>1, <3>2, <3>3, <3>4
  <2>3. /\ \A j \in Item \ {i} : Queued(j)' => Queued(j)
        /\ ~unsaved' => ~unsaved
    BY <1>0, <2>2, OthersNotQueued
  <2>4. ~unsaved' /\ NotYetTaken(i) => NotYetTaken(i)'
    <3>1. CASE v = "queued"
      BY <2>2, <3>1, NotTaken DEF NotYetTaken, Attempt
    <3>2. CASE v # "queued"
      <4>1. ~Queued(i) /\ ~Queued(i)' /\ i \notin Range(todo) /\ ~BeingRetried(i)
        BY <1>0, <1>2, <2>2, <3>2, Zenon DEF Queued
      <4> QED
        BY <1>0, <1>1, <2>1, <2>2, <4>1 DEF NotYetTaken, Attempt, BeingRetried
    <3> QED
      BY <3>1, <3>2
  <2> QED
    BY <1>0, <1>3, <2>1, <2>2, <2>3, <2>4, Zenon DEF TakenInv
<1>7. CASE HubAcked(i) \/ HubGivesUp(i)
  <2>1. PICK v \in {"sent", "queued"} : req' = [req EXCEPT ![i] = v]
    BY <1>7 DEF HubAcked, HubGivesUp
  <2>2. /\ req[i] = "hub" /\ i \in Short /\ wire' = [wire EXCEPT ![i] = "none"]
        /\ taken' = [taken EXCEPT ![i] = taken[i]] /\ UNCHANGED air
        /\ SaveQueue(Append(queue, i)) \/ UNCHANGED <<queue, unsaved>>
    BY <1>0, <1>7 DEF HubAcked, HubGivesUp, TakenInv
  <2>3. /\ \A j \in Item \ {i} : Queued(j)' => Queued(j)
        /\ ~unsaved' => ~unsaved
    BY <1>0, <2>2, OthersNotQueued
  <2> QED
    BY <1>0, <1>3, <2>1, <2>2, <2>3, Zenon DEF TakenInv
<1>8. CASE Reach(i)
  <2>1. /\ Attempt(i) /\ wire[i] = "none" /\ wire' = [wire EXCEPT ![i] = "open"]
        /\ req' = [req EXCEPT ![i] = req[i]] /\ taken' = [taken EXCEPT ![i] = taken[i]]
        /\ UNCHANGED <<queue, unsaved, air, taken>>
    BY <1>0, <1>8, Zenon DEF Reach
  <2>2. NotYetTaken(i) => NotYetTaken(i)'
    BY <2>1, NotTaken DEF NotYetTaken
  <2> QED
    BY <1>0, <1>3, <2>1, <2>2, Zenon DEF TakenInv, Queued
<1>9. CASE PeerTakes(i)
  <2>1. PICK n \in 0..2 : n = (IF taken[i] < 2 THEN taken[i] + 1 ELSE taken[i])
    BY <1>0
  <2>2. /\ Attempt(i) /\ wire[i] = "open" /\ wire' = [wire EXCEPT ![i] = "taken"]
        /\ req' = [req EXCEPT ![i] = req[i]] /\ taken' = [taken EXCEPT ![i] = n]
        /\ UNCHANGED <<queue, unsaved, air, req>>
    BY <1>0, <1>9, <2>1, Zenon DEF PeerTakes, Take
  <2>3. NotYetTaken(i) => NotYetTaken(i)'
    <3>1. ASSUME NotYetTaken(i)
          PROVE  taken'[i] = 1 /\ wire'[i] = "taken"
      BY <1>0, <2>1, <2>2, <3>1 DEF NotYetTaken
    <3>2. /\ req[i] # "new"
          /\ Queued(i) \/ i \in Range(todo) => BeingRetried(i)
      BY <1>0, <1>2, <2>2, Zenon DEF Attempt
    <3> QED
      BY <1>1, <2>2, <3>1, <3>2 DEF NotYetTaken, BeingRetried, Queued
  <2> QED
    BY <1>0, <1>3, <2>1, <2>2, <2>3, Zenon DEF TakenInv, Queued
<1>10. CASE HubDelivers(i)
  <2>1. PICK n \in 0..2 : n = (IF taken[i] < 2 THEN taken[i] + 1 ELSE taken[i])
    BY <1>0
  <2>2. PICK w : wire' = [wire EXCEPT ![i] = w]
    BY <1>10, Zenon DEF HubDelivers
  <2>3. /\ i \in Short /\ air' \subseteq air
        /\ req' = [req EXCEPT ![i] = req[i]] /\ taken' = [taken EXCEPT ![i] = n]
        /\ UNCHANGED <<queue, unsaved>>
    BY <1>0, <1>10, <2>1, Zenon DEF HubDelivers, Take, TakenInv
  <2> QED
    BY <1>0, <1>3, <2>1, <2>2, <2>3, Zenon DEF TakenInv, Queued
<1>11. CASE Unqueue(i)
  <2>1. /\ Queued(i) /\ SaveQueue(Without(queue, i))
        /\ req' = [req EXCEPT ![i] = req[i]] /\ wire' = [wire EXCEPT ![i] = wire[i]]
        /\ taken' = [taken EXCEPT ![i] = taken[i]] /\ UNCHANGED <<air, req, wire, taken>>
    BY <1>0, <1>11, Zenon DEF Unqueue
  <2>2. /\ \A j \in Item : Queued(j)' => Queued(j)
        /\ ~unsaved' => ~unsaved
    BY <1>0, <2>1, Removed DEF SaveQueue, Queued
  <2>3. NotYetTaken(i) => NotYetTaken(i)'
    BY <1>1, <2>1, <2>2, UntouchedItem
  <2> QED
    BY <1>0, <1>3, <2>1, <2>2, <2>3, Zenon DEF TakenInv
<1> QED
  BY <1>4, <1>5, <1>6, <1>7, <1>8, <1>9, <1>10, <1>11 DEF RequestStep

\* The queue runner: a pass begins, an item's attempt begins and ends, the
\* pass ends.
LEMMA RunnerTakesOnce ==
  ASSUME OutInv, TakenInv, NEW r \in Result,
         Tick \/ Kicked \/ RetryNext \/ RetryDone(r) \/ PassEnds \/ RunnerStops
  PROVE  TakenInv'
<1> USE DEF history
<1>0. /\ taken \in [Item -> 0..2] /\ queue \in Seq(Item) /\ NoRepeats(queue)
      /\ \A j \in Item : Queued(j) => req[j] = "queued"
      /\ \A j \in Range(todo) : req[j] = "queued"
      /\ todo \in Seq(Item) /\ NoRepeats(todo)
  BY DEF OutInv, QueueInv, RunnerInv, TakenInv
<1>1. UNCHANGED <<air, req, taken, cut>>
  BY DEF Tick, Kicked, RetryNext, RetryDone, PassEnds, RunnerStops
<1>2. ASSUME wire' = [j \in Item |-> wire'[j]], NoRepeats(todo)',
             \A j \in Range(todo)' : req[j] = "queued",
             ASSUME ~unsaved', ~unsaved, NEW j \in Item \ Short, NotYetTaken(j)
             PROVE  NotYetTaken(j)',
             ~unsaved' => ~unsaved
      PROVE  TakenInv'
  <2>1. ~unsaved' => \A j \in Item \ Short : j \in cut' \/ NotYetTaken(j)'
    BY <1>1, <1>2 DEF TakenInv
  <2> QED
    BY <1>1, <1>2, <2>1 DEF TakenInv
<1>3. CASE Tick \/ Kicked
  <2>1. /\ runner = "idle" /\ runner' = "pass" /\ todo' = queue
        /\ UNCHANGED <<queue, wire, unsaved>>
    BY <1>3 DEF Tick, Kicked
  <2>2. \A j \in Range(queue) : j \in Item
    BY <1>0, RangeOfSeq
  <2>3. ASSUME NEW j \in Item, NotYetTaken(j)
        PROVE  NotYetTaken(j)'
    BY <1>1, <2>1, <2>3, Zenon DEF NotYetTaken, Attempt, BeingRetried, Queued
  <2>4. \A j \in Range(todo)' : req[j] = "queued"
    BY <1>0, <2>1, <2>2 DEF Queued
  <2> QED
    BY <1>0, <1>2, <2>1, <2>3, <2>4 DEF TakenInv
<1>4. CASE RetryNext
  <2>1. /\ todo # <<>> /\ runner = "pass" /\ runner' = "sending"
        /\ wire' = [wire EXCEPT ![Head(todo)] = "none"]
        /\ UNCHANGED <<queue, todo, unsaved>>
    BY <1>4 DEF RetryNext
  <2>2. PICK h : h = Head(todo)
    BY Zenon
  <2>3. h \in Item /\ h \in Range(todo)
    BY <1>0, <2>1, <2>2, HeadAndTail
  <2>4. wire = [j \in Item |-> wire[j]]
    BY DEF TakenInv
  <2>5. ASSUME NEW j \in Item, NotYetTaken(j)
        PROVE  NotYetTaken(j)'
    <3>1. CASE j = h
      BY <1>1, <2>1, <2>3, <2>5, <3>1, NotTaken, Zenon DEF NotYetTaken, BeingRetried
    <3>2. CASE j # h
      <4>1. wire'[j] = wire[j]
        BY <2>1, <2>2, <2>4, <3>2
      <4> QED
        BY <1>1, <2>1, <2>2, <2>5, <3>2, <4>1 DEF NotYetTaken, Attempt, BeingRetried, Queued
    <3> QED
      BY <3>1, <3>2
  <2>6. wire' = [j \in Item |-> wire'[j]]
    BY <2>1, <2>4
  <2> QED
    BY <1>0, <1>2, <2>1, <2>5, <2>6
<1>5. CASE RetryDone(r)
  <2>1. PICK h : h = Head(todo)
    BY Zenon
  <2>2. /\ runner = "sending" /\ runner' = "pass" /\ Returns(h, r)
        /\ wire' = [wire EXCEPT ![h] = "none"] /\ todo' = Tail(todo)
        /\ \/ /\ Queued(h) /\ SaveQueue(Without(queue, h))
           \/ /\ ~Queued(h) \/ r = "unreachable"
              /\ SaveQueue(queue)
    BY <1>5, <2>1, ZenonT(30) DEF RetryDone, Rest, Resolved
  <2>3. /\ h \in Item /\ h \in Range(todo) /\ h \notin Range(todo')
        /\ \A j \in Range(todo') : j \in Range(todo)
        /\ NoRepeats(todo)'
    <3>1. todo # <<>>
      BY <2>2 DEF OutInv, RunnerInv
    <3> QED
      BY <1>0, <2>1, <2>2, <3>1, HeadAndTail
  <2>4. /\ ~unsaved' => ~unsaved
        /\ \A j \in Item : Queued(j)' => Queued(j)
        /\ ~unsaved' /\ Queued(h)' => r = "unreachable"
    <3>1. CASE Queued(h) /\ SaveQueue(Without(queue, h))
      BY <1>0, <3>1, Removed DEF Queued, SaveQueue
    <3>2. CASE (~Queued(h) \/ r = "unreachable") /\ SaveQueue(queue)
      BY <3>2 DEF Queued, SaveQueue
    <3> QED
      BY <2>2, <3>1, <3>2
  <2>5. wire = [j \in Item |-> wire[j]]
    BY DEF TakenInv
  <2>6. ASSUME ~unsaved', NEW j \in Item \ Short, NotYetTaken(j)
        PROVE  NotYetTaken(j)'
    <3>1. CASE j = h
      <4>1. Attempt(j) /\ req[j] = "queued"
        BY <1>0, <2>1, <2>2, <2>3, <3>1 DEF Attempt, BeingRetried
      <4>2. CASE r = "unreachable"
        BY <1>1, <2>2, <2>6, <3>1, <4>1, <4>2, NotTaken, Zenon DEF Returns, NotYetTaken
      <4>3. CASE r # "unreachable"
        <5>1. ~Queued(j)' /\ j \notin Range(todo') /\ ~Attempt(j)'
          BY <1>1, <2>2, <2>3, <2>4, <2>6, <3>1, <4>1, <4>3 DEF Attempt, BeingRetried
        <5> QED
          BY <1>1, <2>6, <4>1, <5>1, Zenon DEF NotYetTaken
      <4> QED
        BY <4>2, <4>3
    <3>2. CASE j # h
      <4>1. wire'[j] = wire[j]
        BY <2>2, <2>5, <3>2
      <4> QED
        BY <1>1, <2>1, <2>2, <2>3, <2>4, <2>6, <3>2, <4>1, Zenon
           DEF NotYetTaken, Attempt, BeingRetried
    <3> QED
      BY <3>1, <3>2
  <2>7. wire' = [j \in Item |-> wire'[j]]
    BY <2>2, <2>5
  <2> QED
    BY <1>0, <1>2, <2>3, <2>4, <2>6, <2>7
<1>6. CASE PassEnds \/ RunnerStops
  <2>1. /\ runner # "sending" /\ runner' # "sending"
        /\ todo' = <<>> \/ UNCHANGED todo
        /\ UNCHANGED <<queue, wire, unsaved>>
    BY <1>6 DEF PassEnds, RunnerStops
  <2>2. Range(<<>>) = {} /\ NoRepeats(<<>>)
    BY DEF Range, NoRepeats
  <2>3. ASSUME NEW j \in Item, NotYetTaken(j)
        PROVE  NotYetTaken(j)'
    BY <1>1, <2>1, <2>2, <2>3 DEF NotYetTaken, Attempt, BeingRetried, Queued
  <2>4. NoRepeats(todo)' /\ \A j \in Range(todo)' : req[j] = "queued"
    BY <1>0, <2>1, <2>2
  <2> QED
    BY <1>2, <2>1, <2>3, <2>4 DEF TakenInv
<1> QED
  BY <1>3, <1>4, <1>5, <1>6

\* Every step of the daemon, of the peers and of the user.
LEMMA NextTakenInv ==
  ASSUME OutInv, TakenInv, [Next]_vars
  PROVE  TakenInv'
<1> USE DEF memory, history
<1>1. CASE UNCHANGED vars \/ PeerComesOrGoes \/ Stop \/ Signal
  <2>1. UNCHANGED <<queue, req, wire, runner, todo, air, taken, unsaved, cut>>
    BY <1>1 DEF vars, PeerComesOrGoes, Stop, Signal
  <2> QED
    BY <2>1 DEF TakenInv, NotYetTaken, Attempt, BeingRetried, Queued
<1>2. CASE Exit
  <2>1. /\ req' = [i \in Item |-> IF req[i] \in {"sending", "hub"} THEN "lost" ELSE req[i]]
        /\ wire' = [i \in Item |-> "none"] /\ runner' # "sending" /\ todo' = <<>>
        /\ cut' = cut \cup {i \in Item \ Short : wire[i] = "taken"}
        /\ UNCHANGED <<queue, air, taken, unsaved>>
    BY <1>2, FirstRunners DEF Exit, Restart
  <2>2. Range(<<>>) = {} /\ NoRepeats(<<>>)
    BY DEF Range, NoRepeats
  <2>3. ASSUME NEW j \in Item \ Short, j \in cut \/ NotYetTaken(j)
        PROVE  j \in cut' \/ NotYetTaken(j)'
    <3>1. CASE j \in cut \/ wire[j] = "taken"
      BY <2>1, <3>1
    <3>2. CASE NotYetTaken(j) /\ wire[j] # "taken"
      <4>1. ~Attempt(j)' /\ ~BeingRetried(j)' /\ j \notin Range(todo')
        BY <2>1, <2>2, Zenon DEF Attempt, BeingRetried
      <4>2. Queued(j) => taken[j] = 0
        BY <3>2, Zenon DEF NotYetTaken, Attempt
      <4>3. req'[j] = "new" => req[j] = "new"
        BY <2>1
      <4> QED
        BY <2>1, <3>2, <4>1, <4>2, <4>3, Zenon DEF NotYetTaken, Queued
    <3> QED
      BY <2>3, <3>1, <3>2
  <2>4. \A j \in Item : req'[j] = "hub" => req[j] = "hub"
    BY <2>1
  <2> QED
    BY <2>1, <2>2, <2>3, <2>4 DEF TakenInv
<1> QED
  BY <1>1, <1>2, RequestsTakeOnce, RunnerTakesOnce, SMTT(30) DEF Next, RunnerStep, Result

\* Unless a write of queue.json fails, the peer takes a file or a long text
\* twice only if the process ended in the attempt that had delivered it: any
\* other attempt that delivered is off the queue before the next pass of
\* runQueue takes its snapshot.
THEOREM TakenSafety == Spec => []TakenOnce
<1>1. Init => OutInv /\ TakenInv
  BY InitOutInv, InitTakenInv
<1>2. OutInv /\ TakenInv /\ [Next]_vars => (OutInv /\ TakenInv)'
  BY NextOutInv, NextTakenInv
<1>3. OutInv /\ TakenInv => TakenOnce
  BY DEF TakenInv, NotYetTaken, TakenOnce
<1> QED
  BY <1>1, <1>2, <1>3, PTL DEF Spec
=============================================================================
