------------------------------- MODULE Outbox -------------------------------
(***************************************************************************)
(* The send queue (internal/daemon/queue.go): a send whose device cannot   *)
(* be reached is kept in queue.json and retried by one runner goroutine,   *)
(* periodically and when a device signals.  Requests, the runner and       *)
(* `adrop queue rm` read and rewrite the same file; the sends themselves   *)
(* run without the lock.                                                   *)
(*                                                                         *)
(* One attempt to send (SendFiles, SendClipboard) is abstracted to whether *)
(* the peer was reached, whether it took the item, and how the call ended: *)
(* module Transfer has the detail.                                         *)
(***************************************************************************)
EXTENDS Integers, Sequences, Functions

CONSTANTS
  Item,        \* the sends the user asks for
  Clips,       \* those that are clipboard texts; the rest are files
  Short,       \* clipboard texts of at most hubClipMax bytes
  QueueAll,    \* Options.QueueUnreachable
  Reticulum,   \* Options.Reticulum
  OnReticulum, \* the device's Reticulum key is known
  DiskErrors   \* whether writing queue.json may fail, once in a behaviour

ASSUME OutboxConstantsOK ==
  /\ Short \subseteq Clips /\ Clips \subseteq Item
  /\ {QueueAll, Reticulum, OnReticulum, DiskErrors} \subseteq BOOLEAN

VARIABLES
  queue,      \* queue.json
  req,        \* req[i]: the request that asked for i, or its answer
  wire,       \* wire[i]: how far the attempt under way has got
  air,        \* clipboard texts whose parts travel through the hubs
  runner,     \* the queue runner: idle, between two items, sending one,
              \* stopped, or "none", never started
  todo,       \* its snapshot of the queue, from the current item on
  kick,       \* queueKick, a channel of capacity one
  stopping,   \* the daemon's context is cancelled
  aborted,    \* requests whose client went away before the answer
  reachable,  \* the peer can be reached
  \* history
  taken,      \* taken[i]: how often the peer took i, counted up to 2
  outcome,    \* outcome[i]: the result that took i off the queue, broadcast as
              \* queue-sent when it was "ok", as queue-error otherwise
  unqueued,   \* what Unqueue removed
  cut,        \* what the peer had taken in an attempt the process died in
  unsaved,    \* a write of queue.json failed
  heard       \* items queued when a device last signalled, not attempted since

memory == <<req, wire, runner, todo, kick, stopping, aborted>>
history == <<outcome, unqueued, cut, unsaved>>
vars == <<queue, memory, air, reachable, taken, history, heard>>

Result == {"ok", "unreachable", "refused", "gone", "broken", "cancelled"}

TypeOK ==
  /\ queue \in Seq(Item)
  /\ req \in [Item -> {"new", "sending", "hub", "sent", "queued", "error", "lost"}]
  /\ wire \in [Item -> {"none", "open", "taken"}]
  /\ air \subseteq Short
  /\ runner \in {"idle", "pass", "sending", "stopped", "none"}
  /\ todo \in Seq(Item)
  /\ {kick, stopping, reachable, unsaved} \subseteq BOOLEAN
  /\ taken \in [Item -> 0..2]
  /\ outcome \in [Item -> {"none"} \cup Result]
  /\ unqueued \subseteq Item /\ cut \subseteq Item /\ aborted \subseteq Item /\ heard \subseteq Item

\* Serve and startRNS start the runner once rns.Open succeeded, or with
\* queueAll where Reticulum is off; if rns.Open fails there is none.
FirstRunner ==
  CASE Reticulum -> {"idle", "none"}
    [] ~Reticulum /\ QueueAll -> {"idle"}
    [] OTHER -> {"none"}

Init ==
  /\ queue = <<>>
  /\ req = [i \in Item |-> "new"]
  /\ wire = [i \in Item |-> "none"]
  /\ air = {}
  /\ runner \in FirstRunner /\ todo = <<>> /\ kick = FALSE /\ stopping = FALSE
  /\ reachable \in BOOLEAN
  /\ taken = [i \in Item |-> 0]
  /\ outcome = [i \in Item |-> "none"]
  /\ unqueued = {} /\ cut = {} /\ aborted = {} /\ heard = {} /\ unsaved = FALSE

Queued(i) == i \in Range(queue)

\* append(q[:k], q[k+1:]...) for the entry with the item's id.
Without(q, i) ==
  LET k == CHOOSE j \in DOMAIN q : q[j] = i IN
  SubSeq(q, 1, k - 1) \o SubSeq(q, k + 1, Len(q))
-----------------------------------------------------------------------------
(* One attempt to send *)

BeingRetried(i) == runner = "sending" /\ i = Head(todo)
Attempt(i) == req[i] = "sending" \/ BeingRetried(i)

\* The context the attempt runs under is done.
ContextDone(i) == stopping \/ i \in aborted

Take(i) == taken' = [taken EXCEPT ![i] = IF @ < 2 THEN @ + 1 ELSE @]

\* dialPeer connects.
Reach(i) ==
  /\ Attempt(i) /\ wire[i] = "none" /\ reachable
  /\ wire' = [wire EXCEPT ![i] = "open"]
  /\ UNCHANGED <<queue, req, air, runner, todo, kick, stopping, aborted, reachable, taken, history, heard>>

\* The peer stores the files or sets its clipboard.
PeerTakes(i) ==
  /\ Attempt(i) /\ wire[i] = "open"
  /\ wire' = [wire EXCEPT ![i] = "taken"]
  /\ Take(i)
  /\ UNCHANGED <<queue, req, air, runner, todo, kick, stopping, aborted, reachable, history, heard>>

\* Mutant: a connection lost halfway counts as a peer not reached.
ReturnsUnreached(i, r) ==
  \/ r = "ok" /\ wire[i] = "taken"
  \/ r = "unreachable" /\ ~reachable

\* How SendFiles or SendClipboard may return.  unreachableError comes out of
\* dialPeer alone; a done context ends it either way.  "gone": a file is, the
\* device is no longer trusted or has another certificate.
Returns(i, r) ==
  \/ r = "ok" /\ wire[i] = "taken"
  \/ r = "unreachable" /\ wire[i] = "none" /\ (~reachable \/ ContextDone(i))
  \/ r = "refused" /\ wire[i] = "open"
  \/ r = "gone" /\ wire[i] = "none"
  \/ r = "broken" /\ wire[i] # "none"
  \/ r = "cancelled" /\ ContextDone(i)
-----------------------------------------------------------------------------
(* Requests *)

\* saveQueueLocked: a temporary file renamed over queue.json, errors ignored.
SaveQueue(q) ==
  \/ queue' = q /\ UNCHANGED unsaved
  \/ DiskErrors /\ ~unsaved /\ unsaved' = TRUE /\ UNCHANGED queue

Submit(i) ==
  /\ req[i] = "new" /\ ~stopping
  /\ req' = [req EXCEPT ![i] = "sending"]
  /\ wire' = [wire EXCEPT ![i] = "none"]
  /\ UNCHANGED <<queue, air, runner, todo, kick, stopping, aborted, reachable, taken, history, heard>>

\* cancelOnDisconnect: the client hangs up.
Abort(i) ==
  /\ req[i] = "sending"
  /\ aborted' = aborted \cup {i}
  /\ UNCHANGED <<queue, req, wire, runner, todo, kick, stopping, air, reachable, taken, history, heard>>

\* queueable, apart from the error: rnsState has a node when the runner runs.
CanQueue == QueueAll \/ (Reticulum /\ runner # "none" /\ OnReticulum)

\* SendFilesOrQueue and SendClipboardAnywhere after the direct attempt: answer,
\* go through the hubs, or enqueue.
Answer(i, r) ==
  /\ req[i] = "sending" /\ Returns(i, r)
  /\ \/ /\ r # "unreachable" \/ ~CanQueue
        /\ req' = [req EXCEPT ![i] = IF r = "ok" THEN "sent" ELSE "error"]
        /\ UNCHANGED <<queue, air, unsaved>>
     \/ /\ r = "unreachable" /\ CanQueue /\ i \in Short
        /\ req' = [req EXCEPT ![i] = "hub"]
        /\ air' = air \cup {i}
        /\ UNCHANGED <<queue, unsaved>>
     \/ /\ r = "unreachable" /\ CanQueue /\ i \notin Short
        /\ req' = [req EXCEPT ![i] = "queued"]
        /\ SaveQueue(Append(queue, i))
        /\ UNCHANGED air
  /\ wire' = [wire EXCEPT ![i] = "none"]
  /\ aborted' = aborted \ {i}
  /\ UNCHANGED <<runner, todo, kick, stopping, reachable, taken, outcome, unqueued, cut, heard>>

\* The parts arrive, perhaps after the sender gave up, or they never do.
\* Module HubClip has the detail.
HubDelivers(i) ==
  /\ i \in air
  /\ air' = air \ {i}
  /\ Take(i)
  /\ wire' = [wire EXCEPT ![i] = IF req[i] = "hub" THEN "taken" ELSE @]
  /\ UNCHANGED <<queue, req, runner, todo, kick, stopping, aborted, reachable, history, heard>>

HubLoses(i) ==
  /\ i \in air
  /\ air' = air \ {i}
  /\ UNCHANGED <<queue, memory, reachable, taken, history, heard>>

\* The clip-ack came in time.
HubAcked(i) ==
  /\ req[i] = "hub" /\ wire[i] = "taken"
  /\ req' = [req EXCEPT ![i] = "sent"]
  /\ wire' = [wire EXCEPT ![i] = "none"]
  /\ UNCHANGED <<queue, air, runner, todo, kick, stopping, aborted, reachable, taken, history, heard>>

\* sendClipOverHubs failed, timed out or was cancelled: the text is queued.
HubGivesUp(i) ==
  /\ req[i] = "hub"
  /\ req' = [req EXCEPT ![i] = "queued"]
  /\ wire' = [wire EXCEPT ![i] = "none"]
  /\ SaveQueue(Append(queue, i))
  /\ UNCHANGED <<air, runner, todo, kick, stopping, aborted, reachable, taken, outcome, unqueued, cut, heard>>

Unqueue(i) ==
  /\ Queued(i)
  /\ SaveQueue(Without(queue, i))
  /\ unqueued' = unqueued \cup {i}
  /\ UNCHANGED <<memory, air, reachable, taken, outcome, cut, heard>>
-----------------------------------------------------------------------------
(* The runner *)

\* Mutant: a signal is only heard by a runner that waits.
SignalWhenIdle ==
  /\ ~stopping
  /\ kick' = (kick \/ runner = "idle")
  /\ heard' = heard \cup Range(queue)
  /\ UNCHANGED <<queue, req, wire, runner, todo, stopping, aborted, air, reachable, taken, history>>

\* kickQueue, called for every signal of a trusted device and when one shows
\* up on the LAN; a kick already pending stands for this one too.
Signal ==
  /\ ~stopping
  /\ kick' = TRUE
  /\ heard' = heard \cup Range(queue)
  /\ UNCHANGED <<queue, req, wire, runner, todo, stopping, aborted, air, reachable, taken, history>>

\* A pass begins with a snapshot of the queue: on the ticker ...
Tick ==
  /\ runner = "idle" /\ ~stopping
  /\ runner' = "pass" /\ todo' = queue
  /\ UNCHANGED <<queue, req, wire, kick, stopping, aborted, air, reachable, taken, history, heard>>

\* ... or on a kick.
Kicked ==
  /\ runner = "idle" /\ kick
  /\ runner' = "pass" /\ todo' = queue /\ kick' = FALSE
  /\ UNCHANGED <<queue, req, wire, stopping, aborted, air, reachable, taken, history, heard>>

\* The context is looked at before every item.
RetryNext ==
  /\ runner = "pass" /\ todo # <<>> /\ ~stopping
  /\ runner' = "sending"
  /\ wire' = [wire EXCEPT ![Head(todo)] = "none"]
  /\ heard' = heard \ {Head(todo)}
  /\ UNCHANGED <<queue, req, todo, kick, stopping, aborted, air, reachable, taken, history>>

\* Mutant: the runner returns after a pass.
PassEndsForGood ==
  /\ runner = "pass" /\ (todo = <<>> \/ stopping)
  /\ runner' = "stopped"
  /\ todo' = <<>>
  /\ UNCHANGED <<queue, req, wire, kick, stopping, aborted, air, reachable, taken, history, heard>>

PassEnds ==
  /\ runner = "pass" /\ (todo = <<>> \/ stopping)
  /\ runner' = IF stopping THEN "stopped" ELSE "idle"
  /\ todo' = <<>>
  /\ UNCHANGED <<queue, req, wire, kick, stopping, aborted, air, reachable, taken, history, heard>>

RunnerStops ==
  /\ runner = "idle" /\ stopping
  /\ runner' = "stopped"
  /\ UNCHANGED <<queue, req, wire, todo, kick, stopping, aborted, air, reachable, taken, history, heard>>

\* What an attempt's result does to the item: it stays only when the peer was
\* not reached.
Resolved(r) == r # "unreachable"

\* Mutant: the snapshot is written back instead of the queue read again.
RestOfSnapshot(i) == Without(todo, i)

\* The queue without the item, as it is on disk after the attempt.
Rest(i) == Without(queue, i)

\* After the attempt the queue is read again and saved; an item no longer in it
\* is let go.
RetryDone(r) ==
  LET i == Head(todo) IN
  /\ runner = "sending" /\ Returns(i, r)
  /\ IF Queued(i) /\ Resolved(r)
     THEN /\ SaveQueue(Rest(i))
          /\ outcome' = [outcome EXCEPT ![i] = r]
     ELSE SaveQueue(queue) /\ UNCHANGED outcome
  /\ wire' = [wire EXCEPT ![i] = "none"]
  /\ todo' = Tail(todo)
  /\ runner' = "pass"
  /\ UNCHANGED <<req, kick, stopping, aborted, air, reachable, taken, unqueued, cut, heard>>
-----------------------------------------------------------------------------
(* The surroundings *)

PeerComesOrGoes ==
  /\ reachable' = ~reachable
  /\ UNCHANGED <<queue, memory, air, taken, history, heard>>

\* The daemon is told to stop.
Stop ==
  /\ ~stopping
  /\ stopping' = TRUE
  /\ UNCHANGED <<queue, req, wire, runner, todo, kick, aborted, air, reachable, taken, history, heard>>

\* The process is gone and a new one starts: only queue.json is left.
Restart ==
  /\ req' = [i \in Item |-> IF req[i] \in {"sending", "hub"} THEN "lost" ELSE req[i]]
  /\ wire' = [i \in Item |-> "none"]
  /\ runner' \in FirstRunner /\ todo' = <<>> /\ kick' = FALSE /\ stopping' = FALSE
  /\ aborted' = {} /\ heard' = {}
  /\ cut' = cut \cup {i \in Item \ Short : wire[i] = "taken"}
  /\ UNCHANGED <<queue, air, reachable, taken, outcome, unqueued, unsaved>>

\* After Stop the process goes as soon as the accept loops are done, at any
\* moment: Run waits for neither the runner nor the requests.  A crash is an
\* Exit at once.
Exit == stopping /\ Restart

RequestStep(i) ==
  \/ \E r \in Result : Answer(i, r)
  \/ HubAcked(i) \/ HubGivesUp(i)

RunnerStep == RetryNext \/ PassEnds \/ RunnerStops

Next ==
  \/ \E i \in Item : \/ Submit(i) \/ Abort(i) \/ RequestStep(i)
                     \/ Reach(i) \/ PeerTakes(i)
                     \/ HubDelivers(i) \/ HubLoses(i) \/ Unqueue(i)
  \/ RunnerStep \/ (\E r \in Result : RetryDone(r)) \/ Tick \/ Kicked \/ Signal
  \/ PeerComesOrGoes \/ Stop \/ Exit

Spec == Init /\ [][Next]_vars

\* The runner's goroutine keeps running and the ticker fires again and again.
\* That an attempt ends is not assumed: most of its reads have no deadline.
FairSpec ==
  /\ Spec
  /\ WF_vars(RunnerStep) /\ WF_vars(Tick \/ Kicked)
-----------------------------------------------------------------------------
(* Properties *)

\* The user is told "queued": the item is in queue.json, once, until it was
\* dropped by `adrop queue rm` or a queue-sent or queue-error was broadcast for
\* it, and not after that.  No read-modify-write of one party undoes that of
\* another, across attempts, shutdowns and crashes.  Only a failed write of
\* queue.json, whose error saveQueueLocked ignores, breaks this.
QueueIsWhatWaits ==
  ~unsaved =>
    /\ \A i \in Item : Queued(i) <=> /\ req[i] = "queued"
                                     /\ outcome[i] = "none"
                                     /\ i \notin unqueued
    /\ \A j, k \in DOMAIN queue : queue[j] = queue[k] => j = k

\* The peer takes nothing twice, short clipboard texts apart: whatever reached
\* it is off the queue before the next pass.  The exceptions are a failed write
\* of queue.json, and a process that ends, told to or not, after the peer took
\* the item and before the queue was saved.
TakenOnce ==
  ~unsaved => \A i \in Item \ Short : taken[i] < 2 \/ i \in cut

\* A kick is never lost: what was queued when a device signalled and has not
\* been tried since is ahead in the pass under way, or a kick is pending.
KickPending ==
  ~stopping =>
    \A i \in heard : Queued(i) => kick \/ i \in Range(todo)

\* A queued item does not wait for ever once its device stays reachable and
\* the daemon stays up with its runner, as long as attempts end: one that a
\* frozen peer holds up holds up everything behind it.
QueueDrains ==
  /\ <>[](reachable /\ ~stopping /\ runner # "none")
  /\ []<>(runner # "sending")
  => \A i \in Item : Queued(i) ~> ~Queued(i)

\* "The peer was reached and refused, or a file is gone: retrying will not
\* help" (queue.go:167): nothing else takes an undelivered item off the queue.
DroppedOnlyWhenHopeless ==
  \A i \in Item : outcome[i] \in {"none", "ok", "refused", "gone"}
=============================================================================
