--------------------------------- MODULE Ipc ---------------------------------
(***************************************************************************)
(* The control socket (internal/daemon/ipc_handler.go): one handler per    *)
(* client, which answers at once, runs an operation that is cancelled when *)
(* the client goes away (but does not notice while it waits for the peer), *)
(* adds a peer, shows a pairing QR until its window ends, or streams the   *)
(* events other goroutines broadcast (internal/daemon/daemon.go).          *)
(***************************************************************************)
EXTENDS Integers, Sequences, FiniteSets

CONSTANTS
  Client,
  Buffer,     \* capacity of a subscriber's channel
  MaxBroadcasts, \* bound: events broadcast
  NoWindow

ASSUME IpcConstantsOK ==
  /\ Buffer \in Nat \ {0} /\ MaxBroadcasts \in Nat /\ NoWindow \notin Client

VARIABLES
  hpc,       \* hpc[c]: where the handler of c's connection is
  gone,      \* clients that closed their connection
  cancelled, \* clients whose operation's context is cancelled
  final,     \* final[c]: the responses with Done or Err sent to c
  \* the pairing windows, each named by the client that opened it
  window,    \* d.pairWindow
  wdone,     \* windows whose done channel is closed
  wpaired,   \* windows with paired set
  watched,   \* watched[c]: the window whose done c's handler waits for
  \* the subscribers
  subs,      \* d.subs
  closed,    \* channels that are closed
  buf,       \* buf[c]: events waiting in c's channel
  subMu,     \* d.subMu is held by a broadcast (the others are one step each)
  todo,      \* channels its loop has still to send on
  broadcasts, \* events broadcast so far
  down       \* the daemon's context is done

windows == <<window, wdone, wpaired, watched>>
streams == <<subs, closed, buf, subMu, todo, broadcasts>>
ivars == <<hpc, gone, cancelled, final, windows, streams, down>>

HPC == {"idle", "reply", "op", "blocked", "add", "show", "look", "wait", "subscribe", "stream", "ended"}
Final == {"done", "paired", "complete"}

ITypeOK ==
  /\ hpc \in [Client -> HPC]
  /\ gone \subseteq Client /\ cancelled \subseteq Client
  /\ final \in [Client -> UNION {[1..n -> Final] : n \in 0..2}]
  /\ window \in Client \cup {NoWindow} /\ window \notin wdone
  /\ wdone \subseteq Client /\ wpaired \subseteq Client
  /\ watched \in [Client -> Client \cup {NoWindow}]
  /\ subs \subseteq Client /\ closed \subseteq Client
  /\ \A c \in Client : buf[c] \in Seq(1..MaxBroadcasts) /\ Len(buf[c]) <= Buffer
  /\ subMu \in BOOLEAN /\ todo \subseteq Client
  /\ broadcasts \in 0..MaxBroadcasts /\ down \in BOOLEAN

IInit ==
  /\ hpc = [c \in Client |-> "idle"]
  /\ gone = {} /\ cancelled = {} /\ final = [c \in Client |-> <<>>]
  /\ window = NoWindow /\ wdone = {} /\ wpaired = {}
  /\ watched = [c \in Client |-> NoWindow]
  /\ subs = {} /\ closed = {} /\ buf = [c \in Client |-> <<>>]
  /\ subMu = FALSE /\ todo = {} /\ broadcasts = 0 /\ down = FALSE

At(c, from, to) == hpc[c] = from /\ hpc' = [hpc EXCEPT ![c] = to]
Answer(c, what) == final' = [final EXCEPT ![c] = Append(@, what)]
-----------------------------------------------------------------------------
(* Requests *)

\* The request is decoded.  One that cannot be is answered like a quick one.
Request(c, kind) ==
  /\ ~down
  /\ kind \in {"reply", "op", "add", "show", "subscribe"}
  /\ At(c, "idle", kind)
  /\ UNCHANGED <<gone, cancelled, final, windows, streams, down>>

\* The commands that reply at once, with what they found or an error.
Reply(c) ==
  /\ At(c, "reply", "ended")
  /\ Answer(c, "done")
  /\ UNCHANGED <<gone, cancelled, windows, streams, down>>

\* send, clip, pair with, pair confirm, ping: the operation returns.
OpReturns(c) ==
  /\ At(c, "op", "ended")
  /\ Answer(c, "done")
  /\ UNCHANGED <<gone, cancelled, windows, streams, down>>

\* It waits for the peer, in a read, a write or a handshake that does not heed
\* the context, and comes back.
OpBlocks(c) ==
  /\ At(c, "op", "blocked") \/ At(c, "blocked", "op")
  /\ UNCHANGED <<gone, cancelled, final, windows, streams, down>>

\* pair add: AddPeer dials the peer and reads its Hello without a context.
AddReturns(c) ==
  /\ At(c, "add", "ended")
  /\ Answer(c, "done")
  /\ UNCHANGED <<gone, cancelled, windows, streams, down>>

\* cancelOnDisconnect; the daemon's own context is the parent.
CancelOnDisconnect(c) ==
  /\ hpc[c] \in {"op", "blocked"} /\ c \notin cancelled /\ (c \in gone \/ down)
  /\ cancelled' = cancelled \cup {c}
  /\ UNCHANGED <<hpc, gone, final, windows, streams, down>>

ClientLeaves(c) ==
  /\ c \notin gone /\ hpc[c] # "idle"
  /\ gone' = gone \cup {c}
  /\ UNCHANGED <<hpc, cancelled, final, windows, streams, down>>
-----------------------------------------------------------------------------
(* pair show *)

\* closePairWindow
Close(w) ==
  /\ window' = IF window = w THEN NoWindow ELSE window
  /\ wdone' = wdone \cup {w}

OpenPairWindow(c) ==
  /\ At(c, "show", "look")
  /\ window' = c
  /\ UNCHANGED <<gone, cancelled, final, wdone, wpaired, watched, streams, down>>

\* Mutant: nothing is said when there is no window any more.
PairWindowDoneSilent(c) ==
  /\ hpc[c] = "look"
  /\ \/ /\ window = NoWindow
        /\ At(c, "look", "ended") /\ Close(c)
        /\ UNCHANGED <<final, watched>>
     \/ /\ window # NoWindow
        /\ At(c, "look", "wait") /\ watched' = [watched EXCEPT ![c] = window]
        /\ UNCHANGED <<final, window, wdone>>
  /\ UNCHANGED <<gone, cancelled, wpaired, streams, down>>

\* pairWindowDone: the window that is open by now, if there is one.
PairWindowDone(c) ==
  /\ hpc[c] = "look"
  /\ \/ /\ window = NoWindow
        /\ At(c, "look", "ended") /\ Answer(c, "done") /\ Close(c)
        /\ UNCHANGED watched
     \/ /\ window # NoWindow
        /\ At(c, "look", "wait") /\ watched' = [watched EXCEPT ![c] = window]
        /\ UNCHANGED <<final, window, wdone>>
  /\ UNCHANGED <<gone, cancelled, wpaired, streams, down>>

\* Mutant: the window is left open.
WaitEndsOpen(c) ==
  /\ At(c, "wait", "ended")
  /\ \/ watched[c] \in wdone /\ Answer(c, IF watched[c] \in wpaired THEN "paired" ELSE "complete")
     \/ c \in gone /\ UNCHANGED final
     \/ down /\ Answer(c, "done")
  /\ UNCHANGED <<gone, cancelled, window, wdone, wpaired, watched, streams, down>>

\* waitPairOrDisconnect returns; the deferred cancel closes the own window.
WaitEnds(c) ==
  /\ At(c, "wait", "ended")
  /\ \/ watched[c] \in wdone /\ Answer(c, IF watched[c] \in wpaired THEN "paired" ELSE "complete")
     \/ c \in gone /\ UNCHANGED final
     \/ down /\ Answer(c, "done")
  /\ Close(c)
  /\ UNCHANGED <<gone, cancelled, wpaired, watched, streams, down>>

\* tryCompletePairing on an inbound connection.
PeerPairs ==
  /\ window # NoWindow /\ ~down
  /\ wpaired' = wpaired \cup {window}
  /\ Close(window)
  /\ UNCHANGED <<hpc, gone, cancelled, final, watched, streams, down>>

\* The five minutes of the window are over.
WindowExpires(w) ==
  /\ hpc[w] \in {"look", "wait"} /\ w \notin wdone
  /\ Close(w)
  /\ UNCHANGED <<hpc, gone, cancelled, final, wpaired, watched, streams, down>>
-----------------------------------------------------------------------------
(* Events *)

Subscribe(c) ==
  /\ At(c, "subscribe", "stream")
  /\ ~subMu
  /\ subs' = subs \cup {c}
  /\ UNCHANGED <<gone, cancelled, final, windows, closed, buf, subMu, todo, broadcasts, down>>

\* broadcast takes the lock,
Broadcast ==
  /\ ~subMu /\ broadcasts < MaxBroadcasts
  /\ subMu' = TRUE /\ todo' = subs /\ broadcasts' = broadcasts + 1
  /\ UNCHANGED <<hpc, gone, cancelled, final, windows, subs, closed, buf, down>>

\* sends to one subscriber after the other (who has no room misses the event)
BroadcastTo(c) ==
  /\ c \in todo /\ todo' = todo \ {c}
  /\ buf' = IF Len(buf[c]) < Buffer THEN [buf EXCEPT ![c] = Append(@, broadcasts)] ELSE buf
  /\ UNCHANGED <<hpc, gone, cancelled, final, windows, subs, closed, subMu, broadcasts, down>>

\* and releases it.
BroadcastDone ==
  /\ subMu /\ todo = {}
  /\ subMu' = FALSE
  /\ UNCHANGED <<hpc, gone, cancelled, final, windows, subs, closed, buf, todo, broadcasts, down>>

\* streamEvents sends on the next event.
Forward(c) ==
  /\ hpc[c] = "stream" /\ buf[c] # <<>>
  /\ buf' = [buf EXCEPT ![c] = Tail(@)]
  /\ UNCHANGED <<hpc, gone, cancelled, final, windows, subs, closed, subMu, todo, broadcasts, down>>

\* Mutant: the lock is not taken.
UnsubscribeUnlocked(c) ==
  /\ subs' = subs \ {c}
  /\ closed' = closed \cup {c}

\* The unsubscribe function, under the lock broadcast takes.
Unsubscribe(c) ==
  /\ ~subMu
  /\ subs' = subs \ {c}
  /\ closed' = closed \cup {c}

StreamEnds(c) ==
  /\ At(c, "stream", "ended")
  /\ \/ c \in gone /\ UNCHANGED final
     \/ down /\ Answer(c, "done")
  /\ Unsubscribe(c)
  /\ UNCHANGED <<gone, cancelled, windows, buf, subMu, todo, broadcasts, down>>

Shutdown ==
  /\ ~down /\ down' = TRUE
  /\ UNCHANGED <<hpc, gone, cancelled, final, windows, streams>>
-----------------------------------------------------------------------------
Handler(c) ==
  \/ Reply(c) \/ CancelOnDisconnect(c) \/ OpenPairWindow(c) \/ PairWindowDone(c)
  \/ WaitEnds(c) \/ Subscribe(c) \/ Forward(c) \/ StreamEnds(c)

INext ==
  \/ \E c \in Client : \/ \E kind \in HPC : Request(c, kind)
                       \/ Handler(c) \/ OpBlocks(c) \/ OpReturns(c) \/ AddReturns(c)
                       \/ ClientLeaves(c) \/ WindowExpires(c) \/ BroadcastTo(c)
  \/ PeerPairs \/ Broadcast \/ BroadcastDone \/ Shutdown

ISpec == IInit /\ [][INext]_ivars

\* Handlers run (a select with several cases ready picks each in the end, and a
\* mutex each who waits for it), a window's timer fires, a broadcast does not
\* block, and an operation whose context is cancelled returns if it is again
\* and again not waiting for its peer.
IFairSpec ==
  /\ ISpec /\ WF_ivars(BroadcastDone)
  /\ \A c \in Client : /\ WF_ivars(Handler(c)) /\ WF_ivars(WindowExpires(c)) /\ WF_ivars(BroadcastTo(c))
                       /\ SF_ivars(Subscribe(c) \/ StreamEnds(c)) /\ WF_ivars(WaitEnds(c))
                       /\ SF_ivars(OpReturns(c) /\ c \in cancelled)
-----------------------------------------------------------------------------
(* Properties *)

\* A client that stays gets exactly one final response, and the last thing its
\* handler does is to send it: the command line tool reads until then.
AnsweredOnce ==
  \A c \in Client :
    /\ Len(final[c]) <= 1
    /\ hpc[c] = "ended" /\ c \notin gone => Len(final[c]) = 1

\* No event is sent on a closed channel (which would end the daemon): while a
\* broadcast goes through the subscribers, those that leave wait for its end,
\* and the next one does not find them.
NoSendOnClosed == todo \cap closed = {}

\* A client that went away, or a daemon that stops, leaves nothing behind, if
\* no wait for a peer lasts for ever: the handler ends, its window is closed
\* and its subscription gone.  (Neither a read from a peer that froze nor the
\* dial of a pair add is cut short: send.go:188, pairing.go:82.  A client that
\* stays reads what it is sent.)
LeaverIsCleanedUp ==
  \A c \in Client :
    /\ []<>(hpc[c] # "blocked")
    /\ []<>(hpc[c] # "add")
    => (c \in gone \/ (down /\ hpc[c] # "idle")
          ~> hpc[c] = "ended" /\ window # c /\ c \notin subs)

\* "blocks during a pair-show until pairing completes, the CLI disconnects, or
\* the daemon shuts down" (ipc_handler.go:285): a client that is told
\* "pairing complete" has been paired with.  Does not hold (README, section 7):
\* it is said exactly when the window ended without a pairing.
CompleteMeansPaired ==
  \A c \in Client : \A k \in 1..Len(final[c]) : final[c][k] # "complete"
=============================================================================
