--------------------------- MODULE RequestProofs ----------------------------
(***************************************************************************)
(* A request of the command line tool.  Its handler answers it once, and   *)
(* no event is sent on the channel of a subscriber that left; dialling the *)
(* peer reaches it when it is there; and a running setup of a direct       *)
(* channel keeps the inbox it made, whatever Reticulum loses, repeats,     *)
(* delays and reorders.  The proofs for Ipc, Dial and DirectSetup.         *)
(***************************************************************************)
EXTENDS DirectSetup, Ipc, Dial, FiniteSetTheorems, TLAPS
-----------------------------------------------------------------------------
(* Ipc *)

\* A handler that has not ended has sent no final response, and a channel is
\* closed by the handler's end.
AnswerInv ==
  /\ hpc \in [Client -> HPC] /\ final \in [Client -> Seq(Final)]
  /\ \A c \in Client :
       /\ hpc[c] # "ended" => final[c] = <<>> /\ c \notin closed
       /\ hpc[c] = "ended" => Len(final[c]) <= 1 /\ (c \notin gone => Len(final[c]) = 1)

\* What a broadcast has still to send on are channels of subscribers, which it
\* keeps from leaving by its lock; and no subscriber's channel is closed.
ChannelInv ==
  /\ subs \cap closed = {}
  /\ todo \subseteq subs
  /\ subMu \/ todo = {}

IpcInv == AnswerInv /\ ChannelInv

LEMMA InitIpcInv ==
  ASSUME IInit
  PROVE  IpcInv
  BY DEF IInit, IpcInv, AnswerInv, ChannelInv, HPC

\* A handler ends, with an answer unless its client is gone.
LEMMA EndKeeps ==
  ASSUME IpcInv, NEW c \in Client, NEW from \in HPC \ {"ended"}, At(c, from, "ended"),
         (\E what \in Final : Answer(c, what)) \/ (c \in gone /\ UNCHANGED final), UNCHANGED gone,
         UNCHANGED <<subs, closed>> \/ Unsubscribe(c), UNCHANGED <<subMu, todo>>
  PROVE  IpcInv'
<1>1. /\ hpc \in [Client -> HPC] /\ final \in [Client -> Seq(Final)]
      /\ final[c] = <<>> /\ c \notin closed
      /\ hpc' = [hpc EXCEPT ![c] = "ended"]
  BY DEF IpcInv, AnswerInv, At
<1>2. hpc' \in [Client -> HPC] /\ \A e \in Client : hpc'[e] = IF e = c THEN "ended" ELSE hpc[e]
  BY <1>1 DEF HPC
<1> DEFINE Last == /\ final' \in [Client -> Seq(Final)]
                   /\ \A e \in Client : e # c => final'[e] = final[e]
                   /\ Len(final'[c]) <= 1 /\ (c \notin gone => Len(final'[c]) = 1)
<1>3. Last
  <2>1. CASE c \in gone /\ UNCHANGED final
    BY <1>1, <2>1
  <2>2. ASSUME NEW what \in Final, Answer(c, what)
        PROVE  Last
    <3>1. final' = [final EXCEPT ![c] = Append(<<>>, what)]
      BY <1>1, <2>2 DEF Answer
    <3>2. Append(<<>>, what) \in Seq(Final) /\ Len(Append(<<>>, what)) = 1
      OBVIOUS
    <3> QED
      BY <1>1, <3>1, <3>2
  <2> QED
    BY <2>1, <2>2
<1>4. ChannelInv' /\ \A e \in Client : e \in closed' => e \in closed \/ e = c
  <2>1. CASE UNCHANGED <<subs, closed>>
    BY <2>1 DEF IpcInv, ChannelInv
  <2>2. CASE Unsubscribe(c)
    BY <2>2 DEF IpcInv, ChannelInv, Unsubscribe
  <2> QED
    BY <2>1, <2>2
<1>5. ASSUME NEW e \in Client
      PROVE  /\ hpc'[e] # "ended" => final'[e] = <<>> /\ e \notin closed'
             /\ hpc'[e] = "ended" => Len(final'[e]) <= 1 /\ (e \notin gone' => Len(final'[e]) = 1)
  BY <1>2, <1>3, <1>4 DEF IpcInv, AnswerInv
<1> QED
  BY <1>2, <1>3, <1>4, <1>5 DEF IpcInv, AnswerInv

\* A handler goes on and sends nothing final.
LEMMA GoesOn ==
  ASSUME IpcInv, NEW c \in Client, NEW from \in HPC \ {"ended"}, NEW to \in HPC \ {"ended"},
         At(c, from, to), UNCHANGED <<gone, final, closed, subMu, todo>>,
         subs' = subs \/ subs' = subs \cup {c}
  PROVE  IpcInv'
<1>1. hpc \in [Client -> HPC] /\ hpc[c] # "ended" /\ hpc' = [hpc EXCEPT ![c] = to] /\ c \notin closed
  BY DEF IpcInv, AnswerInv, At
<1>2. hpc' \in [Client -> HPC] /\ \A e \in Client : hpc'[e] = IF e = c THEN to ELSE hpc[e]
  BY <1>1
<1>3. AnswerInv'
  BY <1>1, <1>2 DEF IpcInv, AnswerInv
<1>4. ChannelInv'
  BY <1>1 DEF IpcInv, ChannelInv
<1> QED
  BY <1>3, <1>4 DEF IpcInv

LEMMA NextIpcInv ==
  ASSUME IpcInv, [INext]_ivars
  PROVE  IpcInv'
<1>1. ASSUME NEW c \in Client, NEW kind \in HPC, Request(c, kind)
      PROVE  IpcInv'
  BY <1>1, GoesOn DEF Request, HPC, streams
<1>2. ASSUME NEW c \in Client, Reply(c) \/ OpReturns(c) \/ AddReturns(c)
      PROVE  IpcInv'
  BY <1>2, EndKeeps DEF Reply, OpReturns, AddReturns, HPC, Final, streams
<1>3. ASSUME NEW c \in Client, OpenPairWindow(c) \/ OpBlocks(c)
      PROVE  IpcInv'
  BY <1>3, GoesOn DEF OpenPairWindow, OpBlocks, HPC, streams
<1>4. ASSUME NEW c \in Client, PairWindowDone(c)
      PROVE  IpcInv'
  BY <1>4, EndKeeps, GoesOn DEF PairWindowDone, HPC, Final, streams
<1>5. ASSUME NEW c \in Client, WaitEnds(c)
      PROVE  IpcInv'
  BY <1>5, EndKeeps DEF WaitEnds, HPC, Final, streams
<1>6. ASSUME NEW c \in Client, Subscribe(c)
      PROVE  IpcInv'
  BY <1>6, GoesOn DEF Subscribe, HPC
<1>7. ASSUME NEW c \in Client, StreamEnds(c)
      PROVE  IpcInv'
  BY <1>7, EndKeeps DEF StreamEnds, HPC, Final
<1>8. CASE Broadcast \/ BroadcastDone \/ \E c \in Client : BroadcastTo(c)
  <2>1. UNCHANGED <<hpc, gone, final, subs, closed>>
    BY <1>8, Zenon DEF Broadcast, BroadcastTo, BroadcastDone
  <2>2. /\ todo' \subseteq subs
        /\ subMu' \/ todo' = {}
    <3>1. CASE Broadcast
      BY <3>1, Zenon DEF Broadcast
    <3>2. ASSUME NEW c \in Client, BroadcastTo(c)
          PROVE  todo' \subseteq subs /\ (subMu' \/ todo' = {})
      BY <3>2, Zenon DEF BroadcastTo, IpcInv, ChannelInv
    <3>3. CASE BroadcastDone
      BY <3>3, Zenon DEF BroadcastDone, IpcInv, ChannelInv
    <3> QED
      BY <1>8, <3>1, <3>2, <3>3
  <2>3. AnswerInv'
    BY <2>1, Zenon DEF IpcInv, AnswerInv
  <2> QED
    BY <2>1, <2>2, <2>3, Zenon DEF IpcInv, ChannelInv
<1>9. CASE \/ \E c \in Client : \/ CancelOnDisconnect(c) \/ Forward(c)
                               \/ ClientLeaves(c) \/ WindowExpires(c)
           \/ PeerPairs \/ Shutdown \/ UNCHANGED ivars
  <2>1. UNCHANGED <<hpc, final, subs, closed, subMu, todo>> /\ gone \subseteq gone'
    BY <1>9 DEF CancelOnDisconnect, Forward, ClientLeaves, WindowExpires, PeerPairs,
                Shutdown, ivars, streams
  <2> QED
    BY <2>1, Zenon DEF IpcInv, AnswerInv, ChannelInv
<1> QED
  BY <1>1, <1>2, <1>3, <1>4, <1>5, <1>6, <1>7, <1>8, <1>9 DEF INext, Handler

\* The invariant of the handlers and the broadcasts.
LEMMA IpcInvariance == ISpec => []IpcInv
<1>1. IInit => IpcInv
  BY InitIpcInv
<1>2. IpcInv /\ [INext]_ivars => IpcInv'
  BY NextIpcInv
<1> QED
  BY <1>1, <1>2, PTL DEF ISpec

\* A client that stays gets exactly one final response, by the time its
\* handler (handleIPC) ends.
THEOREM AnswerSafety == ISpec => []AnsweredOnce
<1>1. IpcInv => AnsweredOnce
  BY DEF IpcInv, AnswerInv, AnsweredOnce
<1> QED
  BY <1>1, IpcInvariance, PTL

\* broadcast never sends on a channel that a subscriber's end has closed,
\* although subscribers leave while its loop is under way: subMu keeps the
\* close of a channel and the loop apart.
THEOREM ChannelSafety == ISpec => []NoSendOnClosed
<1>1. IpcInv => NoSendOnClosed
  BY DEF IpcInv, ChannelInv, NoSendOnClosed
<1> QED
  BY <1>1, IpcInvariance, PTL
-----------------------------------------------------------------------------
(* Dial *)

\* The call has given up the LAN, or is about to.
Beyond == {"polled", "direct", "wake", "posted", "wakewait", "wakedial", "waked", "unreachable"}

\* What a steady target means for the call: it is the device the call dials,
\* paired, listening and somewhere; an address that was dialled in vain is not
\* its own, after the resolve the stored one is, and then that one is dialled.
SteadyInv ==
  steady =>
    /\ holder # None /\ dev.fp = holder /\ holder \in paired \cap listening
    /\ at[holder] # Away
    /\ stage \in {"resolve", "poll"} => dev.addr # at[holder]
    /\ stage = "poll" => addr[holder] = at[holder]
    /\ stage = "redial" => dev.addr = at[holder]
    /\ stage \notin Beyond

DialInv ==
  /\ paired \subseteq Fp /\ holder \in paired \cup {None}
  /\ addr = [f \in Fp |-> addr[f]] /\ at = [f \in Fp |-> at[f]]
  /\ steady \in BOOLEAN
  /\ SteadyInv

\* No call is under way at the start.
LEMMA InitDialInv ==
  ASSUME DInit
  PROVE  DialInv
<1>1. /\ paired = Fp /\ holder \in Fp /\ steady = FALSE
      /\ addr \in [Fp -> Addr] /\ at \in [Fp -> Addr \cup {Away}]
  BY DEF DInit
<1> QED
  BY <1>1, Zenon DEF DialInv, SteadyInv

\* A steady target answers at the address it has.
LEMMA SteadyAnswers ==
  ASSUME DialInv, steady, dev.addr = at[holder]
  PROVE  dev.fp \in Answers(dev.addr)
  BY DEF DialInv, SteadyInv, Answers

\* A dial leaves no target steady that it should have reached.
LEMMA DialEnds ==
  ASSUME DialInv, NEW failure, Dial(failure), failure \notin {"check"}
  PROVE  /\ steady' \in BOOLEAN /\ (steady' => steady)
         /\ stage' = "check" \/ (stage' = failure /\ (steady' => dev.addr # at[holder]))
<1>1. CASE Proceed("check") /\ UNCHANGED steady
  BY <1>1, Zenon DEF Proceed, DialInv
<1>2. CASE Proceed(failure) /\ steady' = (steady /\ dev.fp \notin Answers(dev.addr))
  BY <1>2, SteadyAnswers, Zenon DEF Proceed
<1> QED
  BY <1>1, <1>2, Zenon DEF Dial

\* The steps of the call up to the resolve.
LEMMA LookupKeeps ==
  ASSUME DialInv, Lookup
  PROVE  DialInv'
<1>1. CASE Found
  <2>1. /\ dev' = [fp |-> holder, addr |-> addr[holder]] /\ stage' = "lan"
        /\ steady' = (holder \in listening /\ at[holder] # Away)
        /\ UNCHANGED surroundings
    BY <1>1 DEF Lookup, Current, Proceed
  <2>2. dev'.fp = holder /\ holder \in paired /\ stage' \notin Beyond
    BY <1>1, <2>1 DEF Found, DialInv, Beyond
  <2> QED
    BY <1>1, <2>1, <2>2 DEF DialInv, SteadyInv, Found, surroundings
<1>2. CASE ~Found
  <2>1. UNCHANGED surroundings /\ steady' = FALSE
    BY <1>2, Zenon DEF Lookup
  <2> QED
    BY <2>1, Zenon DEF DialInv, SteadyInv, surroundings
<1> QED
  BY <1>1, <1>2

LEMMA DialLANKeeps ==
  ASSUME DialInv, DialLAN
  PROVE  DialInv'
<1>1. Dial("resolve") /\ stage = "lan" /\ UNCHANGED <<paired, addr, holder, at, listening, dev>>
  BY DEF DialLAN, surroundings
<1>2. /\ steady' \in BOOLEAN /\ (steady' => steady)
      /\ stage' = "check" \/ (stage' = "resolve" /\ (steady' => dev.addr # at[holder]))
  BY <1>1, DialEnds
<1> QED
  BY <1>1, <1>2 DEF DialInv, SteadyInv, Beyond

\* A resolve that saw the target stored its address.
LEMMA ResolveKeeps ==
  ASSUME DialInv, Resolve
  PROVE  DialInv'
<1>1. PICK seen \in SUBSET {f \in paired : at[f] # Away} :
        /\ addr' = [f \in Fp |-> IF f \in seen THEN at[f] ELSE addr[f]]
        /\ steady' = (steady /\ dev.fp \in seen)
  BY DEF Resolve
<1>2. stage = "resolve" /\ stage' = "poll" /\ UNCHANGED <<paired, holder, at, listening, dev>>
  BY DEF Resolve, Proceed
<1>3. steady' => addr'[holder] = at[holder]
  BY <1>1, Zenon DEF DialInv, SteadyInv
<1> QED
  BY <1>1, <1>2, <1>3 DEF DialInv, SteadyInv, Beyond

\* The look at the store finds the address of a steady target, which is new.
LEMMA LookAgainKeeps ==
  ASSUME DialInv, LookAgain
  PROVE  DialInv'
<1>1. stage = "poll" /\ UNCHANGED <<paired, addr, holder, at, listening, steady>>
  BY DEF LookAgain, surroundings
<1>2. CASE steady
  <2>1. Changed /\ addr[holder] = at[holder]
    BY <1>1, <1>2 DEF DialInv, SteadyInv, Changed, Found
  <2>2. dev' = [fp |-> holder, addr |-> addr[holder]] /\ stage' = "redial"
    BY <2>1 DEF LookAgain, Current, Proceed
  <2>3. dev'.fp = holder /\ dev'.addr = at[holder]
    BY <2>1, <2>2
  <2> QED
    BY <1>1, <1>2, <2>2, <2>3 DEF DialInv, SteadyInv, Beyond
<1>3. CASE ~steady
  BY <1>1, <1>3, Zenon DEF DialInv, SteadyInv
<1> QED
  BY <1>2, <1>3

\* A redial is of the address stored now, so it reaches a steady target.
LEMMA RedialKeeps ==
  ASSUME DialInv, Redial
  PROVE  DialInv'
<1>1. Dial("polled") /\ stage = "redial" /\ UNCHANGED <<paired, addr, holder, at, listening, dev>>
  BY DEF Redial, surroundings
<1>2. /\ steady' \in BOOLEAN /\ (steady' => steady)
      /\ stage' = "check" \/ (stage' = "polled" /\ (steady' => dev.addr # at[holder]))
  BY <1>1, DialEnds
<1>3. steady' => stage' = "check"
  BY <1>1, <1>2 DEF DialInv, SteadyInv
<1> QED
  BY <1>1, <1>2, <1>3 DEF DialInv, SteadyInv, Beyond

\* The rest of the call: no target is steady any more, or it is reached.
LEMMA CallKeeps ==
  ASSUME DialInv,
         \/ RecoverTimeout \/ PollWait \/ DialOverDirect \/ Wake \/ WakeAnswered \/ WakePoll
         \/ WakeDial \/ WakeTimeout \/ WakeWait \/ Cancel \/ Check \/ Hello
  PROVE  DialInv'
<1> USE DEF surroundings, Proceed
<1>1. CASE RecoverTimeout \/ PollWait \/ DialOverDirect \/ Wake \/ WakeAnswered \/ WakePoll
           \/ WakeTimeout \/ WakeWait \/ Cancel
  <2>1. stage \in Beyond /\ UNCHANGED <<surroundings, steady>>
    BY <1>1, Zenon DEF RecoverTimeout, PollWait, DialOverDirect, Wake, WakeAnswered, WakePoll,
       WakeTimeout, WakeWait, Cancel, Beyond
  <2>2. ~steady
    BY <2>1, Zenon DEF DialInv, SteadyInv
  <2> QED
    BY <2>1, <2>2, Zenon DEF DialInv, SteadyInv
<1>2. CASE WakeDial
  <2>1. stage \in Beyond /\ UNCHANGED surroundings /\ Dial("waked")
    BY <1>2, Zenon DEF WakeDial, Beyond
  <2>2. ~steady /\ steady' = FALSE
    <3>1. ~steady
      BY <2>1, Zenon DEF DialInv, SteadyInv
    <3>2. steady' \in BOOLEAN /\ (steady' => steady)
      BY <2>1, DialEnds
    <3> QED
      BY <3>1, <3>2
  <2> QED
    BY <2>1, <2>2, Zenon DEF DialInv, SteadyInv
<1>3. CASE Check \/ Hello
  <2>1. /\ UNCHANGED <<surroundings, dev, steady>>
        /\ stage' \in {"hello", "mismatch", "connected", "failed"}
    BY <1>3, Zenon DEF Check, Hello
  <2> QED
    BY <2>1 DEF DialInv, SteadyInv, Beyond
<1> QED
  BY <1>1, <1>2, <1>3

\* What happens around the call: whatever could disturb the target ends its
\* being steady.
LEMMA EventsKeep ==
  ASSUME DialInv,
         \/ Renamed
         \/ \E f \in Fp : \/ Opens(f) \/ Closes(f) \/ Seen(f) \/ Revoked(f)
                         \/ \E a \in Addr \cup {Away} : Moves(f, a)
  PROVE  DialInv'
<1> USE DEF call
<1>1. CASE Renamed
  BY <1>1, Zenon DEF Renamed, DialInv, SteadyInv
<1>2. ASSUME NEW f \in Fp, Opens(f)
      PROVE  DialInv'
  BY <1>2 DEF Opens, DialInv, SteadyInv
<1>3. ASSUME NEW f \in Fp, Closes(f)
      PROVE  DialInv'
  BY <1>3, Zenon DEF Closes, DialInv, SteadyInv
<1>4. ASSUME NEW f \in Fp, Seen(f)
      PROVE  DialInv'
  BY <1>4 DEF Seen, DialInv, SteadyInv
<1>5. ASSUME NEW f \in Fp, Revoked(f)
      PROVE  DialInv'
  BY <1>5, Zenon DEF Revoked, DialInv, SteadyInv
<1>6. ASSUME NEW f \in Fp, NEW a \in Addr \cup {Away}, Moves(f, a)
      PROVE  DialInv'
  BY <1>6, Zenon DEF Moves, DialInv, SteadyInv
<1> QED
  BY <1>1, <1>2, <1>3, <1>4, <1>5, <1>6

LEMMA NextDialInv ==
  ASSUME DialInv, [DNext]_dvars
  PROVE  DialInv'
<1>1. CASE AccessToken \/ Push \/ UNCHANGED dvars
  <2>1. UNCHANGED <<surroundings, stage, dev, steady>>
    BY <1>1, Zenon DEF AccessToken, Push, dvars, call
  <2> QED
    BY <2>1, Zenon DEF surroundings, DialInv, SteadyInv
<1> QED
  BY <1>1, LookupKeeps, DialLANKeeps, ResolveKeeps, LookAgainKeeps, RedialKeeps, CallKeeps,
     EventsKeep DEF DNext, DStep, DWait

\* dialPeer reports no device as unreachable that stayed where it is, listened,
\* was seen by the resolve and whose dials succeed, however many devices and
\* addresses there are and whatever happens to the others.
THEOREM ThereSafety == DSpec => []ThereIsReached
<1>1. DInit => DialInv
  BY InitDialInv
<1>2. DialInv /\ [DNext]_dvars => DialInv'
  BY NextDialInv
<1>3. DialInv => ThereIsReached
  BY DEF DialInv, SteadyInv, ThereIsReached, Beyond
<1> QED
  BY <1>1, <1>2, <1>3, PTL DEF DSpec
-----------------------------------------------------------------------------
(* DirectSetup *)

SetupTypes ==
  /\ net \subseteq Signal
  /\ box \in BySide({0} \cup Box) /\ timers \in BySide(SUBSET Int)
  /\ pc \in ByRun(PC) /\ left \in ByRun(Nat)
  /\ held \in ByRun({0} \cup Box) /\ own \in ByRun(BOOLEAN)

\* Before any run of its side begins, an inbox has exactly one timer, and
\* without an inbox there is none.
OneTimer(d, i) ==
  (\A r \in Run : SideOf(r) = d => pc[r][i] = "idle")
    => \/ box[d][i] = 0 /\ timers[d][i] = {}
       \/ box[d][i] # 0 /\ \E t \in Int : timers[d][i] = {t}

\* The only timer of a run that made its inbox outlasts the run's time.
Outlasts(r, i) ==
  pc[r][i] \in InProgress /\ left[r][i] > 0 /\ own[r][i] /\ Alone(r, i)
    => /\ box[SideOf(r)][i] = held[r][i] /\ held[r][i] # 0
       /\ \E t \in Int : timers[SideOf(r)][i] = {t} /\ t >= left[r][i]

SetupInv ==
  /\ SetupTypes
  /\ \A d \in Side, i \in Setup : OneTimer(d, i)
  /\ \A r \in Run, i \in Setup : Outlasts(r, i)

\* No setup has begun and nothing is under way.
LEMMA InitSetupInv ==
  ASSUME Init
  PROVE  SetupInv
<1>1. SetupTypes
  BY DEF Init, EachSide, EachRun, SetupTypes, BySide, ByRun, PC
<1>2. \A d \in Side, i \in Setup : OneTimer(d, i)
  BY DEF Init, EachSide, OneTimer
<1>3. \A r \in Run, i \in Setup : Outlasts(r, i)
  BY DEF Init, EachRun, Outlasts, InProgress, Timed
<1> QED
  BY <1>1, <1>2, <1>3 DEF SetupInv

LEMMA SideOfRun ==
  ASSUME NEW r \in Run
  PROVE  SideOf(r) \in Side
  BY DEF SideOf, Side

\* There are more channels than runs that read one.
LEMMA NewBoxFree ==
  ASSUME SetupTypes, NEW d \in Side, NEW i \in Setup
  PROVE  NewBox(d, i) \in Box
<1> DEFINE S == {r \in Run : SideOf(r) = d}
           f == [r \in S |-> held[r][i]]
           T == {f[r] : r \in S}
<1>1. MaxRepeats \in Nat
  BY SetupConstantsOK
<1>2. IsFiniteSet(S) /\ Cardinality(S) <= MaxRepeats + 1
  <2>1. CASE d = "dialer"
    <3>1. S = {Dialer}
      BY <2>1, <1>1 DEF SideOf, Run, Accepter, Dialer
    <3>2. IsFiniteSet({Dialer}) /\ Cardinality({Dialer}) = 1
      BY FS_Singleton, Zenon
    <3>3. 1 <= MaxRepeats + 1
      BY <1>1
    <3> HIDE DEF S
    <3> QED
      BY <3>1, <3>2, <3>3, Zenon
  <2>2. CASE d = "accepter"
    <3>1. S = 1..(MaxRepeats + 1)
      BY <2>2, <1>1 DEF SideOf, Run, Accepter, Dialer
    <3> HIDE DEF S
    <3> QED
      BY <1>1, <3>1, FS_Interval
  <2> QED
    BY <2>1, <2>2 DEF Side
<1>3. IsFiniteSet(T) /\ Cardinality(T) <= Cardinality(S) /\ Cardinality(T) \in Nat
  <2>1. f \in Surjection(S, T)
    BY DEF Surjection
  <2> HIDE DEF f, S, T
  <2>2. IsFiniteSet(T) /\ Cardinality(T) <= Cardinality(S)
    BY <1>2, <2>1, FS_Surjection
  <2> QED
    BY <2>2, FS_CardinalityType
<1>4. Cardinality(Box) = MaxRepeats + 2
  BY <1>1, FS_Interval DEF Box
<1>5. ~(Box \subseteq T)
  <2>1. Cardinality(S) \in Nat
    BY <1>2, FS_CardinalityType
  <2> HIDE DEF T, S
  <2>2. ASSUME Box \subseteq T
        PROVE  FALSE
    <3>1. Cardinality(Box) <= Cardinality(T)
      BY <1>3, <2>2, FS_Subset
    <3> QED
      BY <1>1, <1>2, <1>3, <1>4, <2>1, <3>1
  <2> QED
    BY <2>2
<1>6. \E n \in Box : \A r \in Run : SideOf(r) = d => held[r][i] # n
  <2>1. PICK n \in Box : n \notin T
    BY <1>5
  <2>2. ASSUME NEW r \in Run, SideOf(r) = d
        PROVE  held[r][i] # n
    <3>1. r \in S /\ f[r] = held[r][i]
      BY <2>2
    <3> QED
      BY <2>1, <3>1
  <2> QED
    BY <2>2
<1> QED
  BY <1>6, Zenon DEF NewBox

\* Finding or making the inbox of an id.
LEMMA InboxMade ==
  ASSUME SetupTypes, NEW d \in Side, NEW i \in Setup, IceInbox(d, i)
  PROVE  /\ box' \in BySide({0} \cup Box) /\ timers' \in BySide(SUBSET Int)
         /\ \A e \in Side, j \in Setup :
              e # d \/ j # i => box'[e][j] = box[e][j] /\ timers'[e][j] = timers[e][j]
         /\ box'[d][i] # 0
         /\ box[d][i] # 0 => box'[d][i] = box[d][i] /\ timers'[d][i] = timers[d][i]
         /\ box[d][i] = 0 => timers'[d][i] = timers[d][i] \cup {InboxLife}
<1>1. CASE box[d][i] # 0
  BY <1>1 DEF IceInbox, SetupTypes
<1>2. CASE box[d][i] = 0
  <2>1. PICK n \in Box : n = NewBox(d, i)
    BY NewBoxFree
  <2>2. /\ box' = [box EXCEPT ![d][i] = n]
        /\ timers' = [timers EXCEPT ![d][i] = timers[d][i] \cup {InboxLife}]
    BY <1>2, <2>1 DEF IceInbox
  <2>3. n \in {0} \cup Box /\ n # 0 /\ InboxLife \in Int
    BY SetupConstantsOK DEF Box
  <2>4. timers[d][i] \cup {InboxLife} \in SUBSET Int
    BY <2>3 DEF SetupTypes, BySide
  <2>5. box' \in BySide({0} \cup Box)
    BY <2>2, <2>3, ZenonT(30) DEF SetupTypes, BySide
  <2>6. timers' \in BySide(SUBSET Int)
    BY <2>2, <2>4, ZenonT(30) DEF SetupTypes, BySide
  <2>7. /\ \A e \in Side, j \in Setup : e # d \/ j # i =>
              box'[e][j] = box[e][j] /\ timers'[e][j] = timers[e][j]
        /\ timers'[d][i] = timers[d][i] \cup {InboxLife}
        /\ box'[d][i] = n
    BY <2>2 DEF SetupTypes, BySide
  <2> QED
    BY <1>2, <2>3, <2>5, <2>6, <2>7, Zenon
<1> QED
  BY <1>1, <1>2, Zenon

\* dialDirect and acceptDirect begin: an inbox that is made now has the timer
\* that is started now, and no other.
LEMMA BeginKeeps ==
  ASSUME SetupInv, NEW r \in Run, NEW i \in Setup, Begin(r, i), net' \subseteq Signal
  PROVE  SetupInv'
<1> DEFINE d == SideOf(r)
<1>0. SetupTypes /\ d \in Side /\ SetupLife \in Nat /\ InboxLife \in Int /\ SetupLife <= InboxLife
  BY SideOfRun, SetupConstantsOK DEF SetupInv
<1>1. /\ pc[r][i] = "idle" /\ IceInbox(d, i) /\ pc' = [pc EXCEPT ![r][i] = "signal"]
      /\ held' = [held EXCEPT ![r][i] = box'[d][i]]
      /\ own' = [own EXCEPT ![r][i] = (box[d][i] = 0)]
      /\ left' = [left EXCEPT ![r][i] = SetupLife]
  BY Zenon DEF Begin, GoTo
<1> HIDE DEF d
<1>2. /\ box' \in BySide({0} \cup Box) /\ timers' \in BySide(SUBSET Int) /\ box'[d][i] # 0
      /\ \A e \in Side, j \in Setup :
              e # d \/ j # i => box'[e][j] = box[e][j] /\ timers'[e][j] = timers[e][j]
      /\ box[d][i] = 0 => timers'[d][i] = timers[d][i] \cup {InboxLife}
  BY <1>0, <1>1, InboxMade, Zenon
<1>3. /\ pc'[r][i] = "signal" /\ held'[r][i] = box'[d][i] /\ left'[r][i] = SetupLife
      /\ own'[r][i] = (box[d][i] = 0)
      /\ \A q \in Run, j \in Setup : q # r \/ j # i =>
           /\ pc'[q][j] = pc[q][j] /\ left'[q][j] = left[q][j]
           /\ held'[q][j] = held[q][j] /\ own'[q][j] = own[q][j]
  BY <1>0, <1>1, ZenonT(30) DEF SetupTypes, ByRun
<1>4. SetupTypes'
  <2>1. box'[d][i] \in {0} \cup Box /\ "signal" \in PC /\ (box[d][i] = 0) \in BOOLEAN
    BY <1>0, <1>2, Zenon DEF PC, BySide
  <2>2. /\ pc' \in ByRun(PC) /\ left' \in ByRun(Nat) /\ held' \in ByRun({0} \cup Box)
        /\ own' \in ByRun(BOOLEAN)
    BY <1>0, <1>1, <2>1, ZenonT(30) DEF SetupTypes, ByRun
  <2> QED
    BY <1>2, <2>2, Zenon DEF SetupTypes
<1>5. ASSUME NEW e \in Side, NEW j \in Setup
      PROVE  OneTimer(e, j)'
  <2>1. CASE e = d /\ j = i
    BY <1>3, <2>1, Zenon DEF OneTimer, d
  <2>2. CASE e # d \/ j # i
    <3>1. OneTimer(e, j)
      BY DEF SetupInv
    <3>2. \A q \in Run : SideOf(q) = e => pc'[q][j] = pc[q][j]
      BY <1>3, <2>2, Zenon DEF d
    <3> QED
      BY <1>2, <2>2, <3>1, <3>2, Zenon DEF OneTimer
  <2> QED
    BY <2>1, <2>2
<1>6. ASSUME own'[r][i], Alone(r, i)'
      PROVE  \E t \in Int : timers'[d][i] = {t} /\ t >= left'[r][i]
  <2>1. ASSUME NEW q \in Run, SideOf(q) = d
        PROVE  pc[q][i] = "idle"
    <3>1. CASE q = r
      BY <1>1, <3>1
    <3>2. CASE q # r
      <4>1. pc'[q][i] = "idle"
        BY <1>6, <2>1, <3>2, Zenon DEF Alone, d
      <4>2. pc'[q][i] = pc[q][i]
        BY <1>3, <3>2, Zenon
      <4> QED
        BY <4>1, <4>2, Zenon
    <3> QED
      BY <3>1, <3>2
  <2>2. box[d][i] = 0 /\ timers[d][i] = {}
    BY <1>0, <1>3, <1>6, <2>1, Zenon DEF SetupInv, OneTimer
  <2>3. timers'[d][i] = {InboxLife} /\ InboxLife >= left'[r][i]
    BY <1>0, <1>2, <1>3, <2>2
  <2> QED
    BY <1>0, <2>3, Zenon
<1>7. ASSUME NEW q \in Run, NEW j \in Setup, q # r \/ j # i
      PROVE  Outlasts(q, j)'
  <2>1. CASE SideOf(q) = d /\ j = i
    BY <1>3, <1>7, <2>1, Zenon DEF Outlasts, Alone, d
  <2>2. CASE SideOf(q) # d \/ j # i
    <3>1. Outlasts(q, j)
      BY DEF SetupInv
    <3>2. Alone(q, j)' => Alone(q, j)
      BY <1>3, <2>2, Zenon DEF Alone, d
    <3>3. box'[SideOf(q)][j] = box[SideOf(q)][j] /\ timers'[SideOf(q)][j] = timers[SideOf(q)][j]
      BY <1>2, <2>2, SideOfRun, Zenon
    <3>4. /\ pc'[q][j] = pc[q][j] /\ left'[q][j] = left[q][j]
          /\ held'[q][j] = held[q][j] /\ own'[q][j] = own[q][j]
      BY <1>3, <1>7, Zenon
    <3> QED
      BY <3>1, <3>2, <3>3, <3>4, Zenon DEF Outlasts
  <2> QED
    BY <2>1, <2>2
<1>8. Outlasts(r, i)'
  BY <1>2, <1>3, <1>6, Zenon DEF Outlasts, d
<1> QED
  BY <1>4, <1>5, <1>7, <1>8, Zenon DEF SetupInv

\* A run that has begun goes on or ends; another run of its side is not alone.
LEMMA RunKeeps ==
  ASSUME SetupInv, NEW r \in Run, NEW i \in Setup, NEW to \in PC \ {"idle"},
         pc[r][i] # "idle", GoTo(r, i, to), net' \subseteq Signal, UNCHANGED <<timers, own>>,
         UNCHANGED box \/ DropIceInbox(SideOf(r), i),
         \/ UNCHANGED <<left, held>>
         \/ held' = [held EXCEPT ![r][i] = 0] /\ left' = [left EXCEPT ![r][i] = 0],
         to \in InProgress => pc[r][i] \in InProgress /\ UNCHANGED <<box, left, held>>
  PROVE  SetupInv'
<1> DEFINE d == SideOf(r)
<1>0. SetupTypes /\ d \in Side
  BY SideOfRun DEF SetupInv
<1>1. /\ pc'[r][i] = to /\ pc' \in ByRun(PC)
      /\ \A q \in Run, j \in Setup : q # r \/ j # i => pc'[q][j] = pc[q][j]
  BY <1>0, ZenonT(30) DEF GoTo, SetupTypes, ByRun
<1>2. /\ left' \in ByRun(Nat) /\ held' \in ByRun({0} \cup Box)
      /\ \A q \in Run, j \in Setup : q # r \/ j # i =>
           left'[q][j] = left[q][j] /\ held'[q][j] = held[q][j]
  <2>1. CASE UNCHANGED <<left, held>>
    BY <1>0, <2>1, Zenon DEF SetupTypes
  <2>2. CASE held' = [held EXCEPT ![r][i] = 0] /\ left' = [left EXCEPT ![r][i] = 0]
    <3>1. 0 \in Nat /\ 0 \in {0} \cup Box
      OBVIOUS
    <3> QED
      BY <1>0, <2>2, <3>1, ZenonT(30) DEF SetupTypes, ByRun
  <2> QED
    BY <2>1, <2>2
<1>3. /\ box' \in BySide({0} \cup Box)
      /\ \A e \in Side, j \in Setup : e # d \/ j # i => box'[e][j] = box[e][j]
  <2>1. CASE UNCHANGED box
    BY <1>0, <2>1, Zenon DEF SetupTypes
  <2>2. CASE DropIceInbox(d, i)
    <3>1. 0 \in {0} \cup Box
      OBVIOUS
    <3> QED
      BY <1>0, <2>2, <3>1, ZenonT(30) DEF DropIceInbox, SetupTypes, BySide
  <2> QED
    BY <2>1, <2>2
<1> HIDE DEF d
<1>4. SetupTypes'
  BY <1>0, <1>1, <1>2, <1>3, Zenon DEF SetupTypes
<1>5. ASSUME NEW e \in Side, NEW j \in Setup
      PROVE  OneTimer(e, j)'
  <2>1. CASE e = d /\ j = i
    BY <1>1, <2>1, Zenon DEF OneTimer, d
  <2>2. CASE e # d \/ j # i
    <3>1. OneTimer(e, j)
      BY DEF SetupInv
    <3>2. \A q \in Run : SideOf(q) = e => pc'[q][j] = pc[q][j]
      BY <1>1, <2>2, Zenon DEF d
    <3> QED
      BY <1>3, <2>2, <3>1, <3>2, Zenon DEF OneTimer
  <2> QED
    BY <2>1, <2>2
<1>6. Outlasts(r, i)'
  <2>1. Outlasts(r, i)
    BY DEF SetupInv
  <2>2. Alone(r, i)' => Alone(r, i)
    BY <1>1, Zenon DEF Alone
  <2> QED
    BY <1>1, <2>1, <2>2, Zenon DEF Outlasts
<1>7. ASSUME NEW q \in Run, NEW j \in Setup, q # r \/ j # i
      PROVE  Outlasts(q, j)'
  <2>1. CASE SideOf(q) = d /\ j = i
    BY <1>1, <1>7, <2>1, Zenon DEF Outlasts, Alone, d
  <2>2. CASE SideOf(q) # d \/ j # i
    <3>1. Outlasts(q, j)
      BY DEF SetupInv
    <3>2. Alone(q, j)' => Alone(q, j)
      BY <1>1, <2>2, Zenon DEF Alone, d
    <3>3. box'[SideOf(q)][j] = box[SideOf(q)][j]
      BY <1>3, <2>2, SideOfRun, Zenon
    <3> QED
      BY <1>1, <1>2, <1>7, <3>1, <3>2, <3>3, Zenon DEF Outlasts
  <2> QED
    BY <2>1, <2>2
<1> QED
  BY <1>4, <1>5, <1>6, <1>7, Zenon DEF SetupInv

\* The signals a run sends.
LEMMA SendsSignal ==
  ASSUME SetupTypes, NEW r \in Run, NEW i \in Setup, NEW kind \in {"offer", "answer", "cand"},
         Sends(r, i, kind)
  PROVE  net' \subseteq Signal
<1>1. Other(SideOf(r)) \in Side
  BY DEF Other, Side
<1>2. [to |-> Other(SideOf(r)), kind |-> kind, id |-> i, from |-> r] \in Signal
  BY <1>1 DEF Signal
<1> QED
  BY <1>2 DEF Sends, SetupTypes

\* A step of one run.
LEMMA StepKeeps ==
  ASSUME SetupInv, NEW r \in Run, NEW i \in Setup,
         \/ Step(r, i) \/ (r = Dialer /\ DialerUp(i))
         \/ (r \in Accepter /\ (AccepterUp(r, i) \/ Closed(r, i)))
  PROVE  SetupInv'
<1> USE DEF inboxes, setups
<1>0. SetupTypes /\ net \subseteq Signal
  BY DEF SetupInv, SetupTypes
<1>1. CASE SignalCreds(r, i)
  <2>1. net' \subseteq Signal
    BY <1>0, <1>1, SendsSignal DEF SignalCreds
  <2> QED
    BY <1>1, <2>1, RunKeeps, Zenon DEF SignalCreds, PC, InProgress, Timed
<1>2. CASE SignalCand(r, i) \/ TakeSignal(r, i)
  <2>1. net' \subseteq Signal
    <3>1. CASE SignalCand(r, i)
      BY <1>0, <3>1, SendsSignal DEF SignalCand
    <3>2. CASE TakeSignal(r, i)
      BY <1>0, <3>2, Zenon DEF TakeSignal
    <3> QED
      BY <1>2, <3>1, <3>2
  <2>2. UNCHANGED <<box, timers, pc, left, held, own>>
    BY <1>2, Zenon DEF SignalCand, TakeSignal
  <2> QED
    BY <2>1, <2>2, ZenonT(30) DEF SetupInv, SetupTypes, OneTimer, Outlasts, Alone
<1>3. CASE HasCreds(r, i) \/ IceConnects(r, i)
  <2>1. PICK to \in {"ice", "quic"} : GoTo(r, i, to)
    BY <1>3, Zenon DEF HasCreds, IceConnects
  <2>2. UNCHANGED <<net, box, timers, left, held, own>> /\ pc[r][i] \in {"creds", "ice"}
    BY <1>3, Zenon DEF HasCreds, IceConnects
  <2> QED
    BY <1>0, <2>1, <2>2, RunKeeps, Zenon DEF PC, InProgress, Timed
<1>4. CASE Fails(r, i) \/ TimeOut(r, i)
  <2>1. End(r, i) /\ pc[r][i] # "idle"
    BY <1>4, Zenon DEF Fails, TimeOut, InProgress, Timed
  <2> QED
    BY <1>0, <2>1, RunKeeps, Zenon DEF End, Return, PC, InProgress, Timed
<1>5. CASE r = Dialer /\ DialerUp(i)
  <2>1. SideOf(r) = "dialer"
    BY <1>5, Zenon DEF SideOf
  <2> QED
    BY <1>0, <1>5, <2>1, RunKeeps, Zenon DEF DialerUp, Return, PC, InProgress, Timed
<1>6. CASE AccepterUp(r, i)
  BY <1>0, <1>6, RunKeeps, Zenon DEF AccepterUp, Return, PC, InProgress, Timed
<1>7. CASE r \in Accepter /\ Closed(r, i)
  <2>1. SideOf(r) = "accepter"
    BY <1>7, SetupConstantsOK DEF SideOf, Accepter, Dialer
  <2> QED
    BY <1>0, <1>7, <2>1, RunKeeps, Zenon DEF Closed, PC, InProgress, Timed
<1> QED
  BY <1>1, <1>2, <1>3, <1>4, <1>5, <1>6, <1>7 DEF Step

\* A signal goes to the inbox of its id, which a run that made it has already.
LEMMA DeliverKeeps ==
  ASSUME SetupInv, NEW m \in net, Deliver(m)
  PROVE  SetupInv'
<1> DEFINE d == m.to
           i == m.id
<1>1. SetupTypes /\ d \in Side /\ i \in Setup
  BY DEF SetupInv, SetupTypes, Signal
<1>2. net' \subseteq Signal
  BY DEF Deliver, Taken, SetupInv, SetupTypes
<1>3. ASSUME NEW a \in Accepter, Begin(a, i)
      PROVE  SetupInv'
  BY <1>1, <1>2, <1>3, BeginKeeps DEF Run
<1>4. CASE IceInbox(d, i) /\ UNCHANGED setups
  <2>0. UNCHANGED <<pc, left, held, own>>
    BY <1>4 DEF setups
  <2> HIDE DEF d, i
  <2>1. /\ box' \in BySide({0} \cup Box) /\ timers' \in BySide(SUBSET Int)
        /\ \A e \in Side, j \in Setup :
              e # d \/ j # i => box'[e][j] = box[e][j] /\ timers'[e][j] = timers[e][j]
        /\ box'[d][i] # 0
        /\ box[d][i] # 0 => box'[d][i] = box[d][i] /\ timers'[d][i] = timers[d][i]
        /\ box[d][i] = 0 => timers'[d][i] = timers[d][i] \cup {InboxLife}
    BY <1>1, <1>4, InboxMade, Zenon
  <2>2. SetupTypes'
    BY <1>1, <1>2, <2>0, <2>1, Zenon DEF SetupTypes
  <2>3. ASSUME NEW e \in Side, NEW j \in Setup
        PROVE  OneTimer(e, j)'
    <3>1. OneTimer(e, j)
      BY DEF SetupInv
    <3>2. CASE e = d /\ j = i /\ box[d][i] = 0
      <4>1. timers[d][i] = {} => timers'[d][i] = {InboxLife} /\ InboxLife \in Int
        BY <2>1, <3>2, SetupConstantsOK
      <4> QED
        BY <2>0, <2>1, <3>1, <3>2, <4>1, Zenon DEF OneTimer
    <3>3. CASE ~(e = d /\ j = i /\ box[d][i] = 0)
      <4>1. box'[e][j] = box[e][j] /\ timers'[e][j] = timers[e][j]
        BY <2>1, <3>3, Zenon
      <4> QED
        BY <2>0, <3>1, <4>1, Zenon DEF OneTimer
    <3> QED
      BY <3>2, <3>3
  <2>4. ASSUME NEW r \in Run, NEW j \in Setup
        PROVE  Outlasts(r, j)'
    <3>1. Outlasts(r, j) /\ SideOf(r) \in Side
      BY SideOfRun DEF SetupInv
    <3>2. box[SideOf(r)][j] # 0 => /\ box'[SideOf(r)][j] = box[SideOf(r)][j]
                                   /\ timers'[SideOf(r)][j] = timers[SideOf(r)][j]
      BY <2>1, <3>1, Zenon
    <3> QED
      BY <2>0, <3>1, <3>2, Zenon DEF Outlasts, Alone
  <2> QED
    BY <2>2, <2>3, <2>4, Zenon DEF SetupInv
<1> QED
  BY <1>3, <1>4, Zenon DEF Deliver

\* A timer that fires is not the one of a run with time left.
LEMMA TimerKeeps ==
  ASSUME SetupInv, NEW d \in Side, NEW i \in Setup, TimerFires(d, i)
  PROVE  SetupInv'
<1>1. /\ 0 \in timers[d][i] /\ timers' = [timers EXCEPT ![d][i] = timers[d][i] \ {0}]
      /\ box' = [box EXCEPT ![d][i] = 0] /\ UNCHANGED <<net, pc, left, held, own>>
  BY DEF TimerFires, DropIceInbox, setups
<1>2. SetupTypes
  BY DEF SetupInv
<1>3. /\ timers'[d][i] = timers[d][i] \ {0} /\ box'[d][i] = 0
      /\ \A e \in Side, j \in Setup : e # d \/ j # i =>
              box'[e][j] = box[e][j] /\ timers'[e][j] = timers[e][j]
  BY <1>1, <1>2, ZenonT(30) DEF SetupTypes, BySide
<1>4. SetupTypes'
  <2>1. timers[d][i] \ {0} \in SUBSET Int /\ 0 \in {0} \cup Box
    BY <1>2 DEF SetupTypes, BySide
  <2>2. timers' \in BySide(SUBSET Int) /\ box' \in BySide({0} \cup Box)
    BY <1>1, <1>2, <2>1, ZenonT(30) DEF SetupTypes, BySide
  <2> QED
    BY <1>1, <1>2, <2>2, Zenon DEF SetupTypes
<1>5. ASSUME NEW e \in Side, NEW j \in Setup
      PROVE  OneTimer(e, j)'
  <2>1. OneTimer(e, j)
    BY DEF SetupInv
  <2>2. CASE e = d /\ j = i
    <3>1. ASSUME NEW t \in Int, timers[d][i] = {t}
          PROVE  timers'[d][i] = {}
      BY <1>1, <1>3, <3>1
    <3>2. timers[d][i] # {}
      BY <1>1
    <3> QED
      BY <1>1, <1>3, <2>1, <2>2, <3>1, <3>2, Zenon DEF OneTimer
  <2>3. CASE e # d \/ j # i
    BY <1>1, <1>3, <2>1, <2>3, Zenon DEF OneTimer
  <2> QED
    BY <2>2, <2>3
<1>6. ASSUME NEW r \in Run, NEW j \in Setup
      PROVE  Outlasts(r, j)'
  <2>1. Outlasts(r, j) /\ SideOf(r) \in Side
    BY SideOfRun DEF SetupInv
  <2>2. CASE SideOf(r) = d /\ j = i
    <3>1. left[r][j] \in Nat
      BY <1>2 DEF SetupTypes, ByRun
    <3>2. ASSUME NEW t \in Int, timers[d][i] = {t}, t >= left[r][j], left[r][j] > 0
          PROVE  FALSE
      BY <1>1, <3>1, <3>2
    <3> QED
      BY <1>1, <2>1, <2>2, <3>2, Zenon DEF Outlasts, Alone
  <2>3. CASE SideOf(r) # d \/ j # i
    <3>1. box'[SideOf(r)][j] = box[SideOf(r)][j] /\ timers'[SideOf(r)][j] = timers[SideOf(r)][j]
      BY <1>3, <2>1, <2>3, Zenon
    <3> QED
      BY <1>1, <2>1, <3>1, Zenon DEF Outlasts, Alone
  <2> QED
    BY <2>2, <2>3
<1> QED
  BY <1>4, <1>5, <1>6, Zenon DEF SetupInv

\* Time passes for timers and runs alike.
LEMMA TickKeeps ==
  ASSUME SetupInv, Tick
  PROVE  SetupInv'
<1>0. SetupTypes
  BY DEF SetupInv
<1>1. /\ UNCHANGED <<net, box, pc, held, own>>
      /\ timers' = [d \in Side |-> [i \in Setup |-> {t - 1 : t \in timers[d][i]}]]
      /\ left' = [r \in Run |-> [i \in Setup |->
                    IF pc[r][i] \in InProgress /\ left[r][i] > 0 THEN left[r][i] - 1 ELSE left[r][i]]]
  BY DEF Tick
<1>2. ASSUME NEW d \in Side, NEW i \in Setup
      PROVE  timers'[d][i] = {t - 1 : t \in timers[d][i]} /\ timers[d][i] \in SUBSET Int
  BY <1>0, <1>1 DEF SetupTypes, BySide
<1>3. ASSUME NEW d \in Side, NEW i \in Setup
      PROVE  /\ timers'[d][i] \in SUBSET Int
             /\ timers[d][i] = {} => timers'[d][i] = {}
             /\ \A t \in Int : timers[d][i] = {t} => timers'[d][i] = {t - 1}
  <2> DEFINE S == timers[d][i]
             T == timers'[d][i]
  <2>1. T = {t - 1 : t \in S} /\ S \in SUBSET Int
    BY <1>2
  <2> HIDE DEF S, T
  <2>2. /\ T \in SUBSET Int
        /\ S = {} => T = {}
        /\ \A t \in Int : S = {t} => T = {t - 1}
    BY <2>1
  <2> QED
    BY <2>2 DEF S, T
<1>4. ASSUME NEW r \in Run, NEW i \in Setup
      PROVE  /\ left'[r][i] = IF pc[r][i] \in InProgress /\ left[r][i] > 0
                              THEN left[r][i] - 1 ELSE left[r][i]
             /\ left[r][i] \in Nat
  BY <1>0, <1>1 DEF SetupTypes, ByRun
<1>5. ASSUME NEW r \in Run, NEW i \in Setup
      PROVE  /\ left'[r][i] \in Nat
             /\ pc[r][i] \in InProgress /\ left'[r][i] > 0 =>
                  left[r][i] > 0 /\ left'[r][i] = left[r][i] - 1
  <2> DEFINE l == left[r][i]
             k == left'[r][i]
             P == pc[r][i] \in InProgress
  <2>1. k = (IF P /\ l > 0 THEN l - 1 ELSE l) /\ l \in Nat
    BY <1>4
  <2> HIDE DEF l, k, P
  <2>2. k \in Nat /\ (P /\ k > 0 => l > 0 /\ k = l - 1)
    BY <2>1
  <2> QED
    BY <2>2 DEF l, k, P
<1>6. SetupTypes'
  <2>1. timers' \in BySide(SUBSET Int)
    BY <1>1, <1>3, Zenon DEF BySide
  <2>2. left' \in ByRun(Nat)
    BY <1>1, <1>5, Zenon DEF ByRun
  <2> QED
    BY <1>0, <1>1, <2>1, <2>2, Zenon DEF SetupTypes
<1>7. ASSUME NEW e \in Side, NEW j \in Setup
      PROVE  OneTimer(e, j)'
  <2>1. OneTimer(e, j)
    BY DEF SetupInv
  <2>2. \A t \in Int : t - 1 \in Int
    OBVIOUS
  <2>3. timers[e][j] = {} => timers'[e][j] = {}
    BY <1>3
  <2>4. (\E t \in Int : timers[e][j] = {t}) => \E t \in Int : timers'[e][j] = {t}
    BY <1>3, <2>2, Zenon
  <2> QED
    BY <1>1, <2>1, <2>3, <2>4, Zenon DEF OneTimer
<1>8. ASSUME NEW r \in Run, NEW j \in Setup
      PROVE  Outlasts(r, j)'
  <2>1. Outlasts(r, j) /\ SideOf(r) \in Side
    BY SideOfRun DEF SetupInv
  <2>2. SUFFICES ASSUME pc[r][j] \in InProgress, left'[r][j] > 0, own[r][j], Alone(r, j)
                 PROVE  /\ box[SideOf(r)][j] = held[r][j] /\ held[r][j] # 0
                        /\ \E t \in Int : timers'[SideOf(r)][j] = {t} /\ t >= left'[r][j]
    BY <1>1, Zenon DEF Outlasts, Alone
  <2>3. left[r][j] > 0 /\ left'[r][j] = left[r][j] - 1 /\ left[r][j] \in Nat
    BY <1>4, <1>5, <2>2, Zenon
  <2>4. PICK t \in Int : timers[SideOf(r)][j] = {t} /\ t >= left[r][j]
    BY <2>1, <2>2, <2>3, Zenon DEF Outlasts
  <2>5. box[SideOf(r)][j] = held[r][j] /\ held[r][j] # 0
    BY <2>1, <2>2, <2>3, Zenon DEF Outlasts
  <2>6. timers'[SideOf(r)][j] = {t - 1}
    BY <1>3, <2>1, <2>4, Zenon
  <2>7. t - 1 \in Int /\ t - 1 >= left'[r][j]
    BY <2>3, <2>4
  <2> QED
    BY <2>5, <2>6, <2>7, Zenon
<1> QED
  BY <1>6, <1>7, <1>8, Zenon DEF SetupInv

\* Every step of the runs, the network and time.
LEMMA NextSetupInv ==
  ASSUME SetupInv, [Next]_vars
  PROVE  SetupInv'
<1>1. CASE UNCHANGED vars
  BY <1>1, ZenonT(30) DEF vars, inboxes, setups, SetupInv, SetupTypes, OneTimer, Outlasts, Alone
<1>2. ASSUME NEW i \in Setup, DialDirect(i)
      PROVE  SetupInv'
  <2>1. net' \subseteq Signal
    BY <1>2 DEF DialDirect, SetupInv, SetupTypes
  <2> QED
    BY <1>2, <2>1, BeginKeeps DEF DialDirect, Run
<1>3. Dialer \in Run /\ \A a \in Accepter : a \in Run
  BY DEF Run
<1> QED
  BY <1>1, <1>2, <1>3, DeliverKeeps, StepKeeps, TimerKeeps, TickKeeps, Zenon DEF Next

\* A run hears every signal that arrives within its time in the inbox it made,
\* while it is the only run of its side: neither its AfterFunc (iceInbox) nor
\* one left from earlier takes it away.  For any number of setups, repeated
\* signals and candidates, and any two lives of which the inbox's is not the
\* shorter.
THEOREM HearsSafety == Spec => []SetupHears
<1>1. Init => SetupInv
  BY InitSetupInv
<1>2. SetupInv /\ [Next]_vars => SetupInv'
  BY NextSetupInv
<1>3. SetupInv => SetupHears
  BY Zenon DEF SetupInv, Outlasts, SetupHears
<1> QED
  BY <1>1, <1>2, <1>3, PTL DEF Spec
=============================================================================
