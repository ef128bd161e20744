--------------------------- MODULE TransferProofs ---------------------------
(***************************************************************************)
(* A transfer is a behaviour of Receiver, and a send that reported success *)
(* has every file and folder stored: for any number of sessions, files,    *)
(* folders and sizes, when the remote end may send any frame               *)
(* (PeerFrame = Frame) and only adrop writes to the download directory     *)
(* (Foreign = {}).                                                         *)
(***************************************************************************)
EXTENDS Transfer, ReceiverProofs

\* The manifest describes the job, entry by entry.
Describes(s) ==
  /\ Len(plan[s]) = Len(job[s])
  /\ \A i \in 1..Len(plan[s]) : plan[s][i].isDir <=> job[s][i] \in Folder

\* Before its session is over, and after a success, the sender's list is the
\* receiver's, and the current entry is on it.
Linked(s) ==
  /\ rpc[s] # "idle" /\ manifest[s] = plan[s]
  /\ Describes(s) /\ si[s] \in 1..Len(plan[s])

Progressing(s) ==
  /\ spc[s] \in {"idle", "dialing"} => si[s] = 1
  /\ spc[s] = "dialing" => Describes(s)
  /\ spc[s] \notin {"idle", "dialing", "failed"} => Linked(s)
  /\ spc[s] = "body" => job[s][si[s]] \in Source
  /\ spc[s] = "done" => 1..Len(plan[s]) \subseteq completed[s]

SendersTyped ==
  /\ source \in [Source -> Content]
  /\ spc \in [Session -> SPC]
  /\ job \in [Session -> Seq(Source \cup Folder)]
  /\ plan = [s \in Session |-> plan[s]]
  /\ si \in [Session -> Nat] /\ pos \in [Session -> Nat]
  /\ inbox \in [Session -> Seq(Frame)]

SendersWellFormed == SendersTyped /\ \A s \in Session : Progressing(s)

TInv == IInv /\ SendersWellFormed

\* Steps of the sender alone, or of both: what they are to the receiver.
LEMMA StepRefines ==
  ASSUME TInv, [TNext]_tvars, PeerFrame = Frame
  PROVE  [Next]_vars
<1>1. TypeOK
  BY DEF TInv, IInv
<1>2. ASSUME NEW s \in Session, SendStep(s)
      PROVE  Next \/ UNCHANGED vars
  BY <1>2, ZenonT(30) DEF SendStep, Connect, SendQuery, ReadOffer, SendHeader, SendChunk,
     SendFileEnd, ReadAck, SendSessionEnd, ReadFinal, SendError, Write, Read, Next
<1>3. ASSUME NEW s \in Session, RecvStep(s)
      PROVE  Next
  <2>1. CASE RecvFrame(s)
    <3>1. inbox[s] \in Seq(Frame) /\ inbox[s] # <<>> /\ Handle(s, Head(inbox[s]))
      BY <2>1 DEF RecvFrame, TInv, SendersWellFormed, SendersTyped
    <3>2. Head(inbox[s]) \in PeerFrame
      BY <3>1, HeadTailProperties
    <3> QED
      BY <3>1, <3>2, Zenon DEF Next
  <2> QED
    BY <1>3, <2>1, Zenon DEF RecvStep, RecvEnd, RecvWork, Next
<1>4. ASSUME NEW s \in Session, GiveUp(s)
      PROVE  Next \/ UNCHANGED vars
  <2>1. CASE up[s]
    <3>1. up' = [up EXCEPT ![s] = FALSE] /\ UNCHANGED rvars /\ UNCHANGED reply
      BY <1>4 DEF GiveUp
    <3>2. reply' = [reply EXCEPT ![s] = reply[s]]
      BY <1>1, <3>1 DEF TypeOK
    <3>3. Drop(s)
      BY <2>1, <3>1, <3>2, Zenon DEF Drop
    <3> QED
      BY <3>3, Zenon DEF Next
  <2>2. CASE ~up[s]
    <3>1. up' = up
      BY <1>1, <1>4, <2>2 DEF GiveUp, TypeOK
    <3> QED
      BY <1>4, <3>1, ZenonT(30) DEF GiveUp, vars, net
  <2> QED
    BY <2>1, <2>2
<1>5. ASSUME NEW s \in Session, NetworkDrop(s)
      PROVE  Next
  BY <1>5, Zenon DEF NetworkDrop, Next
<1>6. ReceiverCrash => Next
  BY Zenon DEF ReceiverCrash, Next
<1>7. ASSUME \/ \E s \in Session : Prepare(s)
             \/ \E f \in Source : Edit(f)
             \/ UNCHANGED tvars
      PROVE  UNCHANGED vars
  BY <1>7, Zenon DEF Prepare, Edit, tvars
<1> QED
  BY <1>2, <1>3, <1>4, <1>5, <1>6, <1>7, ZenonT(30) DEF TNext, Cancel, SourceError

\* A step of the receiver leaves a session that has started started, its
\* manifest as it is and its completed entries completed.
LEMMA ReceiverKeeps ==
  ASSUME IInv, Next, Foreign = {}, NEW s \in Session
  PROVE  /\ rpc[s] # "idle" => rpc'[s] # "idle" /\ manifest'[s] = manifest[s]
         /\ completed[s] \subseteq completed'[s]
<1>1. ASSUME NEW t \in Session, StepOf(t)
      PROVE  /\ rpc[s] # "idle" => rpc'[s] # "idle" /\ manifest'[s] = manifest[s]
             /\ completed[s] \subseteq completed'[s]
  BY <1>1, History
<1>2. CASE Crash
  BY <1>2 DEF Crash, session, IInv, TypeOK
<1> QED
  BY <1>1, <1>2 DEF Next, StepOf

\* Where the sender of a session stands still, it stays in step with the
\* receiver.
LEMMA StandsStill ==
  ASSUME TInv, [Next]_vars, Foreign = {}, NEW s \in Session,
         spc'[s] = spc[s], job'[s] = job[s], plan'[s] = plan[s], si'[s] = si[s]
  PROVE  Progressing(s)'
<1>1. /\ rpc[s] # "idle" => rpc'[s] # "idle" /\ manifest'[s] = manifest[s]
      /\ completed[s] \subseteq completed'[s]
  <2>1. CASE UNCHANGED vars
    BY <2>1 DEF vars, rvars, session
  <2> QED
    BY <2>1, ReceiverKeeps DEF TInv
<1>2. Progressing(s)
  BY DEF TInv, SendersWellFormed
<1> QED
  BY <1>1, <1>2, SMTT(30) DEF Progressing, Linked, Describes

\* What the sender writes is a frame.
LEMMA WriteTyped ==
  ASSUME SendersTyped, NEW s \in Session, NEW fs \in Seq(Frame), Write(s, fs)
  PROVE  inbox' \in [Session -> Seq(Frame)] /\ UNCHANGED <<vars, source>>
  BY ConcatProperties DEF SendersTyped, Write

\* The steps in which the sender writes, apart from the chunks.
LEMMA WritesKeep ==
  ASSUME TInv, NEW s \in Session,
         SendQuery(s) \/ SendHeader(s) \/ SendFileEnd(s) \/ SendSessionEnd(s)
  PROVE  SendersTyped' /\ Progressing(s)'
<1> USE DEF TInv, SendersWellFormed
<1>1. \A t \in FrameType : FrameOf(t, si[s], <<>>) \in Frame /\ FrameOf(t, 0, <<>>) \in Frame
  BY EmptySeq DEF FrameOf, Frame, Content, SendersTyped
<1>2. PICK fs \in Seq(Frame) : Write(s, fs)
  <2> DEFINE F(t, i) == FrameOf(t, i, <<>>)
  <2>1. /\ <<F("query", si[s])>> \in Seq(Frame) /\ <<F("end", si[s])>> \in Seq(Frame)
        /\ <<F("header", si[s])>> \in Seq(Frame) /\ <<F("session_end", 0)>> \in Seq(Frame)
        /\ <<F("header", si[s]), F("end", si[s])>> \in Seq(Frame)
    <3> HIDE DEF F
    <3>1. /\ F("query", si[s]) \in Frame /\ F("end", si[s]) \in Frame
          /\ F("header", si[s]) \in Frame /\ F("session_end", 0) \in Frame
      BY <1>1 DEF F, FrameType
    <3> QED
      BY <3>1
  <2> QED
    BY <2>1, ZenonT(30) DEF SendQuery, SendHeader, SendFileEnd, SendSessionEnd
<1>3. inbox' \in [Session -> Seq(Frame)] /\ UNCHANGED <<vars, source>>
  BY <1>2, WriteTyped, ZenonT(30)
<1>4. PICK to \in SPC \ {"idle", "dialing", "failed", "done"} :
        /\ spc' = [spc EXCEPT ![s] = to]
        /\ UNCHANGED <<job, plan, si, pos>>
        /\ spc[s] \notin {"idle", "dialing", "failed"}
        /\ to = "body" => ~plan[s][si[s]].isDir
  BY DEF SendQuery, SendHeader, SendFileEnd, SendSessionEnd, SPC
<1>5. SendersTyped'
  BY <1>3, <1>4, SMTT(30) DEF SendersTyped
<1>6. Linked(s)
  BY <1>4, SMTT(30) DEF Progressing
<1>7. Linked(s)'
  BY <1>3, <1>4, <1>6, SMTT(30) DEF Linked, Describes, vars, rvars, session
<1>8. to = "body" => job[s][si[s]] \in Source
  <2>1. job[s] \in Seq(Source \cup Folder) /\ si[s] \in 1..Len(job[s])
    BY <1>6 DEF Linked, Describes, SendersTyped
  <2>2. job[s][si[s]] \in Source \cup Folder
    BY <2>1, ElementOfSeq
  <2> QED
    BY <1>4, <1>6, <2>2, Zenon DEF Linked, Describes
<1> QED
  BY <1>4, <1>5, <1>7, <1>8, SMTT(30) DEF Progressing, SendersTyped

\* Sending a chunk moves the sender on within its file.
LEMMA ChunkKeeps ==
  ASSUME TInv, NEW s \in Session, SendChunk(s)
  PROVE  SendersTyped' /\ Progressing(s)'
<1> USE DEF TInv, SendersWellFormed
<1> DEFINE last == IF pos[s] + ChunkSize < Len(Sending(s)) THEN pos[s] + ChunkSize
                                                         ELSE Len(Sending(s))
           chunk == SubSeq(Sending(s), pos[s] + 1, last)
           fs == <<FrameOf("chunk", si[s], chunk), FrameOf("progress", si[s], <<>>)>>
<1>1. /\ spc[s] = "body" /\ Write(s, fs)
      /\ pos' = [pos EXCEPT ![s] = last] /\ UNCHANGED <<spc, job, plan, si>>
      /\ pos[s] < Len(Sending(s))
  BY SMTT(30) DEF SendChunk
<1>2. Linked(s)
  BY <1>1, SMTT(30) DEF Progressing
<1>3. job[s][si[s]] \in Source
  BY <1>1, Zenon DEF Progressing
<1>4. Sending(s) \in Content
  BY <1>3 DEF Sending, SendersTyped
<1>5. last \in Nat /\ last <= Len(Sending(s))
  BY <1>4, LenProperties, TransferConstantsOK, SMTT(30) DEF SendersTyped, Content
<1>6. chunk \in Content
  <2>1. pos[s] \in Nat
    BY DEF SendersTyped
  <2>2. \A i \in (pos[s] + 1)..last : i \in 1..Len(Sending(s))
    BY <1>5, <2>1
  <2> QED
    BY <1>4, <1>5, <2>1, <2>2, SubSeqProperties, SMTT(30) DEF Content
<1>7. FrameOf("chunk", si[s], chunk) \in Frame /\ FrameOf("progress", si[s], <<>>) \in Frame
  BY <1>6, EmptySeq DEF FrameOf, Frame, FrameType, SendersTyped, Content
<1>8. inbox' \in [Session -> Seq(Frame)] /\ UNCHANGED <<vars, source>>
  <2>1. fs \in Seq(Frame)
    BY <1>7
  <2> HIDE DEF fs
  <2> QED
    BY <1>1, <2>1, WriteTyped
<1>9. SendersTyped'
  BY <1>1, <1>5, <1>8, ZenonT(30) DEF SendersTyped
<1>10. Linked(s)'
  BY <1>1, <1>2, <1>8, SMTT(30) DEF Linked, Describes, vars, rvars, session
<1> QED
  BY <1>1, <1>3, <1>9, <1>10, SMTT(30) DEF Progressing

\* The steps in which it reads: what the receiver's replies allow.
LEMMA ReadsKeep ==
  ASSUME TInv, NEW s \in Session, ReadOffer(s) \/ ReadAck(s) \/ ReadFinal(s)
  PROVE  SendersTyped' /\ Progressing(s)'
<1> USE DEF TInv, SendersWellFormed
<1>1. /\ PeerReads(s) /\ UNCHANGED <<source, inbox, job, plan>>
      /\ spc[s] \in {"offer", "ack", "final"}
  BY Zenon DEF ReadOffer, ReadAck, ReadFinal, Read
<1>2. /\ UNCHANGED <<rpc, manifest, completed>> /\ reply[s] # NoReply
  BY <1>1, SMTT(30) DEF PeerReads, rvars, session
<1>3. Linked(s) /\ reply[s] \in Reply
  BY <1>1, <1>2, ZenonT(30) DEF Progressing, IInv, TypeOK
<1>4. CASE ReadOffer(s)
  <2>1. pos' \in [Session -> Nat]
    BY <1>3, <1>4, SMTT(30) DEF ReadOffer, SendersTyped, Reply
  <2>2. UNCHANGED si
    BY <1>4, Zenon DEF ReadOffer
  <2>3. PICK to \in {"header", "failed"} : spc' = [spc EXCEPT ![s] = to]
    BY <1>4, Zenon DEF ReadOffer
  <2> QED
    BY <1>1, <1>2, <1>3, <2>1, <2>2, <2>3, SMTT(30) DEF SendersTyped, SPC, Progressing, Linked, Describes
<1>5. CASE ReadAck(s)
  <2>1. pos' \in [Session -> Nat]
    BY <1>5 DEF ReadAck, SendersTyped
  <2>2. PICK to \in {"session_end", "failed"} :
          \/ spc' = [spc EXCEPT ![s] = to] /\ UNCHANGED si
          \/ /\ spc' = [spc EXCEPT ![s] = "query"] /\ si' = [si EXCEPT ![s] = @ + 1]
             /\ si[s] # Len(plan[s])
    BY <1>5, Zenon DEF ReadAck
  <2>3. CASE spc' = [spc EXCEPT ![s] = to] /\ UNCHANGED si
    BY <1>1, <1>2, <1>3, <2>1, <2>3, SMTT(30) DEF SendersTyped, SPC, Progressing, Linked, Describes
  <2>4. CASE /\ spc' = [spc EXCEPT ![s] = "query"] /\ si' = [si EXCEPT ![s] = @ + 1]
             /\ si[s] # Len(plan[s])
    <3>1. Len(plan[s]) \in Nat /\ si[s] \in Nat
      BY <1>3, LenProperties, SMTT(30) DEF Linked, SendersTyped
    <3> QED
      BY <1>1, <1>2, <1>3, <2>1, <2>4, <3>1, SMTT(30) DEF SendersTyped, SPC, Progressing, Linked, Describes
  <2> QED
    BY <2>2, <2>3, <2>4, SMTT(30)
<1>6. CASE ReadFinal(s)
  <2>1. UNCHANGED <<si, pos>>
    BY <1>6, SMTT(30) DEF ReadFinal
  <2>2. PICK to \in {"done", "failed"} :
          /\ spc' = [spc EXCEPT ![s] = to]
          /\ to = "done" => reply[s].type = "final" /\ reply[s].ok
    BY <1>6, Zenon DEF ReadFinal
  <2>3. to = "done" => 1..Len(plan[s]) \subseteq completed[s]
    BY <1>2, <1>3, <2>2, ZenonT(30) DEF IInv, AckedIsStored, Linked
  <2> QED
    BY <1>1, <1>2, <1>3, <2>1, <2>2, <2>3, SMTT(30) DEF SendersTyped, SPC, Progressing, Linked, Describes
<1> QED
  BY <1>4, <1>5, <1>6

\* buildManifest marks the folders.
LEMMA DescribedKind ==
  ASSUME NEW e
  PROVE  Described(e).isDir <=> e \in Folder
BY Zenon DEF Described

\* The other steps of a sender: it starts, connects, fails or gives up.
LEMMA OthersKeep ==
  ASSUME TInv, NEW s \in Session, Prepare(s) \/ Connect(s) \/ SendError(s) \/ GiveUp(s)
  PROVE  SendersTyped' /\ Progressing(s)'
<1> USE DEF TInv, SendersWellFormed
<1>1. CASE Prepare(s)
  <2>1. PICK j \in Jobs : /\ job' = [job EXCEPT ![s] = j]
                          /\ plan' = [plan EXCEPT ![s] = BuildManifest(j)]
    BY <1>1, Zenon DEF Prepare
  <2>2. /\ j \in Seq(Source \cup Folder) /\ Len(BuildManifest(j)) = Len(j)
        /\ \A i \in 1..Len(j) : BuildManifest(j)[i].isDir <=> j[i] \in Folder
    <3>1. j \in Seq(Source \cup Folder) /\ Len(j) \in Nat
      BY TransferConstantsOK, LenProperties
    <3>2. Len(BuildManifest(j)) = Len(j)
      BY <3>1 DEF BuildManifest
    <3>3. ASSUME NEW i \in 1..Len(j)
          PROVE  BuildManifest(j)[i].isDir <=> j[i] \in Folder
      <4>1. BuildManifest(j)[i] = Described(j[i])
        BY DEF BuildManifest
      <4> QED
        BY <4>1, DescribedKind, Zenon
    <3> QED
      BY <3>1, <3>2, <3>3
  <2>3. /\ spc[s] = "idle" /\ spc' = [spc EXCEPT ![s] = "dialing"]
        /\ UNCHANGED <<source, si, pos, inbox>>
    BY <1>1 DEF Prepare
  <2>4. SendersTyped'
    BY <2>1, <2>2, <2>3, ZenonT(30) DEF SendersTyped, SPC
  <2>5. spc'[s] = "dialing" /\ si'[s] = 1 /\ job'[s] = j /\ plan'[s] = BuildManifest(j)
    <3>1. plan'[s] = BuildManifest(j)
      BY <2>1, Zenon DEF SendersTyped
    <3>2. job'[s] = j /\ spc'[s] = "dialing"
      BY <2>1, <2>3, Zenon DEF SendersTyped
    <3> QED
      BY <2>3, <3>1, <3>2 DEF Progressing
  <2>6. Describes(s)'
    BY <2>2, <2>5, Zenon DEF Describes
  <2> QED
    BY <2>4, <2>5, <2>6 DEF Progressing
<1>2. CASE Connect(s)
  <2>1. /\ manifest'[s] = plan[s] /\ rpc'[s] = "loop" /\ manifest'[s] \in Manifest
        /\ spc[s] = "dialing"
    BY <1>2, SMTT(30) DEF Connect, StartSession, GoTo, IInv, TypeOK
  <2>2. Len(plan[s]) \in 1..MaxFiles
    BY <2>1, ConstantsOK, SMTT(30)
  <2>3. spc' = [spc EXCEPT ![s] = "query"] /\ UNCHANGED <<source, job, plan, si, pos, inbox>>
    BY <1>2, Zenon DEF Connect
  <2>4. si[s] = 1
    BY <2>1 DEF Progressing
  <2> QED
    BY <2>1, <2>2, <2>3, <2>4, SMTT(30) DEF SendersTyped, SPC, Progressing, Linked, Describes
<1>3. CASE SendError(s) \/ GiveUp(s)
  <2>1. spc' = [spc EXCEPT ![s] = "failed"] /\ UNCHANGED <<source, job, plan, si, pos, inbox>>
    BY <1>3, Zenon DEF SendError, GiveUp
  <2> QED
    BY <2>1 DEF SendersTyped, SPC, Progressing
<1> QED
  BY <1>1, <1>2, <1>3, SMTT(30)

\* The whole invariant: what the receiver keeps, and the senders in step.
LEMMA NextTInv ==
  ASSUME TInv, [TNext]_tvars, PeerFrame = Frame, Foreign = {}
  PROVE  TInv'
<1>1. [Next]_vars
  BY StepRefines
<1>2. IInv'
  BY <1>1, NextIInv DEF TInv
<1>3. SendersTyped /\ \A s \in Session : Progressing(s)
  BY DEF TInv, SendersWellFormed
<1>4. ASSUME NEW s \in Session, SendStep(s) \/ Prepare(s) \/ GiveUp(s)
      PROVE  SendersWellFormed'
  <2>1. SendersTyped' /\ Progressing(s)'
    BY <1>4, WritesKeep, ChunkKeeps, ReadsKeep, OthersKeep, ZenonT(30) DEF SendStep
  <2>2. ASSUME NEW t \in Session, t # s
        PROVE  Progressing(t)'
    <3>1. /\ spc'[t] = spc[t] /\ job'[t] = job[t] /\ plan'[t] = plan[t] /\ si'[t] = si[t]
      BY <1>3, <1>4, <2>2, SMTT(30) DEF SendersTyped, SendStep, Connect, SendQuery,
         ReadOffer, SendHeader, SendChunk, SendFileEnd, ReadAck, SendSessionEnd,
         ReadFinal, SendError, Prepare, GiveUp
    <3> QED
      BY <1>1, <3>1, StandsStill, SMTT(30)
  <2> QED
    BY <2>1, <2>2 DEF SendersWellFormed
<1>5. ASSUME UNCHANGED svars, inbox' \in [Session -> Seq(Frame)],
             source' \in [Source -> Content]
      PROVE  SendersWellFormed'
  <2>1. ASSUME NEW t \in Session
        PROVE  Progressing(t)'
    BY <1>1, <1>5, StandsStill, SMTT(30) DEF svars
  <2>2. SendersTyped'
    BY <1>3, <1>5 DEF SendersTyped, svars
  <2> QED
    BY <2>1, <2>2, SMTT(30) DEF SendersWellFormed
<1>6. ASSUME NEW s \in Session, RecvStep(s) \/ NetworkDrop(s)
      PROVE  SendersWellFormed'
  <2>1. UNCHANGED <<svars, source>>
    BY <1>6, ZenonT(30) DEF RecvStep, RecvFrame, RecvEnd, RecvWork, NetworkDrop
  <2>2. inbox[s] \in Seq(Frame)
    BY <1>3 DEF SendersTyped
  <2> DEFINE Goal == inbox' \in [Session -> Seq(Frame)]
  <2>3. ASSUME RecvFrame(s) PROVE Goal
    <3>1. Tail(inbox[s]) \in Seq(Frame)
      BY <2>2, <2>3, HeadTailProperties, SMTT(30) DEF RecvFrame
    <3> QED
      BY <1>3, <2>3, <3>1, SMTT(30) DEF RecvFrame, SendersTyped
  <2>4. ASSUME RecvEnd(s) \/ RecvWork(s) PROVE Goal
    BY <1>3, <2>2, <2>4, EmptySeq, ZenonT(30) DEF RecvEnd, RecvWork, SendersTyped
  <2>5. ASSUME NetworkDrop(s) PROVE Goal
    <3>1. PICK k \in 0..Len(inbox[s]) : inbox' = [inbox EXCEPT ![s] = SubSeq(@, 1, k)]
      BY <2>5, ZenonT(30) DEF NetworkDrop
    <3>2. SubSeq(inbox[s], 1, k) \in Seq(Frame)
      BY <2>2, <3>1, SubSeqProperties, SMTT(30)
    <3> QED
      BY <1>3, <3>1, <3>2, SMTT(30) DEF SendersTyped
  <2>6. Goal
    BY <1>6, <2>3, <2>4, <2>5, SMTT(30) DEF RecvStep
  <2>7. UNCHANGED svars /\ source' \in [Source -> Content]
    BY <1>3, <2>1 DEF SendersTyped
  <2> QED
    BY <1>5, <2>6, <2>7, SMTT(30)
<1>7. ASSUME ReceiverCrash PROVE SendersWellFormed'
  <2>1. /\ UNCHANGED svars /\ inbox' \in [Session -> Seq(Frame)]
        /\ source' \in [Source -> Content]
    BY <1>3, <1>7, EmptySeq, SMTT(30) DEF ReceiverCrash, SendersTyped
  <2> QED
    BY <1>5, <2>1, SMTT(30)
<1>8. ASSUME NEW f \in Source, Edit(f)
      PROVE  SendersWellFormed'
  <2>1. PICK c \in Edited[f] : source' = [source EXCEPT ![f] = c]
    BY <1>8, Zenon DEF Edit
  <2>2. c \in Content
    BY <2>1, TransferConstantsOK
  <2>3. source' \in [Source -> Content]
    BY <1>3, <2>1, <2>2 DEF SendersTyped
  <2>4. UNCHANGED svars /\ inbox' \in [Session -> Seq(Frame)]
    BY <1>3, <1>8, Zenon DEF Edit, SendersTyped
  <2> QED
    BY <1>5, <2>3, <2>4
<1>9. ASSUME UNCHANGED tvars PROVE SendersWellFormed'
  <2>1. /\ UNCHANGED svars /\ inbox' \in [Session -> Seq(Frame)]
        /\ source' \in [Source -> Content]
    BY <1>3, <1>9 DEF tvars, SendersTyped
  <2> QED
    BY <1>5, <2>1
<1> QED
  BY <1>2, <1>4, <1>6, <1>7, <1>8, <1>9, ZenonT(30) DEF TNext, TInv, Cancel, SourceError

\* No send has begun.
LEMMA InitTInv ==
  ASSUME TInit
  PROVE  TInv
<1>1. IInv
  BY InitIInv DEF TInit
<1>2. SendersTyped
  BY TransferConstantsOK, EmptySeq, SMTT(30) DEF TInit, SendersTyped, SPC
<1>3. \A s \in Session : Progressing(s)
  BY SMTT(30) DEF TInit, Progressing
<1> QED
  BY <1>1, <1>2, <1>3 DEF TInv, SendersWellFormed

\* Receiver's sessions with SendFiles at the other end, senders in step with
\* receivers.
LEMMA TransferInvariance ==
  ASSUME PeerFrame = Frame, Foreign = {}
  PROVE  TSpec => []TInv
<1>1. TInit => TInv
  BY InitTInv
<1>2. TInv /\ [TNext]_tvars => TInv'
  BY NextTInv
<1> QED
  BY <1>1, <1>2, PTL DEF TSpec

\* The sending code is one of the remote ends Receiver allows: every transfer
\* is a behaviour of Receiver, so its guarantees hold for it.
THEOREM TransferRefinement ==
  ASSUME PeerFrame = Frame, Foreign = {}
  PROVE  TSpec => ImplementsReceiver
<1>1. TInit => Init
  BY DEF TInit
<1>2. TInv /\ [TNext]_tvars => [Next]_vars
  BY StepRefines
<1> QED
  BY <1>1, <1>2, TransferInvariance, PTL DEF TSpec, Spec, ImplementsReceiver

\* A send that reported success left every announced file at the receiver,
\* whole, and every folder, and they stay there.
THEOREM SentSafety ==
  ASSUME PeerFrame = Frame, Foreign = {}
  PROVE  TSpec => []SentIsStored
<1>1. TInv => SentIsStored
  <2> SUFFICES ASSUME TInv, NEW s \in Session, spc[s] = "done",
                      NEW i \in 1..Len(plan[s])
               PROVE  manifest[s] = plan[s] /\ Stored(s, i)
    BY DEF SentIsStored
  <2>1. manifest[s] = plan[s] /\ i \in completed[s]
    BY SMTT(30) DEF TInv, SendersWellFormed, Progressing, Linked
  <2> QED
    BY <2>1, ZenonT(30) DEF TInv, IInv, AckedIsStored
<1> QED
  BY <1>1, TransferInvariance, PTL
=============================================================================
