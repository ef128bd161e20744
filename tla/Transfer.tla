------------------------------ MODULE Transfer ------------------------------
(***************************************************************************)
(* A whole file transfer: the sending code (SendFiles, sendOneFile and     *)
(* buildManifest of internal/daemon/send.go) at the other end of the       *)
(* sessions of module Receiver.  Frames travel in order and may be cut off *)
(* by a drop; the sender may be cancelled, the receiver may crash, and a   *)
(* later session may retry what an earlier one did not finish.             *)
(***************************************************************************)
EXTENDS Receiver

CONSTANTS
  Source,       \* files on the sending machine
  Folder,       \* folders on the sending machine
  BaseName,     \* BaseName[e]: the base name of a file or folder
  RelDir,       \* RelDir[e]: the folder that e is, or is in, at the receiver
  Jobs,         \* what sends may be asked for, with the folders walked
  Original,     \* Original[f]: the content f has at first
  Edited,       \* Edited[f]: what an edit may turn the content of f into
  ChunkSize,    \* proto.ChunkSize
  MaxInFlight,  \* bound: frames on the connection when another is written
  MaxEdits      \* bound: edits of source files

VARIABLES
  source,       \* source[f]: what the file f holds now
  edits,        \* edits made so far
  spc,          \* spc[s]: where the sender of session s is in SendFiles
  job,          \* job[s]: the files and folders it sends
  plan,         \* plan[s]: the manifest it built from them
  si,           \* si[s]: the index of the file being sent
  pos,          \* pos[s]: the read position in it
  inbox         \* inbox[s]: frames on their way to the receiver

svars == <<spc, job, plan, si, pos>>
tvars == <<vars, source, edits, svars, inbox>>

ASSUME TransferConstantsOK ==
  /\ Source \cap Folder = {}
  /\ BaseName \in [Source \cup Folder -> Name]
  /\ RelDir \in [Source \cup Folder -> Path \cup {NoPath}]
  /\ \A g \in Folder : RelDir[g] \in Path
  /\ Original \in [Source -> Content]
  /\ Jobs \subseteq Seq(Source \cup Folder)
  /\ Edited \in [Source -> SUBSET Content]
  /\ ChunkSize \in Nat \ {0}
  /\ MaxInFlight \in Nat \ {0}
  /\ MaxEdits \in Nat

SPC == {"idle", "dialing", "query", "offer", "header", "body", "ack",
        "session_end", "final", "done", "failed"}

TTypeOK ==
  /\ TypeOK
  /\ source \in [Source -> Content]
  /\ edits \in 0..MaxEdits
  /\ spc \in [Session -> SPC]
  /\ job \in [Session -> Jobs \cup {<<>>}]
  /\ plan \in [Session -> Manifest \cup {<<>>}]
  /\ si \in [Session -> Nat]
  /\ pos \in [Session -> Nat]
  /\ inbox \in [Session -> Seq(Frame)]

TInit ==
  /\ Init
  /\ source = Original
  /\ edits = 0
  /\ spc = [s \in Session |-> "idle"]
  /\ job = [s \in Session |-> <<>>]
  /\ plan = [s \in Session |-> <<>>]
  /\ si = [s \in Session |-> 1]
  /\ pos = [s \in Session |-> 0]
  /\ inbox = [s \in Session |-> <<>>]
-----------------------------------------------------------------------------
(* The sender *)

\* buildManifest: a file is stat'ed and hashed, a folder is only named.
Described(e) ==
  [name |-> BaseName[e], dir |-> RelDir[e], isDir |-> e \in Folder,
   sha |-> IF e \in Folder THEN <<>> ELSE source[e],
   size |-> IF e \in Folder THEN 0 ELSE Len(source[e])]

BuildManifest(j) == [i \in 1..Len(j) |-> Described(j[i])]

Prepare(s) ==
  /\ spc[s] = "idle"
  /\ \E j \in Jobs :
       /\ job' = [job EXCEPT ![s] = j]
       /\ plan' = [plan EXCEPT ![s] = BuildManifest(j)]
  /\ spc' = [spc EXCEPT ![s] = "dialing"]
  /\ UNCHANGED <<vars, source, edits, si, pos, inbox>>

\* dialPeer succeeded and session_start went out, with Resume set.
Connect(s) ==
  /\ spc[s] = "dialing"
  /\ StartSession(s)
  /\ manifest'[s] = plan[s] /\ resume'[s] = TRUE
  /\ spc' = [spc EXCEPT ![s] = "query"]
  /\ UNCHANGED <<source, edits, job, plan, si, pos, inbox>>

\* proto.WriteControl or WriteMessage succeeds.
Write(s, fs) ==
  /\ up[s] /\ Len(inbox[s]) < MaxInFlight
  /\ inbox' = [inbox EXCEPT ![s] = @ \o fs]
  /\ UNCHANGED <<vars, source, edits>>

\* proto.ReadHeader returns the receiver's reply.
Read(s) == PeerReads(s) /\ UNCHANGED <<source, edits, inbox>>

FrameOf(t, i, data) == [type |-> t, idx |-> i, data |-> data]

SendQuery(s) ==
  /\ spc[s] = "query"
  /\ Write(s, <<FrameOf("query", si[s], <<>>)>>)
  /\ spc' = [spc EXCEPT ![s] = "offer"]
  /\ UNCHANGED <<job, plan, si, pos>>

\* The offered offset counts only when it lies inside the file.
ReadOffer(s) ==
  /\ spc[s] = "offer"
  /\ Read(s)
  /\ spc' = [spc EXCEPT ![s] = IF reply[s].type = "offer" THEN "header" ELSE "failed"]
  /\ pos' = [pos EXCEPT ![s] = IF reply[s].n < plan[s][si[s]].size THEN reply[s].n ELSE 0]
  /\ UNCHANGED <<job, plan, si>>

\* sendOneFile: a folder is a header and an end; a file's body follows.
SendHeader(s) ==
  /\ spc[s] = "header"
  /\ LET header == FrameOf("header", si[s], <<>>)
         end == FrameOf("end", si[s], <<>>)
     IN IF plan[s][si[s]].isDir
        THEN Write(s, <<header, end>>) /\ spc' = [spc EXCEPT ![s] = "ack"]
        ELSE Write(s, <<header>>) /\ spc' = [spc EXCEPT ![s] = "body"]
  /\ UNCHANGED <<job, plan, si, pos>>

Sending(s) == source[job[s][si[s]]]

\* The next chunk of the file as it is now, with its progress frame.
SendChunk(s) ==
  LET last == IF pos[s] + ChunkSize < Len(Sending(s)) THEN pos[s] + ChunkSize
                                                      ELSE Len(Sending(s))
  IN /\ spc[s] = "body" /\ pos[s] < Len(Sending(s))
     /\ Write(s, <<FrameOf("chunk", si[s], SubSeq(Sending(s), pos[s] + 1, last)),
                   FrameOf("progress", si[s], <<>>)>>)
     /\ pos' = [pos EXCEPT ![s] = last]
     /\ UNCHANGED <<spc, job, plan, si>>

SendFileEnd(s) ==
  /\ spc[s] = "body" /\ pos[s] >= Len(Sending(s))
  /\ Write(s, <<FrameOf("end", si[s], <<>>)>>)
  /\ spc' = [spc EXCEPT ![s] = "ack"]
  /\ UNCHANGED <<job, plan, si, pos>>

ReadAck(s) ==
  /\ spc[s] = "ack"
  /\ Read(s)
  /\ IF ~reply[s].ok
     THEN spc' = [spc EXCEPT ![s] = "failed"] /\ UNCHANGED si
     ELSE IF si[s] = Len(plan[s])
     THEN spc' = [spc EXCEPT ![s] = "session_end"] /\ UNCHANGED si
     ELSE spc' = [spc EXCEPT ![s] = "query"] /\ si' = [si EXCEPT ![s] = @ + 1]
  /\ pos' = [pos EXCEPT ![s] = 0]
  /\ UNCHANGED <<job, plan>>

SendSessionEnd(s) ==
  /\ spc[s] = "session_end"
  /\ Write(s, <<FrameOf("session_end", 0, <<>>)>>)
  /\ spc' = [spc EXCEPT ![s] = "final"]
  /\ UNCHANGED <<job, plan, si, pos>>

ReadFinal(s) ==
  /\ spc[s] = "final"
  /\ Read(s)
  /\ spc' = [spc EXCEPT ![s] = IF reply[s].type = "final" /\ reply[s].ok
                               THEN "done" ELSE "failed"]
  /\ UNCHANGED <<job, plan, si, pos>>

Writing == {"query", "header", "body", "session_end"}
Reading == {"offer", "ack", "final"}

\* Mutant: a read that finds the connection gone is tried again.
SendErrorNotReading(s) ==
  /\ spc[s] = "dialing" \/ (spc[s] \in Writing /\ ~up[s])
  /\ spc' = [spc EXCEPT ![s] = "failed"]
  /\ UNCHANGED <<vars, source, edits, job, plan, si, pos, inbox>>

\* The dial fails or finds a peer that cannot take folders, a write fails, or
\* a read finds the connection gone.
SendError(s) ==
  /\ \/ spc[s] = "dialing"
     \/ spc[s] \in Writing /\ ~up[s]
     \/ spc[s] \in Reading /\ ~up[s] /\ reply[s] = NoReply
  /\ spc' = [spc EXCEPT ![s] = "failed"]
  /\ UNCHANGED <<vars, source, edits, job, plan, si, pos, inbox>>

\* SendFiles returns early: the deferred Close leaves what was written to be
\* read.
GiveUp(s) ==
  /\ spc' = [spc EXCEPT ![s] = "failed"]
  /\ up' = [up EXCEPT ![s] = FALSE]
  /\ UNCHANGED <<rvars, reply, source, edits, job, plan, si, pos, inbox>>

\* The context is cancelled: noticed before a file and before every chunk.
Cancel(s) == spc[s] \in {"query", "body"} /\ GiveUp(s)

\* The file cannot be opened or sought in, or not be read any further.
SourceError(s) ==
  spc[s] \in {"header", "body"} /\ job[s][si[s]] \in Source /\ GiveUp(s)
-----------------------------------------------------------------------------
(* The receiver at the other end, and the surroundings *)

RecvFrame(s) ==
  /\ inbox[s] # <<>>
  /\ Handle(s, Head(inbox[s]))
  /\ inbox' = [inbox EXCEPT ![s] = Tail(@)]
  /\ UNCHANGED <<source, edits, svars>>

RecvEnd(s) ==
  /\ inbox[s] = <<>>
  /\ RecvReadError(s)
  /\ UNCHANGED <<source, edits, svars, inbox>>

\* Mutant: a session ends without giving its slots back.
RecvWorkLeaks(s) ==
  /\ rpc[s] = "closing"
  /\ GoTo(s, "closed")
  /\ Return({s})
  /\ up' = [up EXCEPT ![s] = FALSE]
  /\ inbox' = [inbox EXCEPT ![s] = <<>>]
  /\ UNCHANGED <<disk, slots, session, slot, completed, reply, source, edits, svars>>

\* Closing the connection discards what was not read.
RecvWork(s) ==
  /\ Work(s)
  /\ inbox' = [inbox EXCEPT ![s] = IF rpc[s] = "closing" THEN <<>> ELSE @]
  /\ UNCHANGED <<source, edits, svars>>

\* Of the frames in flight only some first ones arrive.
NetworkDrop(s) ==
  /\ Drop(s)
  /\ \E k \in 0..Len(inbox[s]) : inbox' = [inbox EXCEPT ![s] = SubSeq(@, 1, k)]
  /\ UNCHANGED <<source, edits, svars>>

ReceiverCrash ==
  /\ Crash
  /\ inbox' = [s \in Session |-> <<>>]
  /\ UNCHANGED <<source, edits, svars>>

\* Someone saves a new version of a source file.
Edit(f) ==
  /\ edits < MaxEdits
  /\ edits' = edits + 1
  /\ \E c \in Edited[f] \ {source[f]} : source' = [source EXCEPT ![f] = c]
  /\ UNCHANGED <<vars, svars, inbox>>

SendStep(s) ==
  \/ Connect(s) \/ SendQuery(s) \/ ReadOffer(s) \/ SendHeader(s)
  \/ SendChunk(s) \/ SendFileEnd(s) \/ ReadAck(s)
  \/ SendSessionEnd(s) \/ ReadFinal(s) \/ SendError(s)

RecvStep(s) == RecvFrame(s) \/ RecvEnd(s) \/ RecvWork(s)

TNext ==
  \/ \E s \in Session : \/ Prepare(s) \/ SendStep(s) \/ Cancel(s)
                        \/ SourceError(s) \/ RecvStep(s) \/ NetworkDrop(s)
  \/ ReceiverCrash
  \/ \E f \in Source : Edit(f)

TSpec == TInit /\ [][TNext]_tvars
-----------------------------------------------------------------------------
(* Properties *)

\* Every behaviour of a transfer is one the receiver allows against an
\* arbitrary remote end, so what holds there holds here.
ImplementsReceiver == Spec

\* A send that reported success left every file it announced at the receiver,
\* whole, and every folder, and nothing that happens later takes them away.
SentIsStored ==
  \A s \in Session : spc[s] = "done" =>
    \A i \in 1..Len(plan[s]) : manifest[s] = plan[s] /\ Stored(s, i)

\* The bytes of the chunks still on their way.
Data(fs) ==
  LET chunks == SelectSeq(fs, LAMBDA f : f.type = "chunk")
      Upto[n \in 0..Len(chunks)] == IF n = 0 THEN <<>> ELSE Upto[n - 1] \o chunks[n].data
  IN Upto[Len(chunks)]

\* A partial with a sidecar holds "a valid prefix" (receive.go, keep) of the
\* original the sidecar names, unless that was edited while it was sent.  For
\* a disk whose operations succeed: a sidecar that could not be written
\* (writePartMeta ignores it) names the wrong original or none.
PartialIsPrefix ==
  edits = 0 => \A p \in Path : part[p] # Absent /\ part[p] # <<>> =>
    /\ sidecar[p] # Absent
    /\ Len(part[p]) <= Len(sidecar[p])
    /\ part[p] = SubSeq(sidecar[p], 1, Len(part[p]))

\* The name entry i of session s needs is taken by the wrong kind: a file
\* where its folder should be, or a folder made where it was to be put.
Blocked(s, i) ==
  \/ plan[s][i].dir \in Path /\ file[plan[s][i].dir] \notin {Absent, Dir}
  \/ slot[s][i] \in Path /\ file[slot[s][i]] = Dir

\* As long as nobody edits a file while it is sent and the disk works, an
\* entry is refused for one reason only, that a folder and a file contend for
\* a name: drops, cancellations, crashes, concurrent sessions and partials of
\* other originals cost a retry, never a digest or size mismatch.
NoFalseReject ==
  edits = 0 => \A s \in Session :
    /\ rpc[s] \in {"remove", "remove_meta"} => file[Dest(s)] = Dir
    /\ reply[s] # NoReply /\ ~reply[s].ok => reply[s].type = "ack" /\ Blocked(s, reply[s].idx)

\* Sender and receiver never wait for each other: until a send is over at both
\* ends one of them can go on, whatever was lost, refused or cancelled, and no
\* reply or frame is needed that nobody is going to write.
NoStandstill ==
  \A s \in Session :
    spc[s] \notin {"idle", "done", "failed"} \/ Active(s) =>
      ENABLED (SendStep(s) \/ RecvStep(s))
=============================================================================
