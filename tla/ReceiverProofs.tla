--------------------------- MODULE ReceiverProofs ---------------------------
(***************************************************************************)
(* The conjuncts of the inductive invariant of module Receiver about what  *)
(* is stored, the safety theorems, and that Receiver implements Downloads: *)
(* for any number of sessions, any manifests, any frames from the remote   *)
(* end and any disk errors.                                                *)
(***************************************************************************)
EXTENDS ReceiverSteps, FiniteSetTheorems

-----------------------------------------------------------------------------
(* The conjuncts about verified, hashed and stored files *)

\* What is about to be renamed into place is what was announced: the size is
\* right, and if that is the size of the original, the hasher saw every byte.
LEMMA RenamedFits ==
  ASSUME IInv, NEW s \in Session, rpc[s] = "rename"
  PROVE  /\ part[Dest(s)] \in Content /\ part[Dest(s)] \notin {Absent, Dir}
         /\ Fits(part[Dest(s)], Meta(s))
<1>1. TypeOK /\ Dest(s) \in Path
  BY Zenon DEF IInv, CurrentFile, Body
<1>2. /\ hashed[s] = Meta(s).sha /\ got[s] = Meta(s).size /\ part[Dest(s)] # Absent
      /\ got[s] = Len(part[Dest(s)])
      /\ Len(hashed[s]) = got[s] => hashed[s] = part[Dest(s)]
  BY Zenon DEF IInv, Verified, HasherMatchesDisk
<1>3. part[Dest(s)] \in Content
  BY <1>1, <1>2, Zenon DEF TypeOK
<1>4. Fits(part[Dest(s)], Meta(s))
  BY <1>2, Zenon DEF Fits
<1> QED
  BY <1>3, <1>4, ConstantsOK, Zenon

\* The rename is reached only through the comparison at file_end.
LEMMA VerifiedStep ==
  ASSUME IInv, NEW s \in Session, StepOf(s)
  PROVE  Verified'
<1> DEFINE Good(t) ==
      /\ rpc[t] = "rename" => hashed[t] = Meta(t).sha /\ got[t] = Meta(t).size
      /\ rpc[t] = "unmeta" => /\ file[Dest(t)] \notin {Absent, Dir}
                              /\ Fits(file[Dest(t)], Meta(t))
<1>1. TypeOK
  BY DEF IInv
<1>2. \A t \in Session : Good(t)
  BY DEF IInv, Verified
<1>3. \A t \in Session : rpc[t] \in Body => Dest(t) \in Path
  BY Zenon DEF IInv, CurrentFile
<1>4. ASSUME NEW t \in Session, t # s
      PROVE  Good(t)'
  <2>1. /\ rpc'[t] = rpc[t] /\ hashed'[t] = hashed[t] /\ got'[t] = got[t]
        /\ Meta(t)' = Meta(t) /\ Dest(t)' = Dest(t)
    BY <1>1, <1>4, OthersUnchanged, ZenonT(30) DEF Local, Meta, Dest
  <2>2. CASE rpc[t] = "rename"
    BY <1>2, <2>1, <2>2
  <2>3. CASE rpc[t] = "unmeta"
    <3>1. file'[Dest(t)] = file[Dest(t)]
      BY <1>2, <1>3, <2>3, FileStep, Zenon DEF Body
    <3>2. file[Dest(t)] \notin {Absent, Dir} /\ Fits(file[Dest(t)], Meta(t))
      BY <1>2, <2>3, Zenon
    <3> QED
      BY <2>1, <2>3, <3>1, <3>2, Zenon DEF Fits
  <2> QED
    BY <2>1, <2>2, <2>3, ZenonT(30)
<1>5. Good(s)'
  <2>1. \/ rpc'[s] \notin {"rename", "unmeta"}
        \/ Drop(s) \/ PeerReads(s) \/ Rename(s)
        \/ \E f \in PeerFrame : RecvFileEnd(s, f)
    BY <1>1, ZenonT(30)
       DEF TypeOK, StepOf, Handle, Work, rvars, disk, session, progress, net, GoTo, FailFile,
         StartSession, RecvProgress, RecvDirHeader, RecvDirEnd, RecvSessionEnd, RecvUnexpected,
         RecvReadError, OpenPart, OpenFails, WritePartMeta, RecvChunk, ChunkFails,
         RecvBadBody, RecvGarbled, RenameFails, FileDone, RemovePart,
         RemovePartMeta, CloseSession, RecvResumeQuery, RecvFileHeader
  <2>2. CASE Drop(s) \/ PeerReads(s)
    BY <1>2, <2>2, SMTT(30) DEF Drop, PeerReads, rvars, disk, progress, session, Dest, Meta
  <2>3. CASE \E f \in PeerFrame : RecvFileEnd(s, f)
    BY <1>1, <2>3, Zenon DEF RecvFileEnd, GoTo, TypeOK, disk, session, progress, Dest, Meta
  <2>4. CASE Rename(s)
    <3>1. /\ rpc[s] = "rename" /\ rpc'[s] = "unmeta" /\ Dest(s) \in Path
          /\ Dest(s)' = Dest(s) /\ Meta(s)' = Meta(s)
      BY <1>1, <1>3, <2>4 DEF Rename, GoTo, TypeOK, session, progress, Dest, Meta, Body
    <3>2. part[Dest(s)] \notin {Absent, Dir} /\ Fits(part[Dest(s)], Meta(s))
      BY <3>1, RenamedFits, Zenon
    <3>3. file'[Dest(s)] = part[Dest(s)]
      BY <1>1, <2>4, <3>1 DEF Rename, TypeOK
    <3> QED
      BY <3>1, <3>2, <3>3, Zenon DEF Fits
  <2> QED
    BY <2>1, <2>2, <2>3, <2>4, ZenonT(30)
<1> HIDE DEF Good
<1>6. \A t \in Session : Good(t)'
  BY <1>4, <1>5
<1> QED
  BY <1>6 DEF Verified, Good

\* Hasher and partial are fed together, and a partial in use is written by
\* its own session only.
LEMMA HasherStep ==
  ASSUME IInv, NEW s \in Session, StepOf(s)
  PROVE  HasherMatchesDisk'
<1> DEFINE Streaming == {"meta", "body", "rename"}
           Good(t) == rpc[t] \in Streaming =>
                        /\ part[Dest(t)] # Absent
                        /\ got[t] = Len(part[Dest(t)])
                        /\ Len(hashed[t]) <= got[t]
                        /\ Len(hashed[t]) = got[t] => hashed[t] = part[Dest(t)]
                        /\ ~DiskErrors => Len(hashed[t]) = got[t]
<1>1. TypeOK
  BY DEF IInv
<1>2. \A t \in Session : Good(t)
  BY DEF IInv, HasherMatchesDisk
<1>3. ASSUME NEW t \in Session, t # s
      PROVE  Good(t)'
  <2>1. rpc'[t] = rpc[t] /\ hashed'[t] = hashed[t] /\ got'[t] = got[t]
    BY <1>1, <1>3, OthersUnchanged DEF Local
  <2>2. rpc[t] \in Streaming => Dest(t)' = Dest(t) /\ part'[Dest(t)] = part[Dest(t)]
    BY <1>3, OthersPart DEF Body
  <2> QED
    BY <1>2, <2>1, <2>2, Zenon
<1>4. Good(s)'
  <2>1. \/ rpc'[s] \notin Streaming
        \/ UNCHANGED <<slot, progress, part>> /\ rpc[s] \in Streaming
        \/ OpenPart(s) \/ \E f \in PeerFrame : RecvChunk(s, f)
    <3> DEFINE Quietly == \/ rpc'[s] \notin Streaming
                          \/ UNCHANGED <<slot, progress, part>> /\ rpc[s] \in Streaming
    <3> USE DEF TypeOK, disk, GoTo, FailFile
    <3>1. ASSUME NEW f \in PeerFrame, Handle(s, f), ~RecvChunk(s, f)
          PROVE  Quietly
      <4>1. CASE RecvProgress(s, f)
        BY <4>1 DEF RecvProgress, rvars
      <4>2. CASE RecvFileEnd(s, f)
        BY <4>2, ZenonT(30) DEF RecvFileEnd
      <4>3. CASE \/ RecvResumeQuery(s, f) \/ RecvDirHeader(s, f) \/ RecvDirEnd(s, f)
                 \/ RecvFileHeader(s, f) \/ RecvSessionEnd(s, f) \/ RecvUnexpected(s, f)
        BY <1>1, <4>3, ZenonT(30) DEF RecvResumeQuery, RecvDirHeader, RecvDirEnd, RecvFileHeader,
             RecvSessionEnd, RecvUnexpected
      <4>4. CASE ChunkFails(s, f) \/ RecvBadBody(s, f) \/ RecvGarbled(s, f)
        BY <1>1, <4>4, Zenon DEF ChunkFails, RecvBadBody, RecvGarbled
      <4> QED
        BY <3>1, <4>1, <4>2, <4>3, <4>4, ZenonT(30) DEF Handle
    <3>2. ASSUME Work(s), ~OpenPart(s)
          PROVE  Quietly
      BY <1>1, <3>2, ZenonT(30) DEF Work, OpenFails, WritePartMeta, Rename, RenameFails, FileDone,
           RemovePart, RemovePartMeta, CloseSession
    <3>3. CASE StartSession(s) \/ RecvReadError(s)
      BY <1>1, <3>3 DEF StartSession, RecvReadError
    <3>4. CASE Drop(s) \/ PeerReads(s)
      BY <3>4 DEF Drop, PeerReads, rvars
    <3> QED
      BY <3>1, <3>2, <3>3, <3>4, ZenonT(30) DEF StepOf
  <2>2. CASE UNCHANGED <<slot, progress, part>> /\ rpc[s] \in Streaming
    BY <1>2, <2>2, Zenon DEF progress, Dest
  <2>3. CASE OpenPart(s)
    <3>1. /\ Dest(s) \in Path /\ Dest(s)' = Dest(s) /\ got'[s] = offset[s] /\ offset[s] \in Nat
      BY <1>1, <2>3, ZenonT(30) DEF OpenPart, TypeOK, IInv, CurrentFile, Body, Dest
    <3>2. CASE offset[s] > 0
      <4>1. PICK k \in Seeded(offset[s]) :
              hashed' = [hashed EXCEPT ![s] = SubSeq(part[Dest(s)], 1, k)]
        BY <2>3, <3>2, Zenon DEF OpenPart
      <4>2. /\ rpc[s] = "open" /\ part[Dest(s)] # Absent /\ part[Dest(s)] \in Content
            /\ OffsetFits /\ part' = part
        BY <1>1, <2>3, <3>1, <3>2, ZenonT(30) DEF OpenPart, TypeOK, IInv, OffsetFits
      <4>3. PICK c : /\ hashed' = [hashed EXCEPT ![s] = c]
                     /\ Len(c) <= offset[s] /\ offset[s] = Len(part[Dest(s)])
                     /\ Len(c) = offset[s] => c = part[Dest(s)]
                     /\ ~DiskErrors => Len(c) = offset[s]
        BY <1>1, <3>2, <4>1, <4>2, SeededPrefix, Zenon
      <4>4. hashed'[s] = c
        BY <1>1, <4>3 DEF TypeOK
      <4> QED
        BY <3>1, <4>2, <4>3, <4>4, Zenon
    <3>3. CASE offset[s] = 0
      <4>1. part'[Dest(s)] = <<>> /\ hashed'[s] = <<>>
        BY <1>1, <2>3, <3>1, <3>3 DEF OpenPart, TypeOK
      <4>2. <<>> # Absent
        BY ConstantsOK, EmptySeq DEF Content
      <4> QED
        BY <3>1, <3>3, <4>1, <4>2
    <3> QED
      BY <3>1, <3>2, <3>3
  <2>4. ASSUME NEW f \in PeerFrame, RecvChunk(s, f)
        PROVE  Good(s)'
    <3>1. Dest(s) \in Path /\ Dest(s)' = Dest(s) /\ rpc[s] = "body"
      BY <2>4, Zenon DEF RecvChunk, IInv, CurrentFile, Body, Dest
    <3>2. f.data \in Seq(Byte) /\ hashed[s] \in Seq(Byte)
      BY <1>1, ConstantsOK DEF Frame, TypeOK, Content
    <3>5. part[Dest(s)] \in Seq(Byte)
      BY <1>1, <1>2, <3>1, Zenon DEF TypeOK, Content
    <3>3. /\ Len(hashed[s] \o f.data) = Len(hashed[s]) + Len(f.data)
          /\ Len(part[Dest(s)] \o f.data) = Len(part[Dest(s)]) + Len(f.data)
          /\ part[Dest(s)] \o f.data \in Seq(Byte)
          /\ Len(hashed[s]) \in Nat /\ Len(part[Dest(s)]) \in Nat /\ Len(f.data) \in Nat
      BY <3>2, <3>5, ConcatProperties, LenProperties, ZenonT(30)
    <3>4. /\ part'[Dest(s)] = part[Dest(s)] \o f.data
          /\ hashed'[s] = hashed[s] \o f.data
          /\ got'[s] = got[s] + Len(f.data)
      BY <1>1, <2>4, <3>1, SMTT(30) DEF RecvChunk, TypeOK
    <3>6. part'[Dest(s)] # Absent
      BY <3>3, <3>4, ConstantsOK, Zenon DEF Content
    <3>7. /\ got[s] = Len(part[Dest(s)]) /\ Len(hashed[s]) <= got[s]
          /\ Len(hashed[s]) = got[s] => hashed[s] = part[Dest(s)]
          /\ ~DiskErrors => Len(hashed[s]) = got[s]
      BY <1>2, <3>1, Zenon
    <3>8. /\ got'[s] = Len(part'[Dest(s)]) /\ Len(hashed'[s]) <= got'[s]
          /\ Len(hashed'[s]) = got'[s] => Len(hashed[s]) = got[s]
          /\ ~DiskErrors => Len(hashed'[s]) = got'[s]
      <4> DEFINE h == Len(hashed[s])
                 n == Len(part[Dest(s)])
                 d == Len(f.data)
      <4>1. h \in Nat /\ n \in Nat /\ d \in Nat /\ got[s] = n /\ h <= n /\ (~DiskErrors => h = n)
        BY <3>3, <3>7, Zenon
      <4>2. got'[s] = n + d /\ Len(part'[Dest(s)]) = n + d /\ Len(hashed'[s]) = h + d
        BY <3>3, <3>4, <3>7, Zenon
      <4> HIDE DEF h, n, d
      <4>3. h + d <= n + d /\ (h + d = n + d => h = n)
        BY <4>1
      <4> QED
        BY <4>1, <4>2, <4>3, Zenon DEF h
    <3>9. Len(hashed'[s]) = got'[s] => hashed'[s] = part'[Dest(s)]
      BY <3>4, <3>7, <3>8, Zenon
    <3> QED
      BY <3>1, <3>6, <3>8, <3>9, Zenon
  <2> QED
    BY <2>1, <2>2, <2>3, <2>4
<1> HIDE DEF Good
<1>5. \A t \in Session : Good(t)'
  BY <1>3, <1>4
<1> QED
  BY <1>5, Zenon DEF HasherMatchesDisk, Good

\* A claimed destination stays empty until its own rename.
LEMMA NotYetThereStep ==
  ASSUME IInv, NEW s \in Session, StepOf(s)
  PROVE  NotYetThere'
<1>1. TypeOK
  BY DEF IInv
<1>2. SUFFICES ASSUME NEW t \in Session, NEW i \in Index,
                      Active(t)', slot'[t][i] # NoPath, i \notin completed'[t],
                      ~(rpc'[t] = "unmeta" /\ i = cur'[t])
               PROVE  file'[slot'[t][i]] \in {Absent, Dir}
  BY Zenon DEF NotYetThere
<1> DEFINE p == slot'[t][i]
<1>3. p \in Path
  <2>1. TypeOK'
    BY TypeStep DEF StepOf, Next, IInv
  <2> QED
    BY <1>2, <2>1 DEF TypeOK
<1>4. file[p] \in {Absent, Dir}
  <2>1. ASSUME Active(t), slot[t][i] = p, ~(rpc[t] = "unmeta" /\ i = cur[t])
        PROVE  file[p] \in {Absent, Dir}
    BY <1>2, <2>1, History, ZenonT(30) DEF IInv, NotYetThere
  <2>2. CASE t # s
    BY <1>1, <1>2, <2>1, <2>2, OthersUnchanged, ZenonT(30) DEF Local, Active
  <2>3. CASE t = s
    <3>1. CASE StartSession(s)
      BY <1>2, <2>3, <3>1 DEF StartSession, IInv, SessionsWellFormed
    <3>2. CASE CloseSession(s)
      BY <1>1, <1>2, <2>3, <3>2 DEF CloseSession, GoTo, Active, TypeOK
    <3>3. ASSUME NEW f \in PeerFrame, RecvResumeQuery(s, f) \/ RecvFileHeader(s, f)
          PROVE  file[p] \in {Absent, Dir}
      <4>1. rpc[s] = "loop"
        BY <3>3, Slotting, Zenon
      <4>2. CASE slot[s][i] = p
        BY <2>1, <2>3, <4>1, <4>2 DEF Active
      <4>3. CASE slot[s][i] # p
        <5>1. PICK q \in Path : InRange(s, f.idx) /\ SlotFor(s, f.idx, q)
          BY <2>3, <3>3, <4>3, Slotting, ZenonT(30)
        <5>2. f.idx \in Index
          BY <1>1, <5>1, EntryType
        <5> QED
          <6>1. /\ slot'[s][f.idx] = q /\ \A j \in Index : j # f.idx => slot'[s][j] = slot[s][j]
                /\ q = slot[s][f.idx] \/ (file[q] = Absent /\ q \notin slots)
            BY <1>1, <5>1, <5>2, SlotForEffect
          <6>2. i = f.idx /\ q = p
            BY <1>2, <2>3, <4>3, <6>1, ZenonT(30)
          <6> QED
            BY <4>3, <6>1, <6>2
      <4> QED
        BY <4>2, <4>3
    <3>4. CASE UNCHANGED slot /\ Active(s)' = Active(s)
      <4>1. ASSUME rpc[s] = "unmeta", i = cur[s]
            PROVE  FALSE
        <5>1. FileDone(s) \/ Drop(s) \/ PeerReads(s)
          BY <4>1, ZenonT(30) DEF StepOf, Handle, Work, StartSession, RecvProgress, RecvDirHeader,
               RecvDirEnd, RecvSessionEnd, RecvUnexpected, RecvReadError, OpenPart,
               OpenFails, WritePartMeta, RecvChunk, ChunkFails, RecvFileEnd, RecvBadBody,
               RecvGarbled, Rename, RenameFails, RemovePart, RemovePartMeta, CloseSession,
               RecvResumeQuery, RecvFileHeader
        <5>2. CASE FileDone(s)
          BY <1>1, <1>2, <2>3, <4>1, <5>2, Zenon DEF FileDone, TypeOK
        <5>3. CASE Drop(s) \/ PeerReads(s)
          BY <1>2, <2>3, <4>1, <5>3 DEF Drop, PeerReads, rvars, progress
        <5> QED
          BY <5>1, <5>2, <5>3
      <4> QED
        BY <1>2, <2>1, <2>3, <3>4, <4>1, Zenon
    <3> QED
      BY <1>1, <3>1, <3>2, <3>3, <3>4, Quiet, ZenonT(30)
  <2> QED
    BY <2>2, <2>3
<1>5. CASE file'[p] = file[p] \/ file'[p] = Dir
  BY <1>4, <1>5, ZenonT(30)
<1>6. CASE Rename(s) /\ p = Dest(s)
  <2>1. /\ cur[s] \in Index /\ rpc'[s] = "unmeta" /\ UNCHANGED <<slot, cur>>
    BY <1>1, <1>6, EntryType, ZenonT(30)
       DEF Rename, GoTo, TypeOK, IInv, CurrentFile, Body, progress
  <2>2. Active(s)' /\ slot'[s][cur[s]] = slot'[t][i]
    BY <1>6, <2>1 DEF Active, Dest
  <2>3. t = s /\ i = cur[s]
    <3>1. SlotsExclusive'
      BY SlotsStep
    <3>2. (\A u, v \in Session : \A j, k \in Index :
             /\ Active(u) /\ Active(v)
             /\ slot[u][j] # NoPath /\ slot[u][j] = slot[v][k]
             => u = v /\ j = k)'
      BY <3>1, Zenon DEF SlotsExclusive
    <3> QED
      BY <1>2, <2>1, <2>2, <3>2, Zenon
  <2> QED
    BY <1>2, <2>1, <2>3, ZenonT(30)
<1> QED
  BY <1>3, <1>5, <1>6, FileStep

\* Once an entry is stored it stays stored.
LEMMA StoredStays ==
  ASSUME IInv, NEW s \in Session, StepOf(s), NEW t \in Session, rpc[t] # "idle",
         NEW i, InRange(t, i), Stored(t, i)
  PROVE  InRange(t, i)' /\ Stored(t, i)'
<1>1. TypeOK
  BY DEF IInv
<1>2. i \in Index /\ manifest[t][i] \in Entry
  BY <1>1, EntryType, Zenon
<1>3. manifest'[t] = manifest[t]
  BY History
<1>4. CASE manifest[t][i].isDir
  <2>1. manifest[t][i].dir \in Path /\ file[manifest[t][i].dir] = Dir
    BY <1>4, ZenonT(30) DEF Stored
  <2> QED
    BY <1>3, <1>4, <2>1, FileStep, ConstantsOK, ZenonT(30) DEF Stored, InRange
<1>5. CASE ~manifest[t][i].isDir
  <2>1. /\ slot[t][i] \in Path /\ file[slot[t][i]] \notin {Absent, Dir}
        /\ Fits(file[slot[t][i]], manifest[t][i])
    BY <1>5, ZenonT(30) DEF Stored
  <2>2. slot'[t][i] = slot[t][i] /\ file'[slot[t][i]] = file[slot[t][i]]
    BY <1>2, <2>1, History, FileStep, ConstantsOK, Zenon
  <2>3. /\ slot'[t][i] \in Path /\ file'[slot'[t][i]] \notin {Absent, Dir}
        /\ Fits(file'[slot'[t][i]], manifest[t][i])
    BY <2>1, <2>2, Zenon DEF Fits
  <2> QED
    BY <1>3, <1>5, <2>3, ZenonT(30) DEF Stored, InRange, Fits
<1> QED
  BY <1>4, <1>5, Zenon

\* completed: len(completed) == len(manifest) means every index is in it.
LEMMA AllCompleted ==
  ASSUME NEW n \in Nat, NEW S \in SUBSET (1..n), Cardinality(S) = n
  PROVE  S = 1..n
<1>1. IsFiniteSet(1..n) /\ Cardinality(1..n) = n
  BY FS_Interval
<1> QED
  BY <1>1, FS_Subset, ZenonT(30)

\* An ack is sent after the rename, a final ack after every other.
LEMMA AckedStep ==
  ASSUME IInv, NEW s \in Session, StepOf(s)
  PROVE  AckedIsStored'
<1>1. TypeOK
  BY DEF IInv
<1> DEFINE Acked(t) == \A i \in completed[t] : InRange(t, i) /\ Stored(t, i)
           Told(t) == reply[t] # NoReply /\ reply[t].ok =>
              /\ reply[t].type = "ack" => reply[t].idx \in completed[t]
              /\ reply[t].type = "final" => \A i \in 1..Len(manifest[t]) : i \in completed[t]
<1>2. \A t \in Session : Acked(t) /\ Told(t)
  BY Zenon DEF IInv, AckedIsStored
<1>3. \A t \in Session : rpc[t] = "idle" => completed[t] = {} /\ reply[t] = NoReply
  BY DEF IInv, SessionsWellFormed
<1>4. ASSUME NEW t \in Session
      PROVE  \A i \in completed[t] : InRange(t, i)' /\ Stored(t, i)'
  BY <1>2, <1>3, StoredStays, ZenonT(30)
<1>5. \/ UNCHANGED completed
      \/ FileDone(s) \/ \E f \in PeerFrame : RecvDirEnd(s, f)
  BY ZenonT(30) DEF StepOf, Handle, Work, disk, progress, session, net, rvars,
         StartSession, RecvProgress, RecvDirHeader, RecvSessionEnd,
         RecvUnexpected, RecvReadError, OpenPart, OpenFails, WritePartMeta, RecvChunk,
         ChunkFails, RecvFileEnd, RecvBadBody, RecvGarbled, Rename, RenameFails,
         RemovePart, RemovePartMeta, CloseSession, Drop, PeerReads,
         RecvResumeQuery, RecvFileHeader
<1>6. ASSUME NEW t \in Session
      PROVE  Acked(t)'
  <2>1. CASE completed'[t] = completed[t]
    BY <1>4, <2>1
  <2>2. CASE FileDone(s) /\ t = s
    <3>1. /\ InRange(s, cur[s]) /\ ~Meta(s).isDir /\ Dest(s) \in Path
          /\ file[Dest(s)] \notin {Absent, Dir} /\ Fits(file[Dest(s)], Meta(s))
          /\ rpc[s] # "idle"
      BY <2>2, ZenonT(30) DEF FileDone, IInv, CurrentFile, Verified, Body
    <3>2. Stored(s, cur[s])
      BY <3>1, Zenon DEF Stored, Meta, Dest
    <3>3. \A i : i = cur[s] => InRange(s, i)' /\ Stored(s, i)'
      BY <3>1, <3>2, StoredStays, Zenon
    <3>4. completed'[s] = completed[s] \cup {cur[s]}
      BY <1>1, <2>2 DEF FileDone, TypeOK
    <3> QED
      BY <1>4, <2>2, <3>3, <3>4
  <2>3. ASSUME NEW f \in PeerFrame, RecvDirEnd(s, f), t = s, completed' # completed
        PROVE  Acked(t)'
    <3>1. InRange(s, cur[s]) /\ Meta(s).isDir
      BY <2>3, ZenonT(30) DEF RecvDirEnd, IInv, CurrentFile
    <3>2. Meta(s).dir \in Path /\ Mkdir(Meta(s).dir) /\ manifest' = manifest
      BY <2>3, Zenon DEF RecvDirEnd, Meta, session
    <3>3. file'[Meta(s).dir] = Dir
      BY <1>1, <3>2, SMTT(30) DEF Mkdir, TypeOK
    <3>4. completed'[s] = completed[s] \cup {cur[s]}
      BY <1>1, <2>3, ZenonT(30) DEF RecvDirEnd, TypeOK
    <3>5. \A i : i = cur[s] => InRange(s, i)' /\ Stored(s, i)'
      BY <3>1, <3>2, <3>3, ZenonT(30) DEF Stored, InRange, Meta
    <3> QED
      BY <1>4, <2>3, <3>4, <3>5
  <2>4. t # s => completed'[t] = completed[t]
    BY <1>1, OthersUnchanged, ZenonT(30) DEF Local
  <2> QED
    BY <1>5, <2>1, <2>2, <2>3, <2>4, Zenon
<1>7. ASSUME NEW t \in Session
      PROVE  Told(t)'
  <2>1. CASE reply'[t] = reply[t]
    <3>1. CASE rpc[t] = "idle"
      BY <1>3, <2>1, <3>1
    <3>2. CASE rpc[t] # "idle"
      BY <1>2, <2>1, <3>2, History, SMTT(30)
    <3> QED
      BY <3>1, <3>2
  <2>2. t # s => reply'[t] = reply[t]
    BY <1>1, OthersUnchanged DEF Local
  <2>3. ASSUME t = s, \/ reply'[s] = NoReply
                      \/ \E i, n : reply'[s] = Offer(i, n)
                      \/ \E i : reply'[s] = Ack(i, FALSE)
                      \/ \E i : reply'[s] = Ack(i, TRUE) /\ i \in completed'[s]
        PROVE  Told(t)'
    <3>1. CASE \E i, n : reply'[s] = Offer(i, n)
      <4>1. reply'[s].type = "offer"
        BY <3>1, SMTT(30) DEF Offer
      <4> QED
        BY <2>3, <4>1, Zenon
    <3>2. CASE \E i : reply'[s] = Ack(i, FALSE)
      <4>1. reply'[s].ok = FALSE
        BY <3>2, SMTT(30) DEF Ack
      <4> QED
        BY <2>3, <4>1, ZenonT(30)
    <3>3. CASE \E i : reply'[s] = Ack(i, TRUE) /\ i \in completed'[s]
      <4>1. reply'[s].type = "ack" /\ reply'[s].idx \in completed'[s]
        BY <3>3, SMTT(30) DEF Ack
      <4> QED
        BY <2>3, <4>1, SMTT(30)
    <3> QED
      BY <2>3, <3>1, <3>2, <3>3, ZenonT(30)
  <2>4. ASSUME NEW f \in PeerFrame, RecvSessionEnd(s, f), t = s
        PROVE  Told(t)'
    <3>1. /\ reply'[s] = reply[s] \/ reply'[s] = Final(Cardinality(completed[s]) = Len(manifest[s]))
          /\ UNCHANGED <<completed, manifest>> /\ rpc[s] # "idle"
      BY <1>1, <2>4, SMTT(30) DEF RecvSessionEnd, Send, TypeOK, session
    <3>2. manifest[s] \in Manifest /\ Len(manifest[s]) \in Nat
      BY <3>1, ConstantsOK, SMTT(30) DEF IInv, SessionsWellFormed
    <3>3. completed[s] \in SUBSET (1..Len(manifest[s]))
      BY <1>2 DEF InRange
    <3>4. Cardinality(completed[s]) = Len(manifest[s]) => completed[s] = 1..Len(manifest[s])
      BY <3>2, <3>3, AllCompleted
    <3>5. CASE reply'[s] = Final(Cardinality(completed[s]) = Len(manifest[s]))
      <4>1. /\ reply'[s].type = "final"
            /\ reply'[s].ok = (Cardinality(completed[s]) = Len(manifest[s]))
        BY <3>5 DEF Final
      <4> QED
        BY <2>4, <3>1, <3>4, <4>1, ZenonT(30)
    <3> QED
      BY <2>1, <2>4, <3>1, <3>5, ZenonT(30)
  <2> HIDE DEF Told
  <2>5. CASE t = s /\ \E f \in PeerFrame : RecvResumeQuery(s, f)
    <3>1. reply'[s] = reply[s] \/ \E i, n : reply'[s] = Offer(i, n)
      BY <1>1, <2>5, SendEffect, ZenonT(30) DEF RecvResumeQuery
    <3> QED
      BY <2>1, <2>3, <2>5, <3>1, ZenonT(30)
  <2>6. CASE t = s /\ \E f \in PeerFrame : RecvDirEnd(s, f)
    <3>1. \/ reply'[s] = reply[s]
          \/ reply'[s] = Ack(cur[s], FALSE)
          \/ reply'[s] = Ack(cur[s], TRUE) /\ cur[s] \in completed'[s]
      <4>1. CASE Send(s, Ack(cur[s], FALSE))
        BY <1>1, <4>1, SendEffect, ZenonT(30)
      <4>2. CASE Send(s, Ack(cur[s], TRUE)) /\ completed' = [completed EXCEPT ![s] = @ \cup {cur[s]}]
        BY <1>1, <4>2, SendEffect, ZenonT(30) DEF TypeOK
      <4> QED
        BY <2>6, <4>1, <4>2, ZenonT(30) DEF RecvDirEnd
    <3> QED
      BY <2>1, <2>3, <2>6, <3>1, ZenonT(30)
  <2>7. CASE t = s /\ FileDone(s)
    <3>1. \/ reply'[s] = reply[s]
          \/ reply'[s] = Ack(cur[s], TRUE) /\ cur[s] \in completed'[s]
      BY <1>1, <2>7, SendEffect, ZenonT(30) DEF FileDone, TypeOK
    <3> QED
      BY <2>1, <2>3, <2>7, <3>1, ZenonT(30)
  <2>8. CASE t = s /\ \E f \in PeerFrame : \/ RecvFileHeader(s, f) \/ ChunkFails(s, f)
                                           \/ RecvGarbled(s, f)
    <3>1. reply'[s] = reply[s] \/ \E i : reply'[s] = Ack(i, FALSE)
      <4>1. UNCHANGED reply \/ \E i : Send(s, Ack(i, FALSE))
        BY <2>8, ZenonT(30) DEF RecvFileHeader, ChunkFails, RecvGarbled, FailFile
      <4> QED
        BY <1>1, <4>1, SendEffect, Zenon
    <3> QED
      BY <2>1, <2>3, <2>8, <3>1, Zenon
  <2>9. CASE t = s /\ (OpenFails(s) \/ RemovePartMeta(s))
    <3>1. reply'[s] = reply[s] \/ \E i : reply'[s] = Ack(i, FALSE)
      BY <1>1, <2>9, SendEffect, ZenonT(30) DEF OpenFails, RemovePartMeta, FailFile
    <3> QED
      BY <2>1, <2>3, <2>9, <3>1, ZenonT(30)
  <2>10. CASE t = s /\ (Drop(s) \/ PeerReads(s))
    BY <1>1, <2>1, <2>3, <2>10, ZenonT(30) DEF Drop, PeerReads, TypeOK
  <2>11. \/ reply' = reply
         \/ OpenFails(s) \/ RemovePartMeta(s) \/ FileDone(s) \/ Drop(s) \/ PeerReads(s)
         \/ \E f \in PeerFrame : \/ RecvFileHeader(s, f) \/ ChunkFails(s, f) \/ RecvDirEnd(s, f)
                                \/ RecvResumeQuery(s, f) \/ RecvSessionEnd(s, f)
                                \/ RecvGarbled(s, f)
    BY Zenon DEF StepOf, Handle, Work, disk, progress, session, net, rvars,
         StartSession, RecvProgress, RecvDirHeader, RecvUnexpected, RecvReadError, OpenPart,
         WritePartMeta, RecvChunk, RecvFileEnd, RecvBadBody, Rename, RenameFails,
         RemovePart, CloseSession
  <2> QED
    BY <2>1, <2>2, <2>4, <2>5, <2>6, <2>7, <2>8, <2>9, <2>10, <2>11, SMTT(30)
<1> HIDE DEF Acked, Told
<1>8. \A t \in Session : Acked(t)' /\ Told(t)'
  BY <1>6, <1>7
<1> QED
  BY <1>8, SMTT(30) DEF AckedIsStored, Acked, Told

\* A file under its final name came through a verified rename.
LEMMA WholeStep ==
  ASSUME IInv, NEW s \in Session, StepOf(s)
  PROVE  WholeFilesOnly'
<1>1. TypeOK
  BY DEF IInv
<1>2. SUFFICES ASSUME NEW p \in Path, file'[p] \notin {Absent, Dir}
               PROVE  \E t \in Session : \E i \in 1..Len(manifest'[t]) :
                        slot'[t][i] = p /\ Fits(file'[p], manifest'[t][i])
  BY Zenon DEF WholeFilesOnly, Fits
<1>3. CASE file'[p] = file[p]
  <2>a. PICK t \in Session : \E j \in 1..Len(manifest[t]) :
          slot[t][j] = p /\ Fits(file[p], manifest[t][j])
    BY <1>2, <1>3, Zenon DEF IInv, WholeFilesOnly
  <2>1. PICK i \in 1..Len(manifest[t]) :
          slot[t][i] = p /\ Fits(file[p], manifest[t][i])
    BY <2>a
  <2>2. i \in Index
    BY <1>1, <2>1, EntryType DEF InRange
  <2>3. rpc[t] # "idle" /\ slot[t][i] # NoPath
    BY <2>1, <2>2, ConstantsOK, SMTT(30) DEF IInv, SessionsWellFormed
  <2>4. manifest'[t] = manifest[t] /\ slot'[t][i] = slot[t][i]
    BY <2>2, <2>3, History, ZenonT(30)
  <2> QED
    BY <1>3, <2>1, <2>4, Zenon
<1>4. CASE Rename(s) /\ p = Dest(s)
  <2>1. /\ InRange(s, cur[s]) /\ UNCHANGED <<slot, manifest>>
        /\ Fits(part[Dest(s)], Meta(s))
    BY <1>4, RenamedFits, ZenonT(30) DEF Rename, IInv, CurrentFile, Body, session
  <2>2. file'[p] = part[p]
    BY <1>1, <1>2, <1>4 DEF Rename, TypeOK
  <2> QED
    BY <1>4, <2>1, <2>2, ZenonT(30) DEF InRange, Dest, Meta
<1> QED
  BY <1>2, <1>3, <1>4, FileStep, SMTT(30)

-----------------------------------------------------------------------------
(* Putting it together *)

\* The initial state satisfies the invariant.
LEMMA InitIInv ==
  Init => IInv
<1> SUFFICES ASSUME Init
             PROVE  IInv
  OBVIOUS
<1>1. TypeOK
  <2>1. <<>> \in Content
    BY DEF Content
  <2> QED
    BY <2>1 DEF Init, TypeOK, RPC
<1>2. SessionsWellFormed /\ CurrentFile /\ OffsetFits /\ Verified
  BY Zenon DEF Init, SessionsWellFormed, CurrentFile, OffsetFits, Verified, Body
<1>3. SlotsExclusive
  BY DEF Init, SlotsExclusive, Active
<1>4. HasherMatchesDisk /\ NotYetThere /\ AckedIsStored /\ WholeFilesOnly
  BY Zenon DEF Init, HasherMatchesDisk, NotYetThere, AckedIsStored, WholeFilesOnly, Active
<1> QED
  BY <1>1, <1>2, <1>3, <1>4 DEF IInv

\* A crash forgets sessions and claims and leaves the disk as it is.
LEMMA CrashStep ==
  ASSUME IInv, Crash
  PROVE  IInv'
<1>1. TypeOK /\ TypeOK'
  BY TypeStep DEF Next, IInv
<1>2. /\ UNCHANGED <<file, part, sidecar, manifest, resume, slot, completed, reply>>
      /\ slots' = {}
  BY DEF Crash, disk, session
<1>3. \A s \in Session : /\ ~Active(s)' /\ rpc'[s] \in {"idle", "closed"}
                         /\ rpc'[s] = "idle" <=> rpc[s] = "idle"
  BY DEF Crash, Active
<1>4. SessionsWellFormed'
  BY <1>2, <1>3, ZenonT(30) DEF IInv, SessionsWellFormed
<1>5. CurrentFile' /\ OffsetFits' /\ Verified' /\ HasherMatchesDisk'
  BY <1>3, ZenonT(30) DEF CurrentFile, OffsetFits, Verified, HasherMatchesDisk, Body
<1>6. SlotsExclusive' /\ NotYetThere'
  BY <1>2, <1>3 DEF SlotsExclusive, NotYetThere
<1>7. AckedIsStored' /\ WholeFilesOnly'
  BY <1>2, ZenonT(30) DEF IInv, AckedIsStored, WholeFilesOnly, InRange, Stored, Fits
<1> QED
  BY <1>1, <1>4, <1>5, <1>6, <1>7, SMTT(30) DEF IInv

\* Every step of the daemon preserves it.
LEMMA NextIInv ==
  ASSUME IInv, [Next]_vars, Foreign = {}
  PROVE  IInv'
<1>1. ASSUME NEW s \in Session, StepOf(s)
      PROVE  IInv'
  BY <1>1, TypeStep, WellFormedStep, CurrentStep, OffsetStep, VerifiedStep, SlotsStep,
     HasherStep, NotYetThereStep, AckedStep, WholeStep, SMTT(30) DEF IInv
<1>2. CASE UNCHANGED vars
  <2>1. /\ UNCHANGED <<file, part, sidecar, slots, rpc, manifest, resume, slot, completed>>
        /\ UNCHANGED <<cur, offset, got, hashed, up, reply>>
    BY <1>2 DEF vars, rvars, disk, session, progress, net
  <2>2. /\ TypeOK /\ SessionsWellFormed /\ CurrentFile /\ OffsetFits /\ Verified
        /\ SlotsExclusive /\ HasherMatchesDisk /\ NotYetThere
        /\ AckedIsStored /\ WholeFilesOnly
    BY DEF IInv
  <2>3. TypeOK' /\ SessionsWellFormed'
    BY <2>1, <2>2, SMTT(30) DEF TypeOK, SessionsWellFormed
  <2>4. CurrentFile' /\ OffsetFits' /\ Verified' /\ HasherMatchesDisk'
    BY <2>1, <2>2, ZenonT(30) DEF CurrentFile, OffsetFits, Verified, HasherMatchesDisk,
       Dest, Meta, InRange, Fits
  <2>5. SlotsExclusive' /\ NotYetThere'
    <3>1. SlotsExclusive /\ NotYetThere
      BY <2>2
    <3>2. /\ rpc' = rpc /\ slot' = slot /\ slots' = slots
          /\ file' = file /\ completed' = completed /\ cur' = cur
      BY <2>1
    <3>3. SlotsExclusive'
      BY <3>1, <3>2 DEF SlotsExclusive, Active
    <3>4. NotYetThere'
      BY <3>1, <3>2, Zenon DEF NotYetThere, Active
    <3> QED
      BY <3>3, <3>4
  <2>6. AckedIsStored' /\ WholeFilesOnly'
    BY <2>1, <2>2, ZenonT(30) DEF AckedIsStored, WholeFilesOnly, InRange, Stored, Fits
  <2> QED
    BY <2>3, <2>4, <2>5, <2>6 DEF IInv
<1> QED
  BY <1>1, <1>2, CrashStep DEF Next, StepOf

\* The inductive invariant holds when only adrop writes to the download
\* directory.
LEMMA Invariance ==
  ASSUME Foreign = {}
  PROVE  Spec => []IInv
<1>1. Init => IInv
  BY InitIInv
<1>2. IInv /\ [Next]_vars => IInv'
  BY NextIInv
<1> QED
  BY <1>1, <1>2, PTL DEF Spec

\* reserveSlot never hands one destination to two transfers in flight, and
\* every claim is released with its session.
THEOREM SlotSafety ==
  ASSUME Foreign = {}
  PROVE  Spec => []SlotsExclusive
<1>1. IInv => SlotsExclusive
  BY DEF IInv
<1> QED
  BY <1>1, Invariance, PTL

\* No other session writes to the .adrop-part that a file is received into,
\* and a hasher that was fed as many bytes as it holds was fed just those.
THEOREM HasherSafety ==
  ASSUME Foreign = {}
  PROVE  Spec => []HasherMatchesDisk
<1>1. IInv => HasherMatchesDisk
  BY DEF IInv
<1> QED
  BY <1>1, Invariance, PTL

\* An entry acked OK is on disk whole and stays there, through crashes too,
\* and a final OK covers the whole manifest.
THEOREM AckSafety ==
  ASSUME Foreign = {}
  PROVE  Spec => []AckedIsStored
<1>1. IInv => AckedIsStored
  BY DEF IInv
<1> QED
  BY <1>1, Invariance, PTL

\* No partial file is ever visible under a final name.
THEOREM WholeFileSafety ==
  ASSUME Foreign = {}
  PROVE  Spec => []WholeFilesOnly
<1>1. IInv => WholeFilesOnly
  BY DEF IInv
<1> QED
  BY <1>1, Invariance, PTL

\* A file or directory in the download directory is never replaced.
THEOREM NoOverwrite ==
  ASSUME Foreign = {}
  PROVE  Spec => NeverOverwrites
<1> DEFINE Keeps == \A p \in Path : file[p] # Absent => file'[p] = file[p]
<1>1. IInv /\ [Next]_vars => [Keeps]_vars
  <2> SUFFICES ASSUME IInv, Next
               PROVE  Keeps
    OBVIOUS
  <2>1. ASSUME NEW s \in Session, StepOf(s)
        PROVE  Keeps
    BY <2>1, FileStep, Zenon
  <2>2. CASE Crash
    BY <2>2 DEF Crash, disk
  <2> QED
    BY <2>1, <2>2, Zenon DEF Next, StepOf
<1> QED
  BY <1>1, Invariance, PTL DEF Spec, NeverOverwrites
-----------------------------------------------------------------------------
(* Receiver implements Downloads, when only adrop writes to the directory *)


\* An acknowledged entry has a place, and something is there.
LEMMA AckedPlace ==
  ASSUME IInv, NEW s \in Session, NEW i \in completed[s]
  PROVE  /\ rpc[s] # "idle" /\ InRange(s, i) /\ i \in Index
         /\ Place(s, i) \in Path /\ file[Place(s, i)] # Absent
<1>1. rpc[s] # "idle" /\ InRange(s, i) /\ Stored(s, i)
  BY Zenon DEF IInv, SessionsWellFormed, AckedIsStored
<1>2. i \in Index
  BY Zenon DEF IInv, TypeOK
<1>3. CASE manifest[s][i].isDir
  <2>1. /\ Place(s, i) = manifest[s][i].dir
        /\ manifest[s][i].dir \in Path /\ file[manifest[s][i].dir] = Dir
    BY <1>1, <1>3, Zenon DEF Place, Stored
  <2> QED
    BY <1>1, <1>2, <2>1, ConstantsOK, Zenon
<1>4. CASE ~manifest[s][i].isDir
  <2>1. /\ Place(s, i) = slot[s][i]
        /\ slot[s][i] \in Path /\ file[slot[s][i]] # Absent
    BY <1>1, <1>4, Zenon DEF Place, Stored
  <2> QED
    BY <1>1, <1>2, <2>1, Zenon
<1> QED
  BY <1>3, <1>4, Zenon

\* What was acknowledged stays acknowledged as it is: neither the manifest nor
\* the slot of a completed entry changes, nor what is found there.
LEMMA FoundStays ==
  ASSUME IInv, NEW s \in Session, StepOf(s), NEW t \in Session, NEW i \in completed[t]
  PROVE  Found(t, i)' = Found(t, i)
<1>1. /\ rpc[t] # "idle" /\ InRange(t, i) /\ i \in Index
      /\ Place(t, i) \in Path /\ file[Place(t, i)] # Absent
  BY AckedPlace, Zenon
<1>2. manifest'[t] = manifest[t]
  BY <1>1, History, Zenon
<1>3. Place(t, i)' = Place(t, i)
  <2>1. CASE manifest[t][i].isDir
    BY <1>2, <2>1, Zenon DEF Place
  <2>2. CASE ~manifest[t][i].isDir
    <3>1. slot[t][i] # NoPath
      BY <1>1, <2>2, ConstantsOK, Zenon DEF Place
    <3>2. slot'[t][i] = slot[t][i]
      BY <1>1, <3>1, History, Zenon
    <3> QED
      BY <1>2, <2>2, <3>2, Zenon DEF Place
  <2> QED
    BY <2>1, <2>2, Zenon
<1>4. file'[Place(t, i)] = file[Place(t, i)]
  <2>1. PICK p \in Path : p = Place(t, i) /\ file[p] # Absent
    BY <1>1, Zenon
  <2>2. file'[p] = file[p]
    BY <2>1, FileStep, Zenon
  <2> QED
    BY <2>1, <2>2, Zenon
<1> QED
  BY <1>3, <1>4, Zenon DEF Found

\* A step that completes no entry acknowledges nothing.
LEMMA AckedSame ==
  ASSUME IInv, NEW s \in Session, StepOf(s), UNCHANGED completed
  PROVE  AckedEntries' = AckedEntries
<1>1. \A t \in Session : \A i \in completed[t] : Found(t, i)' = Found(t, i)
  BY FoundStays
<1> QED
  BY <1>1, SMTT(30) DEF AckedEntries

\* A step that completes entry k of its session acknowledges just that entry.
LEMMA AckedGrows ==
  ASSUME IInv, NEW s \in Session, StepOf(s), NEW k,
         completed' = [completed EXCEPT ![s] = @ \cup {k}]
  PROVE  AckedEntries' = AckedEntries \cup {Found(s, k)'}
<1>1. \A t \in Session : \A i \in completed[t] : Found(t, i)' = Found(t, i)
  BY FoundStays
<1>2. \A t \in Session : completed'[t] = IF t = s THEN completed[t] \cup {k} ELSE completed[t]
  BY ZenonT(30) DEF IInv, TypeOK
<1> QED
  BY <1>1, <1>2, SMTT(30) DEF AckedEntries

\* What a step of a session does to the directory: nothing, a folder made at
\* a free name or found there, or the rename of a received file.
LEMMA FileForm ==
  ASSUME IInv, NEW s \in Session, StepOf(s)
  PROVE  \/ UNCHANGED file
         \/ \E d \in Path : file[d] \in {Absent, Dir} /\ file' = [file EXCEPT ![d] = Dir]
         \/ Rename(s)
<1>1. ASSUME NEW f \in PeerFrame, RecvResumeQuery(s, f) \/ RecvFileHeader(s, f)
      PROVE  \/ UNCHANGED file
             \/ \E d \in Path : file[d] \in {Absent, Dir} /\ file' = [file EXCEPT ![d] = Dir]
  <2>1. CASE UNCHANGED file \/ MkdirFails(manifest[s][f.idx].dir)
    BY <2>1, Zenon DEF MkdirFails, CanMkdir, Mkdir
  <2>2. ASSUME NEW q \in Path, InRange(s, f.idx), SlotFor(s, f.idx, q)
        PROVE  \/ UNCHANGED file
               \/ \E d \in Path : file[d] \in {Absent, Dir} /\ file' = [file EXCEPT ![d] = Dir]
    BY <2>2, Zenon DEF SlotFor, ReserveSlot, CanMkdir, Mkdir
  <2> QED
    BY <1>1, <2>1, <2>2, Slotting, Zenon
<1>2. ASSUME NEW f \in PeerFrame, RecvDirEnd(s, f)
      PROVE  \/ UNCHANGED file
             \/ \E d \in Path : file[d] \in {Absent, Dir} /\ file' = [file EXCEPT ![d] = Dir]
  BY <1>2, Zenon DEF RecvDirEnd, MkdirFails, CanMkdir, Mkdir
<1> QED
  BY <1>1, <1>2, ZenonT(30) DEF StepOf, Handle, Work, disk, rvars, StartSession,
     RecvProgress, RecvDirHeader, RecvSessionEnd, RecvUnexpected, RecvReadError,
     OpenPart, OpenFails, WritePartMeta, RecvChunk, ChunkFails, RecvFileEnd,
     RecvBadBody, RecvGarbled, RenameFails, FileDone, RemovePart, RemovePartMeta,
     CloseSession, Drop, PeerReads

\* Which steps complete an entry.
LEMMA CompletedForm ==
  ASSUME NEW s \in Session, StepOf(s)
  PROVE  \/ UNCHANGED completed
         \/ FileDone(s)
         \/ \E f \in PeerFrame : RecvDirEnd(s, f)
  BY ZenonT(30) DEF StepOf, Handle, Work, disk, rvars, StartSession,
     RecvProgress, RecvDirHeader, RecvSessionEnd, RecvUnexpected, RecvReadError,
     OpenPart, OpenFails, WritePartMeta, RecvChunk, ChunkFails, RecvFileEnd,
     RecvBadBody, RecvGarbled, RenameFails, RemovePart, RemovePartMeta,
     CloseSession, Drop, PeerReads, Rename, RecvResumeQuery, RecvFileHeader

\* Every step of a session is a step of Downloads, or changes nothing there.
LEMMA SessionRefines ==
  ASSUME IInv, NEW s \in Session, StepOf(s)
  PROVE  [D!DNext]_(D!dvars)
<1>1. TypeOK
  BY DEF IInv
<1> USE DEF D!dvars, D!DNext
<1>2. CASE UNCHANGED completed
  <2>1. AckedEntries' = AckedEntries
    BY <1>2, AckedSame
  <2>2. CASE UNCHANGED file
    BY <2>1, <2>2
  <2>3. ASSUME NEW d \in Path, file[d] \in {Absent, Dir}, file' = [file EXCEPT ![d] = Dir]
        PROVE  D!Receive(d) \/ UNCHANGED file
    <3>1. file'[d] = Dir /\ (file[d] = Dir => file' = file)
      BY <1>1, <2>3 DEF TypeOK
    <3> QED
      BY <2>1, <2>3, <3>1 DEF D!Receive, D!Appears
  <2>4. CASE Rename(s)
    <3>1. rpc[s] = "rename" /\ file' = [file EXCEPT ![Dest(s)] = part[Dest(s)]]
          /\ file[Dest(s)] # Dir
      BY <2>4 DEF Rename
    <3>2. Dest(s) \in Path /\ InRange(s, cur[s]) /\ ~Meta(s).isDir /\ cur[s] \notin completed[s]
      BY <3>1, Zenon DEF IInv, CurrentFile, Body
    <3>3. part[Dest(s)] \in Content /\ Fits(part[Dest(s)], Meta(s))
      BY <3>1, RenamedFits, Zenon
    <3>4. manifest[s] \in Manifest
      BY <3>1, SMTT(30) DEF IInv, SessionsWellFormed
    <3>5. part[Dest(s)] \in AnnouncedContents
      BY <3>2, <3>3, <3>4, Zenon DEF Meta, InRange, AnnouncedContents
    <3>6. file[Dest(s)] = Absent
      <4>1. cur[s] \in Index
        BY <3>2, <3>4, ConstantsOK, SMTT(30) DEF InRange, Index
      <4> QED
        BY <3>1, <3>2, <4>1, ConstantsOK, ZenonT(30) DEF IInv, NotYetThere, Active, Dest
    <3>7. file'[Dest(s)] = part[Dest(s)]
      BY <1>1, <3>1, <3>2 DEF TypeOK
    <3>8. D!Receive(Dest(s))
      BY <2>1, <3>1, <3>5, <3>6, <3>7, Zenon DEF D!Receive, D!Appears
    <3> QED
      BY <3>2, <3>8, Zenon
  <2> QED
    BY <2>1, <2>2, <2>3, <2>4, FileForm, Zenon
<1>3. CASE FileDone(s)
  <2>1. rpc[s] = "unmeta" /\ UNCHANGED <<file, manifest, slot>>
        /\ completed' = [completed EXCEPT ![s] = @ \cup {cur[s]}]
    BY <1>3, SMTT(30) DEF FileDone, session
  <2>2. Dest(s) \in Path /\ ~Meta(s).isDir /\ file[Dest(s)] # Absent
    BY <2>1, Zenon DEF IInv, CurrentFile, Body, Verified
  <2>3. PICK k : k = cur[s]
    OBVIOUS
  <2>4. AckedEntries' = AckedEntries \cup {Found(s, k)'}
    BY <2>1, <2>3, AckedGrows, ZenonT(30)
  <2>5. Found(s, k)' = <<Dest(s), file'[Dest(s)]>>
    BY <2>1, <2>2, <2>3, Zenon DEF Found, Place, Dest, Meta
  <2>6. D!Acknowledge(Dest(s))
    BY <2>1, <2>2, <2>4, <2>5, ZenonT(30) DEF D!Acknowledge
  <2> QED
    BY <2>2, <2>6, Zenon
<1>4. ASSUME NEW f \in PeerFrame, RecvDirEnd(s, f), ~UNCHANGED completed
      PROVE  \E d \in Path : D!Acknowledge(d)
  <2> DEFINE d == manifest[s][cur[s]].dir
  <2>1. /\ d \in Path /\ CanMkdir(d) /\ Mkdir(d) /\ UNCHANGED <<manifest, cur>>
        /\ completed' = [completed EXCEPT ![s] = @ \cup {cur[s]}]
        /\ rpc[s] = "dir_end"
    BY <1>4, ZenonT(30) DEF RecvDirEnd, session, progress
  <2>2. manifest[s][cur[s]].isDir
    BY <2>1, Zenon DEF IInv, CurrentFile, Meta
  <2>3. AckedEntries' = AckedEntries \cup {Found(s, cur[s])'}
    BY <2>1, AckedGrows, Zenon
  <2>4. Found(s, cur[s])' = <<d, file'[d]>>
    BY <2>1, <2>2, Zenon DEF Found, Place
  <2>5. file[d] \in {Absent, Dir} /\ file' = [file EXCEPT ![d] = Dir]
    BY <2>1, Zenon DEF CanMkdir, Mkdir
  <2> HIDE DEF d
  <2>6. file'[d] = Dir /\ (file[d] = Dir => file' = file)
    BY <1>1, <2>1, <2>5 DEF TypeOK
  <2>7. D!Acknowledge(d)
    BY <2>1, <2>3, <2>4, <2>5, <2>6, ConstantsOK DEF D!Acknowledge, D!Appears
  <2> QED
    BY <2>1, <2>7, Zenon
<1> QED
  BY <1>2, <1>3, <1>4, CompletedForm, Zenon

\* Receiver implements Downloads: seen from outside, receiving makes whole
\* files appear at free names and acknowledges only what is there.
THEOREM Refinement ==
  ASSUME Foreign = {}
  PROVE  Spec => ImplementsDownloads
<1>1. Init => D!DInit
  <2> SUFFICES ASSUME Init PROVE D!DInit
    OBVIOUS
  <2>1. AckedEntries = {}
    BY SMTT(30) DEF Init, AckedEntries
  <2> QED
    BY <2>1, SMTT(30) DEF Init, D!DInit
<1>2. IInv /\ [Next]_vars => [D!DNext]_(D!dvars)
  <2> SUFFICES ASSUME IInv, [Next]_vars
               PROVE  [D!DNext]_(D!dvars)
    OBVIOUS
  <2>1. ASSUME NEW s \in Session, StepOf(s)
        PROVE  [D!DNext]_(D!dvars)
    BY <2>1, SessionRefines
  <2>2. CASE Crash \/ UNCHANGED vars
    <3>1. UNCHANGED <<file, manifest, slot, completed>>
      BY <2>2, Zenon DEF Crash, disk, session, vars, rvars
    <3>2. AckedEntries' = AckedEntries
      BY <3>1 DEF AckedEntries, Found, Place
    <3> QED
      BY <3>1, <3>2 DEF D!dvars
  <2> QED
    BY <2>1, <2>2 DEF Next, StepOf
<1> QED
  BY <1>1, <1>2, Invariance, PTL DEF Spec, ImplementsDownloads, D!DSpec

\* What a sender was told is there stays there, and the directory shows
\* nothing but announced contents and folders.
THEOREM KeptAlways == D!DSpec => []D!Kept
<1> DEFINE Inv == D!Kept /\ \A e \in AckedEntries : e[1] \in Path /\ e[2] # Absent
<1>1. D!DInit => Inv
  BY DEF D!DInit, D!Kept
<1>2. Inv /\ [D!DNext]_(D!dvars) => Inv'
  <2> SUFFICES ASSUME Inv, [D!DNext]_(D!dvars)
               PROVE  Inv'
    OBVIOUS
  <2>1. /\ file \in [Path -> AnnouncedContents \cup {Dir, Absent}]
        /\ \A e \in AckedEntries : file[e[1]] = e[2] /\ e[1] \in Path /\ e[2] # Absent
    BY DEF D!Kept
  <2>2. ASSUME NEW p \in Path, D!Appears(p)
        PROVE  /\ file' \in [Path -> AnnouncedContents \cup {Dir, Absent}]
               /\ \A q \in Path : file[q] # Absent => file'[q] = file[q]
    <3>1. PICK c \in AnnouncedContents \cup {Dir, Absent} :
            file[p] = Absent /\ file' = [file EXCEPT ![p] = c]
      BY <2>2 DEF D!Appears
    <3> QED
      BY <2>1, <3>1
  <2>3. ASSUME NEW p \in Path, D!Receive(p)
        PROVE  Inv'
    <3>1. D!Appears(p) /\ AckedEntries' = AckedEntries
      BY <2>3 DEF D!Receive
    <3> QED
      BY <2>1, <2>2, <3>1 DEF D!Kept
  <2>4. ASSUME NEW p \in Path, D!Acknowledge(p)
        PROVE  Inv'
    <3>1. /\ UNCHANGED file \/ D!Appears(p)
          /\ file'[p] # Absent /\ AckedEntries' = AckedEntries \cup {<<p, file'[p]>>}
      BY <2>4 DEF D!Acknowledge
    <3>2. /\ file' \in [Path -> AnnouncedContents \cup {Dir, Absent}]
          /\ \A q \in Path : file[q] # Absent => file'[q] = file[q]
      BY <2>1, <2>2, <3>1
    <3> QED
      BY <2>1, <3>1, <3>2 DEF D!Kept
  <2>5. CASE UNCHANGED D!dvars
    BY <2>5 DEF D!Kept, D!dvars
  <2> QED
    BY <2>3, <2>4, <2>5, Zenon DEF D!DNext
<1>3. Inv => D!Kept
  OBVIOUS
<1> QED
  BY <1>1, <1>2, <1>3, PTL DEF D!DSpec

\* No step of receiving changes a name that is taken.
THEOREM SettledAlways == D!DSpec => D!Settled
<1> DEFINE Keeps == \A p \in Path : file[p] # Absent => file'[p] = file[p]
<1>1. D!Kept /\ [D!DNext]_(D!dvars) => [Keeps]_(D!dvars)
  <2> SUFFICES ASSUME D!Kept, D!DNext
               PROVE  Keeps
    OBVIOUS
  <2>1. file \in [Path -> AnnouncedContents \cup {Dir, Absent}]
    BY DEF D!Kept
  <2>2. UNCHANGED file \/ \E p \in Path : D!Appears(p)
    BY Zenon DEF D!DNext, D!Receive, D!Acknowledge
  <2> QED
    BY <2>1, <2>2 DEF D!Appears
<1> QED
  BY <1>1, KeptAlways, PTL DEF D!DSpec, D!Settled

\* With what Downloads promises: every acknowledged entry is there and stays,
\* and the directory shows nothing but whole announced files and folders.
THEOREM Promise ==
  ASSUME Foreign = {}
  PROVE  Spec => []D!Kept /\ D!Settled
<1>1. D!DSpec => []D!Kept /\ D!Settled
  BY KeptAlways, SettledAlways
<1> QED
  BY <1>1, Refinement, PTL DEF ImplementsDownloads
=============================================================================
