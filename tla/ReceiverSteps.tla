--------------------------- MODULE ReceiverSteps ----------------------------
(***************************************************************************)
(* Module Receiver keeps its types; what one step leaves alone; and the    *)
(* conjuncts of the inductive invariant about slots, frames, current files *)
(* and offsets.                                                            *)
(***************************************************************************)
EXTENDS Receiver, SequenceTheorems, TLAPS


-----------------------------------------------------------------------------
(* Facts about the operators *)

\* An index in range names a well-typed entry.
LEMMA EntryType ==
  ASSUME TypeOK, NEW s \in Session, NEW i, InRange(s, i)
  PROVE  i \in Index /\ manifest[s][i] \in Entry /\ manifest[s] \in Manifest
<1>1. manifest[s] \in Manifest
  BY DEF TypeOK, InRange
<1>2. manifest[s] \in Seq(Entry) /\ Len(manifest[s]) \in 1..MaxFiles
  BY <1>1, ConstantsOK
<1> QED
  BY <1>1, <1>2, ConstantsOK DEF InRange, Index

\* The size of a partial is a natural number.
LEMMA PartialBytesType ==
  ASSUME TypeOK, NEW p \in Path, NEW m \in Entry
  PROVE  PartialBytes(p, m) \in Nat
<1>1. CASE Resumable(p, m)
  <2>1. part[p] \in Content
    BY <1>1 DEF TypeOK, Resumable
  <2> QED
    BY <2>1 DEF PartialBytes, Content
<1>2. CASE ~Resumable(p, m)
  BY <1>2 DEF PartialBytes
<1> QED
  BY <1>1, <1>2

\* What slotFor and partialBytes do keeps the types.
LEMMA SlotForType ==
  ASSUME TypeOK, NEW s \in Session, NEW i, InRange(s, i), NEW p \in Path, SlotFor(s, i, p)
  PROVE  /\ file' \in [Path -> Content \cup {Absent, Dir}]
         /\ slots' \subseteq Path
         /\ slot' \in [Session -> [Index -> Path \cup {NoPath}]]
<1>1. i \in Index
  BY EntryType
<1>2. CASE UNCHANGED <<file, slots, slot>>
  BY <1>2 DEF TypeOK
<1>3. CASE ReserveSlot(s, i, p)
  <2>1. file' \in [Path -> Content \cup {Absent, Dir}]
    BY <1>3 DEF TypeOK, ReserveSlot, Mkdir
  <2>2. slots' \subseteq Path
    BY <1>3 DEF TypeOK, ReserveSlot
  <2>3. slot' = [slot EXCEPT ![s] = [slot[s] EXCEPT ![i] = p]]
    BY <1>3 DEF ReserveSlot
  <2>4. [slot[s] EXCEPT ![i] = p] \in [Index -> Path \cup {NoPath}]
    BY <1>1 DEF TypeOK
  <2> QED
    BY <2>1, <2>2, <2>3, <2>4 DEF TypeOK
<1> QED
  BY <1>2, <1>3 DEF SlotFor

\* A createDirectory that fails leaves the directory as it was, or made.
LEMMA MkdirFailsEffect ==
  ASSUME TypeOK, NEW d, MkdirFails(d)
  PROVE  /\ file' \in [Path -> Content \cup {Absent, Dir}]
         /\ \A q \in Path : file'[q] = file[q] \/ (file[q] \in {Absent, Dir} /\ file'[q] = Dir)
<1>1. CASE UNCHANGED file
  BY <1>1 DEF TypeOK
<1>2. CASE d \in Path /\ CanMkdir(d) /\ Mkdir(d)
  BY <1>2 DEF TypeOK, CanMkdir, Mkdir
<1> QED
  BY <1>1, <1>2, Zenon DEF MkdirFails

\* os.Remove removes the file or leaves everything as it is.
LEMMA RemovedForm ==
  ASSUME NEW g, NEW p, NEW h \in Removed(g, p)
  PROVE  h = g \/ h = [g EXCEPT ![p] = Absent]
BY DEF Removed

\* Removing a stale partial leaves partials and sidecars typed.
LEMMA RemoveStaleType ==
  ASSUME TypeOK, NEW p \in Path, NEW m, RemoveStale(p, m)
  PROVE  /\ part' \in [Path -> Content \cup {Absent}]
         /\ sidecar' \in [Path -> Content \cup {Absent}]
<1>1. part' = part \/ part' = [part EXCEPT ![p] = Absent]
  BY RemovedForm, Zenon DEF RemoveStale
<1>2. sidecar' = sidecar \/ sidecar' = [sidecar EXCEPT ![p] = Absent]
  BY RemovedForm, Zenon DEF RemoveStale
<1> QED
  BY <1>1, <1>2 DEF TypeOK

\* What the hasher is seeded with is the beginning of the partial, or all.
LEMMA SeededPrefix ==
  ASSUME TypeOK, OffsetFits, NEW s \in Session, rpc[s] = "open", offset[s] > 0,
         part[Dest(s)] \in Content, NEW k \in Seeded(offset[s])
  PROVE  LET c == SubSeq(part[Dest(s)], 1, k) IN
           /\ c \in Content /\ Len(c) <= offset[s] /\ offset[s] = Len(part[Dest(s)])
           /\ Len(c) = offset[s] => c = part[Dest(s)]
           /\ ~DiskErrors => Len(c) = offset[s]
<1> DEFINE p == part[Dest(s)]
<1>1. p \in Seq(Byte) /\ offset[s] = Len(p) /\ Len(p) \in Nat
  BY LenProperties DEF OffsetFits, Content
<1>2. k \in 0..Len(p) /\ (~DiskErrors => k = Len(p))
  BY <1>1, ConstantsOK DEF Seeded
<1> HIDE DEF p
<1>3. /\ SubSeq(p, 1, k) \in Seq(Byte) /\ Len(SubSeq(p, 1, k)) = k
      /\ k = Len(p) => SubSeq(p, 1, k) = p
  BY <1>1, <1>2
<1> QED
  BY <1>1, <1>2, <1>3 DEF p, Content

\* Writing a reply leaves a reply, or nothing, in every register.
LEMMA SendType ==
  ASSUME TypeOK, NEW s \in Session, NEW r \in Reply, Send(s, r)
  PROVE  reply' \in [Session -> Reply \cup {NoReply}]
BY DEF TypeOK, Send

\* A reply reaches the register of its session only, or none.
LEMMA SendEffect ==
  ASSUME TypeOK, NEW s \in Session, NEW r, Send(s, r)
  PROVE  reply'[s] = reply[s] \/ reply'[s] = r
BY DEF TypeOK, Send

\* The three replies are replies.
LEMMA ReplyTypes ==
  ASSUME NEW i \in Nat, NEW n \in Nat, NEW ok \in BOOLEAN
  PROVE  Offer(i, n) \in Reply /\ Ack(i, ok) \in Reply /\ Final(ok) \in Reply
BY DEF Offer, Ack, Final, Reply

\* Leaving receiveOneFile resets typed locals.
LEMMA ReturnType ==
  ASSUME TypeOK, NEW S, Return(S)
  PROVE  /\ cur' \in [Session -> Nat] /\ offset' \in [Session -> Nat]
         /\ got' \in [Session -> Nat] /\ hashed' \in [Session -> Content]
<1>1. <<>> \in Content
  BY DEF Content
<1> QED
  BY <1>1 DEF TypeOK, Return
-----------------------------------------------------------------------------
(* The type invariant is preserved *)

\* Every step of a session's goroutine, of its peer or of the disk keeps the
\* daemon's state and the download directory well typed.
LEMMA TypeStep ==
  ASSUME IInv, [Next]_vars
  PROVE  TypeOK'
<1> USE DEF disk, progress, session, net, GoTo
<1>t. TypeOK
  BY DEF IInv
<1>1. ASSUME NEW s \in Session, StartSession(s)
      PROVE  TypeOK'
  BY <1>t, <1>1, SMTT(30) DEF TypeOK, StartSession, RPC
<1>2. ASSUME NEW s \in Session, NEW f \in PeerFrame, RecvResumeQuery(s, f)
      PROVE  TypeOK'
  <2>1. f.idx \in Nat
    BY ConstantsOK DEF Frame
  <2>2. CASE \E p \in Path : /\ resume[s] /\ InRange(s, f.idx)
                             /\ SlotFor(s, f.idx, p)
                             /\ RemoveStale(p, manifest[s][f.idx])
                             /\ Send(s, Offer(f.idx, PartialBytes(p, manifest[s][f.idx])))
    <3> PICK p \in Path : /\ resume[s] /\ InRange(s, f.idx)
                          /\ SlotFor(s, f.idx, p)
                          /\ RemoveStale(p, manifest[s][f.idx])
                          /\ Send(s, Offer(f.idx, PartialBytes(p, manifest[s][f.idx])))
      BY <2>2, SMTT(30)
    <3>1. manifest[s][f.idx] \in Entry
      BY <1>t, EntryType
    <3>2. Offer(f.idx, PartialBytes(p, manifest[s][f.idx])) \in Reply
      BY <1>t, <2>1, <3>1, PartialBytesType, ReplyTypes, Zenon
    <3>3. reply' \in [Session -> Reply \cup {NoReply}]
      BY <1>t, <3>2, SendType, SMTT(30)
    <3> QED
      BY <1>t, <1>2, <3>3, SlotForType, RemoveStaleType, SMTT(30) DEF RecvResumeQuery, TypeOK
  <2>3. CASE /\ Send(s, Offer(f.idx, 0)) /\ UNCHANGED <<part, sidecar, slots, slot>>
             /\ UNCHANGED file \/ MkdirFails(manifest[s][f.idx].dir)
    <3>1. reply' \in [Session -> Reply \cup {NoReply}]
      BY <1>t, <2>1, <2>3, ReplyTypes, SendType, ZenonT(30)
    <3>2. file' \in [Path -> Content \cup {Absent, Dir}]
      BY <1>t, <2>3, MkdirFailsEffect, Zenon DEF TypeOK
    <3> QED
      BY <1>t, <1>2, <2>3, <3>1, <3>2 DEF RecvResumeQuery, TypeOK
  <2> QED
    BY <1>2, <2>2, <2>3, ZenonT(30) DEF RecvResumeQuery, SlotForFails
<1>3. ASSUME NEW s \in Session, NEW f \in PeerFrame, RecvProgress(s, f)
      PROVE  TypeOK'
  BY <1>t, <1>3 DEF TypeOK, RecvProgress, rvars
<1>4. ASSUME NEW s \in Session, NEW f \in PeerFrame, RecvDirHeader(s, f)
      PROVE  TypeOK'
  <2>1. f.idx \in Nat
    BY ConstantsOK DEF Frame
  <2> QED
    BY <1>t, <1>4, <2>1, SMTT(30) DEF RecvDirHeader, TypeOK, RPC
<1>5. ASSUME NEW s \in Session, NEW f \in PeerFrame, RecvDirEnd(s, f)
      PROVE  TypeOK'
  <2>1. InRange(s, cur[s]) /\ cur[s] \in Index /\ cur[s] \in Nat
    BY <1>t, <1>5, EntryType, Zenon DEF RecvDirEnd, IInv, CurrentFile, TypeOK
  <2>2. reply' \in [Session -> Reply \cup {NoReply}]
    <3>1. \E ok \in BOOLEAN : Send(s, Ack(cur[s], ok))
      BY <1>5, Zenon DEF RecvDirEnd
    <3> QED
      BY <1>t, <2>1, <3>1, ReplyTypes, SendType
  <2>3. file' \in [Path -> Content \cup {Absent, Dir}]
    <3>1. \/ UNCHANGED file \/ MkdirFails(manifest[s][cur[s]].dir)
          \/ Mkdir(manifest[s][cur[s]].dir)
      BY <1>5, Zenon DEF RecvDirEnd
    <3>2. CASE Mkdir(manifest[s][cur[s]].dir)
      BY <1>t, <3>2, Zenon DEF TypeOK, Mkdir
    <3> QED
      BY <1>t, <3>1, <3>2, MkdirFailsEffect, Zenon DEF TypeOK
  <2>4. completed' \in [Session -> SUBSET Index]
    <3>1. completed[s] \cup {cur[s]} \in SUBSET Index
      BY <1>t, <2>1 DEF TypeOK
    <3>2. \/ completed' = [completed EXCEPT ![s] = completed[s] \cup {cur[s]}]
          \/ completed' = completed
      BY <1>5, Zenon DEF RecvDirEnd
    <3> QED
      BY <1>t, <3>1, <3>2, Zenon DEF TypeOK
  <2>5. rpc' \in [Session -> RPC]
    BY <1>t, <1>5, Zenon DEF RecvDirEnd, TypeOK, RPC
  <2> QED
    BY <1>t, <1>5, <2>2, <2>3, <2>4, <2>5, SMTT(30) DEF RecvDirEnd, TypeOK
<1>6. ASSUME NEW s \in Session, NEW f \in PeerFrame, RecvFileHeader(s, f)
      PROVE  TypeOK'
  <2>1. f.idx \in Nat
    BY ConstantsOK DEF Frame
  <2>2. InRange(s, f.idx) /\ manifest[s][f.idx] \in Entry
    BY <1>t, <1>6, EntryType, SMTT(30) DEF RecvFileHeader
  <2>3. CASE /\ UNCHANGED <<part, sidecar, slots, slot, offset, cur>>
             /\ MkdirFails(manifest[s][f.idx].dir)
    <3>0. file' \in [Path -> Content \cup {Absent, Dir}]
      BY <1>t, <2>3, MkdirFailsEffect, Zenon
    <3>1. Send(s, Ack(f.idx, FALSE)) \/ UNCHANGED reply
      BY <1>6, <2>3, Zenon DEF RecvFileHeader
    <3>2. reply' \in [Session -> Reply \cup {NoReply}]
      BY <1>t, <2>1, <3>1, ReplyTypes, SendType, ZenonT(30) DEF TypeOK
    <3>3. rpc' \in [Session -> RPC]
      BY <1>t, <1>6, ZenonT(30) DEF RecvFileHeader, TypeOK, RPC, Body
    <3> QED
      BY <1>t, <1>6, <2>3, <3>0, <3>2, <3>3, SMTT(30) DEF RecvFileHeader, TypeOK
  <2>4. ASSUME NEW p \in Path, SlotFor(s, f.idx, p),
               \/ /\ offset' = [offset EXCEPT ![s] = PartialBytes(p, manifest[s][f.idx])]
                  /\ RemoveStale(p, manifest[s][f.idx])
               \/ /\ offset' = [offset EXCEPT ![s] = 0]
                  /\ UNCHANGED <<part, sidecar>>,
               cur' = [cur EXCEPT ![s] = f.idx],
               GoTo(s, "open"),
               UNCHANGED reply
        PROVE  TypeOK'
    <3>1. offset' \in [Session -> Nat]
      BY <1>t, <2>2, <2>4, PartialBytesType, SMTT(30) DEF TypeOK
    <3>2. /\ part' \in [Path -> Content \cup {Absent}]
          /\ sidecar' \in [Path -> Content \cup {Absent}]
      BY <1>t, <2>4, RemoveStaleType, SMTT(30) DEF TypeOK
    <3>3. cur' \in [Session -> Nat] /\ rpc' \in [Session -> RPC]
      BY <1>t, <2>1, <2>4 DEF TypeOK, RPC, Body
    <3> QED
      BY <1>t, <1>6, <2>2, <2>4, <3>1, <3>2, <3>3, SlotForType, SMTT(30) DEF RecvFileHeader, TypeOK
  <2> QED
    BY <1>6, <2>3, <2>4, ZenonT(30) DEF RecvFileHeader, SlotForFails
<1>7. ASSUME NEW s \in Session, NEW f \in PeerFrame, RecvSessionEnd(s, f)
      PROVE  TypeOK'
  <2>1. PICK ok \in BOOLEAN : Send(s, Final(ok))
    BY <1>7, Zenon DEF RecvSessionEnd
  <2>2. reply' \in [Session -> Reply \cup {NoReply}]
    BY <1>t, <2>1, ReplyTypes, SendType, SMTT(30)
  <2> QED
    BY <1>t, <1>7, <2>2, Zenon DEF RecvSessionEnd, TypeOK, RPC
<1>8. ASSUME NEW s \in Session, NEW f \in PeerFrame, RecvUnexpected(s, f)
      PROVE  TypeOK'
  BY <1>t, <1>8 DEF TypeOK, RecvUnexpected, RPC
<1>9. ASSUME NEW s \in Session, RecvReadError(s)
      PROVE  TypeOK'
  BY <1>t, <1>9 DEF TypeOK, RecvReadError, RPC
<1>10. ASSUME NEW s \in Session, OpenPart(s)
      PROVE  TypeOK'
  <2>1. Dest(s) \in Path
    BY <1>10, SMTT(30) DEF OpenPart, IInv, CurrentFile, Body
  <2>2. offset[s] > 0 => part[Dest(s)] \in Content
    BY <1>t, <1>10, <2>1, SMTT(30) DEF OpenPart, IInv, OffsetFits, TypeOK
  <2>3. <<>> \in Content
    BY DEF Content
  <2>4. part' \in [Path -> Content \cup {Absent}]
    BY <1>t, <1>10, <2>1, <2>3, ZenonT(30) DEF OpenPart, TypeOK
  <2>5. PICK c \in Content : hashed' = [hashed EXCEPT ![s] = c]
    <3>1. CASE offset[s] > 0
      <4>1. PICK k \in Seeded(offset[s]) :
              hashed' = [hashed EXCEPT ![s] = SubSeq(part[Dest(s)], 1, k)]
        BY <1>10, <3>1, Zenon DEF OpenPart
      <4>2. SubSeq(part[Dest(s)], 1, k) \in Content
        BY <1>10, <2>2, <3>1, <4>1, SeededPrefix DEF OpenPart, IInv
      <4> QED
        BY <4>1, <4>2, Zenon
    <3> QED
      BY <1>10, <2>3, <3>1, Zenon DEF OpenPart
  <2> QED
    BY <1>t, <1>10, <2>4, <2>5, SMTT(30) DEF OpenPart, TypeOK, RPC, Body
<1>11. ASSUME NEW s \in Session, OpenFails(s)
      PROVE  TypeOK'
  <2>1. reply' \in [Session -> Reply \cup {NoReply}]
    BY <1>t, <1>11, ReplyTypes, SendType, Zenon DEF OpenFails, FailFile, TypeOK
  <2> QED
    BY <1>t, <1>11, <2>1, Zenon DEF OpenFails, FailFile, TypeOK, RPC
<1>12. ASSUME NEW s \in Session, WritePartMeta(s)
      PROVE  TypeOK'
  <2>1. Meta(s).sha \in Content
    BY <1>t, <1>12, EntryType, SMTT(30) DEF WritePartMeta, IInv, CurrentFile, Body, Meta, Entry
  <2>2. Dest(s) \in Path
    BY <1>12, Zenon DEF WritePartMeta, IInv, CurrentFile, Body
  <2>3. PICK c \in Content \cup {Absent} : sidecar' = [sidecar EXCEPT ![Dest(s)] = c]
    <3>1. PICK c \in {Meta(s).sha, sidecar[Dest(s)], Absent} :
            sidecar' = [sidecar EXCEPT ![Dest(s)] = c]
      BY <1>12 DEF WritePartMeta
    <3>2. c \in Content \cup {Absent}
      BY <1>t, <2>1, <2>2 DEF TypeOK
    <3> QED
      BY <3>1, <3>2, Zenon
  <2> QED
    BY <1>t, <1>12, <2>3, ZenonT(30) DEF WritePartMeta, TypeOK, RPC, Body
<1>13. ASSUME NEW s \in Session, NEW f \in PeerFrame, RecvChunk(s, f)
      PROVE  TypeOK'
  <2>1. f.data \in Content /\ Len(f.data) \in Nat
    BY ConstantsOK DEF Frame, Content
  <2>2. Dest(s) \in Path /\ part[Dest(s)] \in Content
    BY <1>t, <1>13, Zenon DEF RecvChunk, IInv, CurrentFile, HasherMatchesDisk, Body, TypeOK
  <2>3. hashed[s] \o f.data \in Content /\ part[Dest(s)] \o f.data \in Content
    BY <1>t, <2>1, <2>2, ConcatProperties DEF TypeOK, Content
  <2> QED
    BY <1>t, <1>13, <2>1, <2>2, <2>3, SMTT(30) DEF RecvChunk, TypeOK
<1>14. ASSUME NEW s \in Session, NEW f \in PeerFrame, ChunkFails(s, f)
      PROVE  TypeOK'
  <2>1. PICK k \in 0..(Len(f.data) - 1) :
          part' = [part EXCEPT ![Dest(s)] = @ \o SubSeq(f.data, 1, k)]
    BY <1>14, Zenon DEF ChunkFails
  <2>2. f.data \in Content
    BY ConstantsOK DEF Frame
  <2>3. SubSeq(f.data, 1, k) \in Content
    BY <2>2, SMTT(30) DEF Content
  <2>4. part[Dest(s)] \in Content
    BY <1>t, <1>14, Zenon DEF ChunkFails, IInv, CurrentFile, HasherMatchesDisk, Body, TypeOK
  <2>5. part[Dest(s)] \o SubSeq(f.data, 1, k) \in Content
    BY <2>3, <2>4, ConcatProperties DEF Content
  <2>6. reply' \in [Session -> Reply \cup {NoReply}]
    BY <1>t, <1>14, ReplyTypes, SendType, Zenon DEF ChunkFails, FailFile, TypeOK
  <2>7. part' \in [Path -> Content \cup {Absent}]
    BY <1>t, <2>1, <2>5, ZenonT(30) DEF TypeOK
  <2> QED
    BY <1>t, <1>14, <2>6, <2>7, Zenon DEF ChunkFails, FailFile, TypeOK, RPC
<1>15. ASSUME NEW s \in Session, NEW f \in PeerFrame, RecvFileEnd(s, f)
      PROVE  TypeOK'
  BY <1>t, <1>15, SMTT(30) DEF TypeOK, RecvFileEnd, RPC, Body
<1>16. ASSUME NEW s \in Session, NEW f \in PeerFrame, RecvBadBody(s, f)
      PROVE  TypeOK'
  BY <1>t, <1>16 DEF TypeOK, RecvBadBody, RPC, Body
<1>17. ASSUME NEW s \in Session, NEW f \in PeerFrame, RecvGarbled(s, f)
      PROVE  TypeOK'
  <2>1. reply' \in [Session -> Reply \cup {NoReply}]
    BY <1>t, <1>17, ReplyTypes, SendType, Zenon DEF RecvGarbled, FailFile, TypeOK
  <2> QED
    BY <1>t, <1>17, <2>1, Zenon DEF RecvGarbled, FailFile, TypeOK, RPC
<1>18. ASSUME NEW s \in Session, Rename(s)
      PROVE  TypeOK'
  <2>1. part[Dest(s)] \in Content
    BY <1>t, <1>18, Zenon DEF Rename, IInv, CurrentFile, HasherMatchesDisk, Body, TypeOK
  <2> QED
    BY <1>t, <1>18, <2>1, ZenonT(30) DEF Rename, TypeOK, RPC, Body
<1>19. ASSUME NEW s \in Session, RenameFails(s)
      PROVE  TypeOK'
  BY <1>t, <1>19, SMTT(30) DEF TypeOK, RenameFails, RPC, Body
<1>20. ASSUME NEW s \in Session, FileDone(s)
      PROVE  TypeOK'
  <2>1. cur[s] \in Index /\ cur[s] \in Nat
    BY <1>t, <1>20, EntryType, Zenon DEF FileDone, IInv, CurrentFile, Body, TypeOK
  <2>2. reply' \in [Session -> Reply \cup {NoReply}]
    BY <1>t, <1>20, <2>1, ReplyTypes, SendType, Zenon DEF FileDone
  <2>3. sidecar' \in [Path -> Content \cup {Absent}]
    BY <1>t, <1>20, RemovedForm, Zenon DEF FileDone, TypeOK
  <2> QED
    BY <1>t, <1>20, <2>1, <2>2, <2>3, ReturnType, ZenonT(30) DEF FileDone, TypeOK, RPC
<1>21. ASSUME NEW s \in Session, RemovePart(s)
      PROVE  TypeOK'
  <2>1. part' \in [Path -> Content \cup {Absent}]
    BY <1>t, <1>21, RemovedForm, Zenon DEF RemovePart, TypeOK
  <2> QED
    BY <1>t, <1>21, <2>1, Zenon DEF TypeOK, RemovePart, RPC, Body
<1>22. ASSUME NEW s \in Session, RemovePartMeta(s)
      PROVE  TypeOK'
  <2>1. reply' \in [Session -> Reply \cup {NoReply}]
    BY <1>t, <1>22, ReplyTypes, SendType, ZenonT(30) DEF RemovePartMeta, FailFile, TypeOK
  <2>2. sidecar' \in [Path -> Content \cup {Absent}]
    BY <1>t, <1>22, RemovedForm, Zenon DEF RemovePartMeta, TypeOK
  <2> QED
    BY <1>t, <1>22, <2>1, <2>2, Zenon DEF RemovePartMeta, FailFile, TypeOK, RPC, Body
<1>23. ASSUME NEW s \in Session, CloseSession(s)
      PROVE  TypeOK'
  BY <1>t, <1>23, ReturnType, SMTT(30) DEF CloseSession, TypeOK, RPC
<1>24. ASSUME NEW s \in Session, Drop(s)
      PROVE  TypeOK'
  BY <1>t, <1>24 DEF TypeOK, Drop, rvars
<1>25. ASSUME NEW s \in Session, PeerReads(s)
      PROVE  TypeOK'
  BY <1>t, <1>25, SMTT(30) DEF TypeOK, PeerReads, rvars
<1>26. ASSUME NEW p \in Foreign, ForeignCreate(p)
      PROVE  TypeOK'
  <2>1. \A b \in Byte : <<b>> \in Content
    BY DEF Content
  <2> QED
    BY <1>t, <1>26, <2>1, Zenon DEF ForeignCreate, TypeOK
<1>27. CASE Crash
  BY <1>t, <1>27, ReturnType, SMTT(30) DEF Crash, TypeOK, RPC
<1>28. CASE UNCHANGED vars
  BY <1>t, <1>28, SMTT(30) DEF TypeOK, vars, rvars
<1> QED
  BY <1>1, <1>2, <1>3, <1>4, <1>5, <1>6, <1>7, <1>8, <1>9, <1>10, <1>11, <1>12, <1>13,
     <1>14, <1>15, <1>16, <1>17, <1>18, <1>19, <1>20, <1>21, <1>22, <1>23, <1>24, <1>25,
     <1>26, <1>27, <1>28, SMTT(30)
     DEF Next, Handle, Work


-----------------------------------------------------------------------------
(* What a step of one session leaves alone *)

StepOf(s) ==
  \/ StartSession(s) \/ Work(s) \/ RecvReadError(s) \/ Drop(s) \/ PeerReads(s)
  \/ \E f \in PeerFrame : Handle(s, f)

\* The variables of session t.
Local(t) == <<rpc[t], manifest[t], resume[t], slot[t], completed[t],
              cur[t], offset[t], got[t], hashed[t], up[t], reply[t]>>

\* slotFor in session s leaves the slots of the others alone.
LEMMA SlotForOthers ==
  ASSUME TypeOK, NEW s \in Session, NEW t \in Session, s # t,
         NEW i, NEW p, SlotFor(s, i, p)
  PROVE  slot'[t] = slot[t]
BY SMTT(30) DEF TypeOK, SlotFor, ReserveSlot

\* A session's goroutine does not touch another session's variables.
LEMMA OthersUnchanged ==
  ASSUME TypeOK, NEW s \in Session, NEW t \in Session, s # t, StepOf(s)
  PROVE  Local(t)' = Local(t)
<1> USE DEF TypeOK, disk, progress, session, net, rvars, GoTo, Send, FailFile, Return, Local
<1>1. ASSUME StartSession(s)
      PROVE  Local(t)' = Local(t)
  BY <1>1, Zenon DEF StartSession
<1>2. ASSUME NEW f \in PeerFrame, RecvResumeQuery(s, f)
      PROVE  Local(t)' = Local(t)
  <2>1. slot'[t] = slot[t]
    BY <1>2, SlotForOthers, Zenon DEF RecvResumeQuery, SlotForFails
  <2>2. reply'[t] = reply[t]
    BY <1>2, ZenonT(30) DEF RecvResumeQuery
  <2> QED
    BY <1>2, <2>1, <2>2, ZenonT(30) DEF RecvResumeQuery
<1>3. ASSUME NEW f \in PeerFrame, RecvProgress(s, f)
      PROVE  Local(t)' = Local(t)
  BY <1>3 DEF RecvProgress
<1>4. ASSUME NEW f \in PeerFrame, RecvDirHeader(s, f)
      PROVE  Local(t)' = Local(t)
  BY <1>4 DEF RecvDirHeader
<1>5. ASSUME NEW f \in PeerFrame, RecvDirEnd(s, f)
      PROVE  Local(t)' = Local(t)
  BY <1>5, Zenon DEF RecvDirEnd
<1>6. ASSUME NEW f \in PeerFrame, RecvFileHeader(s, f)
      PROVE  Local(t)' = Local(t)
  <2>1. slot'[t] = slot[t]
    BY <1>6, SlotForOthers, Zenon DEF RecvFileHeader, SlotForFails
  <2>2. offset'[t] = offset[t] /\ cur'[t] = cur[t]
    BY <1>6, Zenon DEF RecvFileHeader
  <2>3. rpc'[t] = rpc[t] /\ reply'[t] = reply[t]
    BY <1>6, ZenonT(30) DEF RecvFileHeader
  <2> QED
    BY <1>6, <2>1, <2>2, <2>3, SMTT(30) DEF RecvFileHeader
<1>7. ASSUME NEW f \in PeerFrame, RecvSessionEnd(s, f)
      PROVE  Local(t)' = Local(t)
  BY <1>7 DEF RecvSessionEnd
<1>8. ASSUME NEW f \in PeerFrame, RecvUnexpected(s, f)
      PROVE  Local(t)' = Local(t)
  BY <1>8 DEF RecvUnexpected
<1>9. ASSUME RecvReadError(s)
      PROVE  Local(t)' = Local(t)
  BY <1>9 DEF RecvReadError
<1>10. ASSUME OpenPart(s)
      PROVE  Local(t)' = Local(t)
  BY <1>10 DEF OpenPart
<1>11. ASSUME OpenFails(s)
      PROVE  Local(t)' = Local(t)
  BY <1>11, Zenon DEF OpenFails
<1>12. ASSUME WritePartMeta(s)
      PROVE  Local(t)' = Local(t)
  BY <1>12 DEF WritePartMeta
<1>13. ASSUME NEW f \in PeerFrame, RecvChunk(s, f)
      PROVE  Local(t)' = Local(t)
  BY <1>13, SMTT(30) DEF RecvChunk
<1>14. ASSUME NEW f \in PeerFrame, ChunkFails(s, f)
      PROVE  Local(t)' = Local(t)
  BY <1>14, Zenon DEF ChunkFails
<1>15. ASSUME NEW f \in PeerFrame, RecvFileEnd(s, f)
      PROVE  Local(t)' = Local(t)
  BY <1>15 DEF RecvFileEnd
<1>16. ASSUME NEW f \in PeerFrame, RecvBadBody(s, f)
      PROVE  Local(t)' = Local(t)
  BY <1>16 DEF RecvBadBody
<1>17. ASSUME NEW f \in PeerFrame, RecvGarbled(s, f)
      PROVE  Local(t)' = Local(t)
  BY <1>17, Zenon DEF RecvGarbled
<1>18. ASSUME Rename(s)
      PROVE  Local(t)' = Local(t)
  BY <1>18 DEF Rename
<1>19. ASSUME RenameFails(s)
      PROVE  Local(t)' = Local(t)
  BY <1>19 DEF RenameFails
<1>20. ASSUME FileDone(s)
      PROVE  Local(t)' = Local(t)
  BY <1>20, Zenon DEF FileDone
<1>21. ASSUME RemovePart(s)
      PROVE  Local(t)' = Local(t)
  BY <1>21 DEF RemovePart
<1>22. ASSUME RemovePartMeta(s)
      PROVE  Local(t)' = Local(t)
  BY <1>22, Zenon DEF RemovePartMeta
<1>23. ASSUME CloseSession(s)
      PROVE  Local(t)' = Local(t)
  BY <1>23, Zenon DEF CloseSession
<1>24. ASSUME Drop(s)
      PROVE  Local(t)' = Local(t)
  BY <1>24, ZenonT(30) DEF Drop
<1>25. ASSUME PeerReads(s)
      PROVE  Local(t)' = Local(t)
  BY <1>25 DEF PeerReads
<1> QED
  BY <1>1, <1>2, <1>3, <1>4, <1>5, <1>6, <1>7, <1>8, <1>9, <1>10, <1>11, <1>12, <1>13,
     <1>14, <1>15, <1>16, <1>17, <1>18, <1>19, <1>20, <1>21, <1>22, <1>23, <1>24, <1>25, Zenon
     DEF StepOf, Handle, Work

\* The two handlers that call slotFor, in one form.
LEMMA Slotting ==
  ASSUME NEW s \in Session, NEW f \in PeerFrame,
         RecvResumeQuery(s, f) \/ RecvFileHeader(s, f)
  PROVE  /\ rpc[s] = "loop"
         /\ UNCHANGED <<session, completed, got, hashed, up>>
         /\ \/ /\ UNCHANGED <<part, sidecar, slots, slot>>
               /\ UNCHANGED file \/ MkdirFails(manifest[s][f.idx].dir)
            \/ \E p \in Path : /\ InRange(s, f.idx)
                               /\ SlotFor(s, f.idx, p)
                               /\ \/ RemoveStale(p, manifest[s][f.idx])
                                  \/ UNCHANGED <<part, sidecar>>
<1> USE DEF disk, progress
<1>1. CASE RecvResumeQuery(s, f)
  BY <1>1, ZenonT(30) DEF RecvResumeQuery, SlotForFails
<1>2. CASE RecvFileHeader(s, f)
  BY <1>2, ZenonT(30) DEF RecvFileHeader, SlotForFails
<1> QED
  BY <1>1, <1>2, Zenon

\* slotFor and slots: the slot of index i is p, and either it was or p was
\* free and is claimed now.
LEMMA SlotForEffect ==
  ASSUME TypeOK, NEW s \in Session, NEW i \in Index, NEW p \in Path, SlotFor(s, i, p)
  PROVE  /\ slot'[s][i] = p
         /\ \A j \in Index : j # i => slot'[s][j] = slot[s][j]
         /\ \/ slot[s][i] = p /\ UNCHANGED <<file, slots, slot>>
            \/ /\ slot[s][i] = NoPath /\ file[p] = Absent /\ p \notin slots
               /\ slots' = slots \cup {p}
         /\ \A q \in Path : file'[q] = file[q] \/ (file[q] \in {Absent, Dir} /\ file'[q] = Dir)
<1>1. CASE slot[s][i] = p /\ UNCHANGED <<file, slots, slot>>
  BY <1>1, Zenon
<1>2. CASE slot[s][i] = NoPath /\ ReserveSlot(s, i, p)
  <2>1. /\ slot'[s][i] = p
        /\ \A j \in Index : j # i => slot'[s][j] = slot[s][j]
    BY <1>2, SMTT(30) DEF TypeOK, ReserveSlot
  <2>2. file[p] = Absent /\ p \notin slots /\ slots' = slots \cup {p}
    BY <1>2, Zenon DEF ReserveSlot, UniquePath, FreePath
  <2>3. \A q \in Path : file'[q] = file[q] \/ (file[q] \in {Absent, Dir} /\ file'[q] = Dir)
    BY <1>2, SMTT(30) DEF TypeOK, ReserveSlot, CanMkdir, Mkdir
  <2> QED
    BY <1>2, <2>1, <2>2, <2>3, SMTT(30)
<1> QED
  BY <1>1, <1>2, Zenon DEF SlotFor

\* A path changes only from absent to a directory, or to the file renamed
\* into place there.
LEMMA FileStep ==
  ASSUME IInv, NEW s \in Session, StepOf(s), NEW p \in Path
  PROVE  \/ file'[p] = file[p]
         \/ file[p] = Absent /\ file'[p] = Dir
         \/ file[p] = Absent /\ Rename(s) /\ p = Dest(s)
<1> DEFINE Goal == \/ file'[p] = file[p]
                   \/ file[p] = Absent /\ file'[p] = Dir
                   \/ file[p] = Absent /\ Rename(s) /\ p = Dest(s)
<1>1. TypeOK
  BY DEF IInv
<1>2. ASSUME NEW f \in PeerFrame, RecvResumeQuery(s, f) \/ RecvFileHeader(s, f)
      PROVE  Goal
  <2>1. CASE UNCHANGED file \/ MkdirFails(manifest[s][f.idx].dir)
    BY <1>1, <2>1, MkdirFailsEffect, Zenon
  <2>2. ASSUME NEW q \in Path, InRange(s, f.idx), SlotFor(s, f.idx, q)
        PROVE  Goal
    BY <1>1, <2>2, EntryType, SlotForEffect, ZenonT(30)
  <2> QED
    BY <1>2, <2>1, <2>2, Slotting, Zenon
<1>3. ASSUME NEW f \in PeerFrame, RecvDirEnd(s, f)
      PROVE  Goal
  <2>1. CASE UNCHANGED file \/ MkdirFails(manifest[s][cur[s]].dir)
    BY <1>1, <2>1, MkdirFailsEffect, Zenon
  <2>2. CASE CanMkdir(manifest[s][cur[s]].dir) /\ Mkdir(manifest[s][cur[s]].dir)
    BY <1>1, <2>2, SMTT(30) DEF CanMkdir, Mkdir, TypeOK
  <2> QED
    BY <1>3, <2>1, <2>2, ZenonT(30) DEF RecvDirEnd
<1>4. CASE Rename(s)
  <2>1. /\ Dest(s) \in Path /\ cur[s] \in Index /\ cur[s] \notin completed[s]
        /\ rpc[s] = "rename" /\ Dest(s) # NoPath
    BY <1>1, <1>4, EntryType, ConstantsOK, Zenon DEF Rename, IInv, CurrentFile, Body
  <2>2. file[Dest(s)] \in {Absent, Dir}
    BY <2>1, Zenon DEF IInv, NotYetThere, Active, Dest
  <2> QED
    BY <1>1, <1>4, <2>1, <2>2, SMTT(30) DEF Rename, TypeOK
<1>5. CASE UNCHANGED file
  BY <1>5
<1>6. \/ Rename(s) \/ UNCHANGED file
      \/ \E f \in PeerFrame : RecvResumeQuery(s, f) \/ RecvFileHeader(s, f) \/ RecvDirEnd(s, f)
  BY ZenonT(30) DEF StepOf, Handle, Work, disk, progress, session, net, rvars, FailFile,
         StartSession, RecvProgress, RecvDirHeader, RecvSessionEnd, RecvUnexpected,
         RecvReadError, OpenPart, OpenFails, WritePartMeta, RecvChunk, ChunkFails,
         RecvFileEnd, RecvBadBody, RecvGarbled, RenameFails, FileDone, RemovePart,
         RemovePartMeta, CloseSession, Drop, PeerReads
<1> QED
  BY <1>2, <1>3, <1>4, <1>5, <1>6

\* A partial changes only if it is the one of a slot the session holds.
LEMMA PartStep ==
  ASSUME IInv, NEW s \in Session, StepOf(s), NEW p \in Path, part'[p] # part[p]
  PROVE  Active(s)' /\ \E i \in Index : slot'[s][i] = p
<1>1. TypeOK
  BY Zenon DEF IInv
<1>2. ASSUME NEW f \in PeerFrame, RecvResumeQuery(s, f) \/ RecvFileHeader(s, f)
      PROVE  Active(s)' /\ \E i \in Index : slot'[s][i] = p
  <2>1. ~UNCHANGED <<part, sidecar, slots, slot>>
    OBVIOUS
  <2>2. PICK q \in Path : /\ InRange(s, f.idx)
                          /\ SlotFor(s, f.idx, q)
                          /\ \/ RemoveStale(q, manifest[s][f.idx])
                             \/ UNCHANGED <<part, sidecar>>
    BY <1>2, <2>1, Slotting, Zenon
  <2>3. q = p
    <3>1. part' = part \/ part' = [part EXCEPT ![q] = Absent]
      BY <2>2, RemovedForm, Zenon DEF RemoveStale
    <3> QED
      BY <1>1, <3>1 DEF TypeOK
  <2>4. f.idx \in Index /\ slot'[s][f.idx] = q
    BY <1>1, <2>2, EntryType, SlotForEffect, ZenonT(30)
  <2>5. rpc'[s] \in {"loop", "open", "closing"}
    BY <1>1, <1>2, Zenon DEF RecvResumeQuery, RecvFileHeader, GoTo, TypeOK
  <2> QED
    BY <2>3, <2>4, <2>5, Zenon DEF Active
<1>3. ASSUME rpc[s] \in Body, part' = [part EXCEPT ![Dest(s)] = part'[Dest(s)]],
             slot' = slot, rpc'[s] \notin {"idle", "closed"}
      PROVE  Active(s)' /\ \E i \in Index : slot'[s][i] = p
  <2>1. Dest(s) = p /\ InRange(s, cur[s])
    BY <1>1, <1>3, ZenonT(30) DEF TypeOK, IInv, CurrentFile
  <2> QED
    BY <1>1, <1>3, <2>1, EntryType, ZenonT(30) DEF Active, Dest
<1>4. \/ \E f \in PeerFrame : \/ RecvResumeQuery(s, f) \/ RecvFileHeader(s, f)
                             \/ RecvChunk(s, f) \/ ChunkFails(s, f)
      \/ OpenPart(s) \/ Rename(s) \/ RemovePart(s)
  BY Zenon DEF StepOf, Handle, Work, disk, progress, session, net, rvars,
         StartSession, RecvProgress, RecvDirHeader, RecvDirEnd, RecvSessionEnd,
         RecvUnexpected, RecvReadError, OpenFails, WritePartMeta, RecvFileEnd,
         RecvBadBody, RecvGarbled, RenameFails, FileDone, RemovePartMeta,
         CloseSession, Drop, PeerReads
<1>5. ASSUME NEW f \in PeerFrame, RecvChunk(s, f) \/ ChunkFails(s, f)
      PROVE  Active(s)' /\ \E i \in Index : slot'[s][i] = p
  BY <1>1, <1>3, <1>5, ZenonT(30) DEF RecvChunk, ChunkFails, FailFile, GoTo, TypeOK, Body
<1>6. CASE OpenPart(s) \/ Rename(s)
  BY <1>1, <1>3, <1>6, ZenonT(30) DEF OpenPart, Rename, GoTo, TypeOK, Body
<1>7. CASE RemovePart(s)
  <2>1. part' = [part EXCEPT ![Dest(s)] = Absent]
    BY <1>7, RemovedForm, Zenon DEF RemovePart
  <2> QED
    BY <1>1, <1>3, <1>7, <2>1, ZenonT(30) DEF RemovePart, GoTo, TypeOK, Body
<1> QED
  BY <1>2, <1>4, <1>5, <1>6, <1>7, Zenon

\* All steps but four leave claims and manifests alone and neither start nor
\* end a session.
LEMMA Quiet ==
  ASSUME TypeOK, NEW s \in Session, StepOf(s)
  PROVE  \/ StartSession(s) \/ CloseSession(s)
         \/ \E f \in PeerFrame : RecvResumeQuery(s, f) \/ RecvFileHeader(s, f)
         \/ /\ UNCHANGED <<slots, slot, manifest>>
            /\ Active(s)' = Active(s)
            /\ rpc'[s] = rpc[s] \/ (Active(s) /\ Active(s)')
<1> DEFINE Goal == /\ UNCHANGED <<slots, slot, manifest>>
                   /\ Active(s)' = Active(s)
                   /\ rpc'[s] = rpc[s] \/ (Active(s) /\ Active(s)')
<1> USE DEF TypeOK, disk, progress, session, net, rvars, GoTo, FailFile, Active
<1>1. ASSUME NEW f \in PeerFrame, RecvProgress(s, f)
      PROVE  Goal
  BY <1>1 DEF RecvProgress
<1>2. ASSUME NEW f \in PeerFrame, RecvDirHeader(s, f)
      PROVE  Goal
  BY <1>2, SMTT(30) DEF RecvDirHeader
<1>3. ASSUME NEW f \in PeerFrame, RecvDirEnd(s, f)
      PROVE  Goal
  BY <1>3, Zenon DEF RecvDirEnd
<1>4. ASSUME NEW f \in PeerFrame, RecvSessionEnd(s, f)
      PROVE  Goal
  BY <1>4 DEF RecvSessionEnd
<1>5. ASSUME NEW f \in PeerFrame, RecvUnexpected(s, f)
      PROVE  Goal
  BY <1>5 DEF RecvUnexpected
<1>6. ASSUME RecvReadError(s)
      PROVE  Goal
  BY <1>6 DEF RecvReadError
<1>7. ASSUME OpenPart(s)
      PROVE  Goal
  BY <1>7, SMTT(30) DEF OpenPart
<1>8. ASSUME OpenFails(s)
      PROVE  Goal
  BY <1>8 DEF OpenFails
<1>9. ASSUME WritePartMeta(s)
      PROVE  Goal
  BY <1>9, SMTT(30) DEF WritePartMeta
<1>10. ASSUME NEW f \in PeerFrame, RecvChunk(s, f)
      PROVE  Goal
  BY <1>10, Zenon DEF RecvChunk
<1>11. ASSUME NEW f \in PeerFrame, ChunkFails(s, f)
      PROVE  Goal
  BY <1>11, ZenonT(30) DEF ChunkFails
<1>12. ASSUME NEW f \in PeerFrame, RecvFileEnd(s, f)
      PROVE  Goal
  BY <1>12, SMTT(30) DEF RecvFileEnd
<1>13. ASSUME NEW f \in PeerFrame, RecvBadBody(s, f)
      PROVE  Goal
  BY <1>13 DEF RecvBadBody
<1>14. ASSUME NEW f \in PeerFrame, RecvGarbled(s, f)
      PROVE  Goal
  BY <1>14 DEF RecvGarbled
<1>15. ASSUME Rename(s)
      PROVE  Goal
  BY <1>15, SMTT(30) DEF Rename
<1>16. ASSUME RenameFails(s)
      PROVE  Goal
  BY <1>16, SMTT(30) DEF RenameFails
<1>17. ASSUME FileDone(s)
      PROVE  Goal
  BY <1>17, SMTT(30) DEF FileDone
<1>18. ASSUME RemovePart(s)
      PROVE  Goal
  BY <1>18 DEF RemovePart
<1>19. ASSUME RemovePartMeta(s)
      PROVE  Goal
  BY <1>19 DEF RemovePartMeta
<1>20. ASSUME Drop(s)
      PROVE  Goal
  BY <1>20, SMTT(30) DEF Drop
<1>21. ASSUME PeerReads(s)
      PROVE  Goal
  BY <1>21, SMTT(30) DEF PeerReads
<1> QED
  BY <1>1, <1>2, <1>3, <1>4, <1>5, <1>6, <1>7, <1>8, <1>9, <1>10, <1>11, <1>12, <1>13,
     <1>14, <1>15, <1>16, <1>17, <1>18, <1>19, <1>20, <1>21, Zenon
     DEF StepOf, Handle, Work

\* Nothing a session has on record is taken back: its manifest, its slots and
\* its completed entries stay.
LEMMA History ==
  ASSUME IInv, NEW s \in Session, StepOf(s), NEW t \in Session
  PROVE  /\ rpc[t] # "idle" => rpc'[t] # "idle" /\ manifest'[t] = manifest[t]
         /\ completed[t] \subseteq completed'[t]
         /\ \A i \in Index : slot[t][i] # NoPath => slot'[t][i] = slot[t][i]
<1>1. TypeOK
  BY DEF IInv
<1>2. CASE t # s
  BY <1>1, <1>2, OthersUnchanged, SMTT(30) DEF Local
<1>3. CASE t = s
  <2>1. completed[s] \subseteq completed'[s]
    <3>1. \/ UNCHANGED completed
          \/ completed' = [completed EXCEPT ![s] = completed[s] \cup {cur[s]}]
      BY ZenonT(30) DEF StepOf, Handle, Work, disk, progress, session, net, rvars,
         StartSession, RecvProgress, RecvDirHeader, RecvDirEnd, RecvSessionEnd,
         RecvUnexpected, RecvReadError, OpenPart, OpenFails, WritePartMeta, RecvChunk,
         ChunkFails, RecvFileEnd, RecvBadBody, RecvGarbled, Rename, RenameFails,
         FileDone, RemovePart, RemovePartMeta, CloseSession, Drop, PeerReads,
         RecvResumeQuery, RecvFileHeader
    <3> QED
      BY <1>1, <3>1 DEF TypeOK
  <2>2. CASE StartSession(s)
    BY <1>1, <1>3, <2>1, <2>2, SMTT(30) DEF StartSession
  <2>3. CASE CloseSession(s)
    BY <1>1, <1>3, <2>1, <2>3, SMTT(30) DEF CloseSession, session, GoTo, TypeOK
  <2>4. ASSUME NEW f \in PeerFrame, RecvResumeQuery(s, f) \/ RecvFileHeader(s, f)
        PROVE  /\ rpc'[s] # "idle" /\ manifest'[s] = manifest[s]
               /\ \A i \in Index : slot[s][i] # NoPath => slot'[s][i] = slot[s][i]
    <3>1. rpc'[s] # "idle" /\ manifest' = manifest
      BY <1>1, <2>4, ZenonT(30) DEF RecvResumeQuery, RecvFileHeader, GoTo, session, TypeOK
    <3>2. CASE UNCHANGED slot
      BY <3>1, <3>2
    <3>3. ASSUME NEW p \in Path, InRange(s, f.idx), SlotFor(s, f.idx, p)
          PROVE  \A i \in Index : slot[s][i] # NoPath => slot'[s][i] = slot[s][i]
      BY <1>1, <3>3, EntryType, SlotForEffect, SMTT(30)
    <3> QED
      BY <2>4, <3>1, <3>2, <3>3, Slotting, Zenon
  <2>5. CASE /\ UNCHANGED <<slots, slot, manifest>>
             /\ rpc'[s] = rpc[s] \/ (Active(s) /\ Active(s)')
    BY <1>3, <2>1, <2>5 DEF Active
  <2> QED
    BY <1>1, <1>3, <2>1, <2>2, <2>3, <2>4, <2>5, Quiet, ZenonT(30)
<1> QED
  BY <1>2, <1>3, SMTT(30)
-----------------------------------------------------------------------------
(* The conjuncts of the invariant, one lemma each *)

\* d.slots, path by path.
Claimed(p) == \E t \in Session : Active(t) /\ \E i \in Index : slot[t][i] = p

\* A session's activity and its slots after a step of another one.
LEMMA OtherClaims ==
  ASSUME TypeOK, NEW s \in Session, NEW t \in Session, t # s, StepOf(s)
  PROVE  Active(t)' = Active(t) /\ slot'[t] = slot[t]
BY OthersUnchanged, Zenon DEF Local, Active

\* reserveSlot claims a free destination, the deferred release frees the
\* claims of its own session, and nothing else touches d.slots.
LEMMA SlotsStep ==
  ASSUME IInv, NEW s \in Session, StepOf(s)
  PROVE  SlotsExclusive'
<1> DEFINE Exclusive == \A t, u \in Session : \A i, j \in Index :
                          /\ Active(t) /\ Active(u)
                          /\ slot[t][i] # NoPath /\ slot[t][i] = slot[u][j]
                          => t = u /\ i = j
           Inv == slots \subseteq Path /\ (\A p \in Path : p \in slots <=> Claimed(p)) /\ Exclusive
<1>1. TypeOK /\ TypeOK'
  <2>1. [Next]_vars
    BY DEF StepOf, Next
  <2> QED
    BY <2>1, TypeStep DEF IInv
<1>2. Inv
  <2>1. SlotsExclusive
    BY Zenon DEF IInv
  <2>2. slots \subseteq Path
    BY <1>1, Zenon DEF TypeOK
  <2>3. Exclusive
    BY <2>1, Zenon DEF SlotsExclusive
  <2>4. \A p \in Path : p # NoPath
    BY ConstantsOK
  <2>5. \A p \in Path : p \in slots <=> Claimed(p)
    BY <2>1, <2>4, SMTT(30) DEF SlotsExclusive, Claimed
  <2> QED
    BY <2>2, <2>3, <2>5, Zenon
<1>3. ASSUME StartSession(s)
      PROVE  Inv'
  <2>1. UNCHANGED <<slots, slot>> /\ \A i \in Index : slot[s][i] = NoPath
    BY <1>3, ZenonT(30) DEF StartSession, IInv, SessionsWellFormed
  <2>2. \A t \in Session : t # s => Active(t)' = Active(t)
    BY <1>1, OtherClaims, Zenon
  <2>3. ~Active(s)
    BY <1>3 DEF StartSession, Active
  <2> QED
    BY <1>2, <2>1, <2>2, <2>3, ConstantsOK DEF Claimed
<1>4. ASSUME CloseSession(s)
      PROVE  Inv'
  <2>1. slots' = slots \ {slot[s][i] : i \in Index} /\ slot' = slot
    BY <1>4 DEF CloseSession
  <2>2. Active(s) /\ ~Active(s)'
    BY <1>1, <1>4, SMTT(30) DEF CloseSession, Active, GoTo, TypeOK
  <2>3. \A t \in Session : t # s => Active(t)' = Active(t)
    BY <1>1, OtherClaims, Zenon
  <2>4. \A p \in Path : p \in slots' <=> Claimed(p)'
    <3>1. SUFFICES ASSUME NEW p \in Path
                   PROVE  p \in slots' <=> Claimed(p)'
      OBVIOUS
    <3>2. CASE \E i \in Index : slot[s][i] = p
      <4>1. p \notin slots'
        BY <2>1, <3>2
      <4>2. ASSUME NEW t \in Session, Active(t)', NEW j \in Index, slot'[t][j] = p
            PROVE  FALSE
        <5>1. t # s /\ Active(t)
          BY <2>2, <2>3, <4>2
        <5> QED
          BY <1>2, <2>1, <2>2, <3>2, <4>2, <5>1, ConstantsOK, ZenonT(30)
      <4> QED
        BY <4>1, <4>2 DEF Claimed
    <3>3. CASE ~\E i \in Index : slot[s][i] = p
      <4>1. p \in slots' <=> p \in slots
        BY <2>1, <3>3
      <4>2. \A t \in Session : \A j \in Index : slot[t][j] = p => Active(t)' = Active(t)
        BY <2>3, <3>3
      <4>3. Claimed(p)' <=> Claimed(p)
        BY <2>1, <4>2 DEF Claimed
      <4> QED
        BY <1>2, <4>1, <4>3
    <3> QED
      BY <3>2, <3>3
  <2>5. \A t \in Session : Active(t)' => Active(t)
    BY <2>2, <2>3
  <2>6. Exclusive'
    BY <1>2, <2>1, <2>5, SMTT(30)
  <2>7. slots' \subseteq Path
    BY <1>2, <2>1
  <2> QED
    BY <2>4, <2>6, <2>7
<1>5. ASSUME NEW f \in PeerFrame, RecvResumeQuery(s, f) \/ RecvFileHeader(s, f)
      PROVE  Inv'
  <2>1. Active(s) /\ Active(s)'
    BY <1>1, <1>5, ZenonT(30) DEF RecvResumeQuery, RecvFileHeader, GoTo, Active, TypeOK
  <2>2. \A t \in Session : t # s => Active(t)' = Active(t) /\ slot'[t] = slot[t]
    BY <1>1, OtherClaims
  <2>3. CASE UNCHANGED <<slots, slot>>
    BY <1>2, <2>1, <2>2, <2>3 DEF Claimed
  <2>4. ASSUME NEW p \in Path, InRange(s, f.idx), SlotFor(s, f.idx, p), ~UNCHANGED <<slots, slot>>
        PROVE  Inv'
    <3>1. f.idx \in Index
      BY <1>1, <2>4, EntryType, SMTT(30)
    <3>2. /\ slot'[s][f.idx] = p /\ slot[s][f.idx] = NoPath
          /\ \A j \in Index : j # f.idx => slot'[s][j] = slot[s][j]
          /\ p \notin slots /\ slots' = slots \cup {p}
      BY <1>1, <2>4, <3>1, SlotForEffect, SMTT(30)
    <3>3. ~Claimed(p)
      BY <1>2, <3>2, SMTT(30)
    <3>4. \A q \in Path : Claimed(q)' <=> Claimed(q) \/ q = p
      BY <2>1, <2>2, <3>1, <3>2, ConstantsOK, SMTT(30) DEF Claimed
    <3>5. Exclusive'
      BY <1>2, <2>1, <2>2, <3>1, <3>2, <3>3, SMTT(30) DEF Claimed
    <3> QED
      BY <1>2, <3>2, <3>4, <3>5, ZenonT(30)
  <2> QED
    BY <1>5, <2>3, <2>4, Slotting, ZenonT(30)
<1>6. ASSUME UNCHANGED <<slots, slot>>, Active(s)' = Active(s)
      PROVE  Inv'
  <2>1. \A t \in Session : Active(t)' = Active(t)
    BY <1>1, <1>6, OtherClaims
  <2> QED
    BY <1>2, <1>6, <2>1 DEF Claimed
<1>7. Inv'
  BY <1>1, <1>3, <1>4, <1>5, <1>6, Quiet, ZenonT(30)
<1>8. slots' = {slot'[t][i] : t \in {u \in Session : Active(u)'}, i \in Index} \ {NoPath}
  BY <1>1, <1>7, ConstantsOK, SMTT(30) DEF Claimed, TypeOK
<1> QED
  BY <1>7, <1>8, SMTT(30) DEF SlotsExclusive

\* Only session_start gives a session a manifest, and it starts with nothing.
LEMMA WellFormedStep ==
  ASSUME IInv, NEW s \in Session, StepOf(s)
  PROVE  SessionsWellFormed'
<1>1. TypeOK
  BY DEF IInv
<1>2. SUFFICES ASSUME NEW t \in Session
               PROVE  /\ rpc'[t] = "idle" => /\ manifest'[t] = <<>> /\ completed'[t] = {}
                                             /\ reply'[t] = NoReply
                                             /\ \A i \in Index : slot'[t][i] = NoPath
                      /\ rpc'[t] # "idle" => manifest'[t] \in Manifest
  BY DEF SessionsWellFormed
<1>3. CASE t # s
  BY <1>1, <1>3, OthersUnchanged, SMTT(30) DEF Local, IInv, SessionsWellFormed
<1>4. CASE t = s /\ rpc[s] # "idle"
  BY <1>4, History, SMTT(30) DEF IInv, SessionsWellFormed
<1>5. CASE t = s /\ rpc[s] = "idle"
  <2>1. StartSession(s) \/ Drop(s) \/ PeerReads(s)
    BY <1>5, ZenonT(30) DEF StepOf, Handle, Work, RecvProgress, RecvDirHeader, RecvDirEnd,
         RecvSessionEnd, RecvUnexpected, RecvReadError, OpenPart, OpenFails,
         WritePartMeta, RecvChunk, ChunkFails, RecvFileEnd, RecvBadBody, RecvGarbled,
         Rename, RenameFails, FileDone, RemovePart, RemovePartMeta, CloseSession,
         RecvResumeQuery, RecvFileHeader
  <2>2. CASE StartSession(s)
    BY <1>1, <1>5, <2>2, Zenon DEF StartSession, GoTo, TypeOK
  <2>3. CASE Drop(s) \/ PeerReads(s)
    BY <1>1, <1>5, <2>3, ZenonT(30) DEF Drop, PeerReads, rvars, session, IInv,
       SessionsWellFormed, TypeOK
  <2> QED
    BY <2>1, <2>2, <2>3, Zenon
<1> QED
  BY <1>3, <1>4, <1>5, Zenon

\* What receiveOneFile works on: the current file of s is a claimed index.
LEMMA CurrentStep ==
  ASSUME IInv, NEW s \in Session, StepOf(s)
  PROVE  CurrentFile'
<1> DEFINE Good(t) ==
      /\ rpc[t] \in Body => /\ InRange(t, cur[t]) /\ ~Meta(t).isDir
                            /\ cur[t] \notin completed[t]
                            /\ Dest(t) \in Path
      /\ rpc[t] = "dir_end" => /\ InRange(t, cur[t]) /\ Meta(t).isDir
                               /\ cur[t] \notin completed[t]
<1>1. TypeOK
  BY DEF IInv
<1>2. \A t \in Session : Good(t)
  BY Zenon DEF IInv, CurrentFile
<1>3. ASSUME NEW t \in Session, t # s
      PROVE  Good(t)'
  BY <1>1, <1>2, <1>3, OthersUnchanged, SMTT(30) DEF Local, InRange, Meta, Dest
<1>4. Good(s)'
  <2> DEFINE Same == UNCHANGED <<manifest, slot, completed, cur>>
  <2> USE DEF TypeOK, GoTo, disk, session, progress, rvars, net, FailFile, Body
  <2>1. ASSUME rpc'[s] \notin Body, rpc'[s] # "dir_end"
        PROVE  Good(s)'
    BY <2>1, ZenonT(30)
  <2>2. ASSUME Same, rpc'[s] = rpc[s] \/ (rpc[s] \in Body /\ rpc'[s] \in Body)
        PROVE  Good(s)'
    BY <1>2, <2>2, ZenonT(30) DEF InRange, Meta, Dest
  <2>3. ASSUME NEW f \in PeerFrame, RecvDirHeader(s, f)
        PROVE  Good(s)'
    BY <1>1, <2>3, SMTT(30) DEF RecvDirHeader, InRange, Meta
  <2>4. ASSUME NEW f \in PeerFrame, RecvResumeQuery(s, f)
        PROVE  Good(s)'
    BY <1>1, <2>1, <2>4, Zenon DEF RecvResumeQuery
  <2> HIDE DEF Good
  <2>5. ASSUME NEW f \in PeerFrame, RecvFileHeader(s, f)
        PROVE  Good(s)'
    <3>1. InRange(s, f.idx) /\ ~manifest[s][f.idx].isDir /\ f.idx \notin completed[s]
      BY <2>5, ZenonT(30) DEF RecvFileHeader
    <3>2. UNCHANGED <<manifest, completed>>
      BY <2>5, Zenon DEF RecvFileHeader
    <3>3. CASE GoTo(s, "closing")
      BY <1>1, <2>1, <3>3, SMTT(30)
    <3>4. ASSUME NEW p \in Path, SlotFor(s, f.idx, p), cur' = [cur EXCEPT ![s] = f.idx],
                 GoTo(s, "open")
          PROVE  Good(s)'
      <4>1. slot'[s][f.idx] = p
        BY <1>1, <3>1, <3>4, EntryType, SlotForEffect, SMTT(30)
      <4>2. cur'[s] = f.idx /\ rpc'[s] = "open"
        BY <1>1, <3>4, SMTT(30)
      <4> QED
        BY <3>1, <3>2, <4>1, <4>2, SMTT(30) DEF InRange, Meta, Dest, Good
    <3> QED
      BY <2>5, <3>3, <3>4, ZenonT(30) DEF RecvFileHeader
  <2>6. CASE \E f \in PeerFrame : \/ RecvProgress(s, f) \/ RecvDirEnd(s, f)
                                  \/ RecvSessionEnd(s, f) \/ RecvUnexpected(s, f)
    BY <1>1, <2>1, <2>2, <2>6, ZenonT(30) DEF RecvProgress, RecvDirEnd, RecvSessionEnd,
       RecvUnexpected
  <2>7. CASE \E f \in PeerFrame : \/ RecvChunk(s, f) \/ ChunkFails(s, f)
                                  \/ RecvFileEnd(s, f) \/ RecvBadBody(s, f)
                                  \/ RecvGarbled(s, f)
    BY <1>1, <2>1, <2>2, <2>7, ZenonT(30) DEF RecvChunk, ChunkFails, RecvFileEnd,
       RecvBadBody, RecvGarbled
  <2>8. CASE OpenPart(s) \/ OpenFails(s) \/ WritePartMeta(s)
    BY <1>1, <2>1, <2>2, <2>8, ZenonT(30) DEF OpenPart, OpenFails, WritePartMeta
  <2>9. CASE Rename(s) \/ RenameFails(s) \/ RemovePart(s) \/ RemovePartMeta(s)
    BY <1>1, <2>1, <2>2, <2>9, ZenonT(30) DEF Rename, RenameFails, RemovePart, RemovePartMeta
  <2>10. CASE FileDone(s) \/ CloseSession(s) \/ StartSession(s) \/ RecvReadError(s)
    BY <1>1, <2>1, <2>10, ZenonT(30) DEF FileDone, CloseSession, StartSession, RecvReadError
  <2>11. CASE Drop(s) \/ PeerReads(s)
    BY <1>1, <2>2, <2>11, Zenon DEF Drop, PeerReads
  <2> QED
    BY <2>3, <2>4, <2>5, <2>6, <2>7, <2>8, <2>9, <2>10, <2>11, SMTT(30) DEF StepOf, Handle, Work
<1> HIDE DEF Good
<1>5. \A t \in Session : Good(t)'
  BY <1>3, <1>4
<1> QED
  BY <1>5, ZenonT(30) DEF CurrentFile, Good

\* The partial of a file another session is receiving does not change.
LEMMA OthersPart ==
  ASSUME IInv, NEW s \in Session, StepOf(s), NEW t \in Session, t # s, rpc[t] \in Body
  PROVE  Dest(t) \in Path /\ Dest(t)' = Dest(t) /\ part'[Dest(t)] = part[Dest(t)]
<1>1. TypeOK
  BY DEF IInv
<1>2. Dest(t) \in Path /\ cur[t] \in Index
  BY <1>1, EntryType, Zenon DEF IInv, CurrentFile
<1>3. Dest(t)' = Dest(t) /\ Active(t)' /\ cur'[t] = cur[t]
  BY <1>1, OthersUnchanged, SMTT(30) DEF Local, Dest, Active, Body
<1>4. ASSUME part'[Dest(t)] # part[Dest(t)]
      PROVE  FALSE
  <2>1. PICK i \in Index : Active(s)' /\ slot'[s][i] = Dest(t)
    BY <1>2, <1>4, PartStep, Zenon
  <2>2. slot'[t][cur[t]] = slot'[s][i] /\ slot'[s][i] # NoPath
    BY <1>2, <1>3, <2>1, ConstantsOK, Zenon DEF Dest
  <2> QED
    BY <1>2, <1>3, <2>1, <2>2, SlotsStep, SMTT(30) DEF SlotsExclusive
<1> QED
  BY <1>2, <1>3, <1>4, Zenon

\* Between file_header and the opening of the partial nobody else changes
\* the partial the offset was taken from.
LEMMA OffsetStep ==
  ASSUME IInv, NEW s \in Session, StepOf(s)
  PROVE  OffsetFits'
<1>1. TypeOK
  BY DEF IInv
<1>2. SUFFICES ASSUME NEW t \in Session, rpc'[t] = "open", offset'[t] > 0
               PROVE  part'[Dest(t)'] # Absent /\ Len(part'[Dest(t)']) = offset'[t]
  BY DEF OffsetFits
<1>3. CASE t # s
  <2>1. rpc[t] = "open" /\ offset'[t] = offset[t] /\ rpc[t] \in Body
    BY <1>1, <1>2, <1>3, OthersUnchanged, Zenon DEF Local, Body
  <2> QED
    BY <1>2, <1>3, <2>1, OthersPart, Zenon DEF IInv, OffsetFits
<1>4. CASE t = s
  <2>1. \/ Drop(s) \/ PeerReads(s) \/ \E f \in PeerFrame : RecvFileHeader(s, f)
    BY <1>1, <1>2, <1>4, ZenonT(30)
       DEF TypeOK, StepOf, Handle, Work, rvars, disk, session, progress, net, GoTo, FailFile,
         StartSession, RecvProgress, RecvDirHeader, RecvDirEnd, RecvSessionEnd, RecvUnexpected,
         RecvReadError, OpenPart, OpenFails, WritePartMeta, RecvChunk, ChunkFails,
         RecvFileEnd, RecvBadBody, RecvGarbled, Rename, RenameFails, FileDone, RemovePart,
         RemovePartMeta, CloseSession, RecvResumeQuery
  <2>2. CASE Drop(s) \/ PeerReads(s)
    BY <1>2, <1>4, <2>2, Zenon DEF Drop, PeerReads, rvars, disk, progress, IInv, OffsetFits, Dest
  <2>3. ASSUME NEW f \in PeerFrame, RecvFileHeader(s, f)
        PROVE  part'[Dest(t)'] # Absent /\ Len(part'[Dest(t)']) = offset'[t]
    <3>1. InRange(s, f.idx)
      BY <2>3, ZenonT(30) DEF RecvFileHeader
    <3>2. PICK p \in Path :
            /\ SlotFor(s, f.idx, p) /\ cur' = [cur EXCEPT ![s] = f.idx]
            /\ offset' = [offset EXCEPT ![s] = PartialBytes(p, manifest[s][f.idx])]
            /\ RemoveStale(p, manifest[s][f.idx])
      <4>1. ~GoTo(s, "closing")
        BY <1>1, <1>2, <1>4, SMTT(30) DEF GoTo, TypeOK
      <4>2. offset' # [offset EXCEPT ![s] = 0]
        BY <1>1, <1>2, <1>4, SMTT(30) DEF TypeOK
      <4> QED
        BY <2>3, <4>1, <4>2, ZenonT(30) DEF RecvFileHeader
    <3>3. Dest(t)' = p
      <4>1. f.idx \in Index
        BY <1>1, <3>1, EntryType, SMTT(30)
      <4>2. slot'[s][f.idx] = p
        BY <1>1, <3>2, <4>1, SlotForEffect, ZenonT(30)
      <4>3. cur'[t] = f.idx
        BY <1>1, <1>4, <3>2, SMTT(30) DEF TypeOK
      <4> QED
        BY <1>4, <4>2, <4>3 DEF Dest
    <3>4. offset'[t] = PartialBytes(p, manifest[s][f.idx])
      BY <1>1, <1>4, <3>2, SMTT(30) DEF TypeOK
    <3>5. part[p] # Absent /\ Len(part[p]) = offset'[t] /\ part' = part
      <4>1. PartialBytes(p, manifest[s][f.idx]) # 0
        BY <1>2, <3>4, SMTT(30)
      <4>2. /\ Resumable(p, manifest[s][f.idx]) /\ ~Stale(p, manifest[s][f.idx])
            /\ PartialBytes(p, manifest[s][f.idx]) = Len(part[p])
        BY <4>1, Zenon DEF PartialBytes
      <4>3. part' = part
        BY <3>2, <4>2, Zenon DEF RemoveStale
      <4> QED
        BY <3>4, <4>2, <4>3, SMTT(30) DEF Resumable
    <3> QED
      BY <3>3, <3>5
  <2> QED
    BY <2>1, <2>2, <2>3
<1> QED
  BY <1>3, <1>4
=============================================================================
