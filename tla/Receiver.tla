------------------------------ MODULE Receiver ------------------------------
(***************************************************************************)
(* The receiving half of a file transfer (internal/daemon/receive.go): any *)
(* number of concurrent sessions streaming files into one download         *)
(* directory, each file through an exclusive slot, an .adrop-part file and *)
(* its .meta sidecar, with resume, failures, connection drops and daemon   *)
(* crashes.                                                                *)
(*                                                                         *)
(* The remote end is the environment here: it may put any frame on the     *)
(* connection.  Module Transfer replaces it by the sending code.           *)
(*                                                                         *)
(* The SHA-256 of a file is identified with the content it was taken of:   *)
(* two digests are equal exactly when the contents are.                    *)
(***************************************************************************)
EXTENDS Integers, Sequences, FiniteSets

CONSTANTS
  Session,      \* inbound connections; each carries one session
  Path,         \* paths of the download directory
  Name,         \* file names a manifest may quote
  Candidates,   \* Candidates[n]: the paths uniquePath tries for name n, in order
  Byte,         \* the bytes of file contents
  Manifest,     \* the manifests a peer may announce
  MaxFiles,     \* bound: entries of a manifest
  PeerFrame,    \* the frames the remote end may send
  Foreign,      \* paths another program of the machine may write to
  DiskErrors,   \* whether disk operations may fail
  Absent, Dir,  \* a path that does not exist, a path that is a directory
  NoReply,      \* nothing written yet
  NoPath,       \* no slot, or an entry with no rel_path directory
  BadPath       \* a rel_path validRelPath rejects

Content == Seq(Byte)
Index == 1..MaxFiles

\* proto.FileMeta.  dir is the directory itself for a directory entry and the
\* parent named by rel_path for a file.
Entry == [name : Name, sha : Content, size : Nat, isDir : BOOLEAN,
          dir : Path \cup {NoPath, BadPath}]

\* proto.Header: "other" is any type with no meaning here (or a negative chunk
\* length), "garbled" a frame ReadHeader cannot parse.
FrameType == {"query", "header", "chunk", "end", "progress", "session_end",
              "other", "garbled"}
Frame == [type : FrameType, idx : Nat, data : Content]
Reply == [type : {"offer", "ack", "final"}, idx : Nat, n : Nat, ok : BOOLEAN]

ASSUME ConstantsOK ==
  /\ MaxFiles \in Nat
  /\ Candidates \in [Name -> Seq(Path)]
  /\ \A m \in Manifest : /\ m \in Seq(Entry)
                         /\ Len(m) \in 1..MaxFiles
  /\ PeerFrame \subseteq Frame
  /\ Foreign \subseteq Path
  /\ DiskErrors \in BOOLEAN
  /\ NoReply \notin Reply
  /\ Absent \notin Content /\ Dir \notin Content /\ Absent # Dir
  /\ NoPath \notin Path /\ BadPath \notin Path /\ NoPath # BadPath

VARIABLES
  \* the download directory
  file,       \* file[p]: what the path p itself holds
  part,       \* part[p]: the file p.adrop-part
  sidecar,    \* sidecar[p]: the digest in p.adrop-part.meta, Absent if none
  \* daemon memory
  slots,      \* d.slots: destinations claimed by a transfer in flight
  rpc,        \* rpc[s]: where session s is in receiveFiles
  manifest,   \* manifest[s]: the session's file list
  resume,     \* resume[s]: session_start's resume flag
  slot,       \* slot[s][i]: the destination of file i, NoPath until reserved
  completed,  \* completed[s]: indexes whose ack was OK
  cur,        \* cur[s]: the file being received
  offset,     \* offset[s]: its resumeOffset
  got,        \* got[s]: bytes of it counted so far
  hashed,     \* hashed[s]: the bytes its hasher has been fed
  \* the connections
  up,         \* up[s]: the connection is open
  reply       \* reply[s]: the reply written last

disk == <<file, part, sidecar>>
progress == <<cur, offset, got, hashed>>
session == <<manifest, resume>>
net == <<up, reply>>
rvars == <<disk, slots, rpc, session, slot, completed, progress>>
vars == <<rvars, net>>

\* The states of a session: before it starts, in the frame loop, awaiting a
\* directory's file_end, the steps of receiveOneFile, on the way out of
\* receiveFiles (slots still held), over.
Body == {"open", "meta", "body", "rename", "unmeta", "remove", "remove_meta"}
RPC == {"idle", "loop", "dir_end", "closing", "closed"} \cup Body

TypeOK ==
  /\ file \in [Path -> Content \cup {Absent, Dir}]
  /\ part \in [Path -> Content \cup {Absent}]
  /\ sidecar \in [Path -> Content \cup {Absent}]
  /\ slots \subseteq Path
  /\ rpc \in [Session -> RPC]
  /\ manifest \in [Session -> Manifest \cup {<<>>}]
  /\ resume \in [Session -> BOOLEAN]
  /\ slot \in [Session -> [Index -> Path \cup {NoPath}]]
  /\ completed \in [Session -> SUBSET Index]
  /\ cur \in [Session -> Nat]
  /\ offset \in [Session -> Nat]
  /\ got \in [Session -> Nat]
  /\ hashed \in [Session -> Content]
  /\ up \in [Session -> BOOLEAN]
  /\ reply \in [Session -> Reply \cup {NoReply}]

Init ==
  /\ file = [p \in Path |-> Absent]
  /\ part = [p \in Path |-> Absent]
  /\ sidecar = [p \in Path |-> Absent]
  /\ slots = {}
  /\ rpc = [s \in Session |-> "idle"]
  /\ manifest = [s \in Session |-> <<>>]
  /\ resume = [s \in Session |-> FALSE]
  /\ slot = [s \in Session |-> [i \in Index |-> NoPath]]
  /\ completed = [s \in Session |-> {}]
  /\ cur = [s \in Session |-> 0]
  /\ offset = [s \in Session |-> 0]
  /\ got = [s \in Session |-> 0]
  /\ hashed = [s \in Session |-> <<>>]
  /\ up = [s \in Session |-> FALSE]
  /\ reply = [s \in Session |-> NoReply]
-----------------------------------------------------------------------------
(* The connection *)

Active(s) == rpc[s] \notin {"idle", "closed"}

\* WriteControl; its error is ignored, so on a closed connection the reply
\* goes nowhere.
Send(s, r) == reply' = [reply EXCEPT ![s] = IF up[s] THEN r ELSE @]

Offer(i, n) == [type |-> "offer", idx |-> i, n |-> n, ok |-> TRUE]
Ack(i, ok) == [type |-> "ack", idx |-> i, n |-> 0, ok |-> ok]
Final(ok) == [type |-> "final", idx |-> 0, n |-> 0, ok |-> ok]

GoTo(s, pc) == rpc' = [rpc EXCEPT ![s] = pc]

\* The locals of receiveOneFile go out of scope in the sessions of S.
Return(S) ==
  /\ cur' = [s \in Session |-> IF s \in S THEN 0 ELSE cur[s]]
  /\ offset' = [s \in Session |-> IF s \in S THEN 0 ELSE offset[s]]
  /\ got' = [s \in Session |-> IF s \in S THEN 0 ELSE got[s]]
  /\ hashed' = [s \in Session |-> IF s \in S THEN <<>> ELSE hashed[s]]
-----------------------------------------------------------------------------
(* Slots, partials and directories *)

\* createDirectory: the path is safe and no file is in the way ...
CanMkdir(d) == d # BadPath /\ (d \in Path => file[d] \in {Absent, Dir})

Mkdir(d) == file' = IF d \in Path THEN [file EXCEPT ![d] = Dir] ELSE file

\* ... or it fails, also after the directory was made (Lstat).
MkdirFails(d) ==
  \/ ~CanMkdir(d) /\ UNCHANGED file
  \/ DiskErrors /\ d \in Path /\ CanMkdir(d) /\ (Mkdir(d) \/ UNCHANGED file)

\* Mutant: claims of other transfers are not looked at.
FreeOnDisk(p) == file[p] = Absent

\* Mutant: only claims are looked at.
FreeOfClaims(p) == p \notin slots

FreePath(p) == file[p] = Absent /\ p \notin slots

\* uniquePathExcept: the first candidate neither on disk nor claimed.
UniquePath(n, p) ==
  \E k \in 1..Len(Candidates[n]) :
    /\ p = Candidates[n][k]
    /\ FreePath(p)
    /\ \A j \in 1..(k - 1) : ~FreePath(Candidates[n][j])

\* reserveSlot, under slotMu: pick the destination, create its parent, claim it.
ReserveSlot(s, i, p) ==
  LET m == manifest[s][i] IN
    /\ CanMkdir(m.dir)
    /\ UniquePath(m.name, p)
    /\ Mkdir(m.dir)
    /\ slots' = slots \cup {p}
    /\ slot' = [slot EXCEPT ![s][i] = p]

\* slotFor: the slot already held for index i, or a new one.
SlotFor(s, i, p) ==
  \/ /\ slot[s][i] = p /\ p # NoPath
     /\ UNCHANGED <<file, slots, slot>>
  \/ /\ slot[s][i] = NoPath
     /\ ReserveSlot(s, i, p)

SlotForFails(s, i) ==
  /\ slot[s][i] = NoPath
  /\ MkdirFails(manifest[s][i].dir)
  /\ UNCHANGED <<slots, slot>>

\* A partial worth looking at: not empty and shorter than the expected file.
Resumable(p, m) ==
  /\ part[p] # Absent
  /\ Len(part[p]) > 0
  /\ Len(part[p]) < m.size

\* Mutant: the sidecar is not compared with the announced digest.
NeverStale(p, m) == FALSE

\* partialBytes, together with the removal of a partial whose sidecar names
\* another original.
Stale(p, m) == Resumable(p, m) /\ sidecar[p] # m.sha

PartialBytes(p, m) ==
  IF Resumable(p, m) /\ ~Stale(p, m) THEN Len(part[p]) ELSE 0

\* os.Remove of g[p], whose error is ignored everywhere: what g may be then.
Removed(g, p) == {[g EXCEPT ![p] = Absent]} \cup (IF DiskErrors THEN {g} ELSE {})

RemoveStale(p, m) ==
  IF Stale(p, m) THEN part' \in Removed(part, p) /\ sidecar' \in Removed(sidecar, p)
                 ELSE UNCHANGED <<part, sidecar>>
-----------------------------------------------------------------------------
(* The frame loop of receiveFilesWithProgress *)

\* session_start of a files session with a non-empty manifest.
StartSession(s) ==
  /\ rpc[s] = "idle"
  /\ \E m \in Manifest, r \in BOOLEAN :
       /\ manifest' = [manifest EXCEPT ![s] = m]
       /\ resume' = [resume EXCEPT ![s] = r]
  /\ GoTo(s, "loop")
  /\ up' = [up EXCEPT ![s] = TRUE]
  /\ UNCHANGED <<disk, slots, slot, completed, progress, reply>>

InRange(s, i) == i \in 1..Len(manifest[s])

\* resume_query: reserve the slot and offer what is already there.
RecvResumeQuery(s, f) ==
  /\ rpc[s] = "loop" /\ f.type = "query"
  /\ LET i == f.idx
         wanted == resume[s] /\ InRange(s, i) /\ ~manifest[s][i].isDir
     IN \/ /\ wanted
           /\ \E p \in Path :
                /\ SlotFor(s, i, p)
                /\ RemoveStale(p, manifest[s][i])
                /\ Send(s, Offer(i, PartialBytes(p, manifest[s][i])))
        \/ /\ IF wanted THEN SlotForFails(s, i) ELSE UNCHANGED <<file, slots, slot>>
           /\ Send(s, Offer(i, 0))
           /\ UNCHANGED <<part, sidecar>>
  /\ UNCHANGED <<rpc, session, completed, progress, up>>

\* progress frames are advisory, in the loop and inside a file body alike.
RecvProgress(s, f) ==
  /\ rpc[s] \in {"loop", "body"} /\ f.type = "progress"
  /\ UNCHANGED <<rvars, net>>

\* file_header of a directory entry: its file_end is read next.
RecvDirHeader(s, f) ==
  /\ rpc[s] = "loop" /\ f.type = "header"
  /\ InRange(s, f.idx) /\ f.idx \notin completed[s]
  /\ manifest[s][f.idx].isDir
  /\ cur' = [cur EXCEPT ![s] = f.idx]
  /\ GoTo(s, "dir_end")
  /\ UNCHANGED <<disk, slots, session, slot, completed, offset, got, hashed, net>>

\* The directory's file_end: create it and ack, or nack and leave.
RecvDirEnd(s, f) ==
  LET m == manifest[s][cur[s]]
      good == /\ f.type = "end" /\ f.idx = cur[s] /\ f.data = <<>>
              /\ m.size = 0 /\ m.sha = <<>> /\ m.dir \in Path
  IN /\ rpc[s] = "dir_end"
     /\ \/ /\ good /\ CanMkdir(m.dir)
           /\ Mkdir(m.dir)
           /\ completed' = [completed EXCEPT ![s] = @ \cup {cur[s]}]
           /\ Send(s, Ack(cur[s], TRUE))
           /\ GoTo(s, "loop")
        \/ /\ IF good THEN MkdirFails(m.dir) ELSE UNCHANGED file
           /\ Send(s, Ack(cur[s], FALSE))
           /\ GoTo(s, "closing")
           /\ UNCHANGED completed
     /\ UNCHANGED <<part, sidecar, slots, session, slot, progress, up>>

\* file_header of a file: take the slot and decide where to resume, or nack.
RecvFileHeader(s, f) ==
  LET i == f.idx
      m == manifest[s][i]
  IN /\ rpc[s] = "loop" /\ f.type = "header"
     /\ InRange(s, i) /\ i \notin completed[s]
     /\ ~m.isDir
     /\ \/ \E p \in Path :
             /\ SlotFor(s, i, p)
             /\ IF resume[s]
                THEN /\ offset' = [offset EXCEPT ![s] = PartialBytes(p, m)]
                     /\ RemoveStale(p, m)
                ELSE /\ offset' = [offset EXCEPT ![s] = 0]
                     /\ UNCHANGED <<part, sidecar>>
             /\ cur' = [cur EXCEPT ![s] = i]
             /\ GoTo(s, "open")
             /\ UNCHANGED reply
        \/ /\ SlotForFails(s, i)
           /\ Send(s, Ack(i, FALSE))
           /\ GoTo(s, "closing")
           /\ UNCHANGED <<part, sidecar, offset, cur>>
     /\ UNCHANGED <<session, completed, got, hashed, up>>

\* Mutant: the final ack does not count the files.
SessionEndOK(s, f) ==
  /\ rpc[s] = "loop" /\ f.type = "session_end"
  /\ Send(s, Final(TRUE))
  /\ GoTo(s, "closing")
  /\ UNCHANGED <<disk, slots, session, slot, completed, progress, up>>

\* session_end: the final ack, OK only if every entry was completed.
RecvSessionEnd(s, f) ==
  /\ rpc[s] = "loop" /\ f.type = "session_end"
  /\ Send(s, Final(Cardinality(completed[s]) = Len(manifest[s])))
  /\ GoTo(s, "closing")
  /\ UNCHANGED <<disk, slots, session, slot, completed, progress, up>>

\* A frame the loop does not expect: leave without an ack.
RecvUnexpected(s, f) ==
  /\ rpc[s] = "loop"
  /\ \/ f.type \in {"chunk", "end", "other", "garbled"}
     \/ f.type = "header" /\ (~InRange(s, f.idx) \/ f.idx \in completed[s])
  /\ GoTo(s, "closing")
  /\ UNCHANGED <<disk, slots, session, slot, completed, progress, net>>

\* The connection ends: in the loop, awaiting a directory's end, or inside a
\* file body, whose partial is kept.  The nack after it reaches nobody.
RecvReadError(s) ==
  /\ rpc[s] \in {"loop", "dir_end", "body"} /\ ~up[s]
  /\ GoTo(s, "closing")
  /\ UNCHANGED <<disk, slots, session, slot, completed, progress, net>>
-----------------------------------------------------------------------------
(* receiveOneFile.  A crash may fall between any two of its steps. *)

Dest(s) == slot[s][cur[s]]
Meta(s) == manifest[s][cur[s]]

\* Nothing on disk changes, the file is nacked and the session ends.
FailFile(s) ==
  /\ Send(s, Ack(cur[s], FALSE))
  /\ GoTo(s, "closing")

\* Mutant: O_TRUNC is left out.
OpenKept(s) ==
  /\ rpc[s] = "open"
  /\ part' = [part EXCEPT ![Dest(s)] = IF @ = Absent THEN <<>> ELSE @]
  /\ hashed' = [hashed EXCEPT ![s] = IF offset[s] > 0 THEN part[Dest(s)] ELSE <<>>]
  /\ got' = [got EXCEPT ![s] = offset[s]]
  /\ GoTo(s, "meta")
  /\ UNCHANGED <<file, sidecar, slots, session, slot, completed, cur, offset, net>>

\* How much of a partial of n bytes the hasher is seeded with: an error of the
\* open or the copy is ignored.
Seeded(n) == IF DiskErrors THEN 0..n ELSE {n}

\* Open the partial: append after seeding the hasher from it, or truncate.
OpenPart(s) ==
  /\ rpc[s] = "open"
  /\ IF offset[s] > 0
     THEN /\ \E k \in Seeded(offset[s]) :
               hashed' = [hashed EXCEPT ![s] = SubSeq(part[Dest(s)], 1, k)]
          /\ UNCHANGED part
     ELSE /\ hashed' = [hashed EXCEPT ![s] = <<>>]
          /\ part' = [part EXCEPT ![Dest(s)] = <<>>]
  /\ got' = [got EXCEPT ![s] = offset[s]]
  /\ GoTo(s, "meta")
  /\ UNCHANGED <<file, sidecar, slots, session, slot, completed, cur, offset, net>>

OpenFails(s) ==
  /\ rpc[s] = "open" /\ DiskErrors
  /\ FailFile(s)
  /\ UNCHANGED <<disk, slots, session, slot, completed, progress, up>>

\* Mutant: the sidecar is not written.
MetaSkipped(s) ==
  /\ rpc[s] = "meta"
  /\ GoTo(s, "body")
  /\ UNCHANGED <<disk, slots, session, slot, completed, progress, net>>

\* writePartMeta ignores an error, which leaves the old sidecar or no digest.
WritePartMeta(s) ==
  /\ rpc[s] = "meta"
  /\ \E c \in {Meta(s).sha} \cup (IF DiskErrors THEN {sidecar[Dest(s)], Absent} ELSE {}) :
       sidecar' = [sidecar EXCEPT ![Dest(s)] = c]
  /\ GoTo(s, "body")
  /\ UNCHANGED <<file, part, slots, session, slot, completed, progress, net>>

\* A chunk that fits, copied to the partial and the hasher.
RecvChunk(s, f) ==
  /\ rpc[s] = "body" /\ f.type = "chunk"
  /\ got[s] + Len(f.data) <= Meta(s).size
  /\ part' = [part EXCEPT ![Dest(s)] = @ \o f.data]
  /\ hashed' = [hashed EXCEPT ![s] = @ \o f.data]
  /\ got' = [got EXCEPT ![s] = @ + Len(f.data)]
  /\ UNCHANGED <<file, sidecar, slots, rpc, session, slot, completed, cur, offset, net>>

\* The copy of a chunk breaks off: the bytes that made it stay in the partial.
ChunkFails(s, f) ==
  /\ rpc[s] = "body" /\ f.type = "chunk"
  /\ DiskErrors \/ ~up[s]
  /\ got[s] + Len(f.data) <= Meta(s).size
  /\ \E k \in 0..(Len(f.data) - 1) :
       part' = [part EXCEPT ![Dest(s)] = @ \o SubSeq(f.data, 1, k)]
  /\ FailFile(s)
  /\ UNCHANGED <<file, sidecar, slots, session, slot, completed, progress, up>>

\* Mutant: only the size is checked.
FileEndSizeOnly(s, f) ==
  /\ rpc[s] = "body" /\ f.type = "end"
  /\ GoTo(s, IF got[s] = Meta(s).size THEN "rename" ELSE "remove")
  /\ UNCHANGED <<disk, slots, session, slot, completed, progress, net>>

\* file_end: rename when size and digest match, otherwise drop the partial.
RecvFileEnd(s, f) ==
  /\ rpc[s] = "body" /\ f.type = "end"
  /\ GoTo(s, IF got[s] = Meta(s).size /\ hashed[s] = Meta(s).sha
             THEN "rename" ELSE "remove")
  /\ UNCHANGED <<disk, slots, session, slot, completed, progress, net>>

\* More bytes than declared, or any other frame: the partial is discarded.
RecvBadBody(s, f) ==
  /\ rpc[s] = "body"
  /\ \/ f.type = "chunk" /\ got[s] + Len(f.data) > Meta(s).size
     \/ f.type \in {"query", "header", "session_end", "other"}
  /\ GoTo(s, "remove")
  /\ UNCHANGED <<disk, slots, session, slot, completed, progress, net>>

\* ReadHeader fails on a live connection: the partial is kept, as after a drop.
RecvGarbled(s, f) ==
  /\ rpc[s] = "body" /\ f.type = "garbled"
  /\ FailFile(s)
  /\ UNCHANGED <<disk, slots, session, slot, completed, progress, up>>

\* os.Rename replaces a file that is there; it fails on a directory.  A Close
\* that fails before it ends the same way.
Rename(s) ==
  /\ rpc[s] = "rename"
  /\ file[Dest(s)] # Dir
  /\ file' = [file EXCEPT ![Dest(s)] = part[Dest(s)]]
  /\ part' = [part EXCEPT ![Dest(s)] = Absent]
  /\ GoTo(s, "unmeta")
  /\ UNCHANGED <<sidecar, slots, session, slot, completed, progress, net>>

RenameFails(s) ==
  /\ rpc[s] = "rename"
  /\ file[Dest(s)] = Dir \/ DiskErrors
  /\ GoTo(s, "remove")
  /\ UNCHANGED <<disk, slots, session, slot, completed, progress, net>>

\* The file is in place: remove the sidecar, ack, back to the frame loop.
FileDone(s) ==
  /\ rpc[s] = "unmeta"
  /\ sidecar' \in Removed(sidecar, Dest(s))
  /\ completed' = [completed EXCEPT ![s] = @ \cup {cur[s]}]
  /\ Send(s, Ack(cur[s], TRUE))
  /\ GoTo(s, "loop")
  /\ Return({s})
  /\ UNCHANGED <<file, part, slots, session, slot, up>>

\* removePart, one file after the other, then the nack.
RemovePart(s) ==
  /\ rpc[s] = "remove"
  /\ part' \in Removed(part, Dest(s))
  /\ GoTo(s, "remove_meta")
  /\ UNCHANGED <<file, sidecar, slots, session, slot, completed, progress, net>>

RemovePartMeta(s) ==
  /\ rpc[s] = "remove_meta"
  /\ sidecar' \in Removed(sidecar, Dest(s))
  /\ FailFile(s)
  /\ UNCHANGED <<file, part, slots, session, slot, completed, progress, up>>

\* The deferred calls: every slot of the session is released, the connection
\* closed.
CloseSession(s) ==
  /\ rpc[s] = "closing"
  /\ slots' = slots \ {slot[s][i] : i \in Index}
  /\ GoTo(s, "closed")
  /\ Return({s})
  /\ up' = [up EXCEPT ![s] = FALSE]
  /\ UNCHANGED <<disk, session, slot, completed, reply>>
-----------------------------------------------------------------------------
(* The surroundings *)

\* The daemon dies and restarts: sessions, claims and connections are gone,
\* the disk stays.
Crash ==
  /\ \E s \in Session : Active(s)
  /\ rpc' = [s \in Session |-> IF Active(s) THEN "closed" ELSE rpc[s]]
  /\ slots' = {}
  /\ Return(Session)
  /\ up' = [s \in Session |-> FALSE]
  /\ UNCHANGED <<disk, session, slot, completed, reply>>

\* Another program creates a file in the download directory.
ForeignCreate(p) ==
  /\ file[p] = Absent
  /\ \E b \in Byte : file' = [file EXCEPT ![p] = <<b>>]
  /\ UNCHANGED <<part, sidecar, slots, rpc, session, slot, completed, progress, net>>

\* The connection is lost or closed by the remote end; a reply the peer has
\* not read may be lost with it.
Drop(s) ==
  /\ up[s]
  /\ up' = [up EXCEPT ![s] = FALSE]
  /\ \E r \in {reply[s], NoReply} : reply' = [reply EXCEPT ![s] = r]
  /\ UNCHANGED rvars

PeerReads(s) ==
  /\ reply[s] # NoReply
  /\ reply' = [reply EXCEPT ![s] = NoReply]
  /\ UNCHANGED <<rvars, up>>

\* What a session does with a frame it reads.
Handle(s, f) ==
  \/ RecvResumeQuery(s, f) \/ RecvProgress(s, f)
  \/ RecvDirHeader(s, f) \/ RecvDirEnd(s, f) \/ RecvFileHeader(s, f)
  \/ RecvSessionEnd(s, f) \/ RecvUnexpected(s, f)
  \/ RecvChunk(s, f) \/ ChunkFails(s, f) \/ RecvFileEnd(s, f) \/ RecvBadBody(s, f)
  \/ RecvGarbled(s, f)

\* What it does between two frames.
Work(s) ==
  \/ OpenPart(s) \/ OpenFails(s) \/ WritePartMeta(s)
  \/ Rename(s) \/ RenameFails(s) \/ FileDone(s)
  \/ RemovePart(s) \/ RemovePartMeta(s) \/ CloseSession(s)

\* Frames may still be handled after a drop: they were buffered.
Next ==
  \/ \E s \in Session : \/ StartSession(s) \/ Work(s) \/ RecvReadError(s)
                        \/ Drop(s) \/ PeerReads(s)
                        \/ \E f \in PeerFrame : Handle(s, f)
  \/ \E p \in Foreign : ForeignCreate(p)
  \/ Crash

Spec == Init /\ [][Next]_vars
-----------------------------------------------------------------------------
(* Properties *)

\* The slots of sessions in flight are exactly the claims in d.slots, and no
\* two files in flight share one: reserveSlot never hands out a destination
\* twice and the deferred release neither leaks a claim nor frees another's.
SlotsExclusive ==
  /\ slots = {slot[s][i] : s \in {t \in Session : Active(t)}, i \in Index} \ {NoPath}
  /\ \A s, t \in Session : \A i, j \in Index :
       /\ Active(s) /\ Active(t)
       /\ slot[s][i] # NoPath /\ slot[s][i] = slot[t][j]
       => s = t /\ i = j

\* While a file is being received, no other session writes to its
\* .adrop-part: the bytes counted are the bytes in it, and a hasher that was
\* fed as many was fed just those, whatever the file was resumed from.  Only
\* a seeding that failed unnoticed leaves the hasher with fewer.
HasherMatchesDisk ==
  \A s \in Session :
    rpc[s] \in {"meta", "body", "rename"} =>
      /\ part[Dest(s)] # Absent
      /\ got[s] = Len(part[Dest(s)])
      /\ Len(hashed[s]) <= got[s]
      /\ Len(hashed[s]) = got[s] => hashed[s] = part[Dest(s)]
      /\ ~DiskErrors => Len(hashed[s]) = got[s]

\* c is what entry m announces.  An entry whose size is not that of the
\* original announces no content; only the digest tells, and not for certain
\* once a seeding failed.
Fits(c, m) == Len(c) = m.size /\ (m.size = Len(m.sha) => c = m.sha)

\* Entry i of session s is in the download directory, whole.
Stored(s, i) ==
  IF manifest[s][i].isDir
  THEN manifest[s][i].dir \in Path /\ file[manifest[s][i].dir] = Dir
  ELSE /\ slot[s][i] \in Path
       /\ file[slot[s][i]] \notin {Absent, Dir}
       /\ Fits(file[slot[s][i]], manifest[s][i])

\* Every entry acked OK is on disk with the announced digest and size, from
\* then on, also after the session ended or the daemon crashed; and a final
\* OK is sent only when every entry is.
AckedIsStored ==
  \A s \in Session :
    /\ \A i \in completed[s] : InRange(s, i) /\ Stored(s, i)
    /\ reply[s] # NoReply /\ reply[s].ok =>
         /\ reply[s].type = "ack" => reply[s].idx \in completed[s]
         /\ reply[s].type = "final" => \A i \in 1..Len(manifest[s]) : i \in completed[s]

\* A file under its final name is one some session announced, complete: a
\* partial never becomes visible, whatever is dropped or crashes.
WholeFilesOnly ==
  \A p \in Path : file[p] \notin {Absent, Dir} =>
    \E s \in Session : \E i \in 1..Len(manifest[s]) :
      slot[s][i] = p /\ Fits(file[p], manifest[s][i])

\* "Never overwrites": a file that is in the directory is never replaced,
\* not even by the os.Rename at the end of another transfer.
NeverOverwrites ==
  [][\A p \in Path : file[p] # Absent => file'[p] = file[p]]_vars
-----------------------------------------------------------------------------
(* What a sender and a reader of the directory see of it: module Downloads *)

\* The contents of the files that may be announced.
AnnouncedContents ==
  {c \in Content : \E m \in Manifest : \E i \in 1..Len(m) : ~m[i].isDir /\ Fits(c, m[i])}

\* Where entry i of session s belongs, and what is there.
Place(s, i) == IF manifest[s][i].isDir THEN manifest[s][i].dir ELSE slot[s][i]
Found(s, i) == <<Place(s, i), file[Place(s, i)]>>

AckedEntries == UNION {{Found(s, i) : i \in completed[s]} : s \in Session}

D == INSTANCE Downloads
       WITH Whole <- AnnouncedContents, shown <- file, acked <- AckedEntries

\* Receiving is atomic to everyone outside: whatever sessions interleave, are
\* dropped or crash, each file appears whole under a free name in one step,
\* is acknowledged only once it is there, and neither is ever taken back.
ImplementsDownloads == D!DSpec
-----------------------------------------------------------------------------
(* The inductive invariant behind the safety properties, for a download      *)
(* directory no other program writes to (Foreign = {}).                      *)

\* A session that has not started holds nothing; one that has, knows its
\* manifest.
SessionsWellFormed ==
  \A s \in Session :
    /\ rpc[s] = "idle" => /\ manifest[s] = <<>> /\ completed[s] = {}
                          /\ reply[s] = NoReply
                          /\ \A i \in Index : slot[s][i] = NoPath
    /\ rpc[s] # "idle" => manifest[s] \in Manifest

\* Inside receiveOneFile the current index names a file not yet completed,
\* with a slot; a directory's end is awaited only for a directory.
CurrentFile ==
  \A s \in Session :
    /\ rpc[s] \in Body => /\ InRange(s, cur[s]) /\ ~Meta(s).isDir
                          /\ cur[s] \notin completed[s]
                          /\ Dest(s) \in Path
    /\ rpc[s] = "dir_end" => /\ InRange(s, cur[s]) /\ Meta(s).isDir
                             /\ cur[s] \notin completed[s]

\* The offset chosen at file_header is the size of the partial that is opened.
OffsetFits ==
  \A s \in Session :
    rpc[s] = "open" /\ offset[s] > 0 =>
      part[Dest(s)] # Absent /\ Len(part[Dest(s)]) = offset[s]

\* What is renamed into place is what was announced.
Verified ==
  \A s \in Session :
    /\ rpc[s] = "rename" => hashed[s] = Meta(s).sha /\ got[s] = Meta(s).size
    /\ rpc[s] = "unmeta" => /\ file[Dest(s)] \notin {Absent, Dir}
                            /\ Fits(file[Dest(s)], Meta(s))

\* The destination of a file still on its way holds no file.
NotYetThere ==
  \A s \in Session : \A i \in Index :
    /\ Active(s) /\ slot[s][i] # NoPath /\ i \notin completed[s]
    /\ ~(rpc[s] = "unmeta" /\ i = cur[s])
    => file[slot[s][i]] \in {Absent, Dir}

IInv ==
  /\ TypeOK /\ SessionsWellFormed /\ CurrentFile /\ OffsetFits /\ Verified
  /\ SlotsExclusive /\ HasherMatchesDisk /\ NotYetThere
  /\ AckedIsStored /\ WholeFilesOnly
=============================================================================
