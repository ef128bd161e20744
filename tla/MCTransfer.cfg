SPECIFICATION TSpec
CONSTANTS
  s1 = s1  s2 = s2  a = a  b = b  p0 = p0  p1 = p1  q0 = q0  q1 = q1  x = x  y = y
  f1 = f1  f2 = f2  g = g  h = h
  Absent = Absent  Dir = Dir  NoPath = NoPath  NoReply = NoReply  BadPath = BadPath
  Session <- MCSession
  Path <- MCPath
  Name <- MCName
  Candidates <- MCCandidates
  Byte <- MCByte
  Manifest <- MCManifest
  PeerFrame <- MCPeerFrame
  Source <- MCSource
  Folder <- MCFolder
  BaseName <- MCBaseName
  RelDir <- MCRelDir
  Original <- MCOriginal
  Jobs <- MCJobs
  Edited <- MCEdited
  Foreign = {}
  DiskErrors = FALSE
  MaxFiles = 2
  ChunkSize = 1
  MaxInFlight = 1
  MaxEdits = 1
INVARIANTS SentIsStored PartialIsPrefix NoFalseReject NoStandstill
PROPERTY ImplementsReceiver
CHECK_DEADLOCK FALSE
SYMMETRY Sessions
