SPECIFICATION Spec
CONSTANTS
  s1 = s1  s2 = s2  a = a  p0 = p0  p1 = p1  d = d  x = x  y = y  b = b
  Absent = Absent  Dir = Dir  NoPath = NoPath  NoReply = NoReply  BadPath = BadPath
  Session <- MCSession
  Path <- MCPath
  Name <- MCName
  Candidates <- MCCandidates
  Byte <- MCByte
  Manifest <- MCManifest
  PeerFrame <- MCPeerFrame
  Foreign = {}
  DiskErrors = TRUE
  MaxFiles = 2
INVARIANTS SlotsExclusive HasherMatchesDisk AckedIsStored
PROPERTIES ImplementsDownloads
CHECK_DEADLOCK FALSE
SYMMETRY Sessions
