SPECIFICATION FairSpec
CONSTANTS
  t1 = t1  t2 = t2  x = x  y = y  NoClip = NoClip
  Text <- MCText
  g1 = g1
  Ping <- MCPing
  Byte <- MCByte
  Original <- MCOriginal
  HubClipPart = 2
  HubClipMax = 5
  MaxTimers = 2
INVARIANTS SetIsOriginal SentIsSet PacketsAcceptable
PROPERTY CollectionsExpire
CHECK_DEADLOCK FALSE
