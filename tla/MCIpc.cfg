SPECIFICATION IFairSpec
CONSTANTS
  c1 = c1  c2 = c2
  NoWindow = NoWindow
  Client <- TwoClients
  Buffer = 2
  MaxBroadcasts = 3
INVARIANTS AnsweredOnce NoSendOnClosed
PROPERTY LeaverIsCleanedUp
CHECK_DEADLOCK FALSE
