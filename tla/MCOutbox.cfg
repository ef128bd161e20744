SPECIFICATION FairSpec
CONSTANTS
  f = f  c = c
  Item <- FileAndClip
  Clips <- OnlyClip
  Short <- OnlyClip
  QueueAll = TRUE
  Reticulum = TRUE
  OnReticulum = TRUE
  DiskErrors = TRUE
INVARIANTS QueueIsWhatWaits TakenOnce KickPending
PROPERTY QueueDrains
CHECK_DEADLOCK FALSE
