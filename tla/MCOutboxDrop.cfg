SPECIFICATION Spec
CONSTANTS
  f = f  c = c
  Item <- FileAndClip
  Clips <- OnlyClip
  Short <- OnlyClip
  QueueAll = TRUE
  Reticulum = TRUE
  OnReticulum = TRUE
  DiskErrors = TRUE
INVARIANTS DroppedOnlyWhenHopeless
CHECK_DEADLOCK FALSE
