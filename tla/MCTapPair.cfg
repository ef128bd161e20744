SPECIFICATION FairSpec
CONSTANTS
  p1 = p1  p2 = p2  Nothing = Nothing
  Pairing <- MCPairing
INVARIANTS SavedOnlyIfBothYes SidesAgree
PROPERTY ConfirmReturns
CHECK_DEADLOCK FALSE
