SPECIFICATION PSpec
CONSTANTS
  fp1 = fp1  na = na  i1 = i1  i2 = i2  c1 = c1  c2 = c2  c3 = c3
  None = None
  Fp <- MCFp
  Name = {na}
  Info = {i1, i2}
  Sends = {}
  Conn <- MCConn
  DiskErrors = TRUE
  MaxWindows = 2
  Phone = fp1
  Bare = i1
INVARIANTS TrustedWasInvited SessionIsPaired PairIsMutual
PROPERTIES OtherWindowsStay
CHECK_DEADLOCK FALSE
SYMMETRY Symmetric
