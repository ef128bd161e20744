SPECIFICATION DFairSpec
CONSTANTS
  f1 = f1  f2 = f2  a1 = a1  a2 = a2
  Away = Away  None = None
  Fp <- MCFp
  Addr <- MCAddr
  MaxEvents = 3
INVARIANTS ThereIsReached
PROPERTIES DialReturns
CHECK_DEADLOCK FALSE
