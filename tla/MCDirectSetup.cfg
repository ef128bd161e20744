SPECIFICATION FairSpec
CONSTANTS
  s1 = s1
  Setup <- MCSetup
  SetupLife = 2
  InboxLife = 2
  MaxRepeats = 1
  MaxCands = 1
INVARIANTS SetupHears
PROPERTIES InboxesGo SetupsEnd
