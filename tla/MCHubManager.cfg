SPECIFICATION HFairSpec
CONSTANTS
  dud1 = dud1  dud2 = dud2  good = good
  Hub = {dud1, dud2, good}
  Good = {good}
  First <- MCFirst
  Catalog <- MCCatalog
  Want = 1  Grace = 1  Silence = 2  Backoff = 4  MaxBreaks = 1
INVARIANTS LinksManaged
PROPERTIES KeepsWant UpIsAnnounced
