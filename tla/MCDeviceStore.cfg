SPECIFICATION Spec
CONSTANTS
  fp1 = fp1  fp2 = fp2  na = na  nb = nb  i1 = i1  i2 = i2  s1 = s1
  None = None
  Fp <- MCFp
  Name <- MCName
  Info = {i1, i2}
  Sends = {s1}
  DiskErrors = TRUE
INVARIANTS RevokedStaysOut
CHECK_DEADLOCK FALSE
SYMMETRY Fingerprints
