--------------------------- MODULE MCDeviceStore ----------------------------
EXTENDS DeviceStore, TLC

CONSTANTS fp1, fp2, na, nb, i1, i2, s1

MCFp == {fp1, fp2}
MCName == {na, nb}

Fingerprints == Permutations(MCFp) \cup Permutations(MCName)
=============================================================================
