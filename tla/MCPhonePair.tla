----------------------------- MODULE MCPhonePair ----------------------------
EXTENDS PhonePair, TLC

CONSTANTS fp1, na, i1, i2, c1, c2, c3

MCFp == {fp1}
MCConn == {c1, c2, c3}

Symmetric == Permutations(MCConn)
=============================================================================
