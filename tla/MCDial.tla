------------------------------- MODULE MCDial -------------------------------
EXTENDS Dial

CONSTANTS f1, f2, a1, a2

MCFp == {f1, f2}
MCAddr == {a1, a2}
=============================================================================
