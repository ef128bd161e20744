---------------------------- MODULE MCDirectSetup ----------------------------
EXTENDS DirectSetup
CONSTANT s1
MCSetup == {s1}
=============================================================================
