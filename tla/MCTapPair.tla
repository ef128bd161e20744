----------------------------- MODULE MCTapPair ------------------------------
EXTENDS TapPair

CONSTANTS p1, p2

MCPairing == {p1, p2}
=============================================================================
