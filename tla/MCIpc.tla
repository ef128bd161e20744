-------------------------------- MODULE MCIpc --------------------------------
EXTENDS Ipc
CONSTANTS c1, c2
TwoClients == {c1, c2}
=============================================================================
