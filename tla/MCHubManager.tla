---------------------------- MODULE MCHubManager ----------------------------
EXTENDS HubManager

CONSTANTS dud1, dud2, good

\* Two hubs that promise nothing come first; the good one is only in the
\* catalog.
MCFirst == <<dud1, dud2>>
MCCatalog == <<dud2, good>>
=============================================================================
