----------------------------- MODULE MCHubClip ------------------------------
(* A text of three packets, the last a short one, an empty text, and a ping. *)
EXTENDS HubClip

CONSTANTS t1, t2, g1, x, y

MCText == {t1, t2}
MCPing == {g1}
MCByte == {x, y}
MCOriginal == [t \in MCText |-> IF t = t1 THEN <<x, x, y, x, y>> ELSE <<>>]
=============================================================================
