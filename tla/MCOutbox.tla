------------------------------ MODULE MCOutbox ------------------------------
(* A file and a short clipboard text. *)
EXTENDS Outbox

CONSTANTS f, c

FileAndClip == {f, c}
OnlyClip == {c}
=============================================================================
