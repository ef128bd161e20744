------------------------------ MODULE Downloads ------------------------------
(***************************************************************************)
(* What receiving promises, without sessions, slots, partials and crashes: *)
(* whole files and folders appear in the download directory under names    *)
(* that were free, and what was acknowledged stays as it is.  Module       *)
(* Receiver implements this.                                               *)
(***************************************************************************)
CONSTANTS
  Path,         \* paths of the download directory
  Whole,        \* the complete contents senders announce
  Absent, Dir   \* a path that does not exist, a path that is a directory

VARIABLES
  shown,        \* shown[p]: what a reader of the directory finds at p
  acked         \* <<p, c>>: a sender was told that c is stored at p

dvars == <<shown, acked>>

DInit ==
  /\ shown = [p \in Path |-> Absent]
  /\ acked = {}

\* A folder, or a file all at once, takes a free name.
Appears(p) ==
  /\ shown[p] = Absent
  /\ shown'[p] \in {Dir} \cup Whole
  /\ shown' = [shown EXCEPT ![p] = shown'[p]]

Receive(p) == Appears(p) /\ UNCHANGED acked

\* A sender is told of what is there; a folder may be made by the same step.
Acknowledge(p) ==
  /\ UNCHANGED shown \/ (Appears(p) /\ shown'[p] = Dir)
  /\ shown'[p] # Absent
  /\ acked' = acked \cup {<<p, shown'[p]>>}

DNext == \E p \in Path : Receive(p) \/ Acknowledge(p)

DSpec == DInit /\ [][DNext]_dvars
-----------------------------------------------------------------------------
(* What follows from it *)

\* Everything that was acknowledged is there, and nothing else than what was
\* announced.
Kept ==
  /\ shown \in [Path -> Whole \cup {Dir, Absent}]
  /\ \A e \in acked : shown[e[1]] = e[2]

\* A name that is taken never changes what it shows.
Settled == [][\A p \in Path : shown[p] # Absent => shown'[p] = shown[p]]_dvars
=============================================================================
