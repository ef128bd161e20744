----------------------------- MODULE MCTransfer -----------------------------
(* Sends of two files and a folder that share a name; the folder holds an     *)
(* empty file.                                                                 *)
EXTENDS Transfer, TLC

CONSTANTS s1, s2, a, b, p0, p1, q0, q1, x, y, f1, f2, g, h

MCSession == {s1, s2}
MCPath == {p0, p1, q0, q1}
MCName == {a, b}
MCCandidates == [n \in MCName |-> IF n = a THEN <<p0, p1>> ELSE <<q0, q1>>]
MCByte == {x, y}
MCSource == {f1, f2, h}
MCFolder == {g}
MCBaseName == [e \in MCSource \cup MCFolder |-> IF e = h THEN b ELSE a]
MCRelDir == [e \in MCSource \cup MCFolder |-> IF e \in {g, h} THEN p0 ELSE NoPath]
MCOriginal == [f \in MCSource |-> CASE f = f1 -> <<x, y>> [] f = f2 -> <<y, y>> [] f = h -> <<>>]
MCJobs == {<<f1>>, <<f2>>, <<g, h>>}
MCEdited == [f \in MCSource |-> IF f = f1 THEN {<<y, y>>} ELSE {}]

E(n, c, dir) == [name |-> n, sha |-> c, size |-> Len(c), isDir |-> FALSE, dir |-> dir]
G == [name |-> a, sha |-> <<>>, size |-> 0, isDir |-> TRUE, dir |-> p0]
MCManifest == {<<E(a, c, NoPath)>> : c \in {<<x, y>>, <<y, y>>}} \cup {<<G, E(b, <<>>, p0)>>}

MCPeerFrame ==
  {FrameOf(t, i, <<>>) : t \in {"query", "header", "end"}, i \in 1..2}
  \cup {FrameOf("chunk", 1, <<c>>) : c \in {x, y}}
  \cup {FrameOf("progress", 1, <<>>), FrameOf("session_end", 0, <<>>)}

Sessions == Permutations(MCSession)
=============================================================================
