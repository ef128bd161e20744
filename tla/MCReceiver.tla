----------------------------- MODULE MCReceiver -----------------------------
(* Two sessions against an arbitrary remote end: a folder d and then an entry *)
(* with an unsafe rel_path; a file of two bytes in folder p0, whose name is    *)
(* the path d as well.                                                         *)
EXTENDS Receiver, TLC

CONSTANTS s1, s2, a, b, p0, p1, d, x, y

MCSession == {s1, s2}
MCPath == {p0, p1, d}
MCName == {a, b}
MCCandidates == [n \in MCName |-> IF n = a THEN <<p0>> ELSE <<d, p1>>]
MCByte == {x, y}

FileEntry(n, sha, dir) ==
  [name |-> n, sha |-> sha, size |-> Len(sha), isDir |-> FALSE, dir |-> dir]
DirEntry(dir) ==
  [name |-> a, sha |-> <<>>, size |-> 0, isDir |-> TRUE, dir |-> dir]

MCManifest == { <<DirEntry(d), FileEntry(a, <<>>, BadPath)>>,
                <<FileEntry(b, <<x, y>>, p0)>> }

F(t, i, data) == [type |-> t, idx |-> i, data |-> data]
MCPeerFrame ==
  {F("header", i, <<>>) : i \in 1..2}
  \cup {F(t, 1, <<>>) : t \in {"query", "end", "progress"}}
  \cup {F("chunk", 1, <<x, y>>), F("chunk", 1, <<y>>)}
  \cup {F(t, 0, <<>>) : t \in {"session_end", "garbled"}}

Sessions == Permutations(MCSession)
=============================================================================
