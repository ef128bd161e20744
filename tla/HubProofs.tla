----------------------------- MODULE HubProofs ------------------------------
(***************************************************************************)
(* What travels over the Reticulum hubs arrives whole, and the hubs in use *)
(* and the connections to them agree: the proofs for HubClip and           *)
(* HubManager.                                                             *)
(***************************************************************************)
EXTENDS HubClip, HubManager, FiniteSetTheorems, WellFoundedInduction, TLAPS
-----------------------------------------------------------------------------
(* Loops: a recursion over a range of numbers, which is how the modules    *)
(* write a loop of the code, has a solution, and what every round keeps    *)
(* holds in the end.                                                       *)

\* A set of numbers that is not empty has a least one.
LEMMA Least ==
  ASSUME NEW S, S \subseteq Nat, S # {}
  PROVE  \E m \in S : \A k \in S : m <= k
<1>1. PICK m \in S : \A k \in S : ~ (<<k, m>> \in OpToRel(<, Nat))
  BY WFMin, NatLessThanWellFounded
<1>2. ASSUME NEW k \in S
      PROVE  m <= k
  <2>1. k \in Nat /\ m \in Nat
    OBVIOUS
  <2>2. k < m => <<k, m>> \in OpToRel(<, Nat)
    BY <2>1 DEF OpToRel
  <2>3. ~(k < m)
    BY <1>1, <2>2, Zenon
  <2> QED
    BY <2>1, <2>3
<1> QED
  BY <1>2

\* What m rounds of a loop compute that begins with e and does f[k] in round k.
Rounds(f, e, V, m) ==
  {g \in [0..m -> V] : g[0] = e /\ \A k \in 1..m : g[k] = f[k][g[k - 1]]}

LEMMA NoRound ==
  ASSUME NEW V, NEW e \in V, NEW f
  PROVE  Rounds(f, e, V, 0) # {}
<1>1. [x \in 0..0 |-> e] \in [0..0 -> V]
  OBVIOUS
<1>2. [x \in 0..0 |-> e][0] = e /\ 1..0 = {}
  OBVIOUS
<1> QED
  BY <1>1, <1>2, Zenon DEF Rounds

LEMMA OneMoreRound ==
  ASSUME NEW V, NEW e \in V, NEW n \in Nat, NEW f, \A k \in 1..n : \A v \in V : f[k][v] \in V,
         NEW m \in 1..n, NEW g \in Rounds(f, e, V, m - 1)
  PROVE  Rounds(f, e, V, m) # {}
<1> DEFINE h == [x \in 0..m |-> IF x = m THEN f[m][g[m - 1]] ELSE g[x]]
<1>1. g \in [0..(m - 1) -> V] /\ g[0] = e /\ \A k \in 1..(m - 1) : g[k] = f[k][g[k - 1]]
  BY DEF Rounds
<1>2. h \in [0..m -> V] /\ h[0] = e
  <2>1. ASSUME NEW x \in 0..m
        PROVE  (IF x = m THEN f[m][g[m - 1]] ELSE g[x]) \in V
    BY <1>1
  <2>2. 0 \in 0..m /\ 0 # m
    OBVIOUS
  <2> QED
    BY <1>1, <2>1, <2>2
<1>3. ASSUME NEW k \in 1..m
      PROVE  h[k] = f[k][h[k - 1]]
  <2>1. k \in 0..m /\ k - 1 \in 0..m /\ k - 1 # m
    OBVIOUS
  <2>2. h[k - 1] = g[k - 1]
    BY <2>1
  <2>3. CASE k = m
    BY <2>1, <2>2, <2>3
  <2>4. CASE k # m
    BY <1>1, <2>1, <2>2, <2>4
  <2> QED
    BY <2>3, <2>4, Zenon
<1> HIDE DEF h
<1> QED
  BY <1>2, <1>3 DEF Rounds

\* A loop computes something: the recursion that defines it has a solution.
LEMMA Recursion ==
  ASSUME NEW V, NEW n \in Nat, NEW e \in V, NEW f, \A k \in 1..n : \A v \in V : f[k][v] \in V
  PROVE  Rounds(f, e, V, n) # {}
<1> DEFINE S == {m \in 0..n : Rounds(f, e, V, m) = {}}
<1>1. S \subseteq Nat
  OBVIOUS
<1>2. ASSUME S # {}
      PROVE  FALSE
  <2> HIDE DEF S
  <2>1. PICK m \in S : \A k \in S : m <= k
    BY <1>1, <1>2, Least, Zenon
  <2> USE DEF S
  <2>2. m \in 0..n /\ Rounds(f, e, V, m) = {}
    OBVIOUS
  <2>3. m # 0
    BY <2>2, NoRound
  <2>4. m \in 1..n /\ m - 1 \in 0..n
    BY <2>2, <2>3
  <2>5. m - 1 \notin S
    BY <2>1, <2>4
  <2>6. Rounds(f, e, V, m - 1) # {}
    BY <2>4, <2>5
  <2> QED
    BY <2>2, <2>4, <2>6, OneMoreRound, Zenon
<1>3. n \in 0..n
  OBVIOUS
<1> QED
  BY <1>2, <1>3

\* What every round keeps holds after every round.
LEMMA RoundsKeep ==
  ASSUME NEW V, NEW n \in Nat, NEW U, U[0] \in V, \A k \in 1..n : U[k - 1] \in V => U[k] \in V
  PROVE  \A k \in 0..n : U[k] \in V
<1> DEFINE S == {k \in 0..n : U[k] \notin V}
<1>1. ASSUME S # {}
      PROVE  FALSE
  <2>1. S \subseteq Nat
    OBVIOUS
  <2> HIDE DEF S
  <2>2. PICK k \in S : \A j \in S : k <= j
    BY <1>1, <2>1, Least, Zenon
  <2>3. k \in 0..n /\ U[k] \notin V
    BY DEF S
  <2>4. k \in 1..n /\ k - 1 \in 0..n
    BY <2>3
  <2>5. k - 1 \notin S
    BY <2>2, <2>4
  <2>6. U[k - 1] \in V
    BY <2>4, <2>5 DEF S
  <2> QED
    BY <2>3, <2>4, <2>6
<1> QED
  BY <1>1
-----------------------------------------------------------------------------
(* HubClip *)

\* What is collected of a text is the parts the sender made of it, each under
\* its number.
Gathered(t) ==
  clips[t] # NoClip =>
    /\ DOMAIN clips[t] \subseteq 0..(Parts(t) - 1)
    /\ clips[t] = [n \in DOMAIN clips[t] |-> Piece(t, n)]

\* An answer under way, or one that was taken, is one the receiver gave.
Answered(i) == i \in acks \cup acked

ClipInv ==
  /\ spc \in [Text -> {"idle", "parts", "waiting", "sent", "failed"}]
  /\ ppc \in [Ping -> {"idle", "waiting", "answered", "failed"}]
  /\ sent \in [Text -> Nat]
  /\ clips = [t \in Text |-> clips[t]]
  /\ \A t \in Text : spc[t] \in {"idle", "parts"} => sent[t] < Parts(t)
  /\ \A p \in air : \E t \in Text : \E n \in 0..(Parts(t) - 1) : p = Packet(t, n)
  /\ \A t \in Text : Gathered(t)
  /\ \A t \in Text : Answered(t) \/ spc[t] = "sent" => \E c \in clipboard : c.id = t
  /\ \A g \in Ping : Answered(g) \/ ppc[g] = "answered" => g \in heard
  /\ SetIsOriginal

LEMMA Division ==
  ASSUME NEW x \in Nat, NEW d \in Nat \ {0}
  PROVE  /\ x \div d \in Nat
         /\ (x \div d) * d <= x /\ x < (x \div d) * d + d
  OBVIOUS

LEMMA Multiples ==
  ASSUME NEW j \in Nat, NEW k \in Nat, NEW d \in Nat \ {0}
  PROVE  /\ j * d \in Nat /\ (j + 1) * d = j * d + d
         /\ j < k => j * d + d <= k * d
  OBVIOUS

\* The parts of a text are as many as it takes and not one more.
LEMMA PartsFit ==
  ASSUME HubClipConstantsOK, NEW t \in Text
  PROVE  /\ Original[t] \in Seq(Byte) /\ Len(Original[t]) \in Nat
         /\ Parts(t) \in Nat \ {0}
         /\ Parts(t) * HubClipPart <= HubClipMax + HubClipPart
         /\ Len(Original[t]) <= Parts(t) * HubClipPart
         /\ \A n \in 0..(Parts(t) - 1) : n * HubClipPart <= Len(Original[t])
<1> DEFINE L == Len(Original[t])
           d == HubClipPart
           k == (L + d - 1) \div d
<1>1. d \in Nat \ {0} /\ Original[t] \in Seq(Byte) /\ L \in Nat /\ L <= HubClipMax
      /\ HubClipMax \in Nat
  BY DEF HubClipConstantsOK
<1>2. Parts(t) = IF k = 0 THEN 1 ELSE k
  BY DEF Parts, PartsFor
<1> HIDE DEF L, d
<1>3. L + d - 1 \in Nat
  BY <1>1
<1>4. k \in Nat /\ k * d <= L + d - 1 /\ L + d - 1 < k * d + d
  BY <1>1, <1>3, Division, Zenon
<1> HIDE DEF k
<1>5. CASE k = 0
  BY <1>1, <1>2, <1>4, <1>5 DEF L, d
<1>6. CASE k # 0
  <2>1. ASSUME NEW n \in 0..(k - 1)
        PROVE  n * d <= L
    <3>1. n \in Nat /\ n < k
      BY <1>4
    <3>2. n * d \in Nat /\ n * d + d <= k * d /\ k * d \in Nat
      BY <1>1, <1>4, <3>1, Multiples
    <3> QED
      BY <1>1, <1>4, <3>2, SMTT(30)
  <2>2. k * d \in Nat
    BY <1>1, <1>4, Multiples
  <2>3. Parts(t) = k /\ k \in Nat \ {0}
    BY <1>2, <1>4, <1>6
  <2>4. k * d <= HubClipMax + d /\ L <= k * d
    BY <1>1, <1>4, <2>2
  <2> QED
    BY <1>1, <2>1, <2>3, <2>4 DEF L, d
<1> QED
  BY <1>5, <1>6

\* Where part k of a text begins.
From(t, k) == IF k * HubClipPart < Len(Original[t]) THEN k * HubClipPart ELSE Len(Original[t])

\* The parts follow one another.
LEMMA PiecesFollow ==
  ASSUME HubClipConstantsOK, NEW t \in Text, NEW n \in 0..(Parts(t) - 1)
  PROVE  /\ Piece(t, n) \in Seq(Byte) /\ Len(Piece(t, n)) <= HubClipPart
         /\ SubSeq(Original[t], 1, From(t, n)) \o Piece(t, n) = SubSeq(Original[t], 1, From(t, n + 1))
<1> DEFINE s == Original[t]
           a == n * HubClipPart
           b == From(t, n + 1)
<1>1. /\ s \in Seq(Byte) /\ HubClipPart \in Nat \ {0} /\ n \in Nat /\ a <= Len(s)
  BY PartsFit DEF HubClipConstantsOK
<1>2. a \in Nat /\ (n + 1) * HubClipPart = a + HubClipPart
  BY <1>1, Multiples
<1>3. Piece(t, n) = SubSeq(s, a + 1, b)
  <2>1. CASE (n + 1) * HubClipPart < Len(Original[t])
    BY <2>1 DEF Piece, From
  <2>2. CASE ~((n + 1) * HubClipPart < Len(Original[t]))
    BY <2>2 DEF Piece, From
  <2> QED
    BY <2>1, <2>2
<1>4. From(t, n) = a
  <2>1. From(t, n) = IF a < Len(s) THEN a ELSE Len(s)
    BY Zenon DEF From
  <2>2. Len(s) \in Nat
    BY <1>1
  <2> HIDE DEF a, s
  <2> QED
    BY <1>1, <1>2, <2>1, <2>2
<1>5. b \in a..Len(s) /\ b <= a + HubClipPart
  BY <1>1, <1>2 DEF From
<1> HIDE DEF s, a, b
<1>6. SubSeq(s, a + 1, b) \in Seq(Byte) /\ Len(SubSeq(s, a + 1, b)) = b - a
  BY <1>1, <1>2, <1>5
<1>7. SubSeq(s, 1, a) \o SubSeq(s, a + 1, b) = SubSeq(s, 1, b)
  BY <1>1, <1>2, <1>5
<1> QED
  BY <1>1, <1>2, <1>3, <1>4, <1>5, <1>6, <1>7, SMTT(30) DEF s, b

\* All parts, joined in the order of their numbers, are the text.
LEMMA JoinRight ==
  ASSUME HubClipConstantsOK, NEW t \in Text
  PROVE  Join([n \in 0..(Parts(t) - 1) |-> Piece(t, n)]) = Original[t]
<1> DEFINE m == Parts(t)
           c == [n \in 0..(m - 1) |-> Piece(t, n)]
           Body(U) == [k \in 0..m |-> IF k = 0 THEN <<>> ELSE U[k - 1] \o c[k - 1]]
           Upto == CHOOSE U : U = Body(U)
<1>1. /\ m \in Nat \ {0} /\ Original[t] \in Seq(Byte)
      /\ Len(Original[t]) \in Nat /\ Len(Original[t]) <= m * HubClipPart
  BY PartsFit
<1> HIDE DEF m
<1>2. Cardinality(DOMAIN c) = m
  <2>1. DOMAIN c = 0..(m - 1) /\ 0 \in Int /\ m - 1 \in Int
    BY <1>1
  <2>2. Cardinality(0..(m - 1)) = IF 0 > m - 1 THEN 0 ELSE m - 1 - 0 + 1
    BY <2>1, FS_Interval, Zenon
  <2> QED
    BY <1>1, <2>1, <2>2
<1>3. ASSUME NEW k \in 1..m
      PROVE  c[k - 1] = Piece(t, k - 1) /\ k - 1 \in 0..(m - 1) /\ c[k - 1] \in Seq(Byte)
  BY <1>1, PiecesFollow DEF m
<1> HIDE DEF c
<1>4. \E U : U = Body(U)
  <2> DEFINE f == [k \in 1..m |-> [v \in Seq(Byte) |-> v \o c[k - 1]]]
  <2>1. <<>> \in Seq(Byte)
    OBVIOUS
  <2>2. \A k \in 1..m : \A v \in Seq(Byte) : f[k][v] = v \o c[k - 1] /\ f[k][v] \in Seq(Byte)
    BY <1>3, SMTT(30)
  <2> HIDE DEF f
  <2>3. PICK g : g \in Rounds(f, <<>>, Seq(Byte), m)
    <3>1. m \in Nat /\ \A k \in 1..m : \A v \in Seq(Byte) : f[k][v] \in Seq(Byte)
      BY <1>1, <2>2
    <3>2. Rounds(f, <<>>, Seq(Byte), m) # {}
      BY <2>1, <3>1, Recursion, Zenon
    <3> QED
      BY <3>2
  <2>4. /\ g \in [0..m -> Seq(Byte)] /\ g[0] = <<>>
        /\ \A k \in 1..m : g[k] = f[k][g[k - 1]]
    BY <2>3 DEF Rounds
  <2>5. ASSUME NEW k \in 0..m
        PROVE  g[k] = IF k = 0 THEN <<>> ELSE g[k - 1] \o c[k - 1]
    <3>1. CASE k = 0
      BY <2>4, <3>1
    <3>2. CASE k # 0
      <4>1. k \in 1..m /\ k - 1 \in 0..m
        BY <1>1, <3>2
      <4>2. g[k] = f[k][g[k - 1]] /\ g[k - 1] \in Seq(Byte)
        BY <2>4, <4>1, Zenon
      <4> QED
        BY <2>2, <3>2, <4>1, <4>2, Zenon
    <3> QED
      BY <3>1, <3>2
  <2>6. g = Body(g)
    BY <2>4, <2>5, Zenon
  <2> HIDE DEF Body
  <2> QED
    BY <2>6
<1>5. Upto = Body(Upto)
  <2> HIDE DEF Body
  <2> QED
    BY <1>4
<1>6. Join(c) = Upto[m]
  BY <1>2, Zenon DEF Join
<1> HIDE DEF Upto
<1>7. /\ Upto[0] = <<>>
      /\ \A k \in 1..m : Upto[k] = Upto[k - 1] \o c[k - 1]
  <2>1. ASSUME NEW k \in 0..m
        PROVE  Upto[k] = IF k = 0 THEN <<>> ELSE Upto[k - 1] \o c[k - 1]
    BY <1>5, Zenon
  <2>2. 0 \in 0..m /\ \A k \in 1..m : k \in 0..m /\ k # 0
    BY <1>1
  <2> QED
    BY <2>1, <2>2, Zenon
<1>8. ASSUME NEW i \in 0..m, Upto[i] # SubSeq(Original[t], 1, From(t, i))
      PROVE  FALSE
  <2> DEFINE S == {k \in 0..m : Upto[k] # SubSeq(Original[t], 1, From(t, k))}
  <2>1. S \subseteq Nat /\ S # {}
    BY <1>1, <1>8, SMTT(30)
  <2> HIDE DEF S
  <2>2. PICK k \in S : \A j \in S : k <= j
    BY <2>1, Least, Zenon
  <2> USE DEF S
  <2>3. k \in 0..m /\ Upto[k] # SubSeq(Original[t], 1, From(t, k))
    OBVIOUS
  <2>4. SubSeq(Original[t], 1, From(t, 0)) = <<>>
    <3>1. From(t, 0) = 0
      BY <1>1 DEF From, HubClipConstantsOK
    <3> QED
      BY <1>1, <3>1
  <2>5. k \in 1..m /\ k - 1 \in 0..m
    <3>1. k # 0
      BY <1>7, <2>3, <2>4, Zenon
    <3> QED
      BY <1>1, <2>3, <3>1
  <2>6. Upto[k - 1] = SubSeq(Original[t], 1, From(t, k - 1))
    BY <2>2, <2>5
  <2>7. Upto[k] = Upto[k - 1] \o Piece(t, k - 1)
    BY <1>3, <1>7, <2>5, Zenon
  <2>8. k - 1 \in 0..(Parts(t) - 1) /\ (k - 1) + 1 = k
    BY <1>3, <2>5 DEF m
  <2>9. SubSeq(Original[t], 1, From(t, k - 1)) \o Piece(t, k - 1) = SubSeq(Original[t], 1, From(t, k))
    BY <2>8, PiecesFollow, Zenon
  <2> QED
    BY <2>3, <2>6, <2>7, <2>9, Zenon
<1>9. From(t, m) = Len(Original[t])
  BY <1>1 DEF From, HubClipConstantsOK
<1>10. SubSeq(Original[t], 1, Len(Original[t])) = Original[t]
  BY <1>1
<1>11. Upto[m] = SubSeq(Original[t], 1, From(t, m))
  BY <1>1, <1>8
<1> QED
  BY <1>6, <1>9, <1>10, <1>11 DEF c, m

\* A packet the sender makes passes the receiver's bounds.
LEMMA PacketFits ==
  ASSUME HubClipConstantsOK, NEW t \in Text, NEW n \in 0..(Parts(t) - 1)
  PROVE  Acceptable(Packet(t, n))
<1> DEFINE p == Packet(t, n)
<1>1. p.of = Parts(t) /\ p.n = n /\ p.data = Piece(t, n)
  BY DEF Packet
<1>2. /\ Parts(t) \in Nat \ {0}
      /\ Parts(t) * HubClipPart <= HubClipMax + HubClipPart
  BY PartsFit
<1>3. Parts(t) * HubClipPart \in Nat /\ HubClipMax + HubClipPart \in Nat
  BY <1>2, Multiples DEF HubClipConstantsOK
<1>4. ~TooManyParts(Parts(t))
  BY <1>2, <1>3 DEF TooManyParts
<1>5. Len(Piece(t, n)) <= HubClipPart
  BY PiecesFollow
<1> HIDE DEF p
<1>6. Acceptable(p)
  BY <1>1, <1>2, <1>4, <1>5 DEF Acceptable
<1> QED
  BY <1>6 DEF p

LEMMA InitClipInv ==
  ASSUME HubClipConstantsOK, Init
  PROVE  ClipInv
<1>1. \A t \in Text : Parts(t) \in Nat \ {0}
  BY PartsFit
<1> QED
  BY <1>1 DEF Init, ClipInv, Gathered, Answered, SetIsOriginal

LEMMA StartClipKeeps ==
  ASSUME ClipInv, NEW t \in Text, StartClip(t)
  PROVE  ClipInv'
  BY DEF StartClip, receiver, ClipInv, Gathered, Answered, SetIsOriginal

LEMMA SendPartKeeps ==
  ASSUME HubClipConstantsOK, ClipInv, NEW t \in Text, SendPart(t)
  PROVE  ClipInv'
<1>1. sent[t] \in 0..(Parts(t) - 1) /\ Parts(t) \in Nat \ {0}
  BY PartsFit DEF SendPart, ClipInv
<1>2. \A p \in air' : \E u \in Text : \E n \in 0..(Parts(u) - 1) : p = Packet(u, n)
  BY <1>1, Zenon DEF SendPart, ClipInv
<1>3. \A u \in Text : spc'[u] \in {"idle", "parts"} => sent'[u] < Parts(u)
  BY <1>1, SMTT(30) DEF SendPart, ClipInv
<1>4. /\ spc' \in [Text -> {"idle", "parts", "waiting", "sent", "failed"}]
      /\ sent' \in [Text -> Nat]
      /\ \A u \in Text : spc'[u] = "sent" => spc[u] = "sent"
  BY DEF SendPart, ClipInv
<1>5. UNCHANGED <<ppc, acked, acks, clips, clipboard, heard>>
  BY DEF SendPart, receiver
<1> QED
  BY <1>2, <1>3, <1>4, <1>5, Zenon DEF ClipInv, Gathered, Answered, SetIsOriginal

LEMMA RecvAckKeeps ==
  ASSUME ClipInv, NEW i \in acks, RecvAck(i)
  PROVE  ClipInv'
  BY DEF RecvAck, receiver, ClipInv, Gathered, Answered, SetIsOriginal

LEMMA ClipAckedKeeps ==
  ASSUME ClipInv, NEW t \in Text, ClipAcked(t)
  PROVE  ClipInv'
  BY DEF ClipAcked, receiver, ClipInv, Gathered, Answered, SetIsOriginal

LEMMA ClipFailsKeeps ==
  ASSUME ClipInv, NEW t \in Text, ClipFails(t)
  PROVE  ClipInv'
  BY DEF ClipFails, receiver, ClipInv, Gathered, Answered, SetIsOriginal

LEMMA StartPingKeeps ==
  ASSUME ClipInv, NEW g \in Ping, StartPing(g)
  PROVE  ClipInv'
  BY DEF StartPing, receiver, ClipInv, Gathered, Answered, SetIsOriginal

LEMMA PingEndsKeeps ==
  ASSUME ClipInv, NEW g \in Ping, PingEnds(g)
  PROVE  ClipInv'
  BY DEF PingEnds, receiver, ClipInv, Gathered, Answered, SetIsOriginal

LEMMA RecvPingKeeps ==
  ASSUME HubClipConstantsOK, ClipInv, NEW g \in Ping, RecvPing(g)
  PROVE  ClipInv'
  BY DEF RecvPing, sender, ClipInv, Gathered, Answered, SetIsOriginal, HubClipConstantsOK

LEMMA TimerFiresKeeps ==
  ASSUME ClipInv, NEW t \in Text, TimerFires(t)
  PROVE  ClipInv'
  BY DEF TimerFires, sender, ClipInv, Gathered, Answered, SetIsOriginal

LEMMA RestartKeeps ==
  ASSUME ClipInv, ReceiverRestarts
  PROVE  ClipInv'
  BY DEF ReceiverRestarts, sender, ClipInv, Gathered, Answered, SetIsOriginal

\* A part put in its place leaves parts of one text, and a complete collection
\* is all of them.
LEMMA PutKeeps ==
  ASSUME HubClipConstantsOK, ClipInv, NEW t \in Text, NEW n \in 0..(Parts(t) - 1)
  PROVE  LET new == Put(Collected(t), Packet(t, n)) IN
         /\ DOMAIN new \subseteq 0..(Parts(t) - 1)
         /\ new = [k \in DOMAIN new |-> Piece(t, k)]
         /\ Complete(new, Parts(t)) => new = [k \in 0..(Parts(t) - 1) |-> Piece(t, k)]
<1> DEFINE c == Collected(t)
           new == Put(c, Packet(t, n))
<1>1. DOMAIN c \subseteq 0..(Parts(t) - 1) /\ \A k \in DOMAIN c : c[k] = Piece(t, k)
  <2>1. CASE clips[t] = NoClip
    BY <2>1 DEF Collected
  <2>2. CASE clips[t] # NoClip
    <3>1. /\ c = clips[t] /\ DOMAIN c \subseteq 0..(Parts(t) - 1)
          /\ c = [k \in DOMAIN c |-> Piece(t, k)]
      BY <2>2, Zenon DEF Collected, ClipInv, Gathered
    <3> HIDE DEF c
    <3> QED
      BY <3>1, Zenon
  <2> QED
    BY <2>1, <2>2
<1> HIDE DEF c
<1>2. DOMAIN new = DOMAIN c \cup {n}
  BY DEF Put, Packet
<1>3. new = [k \in DOMAIN c \cup {n} |-> IF k = n THEN Piece(t, n) ELSE c[k]]
  BY DEF Put, Packet
<1> HIDE DEF new
<1>4. DOMAIN new \subseteq 0..(Parts(t) - 1)
  BY <1>1, <1>2
<1>5. \A k \in DOMAIN new : new[k] = Piece(t, k)
  BY <1>1, <1>2, <1>3
<1>6. new = [k \in DOMAIN new |-> Piece(t, k)]
  BY <1>2, <1>3, <1>5, Zenon
<1>7. ASSUME Complete(new, Parts(t))
      PROVE  DOMAIN new = 0..(Parts(t) - 1)
  <2>1. Parts(t) \in Nat \ {0} /\ 0 \in Int /\ Parts(t) - 1 \in Int
    BY PartsFit
  <2>2. /\ IsFiniteSet(0..(Parts(t) - 1))
        /\ Cardinality(0..(Parts(t) - 1)) = IF 0 > Parts(t) - 1 THEN 0 ELSE Parts(t) - 1 - 0 + 1
    BY <2>1, FS_Interval, Zenon
  <2>3. Cardinality(0..(Parts(t) - 1)) = Parts(t)
    BY <2>1, <2>2
  <2> QED
    BY <1>4, <1>7, <2>2, <2>3, FS_Subset, ZenonT(30) DEF Complete
<1> QED
  BY <1>4, <1>6, <1>7, Zenon DEF c, new

LEMMA RecvPartKeeps ==
  ASSUME HubClipConstantsOK, ClipInv, NEW p \in air, RecvPart(p)
  PROVE  ClipInv'
<1>0. PICK t \in Text : \E n \in 0..(Parts(t) - 1) : p = Packet(t, n)
  BY DEF ClipInv
<1>1. PICK n \in 0..(Parts(t) - 1) : p = Packet(t, n)
  BY <1>0
<1> DEFINE new == Put(Collected(t), p)
           complete == Complete(new, Parts(t))
<1>2. p.id = t /\ p.of = Parts(t)
  BY <1>1 DEF Packet
<1>3. /\ DOMAIN new \subseteq 0..(Parts(t) - 1)
      /\ new = [k \in DOMAIN new |-> Piece(t, k)]
      /\ complete => new = [k \in 0..(Parts(t) - 1) |-> Piece(t, k)]
  BY <1>1, PutKeeps, Zenon
<1>4. complete => Join(new) = Original[t]
  BY <1>3, JoinRight, Zenon
<1>5. /\ clips' = [clips EXCEPT ![t] = IF complete THEN NoClip ELSE new]
      /\ \/ /\ complete
            /\ clipboard' = clipboard \cup {[id |-> t, text |-> Join(new)]}
            /\ acks' = acks \cup {t}
         \/ UNCHANGED <<clipboard, acks>>
      /\ UNCHANGED <<spc, sent, ppc, pongs, acked, air, heard>>
  BY <1>2, Zenon DEF RecvPart, sender
<1> HIDE DEF new, complete
<1>6. /\ clips' = [u \in Text |-> clips'[u]]
      /\ \A u \in Text : clips'[u] = IF u = t THEN IF complete THEN NoClip ELSE new ELSE clips[u]
  <2>1. clips = [u \in Text |-> clips[u]]
    BY DEF ClipInv
  <2>2. clips' = [u \in Text |-> IF u = t THEN IF complete THEN NoClip ELSE new ELSE clips[u]]
    BY <1>5, <2>1
  <2> QED
    BY <2>2
<1>7. \A u \in Text : Gathered(u)'
  <2>1. ASSUME NEW u \in Text, clips'[u] # NoClip
        PROVE  /\ DOMAIN clips'[u] \subseteq 0..(Parts(u) - 1)
               /\ clips'[u] = [k \in DOMAIN clips'[u] |-> Piece(u, k)]
    <3>1. CASE u = t
      <4>1. clips'[u] = new
        BY <1>6, <2>1, <3>1
      <4> QED
        BY <1>3, <3>1, <4>1
    <3>2. CASE u # t
      <4>1. clips'[u] = clips[u]
        BY <1>6, <3>2
      <4> QED
        BY <2>1, <4>1, Zenon DEF ClipInv, Gathered
    <3> QED
      BY <3>1, <3>2
  <2> QED
    BY <2>1, Zenon DEF Gathered
<1>8. SetIsOriginal'
  <2>1. \A c \in clipboard : c.text = Original[c.id]
    BY DEF ClipInv, SetIsOriginal
  <2>2. CASE complete /\ clipboard' = clipboard \cup {[id |-> t, text |-> Join(new)]}
    BY <1>4, <2>1, <2>2 DEF SetIsOriginal
  <2>3. CASE clipboard' = clipboard
    BY <2>1, <2>3 DEF SetIsOriginal
  <2> QED
    BY <1>5, <2>2, <2>3
<1>9. \A u \in Text : Answered(u)' \/ spc'[u] = "sent" => \E c \in clipboard' : c.id = u
  <2>1. \A u \in Text : Answered(u) \/ spc[u] = "sent" => \E c \in clipboard : c.id = u
    BY Zenon DEF ClipInv
  <2>2. CASE clipboard' = clipboard \cup {[id |-> t, text |-> Join(new)]} /\ acks' = acks \cup {t}
    <3>1. \A u \in Text : Answered(u)' \/ spc'[u] = "sent" => u = t \/ Answered(u) \/ spc[u] = "sent"
      BY <1>5, <2>2 DEF Answered
    <3>2. \E c \in clipboard' : c.id = t
      <4> DEFINE c == [id |-> t, text |-> Join(new)]
      <4>1. c.id = t
        OBVIOUS
      <4> HIDE DEF c
      <4>2. c \in clipboard'
        BY <2>2 DEF c
      <4> QED
        BY <4>1, <4>2
    <3>3. clipboard \subseteq clipboard'
      BY <2>2
    <3> QED
      BY <2>1, <3>1, <3>2, <3>3, Zenon
  <2>3. CASE UNCHANGED <<clipboard, acks>>
    BY <1>5, <2>1, <2>3 DEF Answered
  <2> QED
    BY <1>5, <2>2, <2>3
<1>10. \A g \in Ping : Answered(g)' \/ ppc'[g] = "answered" => g \in heard'
  BY <1>5, Zenon DEF ClipInv, Answered, HubClipConstantsOK
<1> QED
  BY <1>5, <1>6, <1>7, <1>8, <1>9, <1>10, ZenonT(30) DEF ClipInv

LEMMA NextClipInv ==
  ASSUME HubClipConstantsOK, ClipInv, [Next]_vars
  PROVE  ClipInv'
<1>1. CASE \E t \in Text : \/ StartClip(t) \/ SendPart(t)
                           \/ ClipAcked(t) \/ ClipFails(t) \/ TimerFires(t)
  BY <1>1, StartClipKeeps, SendPartKeeps, ClipAckedKeeps, ClipFailsKeeps, TimerFiresKeeps
<1>2. CASE \E g \in Ping : StartPing(g) \/ PingEnds(g) \/ RecvPing(g)
  BY <1>2, StartPingKeeps, PingEndsKeeps, RecvPingKeeps
<1>3. CASE \E i \in acks : RecvAck(i)
  BY <1>3, RecvAckKeeps
<1>4. CASE \E p \in air : RecvPart(p)
  BY <1>4, RecvPartKeeps
<1>5. CASE ReceiverRestarts
  BY <1>5, RestartKeeps
<1>6. CASE UNCHANGED vars
  BY <1>6, Zenon DEF vars, sender, receiver, ClipInv, Gathered, Answered, SetIsOriginal
<1> QED
  BY <1>1, <1>2, <1>3, <1>4, <1>5, <1>6 DEF Next

LEMMA ClipInvHolds ==
  ASSUME HubClipConstantsOK
  PROVE  Spec => []ClipInv
<1>1. Init => ClipInv
  BY InitClipInv
<1>2. ClipInv /\ [Next]_vars => ClipInv'
  BY NextClipInv
<1> QED
  BY <1>1, <1>2, PTL DEF Spec

\* sendClipOverHubs and receiveClipPart: whatever the hubs lose, repeat or
\* reorder, the clipboard is only ever set to a whole text as it was sent.
THEOREM OriginalSafety == Spec => []SetIsOriginal
<1>1. ClipInv => SetIsOriginal
  BY DEF ClipInv
<1> QED
  BY <1>1, HubClipConstantsOK, ClipInvHolds, PTL

\* sendClipOverHubs and Ping: success is only reported for a text the receiver
\* set, and for a ping the receiver read.
THEOREM SentSafety == Spec => []SentIsSet
<1>1. ClipInv => SentIsSet
  BY DEF ClipInv, SentIsSet
<1> QED
  BY <1>1, HubClipConstantsOK, ClipInvHolds, PTL

\* sendClipOverHubs against the bounds of receiveClipPart: no packet of a text
\* of at most hubClipMax bytes is turned down.
THEOREM AcceptSafety == Spec => []PacketsAcceptable
<1>1. ClipInv => PacketsAcceptable
  BY HubClipConstantsOK, PacketFits DEF ClipInv, PacketsAcceptable
<1> QED
  BY <1>1, HubClipConstantsOK, ClipInvHolds, PTL
-----------------------------------------------------------------------------
(* HubManager *)

\* A hub that was picked has no interface yet; one that is being dropped is
\* not in use, and backed off until it is gone.
ManagerInv ==
  /\ candidates \in Seq(Hub)
  /\ used \subseteq Hub /\ IsFiniteSet(used) /\ Cardinality(used) <= Want
  /\ bad \in [Hub -> Nat]
  /\ link \in [Hub -> {"none", "dialing", "online", "offline"}]
  /\ picks \in Seq(Hub) /\ (pc # "connect" => picks = <<>>)
  /\ \A i, j \in DOMAIN picks : picks[i] = picks[j] => i = j
  /\ \A i \in DOMAIN picks : picks[i] \in used /\ link[picks[i]] = "none"
  /\ dropping \subseteq Hub /\ dropping \cap used = {}
  /\ \A h \in dropping : bad[h] > 0
  /\ \A h \in Hub : link[h] # "none" => h \in used \cup dropping
  /\ \A h \in used : link[h] # "none" \/ h \in Range(picks)

LEMMA RangeAppend ==
  ASSUME NEW s \in Seq(Hub), NEW h \in Hub
  PROVE  Range(Append(s, h)) = Range(s) \cup {h}
<1> DEFINE r == Append(s, h)
<1>1. /\ DOMAIN r = 1..(Len(s) + 1) /\ DOMAIN s = 1..Len(s) /\ Len(s) \in Nat
      /\ \A i \in 1..Len(s) : r[i] = s[i]
      /\ r[Len(s) + 1] = h
  OBVIOUS
<1> HIDE DEF r
<1>2. Range(r) \subseteq Range(s) \cup {h}
  BY <1>1 DEF Range
<1>3. Range(s) \cup {h} \subseteq Range(r)
  BY <1>1 DEF Range
<1> QED
  BY <1>2, <1>3 DEF r

\* dedup returns hubs.
LEMMA DedupRight ==
  ASSUME NEW s \in Seq(Hub)
  PROVE  Dedup(s) \in Seq(Hub)
<1> DEFINE n == Len(s)
           V == Seq(Hub)
           Body(U) ==
             [k \in 0..n |-> IF k = 0 THEN <<>>
                             ELSE IF s[k] \in Range(U[k - 1]) THEN U[k - 1] ELSE Append(U[k - 1], s[k])]
           Upto == CHOOSE U : U = Body(U)
           f == [k \in 1..n |-> [v \in V |-> IF s[k] \in Range(v) THEN v ELSE Append(v, s[k])]]
<1>1. n \in Nat /\ <<>> \in V /\ \A k \in 1..n : s[k] \in Hub
  OBVIOUS
<1> HIDE DEF n
<1>2. \A k \in 1..n : \A v \in V : (IF s[k] \in Range(v) THEN v ELSE Append(v, s[k])) \in V
  BY <1>1
<1> HIDE DEF V
<1>3. \A k \in 1..n : \A v \in V :
        f[k][v] = (IF s[k] \in Range(v) THEN v ELSE Append(v, s[k])) /\ f[k][v] \in V
  BY <1>2
<1> HIDE DEF f
<1>4. \E U : U = Body(U)
  <2>1. Rounds(f, <<>>, V, n) # {}
    BY <1>1, <1>3, Recursion
  <2>2. PICK g \in [0..n -> V] : g[0] = <<>> /\ \A k \in 1..n : g[k] = f[k][g[k - 1]]
    BY <2>1 DEF Rounds
  <2>3. ASSUME NEW k \in 0..n
        PROVE  g[k] = IF k = 0 THEN <<>>
                      ELSE IF s[k] \in Range(g[k - 1]) THEN g[k - 1] ELSE Append(g[k - 1], s[k])
    <3>1. k # 0 => k \in 1..n /\ k - 1 \in 0..n
      BY <1>1
    <3>2. k # 0 => g[k - 1] \in V /\ g[k] = f[k][g[k - 1]]
      BY <2>2, <3>1
    <3> QED
      BY <1>3, <2>2, <3>1, <3>2, Zenon
  <2>4. g = Body(g)
    BY <2>2, <2>3
  <2> HIDE DEF Body
  <2> QED
    BY <2>4
<1>5. Upto = Body(Upto)
  <2> HIDE DEF Body
  <2> QED
    BY <1>4
<1>6. Dedup(s) = Upto[n]
  BY Zenon DEF Dedup, n, Range
<1> HIDE DEF Upto
<1>7. ASSUME NEW k \in 0..n
      PROVE  Upto[k] = IF k = 0 THEN <<>>
                       ELSE IF s[k] \in Range(Upto[k - 1]) THEN Upto[k - 1] ELSE Append(Upto[k - 1], s[k])
  BY <1>5, Zenon
<1>8. Upto[0] \in V
  BY <1>1, <1>7
<1>9. ASSUME NEW k \in 1..n, Upto[k - 1] \in V
      PROVE  Upto[k] \in V
  <2>1. k \in 0..n /\ k # 0
    BY <1>1
  <2> QED
    BY <1>2, <1>7, <1>9, <2>1, Zenon
<1>10. Upto[n] \in V
  <2>1. \A k \in 1..n : Upto[k - 1] \in V => Upto[k] \in V
    BY <1>9
  <2>2. \A k \in 0..n : Upto[k] \in V
    BY <1>1, <1>8, <2>1, RoundsKeep, Zenon
  <2> QED
    BY <1>1, <2>2
<1> QED
  BY <1>6, <1>10 DEF V

\* What fill may pick.
Pickable ==
  {s \in Seq(Hub) : /\ Len(s) <= Need
                    /\ IsFiniteSet(Range(s)) /\ Cardinality(Range(s)) <= Len(s)
                    /\ \A i \in DOMAIN s : Eligible(s[i])
                    /\ \A i, j \in DOMAIN s : s[i] = s[j] => i = j}

LEMMA PickOne ==
  ASSUME NEW s \in Pickable, NEW h \in Hub, Len(s) < Need, Need \in Nat, Eligible(h), h \notin Range(s)
  PROVE  Append(s, h) \in Pickable
<1> DEFINE r == Append(s, h)
<1>1. /\ s \in Seq(Hub) /\ IsFiniteSet(Range(s)) /\ Cardinality(Range(s)) <= Len(s)
      /\ \A i \in DOMAIN s : Eligible(s[i])
      /\ \A i, j \in DOMAIN s : s[i] = s[j] => i = j
  BY DEF Pickable
<1>2. /\ r \in Seq(Hub) /\ Len(r) = Len(s) + 1 /\ Len(s) \in Nat
      /\ DOMAIN r = 1..(Len(s) + 1) /\ DOMAIN s = 1..Len(s)
      /\ \A i \in 1..Len(s) : r[i] = s[i]
      /\ r[Len(s) + 1] = h
  BY <1>1
<1>3. /\ IsFiniteSet(Range(s) \cup {h})
      /\ Cardinality(Range(s) \cup {h}) = Cardinality(Range(s)) + 1
      /\ Cardinality(Range(s)) \in Nat
  BY <1>1, FS_AddElement, FS_CardinalityType, Zenon
<1>4. Range(r) = Range(s) \cup {h}
  BY <1>1, RangeAppend
<1>5. \A i \in 1..Len(s) : s[i] # h
  BY <1>2 DEF Range
<1> HIDE DEF r
<1>6. IsFiniteSet(Range(r)) /\ Cardinality(Range(r)) <= Len(r) /\ Len(r) <= Need
  BY <1>1, <1>2, <1>3, <1>4, SMTT(30)
<1>7. \A i \in DOMAIN r : Eligible(r[i])
  BY <1>1, <1>2
<1>8. \A i, j \in DOMAIN r : r[i] = r[j] => i = j
  <2>1. \A i \in DOMAIN r : i \in 1..Len(s) \/ i = Len(s) + 1
    BY <1>2
  <2> QED
    BY <1>1, <1>2, <1>5, <2>1
<1>9. r \in Pickable
  BY <1>2, <1>6, <1>7, <1>8 DEF Pickable
<1> QED
  BY <1>9 DEF r

\* The loop of fill picks what may be picked.
LEMMA PickedRight ==
  ASSUME candidates \in Seq(Hub), Need \in Nat
  PROVE  Picked \in Pickable
<1> DEFINE n == Len(candidates)
           More(v, h) == IF Len(v) < Need /\ Eligible(h) /\ h \notin Range(v) THEN Append(v, h) ELSE v
           Body(U) == [k \in 0..n |-> IF k = 0 THEN <<>> ELSE More(U[k - 1], candidates[k])]
           Upto == CHOOSE U : U = Body(U)
           f == [k \in 1..n |-> [v \in Pickable |-> More(v, candidates[k])]]
<1>1. n \in Nat /\ \A k \in 1..n : candidates[k] \in Hub
  OBVIOUS
<1>2. <<>> \in Pickable
  <2>1. <<>> \in Seq(Hub) /\ Len(<<>>) = 0 /\ DOMAIN <<>> = {}
    OBVIOUS
  <2>2. Range(<<>>) = {}
    BY <2>1 DEF Range
  <2> QED
    BY <2>1, <2>2, FS_EmptySet DEF Pickable
<1>3. \A k \in 1..n : \A v \in Pickable : More(v, candidates[k]) \in Pickable
  BY <1>1, PickOne
<1>4. Picked = Upto[n]
  BY Zenon DEF Picked, Range
<1> HIDE DEF n, More
<1>5. \A k \in 1..n : \A v \in Pickable : f[k][v] = More(v, candidates[k]) /\ f[k][v] \in Pickable
  BY <1>3
<1> HIDE DEF f
<1>6. \E U : U = Body(U)
  <2>1. Rounds(f, <<>>, Pickable, n) # {}
    BY <1>1, <1>2, <1>5, Recursion, Zenon
  <2>2. PICK g \in [0..n -> Pickable] : g[0] = <<>> /\ \A k \in 1..n : g[k] = f[k][g[k - 1]]
    BY <2>1 DEF Rounds
  <2>3. ASSUME NEW k \in 0..n
        PROVE  g[k] = IF k = 0 THEN <<>> ELSE More(g[k - 1], candidates[k])
    <3>1. k # 0 => k \in 1..n /\ k - 1 \in 0..n
      BY <1>1
    <3>2. k # 0 => g[k - 1] \in Pickable /\ g[k] = f[k][g[k - 1]]
      BY <2>2, <3>1
    <3> QED
      BY <1>5, <2>2, <3>1, <3>2
  <2>4. g = Body(g)
    BY <2>2, <2>3
  <2> HIDE DEF Body
  <2> QED
    BY <2>4
<1>7. Upto = Body(Upto)
  <2> HIDE DEF Body
  <2> QED
    BY <1>6
<1> HIDE DEF Upto
<1>8. ASSUME NEW k \in 0..n
      PROVE  Upto[k] = IF k = 0 THEN <<>> ELSE More(Upto[k - 1], candidates[k])
  BY <1>7, Zenon
<1>9. Upto[0] \in Pickable
  BY <1>1, <1>2, <1>8
<1>10. ASSUME NEW k \in 1..n, Upto[k - 1] \in Pickable
       PROVE  Upto[k] \in Pickable
  <2>1. k \in 0..n /\ k # 0
    BY <1>1
  <2> QED
    BY <1>3, <1>8, <1>10, <2>1, Zenon
<1>11. Upto[n] \in Pickable
  <2>1. \A k \in 1..n : Upto[k - 1] \in Pickable => Upto[k] \in Pickable
    BY <1>10
  <2>2. \A k \in 0..n : Upto[k] \in Pickable
    BY <1>1, <1>9, <2>1, RoundsKeep, Zenon
  <2> QED
    BY <1>1, <2>2
<1> QED
  BY <1>4, <1>11

LEMMA InitManagerInv ==
  ASSUME HubConstantsOK, HInit
  PROVE  ManagerInv
<1>1. candidates \in Seq(Hub)
  BY DedupRight, Zenon DEF HInit, HubConstantsOK
<1>2. Want \in Nat
  BY DEF HubConstantsOK
<1> QED
  BY <1>1, <1>2, FS_EmptySet, SMTT(30) DEF HInit, ManagerInv

LEMMA AddCandidatesKeeps ==
  ASSUME HubConstantsOK, ManagerInv, AddCandidates
  PROVE  ManagerInv'
<1>1. candidates \o Catalog \in Seq(Hub)
  BY DEF ManagerInv, HubConstantsOK
<1>2. candidates' \in Seq(Hub)
  BY <1>1, DedupRight, Zenon DEF AddCandidates
<1> QED
  BY <1>2, Zenon DEF AddCandidates, ManagerInv, run, node

LEMMA FillKeeps ==
  ASSUME HubConstantsOK, ManagerInv, Fill
  PROVE  ManagerInv'
<1> DEFINE p == Picked
<1>1. Cardinality(used) \in Nat /\ Want \in Nat /\ Need = Want - Cardinality(used) /\ Need \in Nat
  BY FS_CardinalityType, SMTT(30) DEF ManagerInv, HubConstantsOK, Need
<1>2. p \in Pickable
  BY <1>1, PickedRight, Zenon DEF ManagerInv
<1>3. /\ picks' = p /\ used' = used \cup Range(p) /\ pc' = "connect"
      /\ UNCHANGED <<candidates, bad, link, dropping>>
  BY Zenon DEF Fill, node
<1> HIDE DEF p
<1>4. /\ p \in Seq(Hub) /\ IsFiniteSet(Range(p)) /\ Cardinality(Range(p)) <= Need
      /\ \A i \in DOMAIN p : p[i] \in Hub /\ p[i] \notin used /\ bad[p[i]] = 0
      /\ \A i, j \in DOMAIN p : p[i] = p[j] => i = j
  <2>1. p \in Seq(Hub) /\ Len(p) \in Nat /\ Len(p) <= Need /\ Cardinality(Range(p)) <= Len(p)
        /\ IsFiniteSet(Range(p)) /\ Cardinality(Range(p)) \in Nat
    BY <1>2, FS_CardinalityType, SMTT(30) DEF Pickable
  <2>2. Cardinality(Range(p)) <= Need
    BY <1>1, <2>1, SMTT(30)
  <2> QED
    BY <1>2, <2>1, <2>2, SMTT(30) DEF Pickable, Eligible
<1>5. Range(p) \subseteq Hub /\ \A i \in DOMAIN p : p[i] \in Range(p)
  BY <1>4, ZenonT(30) DEF Range
<1>6. IsFiniteSet(used') /\ Cardinality(used') <= Want
  <2>1. /\ IsFiniteSet(used \cup Range(p))
        /\ Cardinality(used \cup Range(p)) =
             Cardinality(used) + Cardinality(Range(p)) - Cardinality(used \cap Range(p))
    BY <1>4, FS_Union, Zenon DEF ManagerInv
  <2>2. IsFiniteSet(used \cap Range(p))
    BY <1>4, FS_Subset, Zenon
  <2>3. Cardinality(used \cap Range(p)) \in Nat /\ Cardinality(Range(p)) \in Nat
    BY <1>4, <2>2, FS_CardinalityType, ZenonT(30)
  <2> QED
    BY <1>1, <1>3, <1>4, <2>1, <2>3, SMTT(30)
<1>7. \A i \in DOMAIN p : p[i] \notin dropping /\ link[p[i]] = "none"
  BY <1>4, SMTT(30) DEF ManagerInv
<1>8. \A h \in Range(p) : h \notin dropping
  BY <1>7 DEF Range
<1>9. \A h \in used' : link'[h] # "none" \/ h \in Range(picks')
  <2>1. pc = "fill"
    BY Zenon DEF Fill
  <2>2. picks = <<>> /\ Range(<<>>) = {}
    BY <2>1, SMTT(30) DEF ManagerInv, Range
  <2> QED
    BY <1>3, <2>2, Zenon DEF ManagerInv
<1> QED
  BY <1>3, <1>4, <1>5, <1>6, <1>7, <1>8, <1>9, ZenonT(30) DEF ManagerInv

\* What remains to be connected.
LEMMA TailPicks ==
  ASSUME ManagerInv, picks # <<>>
  PROVE  /\ Head(picks) \in used /\ link[Head(picks)] = "none"
         /\ Tail(picks) \in Seq(Hub)
         /\ \A i, j \in DOMAIN Tail(picks) : Tail(picks)[i] = Tail(picks)[j] => i = j
         /\ \A i \in DOMAIN Tail(picks) : /\ Tail(picks)[i] \in used /\ Tail(picks)[i] # Head(picks)
                                          /\ link[Tail(picks)[i]] = "none"
         /\ Range(picks) = Range(Tail(picks)) \cup {Head(picks)}
<1> DEFINE t == Tail(picks)
<1>1. /\ picks \in Seq(Hub) /\ Len(picks) \in Nat \ {0} /\ DOMAIN picks = 1..Len(picks)
      /\ Head(picks) = picks[1]
      /\ t \in Seq(Hub) /\ DOMAIN t = 1..(Len(picks) - 1)
      /\ \A i \in 1..(Len(picks) - 1) : t[i] = picks[i + 1]
  BY SMTT(30) DEF ManagerInv
<1>2. /\ \A i, j \in DOMAIN picks : picks[i] = picks[j] => i = j
      /\ \A i \in DOMAIN picks : picks[i] \in used /\ link[picks[i]] = "none"
  BY Zenon DEF ManagerInv
<1> HIDE DEF t
<1>3. 1 \in DOMAIN picks /\ \A i \in DOMAIN t : i + 1 \in DOMAIN picks /\ i + 1 # 1 /\ t[i] = picks[i + 1]
  BY <1>1
<1>4. \A i, j \in DOMAIN t : t[i] = t[j] => i = j
  <2>1. ASSUME NEW i \in DOMAIN t, NEW j \in DOMAIN t, t[i] = t[j]
        PROVE  i = j
    <3>1. i + 1 = j + 1
      BY <1>2, <1>3, <2>1
    <3> QED
      BY <1>1, <3>1
  <2> QED
    BY <2>1
<1>5. Range(picks) = Range(t) \cup {Head(picks)}
  <2>1. \A i \in DOMAIN picks : i = 1 \/ (i - 1 \in DOMAIN t /\ t[i - 1] = picks[i])
    BY <1>1
  <2>2. Range(picks) \subseteq Range(t) \cup {Head(picks)}
    BY <1>1, <2>1 DEF Range
  <2>3. Range(t) \cup {Head(picks)} \subseteq Range(picks)
    BY <1>1, <1>3, SMTT(30) DEF Range
  <2> QED
    BY <2>2, <2>3
<1> QED
  BY <1>1, <1>2, <1>3, <1>4, <1>5, SMTT(30) DEF t

LEMMA ConnectHubKeeps ==
  ASSUME ManagerInv, ConnectHub
  PROVE  ManagerInv'
<1> DEFINE h == Head(picks)
<1>1. /\ picks # <<>> /\ picks' = Tail(picks) /\ pc = "connect"
      /\ link' = [link EXCEPT ![h] = IF @ = "none" THEN "dialing" ELSE @]
      /\ UNCHANGED <<candidates, used, bad, pc, dropping>>
  BY Zenon DEF ConnectHub, policy
<1>2. /\ h \in used /\ link[h] = "none" /\ Tail(picks) \in Seq(Hub)
      /\ \A i, j \in DOMAIN Tail(picks) : Tail(picks)[i] = Tail(picks)[j] => i = j
      /\ \A i \in DOMAIN Tail(picks) : /\ Tail(picks)[i] \in used /\ Tail(picks)[i] # h
                                       /\ link[Tail(picks)[i]] = "none"
      /\ Range(picks) = Range(Tail(picks)) \cup {h}
  BY <1>1, TailPicks, Zenon
<1> HIDE DEF h
<1>3. /\ link' \in [Hub -> {"none", "dialing", "online", "offline"}]
      /\ link'[h] = "dialing" /\ \A g \in Hub : g # h => link'[g] = link[g]
  BY <1>1, <1>2, Zenon DEF ManagerInv
<1>4. \A i \in DOMAIN picks' : picks'[i] \in used' /\ link'[picks'[i]] = "none"
  BY <1>1, <1>2, <1>3, Zenon DEF ManagerInv
<1>5. \A g \in Hub : link'[g] # "none" => g \in used' \cup dropping'
  BY <1>1, <1>2, <1>3, SMTT(30) DEF ManagerInv
<1>6. \A g \in used' : link'[g] # "none" \/ g \in Range(picks')
  BY <1>1, <1>2, <1>3, Zenon DEF ManagerInv
<1> QED
  BY <1>1, <1>2, <1>3, <1>4, <1>5, <1>6, ZenonT(30) DEF ManagerInv

LEMMA ConnectFailKeeps ==
  ASSUME HubConstantsOK, ManagerInv, ConnectHubFails
  PROVE  ManagerInv'
<1> DEFINE h == Head(picks)
<1>1. /\ picks # <<>> /\ picks' = Tail(picks) /\ pc = "connect"
      /\ used' = used \ {h} /\ bad' = [bad EXCEPT ![h] = Backoff]
      /\ UNCHANGED <<candidates, link, pc, dropping>>
  BY Zenon DEF ConnectHubFails, node
<1>2. /\ h \in used /\ link[h] = "none" /\ Tail(picks) \in Seq(Hub)
      /\ \A i, j \in DOMAIN Tail(picks) : Tail(picks)[i] = Tail(picks)[j] => i = j
      /\ \A i \in DOMAIN Tail(picks) : /\ Tail(picks)[i] \in used /\ Tail(picks)[i] # h
                                       /\ link[Tail(picks)[i]] = "none"
      /\ Range(picks) = Range(Tail(picks)) \cup {h}
  BY <1>1, TailPicks, Zenon
<1> HIDE DEF h
<1>3. bad' \in [Hub -> Nat] /\ \A g \in dropping : bad'[g] > 0
  <2>1. /\ Backoff \in Nat \ {0} /\ bad \in [Hub -> Nat]
        /\ dropping \subseteq Hub /\ \A g \in dropping : bad[g] > 0
    BY Zenon DEF ManagerInv, HubConstantsOK
  <2>2. bad' \in [Hub -> Nat] /\ \A g \in Hub : bad'[g] = IF g = h THEN Backoff ELSE bad[g]
    BY <1>1, <2>1, Zenon
  <2>3. ASSUME NEW g \in dropping
        PROVE  bad'[g] > 0
    <3>1. g \in Hub /\ bad[g] > 0 /\ bad[g] \in Nat /\ Backoff > 0
      BY <2>1
    <3> QED
      BY <2>2, <3>1
  <2> QED
    BY <2>2, <2>3
<1>4. IsFiniteSet(used') /\ Cardinality(used') <= Want
  <2>1. IsFiniteSet(used') /\ Cardinality(used') <= Cardinality(used)
    BY <1>1, FS_Subset, Zenon DEF ManagerInv
  <2>2. Cardinality(used') \in Nat /\ Cardinality(used) \in Nat /\ Want \in Nat
    BY <2>1, FS_CardinalityType, Zenon DEF ManagerInv, HubConstantsOK
  <2> QED
    BY <2>1, <2>2, SMTT(30) DEF ManagerInv
<1>5. \A i \in DOMAIN picks' : picks'[i] \in used' /\ link'[picks'[i]] = "none"
  BY <1>1, <1>2, Zenon
<1>6. \A g \in Hub : link'[g] # "none" => g \in used' \cup dropping'
  BY <1>1, <1>2, Zenon DEF ManagerInv
<1>7. \A g \in used' : link'[g] # "none" \/ g \in Range(picks')
  BY <1>1, <1>2, Zenon DEF ManagerInv
<1> QED
  BY <1>1, <1>2, <1>3, <1>4, <1>5, <1>6, <1>7, Zenon DEF ManagerInv

LEMMA MeasureKeeps ==
  ASSUME HubConstantsOK, ManagerInv, Measure
  PROVE  ManagerInv'
<1> DEFINE lost == {h \in used : link[h] = "none"}
           gone == {h \in used \ lost : Drops(h)}
<1>1. /\ pc = "select" /\ \A h \in dropping : bad[h] > 1
      /\ used' = used \ (lost \cup gone)
      /\ bad' = [h \in Hub |-> IF h \in gone THEN Backoff ELSE IF bad[h] > 0 THEN bad[h] - 1 ELSE 0]
      /\ dropping' = dropping \cup gone /\ pc' = "fill"
      /\ UNCHANGED <<candidates, picks, link>>
  BY Zenon DEF Measure
<1>2. picks = <<>>
  BY <1>1, Zenon DEF ManagerInv
<1>3. bad' \in [Hub -> Nat] /\ \A h \in dropping' : bad'[h] > 0
  <2>1. Backoff \in Nat \ {0} /\ bad \in [Hub -> Nat] /\ used \subseteq Hub
    BY Zenon DEF ManagerInv, HubConstantsOK
  <2>2. gone \subseteq Hub /\ dropping \subseteq Hub
    BY <2>1, Zenon DEF ManagerInv
  <2> HIDE DEF gone, lost
  <2> QED
    BY <1>1, <2>1, <2>2, SMTT(30)
<1>4. IsFiniteSet(used') /\ Cardinality(used') <= Want
  <2>1. IsFiniteSet(used') /\ Cardinality(used') <= Cardinality(used)
    BY <1>1, FS_Subset, Zenon DEF ManagerInv
  <2>2. Cardinality(used') \in Nat /\ Cardinality(used) \in Nat /\ Want \in Nat
    BY <2>1, FS_CardinalityType, Zenon DEF ManagerInv, HubConstantsOK
  <2> QED
    BY <2>1, <2>2, SMTT(30) DEF ManagerInv
<1>5. gone \subseteq used /\ \A h \in used : link[h] # "none" => h \in used' \cup gone
  BY <1>1, Zenon
<1>6. used' \cap gone = {} /\ used' \subseteq used
  BY <1>1, Zenon
<1> HIDE DEF gone, lost
<1>7. dropping' \subseteq Hub /\ dropping' \cap used' = {}
  BY <1>1, <1>5, <1>6, Zenon DEF ManagerInv
<1>8. \A h \in Hub : link'[h] # "none" => h \in used' \cup dropping'
  BY <1>1, <1>5, Zenon DEF ManagerInv
<1>9. \A h \in used' : link'[h] # "none" \/ h \in Range(picks')
  BY <1>1, <1>6, Zenon DEF ManagerInv
<1> QED
  BY <1>1, <1>2, <1>3, <1>4, <1>6, <1>7, <1>8, <1>9, SMTT(30) DEF ManagerInv

LEMMA DropHubKeeps ==
  ASSUME ManagerInv, NEW h \in Hub, DropHub(h)
  PROVE  ManagerInv'
<1>1. /\ h \in dropping /\ dropping' = dropping \ {h} /\ link' = [link EXCEPT ![h] = "none"]
      /\ UNCHANGED <<candidates, used, bad, pc, picks>>
  BY DEF DropHub, policy, run
<1>2. /\ link' \in [Hub -> {"none", "dialing", "online", "offline"}]
      /\ link'[h] = "none" /\ \A g \in Hub : g # h => link'[g] = link[g]
  BY <1>1, Zenon DEF ManagerInv
<1>3. h \notin used
  BY <1>1 DEF ManagerInv
<1> QED
  BY <1>1, <1>2, <1>3, ZenonT(30) DEF ManagerInv

\* An interface changes that exists.
LEMMA LinkKeeps ==
  ASSUME ManagerInv, NEW h \in Hub, Dialed(h) \/ Offline(h)
  PROVE  ManagerInv'
<1>1. PICK to \in {"online", "offline"} : link' = [link EXCEPT ![h] = to]
  BY DEF Dialed, Offline
<1>2. link[h] # "none" /\ UNCHANGED <<candidates, used, bad, pc, picks, dropping>>
  BY Zenon DEF Dialed, Offline, policy, run
<1>3. /\ link' \in [Hub -> {"none", "dialing", "online", "offline"}]
      /\ \A g \in Hub : (link'[g] = "none") <=> (link[g] = "none")
  BY <1>1, <1>2, Zenon DEF ManagerInv
<1>4. \A i \in DOMAIN picks : picks[i] \in Hub
  BY DEF ManagerInv
<1> QED
  BY <1>2, <1>3, <1>4, Zenon DEF ManagerInv

LEMMA NextManagerInv ==
  ASSUME HubConstantsOK, ManagerInv, [HNext]_hvars
  PROVE  ManagerInv'
<1>1. CASE Fill \/ ConnectHub \/ ConnectHubFails \/ Measure
  BY <1>1, FillKeeps, ConnectHubKeeps, ConnectFailKeeps, MeasureKeeps, Zenon
<1>2. CASE FillDone
  BY <1>2, Zenon DEF FillDone, ManagerInv, policy, node
<1>3. CASE AddCandidates
  BY <1>3, AddCandidatesKeeps
<1>4. CASE \E h \in Hub : DropHub(h)
  BY <1>4, DropHubKeeps, Zenon
<1>5. CASE \E h \in Hub : Dialed(h) \/ Offline(h)
  BY <1>5, LinkKeeps, Zenon
<1>6. CASE Announce \/ (\E h \in Hub : AnnounceWhenUp(h) \/ Deliver(h)) \/ UNCHANGED hvars
  <2>1. UNCHANGED <<candidates, used, bad, pc, picks, link, dropping>>
    BY <1>6, Zenon DEF Announce, AnnounceWhenUp, Deliver, hvars, policy, run, node
  <2> QED
    BY <2>1, Zenon DEF ManagerInv
<1> QED
  BY <1>1, <1>2, <1>3, <1>4, <1>5, <1>6, ZenonT(30) DEF HNext, Run

\* fill, measure, ConnectHub and DropHub: at most Want hubs are in use, no
\* interface is left behind without one, and no hub in use is without.
THEOREM ManagedSafety == HSpec => []LinksManaged
<1>1. HInit => ManagerInv
  BY HubConstantsOK, InitManagerInv
<1>2. ManagerInv /\ [HNext]_hvars => ManagerInv'
  BY HubConstantsOK, NextManagerInv
<1>3. ManagerInv => LinksManaged
  BY Zenon DEF ManagerInv, LinksManaged
<1> QED
  BY <1>1, <1>2, <1>3, PTL DEF HSpec
=============================================================================
