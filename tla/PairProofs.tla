----------------------------- MODULE PairProofs ------------------------------
(***************************************************************************)
(* Proofs about pairing: DeviceStore, the pairing window of a PC           *)
(* (PairWindow) and the phone that scans its QR (PhonePair).               *)
(***************************************************************************)
EXTENDS PhonePair, WellFoundedInduction, TLAPS

-----------------------------------------------------------------------------
(* Loops *)

\* A set of numbers that is not empty has a least one.
LEMMA Least ==
  ASSUME NEW S, S \subseteq Nat, S # {}
  PROVE  \E m \in S : \A k \in S : m <= k
<1>1. PICK m \in S : \A k \in S : ~ (<<k, m>> \in OpToRel(<, Nat))
  BY WFMin, NatLessThanWellFounded
<1>2. ASSUME NEW k \in S
      PROVE  m <= k
  <2>1. k \in Nat /\ m \in Nat
    OBVIOUS
  <2>2. k < m => <<k, m>> \in OpToRel(<, Nat)
    BY <2>1 DEF OpToRel
  <2>3. ~(k < m)
    BY <1>1, <2>2, Zenon
  <2> QED
    BY <2>1, <2>3
<1> QED
  BY <1>2

\* What m rounds of a loop compute that begins with e and does f[k] in round k.
Rounds(f, e, V, m) ==
  {g \in [0..m -> V] : g[0] = e /\ \A k \in 1..m : g[k] = f[k][g[k - 1]]}

LEMMA NoRound ==
  ASSUME NEW V, NEW e \in V, NEW f
  PROVE  Rounds(f, e, V, 0) # {}
<1>1. [x \in 0..0 |-> e] \in [0..0 -> V]
  OBVIOUS
<1>2. [x \in 0..0 |-> e][0] = e /\ 1..0 = {}
  OBVIOUS
<1> QED
  BY <1>1, <1>2, Zenon DEF Rounds

LEMMA OneMoreRound ==
  ASSUME NEW V, NEW e \in V, NEW n \in Nat, NEW f, \A k \in 1..n : \A v \in V : f[k][v] \in V,
         NEW m \in 1..n, NEW g \in Rounds(f, e, V, m - 1)
  PROVE  Rounds(f, e, V, m) # {}
<1> DEFINE h == [x \in 0..m |-> IF x = m THEN f[m][g[m - 1]] ELSE g[x]]
<1>1. g \in [0..(m - 1) -> V] /\ g[0] = e /\ \A k \in 1..(m - 1) : g[k] = f[k][g[k - 1]]
  BY DEF Rounds
<1>2. h \in [0..m -> V] /\ h[0] = e
  <2>1. ASSUME NEW x \in 0..m
        PROVE  (IF x = m THEN f[m][g[m - 1]] ELSE g[x]) \in V
    BY <1>1
  <2>2. 0 \in 0..m /\ 0 # m
    OBVIOUS
  <2> QED
    BY <1>1, <2>1, <2>2
<1>3. ASSUME NEW k \in 1..m
      PROVE  h[k] = f[k][h[k - 1]]
  <2>1. k \in 0..m /\ k - 1 \in 0..m /\ k - 1 # m
    OBVIOUS
  <2>2. h[k - 1] = g[k - 1]
    BY <2>1
  <2>3. CASE k = m
    BY <2>1, <2>2, <2>3
  <2>4. CASE k # m
    BY <1>1, <2>1, <2>2, <2>4
  <2> QED
    BY <2>3, <2>4, Zenon
<1> HIDE DEF h
<1> QED
  BY <1>2, <1>3 DEF Rounds

\* A loop computes something: the recursion that defines it has a solution.
LEMMA Recursion ==
  ASSUME NEW V, NEW n \in Nat, NEW e \in V, NEW f, \A k \in 1..n : \A v \in V : f[k][v] \in V
  PROVE  Rounds(f, e, V, n) # {}
<1> DEFINE S == {m \in 0..n : Rounds(f, e, V, m) = {}}
<1>1. S \subseteq Nat
  OBVIOUS
<1>2. ASSUME S # {}
      PROVE  FALSE
  <2> HIDE DEF S
  <2>1. PICK m \in S : \A k \in S : m <= k
    BY <1>1, <1>2, Least, Zenon
  <2> USE DEF S
  <2>2. m \in 0..n /\ Rounds(f, e, V, m) = {}
    OBVIOUS
  <2>3. m # 0
    BY <2>2, NoRound
  <2>4. m \in 1..n /\ m - 1 \in 0..n
    BY <2>2, <2>3
  <2>5. m - 1 \notin S
    BY <2>1, <2>4
  <2>6. Rounds(f, e, V, m - 1) # {}
    BY <2>4, <2>5
  <2> QED
    BY <2>2, <2>4, <2>6, OneMoreRound, Zenon
<1>3. n \in 0..n
  OBVIOUS
<1> QED
  BY <1>2, <1>3
-----------------------------------------------------------------------------
(* RemoveDevice *)

\* A device is in the list once.
Unique(ds) == \A i, j \in DOMAIN ds : ds[i].fp = ds[j].fp => i = j

\* What the loop of RemoveDevice has kept of the first i devices.
KeptOf(ds, t, i) ==
  /\ ds \in Seq(Device)
  /\ {ds[k] : k \in DOMAIN ds} = {devices[k] : k \in (1..i) \ Hit(t)}
  /\ Unique(ds)

\* One round of it.
LEMMA KeepOne ==
  ASSUME devices \in Seq(Device), Unique(devices), NEW t, NEW i \in 1..Len(devices),
         NEW ds, KeptOf(ds, t, i - 1)
  PROVE  KeptOf(IF i \in Hit(t) THEN ds ELSE Append(ds, devices[i]), t, i)
<1> DEFINE Of(m) == {devices[k] : k \in (1..m) \ Hit(t)}
<1>1. ds \in Seq(Device) /\ {ds[k] : k \in DOMAIN ds} = Of(i - 1) /\ Unique(ds)
  BY Zenon DEF KeptOf
<1>2. i \in DOMAIN devices /\ devices[i] \in Device
  OBVIOUS
<1>3. CASE i \in Hit(t)
  <2>1. (1..i) \ Hit(t) = (1..(i - 1)) \ Hit(t)
    BY <1>3
  <2> QED
    BY <1>1, <1>3, <2>1, Zenon DEF KeptOf
<1>4. CASE i \notin Hit(t)
  <2> DEFINE n == Len(ds)
             e == Append(ds, devices[i])
  <2>1. /\ n \in Nat /\ DOMAIN ds = 1..n /\ e \in Seq(Device) /\ DOMAIN e = 1..(n + 1)
        /\ \A k \in 1..n : e[k] = ds[k]
        /\ e[n + 1] = devices[i]
    BY <1>1, <1>2
  <2> HIDE DEF n, e
  <2>2. (1..i) \ Hit(t) = ((1..(i - 1)) \ Hit(t)) \cup {i}
    BY <1>4
  <2>3. Of(i) = Of(i - 1) \cup {devices[i]}
    BY <2>2
  <2>4. {e[k] : k \in DOMAIN e} = {ds[k] : k \in DOMAIN ds} \cup {devices[i]}
    <3>1. 1..(n + 1) = (1..n) \cup {n + 1}
      BY <2>1
    <3> QED
      BY <2>1, <3>1
  <2>5. ASSUME NEW k \in 1..n
        PROVE  ds[k].fp # devices[i].fp
    <3>1. PICK l \in (1..(i - 1)) \ Hit(t) : ds[k] = devices[l]
      BY <1>1, <2>1, ZenonT(30)
    <3>2. l \in DOMAIN devices /\ l # i
      BY <1>2, <3>1
    <3> QED
      BY <1>2, <3>1, <3>2 DEF Unique
  <2>6. Unique(e)
    <3>1. ASSUME NEW j \in 1..(n + 1), NEW k \in 1..(n + 1), e[j].fp = e[k].fp
          PROVE  j = k
      <4>1. (j \in 1..n \/ j = n + 1) /\ (k \in 1..n \/ k = n + 1)
        BY <2>1
      <4>2. j \in 1..n /\ k \in 1..n => ds[j].fp = ds[k].fp
        BY <2>1, <3>1
      <4>3. j \in 1..n /\ k \in 1..n => j = k
        BY <1>1, <2>1, <4>2, Zenon DEF Unique
      <4> QED
        BY <2>1, <2>5, <3>1, <4>1, <4>3
    <3> QED
      BY <2>1, <3>1 DEF Unique
  <2>7. KeptOf(e, t, i)
    BY <1>1, <2>1, <2>3, <2>4, <2>6, Zenon DEF KeptOf
  <2> QED
    BY <1>4, <2>7 DEF e
<1> QED
  BY <1>3, <1>4

\* RemoveDevice keeps exactly the devices that do not match, each once.
LEMMA KeptRight ==
  ASSUME devices \in Seq(Device), Unique(devices), NEW t
  PROVE  KeptOf(Kept(t), t, Len(devices))
<1> DEFINE n == Len(devices)
           Body(U) == [i \in 0..n |-> IF i = 0 THEN <<>>
                         ELSE IF i \in Hit(t) THEN U[i - 1] ELSE Append(U[i - 1], devices[i])]
           Upto == CHOOSE U : U = Body(U)
<1>1. n \in Nat /\ \A i \in 1..n : devices[i] \in Device
  OBVIOUS
<1>2. \E U : U = Body(U)
  <2> DEFINE f == [i \in 1..n |-> [v \in Seq(Device) |->
                     IF i \in Hit(t) THEN v ELSE Append(v, devices[i])]]
  <2>1. <<>> \in Seq(Device)
    OBVIOUS
  <2>2. \A i \in 1..n : \A v \in Seq(Device) :
          /\ f[i][v] = IF i \in Hit(t) THEN v ELSE Append(v, devices[i])
          /\ f[i][v] \in Seq(Device)
    BY <1>1
  <2> HIDE DEF f, n
  <2>3. PICK g : g \in Rounds(f, <<>>, Seq(Device), n)
    BY <1>1, <2>1, <2>2, Recursion, Zenon
  <2>4. /\ g \in [0..n -> Seq(Device)] /\ g[0] = <<>>
        /\ \A i \in 1..n : g[i] = f[i][g[i - 1]]
    BY <2>3 DEF Rounds
  <2>5. ASSUME NEW i \in 0..n
        PROVE  g[i] = IF i = 0 THEN <<>>
                      ELSE IF i \in Hit(t) THEN g[i - 1] ELSE Append(g[i - 1], devices[i])
    <3>1. CASE i = 0
      BY <2>4, <3>1
    <3>2. CASE i # 0
      <4>1. i \in 1..n /\ i - 1 \in 0..n
        BY <1>1, <3>2
      <4>2. g[i] = f[i][g[i - 1]] /\ g[i - 1] \in Seq(Device)
        BY <2>4, <4>1
      <4> QED
        BY <2>2, <3>2, <4>1, <4>2
    <3> QED
      BY <3>1, <3>2
  <2>6. g = Body(g)
    BY <2>4, <2>5
  <2> HIDE DEF Body
  <2> QED
    BY <2>6
<1>3. Upto = Body(Upto)
  <2> HIDE DEF Body
  <2> QED
    BY <1>2
<1>4. Kept(t) = Upto[n]
  BY DEF Kept
<1> HIDE DEF Upto, n
<1>5. /\ Upto[0] = <<>>
      /\ \A i \in 1..n : Upto[i] = IF i \in Hit(t) THEN Upto[i - 1]
                                                  ELSE Append(Upto[i - 1], devices[i])
  <2>1. ASSUME NEW i \in 0..n
        PROVE  Upto[i] = IF i = 0 THEN <<>>
                         ELSE IF i \in Hit(t) THEN Upto[i - 1]
                                              ELSE Append(Upto[i - 1], devices[i])
    BY <1>3, Zenon
  <2>2. 0 \in 0..n /\ \A i \in 1..n : i \in 0..n /\ i # 0
    BY <1>1
  <2> QED
    BY <2>1, <2>2
<1>6. ASSUME NEW i \in 0..n, ~KeptOf(Upto[i], t, i)
      PROVE  FALSE
  <2> DEFINE S == {k \in 0..n : ~KeptOf(Upto[k], t, k)}
  <2>1. S \subseteq Nat /\ S # {}
    BY <1>1, <1>6
  <2> HIDE DEF S
  <2>2. PICK m \in S : \A k \in S : m <= k
    BY <2>1, Least, Zenon
  <2> USE DEF S
  <2>3. m \in 0..n /\ ~KeptOf(Upto[m], t, m)
    OBVIOUS
  <2>4. KeptOf(<<>>, t, 0)
    BY DEF KeptOf, Unique
  <2>5. m \in 1..n /\ m - 1 \in 0..n
    BY <1>1, <1>5, <2>3, <2>4
  <2>6. KeptOf(Upto[m - 1], t, m - 1)
    BY <2>2, <2>5
  <2> HIDE DEF S
  <2> QED
    BY <1>5, <2>3, <2>5, <2>6, KeepOne DEF n
<1> QED
  BY <1>1, <1>4, <1>6 DEF n
-----------------------------------------------------------------------------
(* DeviceStore *)

\* Both copies of the list name a device once: the removal of one entry would
\* otherwise leave the fingerprint behind.
StoreInv ==
  /\ devices \in Seq(Device) /\ Unique(devices)
  /\ saved.devices \in Seq(Device) /\ Unique(saved.devices)
  /\ RevokedStaysOut

LEMMA InitStoreInv ==
  ASSUME Init
  PROVE  StoreInv
  BY DEF Init, StoreInv, Unique, RevokedStaysOut, Fps

\* A new list, saved or not.
LEMMA Stored ==
  ASSUME StoreInv, devices' \in Seq(Device), Unique(devices'), revoked' \cap Fps(devices') = {},
         Saves \/ (UNCHANGED saved /\ revoked' \cap Fps(saved.devices) = {})
  PROVE  StoreInv'
<1>1. CASE Saves
  <2>1. saved'.devices = devices'
    BY <1>1 DEF Saves
  <2>2. RevokedStaysOut'
    BY <2>1 DEF RevokedStaysOut
  <2> QED
    BY <2>1, <2>2 DEF StoreInv
<1>2. CASE UNCHANGED saved /\ revoked' \cap Fps(saved.devices) = {}
  <2>1. RevokedStaysOut'
    BY <1>2 DEF RevokedStaysOut
  <2> QED
    BY <1>2, <2>1 DEF StoreInv
<1> QED
  BY <1>1, <1>2

\* Entries that change, but not their fingerprints.
LEMMA SameFps ==
  ASSUME NEW ds \in Seq(Device), Unique(ds),
         NEW es, es = [i \in DOMAIN ds |-> es[i]],
         \A i \in DOMAIN ds : es[i] \in Device /\ es[i].fp = ds[i].fp
  PROVE  es \in Seq(Device) /\ Unique(es) /\ Fps(es) = Fps(ds)
<1>1. DOMAIN es = DOMAIN ds
  BY Zenon
<1>2. PICK n \in Nat : DOMAIN ds = 1..n
  OBVIOUS
<1>3. es \in [1..n -> Device]
  BY <1>1, <1>2
<1>4. es \in Seq(Device)
  BY <1>2, <1>3
<1> QED
  BY <1>1, <1>4 DEF Unique, Fps

LEMMA AddKeeps ==
  ASSUME StoreInv, NEW d \in Device, AddDevice(d)
  PROVE  StoreInv' /\ Fps(devices') = Fps(devices) \cup {d.fp}
<1>0. devices \in Seq(Device) /\ Unique(devices)
  BY DEF StoreInv
<1>1. devices' \in Seq(Device) /\ Unique(devices') /\ Fps(devices') = Fps(devices) \cup {d.fp}
  <2>1. CASE IsTrusted(d.fp)
    <3>1. devices' = [i \in DOMAIN devices |-> IF devices[i].fp = d.fp THEN d ELSE devices[i]]
      BY <2>1 DEF AddDevice
    <3>2. \A i \in DOMAIN devices : devices'[i] \in Device /\ devices'[i].fp = devices[i].fp
      BY <1>0, <3>1
    <3>3. devices' = [i \in DOMAIN devices |-> devices'[i]]
      BY <3>1
    <3>4. devices' \in Seq(Device) /\ Unique(devices') /\ Fps(devices') = Fps(devices)
      BY <1>0, <3>2, <3>3, SameFps
    <3> QED
      BY <2>1, <3>4 DEF IsTrusted
  <2>2. CASE ~IsTrusted(d.fp)
    <3>1. devices' = Append(devices, d)
      BY <2>2 DEF AddDevice
    <3>2. PICK n \in Nat : n = Len(devices) /\ DOMAIN devices = 1..n
      BY <1>0
    <3>3. /\ devices' \in Seq(Device) /\ DOMAIN devices' = 1..(n + 1)
          /\ devices'[n + 1] = d /\ \A i \in 1..n : devices'[i] = devices[i]
      BY <1>0, <3>1, <3>2
    <3>4. \A i \in 1..n : devices[i].fp # d.fp
      BY <2>2, <3>2 DEF IsTrusted, Fps
    <3>5. 1..(n + 1) = (1..n) \cup {n + 1}
      OBVIOUS
    <3>6. Unique(devices')
      <4> SUFFICES ASSUME NEW i \in 1..(n + 1), NEW j \in 1..(n + 1),
                          devices'[i].fp = devices'[j].fp
                   PROVE  i = j
        BY <3>3 DEF Unique
      <4>1. i \in 1..n /\ j \in 1..n => i = j
        BY <1>0, <3>2, <3>3 DEF Unique
      <4> QED
        BY <3>3, <3>4, <3>5, <4>1
    <3>7. Fps(devices') = Fps(devices) \cup {d.fp}
      BY <3>2, <3>3, <3>5 DEF Fps
    <3> QED
      BY <3>3, <3>6, <3>7
  <2> QED
    BY <2>1, <2>2
<1>2. revoked' = revoked \ {d.fp} /\ (Saves \/ UNCHANGED saved)
  BY DEF AddDevice, SaveFails
<1>3. revoked \cap Fps(devices) = {} /\ revoked \cap Fps(saved.devices) = {}
  BY DEF StoreInv, RevokedStaysOut
<1>4. revoked' \cap Fps(devices') = {} /\ revoked' \cap Fps(saved.devices) = {}
  BY <1>1, <1>2, <1>3
<1> QED
  BY <1>1, <1>2, <1>4, Stored

LEMMA UpdateKeeps ==
  ASSUME StoreInv, NEW fp, NEW v \in Info, UpdateInfo(fp, v)
  PROVE  StoreInv' /\ Fps(devices') = Fps(devices)
<1>0. devices \in Seq(Device) /\ Unique(devices)
  BY DEF StoreInv
<1>1. PICK i \in DOMAIN devices : devices' = [devices EXCEPT ![i].info = v]
  BY Zenon DEF UpdateInfo
<1>2. devices' = [j \in DOMAIN devices |-> devices'[j]]
  BY <1>1, Zenon
<1>3. ASSUME NEW j \in DOMAIN devices
      PROVE  devices'[j] \in Device /\ devices'[j].fp = devices[j].fp
  <2>1. devices[j] \in Device
    BY <1>0
  <2>2. devices'[j] = IF j = i THEN [devices[j] EXCEPT !.info = v] ELSE devices[j]
    BY <1>1
  <2>3. [devices[j] EXCEPT !.info = v] \in Device /\ [devices[j] EXCEPT !.info = v].fp = devices[j].fp
    BY <2>1 DEF Device
  <2> QED
    BY <2>1, <2>2, <2>3
<1>4. devices' \in Seq(Device) /\ Unique(devices') /\ Fps(devices') = Fps(devices)
  BY <1>0, <1>2, <1>3, SameFps
<1>5. revoked' = revoked /\ (Saves \/ UNCHANGED saved)
  BY DEF UpdateInfo, SaveFails
<1>6. revoked \cap Fps(devices) = {} /\ revoked \cap Fps(saved.devices) = {}
  BY DEF StoreInv, RevokedStaysOut
<1> QED
  BY <1>4, <1>5, <1>6, Stored

LEMMA RenameKeeps ==
  ASSUME StoreInv, NEW t, NEW n \in Name, RenameDevice(t, n)
  PROVE  StoreInv' /\ Fps(devices') = Fps(devices)
<1>0. devices \in Seq(Device) /\ Unique(devices)
  BY DEF StoreInv
<1>1. PICK i : devices' = [devices EXCEPT ![i].name = n]
  BY Zenon DEF RenameDevice
<1>2. devices' = [j \in DOMAIN devices |-> devices'[j]]
  BY <1>1, Zenon
<1>3. ASSUME NEW j \in DOMAIN devices
      PROVE  devices'[j] \in Device /\ devices'[j].fp = devices[j].fp
  <2>1. devices[j] \in Device
    BY <1>0
  <2>2. devices'[j] = IF j = i THEN [devices[j] EXCEPT !.name = n] ELSE devices[j]
    BY <1>1
  <2>3. [devices[j] EXCEPT !.name = n] \in Device /\ [devices[j] EXCEPT !.name = n].fp = devices[j].fp
    BY <2>1 DEF Device
  <2> QED
    BY <2>1, <2>2, <2>3
<1>4. devices' \in Seq(Device) /\ Unique(devices') /\ Fps(devices') = Fps(devices)
  BY <1>0, <1>2, <1>3, SameFps
<1>5. revoked' = revoked /\ Saves
  BY DEF RenameDevice
<1>6. revoked \cap Fps(devices) = {}
  BY DEF StoreInv, RevokedStaysOut
<1> QED
  BY <1>4, <1>5, <1>6, Stored

\* A device in the list once is not left behind.
LEMMA RemoveKeeps ==
  ASSUME StoreInv, NEW t, RemoveDevice(t)
  PROVE  StoreInv' /\ Fps(devices') = Fps(devices) \ {devices[i].fp : i \in Hit(t)}
<1>0. devices \in Seq(Device) /\ Unique(devices)
  BY DEF StoreInv
<1>1. devices' = Kept(t)
  BY DEF RemoveDevice
<1>2. KeptOf(devices', t, Len(devices))
  BY <1>0, <1>1, KeptRight
<1>3. /\ devices' \in Seq(Device) /\ Unique(devices')
      /\ {devices'[k] : k \in DOMAIN devices'} = {devices[k] : k \in (DOMAIN devices) \ Hit(t)}
  <2>1. DOMAIN devices = 1..Len(devices)
    BY <1>0
  <2> QED
    BY <1>2, <2>1, Zenon DEF KeptOf
<1>4. Fps(devices') = {devices[k].fp : k \in (DOMAIN devices) \ Hit(t)}
  BY <1>3, SMTT(30) DEF Fps
<1>5. Hit(t) \subseteq DOMAIN devices
  BY DEF Hit
<1>6. Fps(devices') = Fps(devices) \ {devices[i].fp : i \in Hit(t)}
  BY <1>0, <1>4, <1>5, Zenon DEF Fps, Unique
<1>7. revoked \cap Fps(devices) = {} /\ revoked \cap Fps(saved.devices) = {}
  BY DEF StoreInv, RevokedStaysOut
<1>8. \/ Saves /\ revoked' = revoked \cup {devices[i].fp : i \in Hit(t)}
      \/ UNCHANGED saved /\ revoked' = revoked
  BY DEF RemoveDevice, SaveFails
<1>9. revoked' \cap Fps(devices') = {}
  BY <1>6, <1>7, <1>8
<1> QED
  BY <1>3, <1>6, <1>7, <1>8, <1>9, Stored

LEMMA RestartKeeps ==
  ASSUME StoreInv, Restart
  PROVE  StoreInv' /\ Fps(devices') = Fps(saved.devices)
  BY DEF StoreInv, Restart, RevokedStaysOut

\* Steps that leave the list alone, and save it or not.
LEMMA SameList ==
  ASSUME StoreInv, UNCHANGED <<devices, revoked>>, Saves \/ UNCHANGED saved
  PROVE  StoreInv'
<1>1. devices \in Seq(Device) /\ Unique(devices)
  BY DEF StoreInv
<1>2. revoked \cap Fps(devices) = {} /\ revoked \cap Fps(saved.devices) = {}
  BY DEF StoreInv, RevokedStaysOut
<1> QED
  BY <1>1, <1>2, Stored

LEMMA NextStoreInv ==
  ASSUME StoreInv, [Next]_vars
  PROVE  StoreInv'
<1>1. CASE \E d \in Device : AddDevice(d)
  BY <1>1, AddKeeps
<1>2. CASE \E fp \in Fp, v \in Info : UpdateInfo(fp, v)
  BY <1>2, UpdateKeeps
<1>3. CASE \E t \in Name \cup Fp : RemoveDevice(t) \/ \E n \in Name : RenameDevice(t, n)
  BY <1>3, RemoveKeeps, RenameKeeps
<1>4. CASE Restart
  BY <1>4, RestartKeeps
<1>5. CASE \E s \in Sends : \/ \E t \in Name \cup Fp : RequestTo(s, t)
                            \/ RequestDefault(s) \/ DialPeer(s)
                            \/ SendFails(s) \/ SendSucceeds(s)
  <2>1. UNCHANGED <<devices, revoked>> /\ (Saves \/ UNCHANGED saved)
    BY <1>5 DEF RequestTo, RequestDefault, DialPeer, SendFails, SendSucceeds, SaveFails, store
  <2> QED
    BY <2>1, SameList
<1>6. CASE UNCHANGED vars
  BY <1>6, SameList DEF vars, store
<1> QED
  BY <1>1, <1>2, <1>3, <1>4, <1>5, <1>6 DEF Next

\* A device that was reported as revoked (RemoveDevice) is trusted neither now
\* nor after a restart, until it is paired again, whatever saves of
\* devices.json fail and whatever is updated or renamed meanwhile.
THEOREM RevokedSafety == Spec => []RevokedStaysOut
<1>1. Init => StoreInv
  BY InitStoreInv
<1>2. StoreInv /\ [Next]_vars => StoreInv'
  BY NextStoreInv
<1>3. StoreInv => RevokedStaysOut
  BY DEF StoreInv
<1> QED
  BY <1>1, <1>2, <1>3, PTL DEF Spec
-----------------------------------------------------------------------------
(* PairWindow *)

\* A connection past the handshake belongs to an invited fingerprint, and one
\* past servePeer's check to a paired one.
ConnOK(c) ==
  /\ cpc[c] = "new" => cfp[c] = None
  /\ cpc[c] # "new" => cfp[c] \in invited
  /\ cpc[c] \in {"refresh", "session"} => IsTrusted(cfp[c]) \/ c \in late

WindowInv ==
  /\ StoreInv
  /\ opened \in Nat /\ window \in 0..opened
  /\ cpc \in [Conn -> CPC] /\ cfp \in [Conn -> Fp \cup {None}]
  /\ invited \subseteq Fp
  /\ TrustedWasInvited
  /\ \A c \in Conn : ConnOK(c)

LEMMA InitWindowInv ==
  ASSUME WInit
  PROVE  WindowInv
<1>1. StoreInv
  BY InitStoreInv DEF WInit
<1>2. TrustedWasInvited
  BY SMTT(30) DEF WInit, Init, TrustedWasInvited, Fps
<1>3. ASSUME NEW c \in Conn
      PROVE  ConnOK(c)
  BY DEF WInit, ConnOK
<1> QED
  BY <1>1, <1>2, <1>3 DEF WInit, WindowInv, CPC

\* A connection that a step leaves alone, while the lists only grow.
LEMMA OtherConn ==
  ASSUME NEW e \in Conn, ConnOK(e), cpc'[e] = cpc[e], cfp'[e] = cfp[e],
         invited \subseteq invited', e \in late => e \in late', Fps(devices) \subseteq Fps(devices')
  PROVE  ConnOK(e)'
  BY DEF ConnOK, IsTrusted

\* The store is left alone.
LEMMA SameStore ==
  ASSUME WindowInv, UNCHANGED vars, invited \subseteq invited'
  PROVE  /\ StoreInv' /\ TrustedWasInvited'
         /\ Fps(devices') = Fps(devices)
<1>1. UNCHANGED <<devices, saved, revoked>>
  BY DEF vars, store
<1> QED
  BY <1>1, SameList DEF WindowInv, TrustedWasInvited

LEMMA WindowStepKeeps ==
  ASSUME WindowInv, OpenWindow \/ \E w \in Window : WindowEnds(w)
  PROVE  WindowInv'
<1>1. /\ UNCHANGED <<vars, cpc, cfp, invited, late>>
      /\ opened' \in Nat /\ window' \in 0..opened'
  BY DEF WindowInv, OpenWindow, WindowEnds, Close, conns
<1>2. StoreInv' /\ TrustedWasInvited' /\ Fps(devices') = Fps(devices)
  BY <1>1, SameStore
<1>3. ASSUME NEW e \in Conn
      PROVE  ConnOK(e)'
  BY <1>1, <1>2, OtherConn DEF WindowInv
<1> QED
  BY <1>1, <1>2, <1>3 DEF WindowInv

\* A connection's goroutine ends.
LEMMA EndsKeeps ==
  ASSUME WindowInv, NEW c \in Conn, NEW from, Ends(c, from), UNCHANGED <<windows, invited>>,
         StoreInv', TrustedWasInvited', Fps(devices') = Fps(devices)
  PROVE  WindowInv'
<1>1. cpc \in [Conn -> CPC] /\ cfp \in [Conn -> Fp \cup {None}]
  BY DEF WindowInv
<1>2. cpc' = [cpc EXCEPT ![c] = "new"] /\ cfp' = [cfp EXCEPT ![c] = None] /\ late' = late \ {c}
  BY DEF Ends, At
<1>3. cpc' \in [Conn -> CPC] /\ cfp' \in [Conn -> Fp \cup {None}]
  BY <1>1, <1>2 DEF CPC
<1>4. ASSUME NEW e \in Conn
      PROVE  ConnOK(e)'
  <2>1. CASE e = c
    <3>1. cpc'[e] = "new" /\ cfp'[e] = None
      BY <1>1, <1>2, <2>1
    <3> QED
      BY <3>1 DEF ConnOK
  <2>2. CASE e # c
    <3>1. cpc'[e] = cpc[e] /\ cfp'[e] = cfp[e] /\ (e \in late => e \in late')
      BY <1>1, <1>2, <2>2
    <3> QED
      BY <3>1, OtherConn, Zenon DEF WindowInv
  <2> QED
    BY <2>1, <2>2
<1> QED
  BY <1>3, <1>4 DEF WindowInv, windows

\* A connection goes on.
LEMMA MoveKeeps ==
  ASSUME WindowInv, NEW c \in Conn, NEW from, NEW to, At(c, from, to), from # "new",
         to \in CPC \ {"new"}, to \in {"refresh", "session"} => IsTrusted(cfp[c])' \/ c \in late,
         UNCHANGED <<opened, cfp, invited, late>>, window' \in 0..opened,
         StoreInv', TrustedWasInvited', Fps(devices) \subseteq Fps(devices')
  PROVE  WindowInv'
<1>1. cpc \in [Conn -> CPC] /\ cfp \in [Conn -> Fp \cup {None}]
  BY DEF WindowInv
<1>2. cpc[c] = from /\ cpc' = [cpc EXCEPT ![c] = to]
  BY DEF At
<1>3. cpc' \in [Conn -> CPC]
  BY <1>1, <1>2
<1>4. ASSUME NEW e \in Conn
      PROVE  ConnOK(e)'
  <2>1. CASE e = c
    <3>1. cpc'[e] = to
      BY <1>1, <1>2, <2>1
    <3>2. cfp[e] \in invited
      BY <1>2, <2>1 DEF WindowInv, ConnOK
    <3> QED
      BY <2>1, <3>1, <3>2 DEF ConnOK
  <2>2. CASE e # c
    <3>1. cpc'[e] = cpc[e]
      BY <1>1, <1>2, <2>2
    <3> QED
      BY <3>1, OtherConn DEF WindowInv
  <2> QED
    BY <2>1, <2>2
<1> QED
  BY <1>1, <1>3, <1>4 DEF WindowInv

LEMMA HandshakeKeeps ==
  ASSUME WindowInv, NEW c \in Conn, NEW fp \in Fp, Handshake(c, fp)
  PROVE  WindowInv'
<1>1. /\ cpc \in [Conn -> CPC] /\ cfp \in [Conn -> Fp \cup {None}]
      /\ invited \subseteq Fp
  BY DEF WindowInv
<1>2. /\ cpc' = [cpc EXCEPT ![c] = "hello"] /\ cfp' = [cfp EXCEPT ![c] = fp]
      /\ UNCHANGED <<vars, window, opened, late>>
  BY DEF Handshake, At, windows
<1>3. invited \subseteq invited' /\ invited' \subseteq Fp /\ fp \in invited'
  BY <1>1 DEF Handshake, Admitted, WindowInv, TrustedWasInvited, IsTrusted
<1>4. StoreInv' /\ TrustedWasInvited' /\ Fps(devices') = Fps(devices)
  BY <1>2, <1>3, SameStore
<1>5. cpc' \in [Conn -> CPC] /\ cfp' \in [Conn -> Fp \cup {None}]
  BY <1>1, <1>2 DEF CPC
<1>6. ASSUME NEW e \in Conn
      PROVE  ConnOK(e)'
  <2>1. CASE e = c
    <3>1. cpc'[e] = "hello" /\ cfp'[e] = fp
      BY <1>1, <1>2, <2>1
    <3> QED
      BY <1>3, <3>1 DEF ConnOK
  <2>2. CASE e # c
    <3>1. cpc'[e] = cpc[e] /\ cfp'[e] = cfp[e]
      BY <1>1, <1>2, <2>2
    <3> QED
      BY <1>2, <1>3, <1>4, <3>1, OtherConn DEF WindowInv
  <2> QED
    BY <2>1, <2>2
<1> QED
  BY <1>2, <1>3, <1>4, <1>5, <1>6, Zenon DEF WindowInv

LEMMA CloseKeeps ==
  ASSUME WindowInv, NEW w, Close(w)
  PROVE  window' \in 0..opened
  BY DEF WindowInv, Close

\* AddDevice for an invited device.
LEMMA InvitedKeeps ==
  ASSUME WindowInv, NEW d \in Device, AddDevice(d), d.fp \in invited', invited \subseteq invited'
  PROVE  /\ StoreInv' /\ TrustedWasInvited'
         /\ Fps(devices') = Fps(devices) \cup {d.fp}
<1>1. StoreInv' /\ Fps(devices') = Fps(devices) \cup {d.fp}
  BY AddKeeps DEF WindowInv
<1>2. Saves \/ UNCHANGED saved
  BY DEF AddDevice, SaveFails
<1>3. Fps(devices) \subseteq invited /\ Fps(saved.devices) \subseteq invited
  BY DEF WindowInv, TrustedWasInvited
<1>4. Fps(saved'.devices) = Fps(devices') \/ Fps(saved'.devices) = Fps(saved.devices)
  BY <1>2 DEF Saves
<1> QED
  BY <1>1, <1>3, <1>4 DEF TrustedWasInvited

LEMMA AddPairedKeeps ==
  ASSUME WindowInv, NEW c \in Conn, AddPaired(c)
  PROVE  WindowInv' /\ Fps(devices') = Fps(devices) \cup {cfp[c]}
<1>1. PICK n \in Name :
        /\ AddDevice([fp |-> cfp[c], name |-> n, info |-> Bare])
        /\ At(c, "add", "close") \/ At(c, "add", "check")
        /\ UNCHANGED <<windows, cfp, invited, late>>
  BY DEF AddPaired, NotPaired
<1>2. cfp[c] \in invited /\ cfp[c] \in Fp
  BY <1>1 DEF WindowInv, ConnOK, At
<1> DEFINE d == [fp |-> cfp[c], name |-> n, info |-> Bare]
<1>3. d \in Device /\ d.fp = cfp[c]
  BY <1>2, WindowConstantsOK DEF Device
<1> HIDE DEF d
<1>4. AddDevice(d)
  BY <1>1 DEF d
<1>5. StoreInv' /\ TrustedWasInvited' /\ Fps(devices') = Fps(devices) \cup {cfp[c]}
  BY <1>1, <1>2, <1>3, <1>4, InvitedKeeps
<1>6. window' \in 0..opened
  BY <1>1 DEF WindowInv, windows
<1>7. "close" \in CPC \ {"new"} /\ "check" \in CPC \ {"new"}
  BY DEF CPC
<1> QED
  BY <1>1, <1>5, <1>6, <1>7, MoveKeeps DEF windows

\* The steps of a connection that change neither the store nor who is invited.
LEMMA QuietServeKeeps ==
  ASSUME WindowInv, NEW c \in Conn,
         SendHello(c) \/ ReadWindow(c) \/ TryPairing(c) \/ Paired(c) \/ CheckTrusted(c)
           \/ SessionDone(c) \/ ConnLost(c)
  PROVE  WindowInv'
<1>1. UNCHANGED <<vars, invited, opened>>
  BY DEF SendHello, ReadWindow, TryPairing, Paired, CheckTrusted, SessionDone, ConnLost, windows
<1>2. StoreInv' /\ TrustedWasInvited' /\ Fps(devices') = Fps(devices)
  BY <1>1, SameStore
<1>3. window \in 0..opened
  BY DEF WindowInv
<1>4. {"greeted", "try", "check", "add", "paired", "refresh"} \subseteq CPC \ {"new"}
  BY DEF CPC
<1>5. CASE SendHello(c) \/ ReadWindow(c) \/ TryPairing(c)
  <2>1. PICK from \in {"hello", "greeted", "try"}, to \in {"greeted", "try", "check", "add"} :
          At(c, from, to) /\ UNCHANGED <<windows, cfp, late>>
    BY <1>5, Zenon DEF SendHello, ReadWindow, TryPairing, NotPaired
  <2> QED
    BY <1>1, <1>2, <1>3, <1>4, <2>1, MoveKeeps DEF windows
<1>6. CASE Paired(c)
  <2>1. window' \in 0..opened
    BY <1>6, CloseKeeps DEF Paired
  <2> QED
    BY <1>1, <1>2, <1>4, <1>6, <2>1, MoveKeeps, Zenon DEF Paired
<1>7. CASE CheckTrusted(c)
  <2>1. CASE Ends(c, "check")
    BY <1>1, <1>2, <1>7, <2>1, EndsKeeps, Zenon DEF CheckTrusted
  <2>2. CASE ~Ends(c, "check")
    <3>1. IsTrusted(cfp[c]) /\ At(c, "check", "refresh") /\ UNCHANGED <<windows, cfp, late>>
      BY <1>7, <2>2 DEF CheckTrusted
    <3>2. IsTrusted(cfp[c])'
      BY <1>2, <3>1 DEF IsTrusted
    <3> QED
      BY <1>1, <1>2, <1>3, <1>4, <3>1, <3>2, MoveKeeps DEF windows
  <2> QED
    BY <2>1, <2>2
<1>8. CASE SessionDone(c)
  BY <1>1, <1>2, <1>8, EndsKeeps DEF SessionDone
<1>9. CASE ConnLost(c)
  BY <1>1, <1>2, <1>9, EndsKeeps DEF ConnLost
<1> QED
  BY <1>5, <1>6, <1>7, <1>8, <1>9

LEMMA RefreshKeeps ==
  ASSUME WindowInv, NEW c \in Conn, Refresh(c)
  PROVE  WindowInv' /\ Fps(devices') = Fps(devices)
<1>1. StoreInv' /\ Fps(devices') = Fps(devices) /\ TrustedWasInvited'
  <2>1. UNCHANGED invited
    BY DEF Refresh
  <2>2. CASE UNCHANGED vars
    BY <2>1, <2>2, SameStore
  <2>3. CASE \E v \in Info \ {Bare} : UpdateInfo(cfp[c], v)
    <3>1. StoreInv' /\ Fps(devices') = Fps(devices)
      BY <2>3, UpdateKeeps DEF WindowInv
    <3>2. Saves \/ UNCHANGED saved
      BY <2>3 DEF UpdateInfo, SaveFails
    <3>3. Fps(saved'.devices) = Fps(devices') \/ Fps(saved'.devices) = Fps(saved.devices)
      BY <3>2 DEF Saves
    <3> QED
      BY <2>1, <3>1, <3>3, Zenon DEF WindowInv, TrustedWasInvited
  <2> QED
    BY <2>2, <2>3, Zenon DEF Refresh
<1>2. CASE Ends(c, "paired")
  BY <1>1, <1>2, EndsKeeps DEF Refresh
<1>3. CASE At(c, "refresh", "session") /\ UNCHANGED <<cfp, cps, late>>
  <2>1. IsTrusted(cfp[c]) \/ c \in late
    BY <1>3 DEF WindowInv, ConnOK, At
  <2>2. IsTrusted(cfp[c])' \/ c \in late
    BY <1>1, <1>3, <2>1 DEF IsTrusted
  <2>3. UNCHANGED <<windows, invited>> /\ "session" \in CPC \ {"new"} /\ window \in 0..opened
    BY DEF Refresh, CPC, WindowInv
  <2> QED
    BY <1>1, <1>3, <2>2, <2>3, MoveKeeps DEF windows
<1> QED
  BY <1>1, <1>2, <1>3 DEF Refresh

LEMMA AddPeerKeeps ==
  ASSUME WindowInv, NEW d \in Device, AddPeer(d)
  PROVE  WindowInv'
<1>1. AddDevice(d) /\ invited' = invited \cup {d.fp} /\ UNCHANGED <<windows, cpc, cfp, late>>
  BY DEF AddPeer, conns
<1>2. d.fp \in Fp
  BY DEF Device
<1>3. StoreInv' /\ TrustedWasInvited' /\ Fps(devices') = Fps(devices) \cup {d.fp}
  BY <1>1, InvitedKeeps
<1>4. ASSUME NEW e \in Conn
      PROVE  ConnOK(e)'
  BY <1>1, <1>3, OtherConn DEF WindowInv
<1> QED
  BY <1>1, <1>2, <1>3, <1>4 DEF WindowInv, windows

\* Connections that are past the check when their device goes are late.
LEMMA RevokeKeeps ==
  ASSUME WindowInv, NEW t, Revoke(t)
  PROVE  WindowInv'
<1>1. /\ RemoveDevice(t) /\ UNCHANGED <<windows, cpc, cfp, invited>>
      /\ late' = late \cup {c \in Conn : /\ cpc[c] \in {"refresh", "session"}
                                         /\ cfp[c] \notin Fps(devices')}
  BY DEF Revoke, conns
<1>2. StoreInv' /\ Fps(devices') \subseteq Fps(devices)
  BY <1>1, RemoveKeeps, Zenon DEF WindowInv
<1>3. Saves \/ UNCHANGED saved
  BY <1>1, Zenon DEF RemoveDevice, SaveFails
<1>4. Fps(saved'.devices) = Fps(devices') \/ Fps(saved'.devices) = Fps(saved.devices)
  BY <1>3 DEF Saves
<1>5. TrustedWasInvited'
  BY <1>1, <1>2, <1>4, Zenon DEF WindowInv, TrustedWasInvited
<1>6. ASSUME NEW e \in Conn
      PROVE  ConnOK(e)'
  BY <1>1 DEF WindowInv, ConnOK, IsTrusted
<1> QED
  BY <1>1, <1>2, <1>5, <1>6 DEF WindowInv, windows

LEMMA DaemonRestartsKeeps ==
  ASSUME WindowInv, DaemonRestarts
  PROVE  WindowInv'
<1>1. StoreInv' /\ Fps(devices') = Fps(saved.devices)
  BY RestartKeeps DEF WindowInv, DaemonRestarts
<1>2. TrustedWasInvited'
  BY <1>1, Zenon DEF WindowInv, TrustedWasInvited, DaemonRestarts, Restart
<1>3. ASSUME NEW e \in Conn
      PROVE  ConnOK(e)'
  BY DEF DaemonRestarts, ConnOK
<1> QED
  BY <1>1, <1>2, <1>3 DEF WindowInv, DaemonRestarts, CPC

LEMMA NextWindowInv ==
  ASSUME WindowInv, [WNext]_pvars
  PROVE  WindowInv'
<1>1. CASE OpenWindow \/ \E w \in Window : WindowEnds(w)
  BY <1>1, WindowStepKeeps
<1>2. CASE \E c \in Conn, fp \in Fp : Handshake(c, fp)
  BY <1>2, HandshakeKeeps
<1>3. ASSUME NEW c \in Conn, Serve(c) \/ ConnLost(c)
      PROVE  WindowInv'
  BY <1>3, QuietServeKeeps, AddPairedKeeps, RefreshKeeps DEF Serve
<1>4. CASE \E d \in Device : AddPeer(d)
  BY <1>4, AddPeerKeeps
<1>5. CASE \E t \in Fp : Revoke(t)
  BY <1>5, RevokeKeeps
<1>6. CASE DaemonRestarts
  BY <1>6, DaemonRestartsKeeps
<1>7. CASE UNCHANGED pvars
  <2>1. UNCHANGED <<vars, window, opened, cpc, cfp, invited, late>>
    BY <1>7 DEF pvars, windows, conns
  <2>2. StoreInv' /\ TrustedWasInvited' /\ Fps(devices') = Fps(devices)
    BY <2>1, SameStore
  <2>3. ASSUME NEW e \in Conn
        PROVE  ConnOK(e)'
    BY <2>1, <2>2, OtherConn DEF WindowInv
  <2> QED
    BY <2>1, <2>2, <2>3 DEF WindowInv
<1> QED
  BY <1>1, <1>2, <1>3, <1>4, <1>5, <1>6, <1>7 DEF WNext

\* Nobody becomes trusted uninvited: every entry of devices.json and of the
\* list in memory was let through the handshake by an open window, or added by
\* the user.
THEOREM InvitedSafety == WSpec => []TrustedWasInvited
<1>1. WInit => WindowInv
  BY InitWindowInv
<1>2. WindowInv /\ [WNext]_pvars => WindowInv'
  BY NextWindowInv
<1>3. WindowInv => TrustedWasInvited
  BY DEF WindowInv
<1> QED
  BY <1>1, <1>2, <1>3, PTL DEF WSpec

\* servePeer: a session belongs to a device that was paired when it was
\* checked, and still is unless it was revoked since.
THEOREM SessionSafety == WSpec => []SessionIsPaired
<1>1. WInit => WindowInv
  BY InitWindowInv
<1>2. WindowInv /\ [WNext]_pvars => WindowInv'
  BY NextWindowInv
<1>3. WindowInv => SessionIsPaired
  BY DEF WindowInv, ConnOK, SessionIsPaired
<1> QED
  BY <1>1, <1>2, <1>3, PTL DEF WSpec

\* What RevokedSafety says of the store also holds while connections pair,
\* are checked and update what is stored of their device.
THEOREM RevokedSafetyWithPeers == WSpec => []RevokedStaysOut
<1>1. WInit => WindowInv
  BY InitWindowInv
<1>2. WindowInv /\ [WNext]_pvars => WindowInv'
  BY NextWindowInv
<1>3. WindowInv => RevokedStaysOut
  BY DEF WindowInv, StoreInv
<1> QED
  BY <1>1, <1>2, <1>3, PTL DEF WSpec

\* Only the end of a window, or of the daemon, closes it.
LEMMA WindowStays ==
  ASSUME WindowInv, WNext, NEW w \in Window, window = w, window' = 0
  PROVE  w \in done'
<1>0. w # 0 /\ w \in 1..opened
  BY DEF Window, WindowInv
<1>1. CASE OpenWindow
  BY <1>1 DEF OpenWindow, WindowInv
<1>2. CASE \E v \in Window : WindowEnds(v)
  BY <1>0, <1>2 DEF WindowEnds, Close
<1>3. CASE \E c \in Conn, fp \in Fp : Handshake(c, fp)
  BY <1>0, <1>3 DEF Handshake, windows
<1>4. ASSUME NEW c \in Conn, Serve(c) \/ ConnLost(c)
      PROVE  w \in done'
  <2>1. CASE Paired(c)
    BY <1>0, <2>1 DEF Paired, Close
  <2>2. CASE ~Paired(c)
    <3>1. UNCHANGED windows
      BY <1>4, <2>2, Zenon DEF Serve, SendHello, ReadWindow, TryPairing, AddPaired, CheckTrusted, Refresh,
                        SessionDone, ConnLost
    <3> QED
      BY <1>0, <3>1 DEF windows
  <2> QED
    BY <2>1, <2>2
<1>5. CASE \E d \in Device : AddPeer(d)
  BY <1>0, <1>5 DEF AddPeer, windows
<1>6. CASE \E t \in Fp : Revoke(t)
  BY <1>0, <1>6 DEF Revoke, windows
<1>7. CASE DaemonRestarts
  BY <1>0, <1>7 DEF DaemonRestarts
<1> QED
  BY <1>1, <1>2, <1>3, <1>4, <1>5, <1>6, <1>7 DEF WNext

\* closePairWindow: the timer or the client of an old window never takes away
\* the one that replaced it.
THEOREM WindowsSafety == WSpec => OtherWindowsStay
<1>1. WInit => WindowInv
  BY InitWindowInv
<1>2. WindowInv /\ [WNext]_pvars => WindowInv'
  BY NextWindowInv
<1>3. WindowInv /\ [WNext]_pvars
        => [\A w \in Window : window = w /\ window' = 0 => w \in done']_pvars
  BY WindowStays
<1> QED
  BY <1>1, <1>2, <1>3, PTL DEF WSpec, OtherWindowsStay
-----------------------------------------------------------------------------
(* PhonePair *)

\* In a Pair nothing interferes with, a connection of the phone finds a window
\* open until the PC has saved the phone; a Pair that returned without an error
\* has such a connection or is saved, and one that failed has neither.
PairOK ==
  /\ ppc # "idle" /\ (ppc # "failed" => has = TRUE) /\ (ppc = "failed" => has = FALSE)
  /\ \A c \in FromPhone :
       IsTrusted(Phone) \/ (window # 0 /\ cpc[c] \in {"hello", "greeted", "try", "add"})
  /\ ppc = "ok" => IsTrusted(Phone) \/ FromPhone # {}
  /\ ppc \in {"undo", "failed"} => ~IsTrusted(Phone) /\ FromPhone = {}

\* The connection on which the phone waits is its own, and still unanswered.
Held == pconn # None => pconn \in Conn /\ cpc[pconn] = "hello" /\ cfp[pconn] = Phone

PhoneInv ==
  /\ WindowInv /\ Held
  /\ clean \in BOOLEAN
  /\ clean => PairOK

LEMMA InitPhoneInv ==
  ASSUME PInit
  PROVE  PhoneInv
  BY InitWindowInv, Zenon DEF PInit, PhoneInv, Held

\* To the PC the phone is a peer like any other.
LEMMA PhoneIsPeer ==
  ASSUME PhoneInv, [PNext]_phoneVars
  PROVE  [WNext]_pvars
<1>1. CASE \E c \in Conn : DialPC(c)
  BY <1>1, PhoneOK DEF DialPC, WNext
<1>2. CASE HelloArrives
  BY <1>2, Zenon DEF HelloArrives, PhoneInv, Held, WNext, Serve
<1>3. CASE PCStep
  BY <1>3, Zenon DEF PCStep
<1>4. CASE Pair \/ DialFails \/ HelloBreaks \/ Undo \/ PhoneRevokes \/ PhoneRestarts
           \/ UNCHANGED phoneVars
  <2>1. UNCHANGED pvars
    BY <1>4, Zenon DEF Pair, DialFails, HelloBreaks, Undo, PhoneRevokes, PhoneRestarts, phoneVars
  <2> QED
    BY <2>1
<1> QED
  BY <1>1, <1>2, <1>3, <1>4 DEF PNext

\* The peer of a connection that stays in its Hello exchange stays the same.
LEMMA HelloStays ==
  ASSUME WindowInv, WNext, NEW e \in Conn, cpc[e] = "hello", cpc'[e] = "hello"
  PROVE  cfp'[e] = cfp[e]
<1>0. cpc \in [Conn -> CPC] /\ cfp \in [Conn -> Fp \cup {None}]
  BY DEF WindowInv
<1>1. CASE \E c \in Conn, fp \in Fp : Handshake(c, fp)
  BY <1>0, <1>1 DEF Handshake, At
<1>2. ASSUME NEW c \in Conn, NEW from, Ends(c, from)
      PROVE  cfp'[e] = cfp[e]
  BY <1>0, <1>2 DEF Ends, At
<1>3. ASSUME NEW c \in Conn, Serve(c) \/ ConnLost(c)
      PROVE  cfp'[e] = cfp[e]
  <2>1. CASE \E from : Ends(c, from)
    BY <1>2, <2>1
  <2>2. CASE ~\E from : Ends(c, from)
    BY <1>3, <2>2, Zenon DEF Serve, SendHello, ReadWindow, TryPairing, AddPaired, Paired, CheckTrusted,
                      Refresh, SessionDone, ConnLost
  <2> QED
    BY <2>1, <2>2
<1>4. CASE DaemonRestarts
  BY <1>4 DEF DaemonRestarts
<1>5. CASE OpenWindow \/ (\E w \in Window : WindowEnds(w)) \/ (\E d \in Device : AddPeer(d))
           \/ (\E t \in Fp : Revoke(t))
  BY <1>5, Zenon DEF OpenWindow, WindowEnds, AddPeer, Revoke, conns
<1> QED
  BY <1>1, <1>3, <1>4, <1>5, Zenon DEF WNext

LEMMA NextHeld ==
  ASSUME PhoneInv, [PNext]_phoneVars
  PROVE  Held'
<1>0. Held /\ WindowInv /\ cpc \in [Conn -> CPC] /\ cfp \in [Conn -> Fp \cup {None}]
  BY DEF PhoneInv, WindowInv, Held
<1>1. ASSUME NEW c \in Conn, DialPC(c)
      PROVE  Held'
  BY <1>0, <1>1 DEF DialPC, Handshake, At, Held
<1>2. CASE HelloArrives \/ HelloBreaks \/ PhoneRestarts
  BY <1>2, Zenon DEF HelloArrives, HelloBreaks, PhoneRestarts, Held
<1>3. CASE PCStep
  <2>1. WNext /\ UNCHANGED pconn /\ (pconn # None => cpc'[pconn] = cpc[pconn])
    BY <1>3 DEF PCStep, phone
  <2> QED
    BY <1>0, <2>1, HelloStays DEF Held
<1>4. CASE Pair \/ DialFails \/ Undo \/ PhoneRevokes \/ UNCHANGED phoneVars
  <2>1. UNCHANGED <<cpc, cfp, pconn>>
    BY <1>4, Zenon DEF Pair, DialFails, Undo, PhoneRevokes, phoneVars, pvars, conns, phone
  <2> QED
    BY <1>0, <2>1 DEF Held
<1> QED
  BY <1>1, <1>2, <1>3, <1>4 DEF PNext

\* Serving a connection takes nobody from the list.
LEMMA ServeGrows ==
  ASSUME WindowInv, NEW c \in Conn, Serve(c)
  PROVE  Fps(devices) \subseteq Fps(devices')
<1>1. CASE AddPaired(c)
  BY <1>1, AddPairedKeeps
<1>2. CASE Refresh(c)
  BY <1>2, RefreshKeeps
<1>3. CASE UNCHANGED vars
  BY <1>3 DEF vars, store
<1> QED
  BY <1>1, <1>2, <1>3, Zenon DEF Serve, SendHello, ReadWindow, TryPairing, Paired, CheckTrusted, SessionDone

\* The PC serves a connection of the phone: the phone is saved by then, or the
\* window it will be saved through stays open.
LEMMA ServesPhone ==
  ASSUME WindowInv, PairOK, NEW c \in FromPhone, Serve(c)
  PROVE  \/ IsTrusted(Phone)'
         \/ /\ window' = window /\ window # 0 /\ cfp' = cfp
            /\ cpc'[c] \in {"greeted", "try", "add"}
            /\ \A e \in Conn \ {c} : cpc'[e] = cpc[e]
<1>0. c \in Conn /\ cfp[c] = Phone /\ cpc \in [Conn -> CPC]
  BY DEF FromPhone, WindowInv
<1>1. IsTrusted(Phone) \/ (window # 0 /\ cpc[c] \in {"hello", "greeted", "try", "add"})
  BY DEF PairOK
<1>2. CASE IsTrusted(Phone)
  BY <1>0, <1>2, ServeGrows, Zenon DEF IsTrusted
<1>3. CASE ~IsTrusted(Phone)
  <2>1. window # 0 /\ cpc[c] \in {"hello", "greeted", "try", "add"}
    BY <1>1, <1>3
  <2>2. CASE AddPaired(c)
    BY <1>0, <2>2, AddPairedKeeps, Zenon DEF IsTrusted
  <2>3. CASE SendHello(c) \/ ReadWindow(c) \/ TryPairing(c)
    BY <1>0, <1>3, <2>1, <2>3, Zenon DEF SendHello, ReadWindow, TryPairing, At, windows
  <2>4. CASE Paired(c) \/ CheckTrusted(c) \/ Refresh(c) \/ SessionDone(c)
    BY <2>1, <2>4, Zenon DEF Paired, CheckTrusted, Refresh, SessionDone, Ends, At
  <2> QED
    BY <2>2, <2>3, <2>4, Zenon DEF Serve
<1> QED
  BY <1>2, <1>3, Zenon

LEMMA PCKeepsPairOK ==
  ASSUME WindowInv, PairOK, PCStep, Undisturbed
  PROVE  PairOK'
<1>0. /\ cpc \in [Conn -> CPC] /\ cfp \in [Conn -> Fp \cup {None}]
      /\ UNCHANGED <<ppc, has>> /\ Phone # None
  BY PhoneOK, StoreConstantsOK, Zenon DEF WindowInv, PCStep, phone
<1>1. CASE OpenWindow
  <2>1. /\ UNCHANGED <<devices, cpc, cfp>> /\ window' = opened + 1 /\ opened \in Nat
    BY <1>1 DEF OpenWindow, WindowInv, vars, store, conns
  <2> QED
    BY <1>0, <2>1, SMTT(30) DEF PairOK, FromPhone, IsTrusted
<1>2. ASSUME NEW c \in Conn, Handshake(c, Phone)
      PROVE  PairOK'
  <2>1. /\ cpc[c] = "new" /\ cpc' = [cpc EXCEPT ![c] = "hello"] /\ cfp' = [cfp EXCEPT ![c] = Phone]
        /\ UNCHANGED <<devices, window>> /\ (IsTrusted(Phone) \/ window # 0)
    BY <1>2 DEF Handshake, At, Admitted, vars, store, windows
  <2>2. cfp[c] = None
    BY <2>1 DEF WindowInv, ConnOK
  <2>3. c \in FromPhone' /\ c \notin FromPhone
    BY <1>0, <2>1, <2>2 DEF FromPhone
  <2>4. ppc = "ok"
    BY <2>3 DEF PCStep
  <2>5. ASSUME NEW e \in FromPhone'
        PROVE  IsTrusted(Phone)' \/ (window' # 0 /\ cpc'[e] \in {"hello", "greeted", "try", "add"})
    <3>1. IsTrusted(Phone)' = IsTrusted(Phone)
      BY <2>1 DEF IsTrusted
    <3>2. CASE e = c
      BY <1>0, <2>1, <3>1, <3>2
    <3>3. CASE e # c
      <4>1. e \in FromPhone /\ cpc'[e] = cpc[e]
        BY <1>0, <2>1, <3>3 DEF FromPhone
      <4> QED
        BY <2>1, <3>1, <4>1 DEF PairOK
    <3> QED
      BY <3>2, <3>3
  <2> QED
    BY <1>0, <2>3, <2>4, <2>5, Zenon DEF PairOK
<1>3. ASSUME NEW c \in FromPhone, Serve(c)
      PROVE  PairOK'
  <2>1. ppc \notin {"idle", "undo", "failed"} /\ has = TRUE
    BY DEF PairOK
  <2>2. CASE IsTrusted(Phone)'
    BY <1>0, <2>1, <2>2 DEF PairOK
  <2>3. CASE ~IsTrusted(Phone)'
    <3>1. /\ window' = window /\ window # 0 /\ cfp' = cfp
          /\ cpc'[c] \in {"greeted", "try", "add"}
          /\ \A e \in Conn \ {c} : cpc'[e] = cpc[e]
      BY <1>3, <2>3, ServesPhone, Zenon
    <3>2. ~IsTrusted(Phone)
      <4>1. c \in Conn
        BY DEF FromPhone
      <4>2. Fps(devices) \subseteq Fps(devices')
        BY <1>3, <4>1, ServeGrows
      <4> QED
        BY <2>3, <4>2 DEF IsTrusted
    <3>3. FromPhone' = FromPhone
      BY <3>1 DEF FromPhone
    <3>4. ASSUME NEW e \in FromPhone
          PROVE  window' # 0 /\ cpc'[e] \in {"hello", "greeted", "try", "add"}
      BY <3>1, <3>2, Zenon DEF PairOK, FromPhone
    <3> QED
      BY <1>0, <2>1, <3>3, <3>4 DEF PairOK
  <2> QED
    BY <2>2, <2>3
<1> QED
  BY <1>1, <1>2, <1>3 DEF Undisturbed, FromPhone

LEMMA NextPairOK ==
  ASSUME PhoneInv, [PNext]_phoneVars, clean'
  PROVE  PairOK'
<1>0. /\ WindowInv /\ cpc \in [Conn -> CPC] /\ cfp \in [Conn -> Fp \cup {None}]
      /\ (clean => PairOK) /\ clean \in BOOLEAN
  BY DEF PhoneInv, WindowInv
<1>1. CASE Pair
  <2>1. UNCHANGED <<devices, window, cpc, cfp>> /\ has' = TRUE
    BY <1>1 DEF Pair, pvars, vars, store, windows, conns
  <2>2. ppc' = "back" /\ FromPhone = {}
    BY <1>1, ZenonT(30) DEF Pair
  <2> QED
    BY <2>1, <2>2, Zenon DEF PairOK, FromPhone
<1>2. ASSUME NEW c \in Conn, DialPC(c)
      PROVE  PairOK'
  <2>1. /\ cpc' = [cpc EXCEPT ![c] = "hello"] /\ cfp' = [cfp EXCEPT ![c] = Phone]
        /\ UNCHANGED <<devices, window, ppc, has, clean>> /\ (IsTrusted(Phone) \/ window # 0)
        /\ ppc \in {"back", "hello"}
    BY <1>2, ZenonT(30) DEF DialPC, Dialing, Handshake, At, Admitted, vars, store, windows
  <2>2. PairOK /\ (IsTrusted(Phone)' <=> IsTrusted(Phone))
    BY <1>0, <2>1 DEF IsTrusted
  <2>3. ASSUME NEW e \in FromPhone'
        PROVE  IsTrusted(Phone) \/ (window # 0 /\ cpc'[e] \in {"hello", "greeted", "try", "add"})
    <3>1. CASE e = c
      BY <1>0, <2>1, <3>1
    <3>2. CASE e # c
      <4>1. e \in FromPhone /\ cpc'[e] = cpc[e]
        BY <1>0, <2>1, <3>2 DEF FromPhone
      <4> QED
        BY <2>2, <4>1 DEF PairOK
    <3> QED
      BY <3>1, <3>2
  <2> QED
    BY <2>1, <2>2, <2>3 DEF PairOK
<1>3. CASE DialFails
  <2>1. /\ UNCHANGED <<devices, window, cpc, cfp, has>> /\ clean /\ ~Admitted(Phone)
        /\ \/ ppc = "back" /\ ppc' = "hello"
           \/ ppc = "hello" /\ ppc' = "undo"
    BY <1>3 DEF DialFails, Dialing, AfterHello, pvars, vars, store, windows, conns
  <2>2. PairOK /\ FromPhone' = FromPhone /\ (IsTrusted(Phone)' <=> IsTrusted(Phone))
    BY <1>0, <2>1 DEF FromPhone, IsTrusted
  <2>3. ~IsTrusted(Phone) /\ FromPhone = {}
    BY <2>1, <2>2 DEF PairOK, Admitted
  <2> QED
    BY <2>1, <2>2, <2>3 DEF PairOK
<1>4. CASE HelloArrives
  <2>1. /\ cpc[pconn] = "hello" /\ cpc' = [cpc EXCEPT ![pconn] = "greeted"]
        /\ UNCHANGED <<devices, window, cfp, has, clean>>
        /\ pconn \in FromPhone
    BY <1>4, Zenon DEF HelloArrives, SendHello, At, PhoneInv, Held, FromPhone, vars, store, windows
  <2>2. PairOK /\ FromPhone' = FromPhone /\ (IsTrusted(Phone)' <=> IsTrusted(Phone))
    BY <1>0, <2>1 DEF FromPhone, IsTrusted
  <2>3. ppc \notin {"idle", "undo", "failed"} /\ has = TRUE /\ ppc' \in {"hello", "ok", "undo"}
    BY <1>4, <2>1, <2>2 DEF PairOK, HelloArrives, AfterHello
  <2>4. ppc' # "undo"
    BY <1>4 DEF HelloArrives, AfterHello
  <2>5. ASSUME NEW e \in FromPhone
        PROVE  IsTrusted(Phone) \/ (window # 0 /\ cpc'[e] \in {"hello", "greeted", "try", "add"})
    BY <1>0, <2>1, <2>2, Zenon DEF PairOK, FromPhone
  <2> QED
    BY <2>1, <2>2, <2>3, <2>4, <2>5, Zenon DEF PairOK
<1>5. CASE Undo
  <2>1. /\ UNCHANGED <<devices, window, cpc, cfp, clean>> /\ ppc = "undo" /\ ppc' = "failed"
        /\ has' = FALSE
    BY <1>5 DEF Undo, pvars, vars, store, windows, conns
  <2>2. ~IsTrusted(Phone) /\ FromPhone = {}
    BY <1>0, <2>1 DEF PairOK
  <2> QED
    BY <2>1, <2>2, Zenon DEF PairOK, FromPhone, IsTrusted
<1>6. CASE HelloBreaks \/ PhoneRevokes \/ PhoneRestarts
  BY <1>6 DEF HelloBreaks, PhoneRevokes, PhoneRestarts
<1>7. CASE PCStep
  <2>1. clean /\ Undisturbed
    BY <1>0, <1>7, Zenon DEF PCStep
  <2> QED
    BY <1>0, <1>7, <2>1, PCKeepsPairOK
<1>8. CASE UNCHANGED phoneVars
  <2>1. UNCHANGED <<devices, window, cpc, cfp, ppc, has, clean>>
    BY <1>8, Zenon DEF phoneVars, pvars, vars, store, windows, conns, phone
  <2> QED
    BY <1>0, <2>1, Zenon DEF PairOK, FromPhone, IsTrusted
<1> QED
  BY <1>1, <1>2, <1>3, <1>4, <1>5, <1>6, <1>7, <1>8 DEF PNext

LEMMA NextPhoneInv ==
  ASSUME PhoneInv, [PNext]_phoneVars
  PROVE  PhoneInv'
<1>1. WindowInv'
  BY PhoneIsPeer, NextWindowInv DEF PhoneInv
<1>2. clean' \in BOOLEAN
  BY Zenon DEF PhoneInv, PNext, Pair, DialPC, DialFails, HelloArrives, HelloBreaks, Undo, PhoneRevokes,
         PhoneRestarts, PCStep, phoneVars
<1>3. clean' => PairOK'
  BY NextPairOK
<1> QED
  BY <1>1, <1>2, <1>3, NextHeld DEF PhoneInv

\* The phone's Pair and the PC: once the PC has served the phone's connections,
\* a Pair nothing interfered with left both paired if it returned without an
\* error, and neither if it failed.
THEOREM MutualSafety == PSpec => []PairIsMutual
<1>1. PInit => PhoneInv
  BY InitPhoneInv
<1>2. PhoneInv /\ [PNext]_phoneVars => PhoneInv'
  BY NextPhoneInv
<1>3. PhoneInv => PairIsMutual
  <2> SUFFICES ASSUME PhoneInv, ppc \in {"ok", "failed"}, clean, FromPhone = {}
               PROVE  has = (ppc = "ok") /\ IsTrusted(Phone) = (ppc = "ok")
    BY DEF PairIsMutual
  <2>1. PairOK
    BY DEF PhoneInv
  <2>2. CASE ppc = "ok"
    <3>1. has = TRUE /\ IsTrusted(Phone)
      BY <2>1, <2>2 DEF PairOK
    <3> QED
      BY <2>2, <3>1, Zenon DEF IsTrusted
  <2>3. CASE ppc = "failed"
    <3>1. has = FALSE /\ ~IsTrusted(Phone)
      BY <2>1, <2>3 DEF PairOK
    <3>2. ppc # "ok"
      BY <2>3
    <3>3. (ppc = "ok") = FALSE
      BY <3>2, Zenon
    <3>4. IsTrusted(Phone) = FALSE
      BY <3>1 DEF IsTrusted
    <3> QED
      BY <3>1, <3>3, <3>4, Zenon
  <2> QED
    BY <2>2, <2>3
<1> QED
  BY <1>1, <1>2, <1>3, PTL DEF PSpec

\* Beside a phone the PC is still the PC of PairWindow: what holds of its
\* windows, connections and devices holds while a phone pairs.
THEOREM PhoneImplementsWindow == PSpec => WSpec
<1>1. PInit => PhoneInv /\ WInit
  BY InitPhoneInv DEF PInit
<1>2. PhoneInv /\ [PNext]_phoneVars => PhoneInv'
  BY NextPhoneInv
<1>3. PhoneInv /\ [PNext]_phoneVars => [WNext]_pvars
  BY PhoneIsPeer
<1> QED
  BY <1>1, <1>2, <1>3, PTL DEF PSpec, WSpec
=============================================================================
