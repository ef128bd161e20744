---------------------------- MODULE TapPairProofs ----------------------------
(***************************************************************************)
(* A device is saved only when both users said yes, and the two sides end  *)
(* alike unless something broke, for any number of tap pairings under way  *)
(* between the two devices.                                                *)
(***************************************************************************)
EXTENDS TapPair, SequenceTheorems, TLAPS

Agreed(p, x) == answer[p][x] = TRUE

\* What one side of a pairing knows or is being told of the answers is what
\* the users answered.
SideTruthful(p, x) ==
  /\ decide[p][x] = TRUE => Agreed(p, x)
  /\ localYes[p][x] => Agreed(p, x)
  /\ remoteYes[p][x] => Agreed(p, Other(x))
  /\ \A i \in 1..Len(chan[p][x]) : chan[p][x][i] = "yes" => Agreed(p, Other(x))
  /\ pc[p][x] = "save" => Agreed(p, x) /\ Agreed(p, Other(x))

TapInv ==
  /\ TypeOK
  /\ \A p \in Pairing : \A x \in Side : SideTruthful(p, x)
  /\ SavedOnlyIfBothYes

\* There are two sides, each the other of the other.
LEMMA Sides ==
  ASSUME NEW x \in Side
  PROVE  Other(x) \in Side /\ Other(x) # x /\ Other(Other(x)) = x
  BY DEF Side, Other

\* Changing the entry of one side of one pairing keeps a type.
LEMMA UpdateTyped ==
  ASSUME NEW T, NEW f \in [Pairing -> [Side -> T]], NEW p \in Pairing, NEW x \in Side, NEW v \in T
  PROVE  [f EXCEPT ![p][x] = v] \in [Pairing -> [Side -> T]]
  OBVIOUS

\* Before any pairing nothing was answered and nothing is saved.
LEMMA InitTapInv ==
  ASSUME Init
  PROVE  TapInv
<1>1. TypeOK
  BY EmptySeq DEF Init, TypeOK, Each, Answers
<1>2. ASSUME NEW p \in Pairing, NEW x \in Side
      PROVE  SideTruthful(p, x)
  <2>1. decide[p][x] = Nothing /\ localYes[p][x] = FALSE /\ remoteYes[p][x] = FALSE
        /\ chan[p][x] = <<>> /\ pc[p][x] = "start"
    BY DEF Init, Each
  <2>2. Nothing # TRUE
    BY TapConstantsOK, Zenon
  <2>3. 1..Len(chan[p][x]) = {}
    BY <2>1
  <2> QED
    BY <2>1, <2>2, <2>3, Zenon DEF SideTruthful
<1>3. SavedOnlyIfBothYes
  BY DEF Init, SavedOnlyIfBothYes
<1> QED
  BY <1>1, <1>2, <1>3 DEF TapInv

\* One operation of a pairing.
Step(p) ==
  \/ Dial(p) \/ Drop(p)
  \/ \E x \in Side : \/ Run(p, x) \/ TimeOut(p, x) \/ GiveUp(p, x) \/ SaveFails(p, x) \/ AskerLeaves(p, x)
                     \/ \E ok \in BOOLEAN : ConfirmPair(p, x, ok)

\* Writing a message to the other side keeps the type of the channels.
LEMMA WriteTyped ==
  ASSUME TypeOK, NEW p \in Pairing, NEW x \in Side, NEW m \in {"request", "yes", "no"},
         Write(p, x, m)
  PROVE  chan' \in [Pairing -> [Side -> Seq({"request", "yes", "no"})]]
<1>1. Append(chan[p][Other(x)], m) \in Seq({"request", "yes", "no"})
  BY Sides, AppendProperties DEF TypeOK
<1> QED
  BY <1>1, Sides DEF TypeOK, Write

\* The ways a session ends keep the types.
LEMMA FinishTyped ==
  ASSUME TypeOK, NEW p \in Pairing, NEW x \in Side, NEW to \in {"paired", "failed"},
         Finish(p, x, to)
  PROVE  /\ pc' \in [Pairing -> [Side -> {"start", "request", "wait", "save", "paired", "failed"}]]
         /\ asked' \in [Pairing -> [Side -> BOOLEAN]]
         /\ decide' \in [Pairing -> [Side -> Answers]]
         /\ up' \in [Pairing -> BOOLEAN]
<1>1. pc' \in [Pairing -> [Side -> {"start", "request", "wait", "save", "paired", "failed"}]]
  BY DEF TypeOK, Finish, GoTo
<1>2. asked' \in [Pairing -> [Side -> BOOLEAN]]
  BY UpdateTyped DEF TypeOK, Finish
<1>3. decide' \in [Pairing -> [Side -> Answers]]
  <2>1. Nothing \in Answers
    BY DEF Answers
  <2> QED
    BY <2>1, UpdateTyped DEF TypeOK, Finish
<1>4. up' \in [Pairing -> BOOLEAN]
  BY DEF TypeOK, Finish
<1> QED
  BY <1>1, <1>2, <1>3, <1>4

\* Type correctness, one action after the other.
LEMMA StepTyped ==
  ASSUME TypeOK, NEW p \in Pairing, Step(p)
  PROVE  TypeOK'
<1> USE DEF TypeOK
<1>1. CASE Dial(p)
  <2>1. <<"request">> \in Seq({"request", "yes", "no"})
    OBVIOUS
  <2> QED
    BY <1>1, <2>1 DEF Dial, Side
<1>2. CASE Drop(p)
  <2>1. chan' \in [Pairing -> [Side -> Seq({"request", "yes", "no"})]]
    <3>1. chan' = chan \/ chan' = [chan EXCEPT ![p] = [x \in Side |-> <<>>]]
      BY <1>2, Zenon DEF Drop
    <3>2. [x \in Side |-> <<>>] \in [Side -> Seq({"request", "yes", "no"})]
      BY EmptySeq
    <3> QED
      BY <3>1, <3>2, Zenon
  <2>2. up' \in [Pairing -> BOOLEAN] /\ fault' \in [Pairing -> BOOLEAN]
    BY <1>2 DEF Drop
  <2> QED
    BY <1>2, <2>1, <2>2, Zenon DEF Drop
<1>3. ASSUME NEW x \in Side, ReadRequest(p, x)
      PROVE  TypeOK'
  <2>1. Tail(chan[p][x]) \in Seq({"request", "yes", "no"})
    BY <1>3, HeadTailProperties DEF ReadRequest
  <2>2. Append(chan[p][Other(x)], "request") \in Seq({"request", "yes", "no"})
    BY Sides, AppendProperties
  <2>3. chan' \in [Pairing -> [Side -> Seq({"request", "yes", "no"})]]
    BY <1>3, <2>1, <2>2, Sides, ZenonT(30) DEF ReadRequest
  <2> QED
    BY <1>3, <2>3, Zenon DEF ReadRequest, GoTo
<1>4. ASSUME NEW x \in Side, TakeLocal(p, x)
      PROVE  TypeOK'
  <2>1. CASE Finish(p, x, "failed")
    <3>1. chan' \in [Pairing -> [Side -> Seq({"request", "yes", "no"})]]
      BY <1>4, WriteTyped, Zenon DEF TakeLocal
    <3>2. localYes' \in [Pairing -> [Side -> BOOLEAN]]
      <4>1. UNCHANGED localYes \/ localYes' = [localYes EXCEPT ![p][x] = TRUE]
        BY <1>4, Zenon DEF TakeLocal
      <4>2. [localYes EXCEPT ![p][x] = TRUE] \in [Pairing -> [Side -> BOOLEAN]]
        BY UpdateTyped
      <4> QED
        BY <4>1, <4>2, Zenon
    <3> QED
      BY <1>4, <2>1, <3>1, <3>2, FinishTyped, Zenon DEF TakeLocal
  <2>2. CASE /\ Write(p, x, "yes")
             /\ localYes' = [localYes EXCEPT ![p][x] = TRUE]
             /\ decide' = [decide EXCEPT ![p][x] = Nothing]
             /\ GoTo(p, x, IF BothYes(TRUE, remoteYes[p][x]) THEN "save" ELSE "wait")
             /\ UNCHANGED <<up, asked>>
    <3>1. chan' \in [Pairing -> [Side -> Seq({"request", "yes", "no"})]]
      BY <2>2, WriteTyped, Zenon
    <3>2. localYes' \in [Pairing -> [Side -> BOOLEAN]]
      BY <2>2, UpdateTyped
    <3>3. Nothing \in Answers
      BY DEF Answers
    <3>4. decide' \in [Pairing -> [Side -> Answers]]
      BY <2>2, <3>3, UpdateTyped
    <3>5. pc' \in [Pairing -> [Side -> {"start", "request", "wait", "save", "paired", "failed"}]]
      BY <2>2 DEF GoTo
    <3> QED
      BY <1>4, <2>2, <3>1, <3>2, <3>4, <3>5, Zenon DEF TakeLocal
  <2> QED
    BY <1>4, <2>1, <2>2, Zenon DEF TakeLocal
<1>5. ASSUME NEW x \in Side, TakeRemote(p, x)
      PROVE  TypeOK'
  <2>1. CASE Finish(p, x, "failed") /\ UNCHANGED <<chan, remoteYes>>
    BY <1>5, <2>1, FinishTyped, Zenon DEF TakeRemote
  <2>2. CASE /\ chan[p][x] # <<>> /\ chan' = [chan EXCEPT ![p][x] = Tail(@)]
             /\ remoteYes' = [remoteYes EXCEPT ![p][x] = TRUE]
             /\ GoTo(p, x, IF BothYes(localYes[p][x], TRUE) THEN "save" ELSE "wait")
             /\ UNCHANGED <<up, decide, asked>>
    <3>1. Tail(chan[p][x]) \in Seq({"request", "yes", "no"})
      BY <2>2, HeadTailProperties
    <3>2. chan' \in [Pairing -> [Side -> Seq({"request", "yes", "no"})]]
      BY <2>2, <3>1, UpdateTyped
    <3>3. remoteYes' \in [Pairing -> [Side -> BOOLEAN]]
      BY <2>2, UpdateTyped
    <3>4. pc' \in [Pairing -> [Side -> {"start", "request", "wait", "save", "paired", "failed"}]]
      BY <2>2 DEF GoTo
    <3> QED
      BY <1>5, <2>2, <3>2, <3>3, <3>4, Zenon DEF TakeRemote
  <2> QED
    BY <1>5, <2>1, <2>2, Zenon DEF TakeRemote
<1>6. ASSUME NEW x \in Side, RequestFails(p, x)
      PROVE  TypeOK'
  BY <1>6, FinishTyped, Zenon DEF RequestFails
<1>7. ASSUME NEW x \in Side, Save(p, x)
      PROVE  TypeOK'
  <2>1. trusted' \in [Side -> BOOLEAN]
    BY <1>7 DEF Save
  <2> QED
    BY <1>7, <2>1, FinishTyped, Zenon DEF Save
<1>11. ASSUME NEW x \in Side, SaveFails(p, x)
      PROVE  TypeOK'
  <2>1. trusted' \in [Side -> BOOLEAN]
    BY <1>11 DEF SaveFails
  <2>2. fault' \in [Pairing -> BOOLEAN]
    BY <1>11 DEF SaveFails
  <2> QED
    BY <1>11, <2>1, <2>2, FinishTyped, Zenon DEF SaveFails
<1>8. ASSUME NEW x \in Side, TimeOut(p, x) \/ GiveUp(p, x)
      PROVE  TypeOK'
  <2>1. fault' \in [Pairing -> BOOLEAN]
    BY <1>8, Zenon DEF TimeOut, GiveUp, Fail
  <2> QED
    BY <1>8, <2>1, FinishTyped, Zenon DEF TimeOut, GiveUp, Fail
<1>9. ASSUME NEW x \in Side, AskerLeaves(p, x)
      PROVE  TypeOK'
  <2>1. asked' \in [Pairing -> [Side -> BOOLEAN]]
    BY <1>9, UpdateTyped DEF AskerLeaves
  <2> QED
    BY <1>9, <2>1, Zenon DEF AskerLeaves
<1>10. ASSUME NEW x \in Side, NEW ok \in BOOLEAN, ConfirmPair(p, x, ok)
      PROVE  TypeOK'
  <2>1. ok \in Answers /\ decide[p][x] \in Answers /\ answer[p][x] \in Answers
    BY Zenon DEF Answers
  <2>2. decide' \in [Pairing -> [Side -> Answers]]
    BY <1>10, <2>1, UpdateTyped DEF ConfirmPair
  <2>3. answer' \in [Pairing -> [Side -> Answers]]
    BY <1>10, <2>1, UpdateTyped DEF ConfirmPair
  <2>4. asked' \in [Pairing -> [Side -> BOOLEAN]]
    BY <1>10, UpdateTyped DEF ConfirmPair
  <2> QED
    BY <1>10, <2>2, <2>3, <2>4, Zenon DEF ConfirmPair
<1> QED
  BY <1>1, <1>2, <1>3, <1>4, <1>5, <1>6, <1>7, <1>8, <1>9, <1>10, <1>11, Zenon DEF Step, Run

\* The user's first answer stands.
LEMMA AnswersStay ==
  ASSUME TypeOK, NEW p \in Pairing, Step(p), NEW q \in Pairing, NEW y \in Side, Agreed(q, y)
  PROVE  Agreed(q, y)'
<1>1. CASE UNCHANGED answer
  BY <1>1 DEF Agreed
<1>2. ASSUME NEW x \in Side, NEW ok \in BOOLEAN, ConfirmPair(p, x, ok)
      PROVE  Agreed(q, y)'
  <2>1. answer[q][y] # Nothing
    BY TapConstantsOK, Zenon DEF Agreed
  <2>2. answer' = [answer EXCEPT ![p][x] = IF @ = Nothing THEN ok ELSE @]
    BY <1>2 DEF ConfirmPair
  <2>3. answer'[q][y] = answer[q][y]
    BY <2>1, <2>2 DEF TypeOK
  <2> QED
    BY <2>3, Zenon DEF Agreed
<1> QED
  BY <1>1, <1>2, Zenon DEF Step, Run, Dial, Drop, ReadRequest, RequestFails, TakeLocal,
     TakeRemote, Save, TimeOut, GiveUp, SaveFails, Fail, AskerLeaves

\* An answer is buffered only when the user gave it.
LEMMA DecideStep ==
  ASSUME TypeOK, NEW p \in Pairing, Step(p), NEW q \in Pairing, NEW y \in Side,
         decide'[q][y] = TRUE
  PROVE  decide[q][y] = TRUE \/ Agreed(q, y)'
<1>1. CASE UNCHANGED decide
  BY <1>1, Zenon
<1>2. ASSUME NEW x \in Side, decide' = [decide EXCEPT ![p][x] = Nothing]
      PROVE  decide[q][y] = TRUE
  <2>1. Nothing # TRUE
    BY TapConstantsOK, Zenon
  <2>2. decide'[q][y] = IF q = p /\ y = x THEN Nothing ELSE decide[q][y]
    BY <1>2 DEF TypeOK
  <2> QED
    BY <2>1, <2>2, Zenon
<1>3. ASSUME NEW x \in Side, NEW ok \in BOOLEAN, ConfirmPair(p, x, ok)
      PROVE  decide[q][y] = TRUE \/ Agreed(q, y)'
  <2>1. /\ decide' = [decide EXCEPT ![p][x] = IF answer[p][x] = Nothing THEN ok ELSE @]
        /\ answer' = [answer EXCEPT ![p][x] = IF @ = Nothing THEN ok ELSE @]
    BY <1>3 DEF ConfirmPair
  <2>2. CASE q = p /\ y = x /\ answer[p][x] = Nothing
    <3>1. decide'[q][y] = ok /\ answer'[q][y] = ok
      BY <2>1, <2>2 DEF TypeOK
    <3> QED
      BY <3>1, Zenon DEF Agreed
  <2>3. CASE ~(q = p /\ y = x /\ answer[p][x] = Nothing)
    <3>1. decide'[q][y] = decide[q][y]
      BY <2>1, <2>3 DEF TypeOK
    <3> QED
      BY <3>1, Zenon
  <2> QED
    BY <2>2, <2>3, Zenon
<1> QED
  BY <1>1, <1>2, <1>3, ZenonT(30) DEF Step, Run, Dial, Drop, ReadRequest, RequestFails,
     TakeLocal, TakeRemote, Save, TimeOut, GiveUp, SaveFails, Fail, AskerLeaves, Finish

\* The local yes is the one that was buffered.
LEMMA LocalStep ==
  ASSUME TypeOK, NEW p \in Pairing, Step(p), NEW q \in Pairing, NEW y \in Side,
         localYes'[q][y]
  PROVE  localYes[q][y] \/ decide[q][y] = TRUE
<1>1. CASE UNCHANGED localYes
  BY <1>1, Zenon
<1>2. ASSUME NEW x \in Side, decide[p][x] = TRUE,
             localYes' = [localYes EXCEPT ![p][x] = TRUE]
      PROVE  localYes[q][y] \/ decide[q][y] = TRUE
  <2>1. CASE q = p /\ y = x
    BY <1>2, <2>1, Zenon
  <2>2. CASE ~(q = p /\ y = x)
    <3>1. localYes'[q][y] = localYes[q][y]
      BY <1>2, <2>2, Zenon DEF TypeOK
    <3> QED
      BY <3>1, Zenon
  <2> QED
    BY <2>1, <2>2, Zenon
<1> QED
  BY <1>1, <1>2, ZenonT(30) DEF Step, Run, Dial, Drop, ReadRequest, RequestFails,
     TakeLocal, TakeRemote, Save, TimeOut, GiveUp, SaveFails, Fail, AskerLeaves, ConfirmPair

\* A yes of the other side was read from the connection.
LEMMA RemoteStep ==
  ASSUME TypeOK, NEW p \in Pairing, Step(p), NEW q \in Pairing, NEW y \in Side,
         remoteYes'[q][y]
  PROVE  remoteYes[q][y] \/ (chan[q][y] # <<>> /\ Head(chan[q][y]) = "yes")
<1>1. CASE UNCHANGED remoteYes
  BY <1>1, Zenon
<1>2. ASSUME NEW x \in Side, chan[p][x] # <<>>, Head(chan[p][x]) = "yes",
             remoteYes' = [remoteYes EXCEPT ![p][x] = TRUE]
      PROVE  remoteYes[q][y] \/ (chan[q][y] # <<>> /\ Head(chan[q][y]) = "yes")
  <2>1. CASE q = p /\ y = x
    BY <1>2, <2>1, Zenon
  <2>2. CASE ~(q = p /\ y = x)
    <3>1. remoteYes'[q][y] = remoteYes[q][y]
      BY <1>2, <2>2, Zenon DEF TypeOK
    <3> QED
      BY <3>1, Zenon
  <2> QED
    BY <2>1, <2>2
<1> QED
  BY <1>1, <1>2, ZenonT(30) DEF Step, Run, Dial, Drop, ReadRequest, RequestFails,
     TakeLocal, TakeRemote, Save, TimeOut, GiveUp, SaveFails, Fail, AskerLeaves, ConfirmPair

\* A yes on its way to a side was put there by the other one, whose user gave
\* it.
LEMMA ChanStep ==
  ASSUME TypeOK, NEW p \in Pairing, Step(p), NEW q \in Pairing, NEW y \in Side,
         NEW i \in 1..Len(chan'[q][y]), chan'[q][y][i] = "yes"
  PROVE  \/ \E j \in 1..Len(chan[q][y]) : chan[q][y][j] = "yes"
         \/ decide[q][Other(y)] = TRUE
<1> DEFINE Was == \E j \in 1..Len(chan[q][y]) : chan[q][y][j] = "yes"
<1>1. chan[q][y] \in Seq({"request", "yes", "no"}) /\ Other(y) \in Side
  BY Sides DEF TypeOK
<1>2. CASE UNCHANGED chan
  BY <1>2
<1>3. CASE Dial(p)
  <2>1. chan'[q][y] = IF q = p /\ y = "called" THEN <<"request">> ELSE chan[q][y]
    BY <1>3 DEF TypeOK, Dial, Side
  <2> QED
    BY <2>1
<1>4. CASE Drop(p)
  <2>1. chan' = chan \/ chan' = [chan EXCEPT ![p] = [x \in Side |-> <<>>]]
    BY <1>4, Zenon DEF Drop
  <2>2. chan'[q][y] = chan[q][y] \/ chan'[q][y] = <<>>
    <3>1. chan \in [Pairing -> [Side -> Seq({"request", "yes", "no"})]]
      BY DEF TypeOK
    <3> QED
      BY <2>1, <3>1, Zenon
  <2> QED
    BY <2>2
<1>5. ASSUME NEW x \in Side, ReadRequest(p, x)
      PROVE  Was
  <2>1. \/ chan'[q][y] = chan[q][y]
        \/ chan[q][y] # <<>> /\ chan'[q][y] = Tail(chan[q][y])
        \/ chan'[q][y] = Append(chan[q][y], "request")
    BY <1>5, Sides, Zenon DEF TypeOK, ReadRequest
  <2>2. CASE chan[q][y] # <<>> /\ chan'[q][y] = Tail(chan[q][y])
    BY <1>1, <2>2, HeadTailProperties
  <2>3. CASE chan'[q][y] = Append(chan[q][y], "request")
    BY <1>1, <2>3, AppendProperties
  <2> QED
    BY <2>1, <2>2, <2>3, Zenon
<1>6. ASSUME NEW x \in Side, TakeLocal(p, x)
      PROVE  Was \/ decide[q][Other(y)] = TRUE
  <2>1. PICK m \in {"yes", "no"} : \/ UNCHANGED chan
                                   \/ Write(p, x, m) /\ (m = "yes" => decide[p][x] = TRUE)
    BY <1>6, Zenon DEF TakeLocal
  <2>2. CASE Write(p, x, m) /\ (m = "yes" => decide[p][x] = TRUE)
    <3>1. \/ chan'[q][y] = chan[q][y]
          \/ q = p /\ y = Other(x) /\ chan'[q][y] = Append(chan[q][y], m)
      BY <2>2, Sides, Zenon DEF TypeOK, Write
    <3>2. CASE q = p /\ y = Other(x) /\ chan'[q][y] = Append(chan[q][y], m)
      <4>1. CASE m = "yes"
        BY <2>2, <3>2, <4>1, Sides, Zenon
      <4>2. CASE m # "yes"
        BY <1>1, <3>2, <4>2, AppendProperties, SMTT(30)
      <4> QED
        BY <4>1, <4>2, Zenon
    <3> QED
      BY <3>1, <3>2, Zenon
  <2> QED
    BY <1>2, <2>1, <2>2, Zenon
<1>7. ASSUME NEW x \in Side, TakeRemote(p, x)
      PROVE  Was
  <2>1. \/ UNCHANGED chan
        \/ chan[p][x] # <<>> /\ chan' = [chan EXCEPT ![p][x] = Tail(@)]
    BY <1>7, Zenon DEF TakeRemote
  <2>2. \/ chan'[q][y] = chan[q][y]
        \/ chan[q][y] # <<>> /\ chan'[q][y] = Tail(chan[q][y])
    <3>1. chan \in [Pairing -> [Side -> Seq({"request", "yes", "no"})]]
      BY DEF TypeOK
    <3> QED
      BY <2>1, <3>1, ZenonT(30)
  <2>3. CASE chan[q][y] # <<>> /\ chan'[q][y] = Tail(chan[q][y])
    BY <1>1, <2>3, HeadTailProperties
  <2> QED
    BY <2>2, <2>3
<1> QED
  BY <1>2, <1>3, <1>4, <1>5, <1>6, <1>7, ZenonT(30) DEF Step, Run, RequestFails, Save,
     TimeOut, GiveUp, SaveFails, Fail, AskerLeaves, ConfirmPair

\* A side goes on to save when it has both answers.
LEMMA SaveStep ==
  ASSUME TypeOK, NEW p \in Pairing, Step(p), NEW q \in Pairing, NEW y \in Side,
         pc'[q][y] = "save"
  PROVE  \/ pc[q][y] = "save"
         \/ decide[q][y] = TRUE /\ remoteYes[q][y]
         \/ localYes[q][y] /\ chan[q][y] # <<>> /\ Head(chan[q][y]) = "yes"
<1> DEFINE Goal == \/ pc[q][y] = "save"
                   \/ decide[q][y] = TRUE /\ remoteYes[q][y]
                   \/ localYes[q][y] /\ chan[q][y] # <<>> /\ Head(chan[q][y]) = "yes"
<1>1. CASE UNCHANGED pc
  BY <1>1
<1>2. CASE Dial(p)
  BY <1>2 DEF TypeOK, Dial
<1>3. ASSUME NEW x \in Side, NEW to, to # "save", GoTo(p, x, to)
      PROVE  Goal
  BY <1>3 DEF TypeOK, GoTo
<1>4. ASSUME NEW x \in Side, decide[p][x] = TRUE, remoteYes[p][x], GoTo(p, x, "save")
      PROVE  Goal
  <2>1. CASE q = p /\ y = x
    BY <1>4, <2>1, Zenon
  <2>2. CASE ~(q = p /\ y = x)
    BY <1>4, <2>2 DEF TypeOK, GoTo
  <2> QED
    BY <2>1, <2>2, Zenon
<1>5. ASSUME NEW x \in Side, localYes[p][x], chan[p][x] # <<>>, Head(chan[p][x]) = "yes",
             GoTo(p, x, "save")
      PROVE  Goal
  <2>1. CASE q = p /\ y = x
    BY <1>5, <2>1, Zenon
  <2>2. CASE ~(q = p /\ y = x)
    BY <1>5, <2>2 DEF TypeOK, GoTo
  <2> QED
    BY <2>1, <2>2, Zenon
<1>6. "wait" # "save" /\ "failed" # "save" /\ "paired" # "save"
  OBVIOUS
<1>7. ASSUME NEW x \in Side, TakeLocal(p, x)
      PROVE  Goal
  BY <1>3, <1>4, <1>6, <1>7, ZenonT(30) DEF TakeLocal, Finish, BothYes
<1>8. ASSUME NEW x \in Side, TakeRemote(p, x)
      PROVE  Goal
  BY <1>3, <1>5, <1>6, <1>8, ZenonT(30) DEF TakeRemote, Finish, BothYes
<1> QED
  BY <1>1, <1>2, <1>3, <1>6, <1>7, <1>8, ZenonT(30) DEF Step, Run, Drop, ReadRequest,
     RequestFails, Save, TimeOut, GiveUp, SaveFails, Fail, Finish, AskerLeaves, ConfirmPair

\* Every step of users, sessions and connection keeps the invariant.
LEMMA NextTapInv ==
  ASSUME TapInv, [Next]_vars
  PROVE  TapInv'
<1>1. CASE UNCHANGED vars
  BY <1>1, Zenon DEF vars, TapInv, TypeOK, SideTruthful, SavedOnlyIfBothYes, Agreed
<1>2. ASSUME NEW p \in Pairing, Step(p)
      PROVE  TapInv'
  <2>1. TypeOK /\ TypeOK'
    BY <1>2, StepTyped DEF TapInv
  <2>2. ASSUME NEW q \in Pairing, NEW y \in Side
        PROVE  SideTruthful(q, y)'
    <3>1. Other(y) \in Side /\ Other(Other(y)) = y
      BY Sides
    <3>2. SideTruthful(q, y) /\ SideTruthful(q, Other(y))
      BY <3>1 DEF TapInv
    <3>3. /\ Agreed(q, y) => Agreed(q, y)'
          /\ Agreed(q, Other(y)) => Agreed(q, Other(y))'
      BY <1>2, <2>1, <3>1, AnswersStay
    <3>4. chan[q][y] # <<>> /\ Head(chan[q][y]) = "yes" => Agreed(q, Other(y))
      <4>1. chan[q][y] \in Seq({"request", "yes", "no"})
        BY <2>1 DEF TypeOK
      <4>2. chan[q][y] # <<>> => 1 \in 1..Len(chan[q][y]) /\ Head(chan[q][y]) = chan[q][y][1]
        BY <4>1, HeadTailProperties, EmptySeq
      <4> QED
        BY <3>2, <4>2, Zenon DEF SideTruthful
    <3>5. decide'[q][y] = TRUE => Agreed(q, y)'
      BY <1>2, <2>1, <3>2, <3>3, DecideStep, Zenon DEF SideTruthful
    <3>6. localYes'[q][y] => Agreed(q, y)'
      BY <1>2, <2>1, <3>2, <3>3, LocalStep, Zenon DEF SideTruthful
    <3>7. remoteYes'[q][y] => Agreed(q, Other(y))'
      BY <1>2, <2>1, <3>2, <3>3, <3>4, RemoteStep, Zenon DEF SideTruthful
    <3>8. \A i \in 1..Len(chan'[q][y]) : chan'[q][y][i] = "yes" => Agreed(q, Other(y))'
      BY <1>2, <2>1, <3>1, <3>2, <3>3, ChanStep, Zenon DEF SideTruthful
    <3>9. pc'[q][y] = "save" => Agreed(q, y)' /\ Agreed(q, Other(y))'
      BY <1>2, <2>1, <3>2, <3>3, <3>4, SaveStep, Zenon DEF SideTruthful
    <3> QED
      BY <3>5, <3>6, <3>7, <3>8, <3>9, Zenon DEF SideTruthful, Agreed
  <2>3. SavedOnlyIfBothYes'
    <3> SUFFICES ASSUME NEW x \in Side, trusted'[x]
                 PROVE  \E q \in Pairing : \A y \in Side : Agreed(q, y)'
      BY Zenon DEF SavedOnlyIfBothYes, Agreed
    <3>1. CASE trusted[x]
      <4>1. PICK q \in Pairing : \A y \in Side : Agreed(q, y)
        BY <3>1, Zenon DEF TapInv, SavedOnlyIfBothYes, Agreed
      <4> QED
        BY <1>2, <2>1, <4>1, AnswersStay
    <3>2. CASE ~trusted[x]
      <4>1. PICK z \in Side : Save(p, z) \/ SaveFails(p, z)
        BY <1>2, <3>2, ZenonT(30) DEF Step, Run, Dial, Drop, ReadRequest, RequestFails,
           TakeLocal, TakeRemote, TimeOut, GiveUp, Fail, AskerLeaves, ConfirmPair
      <4>2. Agreed(p, z) /\ Agreed(p, Other(z))
        BY <4>1, Zenon DEF Save, SaveFails, TapInv, SideTruthful
      <4>3. \A y \in Side : Agreed(p, y)
        BY <4>2, Zenon DEF Side, Other
      <4> QED
        BY <1>2, <2>1, <4>3, AnswersStay
    <3> QED
      BY <3>1, <3>2
  <2> QED
    BY <2>1, <2>2, <2>3, Zenon DEF TapInv
<1> QED
  BY <1>1, <1>2, Zenon DEF Next, Step

\* "A device is saved only when both said yes": awaitAnswers and the two
\* answer messages, whatever is dropped, times out or is tapped at once.
THEOREM BothSaidYes == Spec => []SavedOnlyIfBothYes
<1>1. Init => TapInv
  BY InitTapInv
<1>2. TapInv /\ [Next]_vars => TapInv'
  BY NextTapInv
<1>3. TapInv => SavedOnlyIfBothYes
  BY DEF TapInv
<1> QED
  BY <1>1, <1>2, <1>3, PTL DEF Spec
-----------------------------------------------------------------------------
(* Both sides end the same way *)

\* The answers side x may have put on the connection: its yes; its no, or
\* nothing, when it failed; nothing so far.
Answered(p, x) ==
  IF localYes[p][x] THEN {<<"yes">>}
  ELSE IF pc[p][x] = "failed" THEN {<<>>, <<"no">>} ELSE {<<>>}

\* What is on its way to side x from side y: the request x waits for and then
\* the answer.
Incoming(p, x, y) ==
  /\ pc[p][x] = "wait" /\ ~remoteYes[p][x] => chan[p][x] \in Answered(p, y)
  /\ pc[p][x] = "request" /\ pc[p][y] = "request" =>
       chan[p][x] = IF x = "called" THEN <<"request">> ELSE <<>>
  /\ pc[p][x] = "request" /\ pc[p][y] # "request" =>
       x = "caller" /\ chan[p][x] # <<>> /\ Tail(chan[p][x]) \in Answered(p, y)

\* A side that has the other's yes has it from a side that said yes, a
\* connection is closed by a side that is done, and a side that failed after
\* its own yes follows one that failed.
SideSettles(p, x, y) ==
  /\ pc[p][x] = "start" => pc[p][y] = "start" /\ chan[p][x] = <<>>
  /\ ~up[p] => pc[p][x] = "start" \/ Done(p, x) \/ Done(p, y)
  /\ pc[p][x] \in {"start", "request"} => ~localYes[p][x] /\ ~remoteYes[p][x]
  /\ localYes[p][x] => decide[p][x] = Nothing
  /\ remoteYes[p][x] => localYes[p][y]
  /\ pc[p][x] \in {"save", "paired"} => localYes[p][x] /\ remoteYes[p][x]
  /\ pc[p][x] = "failed" => ~localYes[p][x] \/ pc[p][y] = "failed"
  /\ Incoming(p, x, y)

\* All this as long as nothing but answers has ended a side.
SettleInv == \A p \in Pairing : ~fault[p] => \A x \in Side : SideSettles(p, x, Other(x))

\* Sequences of at most two messages.
LEMMA ShortChannels ==
  ASSUME NEW S, NEW m \in S
  PROVE  /\ Append(<<>>, m) = <<m>> /\ <<m>> # <<>> /\ Tail(<<m>>) = <<>> /\ Head(<<m>>) = m
         /\ \A c \in Seq(S) : c # <<>> =>
              Append(c, m) # <<>> /\ Tail(Append(c, m)) = Append(Tail(c), m)
<1>1. Append(<<>>, m) = <<m>> /\ <<m>> # <<>> /\ Tail(<<m>>) = <<>> /\ Head(<<m>>) = m
  OBVIOUS
<1>2. ASSUME NEW c \in Seq(S), c # <<>>
      PROVE  Append(c, m) # <<>> /\ Tail(Append(c, m)) = Append(Tail(c), m)
  <2>1. Append(c, m) # <<>>
    BY AppendProperties
  <2>2. Tail(Append(c, m)) = Append(Tail(c), m)
    <3>1. PICK a, t, u, v : a = Append(c, m) /\ t = Tail(c) /\ u = Tail(a) /\ v = Append(t, m)
      BY Zenon
    <3>2. /\ Len(c) \in Nat \ {0} /\ a \in Seq(S) /\ Len(a) = Len(c) + 1
          /\ \A k \in 1..Len(c) : a[k] = c[k]
          /\ a[Len(c) + 1] = m
          /\ t \in Seq(S) /\ Len(t) = Len(c) - 1
          /\ \A k \in 1..(Len(c) - 1) : t[k] = c[k + 1]
      BY <1>2, <3>1, AppendProperties, HeadTailProperties, EmptySeq
    <3>3. /\ u \in Seq(S) /\ Len(u) = Len(c) /\ \A k \in 1..Len(c) : u[k] = a[k + 1]
      BY <2>1, <3>1, <3>2, HeadTailProperties
    <3>4. /\ v \in Seq(S) /\ Len(v) = Len(c) /\ v[Len(c)] = m
          /\ \A k \in 1..(Len(c) - 1) : v[k] = t[k]
      BY <3>1, <3>2, AppendProperties
    <3>5. ASSUME NEW k \in 1..Len(c)
          PROVE  u[k] = v[k]
      <4>1. CASE k = Len(c)
        BY <3>2, <3>3, <3>4, <4>1, Zenon
      <4>2. CASE k # Len(c)
        <5>1. k \in 1..(Len(c) - 1) /\ k + 1 \in 1..Len(c)
          BY <3>2, <4>2
        <5>2. u[k] = a[k + 1] /\ a[k + 1] = c[k + 1] /\ t[k] = c[k + 1] /\ v[k] = t[k]
          BY <3>2, <3>3, <3>4, <5>1, Zenon
        <5> QED
          BY <5>2
      <4> QED
        BY <4>1, <4>2
    <3> QED
      BY <3>1, <3>3, <3>4, <3>5, SeqEqual, Zenon
  <2> QED
    BY <2>1, <2>2, Zenon
<1> QED
  BY <1>1, <1>2

\* What a side that finishes leaves behind.
LEMMA Finished ==
  ASSUME TypeOK, NEW p \in Pairing, NEW x \in Side, NEW y \in Side, y # x,
         NEW to, Finish(p, x, to)
  PROVE  /\ pc'[p][x] = to /\ pc'[p][y] = pc[p][y]
         /\ decide'[p][x] = Nothing /\ decide'[p][y] = decide[p][y]
         /\ ~up'[p]
<1>1. pc'[p][x] = to /\ pc'[p][y] = pc[p][y]
  BY DEF TypeOK, Finish, GoTo
<1>2. decide'[p][x] = Nothing /\ decide'[p][y] = decide[p][y]
  BY DEF TypeOK, Finish
<1>3. ~up'[p]
  BY DEF TypeOK, Finish
<1> QED
  BY <1>1, <1>2, <1>3

\* The two requests: when the first is read both sides are waiting for the
\* other and the connection is open.
LEMMA RequestsSettle ==
  ASSUME TapInv, NEW p \in Pairing, NEW x \in Side, NEW y \in Side, y = Other(x),
         SideSettles(p, x, y), SideSettles(p, y, x),
         Dial(p) \/ ReadRequest(p, x) \/ RequestFails(p, x)
  PROVE  SideSettles(p, x, y)' /\ SideSettles(p, y, x)'
<1>0. x # y /\ TypeOK /\ x = Other(y)
  BY Sides DEF TapInv
<1>1. UNCHANGED <<localYes, remoteYes>>
  BY DEF Dial, ReadRequest, RequestFails
<1>2. CASE Dial(p)
  <2>1. pc[p][x] = "start" /\ pc[p][y] = "start"
    BY <1>2, <1>0 DEF Dial, SideSettles, Other, Side
  <2>2. pc'[p][x] = "request" /\ pc'[p][y] = "request" /\ up'[p] /\ UNCHANGED decide
    BY <1>0, <1>2 DEF Dial, TypeOK
  <2>3. /\ chan'[p]["called"] = <<"request">> /\ chan'[p]["caller"] = <<>>
    BY <1>0, <1>2, <2>1, Zenon DEF Dial, TypeOK, Side, SideSettles, Other
  <2>4. {x, y} = {"caller", "called"}
    BY <1>0 DEF Side, Other
  <2> QED
    BY <1>0, <1>1, <2>1, <2>2, <2>3, <2>4, Zenon DEF SideSettles, Incoming, Done
<1>3. CASE ReadRequest(p, x)
  <2>1. /\ pc[p][x] = "request" /\ chan[p][x] # <<>>
        /\ pc'[p][x] = "wait" /\ pc'[p][y] = pc[p][y] /\ UNCHANGED <<decide, up>>
    BY <1>0, <1>3, Zenon DEF ReadRequest, GoTo, TypeOK
  <2>2. /\ chan'[p][x] = Tail(chan[p][x])
        /\ chan'[p][y] = IF x = "called" /\ up[p] THEN Append(chan[p][y], "request")
                         ELSE chan[p][y]
    BY <1>0, <1>3, Zenon DEF ReadRequest, TypeOK
  <2>3. CASE x = "called"
    <3>1. pc[p][y] = "request" /\ y # "called" /\ up[p]
      BY <1>0, <2>1, <2>3, Zenon DEF SideSettles, Incoming, Done, Other
    <3>2. chan'[p][x] = <<>> /\ chan'[p][y] = <<"request">>
      <4>1. chan[p][x] = <<"request">> /\ chan[p][y] = <<>>
        BY <2>1, <2>3, <3>1, Zenon DEF SideSettles, Incoming
      <4> QED
        BY <2>2, <2>3, <3>1, <4>1, ShortChannels, Zenon
    <3>3. <<"request">> # <<>> /\ Tail(<<"request">>) = <<>>
      BY ShortChannels
    <3>4. y = "caller"
      BY <2>3, <1>0 DEF Other
    <3> QED
      BY <1>1, <2>1, <2>3, <3>1, <3>2, <3>3, <3>4, Zenon DEF SideSettles, Incoming, Answered, Done
  <2>4. CASE x # "called"
    <3>1. pc[p][y] # "request" /\ Tail(chan[p][x]) \in Answered(p, y)
      BY <1>0, <2>1, <2>4, Zenon DEF SideSettles, Incoming
    <3>2. Answered(p, y)' = Answered(p, y)
      BY <1>1, <2>1, Zenon DEF Answered
    <3>3. ~localYes[p][x] /\ Answered(p, x)' = Answered(p, x)
      BY <1>1, <2>1, Zenon DEF Answered, SideSettles
    <3> QED
      BY <1>1, <2>1, <2>2, <2>4, <3>1, <3>2, <3>3, Zenon DEF SideSettles, Incoming, Done
  <2> QED
    BY <2>3, <2>4
<1>4. CASE RequestFails(p, x)
  <2>1. pc[p][x] = "request" /\ chan[p][x] = <<>> /\ ~up[p]
    BY <1>4, Zenon DEF RequestFails
  <2> QED
    BY <1>0, <2>1, Zenon DEF SideSettles, Incoming, Done
<1> QED
  BY <1>2, <1>3, <1>4

\* The answer of a side's own user: a yes reaches the other side unless that one
\* is done, and a no only ends a pairing that the other side has not a yes for.
LEMMA LocalSettles ==
  ASSUME TapInv, NEW p \in Pairing, NEW x \in Side, NEW y \in Side, y = Other(x),
         SideSettles(p, x, y), SideSettles(p, y, x), TakeLocal(p, x)
  PROVE  SideSettles(p, x, y)' /\ SideSettles(p, y, x)'
<1>0. x # y /\ TypeOK /\ x = Other(y)
  BY Sides DEF TapInv
<1>1. /\ pc[p][x] = "wait" /\ UNCHANGED remoteYes
      /\ ~localYes[p][x] /\ ~remoteYes[p][y]
      /\ ~up[p] => Done(p, y)
  BY DEF TakeLocal, SideSettles, Done
<1>2. ASSUME NEW m \in {"yes", "no"}, Write(p, x, m)
      PROVE  /\ chan'[p][x] = chan[p][x]
             /\ pc[p][y] = "wait" => chan'[p][y] = <<m>>
             /\ pc[p][y] = "request" =>
                  y = "caller" /\ chan'[p][y] # <<>> /\ Tail(chan'[p][y]) = <<m>>
             /\ pc[p][y] # "start"
  <2>1. Answered(p, x) = {<<>>} /\ pc[p][y] # "start"
    BY <1>1, Zenon DEF Answered, SideSettles
  <2>2. /\ chan'[p][x] = chan[p][x]
        /\ chan'[p][y] = IF up[p] THEN Append(chan[p][y], m) ELSE chan[p][y]
    BY <1>0, <1>2 DEF Write, TypeOK
  <2>3. CASE pc[p][y] = "wait"
    <3>1. chan[p][y] = <<>> /\ up[p]
      BY <1>1, <2>1, <2>3, Zenon DEF SideSettles, Incoming, Done
    <3> QED
      BY <2>1, <2>2, <2>3, <3>1, ShortChannels
  <2>4. CASE pc[p][y] = "request"
    <3>1. y = "caller" /\ chan[p][y] # <<>> /\ Tail(chan[p][y]) = <<>> /\ up[p]
      BY <1>1, <2>1, <2>4, Zenon DEF SideSettles, Incoming, Done
    <3>2. chan[p][y] \in Seq({"request", "yes", "no"})
      BY <1>0 DEF TypeOK
    <3>3. m \in {"request", "yes", "no"} /\ Append(<<>>, m) = <<m>>
      BY ShortChannels
    <3>4. \A c \in Seq({"request", "yes", "no"}) : c # <<>> =>
            Append(c, m) # <<>> /\ Tail(Append(c, m)) = Append(Tail(c), m)
      BY <3>3, ShortChannels
    <3>5. Append(chan[p][y], m) # <<>> /\ Tail(Append(chan[p][y], m)) = <<m>>
      BY <3>1, <3>2, <3>3, <3>4, Zenon
    <3> QED
      BY <2>1, <2>2, <2>4, <3>1, <3>5, Zenon
  <2> QED
    BY <2>1, <2>2, <2>3, <2>4, Zenon
<1>3. CASE /\ Finish(p, x, "failed") /\ UNCHANGED localYes
           /\ (~up[p] /\ UNCHANGED chan) \/ Write(p, x, "no")
  <2>1. /\ pc'[p][x] = "failed" /\ pc'[p][y] = pc[p][y]
        /\ decide'[p][x] = Nothing /\ decide'[p][y] = decide[p][y] /\ ~up'[p]
    BY <1>0, <1>3, Finished, SMTT(30)
  <2>2. /\ chan'[p][x] = chan[p][x]
        /\ pc[p][y] = "wait" => chan'[p][y] = <<"no">>
        /\ pc[p][y] = "request" =>
              y = "caller" /\ chan'[p][y] # <<>> /\ Tail(chan'[p][y]) = <<"no">>
        /\ pc[p][y] # "start"
    <3>1. CASE Write(p, x, "no")
      BY <1>2, <3>1
    <3>2. CASE ~up[p] /\ UNCHANGED chan
      BY <1>1, <3>2 DEF Done
    <3> QED
      BY <1>3, <3>1, <3>2, Zenon
  <2>3. Answered(p, x)' = {<<>>, <<"no">>}
    BY <1>1, <1>3, <2>1, Zenon DEF Answered
  <2> QED
    BY <1>1, <1>3, <2>1, <2>2, <2>3, Zenon DEF SideSettles, Incoming, Done
<1>4. CASE /\ Write(p, x, "yes")
           /\ localYes' = [localYes EXCEPT ![p][x] = TRUE]
           /\ decide' = [decide EXCEPT ![p][x] = Nothing]
           /\ GoTo(p, x, IF BothYes(TRUE, remoteYes[p][x]) THEN "save" ELSE "wait")
           /\ UNCHANGED <<up, asked>>
  <2>1. localYes'[p][x] /\ localYes'[p][y] = localYes[p][y]
    BY <1>0, <1>4, Zenon DEF TypeOK
  <2>2. decide'[p][x] = Nothing /\ decide'[p][y] = decide[p][y]
    BY <1>0, <1>4 DEF TypeOK
  <2>3. /\ pc'[p][x] \in {"save", "wait"} /\ pc'[p][y] = pc[p][y]
        /\ pc'[p][x] = "save" => remoteYes[p][x]
    BY <1>0, <1>4 DEF TypeOK, GoTo, BothYes
  <2>4. /\ chan'[p][x] = chan[p][x]
        /\ pc[p][y] = "wait" => chan'[p][y] = <<"yes">>
        /\ pc[p][y] = "request" =>
              y = "caller" /\ chan'[p][y] # <<>> /\ Tail(chan'[p][y]) = <<"yes">>
        /\ pc[p][y] # "start"
    BY <1>2, <1>4
  <2>5. Answered(p, x)' = {<<"yes">>} /\ Answered(p, y)' = Answered(p, y)
    BY <2>1, <2>3 DEF Answered
  <2>6. pc[p][y] = "failed" => ~localYes[p][y]
    BY <1>1, Zenon DEF SideSettles
  <2> QED
    BY <1>1, <1>4, <2>1, <2>2, <2>3, <2>4, <2>5, <2>6, Zenon DEF SideSettles, Incoming, Done
<1> QED
  BY <1>3, <1>4, Zenon DEF TakeLocal

\* The answer of the other side: a yes is one that was given; anything else is
\* read only when the other side has failed.
LEMMA RemoteSettles ==
  ASSUME TapInv, NEW p \in Pairing, NEW x \in Side, NEW y \in Side, y = Other(x),
         SideSettles(p, x, y), SideSettles(p, y, x), TakeRemote(p, x)
  PROVE  SideSettles(p, x, y)' /\ SideSettles(p, y, x)'
<1>0. x # y /\ TypeOK /\ x = Other(y)
  BY Sides DEF TapInv
<1>1. /\ pc[p][x] = "wait" /\ ~remoteYes[p][x] /\ UNCHANGED localYes
      /\ chan[p][x] \in Answered(p, y)
      /\ ~up[p] => Done(p, y)
  BY Zenon DEF TakeRemote, SideSettles, Incoming, Done
<1>2. CASE /\ chan[p][x] # <<>> /\ Head(chan[p][x]) = "yes"
           /\ chan' = [chan EXCEPT ![p][x] = Tail(@)]
           /\ remoteYes' = [remoteYes EXCEPT ![p][x] = TRUE]
           /\ GoTo(p, x, IF BothYes(localYes[p][x], TRUE) THEN "save" ELSE "wait")
           /\ UNCHANGED <<up, decide, asked>>
  <2>1. localYes[p][y]
    BY <1>1, <1>2, ShortChannels DEF Answered
  <2>2. remoteYes'[p][x] /\ remoteYes'[p][y] = remoteYes[p][y]
    BY <1>0, <1>2, Zenon DEF TypeOK
  <2>3. /\ pc'[p][x] \in {"save", "wait"} /\ pc'[p][y] = pc[p][y]
        /\ pc'[p][x] = "save" => localYes[p][x]
    BY <1>0, <1>2 DEF TypeOK, GoTo, BothYes
  <2>4. chan'[p][y] = chan[p][y]
    BY <1>0, <1>2 DEF TypeOK
  <2>5. Answered(p, x)' = Answered(p, x)
    BY <1>1, <2>3, Zenon DEF Answered
  <2> QED
    BY <1>1, <1>2, <2>1, <2>2, <2>3, <2>4, <2>5, Zenon DEF SideSettles, Incoming, Done
<1>3. CASE /\ IF chan[p][x] = <<>> THEN ~up[p] ELSE Head(chan[p][x]) # "yes"
           /\ Finish(p, x, "failed") /\ UNCHANGED <<chan, remoteYes>>
  <2>1. /\ pc'[p][x] = "failed" /\ pc'[p][y] = pc[p][y]
        /\ decide'[p][x] = Nothing /\ decide'[p][y] = decide[p][y] /\ ~up'[p]
    BY <1>0, <1>3, Finished, SMTT(30)
  <2>2. ~localYes[p][y]
    BY <1>1, <1>3, ShortChannels, Zenon DEF Answered
  <2>3. pc[p][y] = "failed"
    <3>1. CASE chan[p][x] = <<>>
      BY <1>1, <1>3, <2>2, <3>1, Zenon DEF Done, SideSettles
    <3>2. CASE chan[p][x] # <<>>
      BY <1>1, <2>2, <3>2, Zenon DEF Answered
    <3> QED
      BY <3>1, <3>2
  <2> QED
    BY <1>1, <1>3, <2>1, <2>2, <2>3, Zenon DEF SideSettles, Incoming, Done
<1> QED
  BY <1>2, <1>3, Zenon DEF TakeRemote

\* Saving, and what the user does: an answer is buffered once.
LEMMA OthersSettle ==
  ASSUME TapInv, NEW p \in Pairing, NEW x \in Side, NEW y \in Side, y = Other(x),
         SideSettles(p, x, y), SideSettles(p, y, x),
         Save(p, x) \/ AskerLeaves(p, x) \/ \E ok \in BOOLEAN : ConfirmPair(p, x, ok)
  PROVE  SideSettles(p, x, y)' /\ SideSettles(p, y, x)'
<1>0. x # y /\ TypeOK
  BY Sides DEF TapInv
<1>1. UNCHANGED <<localYes, remoteYes, chan>>
  BY DEF Save, AskerLeaves, ConfirmPair
<1>2. CASE Save(p, x)
  <2>1. pc[p][x] = "save" /\ pc'[p][x] = "paired" /\ pc'[p][y] = pc[p][y]
        /\ decide'[p][x] = Nothing /\ decide'[p][y] = decide[p][y] /\ ~up'[p]
    BY <1>0, <1>2, Finished, SMTT(30) DEF Save
  <2>2. Answered(p, x)' = Answered(p, x) /\ Answered(p, y)' = Answered(p, y)
    BY <1>1, <2>1, Zenon DEF Answered
  <2> QED
    BY <1>1, <2>1, <2>2, Zenon DEF SideSettles, Incoming, Done
<1>3. CASE AskerLeaves(p, x)
  <2>1. UNCHANGED <<pc, up, decide>>
    BY <1>3 DEF AskerLeaves
  <2> QED
    BY <1>1, <2>1, Zenon DEF SideSettles, Incoming, Answered, Done
<1>4. ASSUME NEW ok \in BOOLEAN, ConfirmPair(p, x, ok)
      PROVE  SideSettles(p, x, y)' /\ SideSettles(p, y, x)'
  <2>1. UNCHANGED <<pc, up>>
    BY <1>4 DEF ConfirmPair
  <2>2. decide'[p][y] = decide[p][y]
    BY <1>0, <1>4 DEF ConfirmPair, TypeOK
  <2>3. localYes[p][x] => decide'[p][x] = Nothing
    <3>1. ASSUME localYes[p][x]
          PROVE  answer[p][x] # Nothing /\ decide[p][x] = Nothing
      BY <3>1, TapConstantsOK, Zenon DEF TapInv, SideTruthful, Agreed, SideSettles
    <3>2. answer[p][x] # Nothing => decide'[p][x] = decide[p][x]
      BY <1>0, <1>4 DEF ConfirmPair, TypeOK
    <3> QED
      BY <3>1, <3>2, Zenon
  <2> QED
    BY <1>1, <2>1, <2>2, <2>3, Zenon DEF SideSettles, Incoming, Answered, Done
<1> QED
  BY <1>2, <1>3, <1>4

\* A step of one pairing leaves every other pairing alone.
LEMMA Elsewhere ==
  ASSUME TypeOK, NEW p \in Pairing, Step(p), NEW q \in Pairing, q # p
  PROVE  /\ pc'[q] = pc[q] /\ chan'[q] = chan[q] /\ up'[q] = up[q] /\ decide'[q] = decide[q]
         /\ localYes'[q] = localYes[q] /\ remoteYes'[q] = remoteYes[q] /\ fault'[q] = fault[q]
<1>1. \A to : \A x \in Side : Finish(p, x, to) => pc'[q] = pc[q] /\ decide'[q] = decide[q] /\ up'[q] = up[q]
  BY DEF TypeOK, Finish, GoTo
<1>2. \A m : \A x \in Side : Write(p, x, m) => chan'[q] = chan[q]
  BY DEF TypeOK, Write
<1>3. CASE Dial(p)
  BY <1>3 DEF Dial, TypeOK
<1>4. CASE Drop(p)
  <2>1. chan' = chan \/ chan' = [chan EXCEPT ![p] = [x \in Side |-> <<>>]]
    BY <1>4, Zenon DEF Drop
  <2>2. chan'[q] = chan[q]
    BY <2>1 DEF TypeOK
  <2>3. up'[q] = up[q] /\ fault'[q] = fault[q]
    BY <1>4 DEF Drop, TypeOK
  <2> QED
    BY <1>4, <2>2, <2>3, Zenon DEF Drop
<1>5. ASSUME NEW x \in Side, ReadRequest(p, x)
      PROVE  pc'[q] = pc[q] /\ chan'[q] = chan[q]
  BY <1>5, Zenon DEF ReadRequest, GoTo, TypeOK
<1>6. ASSUME NEW x \in Side, TakeLocal(p, x)
      PROVE  /\ pc'[q] = pc[q] /\ chan'[q] = chan[q] /\ up'[q] = up[q] /\ decide'[q] = decide[q]
             /\ localYes'[q] = localYes[q]
  <2>1. CASE Finish(p, x, "failed") /\ UNCHANGED localYes /\ (UNCHANGED chan \/ Write(p, x, "no"))
    BY <1>1, <1>2, <2>1, Zenon
  <2>2. ASSUME Write(p, x, "yes"), localYes' = [localYes EXCEPT ![p][x] = TRUE],
               decide' = [decide EXCEPT ![p][x] = Nothing], NEW to, GoTo(p, x, to), UNCHANGED up
        PROVE  /\ pc'[q] = pc[q] /\ chan'[q] = chan[q] /\ up'[q] = up[q] /\ decide'[q] = decide[q]
               /\ localYes'[q] = localYes[q]
    <3>1. pc'[q] = pc[q] /\ decide'[q] = decide[q]
      BY <2>2 DEF GoTo, TypeOK
    <3>2. localYes'[q] = localYes[q]
      BY <2>2 DEF TypeOK
    <3> QED
      BY <1>2, <2>2, <3>1, <3>2, Zenon
  <2> QED
    BY <1>6, <2>1, <2>2, Zenon DEF TakeLocal
<1>7. ASSUME NEW x \in Side, TakeRemote(p, x)
      PROVE  /\ pc'[q] = pc[q] /\ chan'[q] = chan[q] /\ up'[q] = up[q] /\ decide'[q] = decide[q]
             /\ remoteYes'[q] = remoteYes[q]
  <2>1. CASE Finish(p, x, "failed") /\ UNCHANGED <<chan, remoteYes>>
    BY <1>1, <2>1, Zenon
  <2>2. ASSUME chan' = [chan EXCEPT ![p][x] = Tail(@)], remoteYes' = [remoteYes EXCEPT ![p][x] = TRUE],
               NEW to, GoTo(p, x, to), UNCHANGED <<up, decide>>
        PROVE  /\ pc'[q] = pc[q] /\ chan'[q] = chan[q] /\ up'[q] = up[q] /\ decide'[q] = decide[q]
               /\ remoteYes'[q] = remoteYes[q]
    <3>1. pc'[q] = pc[q] /\ chan'[q] = chan[q]
      BY <2>2 DEF GoTo, TypeOK
    <3>2. remoteYes'[q] = remoteYes[q]
      BY <2>2 DEF TypeOK
    <3> QED
      BY <2>2, <3>1, <3>2, Zenon
  <2> QED
    BY <1>7, <2>1, <2>2, Zenon DEF TakeRemote
<1>8. ASSUME NEW x \in Side, Fail(p, x)
      PROVE  pc'[q] = pc[q] /\ decide'[q] = decide[q] /\ up'[q] = up[q] /\ fault'[q] = fault[q]
  <2>1. fault'[q] = fault[q]
    BY <1>8 DEF Fail, TypeOK
  <2> QED
    BY <1>1, <1>8, <2>1, Zenon DEF Fail
<1>10. ASSUME NEW x \in Side, SaveFails(p, x)
      PROVE  pc'[q] = pc[q] /\ decide'[q] = decide[q] /\ up'[q] = up[q] /\ fault'[q] = fault[q]
  <2>1. fault'[q] = fault[q]
    BY <1>10 DEF SaveFails, TypeOK
  <2> QED
    BY <1>1, <1>10, <2>1, Zenon DEF SaveFails
<1>9. ASSUME NEW x \in Side, NEW ok \in BOOLEAN, ConfirmPair(p, x, ok)
      PROVE  decide'[q] = decide[q]
  BY <1>9 DEF ConfirmPair, TypeOK
<1> QED
  BY <1>1, <1>3, <1>4, <1>5, <1>6, <1>7, <1>8, <1>9, <1>10, ZenonT(60) DEF Step, Run, ReadRequest, RequestFails,
     TakeLocal, TakeRemote, Save, TimeOut, GiveUp, SaveFails, Fail, AskerLeaves, ConfirmPair

\* Nobody has tapped yet.
LEMMA InitSettleInv ==
  ASSUME Init
  PROVE  SettleInv
<1> SUFFICES ASSUME NEW p \in Pairing, NEW x \in Side
             PROVE  SideSettles(p, x, Other(x))
  BY DEF SettleInv
<1>1. \A y \in Side : /\ pc[p][y] = "start" /\ chan[p][y] = <<>> /\ decide[p][y] = Nothing
                      /\ ~localYes[p][y] /\ ~remoteYes[p][y]
  BY DEF Init, Each
<1> QED
  BY <1>1, Sides, Zenon DEF SideSettles, Incoming, Done

\* One step of one pairing: a timer, a cancelled request, a failed save or a
\* broken connection is recorded as a fault, everything else settles.
LEMMA NextSettleInv ==
  ASSUME TapInv, SettleInv, [Next]_vars
  PROVE  SettleInv'
<1>1. CASE UNCHANGED vars
  BY <1>1, SMTT(30) DEF vars, SettleInv, SideSettles, Incoming, Answered, Done
<1>2. ASSUME NEW p \in Pairing, Step(p)
      PROVE  SettleInv'
  <2>0. TypeOK
    BY DEF TapInv
  <2> SUFFICES ASSUME NEW q \in Pairing, ~fault'[q], NEW z \in Side
               PROVE  SideSettles(q, z, Other(z))'
    BY Zenon DEF SettleInv
  <2>1. CASE q # p
    <3>1. /\ pc'[q] = pc[q] /\ chan'[q] = chan[q] /\ up'[q] = up[q] /\ decide'[q] = decide[q]
          /\ localYes'[q] = localYes[q] /\ remoteYes'[q] = remoteYes[q] /\ fault'[q] = fault[q]
      BY <1>2, <2>0, <2>1, Elsewhere, Zenon
    <3>2. SideSettles(q, z, Other(z))
      BY <3>1, Zenon DEF SettleInv
    <3>3. PICK y : y = Other(z)
      OBVIOUS
    <3>4. SideSettles(q, z, y)'
      BY <3>1, <3>2, <3>3, Zenon DEF SideSettles, Incoming, Answered, Done
    <3> QED
      BY <3>3, <3>4
  <2>2. CASE q = p
    <3>1. ~Drop(p) /\ \A x \in Side : ~TimeOut(p, x) /\ ~GiveUp(p, x) /\ ~SaveFails(p, x)
      BY <2>0, <2>2 DEF Drop, TimeOut, GiveUp, SaveFails, Fail, TypeOK
    <3>2. ~fault[p]
      <4>1. UNCHANGED fault
        BY <1>2, <3>1, ZenonT(30) DEF Step, Run, Dial, ReadRequest, RequestFails, TakeLocal,
           TakeRemote, Save, AskerLeaves, ConfirmPair
      <4> QED
        BY <2>2, <4>1
    <3>3. \A x \in Side : SideSettles(p, x, Other(x))
      BY <3>2 DEF SettleInv
    <3>4. \A x, y \in Side : y = Other(x) => SideSettles(p, x, y) /\ SideSettles(p, y, x)
      BY <3>3, Sides
    <3>5. ASSUME NEW x \in Side, NEW y \in Side, y = Other(x),
                 SideSettles(p, x, y)' /\ SideSettles(p, y, x)'
          PROVE  SideSettles(q, z, Other(z))'
      <4>1. z = x \/ z = y
        BY <3>5 DEF Side, Other
      <4>2. x = Other(y)
        BY <3>5, Sides
      <4> QED
        BY <2>2, <3>5, <4>1, <4>2
    <3>6. CASE Dial(p)
      <4>1. Other(z) \in Side
        BY Sides
      <4> QED
        BY <3>4, <3>5, <3>6, <4>1, RequestsSettle
    <3>7. ASSUME NEW x \in Side, Run(p, x) \/ AskerLeaves(p, x) \/ \E ok \in BOOLEAN : ConfirmPair(p, x, ok)
          PROVE  SideSettles(q, z, Other(z))'
      <4>1. Other(x) \in Side
        BY Sides
      <4>2. SideSettles(p, x, Other(x)) /\ SideSettles(p, Other(x), x)
        BY <3>4, <4>1
      <4>3. SideSettles(p, x, Other(x))' /\ SideSettles(p, Other(x), x)'
        BY <3>7, <4>1, <4>2, RequestsSettle, LocalSettles, RemoteSettles, OthersSettle DEF Run
      <4> QED
        BY <3>5, <4>1, <4>3
    <3> QED
      BY <1>2, <3>1, <3>6, <3>7 DEF Step
  <2> QED
    BY <2>1, <2>2
<1> QED
  BY <1>1, <1>2 DEF Next, Step

\* The two devices end a pairing alike unless a timer, a cancelled request, a
\* failed save or a broken connection came in between: in whatever order the
\* answers are given, sent and read by the two tapPairSessions, and although
\* the first to be done closes the connection.
THEOREM AgreementSafety == Spec => []SidesAgree
<1>1. Init => TapInv /\ SettleInv
  BY InitTapInv, InitSettleInv
<1>2. TapInv /\ SettleInv /\ [Next]_vars => (TapInv /\ SettleInv)'
  BY NextTapInv, NextSettleInv
<1>3. SettleInv => SidesAgree
  <2> SUFFICES ASSUME SettleInv, NEW p \in Pairing, Done(p, "caller"), Done(p, "called"), ~fault[p]
               PROVE  pc[p]["caller"] = pc[p]["called"]
    BY DEF SidesAgree
  <2>1. SideSettles(p, "caller", "called") /\ SideSettles(p, "called", "caller")
    BY DEF SettleInv, Side, Other
  <2> QED
    BY <2>1, Zenon DEF SideSettles, Done
<1> QED
  BY <1>1, <1>2, <1>3, PTL DEF Spec
=============================================================================
