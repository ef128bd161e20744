----------------------------- MODULE HubManager -----------------------------
(***************************************************************************)
(* The Reticulum hubs of a node (internal/rns/hubs.go, the hub part of     *)
(* rns.go and hubconn.go): HubManager keeps Want hubs connected, measures  *)
(* them at every check, drops the ones that do not hold or fall silent,    *)
(* replaces them from the candidates in order, and announces this device   *)
(* through each as soon as it is up.                                       *)
(*                                                                         *)
(* Time is counted in checks.  The interfaces are goroutines of their own, *)
(* as are announceWhenUp, the announces and DropHub; a DropHub is assumed  *)
(* to be over before the backoff of its hub is.                            *)
(***************************************************************************)
EXTENDS Integers, Sequences, FiniteSets, Functions

CONSTANTS
  Hub,
  Good,       \* hubs that come up and send something in time whenever asked
  First,      \* the candidates at the start
  Catalog,    \* the candidates FetchCatalog finds later
  Want, Grace, Silence, Backoff,   \* HubPolicy, in checks
  MaxBreaks   \* bound: connections to good hubs that break

Never == -1

ASSUME HubConstantsOK ==
  /\ Good \subseteq Hub
  /\ First \in Seq(Hub) /\ Catalog \in Seq(Hub)
  /\ {Want, Grace, Silence, Backoff} \subseteq Nat \ {0}
  /\ MaxBreaks \in Nat

VARIABLES
  candidates,  \* HubManager.candidates
  used,        \* the hubs in HubManager.state
  age,         \* age[h]: checks since hubState.added
  quiet,       \* quiet[h]: checks since hubState.lastData, Never when it is zero
  announced,   \* hubs with hubState.announced
  bad,         \* bad[h]: checks until a bad hub may be tried again
  pc, picks,   \* where Run is, and the hubs fill still has to connect
  link,        \* link[h]: the interface of h in Node.hubs
  fresh,       \* hubs whose byte counter grew since the last check
  dropping,    \* hubs with a DropHub on its way
  waiting,     \* hubs with an announceWhenUp on its way
  announce,    \* an Announce is on its way
  told,        \* hubs an announce went to since their connection came up
  breaks

policy == <<candidates, used, age, quiet, announced, bad>>
run == <<pc, picks>>
node == <<link, fresh, breaks>>
hvars == <<policy, run, node, dropping, waiting, announce, told>>

HTypeOK ==
  /\ candidates \in Seq(Hub)
  /\ used \subseteq Hub
  /\ age \in [Hub -> 0..(Silence + Grace + 1)]
  /\ quiet \in [Hub -> Never..(Silence + 1)]
  /\ announced \subseteq Hub
  /\ bad \in [Hub -> 0..Backoff]
  /\ pc \in {"fill", "connect", "select"} /\ picks \in Seq(Hub)
  /\ link \in [Hub -> {"none", "dialing", "online", "offline"}]
  /\ fresh \subseteq Hub /\ dropping \subseteq Hub
  /\ waiting \subseteq Hub /\ announce \in BOOLEAN /\ told \subseteq Hub
  /\ breaks \in 0..MaxBreaks

\* dedup: every hub once, where it comes first.
Dedup(s) ==
  LET Upto[k \in 0..Len(s)] ==
        IF k = 0 THEN <<>>
        ELSE LET out == Upto[k - 1] IN IF s[k] \in Range(out) THEN out ELSE Append(out, s[k])
  IN Upto[Len(s)]

HInit ==
  /\ candidates = Dedup(First)
  /\ used = {} /\ age = [h \in Hub |-> 0] /\ quiet = [h \in Hub |-> Never]
  /\ announced = {} /\ bad = [h \in Hub |-> 0]
  /\ pc = "fill" /\ picks = <<>>
  /\ link = [h \in Hub |-> "none"] /\ fresh = {}
  /\ dropping = {} /\ waiting = {} /\ announce = FALSE /\ told = {}
  /\ breaks = 0
-----------------------------------------------------------------------------
(* The manager *)

\* AddCandidates: the catalog's hubs go after the others (with none that is
\* new nothing would change).
AddCandidates ==
  /\ ~(Range(Catalog) \subseteq Range(candidates))
  /\ candidates' = Dedup(candidates \o Catalog)
  /\ UNCHANGED <<used, age, quiet, announced, bad, run, node, dropping, waiting, announce, told>>

Eligible(h) == h \notin used /\ bad[h] = 0
Need == Want - Cardinality(used)

\* The loop of fill: the first of the candidates that are neither in use, by
\* now, nor backed off.
Picked ==
  LET Upto[k \in 0..Len(candidates)] ==
        IF k = 0 THEN <<>>
        ELSE LET h == candidates[k]
                 out == Upto[k - 1]
             IN IF Len(out) < Need /\ Eligible(h) /\ h \notin Range(out)
                THEN Append(out, h) ELSE out
  IN Upto[Len(candidates)]

\* fill, under the lock.
Fill ==
  LET new == Range(Picked) IN
  /\ pc = "fill"
  /\ picks' = Picked
  /\ used' = used \cup new
  /\ age' = [h \in Hub |-> IF h \in new THEN 0 ELSE age[h]]
  /\ quiet' = [h \in Hub |-> IF h \in new THEN Never ELSE quiet[h]]
  /\ announced' = announced \ new
  /\ pc' = "connect"
  /\ UNCHANGED <<candidates, bad, node, dropping, waiting, announce, told>>

\* fill, after it: ConnectHub for each pick, which makes an interface unless
\* there is one, and announceWhenUp.
ConnectHub ==
  /\ pc = "connect" /\ picks # <<>>
  /\ LET h == Head(picks) IN
       /\ link' = [link EXCEPT ![h] = IF @ = "none" THEN "dialing" ELSE @]
       /\ waiting' = waiting \cup {h}
  /\ picks' = Tail(picks)
  /\ UNCHANGED <<policy, pc, fresh, breaks, dropping, announce, told>>

\* Mutant: the hub that failed stays in state.
ConnectHubFailsKeeps ==
  /\ pc = "connect" /\ picks # <<>>
  /\ Head(picks) \notin Good
  /\ bad' = [bad EXCEPT ![Head(picks)] = Backoff]
  /\ picks' = Tail(picks)
  /\ UNCHANGED <<candidates, used, age, quiet, announced, pc, node, dropping, waiting, announce, told>>

\* A malformed address, or a registration that fails.
ConnectHubFails ==
  /\ pc = "connect" /\ picks # <<>>
  /\ LET h == Head(picks) IN
       /\ h \notin Good
       /\ used' = used \ {h}
       /\ bad' = [bad EXCEPT ![h] = Backoff]
  /\ picks' = Tail(picks)
  /\ UNCHANGED <<candidates, age, quiet, announced, pc, node, dropping, waiting, announce, told>>

FillDone ==
  /\ pc = "connect" /\ picks = <<>>
  /\ pc' = "select"
  /\ UNCHANGED <<policy, picks, node, dropping, waiting, announce, told>>

\* What measure finds at the next check.
AgeNow(h) == age[h] + 1
QuietNow(h) ==
  IF h \in fresh THEN 0 ELSE IF quiet[h] = Never THEN Never ELSE quiet[h] + 1

\* Mutant: a connection that does not hold is given time for ever.
DropsSilent(h) ==
  \/ QuietNow(h) = Never /\ AgeNow(h) > Silence /\ link[h] = "online"
  \/ QuietNow(h) # Never /\ QuietNow(h) > Silence

Drops(h) ==
  \/ link[h] # "online" /\ AgeNow(h) > Grace
  \/ QuietNow(h) = Never /\ AgeNow(h) > Silence
  \/ QuietNow(h) # Never /\ QuietNow(h) > Silence

\* A good hub is never late: it is up within the grace and sends in time.
InTime(h) == link[h] \in {"dialing", "online"} => ~Drops(h)

\* The check ticker: measure, under the lock.  A hub the node no longer has is
\* forgotten; a bad one is dropped and backed off.  The first line is about
\* time: no DropHub lasts as long as a backoff, and good hubs are in time.
Measure ==
  LET lost == {h \in used : link[h] = "none"}
      gone == {h \in used \ lost : Drops(h)}
      up == {h \in used \ announced : link[h] = "online"}
  IN /\ (\A h \in dropping : bad[h] > 1) /\ (\A h \in Good \cap used : InTime(h))
     /\ pc = "select"
     /\ used' = used \ (lost \cup gone)
     /\ bad' = [h \in Hub |-> IF h \in gone THEN Backoff
                              ELSE IF bad[h] > 0 THEN bad[h] - 1 ELSE 0]
     /\ dropping' = dropping \cup gone
     /\ age' = [h \in Hub |-> IF h \in used' /\ age[h] <= Silence + Grace
                              THEN AgeNow(h) ELSE IF h \in used' THEN age[h] ELSE 0]
     /\ quiet' = [h \in Hub |-> IF h \in used' THEN QuietNow(h) ELSE Never]
     /\ announced' = (announced \cup up) \cap used'
     /\ announce' = (announce \/ up # {})
     /\ fresh' = fresh \ used
     /\ waiting' = {h \in waiting : AgeNow(h) <= Grace}
     /\ pc' = "fill"
     /\ UNCHANGED <<candidates, picks, link, breaks, told>>

\* Mutant: the hub is marked, and nothing sent.
MarkWhenUp(h) ==
  /\ h \in waiting /\ link[h] \in {"none", "online"}
  /\ waiting' = waiting \ {h}
  /\ announced' = announced \cup ({h} \cap used)
  /\ UNCHANGED <<candidates, used, age, quiet, bad, run, node, dropping, announce, told>>

\* announceWhenUp: the hub is gone, or up: then it is announced to unless a
\* check was faster.  Looking at the hub and marking it are one step: only a
\* whole backoff in between could put another state in its place.
AnnounceWhenUp(h) ==
  /\ h \in waiting /\ link[h] \in {"none", "online"}
  /\ waiting' = waiting \ {h}
  /\ IF link[h] = "online" /\ h \in used \ announced
     THEN announced' = announced \cup {h} /\ announce' = TRUE
     ELSE UNCHANGED <<announced, announce>>
  /\ UNCHANGED <<candidates, used, age, quiet, bad, run, node, dropping, told>>

Online == {h \in Hub : link[h] = "online"}

\* Announce goes out through every interface that is up: a pending one, or
\* the one of the announce ticker.
Announce ==
  /\ announce \/ (pc = "select" /\ ~(Online \subseteq told))
  /\ announce' = FALSE
  /\ told' = told \cup Online
  /\ UNCHANGED <<policy, run, node, dropping, waiting>>
-----------------------------------------------------------------------------
(* The node and its interfaces *)

\* Node.DropHub: the interface leaves the node and stops.
DropHub(h) ==
  /\ h \in dropping
  /\ dropping' = dropping \ {h}
  /\ link' = [link EXCEPT ![h] = "none"]
  /\ fresh' = fresh \ {h} /\ told' = told \ {h}
  /\ UNCHANGED <<policy, run, breaks, waiting, announce>>

\* hubConn.Start: the TCP connection comes up, or it does not, for good.
Dialed(h) ==
  /\ link[h] = "dialing"
  /\ \/ link' = [link EXCEPT ![h] = "online"]
     \/ h \notin Good /\ link' = [link EXCEPT ![h] = "offline"]
  /\ told' = told \ {h}
  /\ UNCHANGED <<policy, run, fresh, breaks, dropping, waiting, announce>>

\* readLoop: bytes arrive.
Deliver(h) ==
  /\ link[h] = "online" /\ h \notin fresh
  /\ fresh' = fresh \cup {h}
  /\ UNCHANGED <<policy, run, link, breaks, dropping, waiting, announce, told>>

\* A read or a write fails: the connection goes offline and stays so.
Offline(h) ==
  /\ link[h] = "online"
  /\ h \in Good => breaks < MaxBreaks
  /\ breaks' = IF h \in Good THEN breaks + 1 ELSE breaks
  /\ link' = [link EXCEPT ![h] = "offline"]
  /\ told' = told \ {h}
  /\ UNCHANGED <<policy, run, fresh, dropping, waiting, announce>>

Run == Fill \/ ConnectHub \/ ConnectHubFails \/ FillDone \/ Measure

HNext ==
  \/ Run \/ AddCandidates \/ Announce
  \/ \E h \in Hub : \/ AnnounceWhenUp(h) \/ DropHub(h)
                    \/ Dialed(h) \/ Deliver(h) \/ Offline(h)

HSpec == HInit /\ [][HNext]_hvars

\* The check ticker fires, goroutines run, announces that were started go out,
\* and good hubs answer.
HFairSpec ==
  /\ HSpec /\ WF_hvars(Run) /\ WF_hvars(announce /\ Announce)
  /\ \A h \in Hub : WF_hvars(AnnounceWhenUp(h)) /\ WF_hvars(DropHub(h))
  /\ \A h \in Good : WF_hvars(Dialed(h)) /\ WF_hvars(Deliver(h))
-----------------------------------------------------------------------------
(* Properties *)

\* The manager and the node agree: at most Want hubs are in use, every
\* interface that is not on its way out belongs to one of them, and every hub
\* in use has an interface or is about to get one.
LinksManaged ==
  /\ Cardinality(used) <= Want
  /\ \A h \in Hub : link[h] # "none" => h \in used \cup dropping
  /\ \A h \in used : link[h] # "none" \/ h \in Range(picks)

\* Trying all of n hubs that never send anything takes less than a backoff, so
\* that the first is not tried again before the hubs after the last.
BackoffOutlasts(n) == (n - 1) * (Silence + 1) < Backoff

\* With Want good hubs among the candidates and the others few enough for the
\* backoff, Want hubs stay connected once good hubs stop breaking and the
\* others stop sending now and then.
KeepsWant ==
  /\ <>(Cardinality(Good \cap Range(candidates)) >= Want)
  /\ BackoffOutlasts(Cardinality(Hub \ Good))
  /\ <>[](fresh \subseteq Good)
  => <>[](Cardinality(Online \cap used) = Want)

\* A hub that comes up learns of this device.
UpIsAnnounced ==
  \A h \in Hub : (h \in used /\ link[h] = "online") ~> (h \in told \/ link[h] # "online")
=============================================================================
