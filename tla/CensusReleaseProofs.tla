------------------------- MODULE CensusReleaseProofs -------------------------
(***************************************************************************)
(* Proofs about the held census and its release, for any number of folds,  *)
(* ticks, jobs and pollers and every order the sweeps, the passes and the  *)
(* reconfigurations come in; and about observation retention, for any      *)
(* timelines, scans, cadences, dials and floors.                           *)
(***************************************************************************)
EXTENDS CensusRelease, Retention, WellFoundedInduction, TLAPS

\* A set of naturals has a least element.
LEMMA LeastNumber ==
    ASSUME NEW S \in SUBSET Nat, S # {}
    PROVE  \E t \in S : \A u \in S : t <= u
<1>1. PICK t \in S : \A u \in S : ~(<<u, t>> \in OpToRel(<, Nat))
  <2> DEFINE R == OpToRel(<, Nat)
  <2>1. IsWellFoundedOn(R, Nat) BY NatLessThanWellFounded
  <2> HIDE DEF R
  <2>2. \E t \in S : \A u \in S : ~(<<u, t>> \in R) BY <2>1, WFMin
  <2> QED BY <2>2 DEF R
<1>2. \A u \in S : ~(u < t)
  BY <1>1 DEF OpToRel
<1> QED BY <1>2

\* The first of a set of instants.
LEMMA LeastIsFirst ==
    ASSUME NEW S \in SUBSET Instant, S # {}
    PROVE  Least(S) \in S /\ \A t \in S : Least(S) <= t
<1>1. S \in SUBSET Nat
  BY CensusAssumption DEF Instant, CensusAssumption
<1>2. \E t \in S : \A u \in S : t <= u
  BY <1>1, LeastNumber
<1> QED BY <1>2 DEF Least

\* The last of a set of instants.
LEMMA GreatestIsLast ==
    ASSUME NEW S \in SUBSET Instant, S # {}
    PROVE  Greatest(S) \in S /\ \A t \in S : Greatest(S) >= t
<1> DEFINE T == {MaxInstant - t : t \in S}
<1>0. MaxInstant \in Nat /\ \A t \in S : t \in Nat /\ t <= MaxInstant
  BY CensusAssumption DEF Instant, CensusAssumption
<1>1. T \in SUBSET Nat /\ T # {}
  BY <1>0
<1>2. PICK m \in T : \A u \in T : m <= u
  BY <1>1, LeastNumber
<1>3. PICK s \in S : m = MaxInstant - s
  OBVIOUS
<1>4. ASSUME NEW t \in S PROVE s >= t
  <2>1. MaxInstant - s <= MaxInstant - t BY <1>2, <1>3
  <2> QED BY <1>0, <2>1
<1> QED BY <1>4 DEF Greatest

\* Instants and the bounds drawn from them are numbers up to the horizon, and
\* None is not an instant.
LEMMA BoundsInRange ==
    /\ \A S \in SUBSET Instant : Least(S) \in 0..MaxInstant /\ Greatest(S) \in 0..MaxInstant
    /\ 0 \in 0..MaxInstant /\ 0 \notin Instant /\ Instant \subseteq 0..MaxInstant
<1>1. ASSUME NEW S \in SUBSET Instant
      PROVE  Least(S) \in 0..MaxInstant /\ Greatest(S) \in 0..MaxInstant
  <2>1. CASE S = {}
    BY <2>1, CensusAssumption DEF Least, Greatest, None, CensusAssumption
  <2>2. CASE S # {}
    <3>1. Least(S) \in Instant /\ Greatest(S) \in Instant
      BY <2>2, LeastIsFirst, GreatestIsLast
    <3> QED BY <3>1, CensusAssumption DEF Instant, CensusAssumption
  <2> QED BY <2>1, <2>2
<1> QED BY <1>1, CensusAssumption DEF CensusAssumption, Instant

\* A row a pass lists names instants.
LEMMA RowListed ==
    ASSUME TypeOK, NEW b \in Instant PROVE Row(b) \in Listed
<1>1. HotRows \in SUBSET Instant /\ \A d : BatchesOf(d) \in SUBSET Instant
  BY DEF HotRows, BatchesOf, TypeOK
<1>2. FirstHot(b) \in 0..MaxInstant
  BY <1>1, BoundsInRange DEF FirstHot
<1>3. DrainedAfter(b) \in 0..MaxInstant
  BY <1>2, BoundsInRange DEF DrainedAfter, None
<1>4. Greatest(BatchesOf(DrainedAfter(b))) \in 0..MaxInstant
  BY <1>1, BoundsInRange
<1> QED BY <1>3, <1>4 DEF Row, Listed

\* Every variable keeps its type (TypeOK): in particular a poller only ever holds
\* rows of folds and dispatches the tables have had.
THEOREM CensusTypeCorrect == Spec => []TypeOK
<1> USE DEF queueVars, batchVars, msgVars, knobVars, pollVars
<1>1. Init => TypeOK
  BY BoundsInRange, CensusAssumption
  DEF Init, TypeOK, RowKinds, Statuses, Phases, MsgStates, Passes, None, NoSweep, CensusAssumption
<1>2. ASSUME TypeOK, [Next]_vars PROVE TypeOK'
  <2> USE <1>2, BoundsInRange
  <2>0. MaxJobs \in Nat \ {0} /\ MaxInstant \in Nat \ {0}
    BY CensusAssumption DEF CensusAssumption
  <2>1. ASSUME NEW k \in {"root", "move", "hot", "dispatch"}, Begin(k)
        PROVE  now' \in 0..MaxInstant /\ now' \in Instant /\ now' = now + 1
               /\ kind' \in [Instant -> RowKinds]
    <3>1. now \in 0..MaxInstant /\ now < MaxInstant /\ now' = now + 1 BY <2>1 DEF Begin, TypeOK
    <3>2. now' \in Instant /\ now' \in 0..MaxInstant BY <2>0, <3>1 DEF Instant
    <3>3. kind' = [kind EXCEPT ![now + 1] = k] /\ k \in RowKinds BY <2>1 DEF Begin, RowKinds
    <3>4. kind' \in [Instant -> RowKinds] BY <3>3 DEF TypeOK
    <3> QED BY <3>1, <3>2, <3>4
  <2>2. ASSUME NEW k \in Folds, BeginFold(k) PROVE TypeOK'
    BY <2>1, <2>2 DEF BeginFold, TypeOK, Folds
  <2>3. ASSUME NEW r \in Instant, CommitFold(r) PROVE TypeOK'
    BY <2>3 DEF CommitFold, TypeOK, MsgStates
  <2>4. CASE ClaimTick
    <3>1. HotRows \subseteq Instant BY DEF HotRows, TypeOK
    <3> QED BY <2>1, <2>4, <3>1 DEF ClaimTick, TypeOK, Phases
  <2>5. CASE SkipTick
    BY <2>1, <2>5 DEF SkipTick, TypeOK, Statuses
  <2>6. ASSUME NEW d \in Instant, HotTier(d) PROVE TypeOK'
    <3>1. CASE StreamJobs(d)
      <4>1. Moves \in SUBSET Instant BY DEF Moves, TypeOK
      <4>2. \A n \in 1..MaxJobs : n \in 0..MaxJobs BY <2>0
      <4> QED BY <3>1, <4>1, <4>2 DEF StreamJobs, TypeOK, Phases
    <3>2. CASE FinishFanOut(d)
      BY <3>2 DEF FinishFanOut, TypeOK
    <3>3. CASE HotFold(d)
      <4>1. now' \in 0..MaxInstant /\ now' \in Instant /\ now' = now + 1
            /\ kind' \in [Instant -> RowKinds]
        BY <2>1, <3>3 DEF HotFold
      <4>2. jobs[d] - 1 \in 0..MaxJobs
        BY <2>0, <3>3 DEF HotFold, Draining, TypeOK
      <4>3. jobs' \in [Instant -> 0..MaxJobs]
        BY <3>3, <4>2 DEF HotFold, TypeOK
      <4>4. dispatchOf' \in [Instant -> 0..MaxInstant]
        BY <3>3, <4>1 DEF HotFold, TypeOK, None
      <4>5. opened' \in [Instant -> SUBSET Instant]
        BY <3>3, <4>1 DEF HotFold, TypeOK
      <4> QED BY <3>3, <4>1, <4>3, <4>4, <4>5 DEF HotFold, TypeOK
    <3>4. CASE EndJob(d)
      <4>1. jobs[d] - 1 \in 0..MaxJobs
        BY <2>0, <3>4 DEF EndJob, Draining, TypeOK
      <4> QED BY <3>4, <4>1 DEF EndJob, TypeOK
    <3>5. CASE Stop(d)
      BY <3>5 DEF Stop, TypeOK, Statuses
    <3> QED BY <2>6, <3>1, <3>2, <3>3, <3>4, <3>5 DEF HotTier
  <2>7. ASSUME NEW p \in Poller, Poll(p) PROVE TypeOK'
    <3>1. CASE ListReleasable(p)
      <4>1. {Row(r) : r \in {t \in live : Releasable(t)}} \in SUBSET Listed
        BY RowListed DEF TypeOK
      <4> QED BY <3>1, <4>1 DEF ListReleasable, TypeOK, Passes
    <3>2. CASE Release(p)
      <4>1. PICK e \in toRelease[p] :
              /\ toRelease' = [toRelease EXCEPT ![p] = @ \ {e}]
              /\ msg' = [msg EXCEPT ![e.fold] = "released"]
              /\ census' = [census EXCEPT ![e.fold] =
                      IF TakesRow(e.fold) THEN OpenedSince(e.fold, e.upper) ELSE @]
              /\ routed' = [routed EXCEPT ![e.fold] = IF TakesRow(e.fold) THEN @ + 1 ELSE @]
              /\ releasedBy' = [releasedBy EXCEPT ![e.fold] = IF TakesRow(e.fold) THEN e.via ELSE @]
        BY <3>2 DEF Release
      <4>2. e.fold \in Instant /\ e.via \in 0..MaxInstant
        BY <4>1 DEF TypeOK, Listed
      <4>3. OpenedSince(e.fold, e.upper) \in SUBSET Instant
        BY DEF OpenedSince, TypeOK
      <4>4. msg' \in [Instant -> MsgStates] /\ census' \in [Instant -> SUBSET Instant]
        BY <4>1, <4>3 DEF TypeOK, MsgStates
      <4>5. routed' \in [Instant -> Nat]
        <5>1. routed \in [Instant -> Nat] /\ routed[e.fold] \in Nat BY <4>2 DEF TypeOK
        <5> DEFINE n == IF TakesRow(e.fold) THEN routed[e.fold] + 1 ELSE routed[e.fold]
        <5>2. n \in Nat BY <5>1
        <5>3. routed' = [routed EXCEPT ![e.fold] = n] BY <4>1
        <5> HIDE DEF n
        <5> QED BY <5>1, <5>2, <5>3
      <4>7. releasedBy' \in [Instant -> 0..MaxInstant]
        BY <4>1, <4>2 DEF TypeOK
      <4>6. toRelease' \in [Poller -> SUBSET Listed]
        <5>1. toRelease[p] \ {e} \in SUBSET Listed BY DEF TypeOK
        <5> QED BY <4>1, <5>1 DEF TypeOK
      <4> QED BY <3>2, <4>4, <4>5, <4>6, <4>7 DEF Release, TypeOK
    <3>3. CASE FailRelease(p)
      BY <3>3 DEF FailRelease, TypeOK
    <3>6. CASE FailSettle(p)
      BY <3>6 DEF FailSettle, TypeOK
    <3>4. CASE ListSettleable(p)
      <4> DEFINE due == {b \in live : Settleable(b)}
      <4>1. {Row(b) : b \in due \cap Moves} \in SUBSET Listed
        BY RowListed DEF TypeOK
      <4>2. due \ Moves \subseteq Instant BY DEF TypeOK
      <4>3. /\ pass' = [pass EXCEPT ![p] = "settling"]
            /\ toSettle' = [toSettle EXCEPT ![p] = {Row(b) : b \in due \cap Moves}]
            /\ settled' = settled \cup (due \ Moves)
        BY <3>4 DEF ListSettleable
      <4> HIDE DEF due
      <4> QED BY <3>4, <4>1, <4>2, <4>3 DEF ListSettleable, TypeOK, Passes
    <3>5. CASE SettleOne(p)
      <4>1. PICK e \in toSettle[p] :
              /\ toSettle' = [toSettle EXCEPT ![p] = @ \ {e}]
              /\ settled' = settled \cup {e.fold}
              /\ residue' = [residue EXCEPT ![e.fold] =
                      IF e.fold \notin settled /\ ~RootNamed(e.fold)
                      THEN OpenedSince(e.fold, None) ELSE @]
              /\ settledBy' = [settledBy EXCEPT ![e.fold] =
                      IF e.fold \notin settled THEN e.via ELSE @]
        BY <3>5 DEF SettleOne
      <4>2. e.fold \in Instant /\ e.via \in 0..MaxInstant
        BY <4>1 DEF TypeOK, Listed
      <4>3. OpenedSince(e.fold, None) \in SUBSET Instant
        BY DEF OpenedSince, TypeOK
      <4>4. residue' \in [Instant -> SUBSET Instant] /\ settledBy' \in [Instant -> 0..MaxInstant]
        BY <4>1, <4>2, <4>3 DEF TypeOK
      <4>5. toSettle' \in [Poller -> SUBSET Listed] /\ settled' \in SUBSET Instant
        BY <4>1, <4>2 DEF TypeOK
      <4> QED BY <3>5, <4>4, <4>5 DEF SettleOne, TypeOK
    <3> QED BY <2>7, <3>1, <3>2, <3>3, <3>4, <3>5, <3>6 DEF Poll
  <2>8. CASE SweepRead
    <3>1. PICK before \in live : sweep' = [on |-> TRUE, before |-> before, keep |-> StillRead(before)]
      BY <2>8 DEF SweepRead
    <3>2. HotRows \subseteq Instant BY DEF HotRows, TypeOK
    <3>3. \A b : FirstHot(b) \in 0..MaxInstant /\ FirstComplete(b) \in 0..MaxInstant
      BY <3>2 DEF FirstHot, FirstComplete
    <3>4. StillRead(before) \subseteq Instant
      BY <2>0, <3>3 DEF StillRead, None, Instant
    <3>5. before \in 0..MaxInstant BY <3>1 DEF TypeOK
    <3> QED BY <2>8, <3>1, <3>4, <3>5 DEF SweepRead, TypeOK
  <2>9. CASE SweepDelete
    BY <2>9 DEF SweepDelete, TypeOK, NoSweep, None
  <2>10. CASE Restart
    BY <2>10 DEF Restart, TypeOK, NoSweep, Passes
  <2>11. CASE ToggleHot
    BY <2>11 DEF ToggleHot, TypeOK
  <2>12. CASE UNCHANGED vars
    BY <2>12 DEF vars, TypeOK
  <2> QED
    BY <2>2, <2>3, <2>4, <2>5, <2>6, <2>7, <2>8, <2>9, <2>10, <2>11, <2>12 DEF Next
<1> QED BY <1>1, <1>2, PTL DEF Spec


-----------------------------------------------------------------------------
(***************************************************************************)
(* The rows.  Ids are given out in order and never again, a batch is never *)
(* deleted, and a fan-out that ended does not start over.                  *)
(***************************************************************************)
RowsDated ==
    \A t \in Instant :
        /\ kind[t] # "none" => t <= now
        /\ t \in live => kind[t] # "none"
        /\ kind[t] = "hot" => t \in live
        /\ msg[t] # "none" => kind[t] = "root" /\ t \in live

FanOutsEnd ==
    \A d \in Instant :
        /\ (d \in complete \/ d \in streaming \/ Draining(d) \/ d \in abandoned) => kind[d] = "dispatch"
        /\ ~(d \in complete /\ d \in streaming)

\* An opening is later than the folds whose ground it lies on.
OpenedLater ==
    \A t \in Instant :
        /\ \A r \in saw[t] : r <= now
        /\ \A r \in opened[t] : r < t

\* What a pass listed is a root that was held, or a fold.
ListedHeld ==
    \A p \in Poller :
        /\ \A e \in toRelease[p] : msg[e.fold] \in {"held", "released"}
        /\ \A e \in toSettle[p] : e.fold \in live /\ kind[e.fold] \in Folds

TablesInv == RowsDated /\ FanOutsEnd /\ OpenedLater /\ ListedHeld

\* What any step may do to the tables.
TableMoves ==
    /\ now' \in {now, now + 1}
    /\ \A t \in Instant :
        /\ kind[t] # "none" => kind'[t] = kind[t]
        /\ kind'[t] # kind[t] => t = now + 1 /\ now' = now + 1
        /\ t \in live => t \in live' \/ kind[t] = "dispatch"
        /\ (t \in live' /\ t \notin live) => (kind[t] \in Folds \/ (t = now + 1 /\ now' = now + 1))
        /\ t \in complete => t \in complete'
        /\ (t \in complete' /\ t \notin complete) => t \in streaming
        /\ (t \in streaming' /\ t \notin streaming) => t = now + 1 /\ now' = now + 1
        /\ (Draining(t)' /\ ~Draining(t)) => t \in streaming
        /\ (kind[t] = "dispatch" /\ status'[t] = "fanned-out") => status[t] = "fanned-out"
        /\ t \in abandoned => t \in abandoned'
        /\ (t \in abandoned' /\ t \notin abandoned) => t \notin complete /\ kind[t] = "dispatch"
        /\ kind[t] = "hot" =>
             /\ opened'[t] = opened[t]
             /\ \/ dispatchOf'[t] = dispatchOf[t]
                \/ dispatchOf'[t] = None /\ dispatchOf[t] \notin live'
        /\ (kind[t] # "hot" /\ kind'[t] = "hot") =>
             /\ t \in live'
             /\ \/ dispatchOf'[t] = None
                \/ dispatchOf'[t] \in Instant /\ Draining(dispatchOf'[t])

\* Beginning a transaction gives out a new id.
LEMMA BeginStep ==
    ASSUME TypeOK, RowsDated, NEW k, Begin(k)
    PROVE  /\ now' = now + 1 /\ now + 1 \in Instant /\ now + 1 \notin live
           /\ kind[now + 1] = "none" /\ kind'[now + 1] = k
           /\ \A t \in Instant : t # now + 1 => kind'[t] = kind[t]
           /\ \A t \in Instant : kind[t] # "none" => t # now + 1
<1>1. now \in 0..MaxInstant /\ now < MaxInstant /\ MaxInstant \in Nat
  BY CensusAssumption DEF Begin, TypeOK, CensusAssumption
<1>2. now + 1 \in Instant
  BY <1>1 DEF Instant
<1>3. ~(now + 1 <= now)
  BY <1>1
<1>4. kind[now + 1] = "none"
  BY <1>2, <1>3 DEF RowsDated
<1>5. now' = now + 1 /\ kind' = [kind EXCEPT ![now + 1] = k]
  BY DEF Begin
<1> QED BY <1>2, <1>4, <1>5 DEF TypeOK, RowsDated

\* Every step of the system is such a move.
LEMMA EveryTableStep ==
    ASSUME TypeOK, RowsDated, FanOutsEnd, [Next]_vars PROVE TableMoves
<1> USE DEF queueVars, batchVars, msgVars, knobVars, pollVars, TableMoves, Draining
<1>1. ASSUME NEW k \in Folds, BeginFold(k) PROVE TableMoves
  BY <1>1, BeginStep DEF BeginFold, Folds, RowsDated
<1>2. ASSUME NEW r \in Instant, CommitFold(r) PROVE TableMoves
  BY <1>2 DEF CommitFold
<1>3. CASE ClaimTick
  BY <1>3, BeginStep DEF ClaimTick, HotRows, RowsDated
<1>4. CASE SkipTick
  BY <1>4, BeginStep DEF SkipTick, RowsDated, TypeOK
<1>5. ASSUME NEW d \in Instant, StreamJobs(d) \/ FinishFanOut(d) \/ EndJob(d) \/ Stop(d)
      PROVE  TableMoves
  <2>1. CASE StreamJobs(d)
    BY <2>1 DEF StreamJobs, TypeOK
  <2>2. CASE FinishFanOut(d)
    BY <2>2 DEF FinishFanOut
  <2>3. CASE EndJob(d)
    BY <2>3 DEF EndJob, TypeOK
  <2>4. CASE Stop(d)
    BY <2>4 DEF Stop, TypeOK
  <2> QED BY <1>5, <2>1, <2>2, <2>3, <2>4
<1>6. ASSUME NEW d \in Instant, HotFold(d) PROVE TableMoves
  <2>1. Begin("hot") BY <1>6 DEF HotFold
  <2>2. \A t \in Instant : (Draining(t)' => Draining(t))
    BY <1>6 DEF HotFold, TypeOK
  <2>3. dispatchOf' = [dispatchOf EXCEPT ![now + 1] = IF d \in live THEN d ELSE None]
    BY <1>6 DEF HotFold
  <2>4. \A t \in Instant : t # now + 1 => opened'[t] = opened[t] /\ dispatchOf'[t] = dispatchOf[t]
    BY <1>6, <2>3 DEF HotFold, TypeOK
  <2>5. now + 1 \in Instant => dispatchOf'[now + 1] \in {d, None}
    BY <2>3 DEF TypeOK
  <2>6. /\ live' = live \cup {now + 1} /\ Draining(d)
        /\ UNCHANGED <<status, complete, abandoned, streaming>>
    BY <1>6 DEF HotFold
  <2> QED BY <2>1, <2>2, <2>4, <2>5, <2>6, BeginStep
<1>7. ASSUME NEW p \in Poller, Poll(p) PROVE TableMoves
  BY <1>7
  DEF Poll, ListReleasable, Release, FailRelease, ListSettleable, SettleOne, FailSettle
<1>8. CASE SweepDelete
  BY <1>8 DEF SweepDelete, Expired, HotRows, TypeOK
<1>9. CASE SweepRead \/ Restart \/ ToggleHot
  BY <1>9 DEF SweepRead, Restart, ToggleHot
<1>10. CASE UNCHANGED vars
  BY <1>10 DEF vars
<1> QED BY <1>1, <1>2, <1>3, <1>4, <1>5, <1>6, <1>7, <1>8, <1>9, <1>10 DEF Next, HotTier


\* What any step may do to a message: a fold commits it, or a pass releases it.
MsgMoves ==
    \A t \in Instant :
        \/ msg'[t] = msg[t]
        \/ /\ kind[t] \in Folds /\ t \notin live /\ t \in live'
           /\ msg'[t] # "none" => kind[t] = "root"
        \/ msg[t] \in {"held", "released"} /\ msg'[t] = "released"

\* Every step moves messages so (commitWithdrawal, releaseRow).
LEMMA EveryMsgStep ==
    ASSUME TypeOK, ListedHeld, [Next]_vars PROVE MsgMoves
<1> USE DEF MsgMoves
<1>1. ASSUME NEW r \in Instant, CommitFold(r) PROVE MsgMoves
  BY <1>1 DEF CommitFold, TypeOK, Folds
<1>2. ASSUME NEW p \in Poller, Release(p) PROVE MsgMoves
  <2>1. PICK e \in toRelease[p] : msg' = [msg EXCEPT ![e.fold] = "released"]
    BY <1>2 DEF Release
  <2> QED BY <2>1 DEF ListedHeld, TypeOK
<1>3. CASE UNCHANGED msg
  BY <1>3
<1> QED
  BY <1>1, <1>2, <1>3
  DEF Next, BeginFold, ClaimTick, SkipTick, HotTier, StreamJobs, FinishFanOut, HotFold,
      EndJob, Stop, Poll, ListReleasable, FailRelease, ListSettleable, SettleOne, FailSettle,
      SweepRead, SweepDelete, Restart, ToggleHot, msgVars, vars

\* What any step may do to the lists of the passes.
LEMMA EveryListStep ==
    ASSUME TypeOK, [Next]_vars, NEW p \in Poller
    PROVE  /\ \A e \in toRelease'[p] :
                e \in toRelease[p]
                \/ \E r \in live : Releasable(r) /\ e = Row(r)
                     /\ UNCHANGED <<now, kind, live, queueVars, batchVars, msgVars>>
           /\ \A e \in toSettle'[p] :
                e \in toSettle[p]
                \/ \E r \in Moves : Settleable(r) /\ e = Row(r)
                     /\ UNCHANGED <<now, kind, live, queueVars, dispatchOf, opened, msgVars>>
<1> USE DEF pollVars
<1>1. ASSUME NEW q \in Poller, ListReleasable(q) PROVE
           /\ toSettle' = toSettle
           /\ toRelease' = [toRelease EXCEPT ![q] = {Row(r) : r \in {t \in live : Releasable(t)}}]
           /\ UNCHANGED <<now, kind, live, queueVars, batchVars, msgVars>>
  BY <1>1 DEF ListReleasable
<1>2. ASSUME NEW q \in Poller, ListSettleable(q) PROVE
           /\ toRelease' = toRelease
           /\ toSettle' = [toSettle EXCEPT ![q] = {Row(b) : b \in {b \in live : Settleable(b)} \cap Moves}]
           /\ UNCHANGED <<now, kind, live, queueVars, dispatchOf, opened, msgVars>>
  BY <1>2 DEF ListSettleable
<1>3. CASE (\A q \in Poller : toRelease'[q] \subseteq toRelease[q] /\ toSettle'[q] \subseteq toSettle[q])
  BY <1>3
<1>4. ASSUME NEW q \in Poller, Release(q) \/ FailRelease(q) \/ SettleOne(q) \/ FailSettle(q)
      PROVE  \A x \in Poller : toRelease'[x] \subseteq toRelease[x] /\ toSettle'[x] \subseteq toSettle[x]
  BY <1>4 DEF Release, FailRelease, SettleOne, FailSettle, TypeOK
<1>5. CASE Restart
  BY <1>5 DEF Restart
<1>6. CASE \E q \in Poller : ListReleasable(q)
  BY <1>1, <1>6 DEF TypeOK
<1>7. CASE \E q \in Poller : ListSettleable(q)
  BY <1>2, <1>7 DEF TypeOK
<1>8. CASE UNCHANGED <<toRelease, toSettle>>
  BY <1>8
<1> QED
  BY <1>3, <1>4, <1>5, <1>6, <1>7, <1>8
  DEF Next, BeginFold, CommitFold, ClaimTick, SkipTick, HotTier, StreamJobs, FinishFanOut, HotFold,
      EndJob, Stop, Poll, SweepRead, SweepDelete, ToggleHot, vars

\* TablesInv is inductive.
LEMMA TablesCorrect == Spec => []TablesInv
<1> USE DEF queueVars, batchVars, msgVars, knobVars, pollVars
<1>1. Init => TablesInv
  BY DEF Init, TablesInv, RowsDated, FanOutsEnd, OpenedLater, ListedHeld, Draining
<1>2. ASSUME TypeOK, TypeOK', TablesInv, [Next]_vars PROVE TablesInv'
  <2>0. /\ RowsDated /\ FanOutsEnd /\ OpenedLater /\ ListedHeld /\ TableMoves /\ MsgMoves
        /\ now \in Nat /\ \A t \in Instant : t \in Nat
    <3>1. now \in Nat /\ \A t \in Instant : t \in Nat
      BY <1>2, CensusAssumption DEF TypeOK, Instant, CensusAssumption
    <3> QED BY <1>2, <3>1, EveryTableStep, EveryMsgStep DEF TablesInv
  <2>1. RowsDated'
    <3> SUFFICES ASSUME NEW t \in Instant
        PROVE /\ kind'[t] # "none" => t <= now'
              /\ t \in live' => kind'[t] # "none"
              /\ kind'[t] = "hot" => t \in live'
              /\ msg'[t] # "none" => kind'[t] = "root" /\ t \in live'
      BY DEF RowsDated
    <3>1. kind'[t] # "none" => t <= now' BY <2>0 DEF TableMoves, RowsDated
    <3>2. kind'[t] = "hot" => t \in live' BY <2>0 DEF TableMoves, RowsDated
    <3>3. msg'[t] # "none" => kind'[t] = "root" /\ t \in live'
      BY <2>0 DEF TableMoves, RowsDated, MsgMoves, Folds
    <3>4. t \in live' => kind'[t] # "none"
      <4>1. CASE t \in live \/ kind[t] \in Folds BY <2>0, <4>1 DEF TableMoves, RowsDated, Folds
      <4>2. CASE t \in live' /\ t = now + 1 /\ now' = now + 1
        <5>1. live' # live \/ t \in live BY <4>2
        <5> QED
          BY <1>2, <2>0, <4>1, <4>2, BeginStep
          DEF Next, BeginFold, CommitFold, ClaimTick, SkipTick, HotTier, StreamJobs, FinishFanOut,
              HotFold, EndJob, Stop, Poll, ListReleasable, Release, FailRelease, ListSettleable,
              SettleOne, FailSettle, SweepRead, SweepDelete, Restart, ToggleHot, vars, Folds
      <4> QED BY <2>0, <4>1, <4>2 DEF TableMoves
    <3> QED BY <3>1, <3>2, <3>3, <3>4
  <2>2. FanOutsEnd'
    <3> SUFFICES ASSUME NEW d \in Instant
        PROVE /\ (d \in complete' \/ d \in streaming' \/ Draining(d)' \/ d \in abandoned') => kind'[d] = "dispatch"
              /\ ~(d \in complete' /\ d \in streaming')
      BY DEF FanOutsEnd
    <3>1. d \in streaming' /\ d \notin streaming => kind'[d] = "dispatch" /\ d = now + 1
      <4>1. d \in streaming' /\ d \notin streaming => ClaimTick /\ d = now + 1
        BY <1>2
        DEF Next, BeginFold, CommitFold, SkipTick, ClaimTick, HotTier, StreamJobs, FinishFanOut,
            HotFold, EndJob, Stop, Poll, ListReleasable, Release, FailRelease, ListSettleable,
            SettleOne, FailSettle, SweepRead, SweepDelete, Restart, ToggleHot, vars
      <4> QED BY <1>2, <2>0, <4>1, BeginStep DEF ClaimTick
    <3>2. (d \in complete' \/ Draining(d)' \/ d \in abandoned' \/ d \in streaming) => kind'[d] = "dispatch"
      BY <2>0 DEF TableMoves, FanOutsEnd
    <3>3. ~(d \in complete' /\ d \in streaming')
      <4>1. CASE d \in complete \/ d \notin streaming
        BY <2>0, <3>1, <4>1 DEF TableMoves, FanOutsEnd, RowsDated
      <4>2. CASE d \notin complete /\ d \in complete'
        <5>1. FinishFanOut(d)
          BY <1>2, <4>2
          DEF Next, BeginFold, CommitFold, ClaimTick, SkipTick, HotTier, StreamJobs, FinishFanOut,
              HotFold, EndJob, Stop, Poll, ListReleasable, Release, FailRelease, ListSettleable,
              SettleOne, FailSettle, SweepRead, SweepDelete, Restart, ToggleHot, vars
        <5> QED BY <5>1 DEF FinishFanOut
      <4> QED BY <4>1, <4>2
    <3> QED BY <3>1, <3>2, <3>3
  <2>3. OpenedLater'
    <3>1. ASSUME NEW d \in Instant, StreamJobs(d) PROVE OpenedLater'
      <4>1. \A r \in Moves : r <= now BY <2>0, <1>2 DEF Moves, RowsDated, TypeOK
      <4> QED BY <1>2, <2>0, <3>1, <4>1 DEF StreamJobs, OpenedLater, TypeOK
    <3>2. ASSUME NEW d \in Instant, HotFold(d) PROVE OpenedLater'
      <4>1. now' = now + 1 /\ now + 1 \in Instant BY <1>2, <2>0, <3>2, BeginStep DEF HotFold
      <4>2. PICK R \in SUBSET saw[d] : opened' = [opened EXCEPT ![now + 1] = R]
        BY <3>2 DEF HotFold
      <4>3. \A r \in R : r \in Nat /\ r < now + 1
        BY <1>2, <2>0 DEF OpenedLater, TypeOK
      <4>4. \A t \in Instant : \A r \in opened'[t] : r < t
        BY <1>2, <2>0, <4>1, <4>2, <4>3 DEF OpenedLater, TypeOK
      <4>5. \A t \in Instant : \A r \in saw[t] : r \in Nat /\ r <= now
        BY <1>2, <2>0 DEF OpenedLater, TypeOK
      <4>6. \A t \in Instant : \A r \in saw'[t] : r <= now'
        BY <2>0, <3>2, <4>1, <4>5 DEF HotFold
      <4> QED BY <4>4, <4>6 DEF OpenedLater
    <3>3. CASE UNCHANGED <<saw, opened>>
      <4>1. \A t \in Instant : \A r \in saw[t] : r \in Nat /\ r <= now
        BY <1>2, <2>0 DEF OpenedLater, TypeOK
      <4>2. \A t \in Instant : \A r \in saw'[t] : r <= now'
        BY <2>0, <3>3, <4>1 DEF TableMoves
      <4> QED BY <2>0, <3>3, <4>2 DEF OpenedLater
    <3> QED
      BY <1>2, <3>1, <3>2, <3>3
      DEF Next, BeginFold, CommitFold, ClaimTick, SkipTick, HotTier, FinishFanOut, EndJob, Stop,
          Poll, ListReleasable, Release, FailRelease, ListSettleable, SettleOne, FailSettle,
          SweepRead, SweepDelete, Restart, ToggleHot, vars
  <2>4. ListedHeld'
    <3> SUFFICES ASSUME NEW p \in Poller
        PROVE /\ \A e \in toRelease'[p] : msg'[e.fold] \in {"held", "released"}
              /\ \A e \in toSettle'[p] : e.fold \in live' /\ kind'[e.fold] \in Folds
      BY DEF ListedHeld
    <3>1. ASSUME NEW e \in toRelease'[p] PROVE msg'[e.fold] \in {"held", "released"}
      <4>1. CASE e \in toRelease[p]
        <5>1. e.fold \in Instant /\ msg[e.fold] \in {"held", "released"}
          BY <1>2, <2>0, <4>1 DEF ListedHeld, TypeOK, Listed
        <5> QED BY <2>0, <5>1 DEF MsgMoves, RowsDated
      <4>2. CASE \E r \in live : Releasable(r) /\ e = Row(r) /\ UNCHANGED msgVars
        BY <4>2 DEF Releasable, Row
      <4> QED BY <1>2, <3>1, <4>1, <4>2, EveryListStep
    <3>2. ASSUME NEW e \in toSettle'[p] PROVE e.fold \in live' /\ kind'[e.fold] \in Folds
      <4>1. CASE e \in toSettle[p]
        <5>1. e.fold \in Instant /\ e.fold \in live /\ kind[e.fold] \in Folds
          BY <1>2, <2>0, <4>1 DEF ListedHeld, TypeOK, Listed
        <5> QED BY <2>0, <5>1 DEF TableMoves, Folds
      <4>2. CASE \E r \in Moves : e = Row(r) /\ UNCHANGED <<kind, live>>
        BY <4>2 DEF Moves, Row
      <4> QED BY <1>2, <3>2, <4>1, <4>2, EveryListStep
    <3> QED BY <3>1, <3>2
  <2> QED BY <2>1, <2>2, <2>3, <2>4 DEF TablesInv
<1> QED BY <1>1, <1>2, CensusTypeCorrect, PTL DEF Spec

\* A root message is routed exactly once (RoutedOnce), whichever passes listed it
\* and however often the process restarts between a list and a take.
THEOREM RoutedOnceCorrect == Spec => []RoutedOnce
<1> DEFINE RoutedInv ==
      \A t \in Instant : routed[t] = IF msg[t] \in {"released", "written"} THEN 1 ELSE 0
<1>1. Init => RoutedInv
  BY DEF Init
<1>2. ASSUME TypeOK, TablesInv, RoutedInv, [Next]_vars PROVE RoutedInv'
  <2>1. ASSUME NEW r \in Instant, CommitFold(r) PROVE RoutedInv'
    <3>1. kind[r] \in {"root", "move"} BY <2>1 DEF CommitFold, Folds
    <3> QED BY <1>2, <2>1, <3>1 DEF CommitFold, TypeOK
  <2>2. ASSUME NEW p \in Poller, Release(p) PROVE RoutedInv'
    <3>1. PICK e \in toRelease[p] :
            /\ msg' = [msg EXCEPT ![e.fold] = "released"]
            /\ routed' = [routed EXCEPT ![e.fold] = IF TakesRow(e.fold) THEN @ + 1 ELSE @]
      BY <2>2 DEF Release
    <3>2. e.fold \in Instant /\ msg[e.fold] \in {"held", "released"}
      BY <1>2 DEF TablesInv, ListedHeld, TypeOK, Listed
    <3>3. routed'[e.fold] = 1 /\ msg'[e.fold] = "released"
      BY <1>2, <3>1, <3>2 DEF TakesRow, TypeOK
    <3>4. \A t \in Instant : t # e.fold => routed'[t] = routed[t] /\ msg'[t] = msg[t]
      BY <1>2, <3>1 DEF TypeOK
    <3> QED BY <1>2, <3>3, <3>4
  <2>3. CASE UNCHANGED <<msg, routed>>
    BY <1>2, <2>3
  <2> HIDE DEF RoutedInv
  <2> QED
    BY <1>2, <2>1, <2>2, <2>3
    DEF Next, BeginFold, ClaimTick, SkipTick, HotTier, StreamJobs, FinishFanOut, HotFold,
        EndJob, Stop, Poll, ListReleasable, FailRelease, ListSettleable, SettleOne, FailSettle,
        SweepRead, SweepDelete, Restart, ToggleHot, msgVars, vars
<1>3. ASSUME TypeOK, RoutedInv PROVE RoutedOnce
  BY <1>3 DEF RoutedOnce, Moves, TypeOK
<1> QED BY <1>1, <1>2, <1>3, CensusTypeCorrect, TablesCorrect, PTL DEF Spec

-----------------------------------------------------------------------------
(***************************************************************************)
(* The dispatch a message waited for.  It was the first to stand when it   *)
(* was read, it had drained, and neither can be undone.                    *)
(***************************************************************************)
Candidate(r, d) == d \in HotRows /\ d >= r /\ status[d] = "fanned-out" /\ d \notin abandoned

Waited(r, d) ==
    /\ d \in Instant /\ kind[d] = "dispatch" /\ d >= r
    /\ d \in complete /\ ~Draining(d) /\ d \notin abandoned
    /\ \A c \in Instant : Candidate(r, c) => c >= d

\* The bound a listed row carries is that of its dispatch's batches.
UpperIs(e) ==
    IF e.via = None THEN e.upper = None
    ELSE Waited(e.fold, e.via) /\ (e.via \in live => e.upper = Greatest(BatchesOf(e.via)))

WaitInv ==
    /\ \A p \in Poller : \A e \in toRelease[p] \cup toSettle[p] : UpperIs(e)
    /\ \A r \in Instant :
        /\ releasedBy[r] # None => Waited(r, releasedBy[r])
        /\ settledBy[r] # None => Waited(r, settledBy[r])

\* What DrainedAfter returns has been waited for.
LEMMA DrainedAfterWaited ==
    ASSUME TypeOK, NEW r \in Instant, DrainedAfter(r) # None
    PROVE  Waited(r, DrainedAfter(r)) /\ DrainedAfter(r) \in live
<1> DEFINE C == {d \in HotRows : d >= r /\ status[d] = "fanned-out" /\ d \notin abandoned}
<1>1. C \in SUBSET Instant
  BY DEF HotRows, TypeOK
<1>2. DrainedAfter(r) = Least(C) /\ Least(C) # None /\ Drained(Least(C))
  BY DEF DrainedAfter, FirstHot
<1>3. C # {}
  BY <1>2 DEF Least
<1>4. Least(C) \in C /\ \A c \in C : Least(C) <= c
  BY <1>1, <1>3, LeastIsFirst
<1>5. \A c \in Instant : Candidate(r, c) => c \in C
  BY DEF Candidate
<1>6. \A c \in C : c \in Nat
  BY <1>1, CensusAssumption DEF Instant, CensusAssumption
<1>7. \A c \in Instant : Candidate(r, c) => c >= Least(C)
  BY <1>4, <1>5, <1>6
<1>8. Least(C) \in Instant /\ Least(C) \in HotRows /\ Least(C) >= r /\ Least(C) \notin abandoned
  BY <1>1, <1>4
<1> HIDE DEF C
<1> QED BY <1>2, <1>7, <1>8 DEF Waited, Drained, HotRows

\* Once waited for, always: candidates only leave, and new ones are later.
LEMMA WaitedStays ==
    ASSUME TypeOK, TypeOK', TablesInv, [Next]_vars, NEW r \in Instant, NEW d \in Instant, Waited(r, d)
    PROVE  Waited(r, d)'
<1>0. RowsDated /\ FanOutsEnd /\ TableMoves
  BY EveryTableStep DEF TablesInv
<1>1. kind'[d] = "dispatch" /\ d \in complete' /\ ~Draining(d)' /\ d \notin abandoned'
  BY <1>0 DEF TableMoves, Waited, FanOutsEnd
<1>2. ASSUME NEW c \in Instant, Candidate(r, c)' PROVE c >= d
  <2>1. c \in live' /\ kind'[c] = "dispatch" /\ c >= r /\ status'[c] = "fanned-out" /\ c \notin abandoned'
    BY <1>2 DEF Candidate, HotRows
  <2>2. CASE c \in live
    <3>1. kind[c] = "dispatch" BY <1>0, <2>1, <2>2 DEF TableMoves, RowsDated
    <3>2. Candidate(r, c) BY <1>0, <2>1, <2>2, <3>1 DEF TableMoves, Candidate, HotRows
    <3> QED BY <3>2 DEF Waited
  <2>3. CASE c \notin live
    <3>1. c = now + 1 BY <1>0, <2>1, <2>3 DEF TableMoves, Folds
    <3>2. d <= now BY <1>0 DEF Waited, RowsDated
    <3>3. now \in Nat /\ d \in Nat
      BY CensusAssumption DEF TypeOK, Instant, CensusAssumption
    <3> QED BY <3>1, <3>2, <3>3
  <2> QED BY <2>2, <2>3
<1> QED BY <1>1, <1>2 DEF Waited

\* A drained dispatch gets no further batch, and its batches keep their openings.
LEMMA BatchesStand ==
    ASSUME TypeOK, TypeOK', TablesInv, [Next]_vars, NEW d \in Instant,
           ~Draining(d), d \in live'
    PROVE  BatchesOf(d)' = BatchesOf(d) /\ \A h \in BatchesOf(d) : opened'[h] = opened[h]
<1>0. RowsDated /\ TableMoves /\ d # None
  BY EveryTableStep, BoundsInRange DEF TablesInv, None
<1>1. ASSUME NEW h \in BatchesOf(d) PROVE h \in BatchesOf(d)' /\ opened'[h] = opened[h]
  <2>1. h \in Instant /\ h \in live /\ kind[h] = "hot" /\ dispatchOf[h] = d
    BY DEF BatchesOf, TypeOK
  <2>2. h \in live' /\ kind'[h] = "hot" /\ dispatchOf'[h] = d /\ opened'[h] = opened[h]
    BY <1>0, <2>1 DEF TableMoves
  <2> QED BY <1>0, <2>2 DEF BatchesOf
<1>2. ASSUME NEW h \in BatchesOf(d)' PROVE h \in BatchesOf(d)
  <2>1. h \in Instant /\ h \in live' /\ kind'[h] = "hot" /\ dispatchOf'[h] = d
    BY <1>2 DEF BatchesOf, TypeOK
  <2>2. kind[h] = "hot" BY <1>0, <2>1 DEF TableMoves
  <2>3. h \in live /\ dispatchOf[h] = d BY <1>0, <2>1, <2>2 DEF TableMoves, RowsDated
  <2> QED BY <1>0, <2>2, <2>3 DEF BatchesOf
<1> QED BY <1>1, <1>2

\* WaitInv is inductive.
LEMMA WaitCorrect == Spec => []WaitInv
<1>1. Init => WaitInv
  BY DEF Init, WaitInv
<1>2. ASSUME TypeOK, TypeOK', TablesInv, WaitInv, [Next]_vars PROVE WaitInv'
  <2>0. \A e \in Listed : e.fold \in Instant /\ e.via \in 0..MaxInstant /\ (e.via # None => e.via \in Instant)
    BY CensusAssumption DEF Listed, None, Instant, CensusAssumption
  <2>1. ASSUME NEW e \in Listed, UpperIs(e) PROVE UpperIs(e)'
    <3>1. CASE e.via = None BY <2>1, <3>1 DEF UpperIs
    <3>2. CASE e.via # None
      <4>1. e.fold \in Instant /\ e.via \in Instant /\ Waited(e.fold, e.via)
        BY <2>0, <2>1, <3>2 DEF UpperIs
      <4>2. Waited(e.fold, e.via)' BY <1>2, <4>1, WaitedStays
      <4>3. ~Draining(e.via) BY <4>1 DEF Waited
      <4>4. ASSUME e.via \in live' PROVE e.via \in live /\ BatchesOf(e.via)' = BatchesOf(e.via)
        <5>1. RowsDated /\ TableMoves BY <1>2, EveryTableStep DEF TablesInv
        <5>2. e.via \in live
          <6>1. e.via <= now /\ kind[e.via] = "dispatch" BY <4>1, <5>1 DEF Waited, RowsDated
          <6>2. \A t \in Instant : t <= now => t # now + 1
            BY <1>2, CensusAssumption DEF TypeOK, Instant, CensusAssumption
          <6> QED BY <4>1, <4>4, <5>1, <6>1, <6>2 DEF TableMoves, Folds
        <5> QED BY <1>2, <4>1, <4>3, <4>4, <5>2, BatchesStand
      <4> QED BY <2>1, <3>2, <4>2, <4>4 DEF UpperIs
    <3> QED BY <3>1, <3>2
  <2>2. ASSUME NEW r \in Instant PROVE UpperIs(Row(r))
    <3> DEFINE d == DrainedAfter(r)
    <3>1. Row(r).fold = r /\ Row(r).via = d /\ Row(r).upper = Greatest(BatchesOf(d))
      BY DEF Row
    <3>2. CASE d = None
      <4>1. BatchesOf(d) = {} BY <3>2 DEF BatchesOf
      <4>2. Greatest({}) = None BY DEF Greatest
      <4> QED BY <3>1, <3>2, <4>1, <4>2 DEF UpperIs
    <3>3. CASE d # None
      <4>1. Waited(r, d) BY <1>2, <3>3, DrainedAfterWaited
      <4> QED BY <3>1, <3>3, <4>1 DEF UpperIs
    <3> QED BY <3>2, <3>3
  <2>3. ASSUME NEW p \in Poller, NEW e \in (toRelease[p] \cup toSettle[p])' PROVE UpperIs(e)'
    <3>1. e \in Listed BY <1>2 DEF TypeOK
    <3>2. CASE e \in toRelease[p] \cup toSettle[p]
      BY <1>2, <2>1, <3>1, <3>2 DEF WaitInv
    <3>3. CASE \E r \in live : e = Row(r)
      <4>1. PICK r \in Instant : e = Row(r) BY <1>2, <3>3 DEF TypeOK
      <4> QED BY <2>1, <2>2, <3>1, <4>1
    <3> QED BY <1>2, <3>2, <3>3, EveryListStep DEF Moves
  <2>4. ASSUME NEW r \in Instant, releasedBy'[r] # None PROVE Waited(r, releasedBy[r])'
    <3>1. CASE releasedBy'[r] = releasedBy[r]
      <4>1. PICK d \in Instant : d = releasedBy[r] /\ Waited(r, d)
        BY <1>2, <2>4, <3>1 DEF WaitInv, Waited
      <4>2. Waited(r, d)' BY <1>2, <4>1, WaitedStays
      <4> QED BY <3>1, <4>1, <4>2 DEF Waited, Candidate, HotRows, Draining
    <3>2. CASE \E p \in Poller : \E e \in toRelease[p] : e.fold = r /\ releasedBy'[r] = e.via
      <4>1. PICK e \in Listed : UpperIs(e) /\ e.fold = r /\ releasedBy'[r] = e.via
        BY <1>2, <3>2 DEF WaitInv, TypeOK
      <4>2. UpperIs(e)' BY <2>1, <4>1
      <4>3. Waited(r, e.via)' BY <2>4, <4>1, <4>2 DEF UpperIs
      <4> QED BY <4>1, <4>3 DEF Waited, Candidate, HotRows, Draining
    <3> QED
      BY <1>2, <2>4, <3>1, <3>2
      DEF Next, BeginFold, CommitFold, ClaimTick, SkipTick, HotTier, StreamJobs, FinishFanOut, HotFold,
          EndJob, Stop, Poll, ListReleasable, Release, FailRelease, ListSettleable, SettleOne,
          FailSettle, SweepRead, SweepDelete, Restart, ToggleHot, msgVars, vars, TypeOK
  <2>5. ASSUME NEW r \in Instant, settledBy'[r] # None PROVE Waited(r, settledBy[r])'
    <3>1. CASE settledBy'[r] = settledBy[r]
      <4>1. PICK d \in Instant : d = settledBy[r] /\ Waited(r, d)
        BY <1>2, <2>5, <3>1 DEF WaitInv, Waited
      <4>2. Waited(r, d)' BY <1>2, <4>1, WaitedStays
      <4> QED BY <3>1, <4>1, <4>2 DEF Waited, Candidate, HotRows, Draining
    <3>2. CASE \E p \in Poller : \E e \in toSettle[p] : e.fold = r /\ settledBy'[r] = e.via
      <4>1. PICK e \in Listed : UpperIs(e) /\ e.fold = r /\ settledBy'[r] = e.via
        BY <1>2, <3>2 DEF WaitInv, TypeOK
      <4>2. UpperIs(e)' BY <2>1, <4>1
      <4>3. Waited(r, e.via)' BY <2>5, <4>1, <4>2 DEF UpperIs
      <4> QED BY <4>1, <4>3 DEF Waited, Candidate, HotRows, Draining
    <3> QED
      BY <1>2, <2>5, <3>1, <3>2
      DEF Next, BeginFold, CommitFold, ClaimTick, SkipTick, HotTier, StreamJobs, FinishFanOut, HotFold,
          EndJob, Stop, Poll, ListReleasable, Release, FailRelease, ListSettleable, SettleOne,
          FailSettle, SweepRead, SweepDelete, Restart, ToggleHot, msgVars, vars, TypeOK
  <2> QED BY <2>3, <2>4, <2>5 DEF WaitInv
<1> QED BY <1>1, <1>2, CensusTypeCorrect, TablesCorrect, PTL DEF Spec

\* A dispatch waited for that is still there was there before the step.
LEMMA WaitedWasLive ==
    ASSUME TypeOK, TablesInv, [Next]_vars, NEW r, NEW d \in Instant, Waited(r, d), d \in live'
    PROVE  d \in live
<1>1. RowsDated /\ TableMoves BY EveryTableStep DEF TablesInv
<1>2. d <= now /\ kind[d] = "dispatch" BY <1>1 DEF Waited, RowsDated
<1>3. d # now + 1
  BY <1>2, CensusAssumption DEF TypeOK, Instant, CensusAssumption
<1> QED BY <1>1, <1>2, <1>3 DEF TableMoves, Folds

\* What a dispatch opened on a fold's ground is among what was opened since the fold.
LEMMA OpenedByIsSince ==
    ASSUME TypeOK, TablesInv, NEW r \in Instant, NEW d, NEW upper,
           upper = None \/ upper = Greatest(BatchesOf(d))
    PROVE  OpenedBy(d, r) \subseteq OpenedSince(r, upper)
<1> SUFFICES ASSUME NEW h \in BatchesOf(d), r \in opened[h] PROVE h \in OpenedSince(r, upper)
  BY DEF OpenedBy
<1>1. BatchesOf(d) \in SUBSET Instant /\ h \in Instant /\ h \in live
  BY DEF BatchesOf, TypeOK
<1>2. h >= r
  <2>1. r < h BY <1>1 DEF TablesInv, OpenedLater
  <2> QED BY <1>1, <2>1, CensusAssumption DEF Instant, CensusAssumption
<1>3. upper = None \/ h <= upper
  <2>1. Greatest(BatchesOf(d)) \in Instant /\ Greatest(BatchesOf(d)) >= h
    BY <1>1, GreatestIsLast
  <2> QED BY <1>1, <2>1, CensusAssumption DEF Instant, CensusAssumption
<1> QED BY <1>1, <1>2, <1>3 DEF OpenedSince

\* The census of a row released on a dispatch that is still there.
CensusHolds(r) ==
    LET d == releasedBy[r] IN
    (d # None /\ d \in live) =>
        /\ OpenedBy(d, r) \subseteq census[r]
        /\ BatchesOf(d) # {} => \A h \in census[r] : h <= Greatest(BatchesOf(d))

\* A released census is exactly its dispatch's (CensusIsItsDispatchs): the bound it
\* was listed with is still the bound when it is counted, and ever after.
THEOREM CensusCorrect == Spec => []CensusIsItsDispatchs
<1> DEFINE Inv == \A r \in Instant : CensusHolds(r)
<1>1. Init => Inv
  BY DEF Init, CensusHolds
<1>2. ASSUME TypeOK, TypeOK', TablesInv, WaitInv, Inv, [Next]_vars PROVE Inv'
  <2> SUFFICES ASSUME NEW r \in Instant, NEW d, d = releasedBy'[r], d # None, d \in live'
      PROVE /\ OpenedBy(d, r)' \subseteq census'[r]
            /\ BatchesOf(d)' # {} => \A h \in census'[r] : h <= Greatest(BatchesOf(d)')
    BY DEF CensusHolds, OpenedBy, BatchesOf, Greatest
  <2>1. CASE releasedBy'[r] = releasedBy[r] /\ census'[r] = census[r]
    <3>1. d \in Instant /\ Waited(r, d) BY <1>2, <2>1 DEF WaitInv, Waited
    <3>2. d \in live BY <1>2, <3>1, WaitedWasLive
    <3>3. BatchesOf(d)' = BatchesOf(d) /\ \A h \in BatchesOf(d) : opened'[h] = opened[h]
      BY <1>2, <3>1, BatchesStand DEF Waited
    <3>4. OpenedBy(d, r)' = OpenedBy(d, r) BY <3>3 DEF OpenedBy
    <3>5. CensusHolds(r) BY <1>2
    <3> QED BY <2>1, <3>2, <3>3, <3>4, <3>5 DEF CensusHolds
  <2>2. ASSUME NEW e \in Listed, UpperIs(e), e.fold = r, d = e.via,
               census'[r] = OpenedSince(r, e.upper),
               UNCHANGED <<live, kind, dispatchOf, opened>>
        PROVE  /\ OpenedBy(d, r)' \subseteq census'[r]
               /\ BatchesOf(d)' # {} => \A h \in census'[r] : h <= Greatest(BatchesOf(d)')
    <3>1. e.upper = Greatest(BatchesOf(d)) BY <2>2 DEF UpperIs
    <3>2. BatchesOf(d)' = BatchesOf(d) BY <2>2 DEF BatchesOf
    <3>3. OpenedBy(d, r)' = OpenedBy(d, r) BY <2>2, <3>2 DEF OpenedBy
    <3>4. OpenedBy(d, r) \subseteq OpenedSince(r, e.upper)
      BY <1>2, <3>1, OpenedByIsSince
    <3>5. ASSUME BatchesOf(d) # {} PROVE \A h \in OpenedSince(r, e.upper) : h <= e.upper
      <4>1. BatchesOf(d) \in SUBSET Instant BY <1>2 DEF BatchesOf, TypeOK
      <4>2. Greatest(BatchesOf(d)) \in Instant BY <3>5, <4>1, GreatestIsLast
      <4>3. e.upper # None BY <3>1, <4>2, BoundsInRange DEF None
      <4> QED BY <4>3 DEF OpenedSince
    <3> QED BY <2>2, <3>1, <3>2, <3>3, <3>4, <3>5
  <2>3. ASSUME NEW p \in Poller, Release(p)
        PROVE  \/ releasedBy'[r] = releasedBy[r] /\ census'[r] = census[r]
               \/ \E e \in toRelease[p] : e.fold = r /\ releasedBy'[r] = e.via
                    /\ census'[r] = OpenedSince(r, e.upper)
                    /\ UNCHANGED <<live, kind, dispatchOf, opened>>
    BY <1>2, <2>3 DEF Release, TypeOK, batchVars
  <2>4. ASSUME NEW p \in Poller, Release(p)
        PROVE  /\ OpenedBy(d, r)' \subseteq census'[r]
               /\ BatchesOf(d)' # {} => \A h \in census'[r] : h <= Greatest(BatchesOf(d)')
    <3>1. \A e \in toRelease[p] : e \in Listed /\ UpperIs(e) BY <1>2 DEF WaitInv, TypeOK
    <3> QED BY <2>1, <2>2, <2>3, <2>4, <3>1
  <2>5. (\E p \in Poller : Release(p)) \/ (releasedBy' = releasedBy /\ census' = census)
    BY <1>2
    DEF Next, BeginFold, CommitFold, ClaimTick, SkipTick, HotTier, StreamJobs, FinishFanOut, HotFold,
        EndJob, Stop, Poll, ListReleasable, FailRelease, ListSettleable, SettleOne,
        FailSettle, SweepRead, SweepDelete, Restart, ToggleHot, msgVars, vars
  <2> QED BY <2>1, <2>4, <2>5
<1>3. ASSUME TypeOK, Inv PROVE CensusIsItsDispatchs
  BY <1>3 DEF CensusIsItsDispatchs, CensusHolds, Moves, TypeOK
<1> QED BY <1>1, <1>2, <1>3, CensusTypeCorrect, TablesCorrect, WaitCorrect, PTL DEF Spec

\* What the settle of a fold leaves to the root's census, and what it names itself.
NamedHolds(r) ==
    LET d == settledBy[r] IN
    (d # None /\ d \in live) =>
        \/ OpenedBy(d, r) \subseteq residue[r]
        \/ msg[r] = "held"
        \/ msg[r] = "released" /\ (releasedBy[r] = None => OpenedBy(d, r) \subseteq census[r])

\* Nothing the dispatch waited for opened goes unnamed (NothingUnnamed): either the
\* settle names it, or the census that was still held when the settle passed it over.
THEOREM NothingUnnamedCorrect == Spec => []NothingUnnamed
<1> DEFINE Inv == \A r \in Instant : NamedHolds(r)
<1> DEFINE FoldInv == \A r \in Instant : settledBy[r] # None => r \in live /\ kind[r] \in Folds
<1>1. Init => Inv /\ FoldInv
  BY DEF Init, NamedHolds
<1>2. ASSUME TypeOK, TablesInv, FoldInv, [Next]_vars PROVE FoldInv'
  <2>0. TableMoves /\ ListedHeld BY <1>2, EveryTableStep DEF TablesInv
  <2> SUFFICES ASSUME NEW r \in Instant, settledBy'[r] # None
      PROVE r \in live' /\ kind'[r] \in Folds
    OBVIOUS
  <2>1. ASSUME r \in live, kind[r] \in Folds PROVE r \in live' /\ kind'[r] \in Folds
    BY <2>0, <2>1 DEF TableMoves, Folds
  <2>2. ASSUME NEW p \in Poller, SettleOne(p) PROVE r \in live /\ kind[r] \in Folds
    <3>1. PICK e \in toSettle[p] : settledBy' = [settledBy EXCEPT ![e.fold] =
                    IF e.fold \notin settled THEN e.via ELSE @]
      BY <2>2 DEF SettleOne
    <3>2. CASE e.fold = r BY <2>0, <3>2 DEF ListedHeld
    <3>3. CASE e.fold # r BY <1>2, <3>1, <3>3 DEF TypeOK
    <3> QED BY <3>2, <3>3
  <2>3. CASE UNCHANGED settledBy BY <1>2, <2>1, <2>3
  <2> HIDE DEF FoldInv
  <2> QED
    BY <1>2, <2>1, <2>2, <2>3
    DEF Next, BeginFold, CommitFold, ClaimTick, SkipTick, HotTier, StreamJobs, FinishFanOut, HotFold,
        EndJob, Stop, Poll, ListReleasable, Release, FailRelease, ListSettleable,
        FailSettle, SweepRead, SweepDelete, Restart, ToggleHot, msgVars, vars
<1>3. ASSUME TypeOK, TypeOK', TablesInv, WaitInv, FoldInv, Inv, [Next]_vars PROVE Inv'
  <2> SUFFICES ASSUME NEW r \in Instant, NEW d, d = settledBy'[r], d # None, d \in live'
      PROVE \/ OpenedBy(d, r)' \subseteq residue'[r]
            \/ msg'[r] = "held"
            \/ msg'[r] = "released" /\ (releasedBy'[r] = None => OpenedBy(d, r)' \subseteq census'[r])
    BY DEF NamedHolds, OpenedBy, BatchesOf
  <2> DEFINE Goal == \/ OpenedBy(d, r)' \subseteq residue'[r]
                     \/ msg'[r] = "held"
                     \/ msg'[r] = "released" /\ (releasedBy'[r] = None => OpenedBy(d, r)' \subseteq census'[r])
  <2>1. ASSUME settledBy'[r] = settledBy[r]
        PROVE  /\ d \in Instant /\ d \in live /\ NamedHolds(r)
               /\ OpenedBy(d, r)' = OpenedBy(d, r)
    <3>1. d \in Instant /\ Waited(r, d) BY <1>3, <2>1 DEF WaitInv, Waited
    <3>2. d \in live BY <1>3, <3>1, WaitedWasLive
    <3>3. BatchesOf(d)' = BatchesOf(d) /\ \A h \in BatchesOf(d) : opened'[h] = opened[h]
      BY <1>3, <3>1, BatchesStand DEF Waited
    <3>4. OpenedBy(d, r)' = OpenedBy(d, r) BY <3>3 DEF OpenedBy
    <3> QED BY <1>3, <3>1, <3>2, <3>4
  <2>2. ASSUME NEW p \in Poller, Release(p) PROVE Goal
    <3>0. settledBy' = settledBy /\ residue' = residue /\ UNCHANGED <<live, kind, dispatchOf, opened>>
      BY <2>2 DEF Release, batchVars
    <3>1. PICK e \in toRelease[p] :
            /\ msg' = [msg EXCEPT ![e.fold] = "released"]
            /\ census' = [census EXCEPT ![e.fold] =
                    IF TakesRow(e.fold) THEN OpenedSince(e.fold, e.upper) ELSE @]
            /\ releasedBy' = [releasedBy EXCEPT ![e.fold] = IF TakesRow(e.fold) THEN e.via ELSE @]
      BY <2>2 DEF Release
    <3>2. e \in Listed /\ UpperIs(e) BY <1>3 DEF WaitInv, TypeOK
    <3>3. CASE e.fold = r /\ msg[r] = "held"
      <4>1. msg'[r] = "released" /\ releasedBy'[r] = e.via /\ census'[r] = OpenedSince(r, e.upper)
        BY <1>3, <3>1, <3>3 DEF TakesRow, TypeOK
      <4>2. ASSUME e.via = None PROVE OpenedBy(d, r)' \subseteq census'[r]
        <5>1. e.upper = None BY <3>2, <4>2 DEF UpperIs
        <5>2. OpenedBy(d, r) \subseteq OpenedSince(r, e.upper) BY <1>3, <5>1, OpenedByIsSince
        <5> QED BY <2>1, <3>0, <4>1, <5>2
      <4> QED BY <4>1, <4>2
    <3>4. CASE ~(e.fold = r /\ msg[r] = "held")
      <4>1. releasedBy'[r] = releasedBy[r] /\ census'[r] = census[r]
        BY <1>3, <3>1, <3>4 DEF TakesRow, TypeOK
      <4>2. msg[r] = "held" => msg'[r] = "held" BY <1>3, <3>1, <3>4 DEF TypeOK
      <4>3. msg[r] = "released" => msg'[r] = "released" BY <1>3, <3>1 DEF TypeOK
      <4> QED BY <2>1, <3>0, <4>1, <4>2, <4>3 DEF NamedHolds
    <3> QED BY <3>3, <3>4
  <2>3. ASSUME NEW p \in Poller, SettleOne(p) PROVE Goal
    <3>0. UNCHANGED <<live, kind, dispatchOf, opened, msg, census, releasedBy>>
      BY <2>3 DEF SettleOne
    <3>1. PICK e \in toSettle[p] :
            /\ residue' = [residue EXCEPT ![e.fold] =
                    IF e.fold \notin settled /\ ~RootNamed(e.fold)
                    THEN OpenedSince(e.fold, None) ELSE @]
            /\ settledBy' = [settledBy EXCEPT ![e.fold] =
                    IF e.fold \notin settled THEN e.via ELSE @]
      BY <2>3 DEF SettleOne
    <3>2. CASE e.fold = r /\ e.fold \notin settled /\ ~RootNamed(r)
      <4>1. residue'[r] = OpenedSince(r, None) BY <1>3, <3>1, <3>2 DEF TypeOK
      <4>2. OpenedBy(d, r) \subseteq OpenedSince(r, None) BY <1>3, OpenedByIsSince
      <4>3. OpenedBy(d, r)' = OpenedBy(d, r) BY <3>0 DEF OpenedBy, BatchesOf
      <4> QED BY <4>1, <4>2, <4>3
    <3>3. CASE e.fold = r /\ e.fold \notin settled /\ RootNamed(r)
      BY <3>0, <3>3 DEF RootNamed, HeldItsCensus
    <3>4. CASE e.fold # r \/ e.fold \in settled
      <4>1. residue'[r] = residue[r] /\ settledBy'[r] = settledBy[r] BY <1>3, <3>1, <3>4 DEF TypeOK
      <4> QED BY <2>1, <3>0, <4>1 DEF NamedHolds
    <3> QED BY <3>2, <3>3, <3>4
  <2>4. CASE UNCHANGED <<settledBy, residue, releasedBy, census>>
             /\ (UNCHANGED msg \/ \E t \in Instant : CommitFold(t))
    <3>1. r \in live BY <1>3, <2>4
    <3>2. msg'[r] = msg[r] BY <1>3, <2>4, <3>1 DEF CommitFold, TypeOK
    <3> QED BY <2>1, <2>4, <3>2 DEF NamedHolds
  <2>5. \/ \E p \in Poller : Release(p)
        \/ \E p \in Poller : SettleOne(p)
        \/ /\ UNCHANGED <<settledBy, residue, releasedBy, census>>
           /\ UNCHANGED msg \/ \E t \in Instant : CommitFold(t)
    <3> HIDE DEF Inv, FoldInv
    <3>1. ASSUME NEW t \in Instant, CommitFold(t)
          PROVE  UNCHANGED <<settledBy, residue, releasedBy, census>>
      BY <3>1 DEF CommitFold
    <3> QED
      BY <1>3, <3>1
      DEF Next, BeginFold, ClaimTick, SkipTick, HotTier, StreamJobs, FinishFanOut, HotFold,
          EndJob, Stop, Poll, ListReleasable, FailRelease, ListSettleable,
          FailSettle, SweepRead, SweepDelete, Restart, ToggleHot, msgVars, vars
  <2> QED BY <2>2, <2>3, <2>4, <2>5
<1>4. ASSUME TypeOK, WaitInv, CensusIsItsDispatchs, Inv PROVE NothingUnnamed
  <2> SUFFICES ASSUME NEW r \in Moves, msg[r] # "held", Stands(settledBy[r]),
                      releasedBy[r] # None => Stands(releasedBy[r])
               PROVE  OpenedBy(settledBy[r], r) \subseteq census[r] \cup residue[r]
    BY DEF NothingUnnamed
  <2>1. r \in Instant /\ settledBy[r] \in live /\ settledBy[r] # None
    BY <1>4, BoundsInRange DEF Moves, Stands, HotRows, TypeOK, None
  <2>2. \/ OpenedBy(settledBy[r], r) \subseteq residue[r]
        \/ releasedBy[r] = None => OpenedBy(settledBy[r], r) \subseteq census[r]
    BY <1>4, <2>1 DEF NamedHolds
  <2>3. ASSUME releasedBy[r] # None PROVE releasedBy[r] = settledBy[r]
    <3>1. Waited(r, releasedBy[r]) /\ Waited(r, settledBy[r]) BY <1>4, <2>1, <2>3 DEF WaitInv
    <3>2. Candidate(r, releasedBy[r]) /\ Candidate(r, settledBy[r])
      BY <2>3, <3>1 DEF Waited, Candidate, Stands
    <3>3. releasedBy[r] >= settledBy[r] /\ settledBy[r] >= releasedBy[r]
          /\ releasedBy[r] \in Instant /\ settledBy[r] \in Instant
      BY <3>1, <3>2 DEF Waited
    <3> QED BY <3>3, CensusAssumption DEF Instant, CensusAssumption
  <2>4. ASSUME releasedBy[r] # None PROVE OpenedBy(settledBy[r], r) \subseteq census[r]
    BY <1>4, <2>1, <2>3, <2>4 DEF CensusIsItsDispatchs
  <2> QED BY <2>2, <2>4
<1> QED
  BY <1>1, <1>2, <1>3, <1>4, CensusTypeCorrect, TablesCorrect, WaitCorrect, CensusCorrect, PTL
  DEF Spec

-----------------------------------------------------------------------------
(***************************************************************************)
(* The retention sweep.  Its two statements leave room for everything else *)
(* to happen between what it decided to spare and what it deletes.         *)
(***************************************************************************)
\* Dispatch d, or one before it that a held row may still be released on, is kept.
Kept(r, d) ==
    \/ d \in sweep.keep
    \/ \E e \in sweep.keep :
         e \in HotRows /\ e >= r /\ e < d /\ e \notin abandoned /\ e \in complete

SweepInv ==
    sweep.on =>
        /\ sweep.before \in Instant /\ sweep.before <= now
        /\ \A t \in Instant : t < sweep.before => (kind[t] \in Folds => t \in live) /\ t \notin streaming
        /\ \A r, d \in Instant :
             (msg[r] = "held" /\ Candidate(r, d) /\ d \in complete /\ d < sweep.before) => Kept(r, d)

\* SweepInv is inductive: before the cutoff nothing commits, nothing completes.
LEMMA SweepCorrect == Spec => []SweepInv
<1>1. Init => SweepInv
  BY DEF Init, SweepInv, NoSweep
<1>0. \A t \in Instant : t \in Nat
  BY CensusAssumption DEF Instant, CensusAssumption
<1>2. ASSUME TypeOK, TypeOK', TablesInv, SweepInv, [Next]_vars PROVE SweepInv'
  <2>0. RowsDated /\ FanOutsEnd /\ TableMoves /\ MsgMoves /\ now \in Nat
    BY <1>2, EveryTableStep, EveryMsgStep, CensusAssumption DEF TablesInv, TypeOK, CensusAssumption
  <2>1. CASE SweepRead
    <3>1. PICK before \in live :
            /\ Closed(before)
            /\ sweep' = [on |-> TRUE, before |-> before, keep |-> StillRead(before)]
      BY <2>1 DEF SweepRead
    <3>2. UNCHANGED <<now, kind, live, queueVars, batchVars, msgVars>> BY <2>1 DEF SweepRead
    <3>3. before \in Instant /\ before <= now BY <1>2, <2>0 DEF RowsDated, TypeOK
    <3>4. \A t \in Instant : t < before => (kind[t] \in Folds => t \in live) /\ t \notin streaming
      BY <1>0, <3>1, <3>3 DEF Closed, Instant
    <3>5. ASSUME NEW r \in Instant, NEW d \in Instant,
                 msg[r] = "held", Candidate(r, d), d \in complete, d < before
          PROVE  \/ d \in StillRead(before)
                 \/ \E e \in StillRead(before) :
                      e \in HotRows /\ e >= r /\ e < d /\ e \notin abandoned /\ e \in complete
      <4> DEFINE C == {c \in HotRows :
              c >= r /\ status[c] = "fanned-out" /\ c \notin abandoned /\ c \in complete}
      <4>1. C \in SUBSET Instant /\ d \in C BY <1>2, <3>5 DEF Candidate, HotRows, TypeOK
      <4>2. Least(C) \in C /\ Least(C) <= d BY <4>1, LeastIsFirst
      <4>3. FirstComplete(r) = Least(C) BY DEF FirstComplete
      <4>4. r \in Pending /\ r < before
        <5>1. r \in live BY <2>0, <3>5 DEF RowsDated
        <5>2. d >= r BY <3>5 DEF Candidate
        <5> QED BY <1>0, <3>3, <3>5, <5>1, <5>2 DEF Pending
      <4>5. Least(C) # None BY <4>1, <4>2, BoundsInRange DEF None
      <4>6. Least(C) \in StillRead(before) BY <4>3, <4>4, <4>5 DEF StillRead
      <4>7. Least(C) \in HotRows /\ Least(C) >= r /\ Least(C) \notin abandoned /\ Least(C) \in complete
        BY <4>2
      <4>8. Least(C) \in Instant BY <4>1, <4>2
      <4> HIDE DEF C
      <4>9. Least(C) = d \/ Least(C) < d BY <1>0, <4>2, <4>8
      <4> QED BY <4>6, <4>7, <4>9
    <3>6. sweep'.before = before /\ sweep'.keep = StillRead(before) /\ sweep'.on
      BY <3>1
    <3> QED
      BY <3>2, <3>3, <3>4, <3>5, <3>6
      DEF SweepInv, Kept, Candidate, HotRows, queueVars, batchVars, msgVars
  <2>2. CASE SweepDelete \/ Restart
    BY <2>2 DEF SweepDelete, Restart, NoSweep, SweepInv
  <2>3. CASE sweep' = sweep /\ live \subseteq live'
    <3> SUFFICES ASSUME sweep.on PROVE
           /\ sweep.before \in Instant /\ sweep.before <= now'
           /\ \A t \in Instant : t < sweep.before => (kind'[t] \in Folds => t \in live') /\ t \notin streaming'
           /\ \A r, d \in Instant :
                (msg'[r] = "held" /\ Candidate(r, d)' /\ d \in complete' /\ d < sweep.before) => Kept(r, d)'
      BY <2>3 DEF SweepInv, Kept
    <3>1. sweep.before \in Instant /\ sweep.before <= now BY <1>2 DEF SweepInv
    <3>2. \A t \in Instant : t < sweep.before => t <= now /\ t # now + 1
      BY <1>0, <2>0, <3>1
    <3>3. ASSUME NEW t \in Instant, t < sweep.before
          PROVE  (kind'[t] \in Folds => t \in live') /\ t \notin streaming'
      <4>1. (kind[t] \in Folds => t \in live) /\ t \notin streaming BY <1>2, <3>3 DEF SweepInv
      <4> QED BY <2>0, <2>3, <3>2, <3>3, <4>1 DEF TableMoves
    <3>4. ASSUME NEW r \in Instant, NEW d \in Instant,
                 msg'[r] = "held", Candidate(r, d)', d \in complete', d < sweep.before
          PROVE  Kept(r, d)'
      <4>1. d \in live' /\ kind'[d] = "dispatch" /\ d >= r /\ status'[d] = "fanned-out" /\ d \notin abandoned'
        BY <3>4 DEF Candidate, HotRows
      <4>2. kind[d] = "dispatch" BY <2>0, <3>2, <3>4, <4>1 DEF TableMoves
      <4>3. d \in live BY <2>0, <3>2, <3>4, <4>1, <4>2 DEF TableMoves, Folds
      <4>4. Candidate(r, d) BY <2>0, <4>1, <4>2, <4>3 DEF TableMoves, Candidate, HotRows
      <4>5. d \in complete
        BY <1>2, <2>0, <3>4 DEF TableMoves, SweepInv
      <4>6. msg[r] = "held"
        <5>1. r < sweep.before BY <1>0, <3>1, <3>4, <4>1
        <5>2. kind[r] \in Folds => r \in live BY <1>2, <5>1 DEF SweepInv
        <5> QED BY <2>0, <3>4, <5>2 DEF MsgMoves
      <4>7. Kept(r, d) BY <1>2, <3>4, <4>4, <4>5, <4>6 DEF SweepInv
      <4>8. ASSUME NEW e \in sweep.keep, e \in HotRows, e \notin abandoned, e \in complete
            PROVE  e \in HotRows' /\ e \notin abandoned' /\ e \in complete'
        <5>1. e \in Instant /\ e \in live /\ kind[e] = "dispatch" BY <1>2, <4>8 DEF HotRows, TypeOK
        <5> QED BY <2>0, <2>3, <4>8, <5>1 DEF TableMoves, HotRows
      <4> QED BY <2>3, <4>7, <4>8 DEF Kept
    <3> QED BY <2>0, <3>1, <3>3, <3>4, <1>0 DEF TableMoves
  <2>4. SweepRead \/ SweepDelete \/ Restart \/ (sweep' = sweep /\ live \subseteq live')
    BY <1>2
    DEF Next, BeginFold, CommitFold, ClaimTick, SkipTick, HotTier, StreamJobs, FinishFanOut, HotFold,
        EndJob, Stop, Poll, ListReleasable, Release, FailRelease, ListSettleable, SettleOne,
        FailSettle, ToggleHot, vars
  <2> QED BY <2>1, <2>2, <2>3, <2>4
<1> QED BY <1>1, <1>2, CensusTypeCorrect, TablesCorrect, PTL DEF Spec

\* A sweep spares every dispatch a held row could be released on
\* (SweepSparesRelease), whatever drained, completed or was abandoned between its
\* two statements; only an operator's stop in between can take one away.
THEOREM SweepSparesCorrect == Spec => SweepSparesRelease
<1>0. \A t \in Instant : t \in Nat
  BY CensusAssumption DEF Instant, CensusAssumption
<1>1. ASSUME TypeOK, TypeOK', TablesInv, SweepInv, SweepDelete, NEW r \in Instant, Releasable(r),
             ~\E d \in sweep.keep : status[d] # "fanned-out"
      PROVE  Releasable(r)'
  <2>0. UNCHANGED <<now, kind, status, complete, abandoned, jobs, msg, reaperOn, hotEnabled>>
        /\ live' = live \ Expired /\ sweep.on
    BY <1>1 DEF SweepDelete, msgVars, knobVars
  <2>1. msg'[r] = "held" BY <1>1, <2>0 DEF Releasable
  <2>2. CASE ~reaperOn \/ ~hotEnabled
    BY <2>0, <2>1, <2>2 DEF Releasable
  <2>3. CASE DrainedAfter(r) # None
    <3>0. PICK d \in Instant : d = DrainedAfter(r) BY <1>1, <2>3, DrainedAfterWaited DEF Waited, TypeOK
    <3>1. Waited(r, d) /\ d \in live BY <1>1, <2>3, <3>0, DrainedAfterWaited
    <3>2. status[d] = "fanned-out"
      <4> DEFINE C == {c \in HotRows : c >= r /\ status[c] = "fanned-out" /\ c \notin abandoned}
      <4>1. C \in SUBSET Instant BY <1>1 DEF HotRows, TypeOK
      <4>2. d = Least(C) /\ Least(C) # None BY <2>3, <3>0 DEF DrainedAfter, FirstHot
      <4>3. C # {} BY <4>2 DEF Least
      <4> QED BY <4>1, <4>2, <4>3, LeastIsFirst
    <3>3. Candidate(r, d) /\ d \in complete /\ d \in Instant
      BY <3>1, <3>2 DEF Waited, Candidate, HotRows
    <3>4. d \in live'
      <4> SUFFICES ASSUME d \in Expired PROVE FALSE BY <2>0, <3>1
      <4>1. d < sweep.before /\ d \notin sweep.keep BY DEF Expired
      <4>2. Kept(r, d) BY <1>1, <2>0, <2>1, <3>3, <4>1 DEF SweepInv
      <4>3. PICK e \in sweep.keep :
              e \in HotRows /\ e >= r /\ e < d /\ e \notin abandoned /\ e \in complete
        BY <4>1, <4>2 DEF Kept
      <4>4. e \in Instant /\ Candidate(r, e) BY <1>1, <4>3 DEF Candidate, HotRows, TypeOK
      <4>5. e >= d BY <3>1, <4>4 DEF Waited
      <4> QED BY <1>0, <3>3, <4>3, <4>4, <4>5
    <3>5. DrainedAfter(r)' # None
      <4> DEFINE D == {c \in HotRows : c >= r /\ status[c] = "fanned-out" /\ c \notin abandoned}'
      <4>1. D \in SUBSET Instant BY <1>1 DEF HotRows, TypeOK
      <4>2. d \in D BY <2>0, <3>3, <3>4 DEF Candidate, HotRows
      <4>3. Least(D) \in D /\ Least(D) <= d BY <4>1, <4>2, LeastIsFirst
      <4>4. \A c \in D : c >= d
        <5> SUFFICES ASSUME NEW c \in D PROVE c >= d OBVIOUS
        <5>1. c \in Instant /\ Candidate(r, c) BY <2>0, <4>1 DEF Candidate, HotRows
        <5> QED BY <3>1, <5>1 DEF Waited
      <4>5. Least(D) = d
        <5>1. Least(D) >= d /\ Least(D) \in Instant BY <4>1, <4>3, <4>4
        <5> HIDE DEF D
        <5> QED BY <1>0, <3>3, <4>3, <5>1
      <4>6. FirstHot(r)' = Least(D) BY DEF FirstHot
      <4>9. FirstHot(r)' = d BY <4>5, <4>6
      <4> HIDE DEF D
      <4>7. Drained(d)' BY <2>0, <3>1 DEF Waited, Drained, Draining
      <4>8. d # None BY <3>3, BoundsInRange DEF None
      <4> QED BY <4>7, <4>8, <4>9 DEF DrainedAfter, Drained, Draining
    <3> QED BY <2>1, <3>5 DEF Releasable
  <2> QED BY <1>1, <2>2, <2>3 DEF Releasable
<1>2. ASSUME TypeOK, TypeOK', TablesInv, SweepInv, [Next]_vars
      PROVE  [SweepDelete =>
                \/ \A r \in Instant : Releasable(r) => Releasable(r)'
                \/ \E d \in sweep.keep : status[d] # "fanned-out"]_vars
  BY <1>1, <1>2
<1> QED BY <1>2, CensusTypeCorrect, TablesCorrect, SweepCorrect, PTL DEF Spec, SweepSparesRelease

-----------------------------------------------------------------------------
(* Cadences and floors.                                                    *)

\* A set of numbers has a least, and it is its Min.
LEMMA LeastCadence ==
    ASSUME NEW S \in SUBSET Nat, S # {}
    PROVE  Min(S) \in S /\ \A c \in S : Min(S) <= c
BY LeastNumber DEF Min

\* Nothing else is least.
LEMMA LeastIsMin ==
    ASSUME NEW S \in SUBSET Nat, NEW c \in S, \A x \in S : c <= x
    PROVE  Min(S) = c
<1>1. Min(S) \in S /\ Min(S) <= c
  BY LeastCadence
<1>2. Min(S) \in Nat /\ c \in Nat /\ c <= Min(S)
  BY <1>1
<1> QED
  BY <1>1, <1>2

\* The greater of two numbers.
LEMMA GreaterOfTwo ==
    ASSUME NEW d \in Nat, NEW f \in Nat
    PROVE  Max({d, f}) = IF d < f THEN f ELSE d
<1> DEFINE m == IF d < f THEN f ELSE d
<1>1. m \in {d, f} /\ \A y \in {d, f} : m >= y
  OBVIOUS
<1>2. \A x \in {d, f} : (\A y \in {d, f} : x >= y) => x = m
  OBVIOUS
<1> QED
  BY <1>1, <1>2 DEF Max

\* The cadences of a bound are the bound over k (ObservationFloorDays).
LEMMA BoundOverFloor ==
    ASSUME NEW k \in Nat \ {0}, NEW c \in Nat, NEW b \in Nat, b = k * c
    PROVE  b \div k = c
  BY SMTT(30)

\* A scan's cadence is a number, and a row's scan is one of the scans.
LEMMA ACadence ==
    ASSUME RetentionTypeOK
    PROVE  /\ \A s \in Enabled : cadence[s] \in Nat
           /\ \A r \in observations : r.scan \in Enabled /\ r.line \in Timeline /\ r.at \in Nat
           /\ \A r \in observations : cadence[r.scan] \in Nat
<1>1. \A s \in Enabled : cadence[s] \in Nat
  <2>1. CadenceOf \cup {0} \subseteq Nat
    BY RetentionAssumption
  <2>2. cadence \in [Enabled -> CadenceOf \cup {0}]
    BY DEF RetentionTypeOK
  <2> QED
    BY <2>1, <2>2
<1>2. \A r \in observations : r.scan \in Enabled /\ r.line \in Timeline /\ r.at \in Nat
  <2>1. \A r \in observations : r \in [line : Timeline, scan : Enabled, at : Nat]
    BY DEF RetentionTypeOK
  <2> QED
    BY <2>1
<1> QED
  BY <1>1, <1>2

\* A covered line's tightest cadence is a number above zero, and the rule in Go
\* and the statement read the same (RetainObservation, DeleteExpiredObservations).
LEMMA TightestIsCover ==
    ASSUME RetentionTypeOK, NEW l \in Timeline
    PROVE  /\ CoverOf(l) = {} => Tightest(l) = 0
           /\ CoverOf(l) # {} => /\ Tightest(l) = Min(CoverOf(l))
                                 /\ Min(CoverOf(l)) \in Nat \ {0}
<1>1. ASSUME NEW r \in observations PROVE cadence[r.scan] \in Nat
  BY ACadence
<1>2. {cadence[r.scan] : r \in {x \in observations : x.line = l}} \ {0} = CoverOf(l)
  BY <1>1 DEF CoverOf, CoverRows
<1>3. CoverOf(l) \in SUBSET (Nat \ {0})
  BY <1>1 DEF CoverOf, CoverRows
<1>4. CoverOf(l) # {} => Min(CoverOf(l)) \in CoverOf(l)
  BY <1>3, LeastCadence
<1> QED
  BY <1>2, <1>3, <1>4 DEF Tightest

-----------------------------------------------------------------------------
(* The panel's floor and the statement's.                                  *)

\* The cadences of the scans that cover a row.
CoveringCadences == {cadence[s] : s \in ListCoveringScanKinds}

LEMMA CoveringAreNumbers ==
    ASSUME RetentionTypeOK
    PROVE  /\ CoveringCadences \in SUBSET (Nat \ {0})
           /\ CoveringCadences # {} =>
                /\ Min(CoveringCadences) \in CoveringCadences
                /\ Min(CoveringCadences) \in Nat \ {0}
                /\ \A c \in CoveringCadences : Min(CoveringCadences) <= c
<1>1. CoveringCadences \in SUBSET (Nat \ {0})
  BY ACadence DEF CoveringCadences, ListCoveringScanKinds
<1>2. CoveringCadences \in SUBSET Nat
  BY <1>1
<1> QED
  BY <1>1, <1>2, LeastCadence

\* The scan the panel names has the least cadence of the covering scans (pickScan).
LEMMA PanelFloor ==
    ASSUME RetentionTypeOK
    PROVE  /\ CoveringCadences = {} => ObservationFloor.secs = 0
           /\ CoveringCadences # {} => ObservationFloor.secs = FloorCadences * Min(CoveringCadences)
<1> DEFINE cands == {s \in ListCoveringScanKinds : cadence[s] > 0}
           best == {s \in cands : \A o \in cands : ~(cadence[o] < cadence[s])}
           named == CHOOSE s \in best : TRUE
<1>1. ObservationFloor = IF best = {} THEN Unbounded
                         ELSE [kind |-> named, secs |-> FloorCadences * cadence[named]]
  BY DEF ObservationFloor, pickScan
<1>2. cands = ListCoveringScanKinds /\ \A s \in cands : cadence[s] \in Nat
  BY ACadence DEF ListCoveringScanKinds
<1>3. CoveringCadences = {cadence[s] : s \in cands}
  BY <1>2 DEF CoveringCadences
<1> HIDE DEF cands
<1>4. CASE CoveringCadences = {}
  <2>1. best = {}
    BY <1>3, <1>4
  <2>2. ObservationFloor = Unbounded
    BY <1>1, <2>1
  <2>3. Unbounded.secs = 0
    BY DEF Unbounded
  <2> QED
    BY <1>4, <2>2, <2>3
<1>5. CASE CoveringCadences # {}
  <2>1. PICK s \in cands : cadence[s] = Min(CoveringCadences)
    BY <1>3, <1>5, CoveringAreNumbers
  <2>2. \A o \in cands : cadence[s] <= cadence[o]
    BY <1>3, <1>5, <2>1, CoveringAreNumbers
  <2>3. s \in best
    BY <1>2, <2>1, <2>2
  <2>4. named \in best
    BY <2>3
  <2>5. cadence[named] <= cadence[s] /\ cadence[s] <= cadence[named]
    BY <1>2, <2>1, <2>2, <2>4
  <2>6. cadence[named] = Min(CoveringCadences)
    BY <1>2, <2>1, <2>4, <2>5
  <2> HIDE DEF named, best
  <2> QED
    BY <1>1, <1>5, <2>3, <2>6
<1> QED
  BY <1>4, <1>5

\* The days a bound of seconds is rounded up to.
LEMMA DaysOfSeconds ==
    ASSUME NEW a \in Nat
    PROVE  (a + SecondsPerDay - 1) \div SecondsPerDay \in Nat
<1> DEFINE b == a + SecondsPerDay - 1
<1>1. b \in Nat /\ SecondsPerDay \in Nat \ {0}
  BY RetentionAssumption
<1> HIDE DEF b
<1>2. b \div SecondsPerDay \in Nat
  BY <1>1, SMTT(30)
<1> QED
  BY <1>2 DEF b

\* The statement's floor is the panel's, and it stores the greater of the two
\* (UpdateCoverageRetentionSettings, FloorDays).
LEMMA StatementFloor ==
    ASSUME RetentionTypeOK, NEW d \in Nat
    PROVE  /\ FloorDays(ObservationFloor) \in Nat
           /\ FloorDays(ObservationFloor) =
                IF CoveringCadences = {} THEN 0
                ELSE ObservationFloorDays(Min(CoveringCadences))
           /\ UpdateCoverageRetentionSettings(d) =
                IF d = 0 THEN 0
                ELSE IF d < FloorDays(ObservationFloor) THEN FloorDays(ObservationFloor) ELSE d
<1> DEFINE floor == IF CoveringCadences = {} THEN 0
                    ELSE (FloorCadences * Min(CoveringCadences) + SecondsPerDay - 1) \div SecondsPerDay
           b == FloorCadences * Min(CoveringCadences)
<1>1. CoveringCadences # {} => Min(CoveringCadences) \in Nat \ {0}
  BY CoveringAreNumbers
<1>2. CoveringCadences # {} => b \in Nat /\ b > 0
  <2>1. FloorCadences \in Nat \ {0}
    BY RetentionAssumption
  <2> QED
    BY <1>1, <2>1, SMTT(30)
<1>3. FloorDays(ObservationFloor) = floor
  <2>1. CASE CoveringCadences = {}
    <3>1. ObservationFloor.secs = 0
      BY <2>1, PanelFloor
    <3> QED
      BY <2>1, <3>1 DEF FloorDays, Bounded
  <2>2. CASE CoveringCadences # {}
    <3>1. ObservationFloor.secs = b
      BY <2>2, PanelFloor
    <3>2. ObservationFloor.secs > 0
      BY <1>2, <2>2, <3>1
    <3> QED
      BY <2>2, <3>1, <3>2 DEF FloorDays, Bounded
  <2> QED
    BY <2>1, <2>2
<1>4. floor \in Nat
  <2>1. CASE CoveringCadences = {}
    BY <2>1
  <2>2. CASE CoveringCadences # {}
    BY <1>2, <2>2, DaysOfSeconds
  <2> QED
    BY <2>1, <2>2
<1>5. CoveringCadences # {} => ObservationFloorDays(Min(CoveringCadences)) = floor
  BY <1>1 DEF ObservationFloorDays
<1>6. UpdateCoverageRetentionSettings(d) = IF d <= 0 THEN d ELSE IF d < floor THEN floor ELSE d
  BY DEF UpdateCoverageRetentionSettings, CoveringCadences
<1> HIDE DEF floor
<1>7. UpdateCoverageRetentionSettings(d) = IF d = 0 THEN 0 ELSE IF d < floor THEN floor ELSE d
  BY <1>4, <1>6
<1>8. CoveringCadences = {} => floor = 0
  BY DEF floor
<1> QED
  BY <1>3, <1>4, <1>5, <1>7, <1>8

-----------------------------------------------------------------------------
(* Types.                                                                  *)

\* Rows, dials and cadences keep their types, and a sweep is never dated after
\* the clock it read.
LEMMA RetentionTypeCorrect == RetentionSpec => []RetentionTypeOK
<1>1. RetentionInit => RetentionTypeOK
  BY RetentionAssumption DEF RetentionInit, RetentionTypeOK
<1>2. RetentionTypeOK /\ [RetentionNext]_retentionVars => RetentionTypeOK'
  <2> SUFFICES ASSUME RetentionTypeOK, [RetentionNext]_retentionVars PROVE RetentionTypeOK'
    OBVIOUS
  <2> USE RetentionAssumption DEF RetentionTypeOK
  <2>1. CASE Hour
    <3>1. hour' \in Nat /\ \A n \in 0..hour : n \in 0..hour'
      BY <2>1 DEF Hour
    <3>2. purge \in [dial : Nat, asOf : 0..hour] => purge \in [dial : Nat, asOf : 0..hour']
      BY <3>1
    <3> QED
      BY <2>1, <3>1, <3>2 DEF Hour
  <2>2. ASSUME NEW l \in Timeline, CloseTimeline(l) PROVE RetentionTypeOK'
    BY <2>2 DEF CloseTimeline
  <2>3. ASSUME NEW l \in Timeline, NEW s \in Enabled, StoreObservation(l, s) PROVE RetentionTypeOK'
    <3>1. [line |-> l, scan |-> s, at |-> hour] \in [line : Timeline, scan : Enabled, at : Nat]
      OBVIOUS
    <3>2. /\ observations' = observations \cup {[line |-> l, scan |-> s, at |-> hour]}
          /\ scripts' = scripts \cup {hour} /\ shut' = shut \ {l}
          /\ UNCHANGED <<hour, cadence, currency, purge>>
      BY <2>3 DEF StoreObservation
    <3>3. observations' \subseteq [line : Timeline, scan : Enabled, at : Nat]
      BY <3>1, <3>2
    <3> QED
      BY <3>2, <3>3
  <2>4. ASSUME NEW s \in Enabled, NEW c \in CadenceOf \cup {0}, SetScan(s, c) PROVE RetentionTypeOK'
    BY <2>4 DEF SetScan
  <2>5. ASSUME NEW d \in DialDays, SetCurrency(d) PROVE RetentionTypeOK'
    <3>1. UpdateCoverageRetentionSettings(d) \in Nat
      BY RetentionAssumption, StatementFloor
    <3> QED
      BY <2>5, <3>1 DEF SetCurrency
  <2>6. ASSUME NEW d \in DialDays, SweepTranscripts(d) PROVE RetentionTypeOK'
    BY <2>6 DEF SweepTranscripts
  <2>7. CASE SweepReadsDial
    <3>1. currency * SecondsPerDay \in Nat /\ hour \in 0..hour
      OBVIOUS
    <3> QED
      BY <2>7, <3>1 DEF SweepReadsDial
  <2>8. CASE SweepDeletes
    BY <2>8 DEF SweepDeletes
  <2>9. CASE UNCHANGED retentionVars
    BY <2>9 DEF retentionVars
  <2> QED
    BY <2>1, <2>2, <2>3, <2>4, <2>5, <2>6, <2>7, <2>8, <2>9 DEF RetentionNext
<1> QED
  BY <1>1, <1>2, PTL DEF RetentionSpec

-----------------------------------------------------------------------------
(* One rule.                                                               *)

\* A bound is there where a cadence is (ObservationBoundSeconds).
LEMMA BoundFields ==
    ASSUME NEW r
    PROVE  /\ BoundOf(r).has <=> Tightest(r.line) > 0
           /\ BoundOf(r).secs = FloorCadences * Tightest(r.line)
<1> DEFINE t == Tightest(r.line)
           has == t > 0
           secs == FloorCadences * t
<1>1. BoundOf(r) = [has |-> has, secs |-> secs]
  BY DEF BoundOf, ObservationBoundSeconds
<1>2. has \in BOOLEAN
  OBVIOUS
<1> HIDE DEF has, secs
<1>3. BoundOf(r).has = has /\ BoundOf(r).secs = secs
  BY <1>1
<1> QED
  BY <1>2, <1>3 DEF has, secs

\* What the statement deletes, the rule in Go would not retain, at the instant
\* the sweep read or at any later one.
LEMMA DeletedIsNotRetained ==
    ASSUME RetentionTypeOK, purge # NoPurge,
           NEW r \in DeleteExpiredObservations(purge.dial, purge.asOf)
    PROVE  /\ ~RetainObservation(Age(r, hour), BoundOf(r), purge.dial, r.line \in shut)
           /\ r \in LiveOnly(hour) => r.line \in shut
<1>1. r \in observations /\ r.line \in Timeline /\ r.at \in Nat
  BY ACadence DEF DeleteExpiredObservations
<1>2. purge.dial \in Nat /\ purge.asOf \in Nat /\ hour \in Nat /\ purge.asOf <= hour
  BY DEF RetentionTypeOK
<1>3. /\ purge.dial > 0 /\ purge.asOf - r.at > purge.dial
      /\ \/ r.line \in shut
         \/ CoverOf(r.line) # {} /\ purge.asOf - r.at > FloorCadences * Min(CoverOf(r.line))
  BY DEF DeleteExpiredObservations, Withdrawn
<1>4. Age(r, hour) \in Int /\ Age(r, hour) >= purge.asOf - r.at /\ Age(r, hour) > purge.dial
  BY <1>1, <1>2, <1>3 DEF Age
<1>5. CASE r.line \in shut
  <2>1. ~RetainObservation(Age(r, hour), BoundOf(r), purge.dial, r.line \in shut)
    BY <1>2, <1>3, <1>4, <1>5 DEF RetainObservation
  <2> QED
    BY <1>5, <2>1
<1>6. CASE r.line \notin shut
  <2> DEFINE secs == FloorCadences * Tightest(r.line)
  <2>1. /\ CoverOf(r.line) # {} /\ Tightest(r.line) = Min(CoverOf(r.line))
        /\ Tightest(r.line) \in Nat \ {0}
    BY <1>1, <1>3, <1>6, TightestIsCover
  <2>2. secs \in Nat
    <3>1. FloorCadences \in Nat
      BY RetentionAssumption
    <3> QED
      BY <2>1, <3>1
  <2>3. purge.asOf - r.at > secs
    BY <1>3, <1>6, <2>1
  <2>4. BoundOf(r).has /\ BoundOf(r).secs = secs
    BY <2>1, BoundFields
  <2> HIDE DEF secs
  <2>5. ~(Age(r, hour) <= BoundOf(r).secs)
    BY <1>1, <1>2, <1>4, <2>2, <2>3, <2>4
  <2>6. ~RetainObservation(Age(r, hour), BoundOf(r), purge.dial, r.line \in shut)
    BY <1>2, <1>6, <1>3, <1>4, <2>4, <2>5 DEF RetainObservation
  <2>7. r \notin LiveOnly(hour)
    BY <2>5 DEF LiveOnly, TierOf
  <2> QED
    BY <1>6, <2>6, <2>7
<1> QED
  BY <1>5, <1>6

\* The gate a derivation reads through is the live tier of the rule in Go
\* (ListLiveObservationsForDerivation, LiveOnly).
LEMMA GateIsTheTier ==
    ASSUME RetentionTypeOK
    PROVE  ListLiveObservationsForDerivation(hour) = LiveOnly(hour)
<1>1. ASSUME NEW r \in observations
      PROVE  (CoverOf(r.line) # {} /\ hour - r.at <= FloorCadences * Min(CoverOf(r.line)))
                <=> TierOf(Age(r, hour), BoundOf(r)) = "live"
  <2>1. r.line \in Timeline
    BY ACadence
  <2>2. CASE CoverOf(r.line) = {}
    <3>1. Tightest(r.line) = 0
      BY <2>1, <2>2, TightestIsCover
    <3>2. ~BoundOf(r).has
      BY <3>1, BoundFields
    <3> QED
      BY <2>2, <3>2 DEF TierOf
  <2>3. CASE CoverOf(r.line) # {}
    <3>1. Tightest(r.line) = Min(CoverOf(r.line)) /\ Tightest(r.line) \in Nat \ {0}
      BY <2>1, <2>3, TightestIsCover
    <3>2. BoundOf(r).has /\ BoundOf(r).secs = FloorCadences * Min(CoverOf(r.line))
      BY <3>1, BoundFields
    <3> QED
      BY <2>3, <3>2 DEF TierOf, Age
  <2> QED
    BY <2>2, <2>3
<1> QED
  BY <1>1 DEF ListLiveObservationsForDerivation, LiveOnly

\* A pair the panel shows as never retired has no row the statement deletes
\* unless its subject is withdrawn (pairViews).
LEMMA NeverRetired ==
    ASSUME NEW p \in pairViews, ~p.covered, NEW asOf,
           NEW r \in DeleteExpiredObservations(1, asOf), r.line = p.line, RetentionTypeOK
    PROVE  p.line \in shut
<1>1. PICK f \in ListFacetSourceFloors : p = [line |-> f.line, covered |-> f.tightest > 0, held |-> f.held]
  BY DEF pairViews
<1> DEFINE least(l) == IF CoverOf(l) = {} THEN 0 ELSE Min(CoverOf(l))
           held(l) == Cardinality({x \in observations : x.line = l})
           uncovered(l) == Cardinality({x \in observations : x.line = l /\ cadence[x.scan] = 0})
           pair(l) == [line |-> l, tightest |-> least(l), held |-> held(l), uncovered |-> uncovered(l)]
<1>2. PICK l \in {x.line : x \in observations} : f.line = l /\ f.tightest = least(l)
  <2>1. ListFacetSourceFloors = {pair(l) : l \in {x.line : x \in observations}}
    BY DEF ListFacetSourceFloors
  <2> HIDE DEF least, held, uncovered
  <2>2. \A l : pair(l).line = l /\ pair(l).tightest = least(l)
    OBVIOUS
  <2> HIDE DEF pair
  <2> QED
    BY <2>1, <2>2
<1>3. p.line = l /\ ~(f.tightest > 0)
  <2>1. p.line = f.line /\ p.covered = (f.tightest > 0)
    BY <1>1
  <2> QED
    BY <1>2, <2>1
<1>4. r.line \in Timeline
  BY ACadence DEF DeleteExpiredObservations
<1>5. CoverOf(r.line) = {}
  BY <1>2, <1>3, <1>4, TightestIsCover
<1> QED
  BY <1>5 DEF DeleteExpiredObservations, Withdrawn

\* Each rule written twice is one rule.
LEMMA TwinsAreOne ==
    ASSUME RetentionTypeOK
    PROVE  TwinsAgree
<1> DEFINE floor == FloorDays(ObservationFloor)
<1>1. floor \in Nat
  <2>1. 0 \in Nat
    OBVIOUS
  <2> QED
    BY <2>1, StatementFloor
<1>2. \A d \in Nat : UpdateCoverageRetentionSettings(d) = IF d = 0 THEN 0 ELSE IF d < floor THEN floor ELSE d
  BY StatementFloor
<1>3. floor = ObservationFloorDays(ObservationFloor.secs \div FloorCadences)
  <2>1. FloorCadences \in Nat \ {0} /\ 0 \in Nat
    BY RetentionAssumption
  <2>2. CASE CoveringCadences = {}
    <3>1. ObservationFloor.secs = 0 /\ 0 = FloorCadences * 0
      BY <2>1, <2>2, PanelFloor
    <3>2. ObservationFloor.secs \div FloorCadences = 0
      BY <2>1, <3>1, BoundOverFloor
    <3>3. ObservationFloorDays(0) = 0
      BY DEF ObservationFloorDays
    <3> QED
      BY <2>1, <2>2, <3>2, <3>3, StatementFloor
  <2>3. CASE CoveringCadences # {}
    <3> DEFINE c == Min(CoveringCadences)
               b == FloorCadences * c
    <3>1. c \in Nat
      BY <2>3, CoveringAreNumbers
    <3>2. b \in Nat /\ ObservationFloor.secs = b
      BY <2>1, <2>3, <3>1, PanelFloor
    <3>3. b = FloorCadences * c
      OBVIOUS
    <3> HIDE DEF b
    <3>4. b \div FloorCadences = c
      BY <2>1, <3>1, <3>2, <3>3, BoundOverFloor
    <3>5. floor = ObservationFloorDays(c)
      BY <2>1, <2>3, StatementFloor
    <3> QED
      BY <3>2, <3>4, <3>5
  <2> QED
    BY <2>2, <2>3
<1> HIDE DEF floor
<1>4. \A d \in buildDial : UpdateCoverageRetentionSettings(d) = d
  <2>1. \A d \in buildDial : d = 0 \/ (d \in Nat /\ d >= floor)
    BY <1>1, RetentionAssumption DEF buildDial, DialStops, floor
  <2> QED
    BY <1>1, <1>2, <2>1
<1>5. \A d \in DialDays \ {0} : UpdateCoverageRetentionSettings(d) = Max({d, floor})
  <2> TAKE d \in DialDays \ {0}
  <2>1. d \in Nat /\ d # 0
    BY RetentionAssumption
  <2>2. Max({d, floor}) = IF d < floor THEN floor ELSE d
    BY <1>1, <2>1, GreaterOfTwo
  <2> QED
    BY <1>2, <2>1, <2>2
<1>6. \A p \in pairViews : ~p.covered =>
         \A asOf \in 0..hour : \A r \in DeleteExpiredObservations(1, asOf) : r.line = p.line => p.line \in shut
  BY NeverRetired
<1> QED
  BY <1>3, <1>4, <1>5, <1>6, GateIsTheTier DEF TwinsAgree, floor

\* Rows leave by the one rule: whatever was measured, withdrawn or re-timed
\* after the sweep read its dial, what the statement deletes the rule in Go
\* would not keep, and the gate, the floor and the panel's stops each agree
\* with their twin in SQL.
THEOREM RetiresByOneRuleCorrect == RetentionSpec => RetiresByOneRule
<1>1. RetentionTypeOK => TwinsAgree
  BY TwinsAreOne
<1>2. RetentionTypeOK /\ [RetentionNext]_retentionVars =>
        [\A r \in observations \ observations' :
           /\ ~RetainObservation(Age(r, hour), BoundOf(r), purge.dial, r.line \in shut)
           /\ r \in LiveOnly(hour) => r.line \in shut]_retentionVars
  <2> SUFFICES ASSUME RetentionTypeOK, [RetentionNext]_retentionVars, NEW r \in observations \ observations'
               PROVE  /\ ~RetainObservation(Age(r, hour), BoundOf(r), purge.dial, r.line \in shut)
                      /\ r \in LiveOnly(hour) => r.line \in shut
    OBVIOUS
  <2>1. SweepDeletes
    BY DEF RetentionNext, retentionVars, Hour, CloseTimeline, StoreObservation, SetScan, SetCurrency,
           SweepTranscripts, SweepReadsDial
  <2>2. purge # NoPurge /\ r \in DeleteExpiredObservations(purge.dial, purge.asOf)
    BY <2>1 DEF SweepDeletes
  <2> QED
    BY <2>2, DeletedIsNotRetained
<1>3. RetentionSpec => []RetentionTypeOK
  BY RetentionTypeCorrect
<1> QED
  BY <1>1, <1>2, <1>3, PTL DEF RetentionSpec, RetiresByOneRule, RetiredByRule
==============================================================================
