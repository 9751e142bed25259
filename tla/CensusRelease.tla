---------------------------- MODULE CensusRelease ----------------------------
(***************************************************************************)
(* The two messages a resolution move owes.  A dns fold that enters new    *)
(* ground writes a membership message and holds its census; the hot tier   *)
(* then opens the endpoints beneath it; the dispatcher's minute poll       *)
(* releases the census and settles the move's residue once the first hot   *)
(* dispatch after the fold has drained.  The retention sweep retires old   *)
(* dispatches under the poll's feet.                                       *)
(*                                                                         *)
(* Rows of `batch` and `dispatch` are named by the instant their           *)
(* transaction began (created_at defaults to now()), so created_at order   *)
(* and batch id order are the order of the naturals.  The hot queue is     *)
(* abstract: ScanQueue shows that a dispatch marked complete whose jobs    *)
(* are terminal gets no further job (DrainedIsFinal).                      *)
(***************************************************************************)
EXTENDS Naturals, FiniteSets

CONSTANTS
    MaxInstant,    \* bound: transactions that insert a batch or a dispatch
    MaxFolds,      \* bound: how many of them are dns folds
    MaxTicks,      \* bound: how many of them are hot ticks
    MaxJobs,       \* bound: jobs of one hot dispatch
    Poller,        \* processes that run Dispatcher.Run
    Sweeps,        \* the Dispatch retention dial is set
    KnobsMove      \* the operator reconfigures while rows are held

ASSUME CensusAssumption ==
    /\ MaxInstant \in Nat \ {0}
    /\ MaxFolds \in Nat
    /\ MaxTicks \in Nat
    /\ MaxJobs \in Nat \ {0}
    /\ Sweeps \in BOOLEAN
    /\ KnobsMove \in BOOLEAN

Instant == 1..MaxInstant

None == 0                          \* no dispatch, no bound

Folds     == {"root", "move"}     \* a dns batch, with or without an Address root
RowKinds  == {"none", "root", "move", "hot", "dispatch"}
Statuses  == {"fanned-out", "skipped", "stopped"}
MsgStates == {"none", "held", "released", "written"}

VARIABLES
    now,         \* the last instant a transaction began at
    kind,        \* what the transaction of an instant inserts
    live,        \* the committed rows
    \* the dispatch table and the hot queue
    status, complete, abandoned,
    phase,       \* how far a dispatch's fan-out got
    streaming,   \* fan-outs whose process is alive
    jobs,        \* ready or running jobs of a dispatch
    saw,         \* the folds whose ground a dispatch's estate read returned
    \* the batch and span tables
    dispatchOf,  \* batch.dispatch_id
    opened,      \* the folds whose ground a hot batch opened an endpoint beneath
    settled,     \* batches with repoint_settled_at
    \* the message table
    msg, census, residue,
    routed,      \* times a delivery was enqueued for the fold's root message
    releasedBy,  \* history: the drained dispatch a census was released on
    settledBy,   \* history: the drained dispatch a fold was settled on
    \* configuration, and the poll and sweep processes
    reaperOn, hotEnabled,
    pass,        \* which half of its tick a poller is in
    toRelease,   \* the rows a poller's pass listed and has yet to take
    toSettle,
    sweep        \* the cutoff and the ids the retention sweep will spare

queueVars == <<status, complete, abandoned, phase, streaming, jobs, saw>>
batchVars == <<dispatchOf, opened, settled>>
msgVars   == <<msg, census, residue, routed, releasedBy, settledBy>>
knobVars  == <<reaperOn, hotEnabled>>
pollVars  == <<pass, toRelease, toSettle>>
vars == <<now, kind, live, queueVars, batchVars, msgVars, knobVars, pollVars, sweep>>

NoSweep == [on |-> FALSE, before |-> 0, keep |-> {}]

Phases == {"none", "claimed", "chunked"}
Passes == {"releasing", "settling"}

\* A listed row: the fold, the drained dispatch, and census_upper_batch.
Listed == [fold : Instant, via : 0..MaxInstant, upper : 0..MaxInstant]

TypeOK ==
    /\ now \in 0..MaxInstant
    /\ kind \in [Instant -> RowKinds]
    /\ live \in SUBSET Instant
    /\ status \in [Instant -> Statuses]
    /\ complete \in SUBSET Instant
    /\ abandoned \in SUBSET Instant
    /\ phase \in [Instant -> Phases]
    /\ streaming \in SUBSET Instant
    /\ jobs \in [Instant -> 0..MaxJobs]
    /\ saw \in [Instant -> SUBSET Instant]
    /\ dispatchOf \in [Instant -> 0..MaxInstant]
    /\ opened \in [Instant -> SUBSET Instant]
    /\ settled \in SUBSET Instant
    /\ msg \in [Instant -> MsgStates]
    /\ census \in [Instant -> SUBSET Instant]
    /\ residue \in [Instant -> SUBSET Instant]
    /\ routed \in [Instant -> Nat]
    /\ releasedBy \in [Instant -> 0..MaxInstant]
    /\ settledBy \in [Instant -> 0..MaxInstant]
    /\ reaperOn \in BOOLEAN
    /\ hotEnabled \in BOOLEAN
    /\ pass \in [Poller -> Passes]
    /\ toRelease \in [Poller -> SUBSET Listed]
    /\ toSettle \in [Poller -> SUBSET Listed]
    /\ sweep \in [on : BOOLEAN, before : 0..MaxInstant, keep : SUBSET Instant]

Init ==
    /\ now = 0
    /\ kind = [t \in Instant |-> "none"]
    /\ live = {}
    /\ status = [t \in Instant |-> "fanned-out"]
    /\ complete = {}
    /\ abandoned = {}
    /\ phase = [t \in Instant |-> "none"]
    /\ streaming = {}
    /\ jobs = [t \in Instant |-> 0]
    /\ saw = [t \in Instant |-> {}]
    /\ dispatchOf = [t \in Instant |-> None]
    /\ opened = [t \in Instant |-> {}]
    /\ settled = {}
    /\ msg = [t \in Instant |-> "none"]
    /\ census = [t \in Instant |-> {}]
    /\ residue = [t \in Instant |-> {}]
    /\ routed = [t \in Instant |-> 0]
    /\ releasedBy = [t \in Instant |-> None]
    /\ settledBy = [t \in Instant |-> None]
    /\ reaperOn \in BOOLEAN
    /\ hotEnabled = TRUE
    /\ pass = [p \in Poller |-> "settling"]
    /\ toRelease = [p \in Poller |-> {}]
    /\ toSettle = [p \in Poller |-> {}]
    /\ sweep = NoSweep

-----------------------------------------------------------------------------
Moves     == {t \in live : kind[t] \in Folds}
HotRows   == {t \in live : kind[t] = "dispatch"}
BatchesOf(d) == {b \in live : kind[b] = "hot" /\ d # None /\ dispatchOf[b] = d}

Started(K) == Cardinality({t \in Instant : kind[t] \in K})

\* A transaction that inserts a batch or a dispatch row of kind k begins.  The
\* history starts with a fold: no earlier dispatch can release it or bound it.
Begin(k) ==
    /\ now < MaxInstant
    /\ now = 0 => k \in Folds
    /\ k \in Folds => Started(Folds) < MaxFolds
    /\ k = "dispatch" => Started({"dispatch"}) < MaxTicks
    /\ now' = now + 1
    /\ kind' = [kind EXCEPT ![now + 1] = k]

(***************************************************************************)
(* The dns fold.  InsertBatch runs at the top of the transaction and the   *)
(* spans and messages commit at its end.                                   *)
(***************************************************************************)
BeginFold(k) ==
    /\ Begin(k)
    /\ UNCHANGED <<live, queueVars, batchVars, msgVars, knobVars, pollVars, sweep>>

\* produceMessages: an Address root is held while a reaper runs (membershipRoot),
\* else its census is written at the cause, over a fold that opens no endpoint.
CommitFold(r) ==
    /\ kind[r] \in Folds
    /\ r \notin live
    /\ live' = live \cup {r}
    /\ msg' = [msg EXCEPT ![r] =
            IF kind[r] = "move" THEN "none" ELSE IF reaperOn THEN "held" ELSE "written"]
    /\ routed' = [routed EXCEPT ![r] = IF kind[r] = "root" /\ ~reaperOn THEN 1 ELSE 0]
    /\ UNCHANGED <<now, kind, queueVars, batchVars, census, residue, releasedBy, settledBy,
                   knobVars, pollVars, sweep>>

(***************************************************************************)
(* The hot tier.                                                           *)
(***************************************************************************)

Draining(d) == jobs[d] > 0

\* claimDispatch: the gate, where armed, refuses to overtake a dispatch; the claim
\* retires the fan-outs that never finished.
ClaimTick ==
    /\ hotEnabled
    /\ reaperOn => \A e \in Instant : ~Draining(e)
    /\ Begin("dispatch")
    /\ live' = live \cup {now + 1}
    /\ phase' = [phase EXCEPT ![now + 1] = "claimed"]
    /\ abandoned' = abandoned \cup
            {e \in HotRows : status[e] = "fanned-out" /\ e \notin complete /\ ~Draining(e)}
    /\ streaming' = streaming \cup {now + 1}
    /\ UNCHANGED <<status, complete, jobs, saw,
                   batchVars, msgVars, knobVars, pollVars, sweep>>

\* gateHotTick records the overtaking tick skipped.
SkipTick ==
    /\ hotEnabled
    /\ reaperOn
    /\ \E e \in Instant : Draining(e)
    /\ Begin("dispatch")
    /\ live' = live \cup {now + 1}
    /\ status' = [status EXCEPT ![now + 1] = "skipped"]
    /\ UNCHANGED <<complete, abandoned, phase, streaming, jobs, saw,
                   batchVars, msgVars, knobVars, pollVars, sweep>>

\* fanOutHot reads the estate the committed folds describe and enqueues jobs.
StreamJobs(d) ==
    /\ d \in streaming
    /\ phase[d] = "claimed"
    /\ phase' = [phase EXCEPT ![d] = "chunked"]
    /\ saw' = [saw EXCEPT ![d] = Moves]
    /\ \E n \in 1..MaxJobs : jobs' = [jobs EXCEPT ![d] = n]
    /\ UNCHANGED <<now, kind, live, status, complete, abandoned, streaming,
                   batchVars, msgVars, knobVars, pollVars, sweep>>

\* The last chunk, empty or not, carries MarkFanOutComplete.
FinishFanOut(d) ==
    /\ d \in streaming
    /\ streaming' = streaming \ {d}
    /\ complete' = complete \cup {d}
    /\ UNCHANGED <<now, kind, live, status, abandoned, phase, jobs, saw,
                   batchVars, msgVars, knobVars, pollVars, sweep>>

\* A job of d completes: its hot batch opens endpoints on ground d's estate named.
\* The batch of a job whose dispatch was swept carries no dispatch.
HotFold(d) ==
    /\ Draining(d)
    /\ Begin("hot")
    /\ live' = live \cup {now + 1}
    /\ jobs' = [jobs EXCEPT ![d] = @ - 1]
    /\ dispatchOf' = [dispatchOf EXCEPT ![now + 1] = IF d \in live THEN d ELSE None]
    /\ \E R \in SUBSET saw[d] : opened' = [opened EXCEPT ![now + 1] = R]
    /\ UNCHANGED <<status, complete, abandoned, phase, streaming, saw, settled,
                   msgVars, knobVars, pollVars, sweep>>

\* A job of d ends with no opening: dead, cancelled, or reaped out of its budget.
EndJob(d) ==
    /\ Draining(d)
    /\ jobs' = [jobs EXCEPT ![d] = @ - 1]
    /\ UNCHANGED <<now, kind, live, status, complete, abandoned, phase, streaming, saw,
                   batchVars, msgVars, knobVars, pollVars, sweep>>

\* stopScan, terminateScan: the disposition of a dispatch that had jobs.
Stop(d) ==
    /\ d \in HotRows
    /\ phase[d] = "chunked"
    /\ status[d] = "fanned-out"
    /\ status' = [status EXCEPT ![d] = "stopped"]
    /\ UNCHANGED <<now, kind, live, complete, abandoned, phase, streaming, jobs, saw,
                   batchVars, msgVars, knobVars, pollVars, sweep>>

-----------------------------------------------------------------------------
(***************************************************************************)
(* Dispatcher.tick's second and third parts: releaseDue, then settleDue.   *)
(***************************************************************************)
Least(S) == IF S = {} THEN None ELSE CHOOSE t \in S : \A u \in S : t <= u

Greatest(S) == IF S = {} THEN None ELSE CHOOSE t \in S : \A u \in S : t >= u

\* first_hot: the first dispatch at or after a batch that fanned out and stands.
FirstHot(b) ==
    Least({d \in HotRows : d >= b /\ status[d] = "fanned-out" /\ d \notin abandoned})

\* Variant for mutation: a job count alone, taken while the fan-out still streams.
Drained_JobsOnly(d) == ~Draining(d)

Drained(d) == d \in complete /\ ~Draining(d)

\* The lateral `drained`: the dispatch that both releases the row and bounds it.
DrainedAfter(b) ==
    IF FirstHot(b) # None /\ Drained(FirstHot(b)) THEN FirstHot(b) ELSE None

\* ListReleasableHeldMessages.
Releasable(r) ==
    /\ msg[r] = "held"
    /\ ~reaperOn \/ ~hotEnabled \/ DrainedAfter(r) # None

\* ListSettleableRePointBatches: no reaper excuses the drain test alone.
Settleable(b) ==
    /\ b \in live \ settled
    /\ kind[b] \in {"root", "move", "hot"}
    /\ \/ ~hotEnabled
       \/ /\ FirstHot(b) # None
          /\ FirstHot(b) \in complete
          /\ ~reaperOn \/ ~Draining(FirstHot(b))

Row(b) ==
    [fold |-> b, via |-> DrainedAfter(b), upper |-> Greatest(BatchesOf(DrainedAfter(b)))]

ListReleasable(p) ==
    /\ pass[p] = "settling"
    /\ toSettle[p] = {}
    /\ pass' = [pass EXCEPT ![p] = "releasing"]
    /\ toRelease' = [toRelease EXCEPT ![p] = {Row(r) : r \in {t \in live : Releasable(t)}}]
    /\ UNCHANGED <<now, kind, live, queueVars, batchVars, msgVars, knobVars, toSettle, sweep>>

\* ListSubjectsOpenedSinceBatch, over the ground of fold r.
OpenedSince(r, upper) ==
    {h \in live : h >= r /\ r \in opened[h] /\ (upper = None \/ h <= upper)}

\* Variant for mutation: a release that does not ask whether it took the row.
TakesRow_Always(r) == r \in live

TakesRow(r) == msg[r] = "held"

\* releaseHeldMessage: the guarded update is the claim, and the claim routes.
Release(p) ==
    \E e \in toRelease[p] :
        LET took == TakesRow(e.fold) IN
        /\ toRelease' = [toRelease EXCEPT ![p] = @ \ {e}]
        /\ msg' = [msg EXCEPT ![e.fold] = "released"]
        /\ census' = [census EXCEPT ![e.fold] =
                IF took THEN OpenedSince(e.fold, e.upper) ELSE @]
        /\ routed' = [routed EXCEPT ![e.fold] = IF took THEN @ + 1 ELSE @]
        /\ releasedBy' = [releasedBy EXCEPT ![e.fold] = IF took THEN e.via ELSE @]
        /\ UNCHANGED <<now, kind, live, queueVars, batchVars, residue, settledBy,
                       knobVars, pass, toSettle, sweep>>

\* One row's transaction fails: the pass logs and goes on to the next.
FailRelease(p) ==
    \E e \in toRelease[p] :
        /\ toRelease' = [toRelease EXCEPT ![p] = @ \ {e}]
        /\ UNCHANGED <<now, kind, live, queueVars, batchVars, msgVars, knobVars,
                       pass, toSettle, sweep>>

\* settleRePoints: the folds with a move are listed, the rest settle at once.
ListSettleable(p) ==
    LET due == {b \in live : Settleable(b)} IN
    /\ pass[p] = "releasing"
    /\ toRelease[p] = {}
    /\ pass' = [pass EXCEPT ![p] = "settling"]
    /\ toSettle' = [toSettle EXCEPT ![p] = {Row(b) : b \in due \cap Moves}]
    /\ settled' = settled \cup (due \ Moves)
    /\ UNCHANGED <<now, kind, live, queueVars, dispatchOf, opened, msgVars, knobVars,
                   toRelease, sweep>>

\* Variant for mutation: the knob of the settling process instead of the row.
HeldItsCensus_ReadsKnob(r) == reaperOn

\* BatchHeldItsRootCensus.
HeldItsCensus(r) == msg[r] = "held"

\* rootCover.covers over a hot endpoint: an Address root names it unless its census
\* was written at the cause.
RootNamed(r) == kind[r] = "root" /\ HeldItsCensus(r)

\* settleRePointFold: claim, read the hold, read what opened, fire the residue.
SettleOne(p) ==
    \E e \in toSettle[p] :
        LET took == e.fold \notin settled IN
        /\ toSettle' = [toSettle EXCEPT ![p] = @ \ {e}]
        /\ settled' = settled \cup {e.fold}
        /\ residue' = [residue EXCEPT ![e.fold] =
                IF took /\ ~RootNamed(e.fold) THEN OpenedSince(e.fold, None) ELSE @]
        /\ settledBy' = [settledBy EXCEPT ![e.fold] = IF took THEN e.via ELSE @]
        /\ UNCHANGED <<now, kind, live, queueVars, dispatchOf, opened, msg, census,
                       routed, releasedBy, knobVars, pass, toRelease, sweep>>

FailSettle(p) ==
    \E e \in toSettle[p] :
        /\ toSettle' = [toSettle EXCEPT ![p] = @ \ {e}]
        /\ UNCHANGED <<now, kind, live, queueVars, batchVars, msgVars, knobVars,
                       pass, toRelease, sweep>>

-----------------------------------------------------------------------------
(***************************************************************************)
(* retention.Retirer.Sweep: two statements, with the poll between them.    *)
(***************************************************************************)
FirstComplete(b) ==
    Least({d \in HotRows :
        d >= b /\ status[d] = "fanned-out" /\ d \notin abandoned /\ d \in complete})

\* The batches a pending release or settle still orders a dispatch against.
Pending == {b \in live : msg[b] = "held" \/ (kind[b] # "dispatch" /\ b \notin settled)}

\* Variant for mutation: the wall clock alone.
StillRead_Nothing(before) == {}

\* ListDispatchesAPendingReleaseMayRead: picked and reachable.
StillRead(before) ==
    (UNION {{FirstHot(b), FirstComplete(b)} : b \in {t \in Pending : t < before}}) \ {None}

\* The cutoff is cadences old, so no transaction and no fan-out begun before it is
\* still open.
Closed(before) ==
    \A t \in 1..(before - 1) : (kind[t] \in Folds => t \in live) /\ t \notin streaming

SweepRead ==
    /\ Sweeps
    /\ ~sweep.on
    /\ \E before \in {t \in live : Closed(t) /\ \E d \in HotRows : d < t} :
        sweep' = [on |-> TRUE, before |-> before, keep |-> StillRead(before)]
    /\ UNCHANGED <<now, kind, live, queueVars, batchVars, msgVars, knobVars, pollVars>>

Expired == {d \in HotRows : d < sweep.before /\ d \notin sweep.keep}

\* DeleteExpiredDispatches; the foreign keys of its batches become NULL.
SweepDelete ==
    /\ sweep.on
    /\ live' = live \ Expired
    /\ streaming' = streaming \ Expired
    /\ dispatchOf' = [b \in Instant |-> IF dispatchOf[b] \in Expired THEN None ELSE dispatchOf[b]]
    /\ sweep' = NoSweep
    /\ UNCHANGED <<now, kind, status, complete, abandoned, phase, jobs, saw,
                   opened, settled, msgVars, knobVars, pollVars>>

\* The worker process restarts, perhaps with another VERGE_STALE_JOB_TIMEOUT: its
\* fan-out, its passes and its sweep are gone.
Restart ==
    /\ reaperOn' \in IF KnobsMove THEN BOOLEAN ELSE {reaperOn}
    /\ streaming' = {}
    /\ pass' = [p \in Poller |-> "settling"]
    /\ toRelease' = [p \in Poller |-> {}]
    /\ toSettle' = [p \in Poller |-> {}]
    /\ sweep' = NoSweep
    /\ UNCHANGED <<now, kind, live, status, complete, abandoned, phase, jobs, saw,
                   batchVars, msgVars, hotEnabled>>

\* The hot Scan's enabled flag moves: the queries read it, and it is set in the
\* database by hand.
ToggleHot ==
    /\ KnobsMove
    /\ hotEnabled' = ~hotEnabled
    /\ UNCHANGED <<now, kind, live, queueVars, batchVars, msgVars, reaperOn, pollVars, sweep>>

-----------------------------------------------------------------------------
HotTier(d) ==
    \/ StreamJobs(d) \/ FinishFanOut(d)
    \/ HotFold(d) \/ EndJob(d) \/ Stop(d)

Poll(p) ==
    \/ ListReleasable(p) \/ Release(p) \/ FailRelease(p)
    \/ ListSettleable(p) \/ SettleOne(p) \/ FailSettle(p)

Next ==
    \/ \E k \in Folds : BeginFold(k)
    \/ ClaimTick \/ SkipTick
    \/ \E t \in Instant : CommitFold(t) \/ HotTier(t)
    \/ \E p \in Poller : Poll(p)
    \/ SweepRead \/ SweepDelete \/ Restart \/ ToggleHot

Spec == Init /\ [][Next]_vars

-----------------------------------------------------------------------------
(***************************************************************************)
(* Properties.                                                             *)
(***************************************************************************)

\* What dispatch d opened beneath the ground of fold r.
OpenedBy(d, r) == {h \in BatchesOf(d) : r \in opened[h]}

\* A released census misses nothing the dispatch it waited for opened, and names
\* nothing after that dispatch's last batch (ADR-1870), however long the row sat
\* listed, whoever folded meanwhile, and across sweeps of the dispatch table.
CensusIsItsDispatchs ==
    \A r \in Moves :
        (releasedBy[r] # None /\ releasedBy[r] \in live) =>
            LET B == BatchesOf(releasedBy[r]) IN
            /\ OpenedBy(releasedBy[r], r) \subseteq census[r]
            /\ B # {} => \A h \in census[r] : h <= Greatest(B)

\* A root message is routed exactly once, when its census is real: never while it
\* is held, never by the second of two passes that both listed it (ADR-1806 section 2).
RoutedOnce ==
    \A r \in Moves :
        routed[r] = IF msg[r] \in {"released", "written"} THEN 1 ELSE 0

\* The dispatch a fold's message waited for is still there, and nobody ended it.
Stands(d) == d \in HotRows /\ status[d] = "fanned-out"

\* Between the root's census and the residue, nothing the drained dispatch opened
\* beneath the new ground goes unnamed, whichever knob moved in between (ADR-1867),
\* while no operator ends and no sweep takes a dispatch either message waited for.
NothingUnnamed ==
    \A r \in Moves :
        (/\ msg[r] # "held"
         /\ Stands(settledBy[r])
         /\ releasedBy[r] # None => Stands(releasedBy[r])) =>
            OpenedBy(settledBy[r], r) \subseteq census[r] \cup residue[r]

\* A sweep never takes away the dispatch a held row is waiting to be released on
\* (ADR-0041, #1853), unless an operator ended a row the sweep had meant to keep.
SweepSparesRelease ==
    [][SweepDelete =>
        \/ \A r \in Instant : Releasable(r) => Releasable(r)'
        \/ \E d \in sweep.keep : status[d] # "fanned-out"]_vars

\* "The held root counts the whole subtree at release, so no second message fires"
\* (repointsettle_test.go), and ADR-1867 section 3: a knob moved after the fact does
\* not double-name the subtree.
NamedOnce ==
    \A r \in Moves : msg[r] = "released" => census[r] \cap residue[r] = {}
=============================================================================
