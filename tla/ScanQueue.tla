------------------------------ MODULE ScanQueue ------------------------------
(***************************************************************************)
(* The measurement queue: a Dispatcher claims a tick of a Scan and fans    *)
(* out one queue_job row per unit of work, Workers claim, probe and settle *)
(* the rows, a Reaper returns the rows of dead workers, and an operator    *)
(* stops or terminates a Dispatch from the web process.  All of them share *)
(* only the Postgres tables `dispatch`, `queue_job` and `batch`.           *)
(*                                                                         *)
(* One action is one committed transaction or one autocommitted statement, *)
(* so an interleaving of actions is an interleaving the database allows.   *)
(***************************************************************************)
EXTENDS Naturals, Sequences, FiniteSets

CONSTANTS
    Dispatch,         \* keys (scan, scheduled_time) of the dispatch table
    Job,              \* ids of the queue_job table
    Unit,             \* what one job measures, e.g. a (Vantage, Address) pair
    Worker,           \* worker processes and `worker -trigger` drains
    ScanOf,           \* the Scan a dispatch belongs to
    Kind,             \* the kind of a Scan
    MaxAttempts,      \* queue_job.max_attempts
    ChunkSize,        \* chunkCommitSize
    ReaperOn,         \* VERGE_STALE_JOB_TIMEOUT > 0
    LeaseCoversWork,  \* the stale threshold outlasts every live worker
    NoJob, NoDispatch, NoUnit

Kinds == {"hot", "cold", "edge-fanout", "ct-tail", "dns"}

ASSUME ConstantsAssumption ==
    /\ \A d \in Dispatch : Kind[ScanOf[d]] \in Kinds
    /\ MaxAttempts \in Nat \ {0}
    /\ ChunkSize \in Nat \ {0}
    /\ ReaperOn \in BOOLEAN
    /\ LeaseCoversWork \in BOOLEAN
    /\ NoJob \notin Job
    /\ NoDispatch \notin Dispatch
    /\ NoUnit \notin Unit

Statuses    == {"none", "claiming", "fanned-out", "skipped", "stopped", "terminated"}
JobStates   == {"none", "ready", "running", "done", "dead", "retried", "cancelled"}
NonTerminal == {"ready", "running"}
Terminal    == {"done", "dead", "retried", "cancelled"}
Outcomes    == {"completed", "dead-lettered"}
Verbs       == {"stopped", "terminated"}
ActSteps    == {"found", "cancelled"}

VARIABLES
    \* the dispatch table
    status,       \* dispatch.status; "claiming" is a row not yet committed
    complete,     \* dispatch.fanout_complete
    abandoned,    \* dispatch.fanout_abandoned
    \* the fan-out in progress in some process
    streaming,    \* the streamed fan-outs whose process is alive
    todo,         \* the units a streamed fan-out has yet to enqueue
    \* the queue_job table
    state,        \* queue_job.state
    attempt,      \* queue_job.attempt
    dispatchOf,   \* queue_job.dispatch_id
    unitOf,       \* queue_job.spec
    \* the batch table
    batch,        \* outcomes of the batch rows committed for a job
    \* the worker processes
    holds,        \* the job a worker claimed and has yet to settle
    heldAttempt,  \* the attempt its claim returned
    \* the web process
    acts          \* operator acts under way, with the statement they last ran

dispatchVars == <<status, complete, abandoned>>
streamVars   == <<streaming, todo>>
jobVars      == <<state, attempt, dispatchOf, unitOf>>
workerVars   == <<holds, heldAttempt>>
vars == <<dispatchVars, streamVars, jobVars, batch, workerVars, acts>>

TypeOK ==
    /\ status \in [Dispatch -> Statuses]
    /\ complete \in [Dispatch -> BOOLEAN]
    /\ abandoned \in [Dispatch -> BOOLEAN]
    /\ streaming \in SUBSET Dispatch
    /\ todo \in [Dispatch -> SUBSET Unit]
    /\ state \in [Job -> JobStates]
    /\ attempt \in [Job -> Nat]
    /\ dispatchOf \in [Job -> Dispatch \cup {NoDispatch}]
    /\ unitOf \in [Job -> Unit \cup {NoUnit}]
    /\ batch \in [Job -> Seq(Outcomes)]
    /\ holds \in [Worker -> Job \cup {NoJob}]
    /\ heldAttempt \in [Worker -> Nat]
    /\ acts \in SUBSET (Dispatch \X Verbs \X ActSteps)

Init ==
    /\ status = [d \in Dispatch |-> "none"]
    /\ complete = [d \in Dispatch |-> FALSE]
    /\ abandoned = [d \in Dispatch |-> FALSE]
    /\ streaming = {}
    /\ todo = [d \in Dispatch |-> {}]
    /\ state = [j \in Job |-> "none"]
    /\ attempt = [j \in Job |-> 0]
    /\ dispatchOf = [j \in Job |-> NoDispatch]
    /\ unitOf = [j \in Job |-> NoUnit]
    /\ batch = [j \in Job |-> <<>>]
    /\ holds = [w \in Worker |-> NoJob]
    /\ heldAttempt = [w \in Worker |-> 0]
    /\ acts = {}

-----------------------------------------------------------------------------
(***************************************************************************)
(* The Dispatcher.                                                         *)
(***************************************************************************)

KindOf(d) == Kind[ScanOf[d]]

\* fanOut: which kinds commit their dispatch row before their jobs.
Streamed(d) == KindOf(d) \in {"hot", "cold", "edge-fanout"}

\* hotLagGateApplies, with HotLagGateArmed's refusal when no reaper runs.
Gated(d) == ReaperOn /\ KindOf(d) \in {"hot", "ct-tail"}

JobsOf(d) == {j \in Job : dispatchOf[j] = d}

Active(d) == \E j \in JobsOf(d) : state[j] \in NonTerminal

\* The advisory transaction lock on the scan: no other tick of it is mid-claim.
LockFree(d) ==
    \A e \in Dispatch : ScanOf[e] = ScanOf[d] => status[e] # "claiming"

\* Variant for mutation: a gate that counts only the rows nobody has claimed.
Lagging_ReadyOnly(d) ==
    \E e \in Dispatch \ {d} :
        ScanOf[e] = ScanOf[d] /\ \E j \in JobsOf(e) : state[j] = "ready"

\* ScanHasNonTerminalJobs of every other dispatch of the same scan.
Lagging(d) ==
    \E e \in Dispatch \ {d} : ScanOf[e] = ScanOf[d] /\ Active(e)

\* TryFanOut inserts once per (scan, scheduled_time), under the lock.
TickFree(d) == status[d] = "none" /\ LockFree(d)

\* EnqueueJob for every unit of U; rows gives each new row its unit.
Enqueue(d, U) ==
    \E new \in SUBSET {j \in Job : state[j] = "none"} :
    \E rows \in [new -> U] :
        /\ \A u \in U : \E j \in new : rows[j] = u
        /\ \A i, j \in new : rows[i] = rows[j] => i = j
        /\ state' = [j \in Job |-> IF j \in new THEN "ready" ELSE state[j]]
        /\ attempt' = [j \in Job |-> IF j \in new THEN 1 ELSE attempt[j]]
        /\ dispatchOf' = [j \in Job |-> IF j \in new THEN d ELSE dispatchOf[j]]
        /\ unitOf' = [j \in Job |-> IF j \in new THEN rows[j] ELSE unitOf[j]]

\* gateHotTick: a tick that overtakes an undrained dispatch is recorded skipped.
SkipLaggingTick(d) ==
    /\ TickFree(d)
    /\ Gated(d)
    /\ Lagging(d)
    /\ status' = [status EXCEPT ![d] = "skipped"]
    /\ UNCHANGED <<complete, abandoned, streamVars, jobVars, batch, workerVars, acts>>

\* fanOutAtomic: the row, every job and the completion mark commit together.
FanOutAtomic(d) ==
    /\ TickFree(d)
    /\ ~Streamed(d)
    /\ ~(Gated(d) /\ Lagging(d))
    /\ status' = [status EXCEPT ![d] = "fanned-out"]
    /\ complete' = [complete EXCEPT ![d] = TRUE]
    /\ \E U \in SUBSET Unit : Enqueue(d, U)
    /\ UNCHANGED <<abandoned, streamVars, batch, workerVars, acts>>

\* claimDispatch up to its gate: the row is inserted but not yet committed.
ClaimDispatch(d) ==
    /\ TickFree(d)
    /\ Streamed(d)
    /\ ~(Gated(d) /\ Lagging(d))
    /\ status' = [status EXCEPT ![d] = "claiming"]
    /\ UNCHANGED <<complete, abandoned, streamVars, jobVars, batch, workerVars, acts>>

\* AbandonUnfinishedDispatches: the dispatches a claimed hot tick retires.
Unfinished(d) ==
    {e \in Dispatch \ {d} :
        /\ ScanOf[e] = ScanOf[d]
        /\ status[e] = "fanned-out"
        /\ ~complete[e]
        /\ ~abandoned[e]
        /\ ~Active(e)}

\* claimDispatch's commit; the fan-out then reads the estate and streams its units.
CommitClaim(d) ==
    /\ status[d] = "claiming"
    /\ status' = [status EXCEPT ![d] = "fanned-out"]
    /\ abandoned' = [e \in Dispatch |->
            abandoned[e] \/ (KindOf(d) = "hot" /\ e \in Unfinished(d))]
    /\ \E U \in SUBSET Unit : todo' = [todo EXCEPT ![d] = U]
    /\ streaming' = streaming \cup {d}
    /\ UNCHANGED <<complete, jobVars, batch, workerVars, acts>>

\* A crash or an error before the commit rolls the claimed row back.
RollBackClaim(d) ==
    /\ status[d] = "claiming"
    /\ status' = [status EXCEPT ![d] = "none"]
    /\ UNCHANGED <<complete, abandoned, streamVars, jobVars, batch, workerVars, acts>>

\* streamEnqueue: a full chunk commits and carries no mark.
StreamChunk(d) ==
    /\ d \in streaming
    /\ \E U \in SUBSET todo[d] :
        /\ Cardinality(U) = ChunkSize
        /\ Enqueue(d, U)
        /\ todo' = [todo EXCEPT ![d] = @ \ U]
    /\ UNCHANGED <<dispatchVars, streaming, batch, workerVars, acts>>

\* streamEnqueue: the short last chunk, empty or not, commits with the mark.
StreamFinal(d) ==
    /\ d \in streaming
    /\ Cardinality(todo[d]) < ChunkSize
    /\ Enqueue(d, todo[d])
    /\ todo' = [todo EXCEPT ![d] = {}]
    /\ streaming' = streaming \ {d}
    /\ complete' = [complete EXCEPT ![d] = TRUE]
    /\ UNCHANGED <<status, abandoned, batch, workerVars, acts>>

\* The fan-out's process dies or a chunk's transaction errors: the tick stays short.
StreamFail(d) ==
    /\ d \in streaming
    /\ streaming' = streaming \ {d}
    /\ todo' = [todo EXCEPT ![d] = {}]
    /\ UNCHANGED <<dispatchVars, jobVars, batch, workerVars, acts>>

-----------------------------------------------------------------------------
(***************************************************************************)
(* The Worker.  A terminal write is guarded on state = 'running' alone: it *)
(* does not ask which worker's claim made the row running.                 *)
(***************************************************************************)

\* ClaimJob (SKIP LOCKED: no two workers claim one ready row).
Claim(w, j) ==
    /\ holds[w] = NoJob
    /\ state[j] = "ready"
    /\ state' = [state EXCEPT ![j] = "running"]
    /\ holds' = [holds EXCEPT ![w] = j]
    /\ heldAttempt' = [heldAttempt EXCEPT ![w] = attempt[j]]
    /\ UNCHANGED <<dispatchVars, streamVars, attempt, dispatchOf, unitOf, batch, acts>>

Release(w) ==
    /\ holds' = [holds EXCEPT ![w] = NoJob]
    /\ heldAttempt' = [heldAttempt EXCEPT ![w] = 0]

\* Variant for mutation: a terminal write that trusts the worker's claim.
MayWrite_Unguarded(w) == holds[w] # NoJob

\* The guard every terminal write carries.
MayWrite(w) == holds[w] # NoJob /\ state[holds[w]] = "running"

\* exhaustedRetries, read off the claim's own attempt.
Exhausted(w) == heldAttempt[w] >= MaxAttempts

\* complete: the batch and the done mark commit together.
Complete(w) ==
    /\ MayWrite(w)
    /\ state' = [state EXCEPT ![holds[w]] = "done"]
    /\ batch' = [batch EXCEPT ![holds[w]] = Append(@, "completed")]
    /\ Release(w)
    /\ UNCHANGED <<dispatchVars, streamVars, attempt, dispatchOf, unitOf, acts>>

\* deadLetter: a dead-lettered batch with an empty scope and the dead mark.
DeadLetter(w) ==
    /\ MayWrite(w)
    /\ Exhausted(w)
    /\ state' = [state EXCEPT ![holds[w]] = "dead"]
    /\ batch' = [batch EXCEPT ![holds[w]] = Append(@, "dead-lettered")]
    /\ Release(w)
    /\ UNCHANGED <<dispatchVars, streamVars, attempt, dispatchOf, unitOf, acts>>

\* retry: a fresh row for the same unit, and the failed row marked retried.
Retry(w) ==
    LET j == holds[w] IN
    /\ MayWrite(w)
    /\ ~Exhausted(w)
    /\ \E k \in Job :
        /\ state[k] = "none"
        /\ state' = [state EXCEPT ![k] = "ready", ![j] = "retried"]
        /\ attempt' = [attempt EXCEPT ![k] = heldAttempt[w] + 1]
        /\ dispatchOf' = [dispatchOf EXCEPT ![k] = dispatchOf[j]]
        /\ unitOf' = [unitOf EXCEPT ![k] = unitOf[j]]
    /\ Release(w)
    /\ UNCHANGED <<dispatchVars, streamVars, batch, acts>>

\* errJobCanceled: the guard matches no row and the transaction rolls back.
Discard(w) ==
    /\ holds[w] # NoJob
    /\ state[holds[w]] # "running"
    /\ Release(w)
    /\ UNCHANGED <<dispatchVars, streamVars, jobVars, batch, acts>>

\* The process dies, or process returns an error before any terminal write:
\* the row stays running and nobody owns it.
LoseJob(w) ==
    /\ holds[w] # NoJob
    /\ Release(w)
    /\ UNCHANGED <<dispatchVars, streamVars, jobVars, batch, acts>>

-----------------------------------------------------------------------------
(***************************************************************************)
(* The Reaper.                                                             *)
(***************************************************************************)

\* Variant for mutation: the claim's age compared with the cutoff the wrong way.
MayBeStale_FreshRows ==
    {j \in Job : state[j] = "running" /\ \E w \in Worker : holds[w] = j}

\* The running rows with claimed_at < cutoff at some time from now on.  Where the
\* threshold covers the work, only a row nobody works on any more gets that old.
MayBeStale ==
    {j \in Job :
        /\ state[j] = "running"
        /\ LeaseCoversWork => \A w \in Worker : holds[w] # j}

ReapedState(j) == IF attempt[j] >= MaxAttempts THEN "dead" ELSE "ready"

\* Reaper.Sweep: one UPDATE over the rows that are stale when it runs.
Reap ==
    /\ ReaperOn
    /\ \E S \in SUBSET MayBeStale :
        /\ S # {}
        /\ state' = [j \in Job |-> IF j \in S THEN ReapedState(j) ELSE state[j]]
        /\ attempt' = [j \in Job |-> IF j \in S THEN attempt[j] + 1 ELSE attempt[j]]
    /\ UNCHANGED <<dispatchVars, streamVars, dispatchOf, unitOf, batch, workerVars, acts>>

-----------------------------------------------------------------------------
(***************************************************************************)
(* The operator.  Finding the dispatch in flight, cancelling its jobs and  *)
(* recording the disposition are three statements, and anything may run    *)
(* between them.                                                           *)
(***************************************************************************)

\* stopScan, terminateScan: only a dispatch ListActiveDispatchProgress returns.
FindActive(d, v) ==
    /\ Active(d)
    /\ \A s \in ActSteps : <<d, v, s>> \notin acts
    /\ acts' = acts \cup {<<d, v, "found">>}
    /\ UNCHANGED <<dispatchVars, streamVars, jobVars, batch, workerVars>>

\* The job states each verb cancels.
Cancels(v) == IF v = "stopped" THEN {"ready"} ELSE {"ready", "running"}

CancelJobs(d, v) ==
    /\ <<d, v, "found">> \in acts
    /\ state' = [j \in Job |->
            IF dispatchOf[j] = d /\ state[j] \in Cancels(v) THEN "cancelled" ELSE state[j]]
    /\ acts' = (acts \ {<<d, v, "found">>}) \cup {<<d, v, "cancelled">>}
    /\ UNCHANGED <<dispatchVars, streamVars, attempt, dispatchOf, unitOf, batch, workerVars>>

\* SetDispatchStatus: once over fanned-out, and a stop may escalate.
MayRecord(d, v) ==
    \/ status[d] = "fanned-out"
    \/ status[d] = "stopped" /\ v = "terminated"

RecordDisposition(d, v) ==
    /\ <<d, v, "cancelled">> \in acts
    /\ status' = [status EXCEPT ![d] = IF MayRecord(d, v) THEN v ELSE @]
    /\ acts' = acts \ {<<d, v, "cancelled">>}
    /\ UNCHANGED <<complete, abandoned, streamVars, jobVars, batch, workerVars>>

\* The request dies between two statements: no disposition is recorded.
DropAct(d, v) ==
    \E s \in ActSteps :
        /\ <<d, v, s>> \in acts
        /\ acts' = acts \ {<<d, v, s>>}
        /\ UNCHANGED <<dispatchVars, streamVars, jobVars, batch, workerVars>>

-----------------------------------------------------------------------------
Dispatching(d) ==
    \/ SkipLaggingTick(d) \/ FanOutAtomic(d) \/ ClaimDispatch(d)
    \/ CommitClaim(d) \/ RollBackClaim(d)
    \/ StreamChunk(d) \/ StreamFinal(d) \/ StreamFail(d)

Settle(w) == Complete(w) \/ DeadLetter(w) \/ Retry(w) \/ Discard(w) \/ LoseJob(w)

Operating(d) ==
    \E v \in Verbs :
        FindActive(d, v) \/ CancelJobs(d, v) \/ RecordDisposition(d, v) \/ DropAct(d, v)

Next ==
    \/ \E d \in Dispatch : Dispatching(d) \/ Operating(d)
    \/ \E w \in Worker : Settle(w) \/ \E j \in Job : Claim(w, j)
    \/ Reap

Spec == Init /\ [][Next]_vars

\* A worker's drain loop keeps claiming and settles what it claimed (the probe
\* has a deadline, the terminal write follows it); time passes; the reaper ticks.
\* Nothing obliges a tick to be claimed or an operator to act.
Fairness ==
    /\ \A w \in Worker : WF_vars(Settle(w)) /\ WF_vars(\E j \in Job : Claim(w, j))
    /\ WF_vars(Reap)

FairSpec == Spec /\ Fairness

-----------------------------------------------------------------------------
(***************************************************************************)
(* Properties.                                                             *)
(***************************************************************************)

\* A job row's batches say exactly what its state says: one completed batch when
\* done, at most one dead-lettered batch when dead, none otherwise.  It is what
\* the guarded terminal writes (markDone, markDead, markRetried) owe when a
\* reaped worker, its successor and a terminating operator race on one row.
OneOutcome ==
    \A j \in Job :
        /\ state[j] = "done" => batch[j] = <<"completed">>
        /\ state[j] = "dead" => batch[j] \in {<<>>, <<"dead-lettered">>}
        /\ state[j] \notin {"done", "dead"} => batch[j] = <<>>

\* Two rows carry the same unit of the same dispatch.
SameLine(i, j) ==
    /\ dispatchOf[i] = dispatchOf[j]
    /\ unitOf[i] = unitOf[j]

\* Of the rows a unit of one dispatch ever had, exactly one is not a superseded
\* ('retried') one: a retry never loses the unit and never forks it, whichever of
\* two workers holding the same row writes first.
OneLiveRow ==
    \A i \in Job : state[i] # "none" =>
        \E j \in Job :
            /\ SameLine(i, j)
            /\ \A k \in Job : SameLine(i, k) =>
                 (state[k] # "retried" <=> k = j)

\* What became of a unit of a dispatch, read off all of its rows.
RowsOf(d, u) == {j \in Job : state[j] # "none" /\ dispatchOf[j] = d /\ unitOf[j] = u}

Verdict(j) ==
    CASE state[j] \in NonTerminal -> "open"
      [] state[j] = "done" -> "completed"
      [] state[j] = "cancelled" -> "cancelled"
      [] state[j] = "dead" /\ batch[j] # <<>> -> "dead-lettered"
      [] OTHER -> "lost"

LineVerdict(d, u) ==
    IF RowsOf(d, u) = {} THEN "absent"
    ELSE Verdict(CHOOSE j \in RowsOf(d, u) : state[j] # "retried")

\* The queue implements the ledger of its units: no unit is opened twice, none is
\* reopened once closed, and none gets a second verdict.
Ledger == INSTANCE WorkLedger WITH
    Line <- Dispatch \X Unit,
    verdict <- [l \in Dispatch \X Unit |-> LineVerdict(l[1], l[2])]

ImplementsLedger == Ledger!LedgerSpec

\* The bound that releases a held census (ADR-1806 section 3): once a dispatch
\* is marked fanned out and has no ready or running job, it never has one again.
Drained(d) == complete[d] /\ ~Active(d)

DrainedIsFinal == [][\A d \in Dispatch : Drained(d) => Drained(d)']_vars

\* A terminal row and its batches never change: nothing a slow worker, the reaper
\* or an operator still does rewrites committed work (ADR-0164 section 3).
TerminalIsFinal ==
    [][\A j \in Job : state[j] \in Terminal =>
            state'[j] = state[j] /\ batch'[j] = batch[j]]_vars

\* A disposition is recorded once, and only a stop escalates to a terminate
\* (SetDispatchStatus, ADR-0164 section 4), also when both acts are in flight.
DispositionStands ==
    [][\A d \in Dispatch : status[d] \in {"skipped", "stopped", "terminated"} =>
            \/ status'[d] = status[d]
            \/ status[d] = "stopped" /\ status'[d] = "terminated"]_vars

\* With the gate armed, two ticks of one gated scan whose fan-out is atomic
\* (ct-tail) never both have work in flight (gateHotTick, ADR-0137 section 4).
NoOvertaking ==
    \A d, e \in Dispatch :
        (d # e /\ ScanOf[d] = ScanOf[e] /\ Gated(d) /\ ~Streamed(d) /\ Active(d))
            => ~Active(e)

\* Where the lease covers the work, no two workers measure one unit of one
\* dispatch at a time (ADR-0137 section 3: "two concurrent jobs of one Dispatch
\* never share a target from one position, at any worker count").
UnitExclusive ==
    \A w, x \in Worker :
        (w # x /\ holds[w] # NoJob /\ holds[x] # NoJob)
            => ~SameLine(holds[w], holds[x])

\* Where the lease covers the work, a retry's row is always ahead of the rows it
\* supersedes and a claimable row is within the budget, so a unit is tried at most
\* MaxAttempts times per dispatch (exhaustedRetries, ReapStaleRunningJobs).
AttemptsClimb ==
    \A i, j \in Job :
        /\ state[j] = "ready" => attempt[j] \in 1..MaxAttempts
        /\ (state[i] = "retried" /\ state[j] \notin {"none", "retried"} /\ SameLine(i, j))
              => attempt[j] > attempt[i]

\* Every dispatch's jobs drain: crashes and failures spend attempts, so no row
\* stays ready or running and no gated scan is shut out for good (#853).
Drains == \A d \in Dispatch : Active(d) ~> ~Active(d)

\* A unit is one worker's at a time, and its tries are counted to the budget.
UnitsKept == UnitExclusive /\ AttemptsClimb
=============================================================================
