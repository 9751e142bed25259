--------------------------- MODULE ScanQueueProofs ---------------------------
(***************************************************************************)
(* Proofs that hold for every set of ticks, rows, units and workers, every *)
(* attempt budget and chunk size, and whether or not leases cover the work.*)
(***************************************************************************)
EXTENDS ScanQueue, TLAPS

\* What an Enqueue does to the rows: none existed, each becomes ready.
LEMMA EnqueueRows ==
    ASSUME TypeOK, NEW d \in Dispatch, NEW U \in SUBSET Unit, Enqueue(d, U)
    PROVE  /\ state' \in [Job -> JobStates]
           /\ attempt' \in [Job -> Nat]
           /\ dispatchOf' \in [Job -> Dispatch \cup {NoDispatch}]
           /\ unitOf' \in [Job -> Unit \cup {NoUnit}]
           /\ \A j \in Job :
                \/ state'[j] = state[j] /\ dispatchOf'[j] = dispatchOf[j]
                \/ state[j] = "none" /\ state'[j] = "ready" /\ dispatchOf'[j] = d
<1> PICK new \in SUBSET {j \in Job : state[j] = "none"} :
      \E rows \in [new -> U] :
        /\ state' = [j \in Job |-> IF j \in new THEN "ready" ELSE state[j]]
        /\ attempt' = [j \in Job |-> IF j \in new THEN 1 ELSE attempt[j]]
        /\ dispatchOf' = [j \in Job |-> IF j \in new THEN d ELSE dispatchOf[j]]
        /\ unitOf' = [j \in Job |-> IF j \in new THEN rows[j] ELSE unitOf[j]]
  BY DEF Enqueue
<1> QED BY DEF TypeOK, JobStates

\* The fields of every table keep their types (TypeOK), whatever interleaving.
THEOREM TypeCorrect == Spec => []TypeOK
<1>1. Init => TypeOK
  BY DEF Init, TypeOK, Statuses, JobStates
<1>2. ASSUME TypeOK, [Next]_vars PROVE TypeOK'
  <2> USE <1>2
  <2>1. ASSUME NEW d \in Dispatch, Dispatching(d) PROVE TypeOK'
    <3>1. CASE SkipLaggingTick(d) \/ ClaimDispatch(d) \/ RollBackClaim(d)
      BY <3>1 DEF TypeOK, SkipLaggingTick, ClaimDispatch, RollBackClaim, Statuses,
                  streamVars, jobVars, workerVars
    <3>2. CASE FanOutAtomic(d)
      BY <3>2, EnqueueRows DEF TypeOK, FanOutAtomic, Statuses, streamVars, workerVars
    <3>3. CASE CommitClaim(d)
      BY <3>3 DEF TypeOK, CommitClaim, Statuses, jobVars, workerVars
    <3>4. CASE StreamChunk(d)
      <4>1. PICK U \in SUBSET todo[d] :
              Enqueue(d, U) /\ todo' = [todo EXCEPT ![d] = @ \ U]
        BY <3>4 DEF StreamChunk
      <4>2. U \in SUBSET Unit BY <4>1 DEF TypeOK
      <4> QED
        BY <3>4, <4>1, <4>2, EnqueueRows DEF TypeOK, StreamChunk, dispatchVars, workerVars
    <3>5. CASE StreamFinal(d)
      <4>1. todo[d] \in SUBSET Unit BY DEF TypeOK
      <4> QED BY <3>5, <4>1, EnqueueRows DEF TypeOK, StreamFinal, workerVars
    <3>6. CASE StreamFail(d)
      BY <3>6 DEF TypeOK, StreamFail, dispatchVars, jobVars, workerVars
    <3> QED BY <2>1, <3>1, <3>2, <3>3, <3>4, <3>5, <3>6 DEF Dispatching
  <2>2. ASSUME NEW d \in Dispatch, Operating(d) PROVE TypeOK'
    <3>1. PICK v \in Verbs :
            FindActive(d, v) \/ CancelJobs(d, v) \/ RecordDisposition(d, v) \/ DropAct(d, v)
      BY <2>2 DEF Operating
    <3>2. CASE CancelJobs(d, v)
      BY <3>2 DEF TypeOK, CancelJobs, JobStates, ActSteps, dispatchVars, streamVars, workerVars
    <3>3. CASE RecordDisposition(d, v)
      BY <3>3 DEF TypeOK, RecordDisposition, Statuses, Verbs, streamVars, jobVars, workerVars
    <3>4. CASE DropAct(d, v)
      BY <3>4 DEF TypeOK, DropAct, dispatchVars, streamVars, jobVars, workerVars
    <3>5. CASE FindActive(d, v)
      BY <3>5 DEF TypeOK, FindActive, ActSteps, dispatchVars, streamVars, jobVars, workerVars
    <3> QED BY <3>1, <3>2, <3>3, <3>4, <3>5
  <2>3. ASSUME NEW w \in Worker, Settle(w) PROVE TypeOK'
    <3>1. CASE Complete(w)
      <4>1. batch[holds[w]] \in Seq(Outcomes)
        BY <3>1 DEF TypeOK, Complete, MayWrite
      <4>2. Append(batch[holds[w]], "completed") \in Seq(Outcomes)
        BY <4>1 DEF Outcomes
      <4> QED BY <3>1, <4>2 DEF TypeOK, Complete, MayWrite, Release, JobStates,
                  dispatchVars, streamVars
    <3>2. CASE DeadLetter(w)
      <4>1. batch[holds[w]] \in Seq(Outcomes)
        BY <3>2 DEF TypeOK, DeadLetter, MayWrite
      <4>2. Append(batch[holds[w]], "dead-lettered") \in Seq(Outcomes)
        BY <4>1 DEF Outcomes
      <4> QED BY <3>2, <4>2 DEF TypeOK, DeadLetter, MayWrite, Release, JobStates,
                  dispatchVars, streamVars
    <3>3. CASE Retry(w)
      <4>1. PICK k \in Job :
              /\ state' = [state EXCEPT ![k] = "ready", ![holds[w]] = "retried"]
              /\ attempt' = [attempt EXCEPT ![k] = heldAttempt[w] + 1]
              /\ dispatchOf' = [dispatchOf EXCEPT ![k] = dispatchOf[holds[w]]]
              /\ unitOf' = [unitOf EXCEPT ![k] = unitOf[holds[w]]]
        BY <3>3 DEF Retry
      <4>2. holds[w] \in Job
        BY <3>3 DEF TypeOK, Retry, MayWrite
      <4>3. state' \in [Job -> JobStates]
        BY <4>1 DEF TypeOK, JobStates
      <4>4. heldAttempt[w] \in Nat
        BY DEF TypeOK
      <4>5. attempt' \in [Job -> Nat]
        BY <4>1, <4>4 DEF TypeOK
      <4>6. /\ dispatchOf' \in [Job -> Dispatch \cup {NoDispatch}]
            /\ unitOf' \in [Job -> Unit \cup {NoUnit}]
        BY <4>1, <4>2 DEF TypeOK
      <4>7. holds' \in [Worker -> Job \cup {NoJob}] /\ heldAttempt' \in [Worker -> Nat]
        BY <3>3 DEF TypeOK, Retry, Release
      <4> QED
        BY <3>3, <4>3, <4>5, <4>6, <4>7 DEF TypeOK, Retry, dispatchVars, streamVars
    <3>4. CASE Discard(w)
      BY <3>4 DEF TypeOK, Discard, Release, dispatchVars, streamVars, jobVars
    <3>5. CASE LoseJob(w)
      BY <3>5 DEF TypeOK, LoseJob, Release, dispatchVars, streamVars, jobVars
    <3> QED BY <2>3, <3>1, <3>2, <3>3, <3>4, <3>5 DEF Settle
  <2>4. ASSUME NEW w \in Worker, NEW j \in Job, Claim(w, j) PROVE TypeOK'
    BY <2>4 DEF TypeOK, Claim, JobStates, dispatchVars, streamVars
  <2>5. CASE Reap
    BY <2>5 DEF TypeOK, Reap, ReapedState, JobStates, dispatchVars, streamVars, workerVars
  <2>6. CASE UNCHANGED vars
    BY <2>6 DEF TypeOK, vars, dispatchVars, streamVars, jobVars, workerVars
  <2> QED BY <2>1, <2>2, <2>3, <2>4, <2>5, <2>6 DEF Next
<1> QED BY <1>1, <1>2, PTL DEF Spec

-----------------------------------------------------------------------------
(***************************************************************************)
(* What any step may do to one row, and to its batches.                    *)
(***************************************************************************)
Kept(j) == state'[j] = state[j] /\ batch'[j] = batch[j]

Moved(j, from, to) == state[j] \in from /\ state'[j] \in to /\ batch'[j] = batch[j]

Settled(j, to, o) ==
    state[j] = "running" /\ state'[j] = to /\ batch'[j] = Append(batch[j], o)

RowStep(j) ==
    \/ Kept(j)
    \/ Moved(j, {"none"}, {"ready"})
    \/ Moved(j, {"ready"}, {"running", "cancelled"})
    \/ Moved(j, {"running"}, {"ready", "dead", "retried", "cancelled"})
    \/ Settled(j, "done", "completed")
    \/ Settled(j, "dead", "dead-lettered")

\* Every step moves every row by one of the arcs of RowStep.
LEMMA EveryRowStep ==
    ASSUME TypeOK, [Next]_vars, NEW j \in Job PROVE RowStep(j)
<1> USE DEF RowStep, Kept, Moved
<1>1. ASSUME NEW d \in Dispatch, Dispatching(d) PROVE RowStep(j)
  <2>1. CASE \E U \in SUBSET Unit : Enqueue(d, U) /\ UNCHANGED batch
    BY <2>1, EnqueueRows
  <2>2. CASE UNCHANGED <<jobVars, batch>>
    BY <2>2 DEF jobVars
  <2>3. CASE FanOutAtomic(d)
    BY <2>1, <2>3 DEF FanOutAtomic
  <2>4. CASE StreamChunk(d)
    <3>1. todo[d] \subseteq Unit BY DEF TypeOK
    <3> QED BY <2>1, <2>4, <3>1 DEF StreamChunk
  <2>5. CASE StreamFinal(d)
    <3>1. todo[d] \subseteq Unit BY DEF TypeOK
    <3> QED BY <2>1, <2>5, <3>1 DEF StreamFinal
  <2> QED
    BY <1>1, <2>2, <2>3, <2>4, <2>5
    DEF Dispatching, SkipLaggingTick, ClaimDispatch, CommitClaim, RollBackClaim, StreamFail
<1>2. ASSUME NEW d \in Dispatch, Operating(d) PROVE RowStep(j)
  BY <1>2 DEF Operating, FindActive, CancelJobs, RecordDisposition, DropAct, Cancels, jobVars, TypeOK
<1>3. ASSUME NEW w \in Worker, Settle(w) PROVE RowStep(j)
  <2>1. CASE Complete(w)
    BY <2>1 DEF Complete, MayWrite, Settled, TypeOK
  <2>2. CASE DeadLetter(w)
    BY <2>2 DEF DeadLetter, MayWrite, Settled, TypeOK
  <2>3. CASE Retry(w)
    <3>1. PICK k \in Job :
            /\ state[k] = "none"
            /\ state' = [state EXCEPT ![k] = "ready", ![holds[w]] = "retried"]
      BY <2>3 DEF Retry
    <3>2. holds[w] # k /\ state[holds[w]] = "running" /\ UNCHANGED batch
      BY <2>3, <3>1 DEF Retry, MayWrite
    <3> QED BY <3>1, <3>2 DEF TypeOK
  <2>4. CASE Discard(w) \/ LoseJob(w)
    BY <2>4 DEF Discard, LoseJob, jobVars
  <2> QED BY <1>3, <2>1, <2>2, <2>3, <2>4 DEF Settle
<1>4. ASSUME NEW w \in Worker, NEW i \in Job, Claim(w, i) PROVE RowStep(j)
  BY <1>4 DEF Claim, TypeOK
<1>5. CASE Reap
  BY <1>5 DEF Reap, MayBeStale, ReapedState, TypeOK
<1>6. CASE UNCHANGED vars
  BY <1>6 DEF vars, jobVars
<1> QED BY <1>1, <1>2, <1>3, <1>4, <1>5, <1>6 DEF Next

\* A row's batches match its state in every reachable state: OneOutcome, for any
\* number of workers racing on it and whether or not their leases have lapsed.
THEOREM OutcomeCorrect == Spec => []OneOutcome
<1>1. Init => OneOutcome
  BY DEF Init, OneOutcome
<1>2. ASSUME TypeOK, OneOutcome, [Next]_vars PROVE OneOutcome'
  <2> SUFFICES ASSUME NEW j \in Job
      PROVE /\ state'[j] = "done" => batch'[j] = <<"completed">>
            /\ state'[j] = "dead" => batch'[j] \in {<<>>, <<"dead-lettered">>}
            /\ state'[j] \notin {"done", "dead"} => batch'[j] = <<>>
    BY DEF OneOutcome
  <2>1. RowStep(j)
    BY <1>2, EveryRowStep
  <2>2. state[j] = "running" => batch[j] = <<>>
    BY <1>2 DEF OneOutcome
  <2>3. Append(<<>>, "completed") = <<"completed">>
        /\ Append(<<>>, "dead-lettered") = <<"dead-lettered">>
    OBVIOUS
  <2>4. CASE Settled(j, "done", "completed") \/ Settled(j, "dead", "dead-lettered")
    BY <2>2, <2>3, <2>4 DEF Settled
  <2>5. CASE Kept(j)
    BY <1>2, <2>5 DEF OneOutcome, Kept
  <2>6. CASE Moved(j, {"none"}, {"ready"}) \/ Moved(j, {"ready"}, {"running", "cancelled"})
             \/ Moved(j, {"running"}, {"ready", "dead", "retried", "cancelled"})
    BY <1>2, <2>6 DEF OneOutcome, Moved
  <2> QED BY <2>1, <2>4, <2>5, <2>6 DEF RowStep
<1> QED BY <1>1, <1>2, TypeCorrect, PTL DEF Spec

\* No step changes a terminal row or its batches: TerminalIsFinal, so neither a
\* reaped worker nor an operator's late cancel rewrites committed work.
THEOREM TerminalCorrect == Spec => TerminalIsFinal
<1>1. ASSUME TypeOK, [Next]_vars
      PROVE  [\A j \in Job : state[j] \in Terminal =>
                state'[j] = state[j] /\ batch'[j] = batch[j]]_vars
  BY <1>1, EveryRowStep DEF RowStep, Kept, Moved, Settled, Terminal
<1> QED BY <1>1, TypeCorrect, PTL DEF Spec, TerminalIsFinal

\* No recorded disposition is overwritten but a stop by a terminate:
\* DispositionStands, also with both acts in flight on one dispatch.
THEOREM DispositionCorrect == Spec => DispositionStands
<1>1. ASSUME TypeOK, [Next]_vars, NEW d \in Dispatch,
             status[d] \in {"skipped", "stopped", "terminated"}
      PROVE  \/ status'[d] = status[d]
             \/ status[d] = "stopped" /\ status'[d] = "terminated"
  <2>1. ASSUME NEW e \in Dispatch, Dispatching(e) PROVE status'[d] = status[d]
    BY <1>1, <2>1
    DEF Dispatching, SkipLaggingTick, FanOutAtomic, ClaimDispatch, CommitClaim,
        RollBackClaim, StreamChunk, StreamFinal, StreamFail, TickFree, dispatchVars, TypeOK
  <2>2. ASSUME NEW e \in Dispatch, Operating(e)
        PROVE  \/ status'[d] = status[d]
               \/ status[d] = "stopped" /\ status'[d] = "terminated"
    BY <1>1, <2>2
    DEF Operating, FindActive, CancelJobs, RecordDisposition, MayRecord, DropAct, dispatchVars, TypeOK
  <2>3. CASE UNCHANGED status
    BY <2>3
  <2> QED
    BY <1>1, <2>1, <2>2, <2>3
    DEF Next, Settle, Complete, DeadLetter, Retry, Discard, LoseJob, Claim, Reap,
        dispatchVars, vars
<1>2. ASSUME TypeOK, [Next]_vars
      PROVE  [\A d \in Dispatch : status[d] \in {"skipped", "stopped", "terminated"} =>
                \/ status'[d] = status[d]
                \/ status[d] = "stopped" /\ status'[d] = "terminated"]_vars
  BY <1>1, <1>2
<1> QED BY <1>2, TypeCorrect, PTL DEF Spec, DispositionStands

-----------------------------------------------------------------------------
(***************************************************************************)
(* The drain bound.  A dispatch is marked complete only by the transaction *)
(* that ends its fan-out, so nothing but its own rows can enqueue for it.  *)
(***************************************************************************)
FanOutEnds ==
    \A d \in Dispatch :
        /\ status[d] \in {"none", "claiming"} => ~complete[d] /\ d \notin streaming
        /\ d \in streaming => ~complete[d]

\* FanOutEnds is inductive: the mark and the end of the stream are one commit.
LEMMA FanOutEndsCorrect == Spec => []FanOutEnds
<1>1. Init => FanOutEnds
  BY DEF Init, FanOutEnds
<1>2. ASSUME TypeOK, FanOutEnds, [Next]_vars PROVE FanOutEnds'
  <2>1. ASSUME NEW d \in Dispatch, Dispatching(d) PROVE FanOutEnds'
    <3>1. CASE SkipLaggingTick(d) \/ FanOutAtomic(d) \/ ClaimDispatch(d)
      BY <1>2, <3>1
      DEF FanOutEnds, TypeOK, SkipLaggingTick, FanOutAtomic, ClaimDispatch, TickFree, streamVars
    <3>2. CASE CommitClaim(d) \/ RollBackClaim(d)
      BY <1>2, <3>2 DEF FanOutEnds, TypeOK, CommitClaim, RollBackClaim, streamVars
    <3>3. CASE StreamChunk(d) \/ StreamFinal(d) \/ StreamFail(d)
      BY <1>2, <3>3
      DEF FanOutEnds, TypeOK, StreamChunk, StreamFinal, StreamFail, dispatchVars
    <3> QED BY <2>1, <3>1, <3>2, <3>3 DEF Dispatching
  <2>2. ASSUME NEW d \in Dispatch, Operating(d) PROVE FanOutEnds'
    BY <1>2, <2>2
    DEF FanOutEnds, TypeOK, Operating, FindActive, CancelJobs, RecordDisposition, MayRecord, DropAct,
        Verbs, dispatchVars, streamVars
  <2>3. CASE UNCHANGED <<dispatchVars, streamVars>>
    BY <1>2, <2>3 DEF FanOutEnds, dispatchVars, streamVars
  <2> QED
    BY <1>2, <2>1, <2>2, <2>3
    DEF Next, Settle, Complete, DeadLetter, Retry, Discard, LoseJob, Claim, Reap, vars
<1> QED BY <1>1, <1>2, TypeCorrect, PTL DEF Spec

\* A row that is in flight after a step belongs to a dispatch that had one in
\* flight before it, or whose fan-out had not been marked complete.
LEMMA InFlightOrigin ==
    ASSUME TypeOK, FanOutEnds, [Next]_vars, NEW d \in Dispatch, NEW j \in Job,
           dispatchOf'[j] = d, state'[j] \in NonTerminal
    PROVE  Active(d) \/ ~complete[d]
<1> USE DEF Active, JobsOf, NonTerminal
<1>1. CASE state[j] \in NonTerminal /\ dispatchOf[j] = d
  BY <1>1
<1>2. ASSUME NEW e \in Dispatch, Dispatching(e) PROVE Active(d) \/ ~complete[d]
  <2>1. CASE \E U \in SUBSET Unit : Enqueue(e, U) /\ ~complete[e]
    BY <1>1, <2>1, EnqueueRows
  <2>2. CASE UNCHANGED jobVars
    BY <1>1, <2>2 DEF jobVars
  <2>3. CASE FanOutAtomic(e)
    BY <2>1, <2>3 DEF FanOutAtomic, TickFree, FanOutEnds
  <2>4. CASE StreamChunk(e)
    <3>1. todo[e] \subseteq Unit BY DEF TypeOK
    <3> QED BY <2>1, <2>4, <3>1 DEF StreamChunk, FanOutEnds
  <2>5. CASE StreamFinal(e)
    <3>1. todo[e] \subseteq Unit BY DEF TypeOK
    <3> QED BY <2>1, <2>5, <3>1 DEF StreamFinal, FanOutEnds
  <2> QED
    BY <1>2, <2>2, <2>3, <2>4, <2>5
    DEF Dispatching, SkipLaggingTick, ClaimDispatch, CommitClaim, RollBackClaim, StreamFail
<1>3. ASSUME NEW w \in Worker, Retry(w) PROVE Active(d) \/ ~complete[d]
  <2>1. PICK k \in Job :
          /\ state' = [state EXCEPT ![k] = "ready", ![holds[w]] = "retried"]
          /\ dispatchOf' = [dispatchOf EXCEPT ![k] = dispatchOf[holds[w]]]
    BY <1>3 DEF Retry
  <2>2. holds[w] \in Job /\ state[holds[w]] = "running"
    BY <1>3 DEF Retry, MayWrite, TypeOK
  <2>3. CASE j = k
    BY <2>1, <2>2, <2>3 DEF TypeOK
  <2>4. CASE j # k
    BY <1>1, <2>1, <2>2, <2>4 DEF TypeOK
  <2> QED BY <2>3, <2>4
<1>4. CASE UNCHANGED dispatchOf
  <2>1. state[j] \in NonTerminal \/ state[j] = "none"
    BY EveryRowStep DEF RowStep, Kept, Moved, Settled
  <2>2. state[j] = "none" => state'[j] = "none" \/ \E e \in Dispatch : Dispatching(e)
                              \/ \E w \in Worker : Retry(w)
    BY DEF Next, Operating, FindActive, CancelJobs, RecordDisposition, DropAct, Cancels, Settle, Complete,
        DeadLetter, Discard, LoseJob, MayWrite, Claim, Reap, MayBeStale, jobVars, vars, TypeOK
  <2> QED BY <1>1, <1>2, <1>3, <1>4, <2>1, <2>2
<1> QED
  BY <1>2, <1>3, <1>4
  DEF Next, Operating, FindActive, CancelJobs, RecordDisposition, DropAct, Settle, Complete, DeadLetter,
      Discard, LoseJob, Claim, Reap, jobVars, vars

\* A drained dispatch stays drained: DrainedIsFinal, the fact that lets the census
\* of a held message be counted once and never recounted.
THEOREM DrainCorrect == Spec => DrainedIsFinal
<1>1. ASSUME TypeOK, [Next]_vars, NEW d \in Dispatch, complete[d]
      PROVE  complete'[d]
  BY <1>1
  DEF Next, Dispatching, SkipLaggingTick, FanOutAtomic, ClaimDispatch, CommitClaim,
      RollBackClaim, StreamChunk, StreamFinal, StreamFail, Operating, FindActive, CancelJobs,
      RecordDisposition, DropAct, Settle, Complete, DeadLetter, Retry, Discard, LoseJob,
      Claim, Reap, dispatchVars, vars, TypeOK
<1>2. ASSUME TypeOK, FanOutEnds, [Next]_vars
      PROVE  [\A d \in Dispatch : Drained(d) => Drained(d)']_vars
  <2> SUFFICES ASSUME NEW d \in Dispatch, Drained(d) PROVE Drained(d)'
    OBVIOUS
  <2>1. complete'[d]
    BY <1>1, <1>2 DEF Drained
  <2>2. ~Active(d)'
    BY <1>2, InFlightOrigin DEF Drained, Active, JobsOf
  <2> QED BY <2>1, <2>2 DEF Drained
<1> QED BY <1>2, TypeCorrect, FanOutEndsCorrect, PTL DEF Spec, DrainedIsFinal

-----------------------------------------------------------------------------
(***************************************************************************)
(* Lines.  A line is a unit of a dispatch; its rows are the first one, and *)
(* one more for every retry.                                               *)
(***************************************************************************)
Live(j) == state[j] \notin {"none", "retried"}

\* A row that was never written is in no dispatch, and a written one is a line's.
RowsPlaced ==
    \A j \in Job :
        IF state[j] = "none" THEN dispatchOf[j] = NoDispatch
        ELSE dispatchOf[j] \in Dispatch /\ unitOf[j] \in Unit

\* What a fan-out has yet to enqueue has no row.
UnitsFresh ==
    \A d \in Dispatch :
        /\ status[d] \in {"none", "claiming"} =>
             todo[d] = {} /\ \A j \in Job : dispatchOf[j] # d
        /\ \A j \in Job : dispatchOf[j] = d => unitOf[j] \notin todo[d]

LiveRowUnique ==
    \A i, j \in Job : (Live(i) /\ Live(j) /\ SameLine(i, j)) => i = j

LiveRowExists ==
    \A i \in Job : state[i] # "none" => \E j \in Job : Live(j) /\ SameLine(i, j)

LineInv == RowsPlaced /\ UnitsFresh /\ LiveRowUnique /\ LiveRowExists

\* A step that neither writes a row nor supersedes one.
RowsStand ==
    /\ dispatchOf' = dispatchOf /\ unitOf' = unitOf
    /\ \A j \in Job : state'[j] = state[j] \/ (Live(j) /\ Live(j)')

\* Rows for the units of U of dispatch d, one each.
RowsWritten(d, U, new) ==
    /\ new \subseteq Job
    /\ \A j \in new : state[j] = "none" /\ state'[j] = "ready" /\ attempt'[j] = 1
                      /\ dispatchOf'[j] = d /\ unitOf'[j] \in U
    /\ \A j \in Job \ new : state'[j] = state[j] /\ attempt'[j] = attempt[j]
                      /\ dispatchOf'[j] = dispatchOf[j] /\ unitOf'[j] = unitOf[j]
    /\ \A i, j \in new : unitOf'[i] = unitOf'[j] => i = j

\* Row j is superseded by a new row k of its line.
RowSuperseded(j, k) ==
    /\ state[j] = "running" /\ state[k] = "none"
    /\ state' = [state EXCEPT ![k] = "ready", ![j] = "retried"]
    /\ dispatchOf' = [dispatchOf EXCEPT ![k] = dispatchOf[j]]
    /\ unitOf' = [unitOf EXCEPT ![k] = unitOf[j]]

\* EnqueueJob writes one row per unit and touches no other row.
LEMMA EnqueueWrites ==
    ASSUME TypeOK, NEW d \in Dispatch, NEW U \in SUBSET Unit, Enqueue(d, U)
    PROVE  \E new \in SUBSET Job : RowsWritten(d, U, new)
<1>0. PICK new \in SUBSET {j \in Job : state[j] = "none"} :
        \E rows \in [new -> U] :
          /\ \A i, j \in new : rows[i] = rows[j] => i = j
          /\ state' = [j \in Job |-> IF j \in new THEN "ready" ELSE state[j]]
          /\ attempt' = [j \in Job |-> IF j \in new THEN 1 ELSE attempt[j]]
          /\ dispatchOf' = [j \in Job |-> IF j \in new THEN d ELSE dispatchOf[j]]
          /\ unitOf' = [j \in Job |-> IF j \in new THEN rows[j] ELSE unitOf[j]]
  BY DEF Enqueue
<1>1. PICK rows \in [new -> U] :
        /\ \A i, j \in new : rows[i] = rows[j] => i = j
        /\ state' = [j \in Job |-> IF j \in new THEN "ready" ELSE state[j]]
        /\ attempt' = [j \in Job |-> IF j \in new THEN 1 ELSE attempt[j]]
        /\ dispatchOf' = [j \in Job |-> IF j \in new THEN d ELSE dispatchOf[j]]
        /\ unitOf' = [j \in Job |-> IF j \in new THEN rows[j] ELSE unitOf[j]]
  BY <1>0
<1>2. \A j \in new : unitOf'[j] = rows[j] /\ rows[j] \in U
  BY <1>1
<1>3. RowsWritten(d, U, new)
  BY <1>1, <1>2 DEF RowsWritten
<1> QED BY <1>3

\* Of the Dispatcher's steps only the three that enqueue write rows, each for the
\* units it was to enqueue; the others leave the queue_job table alone.
LEMMA DispatcherRows ==
    ASSUME TypeOK, NEW d \in Dispatch, Dispatching(d)
    PROVE  \/ UNCHANGED jobVars
           \/ /\ FanOutAtomic(d)
              /\ \E new \in SUBSET Job : RowsWritten(d, Unit, new)
           \/ \E U \in SUBSET todo[d], new \in SUBSET Job :
                 /\ d \in streaming /\ RowsWritten(d, U, new)
                 /\ todo' = [todo EXCEPT ![d] = @ \ U] \/ todo' = [todo EXCEPT ![d] = {}]
                 /\ StreamChunk(d) \/ StreamFinal(d)
<1>0. todo[d] \in SUBSET Unit
  BY DEF TypeOK
<1>1. CASE FanOutAtomic(d)
  <2>1. PICK U \in SUBSET Unit : Enqueue(d, U) BY <1>1 DEF FanOutAtomic
  <2>2. PICK new \in SUBSET Job : RowsWritten(d, U, new) BY <2>1, EnqueueWrites
  <2>3. RowsWritten(d, Unit, new) BY <2>2 DEF RowsWritten
  <2> QED BY <1>1, <2>3
<1>2. CASE StreamChunk(d)
  <2>1. PICK U \in SUBSET todo[d] : Enqueue(d, U) /\ todo' = [todo EXCEPT ![d] = @ \ U]
    BY <1>2 DEF StreamChunk
  <2>2. PICK new \in SUBSET Job : RowsWritten(d, U, new) BY <1>0, <2>1, EnqueueWrites
  <2> QED BY <1>2, <2>1, <2>2 DEF StreamChunk
<1>3. CASE StreamFinal(d)
  <2>1. PICK new \in SUBSET Job : RowsWritten(d, todo[d], new)
    BY <1>0, <1>3, EnqueueWrites DEF StreamFinal
  <2> QED BY <1>3, <2>1 DEF StreamFinal
<1> QED
  BY <1>1, <1>2, <1>3
  DEF Dispatching, SkipLaggingTick, ClaimDispatch, CommitClaim, RollBackClaim, StreamFail

\* What any step does to the rows: none is written and none superseded, or the
\* Dispatcher enqueues, or a worker's retry supersedes the row it holds.
LEMMA EveryTableStep ==
    ASSUME TypeOK, [Next]_vars
    PROVE  \/ RowsStand
           \/ \E d \in Dispatch : Dispatching(d) /\ ~UNCHANGED jobVars
           \/ \E w \in Worker, k \in Job : Retry(w) /\ RowSuperseded(holds[w], k)
                                            /\ holds[w] \in Job
                                            /\ attempt' = [attempt EXCEPT ![k] = heldAttempt[w] + 1]
<1> USE DEF RowsStand, Live
<1>1. ASSUME NEW d \in Dispatch, Dispatching(d) PROVE RowsStand \/ ~UNCHANGED jobVars
  BY DEF jobVars
<1>2. ASSUME NEW d \in Dispatch, Operating(d) PROVE RowsStand
  BY <1>2 DEF Operating, FindActive, CancelJobs, RecordDisposition, DropAct, Cancels, jobVars, TypeOK
<1>3. ASSUME NEW w \in Worker, Complete(w) \/ DeadLetter(w) \/ Discard(w) \/ LoseJob(w) PROVE RowsStand
  BY <1>3 DEF Complete, DeadLetter, Discard, LoseJob, MayWrite, jobVars, TypeOK
<1>4. ASSUME NEW w \in Worker, Retry(w)
      PROVE  \E k \in Job : RowSuperseded(holds[w], k) /\ holds[w] \in Job
                             /\ attempt' = [attempt EXCEPT ![k] = heldAttempt[w] + 1]
  BY <1>4 DEF Retry, RowSuperseded, MayWrite, TypeOK
<1>5. ASSUME NEW w \in Worker, NEW j \in Job, Claim(w, j) PROVE RowsStand
  BY <1>5 DEF Claim, TypeOK
<1>6. CASE Reap
  BY <1>6 DEF Reap, MayBeStale, ReapedState, TypeOK
<1>7. CASE UNCHANGED vars
  BY <1>7 DEF vars, jobVars
<1> QED BY <1>1, <1>2, <1>3, <1>4, <1>5, <1>6, <1>7 DEF Next, Settle

\* Rows written for units that had none in their dispatch start lines of their own.
LEMMA WrittenKeepsLines ==
    ASSUME TypeOK, RowsPlaced, LiveRowUnique, LiveRowExists,
           NEW d \in Dispatch, NEW U \in SUBSET Unit, NEW new \in SUBSET Job,
           RowsWritten(d, U, new),
           \A j \in Job : dispatchOf[j] = d => unitOf[j] \notin U
    PROVE  RowsPlaced' /\ LiveRowUnique' /\ LiveRowExists'
<1> USE DEF RowsWritten, Live, SameLine
<1>1. RowsPlaced'
  BY DEF RowsPlaced
<1>2. ASSUME NEW i \in Job, NEW j \in Job, Live(i)', Live(j)', SameLine(i, j)' PROVE i = j
  <2>1. CASE i \in new /\ j \in new
    BY <1>2, <2>1
  <2>2. CASE i \notin new /\ j \notin new
    BY <1>2, <2>2 DEF LiveRowUnique
  <2>3. CASE i \in new /\ j \notin new
    BY <1>2, <2>3
  <2>4. CASE i \notin new /\ j \in new
    BY <1>2, <2>4
  <2> QED BY <2>1, <2>2, <2>3, <2>4
<1>3. ASSUME NEW i \in Job, state'[i] # "none" PROVE \E j \in Job : Live(j)' /\ SameLine(i, j)'
  <2>1. CASE i \in new
    BY <2>1
  <2>2. CASE i \notin new
    <3>1. PICK j \in Job : Live(j) /\ SameLine(i, j) BY <1>3, <2>2 DEF LiveRowExists
    <3>2. j \notin new BY <3>1
    <3> QED BY <2>2, <3>1, <3>2
  <2> QED BY <2>1, <2>2
<1> QED BY <1>1, <1>2, <1>3 DEF LiveRowUnique, LiveRowExists

\* A retry hands its line from the running row to the new one.
LEMMA SupersededKeepsLines ==
    ASSUME TypeOK, RowsPlaced, LiveRowUnique, LiveRowExists,
           NEW j \in Job, NEW k \in Job, RowSuperseded(j, k)
    PROVE  RowsPlaced' /\ LiveRowUnique' /\ LiveRowExists'
<1> USE DEF RowSuperseded, Live, SameLine
<1>0. j # k
  OBVIOUS
<1>1. /\ state'[k] = "ready" /\ state'[j] = "retried"
      /\ dispatchOf'[k] = dispatchOf[j] /\ unitOf'[k] = unitOf[j]
      /\ \A i \in Job \ {k} : dispatchOf'[i] = dispatchOf[i] /\ unitOf'[i] = unitOf[i]
      /\ \A i \in Job \ {j, k} : state'[i] = state[i]
  BY <1>0 DEF TypeOK
<1>2. RowsPlaced'
  BY <1>1 DEF RowsPlaced
<1>3. ASSUME NEW i \in Job, Live(i)', SameLine(i, k)' PROVE i = k
  <2> SUFFICES ASSUME i # k PROVE FALSE
    OBVIOUS
  <2>1. i # j /\ Live(i) /\ SameLine(i, j) BY <1>1, <1>3
  <2> QED BY <2>1 DEF LiveRowUnique
<1>4. ASSUME NEW h \in Job, NEW i \in Job, Live(h)', Live(i)', SameLine(h, i)' PROVE h = i
  <2>1. CASE h = k \/ i = k
    BY <1>3, <1>4, <2>1
  <2>2. CASE h # k /\ i # k
    BY <1>1, <1>4, <2>2 DEF LiveRowUnique
  <2> QED BY <2>1, <2>2
<1>5. ASSUME NEW i \in Job, state'[i] # "none" PROVE \E h \in Job : Live(h)' /\ SameLine(i, h)'
  <2>1. CASE SameLine(i, k)'
    BY <1>1, <2>1
  <2>2. CASE ~SameLine(i, k)'
    <3>1. i # k /\ state[i] # "none" BY <1>1, <1>5, <2>2
    <3>2. PICK h \in Job : Live(h) /\ SameLine(i, h) BY <3>1 DEF LiveRowExists
    <3>3. h # k /\ h # j BY <1>1, <2>2, <3>1, <3>2
    <3> QED BY <1>1, <3>1, <3>2, <3>3
  <2> QED BY <2>1, <2>2
<1> QED BY <1>2, <1>4, <1>5 DEF LiveRowUnique, LiveRowExists

\* A dispatch not yet committed has no row and nothing to enqueue, and a unit is
\* taken off a fan-out's list by the transaction that writes its row.
LEMMA FreshStep ==
    ASSUME TypeOK, FanOutEnds, RowsPlaced, UnitsFresh, [Next]_vars
    PROVE  UnitsFresh'
<1>1. ASSUME NEW d \in Dispatch, Dispatching(d) PROVE UnitsFresh'
  <2>1. CASE UNCHANGED jobVars
    <3>1. UNCHANGED <<dispatchOf, unitOf>> BY <2>1 DEF jobVars
    <3>2. CASE SkipLaggingTick(d) \/ ClaimDispatch(d) \/ RollBackClaim(d) \/ FanOutAtomic(d)
      BY <3>1, <3>2
      DEF SkipLaggingTick, ClaimDispatch, RollBackClaim, FanOutAtomic, TickFree, UnitsFresh,
          TypeOK, streamVars
    <3>3. CASE CommitClaim(d)
      BY <3>1, <3>3 DEF CommitClaim, UnitsFresh, TypeOK
    <3>4. CASE StreamChunk(d) \/ StreamFinal(d) \/ StreamFail(d)
      <4>1. UNCHANGED status BY <3>4 DEF StreamChunk, StreamFinal, StreamFail, dispatchVars
      <4>2. \A e \in Dispatch : todo'[e] \subseteq todo[e]
        BY <3>4 DEF StreamChunk, StreamFinal, StreamFail, TypeOK
      <4> QED BY <3>1, <4>1, <4>2 DEF UnitsFresh
    <3> QED BY <1>1, <3>2, <3>3, <3>4 DEF Dispatching
  <2>2. CASE FanOutAtomic(d)
    <3>1. PICK new \in SUBSET Job : RowsWritten(d, Unit, new)
      <4>1. PICK U \in SUBSET Unit : Enqueue(d, U) BY <2>2 DEF FanOutAtomic
      <4>2. PICK new \in SUBSET Job : RowsWritten(d, U, new) BY <4>1, EnqueueWrites
      <4> QED BY <4>2 DEF RowsWritten
    <3>2. todo' = todo /\ todo[d] = {} /\ status' = [status EXCEPT ![d] = "fanned-out"]
      BY <2>2 DEF FanOutAtomic, TickFree, UnitsFresh, streamVars
    <3> QED BY <3>1, <3>2 DEF UnitsFresh, RowsWritten, TypeOK
  <2>3. ASSUME NEW U \in SUBSET todo[d], NEW new \in SUBSET Job,
               d \in streaming, RowsWritten(d, U, new),
               todo' = [todo EXCEPT ![d] = @ \ U] \/ todo' = [todo EXCEPT ![d] = {}],
               StreamChunk(d) \/ StreamFinal(d)
        PROVE  UnitsFresh'
    <3>1. status' = status BY <2>3 DEF StreamChunk, StreamFinal, dispatchVars
    <3>2. status[d] \notin {"none", "claiming"} BY <2>3 DEF FanOutEnds
    <3>3. todo'[d] \subseteq todo[d] \ U \/ todo'[d] = {} BY <2>3 DEF TypeOK
    <3>4. \A e \in Dispatch \ {d} : todo'[e] = todo[e] BY <2>3 DEF TypeOK
    <3>5. \A j \in Job : dispatchOf'[j] = d => unitOf'[j] \notin todo'[d]
      BY <2>3, <3>3 DEF UnitsFresh, RowsWritten
    <3>6. \A j \in Job, e \in Dispatch \ {d} :
            dispatchOf'[j] = e => dispatchOf[j] = e /\ unitOf'[j] = unitOf[j]
      BY <2>3 DEF RowsWritten
    <3> QED BY <3>1, <3>2, <3>4, <3>5, <3>6 DEF UnitsFresh
  <2> QED BY <1>1, <2>1, <2>2, <2>3, DispatcherRows
<1>2. ASSUME NEW w \in Worker, NEW k \in Job, Retry(w), RowSuperseded(holds[w], k), holds[w] \in Job
      PROVE  UnitsFresh'
  <2>1. status' = status /\ todo' = todo BY <1>2 DEF Retry, dispatchVars, streamVars
  <2>2. dispatchOf[holds[w]] \in Dispatch BY <1>2 DEF RowSuperseded, RowsPlaced
  <2> QED BY <1>2, <2>1, <2>2 DEF UnitsFresh, RowSuperseded, TypeOK
<1>3. CASE RowsStand /\ ~\E d \in Dispatch : Dispatching(d)
  <2>1. todo' = todo /\ \A d \in Dispatch : status'[d] \in {"none", "claiming"} => status[d] = status'[d]
    BY <1>3
    DEF Next, Operating, FindActive, CancelJobs, RecordDisposition, MayRecord, DropAct, Settle,
        Complete, DeadLetter, Retry, Discard, LoseJob, Claim, Reap, Verbs, TypeOK,
        vars, dispatchVars, streamVars
  <2> QED BY <1>3, <2>1 DEF UnitsFresh, RowsStand
<1> QED BY <1>1, <1>2, <1>3, EveryTableStep

\* LineInv is inductive; it needs only that a streamed fan-out is a committed one.
LEMMA LinesCorrect == Spec => []LineInv
<1>1. ConstantsAssumption /\ Init => LineInv
  BY DEF Init, LineInv, RowsPlaced, UnitsFresh, LiveRowUnique, LiveRowExists, Live, ConstantsAssumption
<1>2. ASSUME TypeOK, FanOutEnds, LineInv, [Next]_vars PROVE LineInv'
  <2>0. RowsPlaced /\ UnitsFresh /\ LiveRowUnique /\ LiveRowExists /\ UnitsFresh'
    BY <1>2, FreshStep DEF LineInv
  <2>1. CASE RowsStand
    <3>1. RowsPlaced' BY <2>0, <2>1 DEF RowsStand, RowsPlaced, Live
    <3>2. \A j \in Job : Live(j)' <=> Live(j) BY <2>1 DEF RowsStand, Live
    <3>3. \A j \in Job : state'[j] = "none" <=> state[j] = "none" BY <2>1 DEF RowsStand, Live
    <3>4. LiveRowUnique' BY <2>0, <2>1, <3>2 DEF RowsStand, LiveRowUnique, SameLine
    <3>5. LiveRowExists' BY <2>0, <2>1, <3>2, <3>3 DEF RowsStand, LiveRowExists, SameLine
    <3> QED BY <2>0, <3>1, <3>4, <3>5 DEF LineInv
  <2>2. ASSUME NEW d \in Dispatch, Dispatching(d), ~UNCHANGED jobVars PROVE LineInv'
    <3>1. CASE FanOutAtomic(d) /\ \E new \in SUBSET Job : RowsWritten(d, Unit, new)
      <4>1. \A j \in Job : dispatchOf[j] # d
        BY <2>0, <3>1 DEF FanOutAtomic, TickFree, UnitsFresh
      <4> QED BY <1>2, <2>0, <3>1, <4>1, WrittenKeepsLines DEF LineInv
    <3>2. ASSUME NEW U \in SUBSET todo[d], NEW new \in SUBSET Job, RowsWritten(d, U, new)
          PROVE  LineInv'
      <4>1. \A j \in Job : dispatchOf[j] = d => unitOf[j] \notin U
        BY <2>0 DEF UnitsFresh
      <4>2. U \in SUBSET Unit BY <1>2 DEF TypeOK
      <4> QED BY <1>2, <2>0, <3>2, <4>1, <4>2, WrittenKeepsLines DEF LineInv
    <3> QED BY <1>2, <2>2, <3>1, <3>2, DispatcherRows
  <2>3. ASSUME NEW j \in Job, NEW k \in Job, RowSuperseded(j, k) PROVE LineInv'
    BY <1>2, <2>0, <2>3, SupersededKeepsLines DEF LineInv
  <2> QED BY <1>2, <2>1, <2>2, <2>3, EveryTableStep
<1> QED BY <1>1, <1>2, TypeCorrect, FanOutEndsCorrect, ConstantsAssumption, PTL DEF Spec

\* Every written row's line has exactly one live row, OneLiveRow: a retry neither
\* loses nor forks a unit, for any number of workers and with lapsed leases.
THEOREM OneLiveRowCorrect == Spec => []OneLiveRow
<1>1. ASSUME LineInv PROVE OneLiveRow
  <2> SUFFICES ASSUME NEW i \in Job, state[i] # "none"
      PROVE \E j \in Job : /\ SameLine(i, j)
                           /\ \A k \in Job : SameLine(i, k) => (state[k] # "retried" <=> k = j)
    BY DEF OneLiveRow
  <2>1. PICK j \in Job : Live(j) /\ SameLine(i, j) BY <1>1 DEF LineInv, LiveRowExists
  <2>2. ASSUME NEW k \in Job, SameLine(i, k) PROVE state[k] # "retried" <=> k = j
    <3>1. state[k] # "none"
      BY <1>1, <2>2, ConstantsAssumption DEF LineInv, RowsPlaced, SameLine, ConstantsAssumption
    <3>2. SameLine(j, k) BY <2>1, <2>2 DEF SameLine
    <3> QED BY <1>1, <2>1, <3>1, <3>2 DEF LineInv, LiveRowUnique, Live
  <2> QED BY <2>1, <2>2
<1> QED BY <1>1, LinesCorrect, PTL

-----------------------------------------------------------------------------
(***************************************************************************)
(* The refinement: a line's verdict is the verdict of its one live row.    *)
(***************************************************************************)
\* What LineVerdict chooses is the line's live row, where it has rows.
LEMMA VerdictOfLine ==
    LineInv => \A d \in Dispatch, u \in Unit :
        IF RowsOf(d, u) = {} THEN LineVerdict(d, u) = "absent"
        ELSE \E j \in RowsOf(d, u) : Live(j) /\ LineVerdict(d, u) = Verdict(j)
<1> SUFFICES ASSUME LineInv, NEW d \in Dispatch, NEW u \in Unit, RowsOf(d, u) # {}
    PROVE \E j \in RowsOf(d, u) : Live(j) /\ LineVerdict(d, u) = Verdict(j)
  BY DEF LineVerdict
<1>1. PICK i \in Job : state[i] # "none" /\ dispatchOf[i] = d /\ unitOf[i] = u
  BY DEF RowsOf
<1>2. PICK j \in Job : Live(j) /\ SameLine(i, j)
  BY <1>1 DEF LineInv, LiveRowExists
<1>3. j \in RowsOf(d, u) /\ state[j] # "retried"
  BY <1>1, <1>2 DEF RowsOf, SameLine, Live
<1>4. \A k \in RowsOf(d, u) : state[k] # "retried" => Live(k)
  BY DEF RowsOf, Live
<1> DEFINE c == CHOOSE k \in RowsOf(d, u) : state[k] # "retried"
<1>5. c \in RowsOf(d, u) /\ state[c] # "retried"
  BY <1>3
<1>6. LineVerdict(d, u) = Verdict(c)
  BY DEF LineVerdict
<1> HIDE DEF c
<1> QED BY <1>4, <1>5, <1>6

\* A written row never leaves its line, and none is unwritten.
LEMMA RowsKeepLine ==
    ASSUME TypeOK, [Next]_vars, NEW j \in Job, state[j] # "none"
    PROVE  /\ state'[j] # "none"
           /\ dispatchOf'[j] = dispatchOf[j] /\ unitOf'[j] = unitOf[j]
<1>1. state'[j] # "none"
  BY EveryRowStep DEF RowStep, Kept, Moved, Settled
<1>2. ASSUME NEW d \in Dispatch, NEW U, NEW new, RowsWritten(d, U, new)
      PROVE  dispatchOf'[j] = dispatchOf[j] /\ unitOf'[j] = unitOf[j]
  BY <1>2 DEF RowsWritten
<1>3. ASSUME NEW d \in Dispatch, Dispatching(d)
      PROVE  dispatchOf'[j] = dispatchOf[j] /\ unitOf'[j] = unitOf[j]
  BY <1>2, <1>3, DispatcherRows DEF jobVars
<1>4. ASSUME NEW i \in Job, NEW k \in Job, RowSuperseded(i, k)
      PROVE  dispatchOf'[j] = dispatchOf[j] /\ unitOf'[j] = unitOf[j]
  BY <1>4 DEF RowSuperseded, TypeOK
<1> QED BY <1>1, <1>3, <1>4, EveryTableStep DEF RowsStand

\* A live row that stays live moves its verdict forward, or not at all.
LEMMA VerdictStep ==
    ASSUME TypeOK, OneOutcome, [Next]_vars, NEW j \in Job, Live(j), Live(j)'
    PROVE  Ledger!Advance(Verdict(j), Verdict(j)')
<1> USE DEF Ledger!Advance, Ledger!Closed, Verdict, NonTerminal
<1>1. RowStep(j) BY EveryRowStep
<1>2. CASE Kept(j)
  BY <1>2 DEF Kept
<1>3. CASE Moved(j, {"none"}, {"ready"}) \/ Moved(j, {"ready"}, {"running", "cancelled"})
           \/ Moved(j, {"running"}, {"ready", "dead", "retried", "cancelled"})
  <2>1. batch[j] = <<>> BY <1>3 DEF Moved, OneOutcome
  <2> QED BY <1>3, <2>1 DEF Moved, Live
<1>4. CASE Settled(j, "done", "completed")
  BY <1>4 DEF Settled
<1>5. CASE Settled(j, "dead", "dead-lettered")
  <2>1. batch[j] = <<>> BY <1>5 DEF Settled, OneOutcome
  <2>2. batch'[j] # <<>> BY <1>5, <2>1 DEF Settled
  <2> QED BY <1>5, <2>2 DEF Settled
<1> QED BY <1>1, <1>2, <1>3, <1>4, <1>5 DEF RowStep

\* The queue implements the ledger, ImplementsLedger: each unit of a dispatch is
\* opened at most once and closed at most once, by one verdict, which then stands.
THEOREM LedgerCorrect == Spec => ImplementsLedger
<1> DEFINE verdict == [l \in Dispatch \X Unit |-> LineVerdict(l[1], l[2])]
<1>0. (LineInv => \A d \in Dispatch, u \in Unit :
        IF RowsOf(d, u) = {} THEN LineVerdict(d, u) = "absent"
        ELSE \E j \in RowsOf(d, u) : Live(j) /\ LineVerdict(d, u) = Verdict(j))'
  BY VerdictOfLine, PTL
<1>1. Init => Ledger!LedgerInit
  <2> SUFFICES ASSUME Init, NEW d \in Dispatch, NEW u \in Unit PROVE LineVerdict(d, u) = "absent"
    BY DEF Ledger!LedgerInit
  <2>1. RowsOf(d, u) = {} BY DEF RowsOf, Init
  <2> QED BY <2>1 DEF LineVerdict
<1>2. ASSUME TypeOK, OneOutcome, LineInv, LineInv', [Next]_vars,
             NEW d \in Dispatch, NEW u \in Unit
      PROVE  Ledger!Advance(LineVerdict(d, u), LineVerdict(d, u)')
  <2>1. IF RowsOf(d, u) = {} THEN LineVerdict(d, u) = "absent"
        ELSE \E j \in RowsOf(d, u) : Live(j) /\ LineVerdict(d, u) = Verdict(j)
    BY <1>2, VerdictOfLine
  <2>2. IF RowsOf(d, u)' = {} THEN LineVerdict(d, u)' = "absent"
        ELSE \E j \in RowsOf(d, u)' : Live(j)' /\ LineVerdict(d, u)' = Verdict(j)'
    BY <1>0, <1>2
  <2>3. ASSUME NEW k \in RowsOf(d, u)', state[k] = "none" PROVE Verdict(k)' = "open"
    <3>1. k \in Job BY <2>3 DEF RowsOf
    <3>2. state'[k] = "ready"
      BY <1>2, <2>3, <3>1, EveryRowStep DEF RowStep, Kept, Moved, Settled, RowsOf
    <3> QED BY <3>2 DEF Verdict, NonTerminal
  <2>4. ASSUME NEW k \in RowsOf(d, u)', state[k] # "none" PROVE k \in RowsOf(d, u)
    BY <1>2, <2>4, RowsKeepLine DEF RowsOf
  <2>5. CASE RowsOf(d, u) = {}
    BY <2>1, <2>2, <2>3, <2>4, <2>5 DEF Ledger!Advance
  <2>6. CASE RowsOf(d, u) # {}
    <3>1. PICK j \in RowsOf(d, u) : Live(j) /\ LineVerdict(d, u) = Verdict(j) BY <2>1, <2>6
    <3>2. j \in Job /\ j \in RowsOf(d, u)' BY <1>2, <3>1, RowsKeepLine DEF RowsOf
    <3>3. PICK k \in RowsOf(d, u)' : Live(k)' /\ LineVerdict(d, u)' = Verdict(k)' BY <2>2, <3>2
    <3>4. k \in Job BY <3>3 DEF RowsOf
    <3>5. CASE Live(j)'
      <4>1. SameLine(j, k)' BY <3>2, <3>3 DEF RowsOf, SameLine
      <4>2. j = k BY <1>2, <3>2, <3>3, <3>4, <3>5, <4>1 DEF LineInv, LiveRowUnique
      <4> QED BY <1>2, <3>1, <3>2, <3>3, <3>5, <4>2, VerdictStep
    <3>6. CASE ~Live(j)'
      <4>1. Verdict(j) = "open"
        <5>1. state[j] = "running"
          BY <1>2, <3>1, <3>2, <3>6, EveryRowStep DEF RowStep, Kept, Moved, Settled, Live
        <5> QED BY <5>1 DEF Verdict, NonTerminal
      <4>2. state[k] = "none"
        <5> SUFFICES ASSUME state[k] # "none" PROVE FALSE OBVIOUS
        <5>1. k \in RowsOf(d, u) BY <2>4, <3>3
        <5>2. Live(k)
          BY <1>2, <3>3, <3>4, EveryRowStep DEF RowStep, Kept, Moved, Settled, Live
        <5>3. SameLine(j, k) BY <3>1, <5>1 DEF RowsOf, SameLine
        <5>4. j = k BY <1>2, <3>1, <3>2, <3>4, <5>2, <5>3 DEF LineInv, LiveRowUnique
        <5> QED BY <3>3, <3>6, <5>4
      <4> QED BY <2>3, <3>1, <3>3, <4>1, <4>2 DEF Ledger!Advance
    <3> QED BY <3>5, <3>6
  <2> QED BY <2>5, <2>6
<1>3. LineInv => \A d \in Dispatch, u \in Unit :
        LineVerdict(d, u) \in {"absent", "open"} \cup Ledger!Closed
  BY VerdictOfLine DEF Verdict, Ledger!Closed
<1>4. ASSUME TypeOK, OneOutcome, LineInv, LineInv', [Next]_vars PROVE Ledger!LedgerNext
  <2>1. (LineInv => \A d \in Dispatch, u \in Unit :
           LineVerdict(d, u) \in {"absent", "open"} \cup Ledger!Closed)'
    BY <1>3, PTL
  <2>2. verdict' \in [Dispatch \X Unit -> {"absent", "open"} \cup Ledger!Closed]
    BY <1>4, <2>1
  <2>3. \A l \in Dispatch \X Unit : Ledger!Advance(verdict[l], verdict'[l])
    BY <1>2, <1>4
  <2> QED BY <2>2, <2>3 DEF Ledger!LedgerNext
<1> QED
  BY <1>1, <1>4, TypeCorrect, OutcomeCorrect, LinesCorrect, PTL
  DEF Spec, ImplementsLedger, Ledger!LedgerSpec

-----------------------------------------------------------------------------
(***************************************************************************)
(* The gate.                                                               *)
(***************************************************************************)
\* Only a kind that streams is ever claimed ahead of its jobs.
StreamsByKind ==
    \A d \in Dispatch : (d \in streaming \/ status[d] = "claiming") => Streamed(d)

\* A dispatch gets its first row in flight from its own fan-out.
LEMMA NewlyActive ==
    ASSUME TypeOK, [Next]_vars, NEW d \in Dispatch, Active(d)'
    PROVE  Active(d) \/ FanOutAtomic(d) \/ d \in streaming
<1> USE DEF Active, JobsOf, NonTerminal
<1>1. PICK j \in Job : dispatchOf'[j] = d /\ state'[j] \in {"ready", "running"}
  OBVIOUS
<1>2. CASE state[j] # "none"
  <2>1. dispatchOf[j] = d BY <1>1, <1>2, RowsKeepLine
  <2>2. state[j] \in {"ready", "running"}
    BY <1>1, <1>2, EveryRowStep DEF RowStep, Kept, Moved, Settled
  <2> QED BY <2>1, <2>2
<1>3. CASE state[j] = "none"
  <2>1. ~RowsStand
    BY <1>1, <1>3 DEF RowsStand, Live
  <2>2. ASSUME NEW e \in Dispatch, Dispatching(e), ~UNCHANGED jobVars
        PROVE  Active(d) \/ FanOutAtomic(d) \/ d \in streaming
    <3>1. ASSUME NEW U, NEW new, RowsWritten(e, U, new) PROVE e = d
      BY <1>1, <1>3, <3>1 DEF RowsWritten
    <3> QED BY <2>2, <3>1, DispatcherRows
  <2>3. ASSUME NEW w \in Worker, NEW k \in Job, RowSuperseded(holds[w], k), holds[w] \in Job
        PROVE  Active(d)
    <3>1. j = k BY <1>1, <1>3, <2>3 DEF RowSuperseded, TypeOK
    <3> QED BY <1>1, <2>3, <3>1 DEF RowSuperseded, TypeOK
  <2> QED BY <2>1, <2>2, <2>3, EveryTableStep
<1> QED BY <1>2, <1>3

\* StreamsByKind is inductive: claimDispatch is reached by the streamed kinds alone.
LEMMA StreamsByKindCorrect == Spec => []StreamsByKind
<1>1. Init => StreamsByKind
  BY DEF Init, StreamsByKind
<1>2. ASSUME TypeOK, StreamsByKind, [Next]_vars PROVE StreamsByKind'
  <2> USE DEF StreamsByKind, Streamed, KindOf
  <2>1. ASSUME NEW d \in Dispatch, Dispatching(d) PROVE StreamsByKind'
    BY <1>2, <2>1
    DEF Dispatching, SkipLaggingTick, FanOutAtomic, ClaimDispatch, CommitClaim, RollBackClaim,
        StreamChunk, StreamFinal, StreamFail, dispatchVars, streamVars, TypeOK
  <2>2. ASSUME NEW d \in Dispatch, Operating(d) PROVE StreamsByKind'
    BY <1>2, <2>2
    DEF Operating, FindActive, CancelJobs, RecordDisposition, DropAct, Verbs, dispatchVars, streamVars, TypeOK
  <2>3. CASE UNCHANGED <<dispatchVars, streamVars>>
    BY <1>2, <2>3 DEF dispatchVars, streamVars
  <2> QED
    BY <1>2, <2>1, <2>2, <2>3
    DEF Next, Settle, Complete, DeadLetter, Retry, Discard, LoseJob, Claim, Reap, vars
<1> QED BY <1>1, <1>2, TypeCorrect, PTL DEF Spec

\* Two ticks of one atomically fanned-out, gated scan never both have work in
\* flight, NoOvertaking: the gate reads and the fan-out writes in one transaction.
THEOREM GateCorrect == Spec => []NoOvertaking
<1>1. Init => NoOvertaking
  BY DEF Init, NoOvertaking, Active, JobsOf, NonTerminal
<1>2. ASSUME TypeOK, StreamsByKind, NoOvertaking, [Next]_vars PROVE NoOvertaking'
  <2> SUFFICES ASSUME NEW d \in Dispatch, NEW e \in Dispatch, d # e, ScanOf[d] = ScanOf[e],
                      Gated(d), ~Streamed(d), Active(d)', Active(e)'
               PROVE  FALSE
    BY DEF NoOvertaking, Gated, Streamed, KindOf
  <2>1. Gated(e) /\ ~Streamed(e)
    BY DEF Gated, Streamed, KindOf
  <2>2. Active(d) \/ FanOutAtomic(d)
    BY <1>2, NewlyActive DEF StreamsByKind
  <2>3. Active(e) \/ FanOutAtomic(e)
    BY <1>2, <2>1, NewlyActive DEF StreamsByKind
  <2>4. ~(Active(d) /\ Active(e))
    BY <1>2 DEF NoOvertaking
  <2>5. ~(Active(d) /\ FanOutAtomic(e)) /\ ~(Active(e) /\ FanOutAtomic(d))
    BY <2>1 DEF FanOutAtomic, Lagging
  <2>6. ~(FanOutAtomic(d) /\ FanOutAtomic(e))
    BY <1>2 DEF FanOutAtomic, TickFree, TypeOK
  <2> QED BY <2>2, <2>3, <2>4, <2>5, <2>6
<1> QED BY <1>1, <1>2, TypeCorrect, StreamsByKindCorrect, PTL DEF Spec

-----------------------------------------------------------------------------
(***************************************************************************)
(* The lease.  Where it outlasts the work, a claimed row stays its worker's*)
(* until that worker lets go of it.                                        *)
(***************************************************************************)
HeldRowsStay ==
    \A w \in Worker : holds[w] # NoJob =>
        /\ state[holds[w]] \in {"running", "cancelled"}
        /\ heldAttempt[w] = attempt[holds[w]]

OneHolder ==
    \A w, x \in Worker : (holds[w] = holds[x] /\ holds[w] # NoJob) => w = x

WithinBudget == \A j \in Job : state[j] \in NonTerminal => attempt[j] \in 1..MaxAttempts

Climbing ==
    \A i, j \in Job :
        (state[i] = "retried" /\ Live(j) /\ SameLine(i, j)) => attempt[j] > attempt[i]

LeaseInv == HeldRowsStay /\ OneHolder /\ WithinBudget /\ Climbing

\* A held row leaves running only by its holder's write or by a terminate.
LEMMA LeaseStep ==
    ASSUME LeaseCoversWork, TypeOK, HeldRowsStay, OneHolder, WithinBudget,
           [Next]_vars
    PROVE  HeldRowsStay' /\ OneHolder' /\ WithinBudget'
<1> USE DEF HeldRowsStay, OneHolder, WithinBudget, NonTerminal
<1>0. MaxAttempts \in Nat \ {0} /\ NoJob \notin Job
  BY ConstantsAssumption DEF ConstantsAssumption
<1>1. ASSUME NEW d \in Dispatch, Dispatching(d) PROVE HeldRowsStay' /\ OneHolder' /\ WithinBudget'
  <2>0. UNCHANGED workerVars
    BY <1>1 DEF Dispatching, SkipLaggingTick, FanOutAtomic, ClaimDispatch, CommitClaim,
                RollBackClaim, StreamChunk, StreamFinal, StreamFail
  <2>1. CASE UNCHANGED jobVars
    BY <2>0, <2>1 DEF jobVars, workerVars
  <2>2. ASSUME NEW U, NEW new \in SUBSET Job, RowsWritten(d, U, new)
        PROVE  HeldRowsStay' /\ OneHolder' /\ WithinBudget'
    <3>1. OneHolder' BY <2>0 DEF workerVars
    <3>2. WithinBudget' BY <1>0, <2>2 DEF RowsWritten
    <3>3. ASSUME NEW w \in Worker, holds[w] # NoJob
          PROVE  state'[holds[w]] = state[holds[w]] /\ attempt'[holds[w]] = attempt[holds[w]]
      <4>1. holds[w] \in Job BY <3>3 DEF TypeOK
      <4>2. state[holds[w]] # "none" BY <3>3
      <4>3. holds[w] \in Job \ new BY <2>2, <4>1, <4>2 DEF RowsWritten
      <4> QED BY <2>2, <4>3 DEF RowsWritten
    <3>4. HeldRowsStay' BY <2>0, <3>3 DEF workerVars
    <3> QED BY <3>1, <3>2, <3>4
  <2> QED BY <1>1, <2>1, <2>2, DispatcherRows
<1>2. ASSUME NEW d \in Dispatch, Operating(d) PROVE HeldRowsStay' /\ OneHolder' /\ WithinBudget'
  <2>1. UNCHANGED <<attempt, workerVars>>
    BY <1>2 DEF Operating, FindActive, CancelJobs, RecordDisposition, DropAct, jobVars
  <2>2. \A j \in Job : state'[j] = state[j] \/ (state[j] \in NonTerminal /\ state'[j] = "cancelled")
    <3>1. CASE \E v \in Verbs : CancelJobs(d, v)
      BY <3>1 DEF CancelJobs, Cancels, TypeOK
    <3>2. CASE UNCHANGED state
      BY <3>2
    <3> QED BY <1>2, <3>1, <3>2 DEF Operating, FindActive, RecordDisposition, DropAct, jobVars
  <2> QED BY <2>1, <2>2 DEF workerVars, TypeOK
<1>3. ASSUME NEW w \in Worker, Complete(w) \/ DeadLetter(w)
      PROVE  HeldRowsStay' /\ OneHolder' /\ WithinBudget'
  <2>1. PICK to \in {"done", "dead"} : state' = [state EXCEPT ![holds[w]] = to]
    BY <1>3 DEF Complete, DeadLetter
  <2>2. UNCHANGED attempt /\ Release(w) /\ holds[w] \in Job
    BY <1>3 DEF Complete, DeadLetter, MayWrite, TypeOK
  <2>3. WithinBudget' BY <2>1, <2>2 DEF TypeOK
  <2>4. OneHolder' BY <1>0, <2>2 DEF Release, TypeOK
  <2>5. ASSUME NEW x \in Worker, holds'[x] # NoJob
        PROVE  state'[holds'[x]] \in {"running", "cancelled"} /\ heldAttempt'[x] = attempt'[holds'[x]]
    <3>1. x # w /\ holds'[x] = holds[x] /\ heldAttempt'[x] = heldAttempt[x]
      BY <2>2, <2>5 DEF Release, TypeOK
    <3>2. holds[x] \in Job /\ holds[x] # holds[w] BY <2>2, <2>5, <3>1 DEF TypeOK
    <3> QED BY <2>1, <2>2, <2>5, <3>1, <3>2 DEF TypeOK
  <2> QED BY <2>3, <2>4, <2>5
<1>4. ASSUME NEW w \in Worker, Discard(w) \/ LoseJob(w)
      PROVE  HeldRowsStay' /\ OneHolder' /\ WithinBudget'
  BY <1>0, <1>4 DEF Discard, LoseJob, Release, jobVars, TypeOK
<1>5. ASSUME NEW w \in Worker, Retry(w) PROVE HeldRowsStay' /\ OneHolder' /\ WithinBudget'
  <2>1. PICK k \in Job :
          /\ state[k] = "none"
          /\ state' = [state EXCEPT ![k] = "ready", ![holds[w]] = "retried"]
          /\ attempt' = [attempt EXCEPT ![k] = heldAttempt[w] + 1]
    BY <1>5 DEF Retry
  <2>2. holds[w] \in Job /\ state[holds[w]] = "running" /\ k # holds[w]
    BY <1>5, <2>1 DEF Retry, MayWrite, TypeOK
  <2>3. heldAttempt[w] \in Nat /\ heldAttempt[w] < MaxAttempts
    BY <1>0, <1>5 DEF Retry, Exhausted, TypeOK
  <2>4. WithinBudget'
    BY <1>0, <2>1, <2>2, <2>3 DEF TypeOK
  <2>5. OneHolder'
    BY <1>0, <1>5 DEF Retry, Release, TypeOK
  <2>6. HeldRowsStay'
    <3> SUFFICES ASSUME NEW x \in Worker, holds'[x] # NoJob
        PROVE state'[holds'[x]] \in {"running", "cancelled"} /\ heldAttempt'[x] = attempt'[holds'[x]]
      OBVIOUS
    <3>1. x # w /\ holds'[x] = holds[x] /\ heldAttempt'[x] = heldAttempt[x]
      BY <1>5 DEF Retry, Release, TypeOK
    <3>2. holds[x] \in Job /\ holds[x] # holds[w] /\ holds[x] # k
      BY <2>1, <2>2, <3>1 DEF TypeOK
    <3> QED BY <2>1, <3>1, <3>2 DEF TypeOK
  <2> QED BY <2>4, <2>5, <2>6
<1>6. ASSUME NEW w \in Worker, NEW j \in Job, Claim(w, j)
      PROVE  HeldRowsStay' /\ OneHolder' /\ WithinBudget'
  BY <1>0, <1>6 DEF Claim, TypeOK
<1>7. CASE Reap
  <2>1. PICK S \in SUBSET MayBeStale :
          /\ state' = [j \in Job |-> IF j \in S THEN ReapedState(j) ELSE state[j]]
          /\ attempt' = [j \in Job |-> IF j \in S THEN attempt[j] + 1 ELSE attempt[j]]
    BY <1>7 DEF Reap
  <2>2. UNCHANGED workerVars BY <1>7 DEF Reap
  <2>3. \A j \in S : j \in Job /\ state[j] = "running" /\ \A w \in Worker : holds[w] # j
    BY <2>1 DEF MayBeStale
  <2>4. WithinBudget'
    BY <1>0, <2>1, <2>3 DEF ReapedState, TypeOK
  <2>5. HeldRowsStay' /\ OneHolder'
    BY <2>1, <2>2, <2>3 DEF workerVars, TypeOK
  <2> QED BY <2>4, <2>5
<1>8. CASE UNCHANGED vars
  BY <1>8 DEF vars, jobVars, workerVars
<1> QED BY <1>1, <1>2, <1>3, <1>4, <1>5, <1>6, <1>7, <1>8 DEF Next, Settle

\* A retry's row starts above the row it supersedes, and a reap only raises it.
LEMMA ClimbStep ==
    ASSUME TypeOK, LineInv, LineInv', HeldRowsStay, Climbing, [Next]_vars
    PROVE  Climbing'
<1> USE DEF Climbing, SameLine
<1>0. RowsPlaced /\ UnitsFresh /\ LiveRowUnique /\ LiveRowUnique'
  BY DEF LineInv
<1>1. ASSUME NEW d \in Dispatch, Dispatching(d) PROVE Climbing'
  <2>1. CASE UNCHANGED jobVars
    BY <2>1 DEF jobVars, Live
  <2>2. ASSUME NEW U \in SUBSET Unit, NEW new \in SUBSET Job, RowsWritten(d, U, new),
               \A j \in Job : dispatchOf[j] = d => unitOf[j] \notin U
        PROVE  Climbing'
    BY <2>2 DEF RowsWritten, Live
  <2>3. CASE FanOutAtomic(d) /\ \E new \in SUBSET Job : RowsWritten(d, Unit, new)
    BY <1>0, <2>2, <2>3 DEF FanOutAtomic, TickFree, UnitsFresh
  <2>4. ASSUME NEW U \in SUBSET todo[d], NEW new \in SUBSET Job, RowsWritten(d, U, new)
        PROVE  Climbing'
    <3>1. U \in SUBSET Unit BY DEF TypeOK
    <3> QED BY <1>0, <2>2, <2>4, <3>1 DEF UnitsFresh
  <2> QED BY <1>1, <2>1, <2>3, <2>4, DispatcherRows
<1>2. ASSUME NEW w \in Worker, Retry(w) PROVE Climbing'
  <2>1. PICK k \in Job :
          /\ RowSuperseded(holds[w], k) /\ holds[w] \in Job
          /\ attempt' = [attempt EXCEPT ![k] = heldAttempt[w] + 1]
    BY <1>2 DEF Retry, RowSuperseded, MayWrite, TypeOK
  <2>2. /\ state[holds[w]] = "running" /\ k # holds[w] /\ state[k] = "none"
        /\ state' = [state EXCEPT ![k] = "ready", ![holds[w]] = "retried"]
        /\ attempt'[k] = attempt[holds[w]] + 1
        /\ \A i \in Job \ {k} : attempt'[i] = attempt[i] /\ dispatchOf'[i] = dispatchOf[i]
                                /\ unitOf'[i] = unitOf[i]
        /\ dispatchOf'[k] = dispatchOf[holds[w]] /\ unitOf'[k] = unitOf[holds[w]]
    BY <1>2, <2>1 DEF RowSuperseded, HeldRowsStay, Retry, MayWrite, TypeOK
  <2> SUFFICES ASSUME NEW i \in Job, NEW j \in Job, state'[i] = "retried", Live(j)', SameLine(i, j)'
               PROVE  attempt'[j] > attempt'[i]
    BY DEF Live
  <2>3. i # k /\ j # holds[w] BY <2>2 DEF Live, TypeOK
  <2>4. attempt[i] \in Nat /\ attempt[holds[w]] \in Nat BY <2>1 DEF TypeOK
  <2>5. CASE i = holds[w]
    <3>1. Live(k)' /\ SameLine(j, k)' BY <2>2, <2>3, <2>5 DEF Live, TypeOK
    <3>2. j = k BY <1>0, <3>1 DEF LiveRowUnique
    <3> QED BY <2>2, <2>3, <2>4, <2>5, <3>2
  <2>6. CASE i # holds[w] /\ j = k
    <3>1. state[i] = "retried" /\ SameLine(i, holds[w]) BY <2>2, <2>3, <2>6 DEF TypeOK
    <3>2. attempt[holds[w]] > attempt[i] BY <2>1, <2>2, <3>1 DEF Live
    <3> QED BY <2>2, <2>3, <2>4, <2>6, <3>2
  <2>7. CASE i # holds[w] /\ j # k
    BY <2>2, <2>3, <2>7 DEF Live, TypeOK
  <2> QED BY <2>5, <2>6, <2>7
<1>3. CASE RowsStand /\ ~\E d \in Dispatch : Dispatching(d)
  <2>1. \A j \in Job : attempt'[j] = attempt[j] \/ (state[j] = "running" /\ attempt'[j] = attempt[j] + 1)
    BY <1>3
    DEF Next, Operating, FindActive, CancelJobs, RecordDisposition, DropAct, Settle, Complete,
        DeadLetter, Retry, Discard, LoseJob, Claim, Reap, MayBeStale, RowsStand, Live, TypeOK,
        vars, jobVars
  <2>2. \A j \in Job : attempt[j] \in Nat BY DEF TypeOK
  <2> SUFFICES ASSUME NEW i \in Job, NEW j \in Job, state'[i] = "retried", Live(j)', SameLine(i, j)'
               PROVE  attempt'[j] > attempt'[i]
    BY DEF Live
  <2>3. state[i] = "retried" /\ Live(j) /\ SameLine(i, j) BY <1>3 DEF RowsStand, Live
  <2>4. attempt[j] > attempt[i] BY <2>3
  <2> QED BY <2>1, <2>2, <2>3, <2>4
<1> QED BY <1>1, <1>2, <1>3, EveryTableStep

\* Where the stale threshold outlasts every probe, no two workers measure one unit
\* of a dispatch at a time and its tries are counted to the budget: UnitsKept.
THEOREM LeaseCorrect == LeaseCoversWork => (Spec => []UnitsKept)
<1> SUFFICES ASSUME LeaseCoversWork PROVE Spec => []UnitsKept
  OBVIOUS
<1>1. Init => LeaseInv
  BY DEF Init, LeaseInv, HeldRowsStay, OneHolder, WithinBudget, Climbing, NonTerminal
<1>2. ASSUME TypeOK, LineInv, LineInv', LeaseInv, [Next]_vars PROVE LeaseInv'
  BY <1>2, LeaseStep, ClimbStep DEF LeaseInv, LineInv
<1>3. ASSUME TypeOK, LineInv, LeaseInv PROVE UnitsKept
  <2>1. UnitExclusive
    <3> SUFFICES ASSUME NEW w \in Worker, NEW x \in Worker, w # x, holds[w] # NoJob,
                        holds[x] # NoJob, SameLine(holds[w], holds[x])
                 PROVE  FALSE
      BY DEF UnitExclusive
    <3>1. holds[w] \in Job /\ holds[x] \in Job BY <1>3 DEF TypeOK
    <3>2. Live(holds[w]) /\ Live(holds[x]) BY <1>3 DEF LeaseInv, HeldRowsStay, Live
    <3>3. holds[w] = holds[x] BY <1>3, <3>1, <3>2 DEF LineInv, LiveRowUnique
    <3> QED BY <1>3, <3>3 DEF LeaseInv, OneHolder
  <2>2. AttemptsClimb
    BY <1>3 DEF LeaseInv, WithinBudget, Climbing, AttemptsClimb, Live, NonTerminal
  <2> QED BY <2>1, <2>2 DEF UnitsKept
<1> QED BY <1>1, <1>2, <1>3, TypeCorrect, LinesCorrect, PTL DEF Spec

=============================================================================
