-------------------------------- MODULE CTTail --------------------------------
(***************************************************************************)
(* The certificate-log tail.  Every tick enqueues one job per followed     *)
(* log; a job reads the log forward from the log's durable cursor, a       *)
(* window at a time, and admits the names of what it read that a declared  *)
(* seed covers.  Admissions, the cursor's advance and the job's end commit *)
(* together.                                                               *)
(*                                                                         *)
(* The log is somebody else's: it grows, serves an old head, answers a     *)
(* request with fewer entries than it was asked for, or fails.  A window   *)
(* outlives the stale-job cutoff, so a worker renews its lease before each *)
(* request; a worker that is slow all the same shares its row with the     *)
(* worker that claims it after the reaper.                                 *)
(*                                                                         *)
(* Entries are named by their index in the log; an entry stands for one    *)
(* certificate, with the domains that cover its name.                      *)
(***************************************************************************)
EXTENDS Integers, FiniteSets

CONSTANTS
    Log, Worker,
    Seed,                \* name seeds the operator may declare
    Covers,              \* the seeds whose domain covers an entry's name
    Depth,               \* the length of a seed's domain
    MaxTree,             \* bound: entries a log grows to
    CTTailBatch,         \* entries asked of an RFC 6962 log at once
    CTTileWidth,         \* entries of a full data tile
    MaxEntriesPerPoll,   \* entries one job may read
    MaxAdmittedNames,    \* names one job may admit
    MaxAttempts,         \* attempts of a job
    MaxFaults,           \* bound: failures, stale heads, crashes and early reaps
    MaxActs              \* bound: operator acts

Entry == 0..(MaxTree - 1)
NoCursor == -1
Nothing == MaxTree      \* the unsupported entry of a log that has none

ASSUME TailAssumption ==
    /\ Covers \in [Entry -> SUBSET Seed]
    /\ Depth \in [Seed -> Nat]
    /\ \A s, t \in Seed : Depth[s] = Depth[t] => s = t
    /\ {MaxTree, CTTailBatch, CTTileWidth, MaxEntriesPerPoll, MaxAttempts} \subseteq Nat \ {0}
    /\ {MaxAdmittedNames, MaxFaults, MaxActs} \subseteq Nat

VARIABLES
    tree,        \* the size of a log
    tiled,       \* the logs read by tile
    odd,         \* the entry of an unsupported type, where a tiled log has one
    cursor,      \* ct_log_cursor.tree_size
    start,       \* where a log's cursor was first put
    read,        \* the entries committed batches of a log have read
    admitted,    \* admitted_name: an entry of a log, under a seed
    seeds,       \* declared name seeds
    steady,      \* declared since the start and never withdrawn
    on,          \* the ct-tail source's toggle
    job,         \* the state and attempt of a log's row that is not terminal
    at,          \* where a worker stands
    faults, acts

logVars == <<tree, tiled, odd>>
tailVars == <<cursor, start, read, admitted>>
seedVars == <<seeds, steady, on>>
vars == <<logVars, tailVars, seedVars, job, at, faults, acts>>

NoJob == [st |-> "none", attempt |-> 0]
Idle == [pc |-> "idle", row |-> "gone", log |-> "none"]

\* Where a worker stands, with what it has read by then.
AtHead == [pc : {"head"}, log : Log, attempt : 0..MaxAttempts, row : {"held", "gone"}]
AtFetch == [pc : {"fetch", "seeds"}, log : Log, attempt : 0..MaxAttempts, row : {"held", "gone"},
            size : 0..MaxTree, got : SUBSET Entry, reached : 0..MaxTree, end : 0..MaxTree]
AtCommit == [pc : {"commit"}, log : Log, attempt : 0..MaxAttempts, row : {"held", "gone"},
             got : SUBSET Entry, reached : 0..MaxTree, seeds : SUBSET Seed]
Place == {Idle} \cup AtHead \cup AtFetch \cup AtCommit

TypeOK ==
    /\ tree \in [Log -> 0..MaxTree] /\ tiled \subseteq Log /\ odd \in [Log -> 0..MaxTree]
    /\ cursor \in [Log -> NoCursor..MaxTree] /\ start \in [Log -> NoCursor..MaxTree]
    /\ read \in [Log -> SUBSET Entry] /\ admitted \subseteq Log \X Entry \X Seed
    /\ seeds \subseteq Seed /\ steady \subseteq seeds /\ on \in BOOLEAN
    /\ job \in [Log -> [st : {"none", "ready", "running"}, attempt : 0..MaxAttempts]]
    /\ at \in [Worker -> Place]
    /\ faults \in 0..MaxFaults /\ acts \in 0..MaxActs

Init ==
    /\ tree = [l \in Log |-> 0]
    /\ tiled \in SUBSET Log
    /\ odd \in [Log -> {Nothing} \cup Entry]
    /\ \A l \in Log : l \notin tiled => odd[l] = Nothing
    /\ cursor = [l \in Log |-> NoCursor]
    /\ start = cursor
    /\ read = [l \in Log |-> {}]
    /\ admitted = {}
    /\ seeds = Seed /\ steady = seeds
    /\ on = FALSE
    /\ job = [l \in Log |-> NoJob]
    /\ at = [w \in Worker |-> Idle]
    /\ faults = 0 /\ acts = 0

-----------------------------------------------------------------------------
(* The log, and the operator.                                              *)

Grow(l) ==
    /\ tree[l] < MaxTree
    /\ tree' = [tree EXCEPT ![l] = @ + 1]
    /\ UNCHANGED <<tiled, odd, tailVars, seedVars, job, at, faults, acts>>

Acts == acts < MaxActs /\ acts' = acts + 1

Toggle ==
    /\ Acts
    /\ on' = ~on
    /\ UNCHANGED <<logVars, tailVars, seeds, steady, job, at, faults>>

Declare(s) ==
    /\ Acts
    /\ s \notin seeds
    /\ seeds' = seeds \cup {s}
    /\ UNCHANGED <<logVars, tailVars, steady, on, job, at, faults>>

(* A seed takes the names admitted under it along.                         *)
Withdraw(s) ==
    /\ Acts
    /\ s \in seeds
    /\ seeds' = seeds \ {s} /\ steady' = steady \ {s}
    /\ admitted' = {a \in admitted : a[3] # s}
    /\ UNCHANGED <<logVars, cursor, start, read, on, job, at, faults>>

-----------------------------------------------------------------------------
(* The queue, as the tail's jobs meet it.                                  *)

(* A tick fans out when the source is on and the scan's last jobs are over. *)
FanOutCTTail ==
    /\ on
    /\ \A l \in Log : job[l] = NoJob
    /\ job' = [l \in Log |-> [st |-> "ready", attempt |-> 1]]
    /\ UNCHANGED <<logVars, tailVars, seedVars, at, faults, acts>>

Claim(w, l) ==
    /\ at[w] = Idle
    /\ job[l].st = "ready"
    /\ job' = [job EXCEPT ![l].st = "running"]
    /\ at' = [at EXCEPT ![w] = [pc |-> "head", log |-> l, attempt |-> job[l].attempt,
                                row |-> "held"]]
    /\ UNCHANGED <<logVars, tailVars, seedVars, faults, acts>>

(* A worker may write only while the row it claimed is 'running'; who      *)
(* claimed it last is not asked.                                           *)
Holds(w, l) == at[w].log = l /\ at[w].row = "held"
MayWrite(w) == \E l \in Log : Holds(w, l) /\ job[l].st = "running"

(* A row that reaches a terminal state never leaves it: whoever holds it   *)
(* can write no more.                                                      *)
Over(l, here) ==
    [w \in Worker |->
        IF Holds(w, l) THEN [here[w] EXCEPT !.row = "gone"] ELSE here[w]]
Leave(w, here) == [here EXCEPT ![w] = Idle]

Discard(w) ==
    /\ at' = Leave(w, at)
    /\ UNCHANGED <<logVars, tailVars, seedVars, job, faults, acts>>

(* The poll failed: the row ends and, attempts left, the next one begins.  *)
(* The cursor is not touched.                                              *)
RetryOrDeadLetterCT(w) ==
    LET l == at[w].log
    IN /\ job' = [job EXCEPT ![l] = IF at[w].attempt >= MaxAttempts THEN NoJob
                                    ELSE [st |-> "ready", attempt |-> at[w].attempt + 1]]
       /\ at' = Leave(w, Over(l, at))

DeadLetterCT(w) ==
    /\ job' = [job EXCEPT ![at[w].log] = NoJob]
    /\ at' = Leave(w, Over(at[w].log, at))

Fail(w) ==
    /\ faults < MaxFaults /\ faults' = faults + 1
    /\ RetryOrDeadLetterCT(w)
    /\ UNCHANGED <<logVars, tailVars, seedVars, acts>>

(* The reaper hands the row on, or ends it.  It may be early, the worker   *)
(* still at work; an orphan it reaps in the end.                           *)
Orphan(l) == job[l].st = "running" /\ \A w \in Worker : ~Holds(w, l)

ReapedRow(r) ==
    IF r.attempt >= MaxAttempts THEN NoJob ELSE [st |-> "ready", attempt |-> r.attempt + 1]

Reap(l) ==
    /\ job[l].st = "running"
    /\ job' = [job EXCEPT ![l] = ReapedRow(@)]
    /\ at' = IF job[l].attempt >= MaxAttempts THEN Over(l, at) ELSE at
    /\ \/ Orphan(l) /\ UNCHANGED faults
       \/ ~Orphan(l) /\ faults < MaxFaults /\ faults' = faults + 1
    /\ UNCHANGED <<logVars, tailVars, seedVars, acts>>

Die(w) ==
    /\ at[w] # Idle
    /\ faults < MaxFaults /\ faults' = faults + 1
    /\ at' = Leave(w, at)
    /\ UNCHANGED <<logVars, tailVars, seedVars, job, acts>>

-----------------------------------------------------------------------------
(* One poll.                                                               *)

Least(a, b) == IF a < b THEN a ELSE b

CTTailShrunk(cur, size) == cur # NoCursor /\ size < cur

(* A log with no cursor is taken from its head on.                         *)
CTTailStart(cur, size) == IF cur = NoCursor THEN size ELSE cur
CTTailEnd(cur, size) ==
    IF cur = NoCursor THEN size ELSE Least(size, cur + MaxEntriesPerPoll)

(* The worker reads the cursor, renews its lease and asks the log for its  *)
(* head, which may be an old one.                                          *)
ReadHead(w) ==
    /\ at[w].pc = "head"
    /\ LET l == at[w].log IN
       \/ ~MayWrite(w) /\ Discard(w)
       \/ MayWrite(w) /\ Fail(w)
       \/ /\ MayWrite(w)
          /\ \E size \in 0..tree[l] :
                /\ size < tree[l] => faults < MaxFaults
                /\ faults' = IF size < tree[l] THEN faults + 1 ELSE faults
                /\ IF CTTailShrunk(cursor[l], size)
                   THEN RetryOrDeadLetterCT(w)
                   ELSE /\ at' = [at EXCEPT ![w] =
                                    [pc |-> "fetch", log |-> l, attempt |-> @.attempt,
                                     row |-> @.row, size |-> size, got |-> {},
                                     reached |-> CTTailStart(cursor[l], size),
                                     end |-> CTTailEnd(cursor[l], size)]]
                        /\ UNCHANGED job
          /\ UNCHANGED <<logVars, tailVars, seedVars, acts>>

AnswersShort(w) ==
    LET r == at[w].reached
    IN {r..(r + n - 1) : n \in 0..(Least(r + CTTailBatch, at[w].end - 1) - r)}

(* The entries one more request brings, `reached` and beyond: an RFC 6962  *)
(* log answers with some of the entries asked for, from the first on; a    *)
(* tile holds the entries from its base, those up to `reached` too.        *)
Answers(w) ==
    LET r == at[w].reached
        base == (r \div CTTileWidth) * CTTileWidth
        width == Least(CTTileWidth, at[w].size - base)
    IN IF at[w].log \in tiled
       THEN {r..(Least(base + n, at[w].end) - 1) : n \in 0..width}
       ELSE {r..(r + n - 1) : n \in 0..(Least(r + CTTailBatch, at[w].end) - r)}

Full(w) == CHOOSE a \in Answers(w) : \A b \in Answers(w) : b \subseteq a

(* A tile with an entry of a type the reader cannot frame.                 *)
Unsupported(w) ==
    LET base == (at[w].reached \div CTTileWidth) * CTTileWidth
    IN /\ at[w].log \in tiled
       /\ odd[at[w].log] \in base..(Least(base + CTTileWidth, at[w].size) - 1)

(* The cursor advances by the count returned, not by the count asked for.  *)
ReachedAsAsked(w, a) == Least(at[w].reached + CTTailBatch, at[w].end)
ReachedAfter(w, a) == at[w].reached + Cardinality(a)

(* One request.  No answer beyond `reached` ends the window early.         *)
FetchEntries(w) ==
    /\ at[w].pc = "fetch" /\ at[w].reached < at[w].end
    /\ \/ ~MayWrite(w) /\ Discard(w)
       \/ MayWrite(w) /\ Fail(w)
       \/ /\ MayWrite(w) /\ Unsupported(w)
          /\ DeadLetterCT(w)
          /\ UNCHANGED <<logVars, tailVars, seedVars, faults, acts>>
       \/ /\ MayWrite(w) /\ ~Unsupported(w)
          /\ \E a \in Answers(w) :
                /\ a # Full(w) => faults < MaxFaults
                /\ faults' = IF a # Full(w) THEN faults + 1 ELSE faults
                /\ at' = [at EXCEPT ![w].got = @ \cup a,
                                    ![w].reached = ReachedAfter(w, a),
                                    ![w].pc = IF a = {} THEN "seeds" ELSE "fetch"]
          /\ UNCHANGED <<logVars, tailVars, seedVars, job, acts>>

(* The seeds are read once, when the window is.                            *)
ReadSeeds(w) ==
    /\ \/ at[w].pc = "seeds"
       \/ at[w].pc = "fetch" /\ at[w].reached >= at[w].end
    /\ at' = [at EXCEPT ![w] = [pc |-> "commit", log |-> @.log, attempt |-> @.attempt,
                                row |-> @.row, got |-> @.got, reached |-> @.reached,
                                seeds |-> seeds]]
    /\ UNCHANGED <<logVars, tailVars, seedVars, job, faults, acts>>

(* The most specific declared seed is the one a name is admitted under.    *)
CoveringSeed(e, S) == CHOOSE s \in Covers[e] \cap S : \A t \in Covers[e] \cap S : Depth[t] <= Depth[s]

(* The names in scope, in the order they were read, up to the cap.         *)
AdmitCTNames(l, got, S) ==
    LET inScope == {e \in got : Covers[e] \cap S # {}}
    IN {<<l, e, CoveringSeed(e, S)>> :
            e \in {x \in inScope : Cardinality({y \in inScope : y < x}) < MaxAdmittedNames}}

(* The cursor never goes back.                                             *)
AdvanceTo(old, new) == IF new >= old THEN new ELSE old

AdvanceCTLogCursor(l, to) ==
    /\ cursor' = [cursor EXCEPT ![l] = AdvanceTo(@, to)]
    /\ start' = [start EXCEPT ![l] = IF @ = NoCursor THEN to ELSE @]

(* One transaction.  An admission under a seed withdrawn since ReadSeeds   *)
(* is refused by its foreign key, and with it the transaction: the row     *)
(* stays 'running' for the reaper.                                         *)
AdmitCTTail(w) ==
    /\ at[w].pc = "commit"
    /\ LET l == at[w].log
           names == AdmitCTNames(l, at[w].got, at[w].seeds)
       IN \/ /\ ~MayWrite(w) \/ \E a \in names : a[3] \notin seeds
             /\ Discard(w)
          \/ /\ MayWrite(w) /\ \A a \in names : a[3] \in seeds
             /\ admitted' = admitted \cup names
             /\ read' = [read EXCEPT ![l] = @ \cup at[w].got]
             /\ AdvanceCTLogCursor(l, at[w].reached)
             /\ job' = [job EXCEPT ![l] = NoJob]
             /\ at' = Leave(w, Over(l, at))
             /\ UNCHANGED <<logVars, seedVars, faults, acts>>

-----------------------------------------------------------------------------
Poll(w) == ReadHead(w) \/ FetchEntries(w) \/ ReadSeeds(w) \/ AdmitCTTail(w)

Next ==
    \/ \E l \in Log : Grow(l) \/ Reap(l)
    \/ \E s \in Seed : Declare(s) \/ Withdraw(s)
    \/ Toggle \/ FanOutCTTail
    \/ \E w \in Worker : Poll(w) \/ Die(w) \/ \E l \in Log : Claim(w, l)

(* The dispatcher ticks, workers poll the queue and work on what they       *)
(* claimed, and the reaper's sweep comes round.  A log need not grow.      *)
Fairness ==
    /\ WF_vars(FanOutCTTail)
    /\ \A w \in Worker : WF_vars(Poll(w))
    /\ \A l \in Log : WF_vars(Orphan(l) /\ Reap(l)) /\ WF_vars(\E w \in Worker : Claim(w, l))

Spec == Init /\ [][Next]_vars /\ Fairness

-----------------------------------------------------------------------------
(* Nothing between where a log was first taken up and its cursor is left   *)
(* unread: no shared row, crash, short answer or stale head opens a hole.  *)
NothingSkipped ==
    \A l \in Log : cursor[l] # NoCursor => start[l]..(cursor[l] - 1) \subseteq read[l]

(* What was read under a seed the operator never let go of is admitted     *)
(* under it, where it is the most specific that covers the name: an entry  *)
(* is behind the cursor only together with its admissions, whatever the    *)
(* operator did to other seeds while the window was read.                  *)
NoAdmissionLost ==
    \A l \in Log : \A e \in read[l] : \A s \in steady \cap Covers[e] :
        (\A t \in Covers[e] : Depth[t] <= Depth[s]) => <<l, e, s>> \in admitted

(* A source that stays on, with logs it can read, catches up with them.    *)
CatchesUp ==
    <>[](on /\ \A l \in Log : odd[l] = Nothing) => []<>(\A l \in Log : cursor[l] = tree[l])

(* The cursor loses nothing behind it: no entry unread, no name unadmitted.  *)
NothingLost == NothingSkipped /\ NoAdmissionLost
=============================================================================
