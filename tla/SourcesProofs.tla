---------------------------- MODULE SourcesProofs ----------------------------
(*****************************************************************************)
(* Proofs about the certificate logs: the tail, for any number of logs,      *)
(* workers, seeds and entries, however often a row is reaped under a live    *)
(* worker; the search of past certificates, for any number of searchers,     *)
(* names and pages; and the check of a certificate against its logs, for any *)
(* size of their trees and any SCTs.                                         *)
(*****************************************************************************)
EXTENDS CTTail, CTSearch, CTVerify, FiniteSetTheorems, SequenceTheorems, TLAPS

\* What a step may do to a worker that it does not move on.
Stays(v) == at'[v] = at[v] \/ at'[v].row = "gone"

\* Ending a log's row leaves every worker in place and nobody holding that row
\* (the terminal updates of queue_job).
LEMMA RowEnds ==
    ASSUME TypeOK, NEW l \in Log
    PROVE  /\ Over(l, at) \in [Worker -> Place]
           /\ \A v \in Worker : \/ Over(l, at)[v] = at[v] /\ ~Holds(v, l)
                                \/ Over(l, at)[v].row = "gone"
<1> SUFFICES ASSUME NEW v \in Worker
             PROVE  /\ Over(l, at)[v] \in Place
                    /\ \/ Over(l, at)[v] = at[v] /\ ~Holds(v, l)
                       \/ Over(l, at)[v].row = "gone"
  BY DEF Over
<1>1. at[v] \in Place
  BY DEF TypeOK
<1>2. CASE ~Holds(v, l)
  BY <1>1, <1>2 DEF Over
<1>3. CASE Holds(v, l)
  <2>1. Over(l, at)[v] = [at[v] EXCEPT !.row = "gone"]
    BY <1>3 DEF Over
  <2>2. at[v] \in AtHead \cup AtFetch \cup AtCommit
    BY <1>1, <1>3 DEF Place, Holds, Idle
  <2>3. CASE at[v] \in AtHead
    BY <2>1, <2>3 DEF AtHead, Place
  <2>4. CASE at[v] \in AtFetch
    BY <2>1, <2>4 DEF AtFetch, Place
  <2>5. CASE at[v] \in AtCommit
    BY <2>1, <2>5 DEF AtCommit, Place
  <2> QED BY <2>2, <2>3, <2>4, <2>5
<1> QED BY <1>2, <1>3

\* A worker that leaves holds nothing.
LEMMA Leaving ==
    ASSUME NEW w \in Worker, NEW here \in [Worker -> Place]
    PROVE  /\ Leave(w, here) \in [Worker -> Place]
           /\ \A v \in Worker : Leave(w, here)[v] = here[v] \/ Leave(w, here)[v].row = "gone"
BY DEF Leave, Place, Idle

\* A failed or an unsupported poll ends its row and moves nobody on
\* (retryOrDeadLetterCT, deadLetterCT).
LEMMA PollEnds ==
    ASSUME TypeOK, NEW w \in Worker, at[w].log \in Log, at' = Leave(w, Over(at[w].log, at))
    PROVE  at' \in [Worker -> Place] /\ \A v \in Worker : Stays(v)
<1>1. Over(at[w].log, at) \in [Worker -> Place]
      /\ \A v \in Worker : Over(at[w].log, at)[v] = at[v] \/ Over(at[w].log, at)[v].row = "gone"
  BY RowEnds
<1> QED BY <1>1, Leaving DEF Stays

\* A worker that asks for entries has not come to its window's end.
LEMMA AtAsking ==
    ASSUME TypeOK, NEW w \in Worker, FetchEntries(w)
    PROVE  at[w] \in AtFetch /\ at[w].pc = "fetch" /\ at[w].reached < at[w].end
<1>1. at[w].pc = "fetch" /\ at[w].reached < at[w].end
  BY Zenon DEF FetchEntries
<1>2. at[w] \in Place
  BY DEF TypeOK
<1> QED BY <1>1, <1>2 DEF Place, Idle, AtHead, AtCommit

\* What one request brings is a run of entries from `reached` on, within the
\* window, and the worker comes to stand after the last of it (fetchCTTailWindow).
LEMMA AnswerIsRun ==
    ASSUME TypeOK, NEW w \in Worker, at[w] \in AtFetch, at[w].reached <= at[w].end, NEW a \in Answers(w)
    PROVE  /\ ReachedAfter(w, a) \in at[w].reached..at[w].end
           /\ a = at[w].reached..(ReachedAfter(w, a) - 1)
<1> DEFINE r == at[w].reached
           e == at[w].end
<1>1. r \in Nat /\ e \in Nat /\ at[w].size \in Nat /\ r <= e
  BY TailAssumption DEF AtFetch, TailAssumption
<1>2. PICK m \in Int : m <= e /\ a = r..(m - 1)
  <2> DEFINE base == (r \div CTTileWidth) * CTTileWidth
             width == Least(CTTileWidth, at[w].size - base)
  <2>0. CTTileWidth \in Nat /\ CTTileWidth > 0 /\ CTTailBatch \in Nat
    BY TailAssumption DEF TailAssumption
  <2>1. base \in Int
    BY <1>1, <2>0
  <2> HIDE DEF base
  <2>2. CASE at[w].log \in tiled
    <3>1. width \in Int BY <1>1, <2>0, <2>1 DEF Least
    <3> HIDE DEF width
    <3>2. PICK n \in 0..width : a = r..(Least(base + n, e) - 1)
      BY <2>2 DEF Answers, base, width
    <3>3. Least(base + n, e) \in Int /\ Least(base + n, e) <= e
      BY <1>1, <2>1, <3>1, <3>2 DEF Least
    <3> QED BY <3>2, <3>3
  <2>3. CASE at[w].log \notin tiled
    <3>1. PICK n \in 0..(Least(r + CTTailBatch, e) - r) : a = r..(r + n - 1)
      BY <2>3 DEF Answers
    <3>2. n \in Int /\ r + n \in Int /\ r + n <= e
      BY <1>1, <2>0, <3>1 DEF Least
    <3>3. PICK k \in Int : k = r + n BY <3>2
    <3>4. k <= e /\ a = r..(k - 1) BY <1>1, <3>1, <3>2, <3>3
    <3> QED BY <3>4
  <2> QED BY <2>2, <2>3
<1> HIDE DEF r, e
<1>3. Cardinality(a) = IF r > m - 1 THEN 0 ELSE m - 1 - r + 1
  <2>1. r \in Int /\ m - 1 \in Int BY <1>1, <1>2
  <2> QED BY <1>2, <2>1, FS_Interval
<1>4. ReachedAfter(w, a) = r + Cardinality(a)
  BY DEF ReachedAfter, r
<1>5. CASE r > m - 1
  <2>1. ReachedAfter(w, a) = r BY <1>1, <1>3, <1>4, <1>5
  <2>2. a = {} /\ r..(r - 1) = {} BY <1>1, <1>2, <1>5
  <2> QED BY <1>1, <2>1, <2>2 DEF r, e
<1>6. CASE ~(r > m - 1)
  <2>1. ReachedAfter(w, a) = m BY <1>1, <1>2, <1>3, <1>4, <1>6
  <2> QED BY <1>1, <1>2, <1>6, <2>1 DEF r, e
<1> QED BY <1>5, <1>6

\* Every variable keeps its type (TypeOK): a window never leaves the log it is
\* read from, and the cursor is always a size the log has had.
THEOREM TailTypeCorrect == Spec => []TypeOK
<1>0. /\ MaxTree \in Nat \ {0} /\ MaxAttempts \in Nat \ {0} /\ MaxEntriesPerPoll \in Nat \ {0}
      /\ MaxFaults \in Nat /\ MaxActs \in Nat
  BY TailAssumption DEF TailAssumption
<1>1. ASSUME Init PROVE TypeOK
  <2>1. 0 \in 0..MaxTree /\ NoCursor \in NoCursor..MaxTree /\ 0 \in 0..MaxAttempts
        /\ 0 \in 0..MaxFaults /\ 0 \in 0..MaxActs
    BY <1>0 DEF NoCursor
  <2>2. {Nothing} \cup Entry \subseteq 0..MaxTree
    BY <1>0 DEF Nothing, Entry
  <2>3. odd \in [Log -> 0..MaxTree]
    BY <1>1, <2>2 DEF Init
  <2>4. /\ tree \in [Log -> 0..MaxTree] /\ tiled \subseteq Log
        /\ cursor \in [Log -> NoCursor..MaxTree] /\ start \in [Log -> NoCursor..MaxTree]
        /\ read \in [Log -> SUBSET Entry] /\ admitted \subseteq Log \X Entry \X Seed
    BY <1>1, <2>1 DEF Init
  <2>5. /\ seeds \subseteq Seed /\ steady \subseteq seeds /\ on \in BOOLEAN
        /\ job \in [Log -> [st : {"none", "ready", "running"}, attempt : 0..MaxAttempts]]
        /\ faults \in 0..MaxFaults /\ acts \in 0..MaxActs
    BY <1>1, <2>1 DEF Init, NoJob
  <2>6. at \in [Worker -> Place]
    BY <1>1 DEF Init, Place
  <2> QED BY <2>3, <2>4, <2>5, <2>6 DEF TypeOK
<1>2. ASSUME TypeOK, [Next]_vars PROVE TypeOK'
  <2> USE <1>0
  <2>1. ASSUME NEW l \in Log, Grow(l) PROVE TypeOK'
    BY <1>2, <2>1 DEF Grow, TypeOK, tailVars, seedVars
  <2>2. ASSUME NEW l \in Log, Reap(l) PROVE TypeOK'
    <3>1. job' \in [Log -> [st : {"none", "ready", "running"}, attempt : 0..MaxAttempts]]
      BY <1>2, <2>2 DEF Reap, ReapedRow, NoJob, TypeOK
    <3>2. at' \in [Worker -> Place] BY <1>2, <2>2, RowEnds DEF Reap, TypeOK
    <3>3. faults' \in 0..MaxFaults BY <1>2, <2>2 DEF Reap, TypeOK
    <3> QED BY <1>2, <2>2, <3>1, <3>2, <3>3 DEF Reap, TypeOK, logVars, tailVars, seedVars
  <2>3. ASSUME NEW s \in Seed, Declare(s) \/ Withdraw(s) PROVE TypeOK'
    BY <1>2, <2>3 DEF Declare, Withdraw, Acts, TypeOK, logVars, tailVars
  <2>4. CASE Toggle \/ FanOutCTTail
    <3>1. job' \in [Log -> [st : {"none", "ready", "running"}, attempt : 0..MaxAttempts]]
      <4>1. 1 \in 0..MaxAttempts OBVIOUS
      <4> QED BY <1>2, <2>4, <4>1 DEF Toggle, FanOutCTTail, TypeOK
    <3>2. on' \in BOOLEAN
      BY <1>2, <2>4 DEF Toggle, FanOutCTTail, TypeOK, seedVars
    <3>3. acts' \in 0..MaxActs
      BY <1>2, <2>4 DEF Toggle, FanOutCTTail, Acts, TypeOK
    <3>4. UNCHANGED <<logVars, tailVars, seeds, steady, at, faults>>
      BY <2>4 DEF Toggle, FanOutCTTail, seedVars
    <3> QED BY <1>2, <3>1, <3>2, <3>3, <3>4 DEF TypeOK, logVars, tailVars
  <2>5. ASSUME NEW w \in Worker, Die(w) PROVE TypeOK'
    <3>1. at' \in [Worker -> Place] BY <1>2, <2>5, Leaving DEF Die, TypeOK
    <3> QED BY <1>2, <2>5, <3>1 DEF Die, TypeOK, logVars, tailVars, seedVars
  <2>6. ASSUME NEW w \in Worker, NEW l \in Log, Claim(w, l) PROVE TypeOK'
    <3>1. job' \in [Log -> [st : {"none", "ready", "running"}, attempt : 0..MaxAttempts]]
      BY <1>2, <2>6 DEF Claim, TypeOK
    <3>2. at' \in [Worker -> Place]
      BY <1>2, <2>6 DEF Claim, TypeOK, Place, AtHead
    <3> QED BY <1>2, <2>6, <3>1, <3>2 DEF Claim, TypeOK, logVars, tailVars, seedVars
  <2>7. ASSUME NEW w \in Worker, Discard(w) PROVE TypeOK'
    <3>1. at' \in [Worker -> Place] BY <1>2, <2>7, Leaving DEF Discard, TypeOK
    <3> QED BY <1>2, <2>7, <3>1 DEF Discard, TypeOK, logVars, tailVars, seedVars
  <2>8. ASSUME NEW w \in Worker, MayWrite(w), RetryOrDeadLetterCT(w) \/ DeadLetterCT(w),
               faults' \in 0..MaxFaults, UNCHANGED <<logVars, tailVars, seedVars, acts>>
        PROVE  TypeOK'
    <3>1. at[w].log \in Log BY <2>8 DEF MayWrite, Holds
    <3>2. at' = Leave(w, Over(at[w].log, at))
      BY <2>8 DEF RetryOrDeadLetterCT, DeadLetterCT
    <3>3. at' \in [Worker -> Place] BY <1>2, <3>1, <3>2, PollEnds
    <3>4. at[w].attempt \in 0..MaxAttempts
      <4>1. at[w] \in Place /\ at[w].row = "held" BY <1>2, <2>8 DEF MayWrite, Holds, TypeOK
      <4> QED BY <4>1 DEF Place, Idle, AtHead, AtFetch, AtCommit
    <3>5. job' \in [Log -> [st : {"none", "ready", "running"}, attempt : 0..MaxAttempts]]
      BY <1>2, <2>8, <3>1, <3>4 DEF RetryOrDeadLetterCT, DeadLetterCT, NoJob, TypeOK
    <3> QED BY <1>2, <2>8, <3>3, <3>5 DEF TypeOK, logVars, tailVars, seedVars
  <2>9. ASSUME NEW w \in Worker, ReadHead(w) PROVE TypeOK'
    <3>1. CASE ~MayWrite(w) BY <2>7, <2>9, <3>1 DEF ReadHead
    <3>2. CASE MayWrite(w) /\ Fail(w)
      BY <1>2, <2>8, <3>2 DEF Fail, TypeOK
    <3>3. ASSUME MayWrite(w), NEW size \in 0..tree[at[w].log],
                 size < tree[at[w].log] => faults < MaxFaults,
                 faults' = IF size < tree[at[w].log] THEN faults + 1 ELSE faults,
                 UNCHANGED <<logVars, tailVars, seedVars, acts>>,
                 IF CTTailShrunk(cursor[at[w].log], size)
                 THEN RetryOrDeadLetterCT(w)
                 ELSE /\ at' = [at EXCEPT ![w] =
                                    [pc |-> "fetch", log |-> at[w].log, attempt |-> @.attempt,
                                     row |-> @.row, size |-> size, got |-> {},
                                     reached |-> CTTailStart(cursor[at[w].log], size),
                                     end |-> CTTailEnd(cursor[at[w].log], size)]]
                      /\ UNCHANGED job
          PROVE  TypeOK'
      <4>1. faults' \in 0..MaxFaults BY <1>2, <3>3 DEF TypeOK
      <4>2. CASE CTTailShrunk(cursor[at[w].log], size) BY <2>8, <3>3, <4>1, <4>2
      <4>3. CASE ~CTTailShrunk(cursor[at[w].log], size)
        <5> DEFINE l == at[w].log
        <5>1. l \in Log /\ at[w] \in AtHead
          BY <1>2, <2>9, <3>3 DEF ReadHead, MayWrite, Holds, TypeOK, Place, Idle, AtFetch, AtCommit
        <5>2. size \in 0..MaxTree /\ cursor[l] \in NoCursor..MaxTree
          BY <1>2, <3>3, <5>1 DEF TypeOK
        <5>3. CTTailStart(cursor[l], size) \in 0..MaxTree
          BY <5>2 DEF CTTailStart, NoCursor
        <5>4. CTTailEnd(cursor[l], size) \in 0..MaxTree
          BY <5>2 DEF CTTailEnd, NoCursor, Least
        <5>5. [pc |-> "fetch", log |-> l, attempt |-> at[w].attempt,
               row |-> at[w].row, size |-> size, got |-> {},
               reached |-> CTTailStart(cursor[l], size),
               end |-> CTTailEnd(cursor[l], size)] \in AtFetch
          BY <5>1, <5>2, <5>3, <5>4 DEF AtHead, AtFetch
        <5>6. at' \in [Worker -> Place] /\ job' = job
          BY <1>2, <3>3, <4>3, <5>5 DEF TypeOK, Place
        <5> QED BY <1>2, <3>3, <4>1, <5>6 DEF TypeOK, logVars, tailVars, seedVars
      <4> QED BY <4>2, <4>3
    <3> QED BY <2>9, <3>1, <3>2, <3>3 DEF ReadHead
  <2>10. ASSUME NEW w \in Worker, FetchEntries(w) PROVE TypeOK'
    <3>1. CASE ~MayWrite(w) BY <2>7, <2>10, <3>1 DEF FetchEntries
    <3>2. CASE MayWrite(w) /\ Fail(w)
      BY <1>2, <2>8, <3>2 DEF Fail, TypeOK
    <3>3. CASE MayWrite(w) /\ DeadLetterCT(w) /\ UNCHANGED <<logVars, tailVars, seedVars, faults, acts>>
      BY <1>2, <2>8, <3>3 DEF TypeOK
    <3>4. ASSUME NEW a \in Answers(w), a # Full(w) => faults < MaxFaults,
                 faults' = IF a # Full(w) THEN faults + 1 ELSE faults,
                 at' = [at EXCEPT ![w].got = @ \cup a,
                                  ![w].reached = ReachedAfter(w, a),
                                  ![w].pc = IF a = {} THEN "seeds" ELSE "fetch"],
                 UNCHANGED <<logVars, tailVars, seedVars, job, acts>>
          PROVE  TypeOK'
      <4>1. faults' \in 0..MaxFaults BY <1>2, <3>4 DEF TypeOK
      <4>2. at[w] \in AtFetch
        BY <1>2, <2>10, AtAsking
      <4>3. at[w].reached <= at[w].end
        BY <1>2, <2>10, <4>2, AtAsking DEF AtFetch
      <4>4. /\ ReachedAfter(w, a) \in at[w].reached..at[w].end
            /\ a = at[w].reached..(ReachedAfter(w, a) - 1)
        BY <1>2, <4>2, <4>3, AnswerIsRun
      <4>5. ReachedAfter(w, a) \in 0..MaxTree /\ a \subseteq Entry
        BY <4>2, <4>4 DEF AtFetch, Entry
      <4>6. at'[w] \in AtFetch
        BY <1>2, <3>4, <4>2, <4>5 DEF AtFetch, TypeOK
      <4>7. at' \in [Worker -> Place]
        BY <1>2, <3>4, <4>6 DEF TypeOK, Place
      <4> QED BY <1>2, <3>4, <4>1, <4>7 DEF TypeOK, logVars, tailVars, seedVars
    <3> QED BY <2>10, <3>1, <3>2, <3>3, <3>4 DEF FetchEntries
  <2>11. ASSUME NEW w \in Worker, ReadSeeds(w) PROVE TypeOK'
    <3>1. at[w] \in AtFetch
      BY <1>2, <2>11 DEF ReadSeeds, TypeOK, Place, Idle, AtHead, AtCommit
    <3>2. at' \in [Worker -> Place]
      BY <1>2, <2>11, <3>1 DEF ReadSeeds, TypeOK, Place, AtFetch, AtCommit
    <3> QED BY <1>2, <2>11, <3>2 DEF ReadSeeds, TypeOK, logVars, tailVars, seedVars
  <2>12. ASSUME NEW w \in Worker, AdmitCTTail(w) PROVE TypeOK'
    <3> DEFINE l == at[w].log
               names == AdmitCTNames(l, at[w].got, at[w].seeds)
    <3>1. CASE Discard(w) BY <2>7, <3>1
    <3>2. CASE ~Discard(w)
      <4>1. /\ MayWrite(w) /\ \A a \in names : a[3] \in seeds
            /\ admitted' = admitted \cup names
            /\ read' = [read EXCEPT ![l] = @ \cup at[w].got]
            /\ AdvanceCTLogCursor(l, at[w].reached)
            /\ job' = [job EXCEPT ![l] = NoJob]
            /\ at' = Leave(w, Over(l, at))
            /\ UNCHANGED <<logVars, seedVars, faults, acts>>
        BY <2>12, <3>2 DEF AdmitCTTail
      <4>2. l \in Log /\ at[w] \in AtCommit
        BY <1>2, <2>12, <4>1 DEF AdmitCTTail, MayWrite, Holds, TypeOK, Place, Idle, AtHead, AtFetch
      <4>3. at' \in [Worker -> Place] BY <1>2, <4>1, <4>2, PollEnds
      <4>4. names \subseteq Log \X Entry \X Seed
        <5> SUFFICES ASSUME NEW a \in names PROVE a \in Log \X Entry \X Seed
          OBVIOUS
        <5>1. PICK e \in at[w].got : a = <<l, e, CoveringSeed(e, at[w].seeds)>>
          BY DEF AdmitCTNames
        <5>2. a[3] \in Seed BY <1>2, <4>1 DEF TypeOK
        <5> QED BY <4>2, <5>1, <5>2 DEF AtCommit
      <4>5. cursor' \in [Log -> NoCursor..MaxTree] /\ start' \in [Log -> NoCursor..MaxTree]
        BY <1>2, <4>1, <4>2 DEF AdvanceCTLogCursor, AdvanceTo, AtCommit, TypeOK, NoCursor
      <4>6. read' \in [Log -> SUBSET Entry]
        BY <1>2, <4>1, <4>2 DEF AtCommit, TypeOK
      <4>7. job' \in [Log -> [st : {"none", "ready", "running"}, attempt : 0..MaxAttempts]]
        BY <1>2, <4>1, <4>2 DEF NoJob, TypeOK
      <4>8. admitted' \subseteq Log \X Entry \X Seed
        BY <1>2, <4>1, <4>4 DEF TypeOK
      <4> QED BY <1>2, <4>1, <4>3, <4>5, <4>6, <4>7, <4>8 DEF TypeOK, logVars, seedVars
    <3> QED BY <3>1, <3>2
  <2>13. CASE UNCHANGED vars
    BY <1>2, <2>13 DEF vars, logVars, tailVars, seedVars, TypeOK
  <2> QED BY <1>2, <2>1, <2>2, <2>3, <2>4, <2>5, <2>6, <2>9, <2>10, <2>11, <2>12, <2>13 DEF Next, Poll
<1> QED BY <1>1, <1>2, PTL DEF Spec


-----------------------------------------------------------------------------
(* What a worker that may still write has in hand.                         *)

\* It has read the entries from the cursor on, as the cursor stands, or none
\* while the log has no cursor, and no more than one poll may.
WindowFromCursor(w) ==
    LET c == cursor[at[w].log] IN
    /\ c = NoCursor =>
         /\ at[w].got = {}
         /\ at[w].pc = "fetch" => at[w].reached >= at[w].end
    /\ c # NoCursor =>
         /\ c <= at[w].reached /\ at[w].reached <= c + MaxEntriesPerPoll
         /\ at[w].got = c..(at[w].reached - 1)
         /\ at[w].pc = "fetch" => at[w].end <= c + MaxEntriesPerPoll

\* The seeds it admits under include those the operator never let go of.
SeedsRead(w) == at[w].pc = "commit" => steady \subseteq at[w].seeds

HeldOK(w) ==
    (at[w].row = "held" /\ at[w].pc # "head") => WindowFromCursor(w) /\ SeedsRead(w)

\* A log has a cursor exactly when it was taken up somewhere.
CursorPlaced == \A l \in Log : start[l] = NoCursor <=> cursor[l] = NoCursor

TailInv == CursorPlaced /\ \A w \in Worker : HeldOK(w)

\* A worker that stays where it was keeps what it has in hand, as long as its
\* log's cursor stands.
LEMMA HeldStays ==
    ASSUME NEW v \in Worker, HeldOK(v), Stays(v), steady' \subseteq steady,
           at'[v].row = "held" => cursor'[at[v].log] = cursor[at[v].log]
    PROVE  HeldOK(v)'
BY DEF HeldOK, Stays, WindowFromCursor, SeedsRead

\* What a commit does, when it is not refused (completeCTTail).
Commits(w) ==
    LET l == at[w].log
        names == AdmitCTNames(l, at[w].got, at[w].seeds)
    IN /\ at[w].pc = "commit" /\ MayWrite(w)
       /\ admitted' = admitted \cup names
       /\ read' = [read EXCEPT ![l] = @ \cup at[w].got]
       /\ AdvanceCTLogCursor(l, at[w].reached)
       /\ at' = Leave(w, Over(l, at))
       /\ UNCHANGED <<logVars, seedVars>>

\* Which steps move the cursor, the entries read and the names admitted: a
\* commit, and a withdrawal that takes its seed's names along.
LEMMA EveryTailStep ==
    ASSUME TypeOK, [Next]_vars
    PROVE  /\ steady' \subseteq steady
           /\ \/ \E w \in Worker : Commits(w)
              \/ UNCHANGED tailVars
              \/ \E s \in Seed : /\ steady' = steady \ {s}
                                 /\ admitted' = {a \in admitted : a[3] # s}
                                 /\ UNCHANGED <<cursor, start, read>>
<1>1. ASSUME NEW s \in Seed, Withdraw(s)
      PROVE  /\ steady' = steady \ {s} /\ admitted' = {a \in admitted : a[3] # s}
             /\ UNCHANGED <<cursor, start, read>>
  BY <1>1 DEF Withdraw
<1>2. ASSUME NEW w \in Worker, AdmitCTTail(w)
      PROVE  steady' \subseteq steady /\ (Commits(w) \/ UNCHANGED tailVars)
  BY <1>2 DEF AdmitCTTail, Commits, Discard, seedVars
<1>3. ASSUME NEW w \in Worker, ReadHead(w) \/ FetchEntries(w) \/ ReadSeeds(w) \/ Die(w)
      PROVE  steady' \subseteq steady /\ UNCHANGED tailVars
  BY <1>3 DEF ReadHead, FetchEntries, ReadSeeds, Die, Discard, Fail, seedVars
<1>4. ASSUME \/ \E l \in Log : Grow(l) \/ Reap(l)
             \/ \E s \in Seed : Declare(s)
             \/ Toggle \/ FanOutCTTail
             \/ \E w \in Worker, l \in Log : Claim(w, l)
             \/ UNCHANGED vars
      PROVE  steady' \subseteq steady /\ UNCHANGED tailVars
  BY <1>4 DEF Grow, Reap, Declare, Toggle, FanOutCTTail, Claim, seedVars, vars
<1> QED BY <1>1, <1>2, <1>3, <1>4 DEF Next, Poll

\* A commit holds what it writes, and leaves nobody holding its row.
LEMMA CommitStep ==
    ASSUME TypeOK, NEW w \in Worker, Commits(w)
    PROVE  /\ at[w] \in AtCommit /\ at[w].row = "held" /\ at[w].log \in Log
           /\ \A v \in Worker : Stays(v) /\ (at'[v].row = "held" => at[v].log # at[w].log)
<1>1. at[w] \in AtCommit /\ at[w].row = "held" /\ at[w].log \in Log
  BY DEF Commits, MayWrite, Holds, TypeOK, Place, Idle, AtHead, AtFetch
<1>2. \A v \in Worker : Stays(v)
  BY <1>1, PollEnds DEF Commits
<1>3. ASSUME NEW v \in Worker, at'[v].row = "held" PROVE at[v].log # at[w].log
  <2>1. Over(at[w].log, at) \in [Worker -> Place] BY <1>1, RowEnds
  <2>2. at'[v] = Over(at[w].log, at)[v] BY <1>3, <2>1, Leaving DEF Commits
  <2>3. Over(at[w].log, at)[v] = at[v] /\ ~Holds(v, at[w].log) BY <1>1, <1>3, <2>2, RowEnds
  <2> QED BY <1>3, <2>2, <2>3 DEF Holds
<1> QED BY <1>1, <1>2, <1>3

\* TailInv is inductive: a window is read from the cursor it is committed at,
\* because only a commit moves the cursor and it ends the row for every holder.
LEMMA WindowsCorrect == Spec => []TailInv
<1>0. MaxEntriesPerPoll \in Nat \ {0} /\ MaxTree \in Nat
  BY TailAssumption DEF TailAssumption
<1>1. Init => TailInv
  BY DEF Init, TailInv, CursorPlaced, HeldOK, Idle
<1>2. ASSUME TypeOK, TailInv, [Next]_vars PROVE TailInv'
  <2>0. steady' \subseteq steady BY <1>2, EveryTailStep
  <2>1. ASSUME NEW w \in Worker, Commits(w) PROVE TailInv'
    <3> DEFINE l == at[w].log
    <3>1. at[w] \in AtCommit /\ at[w].row = "held" /\ l \in Log
      BY <1>2, <2>1, CommitStep
    <3>2. at[w].reached \in 0..MaxTree BY <3>1 DEF AtCommit
    <3>3. \A k \in Log : k # l => cursor'[k] = cursor[k] /\ start'[k] = start[k]
      BY <1>2, <2>1, <3>1 DEF Commits, AdvanceCTLogCursor, TypeOK
    <3>4. cursor'[l] # NoCursor /\ start'[l] # NoCursor
      BY <1>0, <1>2, <2>1, <3>1, <3>2 DEF Commits, AdvanceCTLogCursor, AdvanceTo, NoCursor, TypeOK
    <3>5. CursorPlaced' BY <1>2, <3>3, <3>4 DEF CursorPlaced, TailInv
    <3>6. ASSUME NEW v \in Worker PROVE HeldOK(v)'
      <4>1. Stays(v) /\ (at'[v].row = "held" => at[v].log # l)
        BY <1>2, <2>1, CommitStep
      <4>2. at'[v].row = "held" => at[v].log \in Log
        BY <1>2, <4>1 DEF Stays, TypeOK, Place, Idle, AtHead, AtFetch, AtCommit
      <4>3. at'[v].row = "held" => cursor'[at[v].log] = cursor[at[v].log]
        BY <3>3, <4>1, <4>2
      <4> QED BY <1>2, <2>0, <4>1, <4>3, HeldStays DEF TailInv
    <3> QED BY <3>5, <3>6 DEF TailInv
  <2>2. ASSUME UNCHANGED <<cursor, start>> PROVE CursorPlaced'
    BY <1>2, <2>2 DEF TailInv, CursorPlaced
  <2>3. ASSUME UNCHANGED <<cursor, start>>, \A v \in Worker : Stays(v) PROVE TailInv'
    BY <1>2, <2>0, <2>2, <2>3, HeldStays DEF TailInv
  <2>4. ASSUME NEW w \in Worker, \A v \in Worker \ {w} : at'[v] = at[v], UNCHANGED <<cursor, start>>,
               HeldOK(w)'
        PROVE  TailInv'
    <3>1. \A v \in Worker \ {w} : Stays(v) BY <2>4 DEF Stays
    <3>2. \A v \in Worker \ {w} : HeldOK(v)' BY <1>2, <2>0, <2>4, <3>1, HeldStays DEF TailInv
    <3> QED BY <2>2, <2>4, <3>2 DEF TailInv
  <2>5. ASSUME NEW w \in Worker, Discard(w) \/ Die(w) PROVE TailInv'
    <3>1. \A v \in Worker : Stays(v)
      BY <1>2, <2>5, Leaving DEF Discard, Die, Stays, TypeOK
    <3> QED BY <2>3, <2>5, <3>1 DEF Discard, Die, tailVars
  <2>6. ASSUME NEW w \in Worker, MayWrite(w), RetryOrDeadLetterCT(w) \/ DeadLetterCT(w), UNCHANGED tailVars
        PROVE  TailInv'
    <3>1. at[w].log \in Log BY <2>6 DEF MayWrite, Holds
    <3>2. \A v \in Worker : Stays(v)
      BY <1>2, <2>6, <3>1, PollEnds DEF RetryOrDeadLetterCT, DeadLetterCT
    <3> QED BY <2>3, <2>6, <3>2 DEF tailVars
  <2>7. ASSUME NEW w \in Worker, ReadHead(w) PROVE TailInv'
    <3>1. CASE ~MayWrite(w) BY <2>5, <2>7, <3>1 DEF ReadHead
    <3>2. CASE MayWrite(w) /\ (Fail(w) \/ (RetryOrDeadLetterCT(w) /\ UNCHANGED tailVars))
      BY <2>6, <3>2 DEF Fail
    <3>3. ASSUME NEW size \in 0..tree[at[w].log], MayWrite(w),
                 ~CTTailShrunk(cursor[at[w].log], size), UNCHANGED tailVars,
                 at' = [at EXCEPT ![w] =
                          [pc |-> "fetch", log |-> at[w].log, attempt |-> @.attempt,
                           row |-> @.row, size |-> size, got |-> {},
                           reached |-> CTTailStart(cursor[at[w].log], size),
                           end |-> CTTailEnd(cursor[at[w].log], size)]]
          PROVE  TailInv'
      <4> DEFINE c == cursor[at[w].log]
      <4>1. at[w].log \in Log BY <3>3 DEF MayWrite, Holds
      <4>2. c \in NoCursor..MaxTree /\ size \in 0..MaxTree
        BY <1>0, <1>2, <3>3, <4>1 DEF TypeOK
      <4>3. /\ at'[w].pc = "fetch" /\ at'[w].log = at[w].log /\ at'[w].got = {}
            /\ at'[w].reached = CTTailStart(c, size) /\ at'[w].end = CTTailEnd(c, size)
        BY <1>2, <3>3 DEF TypeOK
      <4>4. cursor' = cursor BY <3>3 DEF tailVars
      <4>5. CASE c = NoCursor
        <5>1. at'[w].reached = size /\ at'[w].end = size
          BY <4>3, <4>5 DEF CTTailStart, CTTailEnd
        <5> QED BY <1>2, <2>4, <3>3, <4>2, <4>3, <4>4, <4>5, <5>1
                DEF HeldOK, WindowFromCursor, SeedsRead, tailVars, TypeOK
      <4>6. CASE c # NoCursor
        <5>1. at'[w].reached = c /\ at'[w].end <= c + MaxEntriesPerPoll
          BY <1>0, <4>2, <4>3, <4>6 DEF CTTailStart, CTTailEnd, Least, NoCursor
        <5>2. c..(c - 1) = {} BY <4>2 DEF NoCursor
        <5>3. c <= c + MaxEntriesPerPoll /\ c <= c BY <1>0, <4>2 DEF NoCursor
        <5>4. HeldOK(w)'
          BY <4>3, <4>4, <4>6, <5>1, <5>2, <5>3 DEF HeldOK, WindowFromCursor, SeedsRead
        <5> QED BY <1>2, <2>4, <3>3, <5>4 DEF tailVars, TypeOK
      <4> QED BY <4>5, <4>6
    <3> QED BY <2>7, <3>1, <3>2, <3>3 DEF ReadHead
  <2>8. ASSUME NEW w \in Worker, FetchEntries(w) PROVE TailInv'
    <3>1. CASE ~MayWrite(w) BY <2>5, <2>8, <3>1 DEF FetchEntries
    <3>2. CASE MayWrite(w) /\ (Fail(w) \/ (DeadLetterCT(w) /\ UNCHANGED tailVars))
      BY <2>6, <3>2 DEF Fail
    <3>3. ASSUME NEW a \in Answers(w), MayWrite(w), UNCHANGED tailVars,
                 at' = [at EXCEPT ![w].got = @ \cup a,
                                  ![w].reached = ReachedAfter(w, a),
                                  ![w].pc = IF a = {} THEN "seeds" ELSE "fetch"]
          PROVE  TailInv'
      <4> DEFINE c == cursor[at[w].log]
                 n == ReachedAfter(w, a)
      <4>1. at[w] \in AtFetch /\ at[w].row = "held" /\ at[w].log \in Log
        BY <1>2, <2>8, <3>3, AtAsking DEF MayWrite, Holds
      <4>2. at[w].reached < at[w].end /\ at[w].reached \in Nat /\ at[w].end \in Nat /\ at[w].pc = "fetch"
        BY <1>2, <2>8, <4>1, AtAsking DEF AtFetch
      <4>3. n \in at[w].reached..at[w].end /\ a = at[w].reached..(n - 1)
        BY <1>2, <4>1, <4>2, AnswerIsRun
      <4>4. WindowFromCursor(w) BY <1>2, <4>1, <4>2 DEF TailInv, HeldOK
      <4>5. c # NoCursor BY <4>2, <4>4 DEF WindowFromCursor
      <4>6. c \in Nat BY <1>0, <1>2, <4>1, <4>5 DEF TypeOK, NoCursor
      <4>7. /\ at'[w].got = at[w].got \cup a /\ at'[w].reached = n
            /\ at'[w].pc \in {"seeds", "fetch"} /\ at'[w].log = at[w].log /\ at'[w].end = at[w].end
        BY <1>2, <3>3, <4>1 DEF TypeOK, AtFetch
      <4>8. at[w].got = c..(at[w].reached - 1) /\ c <= at[w].reached /\ at[w].end <= c + MaxEntriesPerPoll
        BY <4>2, <4>4, <4>5 DEF WindowFromCursor
      <4> HIDE DEF n, c
      <4>9. at'[w].got = c..(n - 1)
        BY <4>2, <4>3, <4>6, <4>7, <4>8
      <4>10. c <= n /\ n <= c + MaxEntriesPerPoll
        BY <1>0, <4>2, <4>3, <4>6, <4>8
      <4>11. cursor'[at'[w].log] = c BY <3>3, <4>7 DEF tailVars, c
      <4>12. HeldOK(w)'
        BY <4>5, <4>7, <4>8, <4>9, <4>10, <4>11 DEF HeldOK, WindowFromCursor, SeedsRead
      <4> QED BY <1>2, <2>4, <3>3, <4>12 DEF tailVars, TypeOK
    <3> QED BY <2>8, <3>1, <3>2, <3>3 DEF FetchEntries, tailVars
  <2>9. ASSUME NEW w \in Worker, ReadSeeds(w) PROVE TailInv'
    <3>1. at[w] \in AtFetch
      BY <1>2, <2>9 DEF ReadSeeds, TypeOK, Place, Idle, AtHead, AtCommit
    <3>2. /\ at'[w].pc = "commit" /\ at'[w].log = at[w].log /\ at'[w].got = at[w].got
          /\ at'[w].reached = at[w].reached /\ at'[w].seeds = seeds /\ at'[w].row = at[w].row
      BY <1>2, <2>9 DEF ReadSeeds, TypeOK
    <3>3. steady' = steady /\ cursor' = cursor /\ start' = start /\ steady \subseteq seeds
      BY <1>2, <2>9 DEF ReadSeeds, seedVars, tailVars, TypeOK
    <3>4. at[w].pc # "head" BY <2>9 DEF ReadSeeds
    <3>5. HeldOK(w)'
      BY <1>2, <3>2, <3>3, <3>4 DEF TailInv, HeldOK, WindowFromCursor, SeedsRead
    <3>6. \A v \in Worker \ {w} : at'[v] = at[v] BY <1>2, <2>9 DEF ReadSeeds, TypeOK
    <3> QED BY <2>4, <3>3, <3>5, <3>6
  <2>10. ASSUME NEW w \in Worker, NEW l \in Log, Claim(w, l) PROVE TailInv'
    <3>1. at'[w].pc = "head" /\ \A v \in Worker \ {w} : at'[v] = at[v]
      BY <1>2, <2>10 DEF Claim, TypeOK
    <3> QED BY <2>4, <2>10, <3>1 DEF Claim, tailVars, HeldOK
  <2>11. ASSUME NEW l \in Log, Reap(l) PROVE TailInv'
    <3>1. \A v \in Worker : Stays(v) BY <1>2, <2>11, RowEnds DEF Reap, Stays
    <3> QED BY <2>3, <2>11, <3>1 DEF Reap, tailVars
  <2>12. ASSUME at' = at, UNCHANGED <<cursor, start>> PROVE TailInv'
    BY <2>3, <2>12 DEF Stays
  <2>13. ASSUME \/ \E l \in Log : Grow(l)
                \/ \E s \in Seed : Declare(s) \/ Withdraw(s)
                \/ Toggle \/ FanOutCTTail \/ UNCHANGED vars
         PROVE  at' = at /\ UNCHANGED <<cursor, start>>
    BY <2>13 DEF Grow, Declare, Withdraw, Toggle, FanOutCTTail, vars, tailVars
  <2>14. ASSUME NEW w \in Worker, AdmitCTTail(w) PROVE TailInv'
    BY <2>1, <2>5, <2>14 DEF AdmitCTTail, Commits
  <2> QED BY <1>2, <2>5, <2>7, <2>8, <2>9, <2>10, <2>11, <2>12, <2>13, <2>14 DEF Next, Poll
<1> QED BY <1>1, <1>2, TailTypeCorrect, PTL DEF Spec

\* Nothing between where a log was taken up and its cursor is left unread
\* (NothingSkipped), however rows are shared, answers cut short or heads stale.
THEOREM SkipsNothing == Spec => []NothingSkipped
<1>1. Init => NothingSkipped
  BY DEF Init, NothingSkipped
<1>2. ASSUME TypeOK, TailInv, NothingSkipped, [Next]_vars PROVE NothingSkipped'
  <2>1. ASSUME NEW w \in Worker, Commits(w) PROVE NothingSkipped'
    <3> DEFINE l == at[w].log
               c == cursor[l]
               r == at[w].reached
    <3>1. at[w] \in AtCommit /\ at[w].row = "held" /\ l \in Log
      BY <1>2, <2>1, CommitStep
    <3>2. r \in 0..MaxTree /\ c \in NoCursor..MaxTree /\ start[l] \in NoCursor..MaxTree /\ MaxTree \in Nat
      BY <1>2, <3>1, TailAssumption DEF AtCommit, TypeOK, TailAssumption
    <3>3. WindowFromCursor(w) BY <1>2, <2>1, <3>1 DEF TailInv, HeldOK, Commits
    <3>4. /\ \A k \in Log : k # l => cursor'[k] = cursor[k] /\ start'[k] = start[k] /\ read'[k] = read[k]
          /\ cursor'[l] = AdvanceTo(c, r)
          /\ start'[l] = IF start[l] = NoCursor THEN r ELSE start[l]
          /\ read'[l] = read[l] \cup at[w].got
      BY <1>2, <2>1, <3>1 DEF Commits, AdvanceCTLogCursor, TypeOK
    <3>5. start'[l]..(cursor'[l] - 1) \subseteq read'[l]
      <4>1. CASE c = NoCursor
        <5>1. start[l] = NoCursor BY <1>2, <3>1, <4>1 DEF TailInv, CursorPlaced
        <5>2. cursor'[l] = r /\ start'[l] = r BY <3>2, <3>4, <4>1, <5>1 DEF AdvanceTo, NoCursor
        <5>3. r..(r - 1) = {} BY <3>2
        <5> QED BY <5>2, <5>3
      <4>2. CASE c # NoCursor
        <5>1. start[l] # NoCursor BY <1>2, <3>1, <4>2 DEF TailInv, CursorPlaced
        <5>2. c <= r /\ at[w].got = c..(r - 1) BY <3>3, <4>2 DEF WindowFromCursor
        <5>3. cursor'[l] = r /\ start'[l] = start[l] BY <3>2, <3>4, <5>1, <5>2 DEF AdvanceTo, NoCursor
        <5>4. start[l]..(c - 1) \subseteq read[l] BY <1>2, <3>1, <4>2 DEF NothingSkipped
        <5>5. ASSUME NEW e \in start[l]..(r - 1) PROVE e \in read'[l]
          <6>1. e \in start[l]..(c - 1) \/ e \in c..(r - 1) BY <3>2, <5>2, <5>5 DEF NoCursor
          <6> QED BY <3>4, <5>2, <5>4, <6>1
        <5> QED BY <5>3, <5>5
      <4> QED BY <4>1, <4>2
    <3> QED BY <1>2, <3>4, <3>5 DEF NothingSkipped
  <2>2. CASE UNCHANGED <<cursor, start, read>>
    BY <1>2, <2>2 DEF NothingSkipped
  <2> QED BY <1>2, <2>1, <2>2, EveryTailStep DEF tailVars
<1> QED BY <1>1, <1>2, TailTypeCorrect, WindowsCorrect, PTL DEF Spec

\* The most specific seed that covers a name is the one it is admitted under,
\* when it is among the seeds that were read (coveringSeed).
LEMMA MostSpecific ==
    ASSUME NEW e \in Entry, NEW S \in SUBSET Seed, NEW s \in Covers[e] \cap S,
           \A t \in Covers[e] : Depth[t] <= Depth[s]
    PROVE  CoveringSeed(e, S) = s
<1> DEFINE P(x) == x \in Covers[e] \cap S /\ \A t \in Covers[e] \cap S : Depth[t] <= Depth[x]
<1>1. P(s) OBVIOUS
<1>2. CoveringSeed(e, S) = CHOOSE x : P(x)
  BY Zenon DEF CoveringSeed
<1>3. P(CoveringSeed(e, S)) BY <1>1, <1>2
<1>4. Depth[s] <= Depth[CoveringSeed(e, S)] /\ Depth[CoveringSeed(e, S)] <= Depth[s]
  BY <1>3
<1>5. CoveringSeed(e, S) \in Seed /\ s \in Seed BY <1>3
<1>6. Depth[s] = Depth[CoveringSeed(e, S)]
  BY <1>4, <1>5, TailAssumption DEF TailAssumption
<1> QED BY <1>5, <1>6, TailAssumption DEF TailAssumption

\* A window no longer than the cap admits every name of it that is in scope
\* (admitCTNames).
LEMMA WithinCap ==
    ASSUME MaxEntriesPerPoll <= MaxAdmittedNames, NEW c \in Nat, NEW r \in Nat,
           r <= c + MaxEntriesPerPoll, NEW I \in SUBSET (c..(r - 1)), NEW x \in I
    PROVE  Cardinality({y \in I : y < x}) < MaxAdmittedNames
<1>0. MaxEntriesPerPoll \in Nat /\ MaxAdmittedNames \in Nat
  BY TailAssumption DEF TailAssumption
<1>1. x \in Nat /\ c <= x /\ x <= r - 1
  OBVIOUS
<1>2. IsFiniteSet(c..(x - 1)) /\ Cardinality(c..(x - 1)) = IF c > x - 1 THEN 0 ELSE x - 1 - c + 1
  <2>1. c \in Int /\ x - 1 \in Int BY <1>1
  <2> QED BY <2>1, FS_Interval
<1>3. ASSUME NEW y \in I, y < x PROVE y \in c..(x - 1)
  <2>1. y \in Int /\ c <= y OBVIOUS
  <2> QED BY <1>1, <1>3, <2>1
<1>4. IsFiniteSet({y \in I : y < x}) /\ Cardinality({y \in I : y < x}) <= Cardinality(c..(x - 1))
  BY <1>2, <1>3, FS_Subset
<1>5. Cardinality({y \in I : y < x}) \in Nat
  BY <1>4, FS_CardinalityType
<1>6. Cardinality(c..(x - 1)) = x - c
  BY <1>1, <1>2
<1> QED BY <1>0, <1>1, <1>4, <1>5, <1>6

\* An entry is behind the cursor only together with its admissions, and nothing
\* is left unread (NothingLost), as long as one poll cannot read more entries
\* than it may admit.
THEOREM NothingLostCorrect == MaxEntriesPerPoll <= MaxAdmittedNames => (Spec => []NothingLost)
<1> SUFFICES ASSUME MaxEntriesPerPoll <= MaxAdmittedNames PROVE Spec => []NothingLost
  OBVIOUS
<1>1. Init => NoAdmissionLost
  BY DEF Init, NoAdmissionLost
<1>2. ASSUME TypeOK, TailInv, NoAdmissionLost, [Next]_vars PROVE NoAdmissionLost'
  <2>0. steady' \subseteq steady BY <1>2, EveryTailStep
  <2>1. ASSUME NEW w \in Worker, Commits(w) PROVE NoAdmissionLost'
    <3> DEFINE l == at[w].log
               c == cursor[l]
               r == at[w].reached
               S == at[w].seeds
               I == {x \in at[w].got : Covers[x] \cap S # {}}
    <3>1. at[w] \in AtCommit /\ at[w].row = "held" /\ l \in Log
      BY <1>2, <2>1, CommitStep
    <3>2. /\ admitted' = admitted \cup AdmitCTNames(l, at[w].got, S)
          /\ \A k \in Log : read'[k] = IF k = l THEN read[k] \cup at[w].got ELSE read[k]
      BY <1>2, <2>1, <3>1 DEF Commits, TypeOK
    <3>3. WindowFromCursor(w) /\ SeedsRead(w)
      BY <1>2, <2>1, <3>1 DEF TailInv, HeldOK, Commits
    <3>4. steady \subseteq S /\ S \in SUBSET Seed /\ at[w].got \in SUBSET Entry
      BY <2>1, <3>1, <3>3 DEF SeedsRead, Commits, AtCommit
    <3>5. ASSUME NEW e \in at[w].got, NEW s \in steady \cap Covers[e],
                 \A t \in Covers[e] : Depth[t] <= Depth[s]
          PROVE  <<l, e, s>> \in AdmitCTNames(l, at[w].got, S)
      <4>1. CoveringSeed(e, S) = s BY <3>4, <3>5, MostSpecific
      <4>2. e \in I BY <3>4, <3>5
      <4>3. c # NoCursor BY <3>3, <3>5 DEF WindowFromCursor
      <4>4. c \in Nat /\ r \in Nat
        BY <1>2, <3>1, <4>3, TailAssumption DEF TypeOK, NoCursor, AtCommit, TailAssumption
      <4>5. r <= c + MaxEntriesPerPoll /\ I \in SUBSET (c..(r - 1))
        BY <3>3, <4>3 DEF WindowFromCursor
      <4> HIDE DEF I, c, r
      <4>6. Cardinality({y \in I : y < e}) < MaxAdmittedNames
        BY <4>2, <4>4, <4>5, WithinCap
      <4> QED BY <4>1, <4>2, <4>6 DEF AdmitCTNames, I
    <3> QED BY <1>2, <2>0, <3>2, <3>5 DEF NoAdmissionLost
  <2>2. CASE UNCHANGED tailVars
    BY <1>2, <2>0, <2>2 DEF NoAdmissionLost, tailVars
  <2>3. ASSUME NEW x \in Seed, steady' = steady \ {x}, admitted' = {a \in admitted : a[3] # x},
               UNCHANGED <<cursor, start, read>>
        PROVE  NoAdmissionLost'
    <3> SUFFICES ASSUME NEW l \in Log, NEW e \in read[l], NEW s \in (steady \ {x}) \cap Covers[e],
                        \A t \in Covers[e] : Depth[t] <= Depth[s]
                 PROVE  <<l, e, s>> \in {a \in admitted : a[3] # x}
      BY <2>3 DEF NoAdmissionLost
    <3>1. <<l, e, s>> \in admitted BY <1>2 DEF NoAdmissionLost
    <3> QED BY <3>1
  <2> QED BY <1>2, <2>1, <2>2, <2>3, EveryTailStep
<1>3. NothingSkipped /\ NoAdmissionLost => NothingLost
  BY DEF NothingLost
<1>4. Spec => []NoAdmissionLost
  BY <1>1, <1>2, TailTypeCorrect, WindowsCorrect, PTL DEF Spec
<1> QED BY <1>3, <1>4, SkipsNothing, PTL

-----------------------------------------------------------------------------
(* CTSearch: the slots, the answer and the window.                         *)

Search ==
    [at : {"none", "reserve", "fetch", "sample", "trim", "settle"}, cursor : Nat, page : Nat,
     names : SUBSET Nat, any : BOOLEAN, attempt : Nat, slot : Nat, from : Nat, ok : BOOLEAN]
Sample == [n : Nat, ok : BOOLEAN, empty : BOOLEAN]

SearchTyped ==
    /\ issued \in Nat /\ second \in Nat /\ nextFree \in Nat /\ drawn \in Nat
    /\ slots \in Seq(Nat)
    /\ searches \in [Searchers -> Search]
    /\ samples \in Seq(Sample)

\* What a search must admit of the issuances up to i.
Due(i) == ((1..i) \cap InScope) \ Wild

\* A search between pages has read all up to its cursor, and one whose pages
\* ended read all the source held when it began, unless it met a cap.
ReadSoFar(s) ==
    /\ s.from <= issued
    /\ s.at \in {"reserve", "fetch"} => Due(s.cursor) \subseteq s.names
    /\ s.at \in {"sample", "trim", "settle"} /\ s.ok =>
          NamesFull(s.names) \/ ~(s.page < MaxCTPages) \/ Due(s.from) \subseteq s.names

\* The slots granted end a spacing before the next one free.
SlotsBefore == \A i \in DOMAIN slots : slots[i] + SlotSpacing <= nextFree

\* The samples kept are the last ones drawn, and none of the window is missing.
SamplesLast ==
    /\ Len(samples) <= drawn
    /\ Len(samples) < WindowSize => Len(samples) = drawn
    /\ \A i \in 1..Len(samples) : samples[i].n = drawn - Len(samples) + i

SearchInv ==
    /\ SearchTyped /\ SlotsApart /\ SlotsBefore /\ SearchComplete /\ SamplesLast
    /\ \A w \in Searchers : ReadSoFar(searches[w])

\* The cursor a page leaves is its last id, and the page is all of the source's
\* issuances up to there.
LEMMA PageWhole ==
    ASSUME issued \in Nat, NEW c \in Nat
    PROVE  /\ Page(c) \subseteq Nat
           /\ maxIssuanceID(Page(c)) \in Nat
           /\ maxIssuanceID(Page(c)) # 0 => \A i \in Nat : i > c /\ i <= maxIssuanceID(Page(c)) => i \in Page(c)
           /\ maxIssuanceID(Page(c)) # 0 => maxIssuanceID(Page(c)) # c
           /\ maxIssuanceID(Page(c)) = 0 => \A i \in 1..issued : i > c => i \in Page(c)
<1>1. CASE ~Paged
  BY <1>1 DEF Page, maxIssuanceID
<1>2. CASE Paged /\ Page(c) = {}
  <2>1. Page(c) = {i \in (c + 1)..issued : i <= c + PageRows}
    BY <1>2 DEF Page
  <2>2. issued <= c
    <3> SUFFICES ASSUME issued > c PROVE FALSE
      OBVIOUS
    <3>1. c + 1 \in Page(c)
      BY <2>1, SearchAssumption
    <3> QED BY <1>2, <3>1
  <2> QED BY <1>2, <2>2 DEF maxIssuanceID
<1>3. CASE Paged /\ Page(c) # {}
  <2> DEFINE m == IF issued <= c + PageRows THEN issued ELSE c + PageRows
  <2>1. Page(c) = {i \in (c + 1)..issued : i <= c + PageRows}
    BY <1>3 DEF Page
  <2>2. PICK z : z \in Page(c)
    BY <1>3
  <2>3. issued >= c + 1
    BY <2>1, <2>2
  <2>4. m \in Nat /\ m > c /\ m \in Page(c) /\ \A j \in Page(c) : j <= m
    BY <2>1, <2>3, SearchAssumption
  <2>5. maxIssuanceID(Page(c)) = CHOOSE i \in Page(c) : \A j \in Page(c) : j <= i
    BY <1>3 DEF maxIssuanceID
  <2>6. maxIssuanceID(Page(c)) = m
    <3> HIDE DEF m
    <3>1. \A i \in Page(c) : i \in Nat
      BY <2>1
    <3>2. maxIssuanceID(Page(c)) \in Page(c) /\ \A j \in Page(c) : j <= maxIssuanceID(Page(c))
      BY <2>4, <2>5
    <3>3. PICK x : x = maxIssuanceID(Page(c))
      OBVIOUS
    <3>4. x \in Nat /\ m \in Nat /\ x <= m /\ m <= x
      BY <2>4, <3>1, <3>2, <3>3
    <3>5. x = m
      BY <3>4
    <3> QED BY <3>3, <3>5
  <2>7. \A i \in Nat : i > c /\ i <= m => i \in Page(c)
    BY <2>1, SearchAssumption
  <2>8. Page(c) \subseteq Nat
    BY <2>1
  <2> HIDE DEF m
  <2> QED BY <2>4, <2>6, <2>7, <2>8
<1> QED BY <1>1, <1>2, <1>3

\* A searcher may move on alone, to a search that has read what it should.
LEMMA SearcherMoves ==
    ASSUME SearchInv, NEW w \in Searchers, NEW s \in Search, ReadSoFar(s),
           searches' = [searches EXCEPT ![w] = s], issued' = issued
    PROVE  /\ searches' \in [Searchers -> Search]
           /\ (\A v \in Searchers : ReadSoFar(searches[v]))'
BY DEF SearchInv, SearchTyped, ReadSoFar, Due, NamesFull

\* The variables the window reads.
LEMMA WindowStays ==
    ASSUME SamplesLast, samples' = samples, drawn' = drawn
    PROVE  SamplesLast'
BY DEF SamplesLast

\* The variables the throttle reads.
LEMMA SlotsStay ==
    ASSUME SlotsApart, SlotsBefore, slots' = slots, nextFree' = nextFree
    PROVE  SlotsApart' /\ SlotsBefore'
BY DEF SlotsApart, SlotsBefore

\* A slot is granted past the last one, whatever the clock says.
LEMMA ReserveStep ==
    ASSUME SearchInv, NEW w \in Searchers, Reserve(w)
    PROVE  SearchInv'
<1> DEFINE granted == ReservedAt
           s == [searches[w] EXCEPT !.at = "fetch", !.slot = granted]
<1>1. granted \in Nat /\ granted >= nextFree /\ SlotSpacing \in Nat
  BY SearchAssumption DEF SearchInv, SearchTyped, ReservedAt, Later
<1>2. slots \in Seq(Nat) /\ nextFree \in Nat /\ searches[w] \in Search
  BY DEF SearchInv, SearchTyped
<1>3. /\ searches[w].at = "reserve" /\ nextFree' = granted + SlotSpacing /\ slots' = Append(slots, granted)
      /\ UNCHANGED <<issued, second, batches, samples, drawn, started>>
      /\ searches' = [searches EXCEPT ![w] = s]
  BY <1>2 DEF Reserve, SearchInv, SearchTyped
<1> HIDE DEF granted
<1>4. /\ slots' \in Seq(Nat) /\ DOMAIN slots' = 1..(Len(slots) + 1) /\ Len(slots) \in Nat
      /\ \A i \in 1..Len(slots) : slots'[i] = slots[i]
      /\ slots'[Len(slots) + 1] = granted /\ DOMAIN slots = 1..Len(slots)
  <2>1. /\ Append(slots, granted) \in Seq(Nat) /\ Len(Append(slots, granted)) = Len(slots) + 1
        /\ \A i \in 1..Len(slots) : Append(slots, granted)[i] = slots[i]
        /\ Append(slots, granted)[Len(slots) + 1] = granted
    BY <1>1, <1>2, AppendProperties
  <2> QED BY <1>2, <1>3, <2>1, LenProperties
<1>5. \A i \in 1..Len(slots) : slots[i] \in Nat /\ slots[i] + SlotSpacing <= nextFree
  BY <1>2, <1>4, ElementOfSeq DEF SearchInv, SlotsBefore
<1>6. SlotsBefore'
  <2> SUFFICES ASSUME NEW i \in DOMAIN slots' PROVE slots'[i] + SlotSpacing <= nextFree'
    BY DEF SlotsBefore
  <2> QED BY <1>1, <1>2, <1>3, <1>4, <1>5
<1>7. SlotsApart'
  <2> SUFFICES ASSUME NEW i \in DOMAIN slots', NEW j \in DOMAIN slots', i < j
               PROVE  slots'[j] >= slots'[i] + SlotSpacing
    BY DEF SlotsApart
  <2>1. CASE j = Len(slots) + 1
    <3>1. i \in 1..Len(slots)
      BY <1>4, <2>1
    <3>2. slots'[i] = slots[i] /\ slots'[j] = granted /\ slots[i] \in Nat /\ slots[i] + SlotSpacing <= nextFree
      BY <1>4, <1>5, <2>1, <3>1
    <3> QED BY <1>1, <1>2, <3>2
  <2>2. CASE j # Len(slots) + 1
    BY <1>4, <2>2 DEF SearchInv, SlotsApart
  <2> QED BY <2>1, <2>2
<1>8. s \in Search /\ ReadSoFar(s)
  <2>1. s \in Search
    BY <1>1, <1>2 DEF Search
  <2>2. /\ s.at = "fetch" /\ s.cursor = searches[w].cursor /\ s.names = searches[w].names
        /\ s.from = searches[w].from
    BY <1>2 DEF Search
  <2>3. ReadSoFar(searches[w])
    BY DEF SearchInv
  <2> QED BY <1>3, <2>1, <2>2, <2>3 DEF ReadSoFar
<1>9. searches' \in [Searchers -> Search] /\ (\A v \in Searchers : ReadSoFar(searches[v]))'
  BY <1>3, <1>8, SearcherMoves
<1>10. SamplesLast' /\ SearchComplete'
  BY <1>3, WindowStays DEF SearchInv, SearchComplete
<1> QED BY <1>1, <1>3, <1>4, <1>6, <1>7, <1>9, <1>10 DEF SearchInv, SearchTyped

\* A page adds what is due of it, or the names reach the cap.
LEMMA FetchStep ==
    ASSUME SearchInv, NEW w \in Searchers, FetchPage(w)
    PROVE  SearchInv'
<1> DEFINE s == searches[w]
           page == Page(s.cursor)
           next == maxIssuanceID(page)
<1>1. s \in Search /\ ReadSoFar(s) /\ issued \in Nat
  BY DEF SearchInv, SearchTyped
<1>2. s.at = "fetch" /\ UNCHANGED <<issued, second, nextFree, slots, batches, samples, drawn, started>>
  BY DEF FetchPage
<1>3. PICK new \in Admits(s.names, page) :
         searches' = [searches EXCEPT ![w] =
                 [s EXCEPT !.names = s.names \cup new, !.any = s.any \/ page # {}, !.page = s.page + 1,
                           !.cursor = next, !.ok = TRUE,
                           !.at = IF GoesOn(s, next, s.names \cup new) THEN "reserve" ELSE "sample"]]
  BY DEF FetchPage
<1> DEFINE names == s.names \cup new
           t == [s EXCEPT !.names = names, !.any = s.any \/ page # {}, !.page = s.page + 1,
                          !.cursor = next, !.ok = TRUE,
                          !.at = IF GoesOn(s, next, names) THEN "reserve" ELSE "sample"]
<1>4. s.cursor \in Nat /\ s.from \in Nat /\ s.names \in SUBSET Nat /\ s.page \in Nat
  BY <1>1 DEF Search
<1>5. /\ page \subseteq Nat /\ next \in Nat
      /\ next # 0 => \A i \in Nat : i > s.cursor /\ i <= next => i \in page
      /\ next # 0 => next # s.cursor
      /\ next = 0 => \A i \in 1..issued : i > s.cursor => i \in page
  BY <1>1, <1>4, PageWhole
<1>6. new \subseteq page /\ (NamesFull(names) \/ (page \cap InScope) \ Wild \subseteq names)
  BY <1>3, SearchAssumption DEF Admits, NamesFull
<1>7. t \in Search
  <2> HIDE DEF page, next, names
  <2>1. names \in SUBSET Nat /\ next \in Nat /\ (s.any \/ page # {}) \in BOOLEAN /\ s.page + 1 \in Nat
    <3>1. names \in SUBSET Nat
      BY <1>4, <1>5, <1>6 DEF names
    <3> QED BY <1>4, <1>5, <3>1
  <2> QED BY <1>1, <2>1 DEF Search
<1>8. /\ t.at = IF GoesOn(s, next, names) THEN "reserve" ELSE "sample"
      /\ t.names = names /\ t.cursor = next /\ t.from = s.from /\ t.page = s.page + 1
  <2> HIDE DEF page, next, names
  <2> QED BY <1>1 DEF Search
<1>9. Due(s.cursor) \subseteq s.names /\ s.from <= issued
  BY <1>1, <1>2 DEF ReadSoFar
<1>10. ReadSoFar(t)
  <2>1. CASE GoesOn(s, next, names)
    <3>1. next # 0 /\ ~NamesFull(names)
      BY <2>1 DEF GoesOn
    <3>2. Due(next) \subseteq names
      <4> SUFFICES ASSUME NEW i \in Due(next) PROVE i \in names
        OBVIOUS
      <4>1. i \in Nat /\ i >= 1 /\ i <= next /\ i \in InScope /\ i \notin Wild
        BY <1>5 DEF Due
      <4>2. CASE i <= s.cursor
        BY <1>4, <1>9, <4>1, <4>2 DEF Due
      <4>3. CASE i > s.cursor
        BY <1>5, <1>6, <3>1, <4>1, <4>3
      <4> QED BY <1>4, <4>1, <4>2, <4>3
    <3> HIDE DEF t, names, next
    <3> QED BY <1>8, <1>9, <2>1, <3>2 DEF ReadSoFar
  <2>2. CASE ~GoesOn(s, next, names)
    <3>1. next = 0 \/ NamesFull(names) \/ ~(s.page + 1 < MaxCTPages)
      BY <1>5, <2>2 DEF GoesOn
    <3>2. CASE next = 0 /\ ~NamesFull(names)
      <4> SUFFICES ASSUME NEW i \in Due(s.from) PROVE i \in names
        <5> HIDE DEF t, names, next
        <5> QED BY <1>8, <1>9, <2>2 DEF ReadSoFar
      <4>1. i \in 1..issued /\ i \in InScope /\ i \notin Wild
        BY <1>1, <1>4, <1>9 DEF Due
      <4>2. CASE i <= s.cursor
        BY <1>1, <1>4, <1>9, <4>1, <4>2 DEF Due
      <4>3. CASE i > s.cursor
        BY <1>5, <1>6, <3>2, <4>1, <4>3
      <4> QED BY <1>1, <1>4, <4>1, <4>2, <4>3
    <3>3. CASE NamesFull(names) \/ ~(s.page + 1 < MaxCTPages)
      <4> HIDE DEF t, names, next
      <4> QED BY <1>8, <1>9, <2>2, <3>3 DEF ReadSoFar
    <3> QED BY <3>1, <3>2, <3>3
  <2> QED BY <2>1, <2>2
<1>11. searches' = [searches EXCEPT ![w] = t]
  BY <1>3
<1> HIDE DEF t
<1>12. searches' \in [Searchers -> Search] /\ (\A v \in Searchers : ReadSoFar(searches[v]))'
  BY <1>2, <1>7, <1>10, <1>11, SearcherMoves
<1>13. SamplesLast' /\ SearchComplete' /\ SlotsApart' /\ SlotsBefore'
  BY <1>2, WindowStays, SlotsStay DEF SearchInv, SearchComplete
<1> QED BY <1>2, <1>12, <1>13 DEF SearchInv, SearchTyped

\* The steps that move one search and nothing of what they share: a start, a
\* failed fetch, and a retry.
LEMMA OwnSteps ==
    ASSUME SearchInv, NEW w \in Searchers, NEW s \in Search, ReadSoFar(s),
           searches' = [searches EXCEPT ![w] = s],
           UNCHANGED <<issued, second, nextFree, slots, samples, drawn>>, SearchComplete'
    PROVE  SearchInv'
<1>1. searches' \in [Searchers -> Search] /\ (\A v \in Searchers : ReadSoFar(searches[v]))'
  BY SearcherMoves
<1>2. SamplesLast' /\ SlotsApart' /\ SlotsBefore'
  BY WindowStays, SlotsStay DEF SearchInv
<1> QED BY <1>1, <1>2 DEF SearchInv, SearchTyped

\* A fresh attempt has read nothing yet, and is due what the source holds now.
LEMMA FreshAttempt ==
    ASSUME issued \in Nat, NEW a \in Nat
    PROVE  BuildCTJob(a) \in Search /\ ReadSoFar(BuildCTJob(a)) /\ NoSearch \in Search /\ ReadSoFar(NoSearch)
<1>1. NoSearch \in Search
  BY DEF Search, NoSearch
<1>2. /\ BuildCTJob(a) \in Search /\ BuildCTJob(a).at = "reserve" /\ BuildCTJob(a).from = issued
      /\ BuildCTJob(a).cursor = NoSearch.cursor
  BY <1>1 DEF Search, BuildCTJob
<1>3. Due(0) = {}
  BY DEF Due
<1>4. ReadSoFar(NoSearch)
  BY DEF ReadSoFar, NoSearch
<1>5. ReadSoFar(BuildCTJob(a))
  <2>1. NoSearch.cursor = 0
    BY DEF NoSearch
  <2> QED BY <1>2, <1>3, <2>1 DEF ReadSoFar
<1> QED BY <1>1, <1>2, <1>4, <1>5

\* A job starts from nothing read, and a failed page ends at a sample that says
\* so.
LEMMA StartOrFail ==
    ASSUME SearchInv, NEW w \in Searchers, StartSearch(w) \/ FetchFails(w)
    PROVE  SearchInv'
<1>1. searches[w] \in Search /\ ReadSoFar(searches[w]) /\ issued \in Nat
  BY DEF SearchInv, SearchTyped
<1>2. SearchComplete' /\ UNCHANGED <<issued, second, nextFree, slots, samples, drawn>>
  BY DEF SearchInv, SearchComplete, StartSearch, FetchFails
<1>3. CASE StartSearch(w)
  BY <1>1, <1>2, <1>3, FreshAttempt, OwnSteps DEF StartSearch
<1>4. CASE FetchFails(w)
  <2>1. Refused(searches[w]) \in Search /\ ReadSoFar(Refused(searches[w]))
    <3>1. /\ Refused(searches[w]) \in Search
          /\ Refused(searches[w]).at = "sample" /\ ~Refused(searches[w]).ok
          /\ Refused(searches[w]).from = searches[w].from
      BY <1>1 DEF Search, Refused
    <3> QED BY <1>1, <3>1 DEF ReadSoFar
  <2> QED BY <1>2, <1>4, <2>1, OwnSteps DEF FetchFails
<1> QED BY <1>3, <1>4

\* A sample drawn is the last, and the window stays whole.
LEMMA InsertStep ==
    ASSUME SearchInv, NEW w \in Searchers, InsertSample(w)
    PROVE  SearchInv'
<1> DEFINE s == searches[w]
           t == [s EXCEPT !.at = "trim"]
           x == [n |-> drawn + 1, ok |-> s.ok, empty |-> s.ok /\ ~s.any]
<1>1. s \in Search /\ ReadSoFar(s) /\ drawn \in Nat /\ samples \in Seq(Sample)
  BY DEF SearchInv, SearchTyped
<1>2. /\ s.at = "sample" /\ samples' = Append(samples, x) /\ drawn' = drawn + 1
      /\ searches' = [searches EXCEPT ![w] = t]
      /\ UNCHANGED <<issued, second, nextFree, slots, batches, started>>
  BY <1>1 DEF InsertSample
<1>3. t \in Search /\ ReadSoFar(t)
  <2>1. /\ t \in Search /\ t.at = "trim" /\ t.ok = s.ok /\ t.names = s.names /\ t.page = s.page /\ t.from = s.from
    BY <1>1 DEF Search
  <2> QED BY <1>1, <1>2, <2>1 DEF ReadSoFar
<1>4. x \in Sample /\ x.n = drawn + 1
  BY <1>1 DEF Sample, Search
<1> HIDE DEF t, x
<1>5. /\ samples' \in Seq(Sample) /\ Len(samples') = Len(samples) + 1 /\ Len(samples) \in Nat
      /\ \A i \in 1..Len(samples) : samples'[i] = samples[i]
      /\ samples'[Len(samples) + 1] = x
  BY <1>1, <1>2, <1>4, AppendProperties, LenProperties
<1>6. SamplesLast'
  <2>1. \A i \in 1..Len(samples') : samples'[i].n = drawn' - Len(samples') + i
    <3> SUFFICES ASSUME NEW i \in 1..Len(samples') PROVE samples'[i].n = drawn' - Len(samples') + i
      OBVIOUS
    <3>1. CASE i = Len(samples) + 1
      BY <1>1, <1>2, <1>4, <1>5, <3>1
    <3>2. CASE i # Len(samples) + 1
      BY <1>1, <1>2, <1>5, <3>2 DEF SearchInv, SamplesLast
    <3> QED BY <3>1, <3>2
  <2> QED BY <1>1, <1>2, <1>5, <2>1, SearchAssumption DEF SearchInv, SamplesLast
<1>7. searches' \in [Searchers -> Search] /\ (\A v \in Searchers : ReadSoFar(searches[v]))'
  BY <1>2, <1>3, SearcherMoves
<1>8. SlotsApart' /\ SlotsBefore' /\ SearchComplete'
  BY <1>2, SlotsStay DEF SearchInv, SearchComplete
<1> QED BY <1>1, <1>2, <1>5, <1>6, <1>7, <1>8 DEF SearchInv, SearchTyped

\* The newest of the samples, as a sequence.
LEMMA NewestOf ==
    ASSUME samples \in Seq(Sample), NEW n \in Nat
    PROVE  /\ Newest(n) \in Seq(Sample)
           /\ Len(Newest(n)) = IF Len(samples) <= n THEN Len(samples) ELSE n
           /\ DOMAIN Newest(n) = 1..Len(Newest(n))
           /\ \A i \in 1..Len(Newest(n)) : Newest(n)[i] = samples[Len(samples) - Len(Newest(n)) + i]
<1>1. Len(samples) \in Nat /\ \A i \in 1..Len(samples) : samples[i] \in Sample
  BY LenProperties, ElementOfSeq
<1>2. CASE Len(samples) <= n
  BY <1>1, <1>2, LenProperties DEF Newest
<1>3. CASE Len(samples) > n
  <2> DEFINE a == Len(samples) - n + 1
             b == Len(samples)
  <2>1. Newest(n) = SubSeq(samples, a, b)
    BY <1>1, <1>3 DEF Newest
  <2>2. a \in Int /\ b \in Int /\ \A i \in a..b : samples[i] \in Sample
    BY <1>1, <1>3
  <2>3. /\ SubSeq(samples, a, b) \in Seq(Sample)
        /\ Len(SubSeq(samples, a, b)) = IF a <= b THEN b - a + 1 ELSE 0
        /\ \A i \in 1..(b - a + 1) : SubSeq(samples, a, b)[i] = samples[a + i - 1]
    <3> HIDE DEF a, b
    <3> QED BY <2>2, SubSeqProperties
  <2>4. Len(Newest(n)) = n
    BY <1>1, <2>1, <2>3
  <2>5. \A i \in 1..n : Newest(n)[i] = samples[Len(samples) - n + i]
    <3> SUFFICES ASSUME NEW i \in 1..n PROVE Newest(n)[i] = samples[Len(samples) - n + i]
      OBVIOUS
    <3>1. i \in 1..(b - a + 1) /\ a + i - 1 = Len(samples) - n + i
      BY <1>1
    <3>2. SubSeq(samples, a, b)[i] = samples[a + i - 1]
      BY <2>3, <3>1
    <3> QED BY <2>1, <3>1, <3>2
  <2>6. Newest(n) \in Seq(Sample)
    BY <2>1, <2>3
  <2>7. DOMAIN Newest(n) = 1..Len(Newest(n))
    BY <2>6, LenProperties
  <2> HIDE DEF a, b
  <2> QED BY <1>3, <2>4, <2>5, <2>6, <2>7
<1> QED BY <1>1, <1>2, <1>3

\* A trim takes only what lies behind the window.
LEMMA TrimStep ==
    ASSUME SearchInv, NEW w \in Searchers, TrimSamples(w)
    PROVE  SearchInv'
<1> DEFINE s == searches[w]
           t == [s EXCEPT !.at = "settle"]
<1>1. s \in Search /\ ReadSoFar(s) /\ samples \in Seq(Sample) /\ drawn \in Nat /\ WindowSize \in Nat
  BY SearchAssumption DEF SearchInv, SearchTyped
<1>2. /\ s.at = "trim" /\ samples' \in {Newest(WindowSize), samples}
      /\ searches' = [searches EXCEPT ![w] = t]
      /\ UNCHANGED <<issued, second, nextFree, slots, batches, drawn, started>>
  BY <1>1 DEF TrimSamples, Trimmed
<1>3. t \in Search /\ ReadSoFar(t)
  <2>1. /\ t \in Search /\ t.at = "settle" /\ t.ok = s.ok
        /\ t.names = s.names /\ t.page = s.page /\ t.from = s.from
    BY <1>1 DEF Search
  <2> QED BY <1>1, <1>2, <2>1 DEF ReadSoFar
<1>4. Len(samples) \in Nat /\ SamplesLast
  BY <1>1, LenProperties DEF SearchInv
<1>5. samples' \in Seq(Sample) /\ SamplesLast'
  <2>1. CASE samples' = samples
    BY <1>1, <1>2, <1>4, <2>1, WindowStays
  <2>2. CASE samples' = Newest(WindowSize)
    <3>1. /\ Newest(WindowSize) \in Seq(Sample)
          /\ Len(Newest(WindowSize)) = IF Len(samples) <= WindowSize THEN Len(samples) ELSE WindowSize
          /\ \A i \in 1..Len(Newest(WindowSize)) :
                Newest(WindowSize)[i] = samples[Len(samples) - Len(Newest(WindowSize)) + i]
      BY <1>1, NewestOf
    <3>2. \A i \in 1..Len(samples') : samples'[i].n = drawn' - Len(samples') + i
      <4> SUFFICES ASSUME NEW i \in 1..Len(samples') PROVE samples'[i].n = drawn' - Len(samples') + i
        OBVIOUS
      <4>1. Len(samples) - Len(samples') + i \in 1..Len(samples) /\ Len(samples') \in Nat
        BY <1>1, <1>4, <2>2, <3>1
      <4>2. samples'[i] = samples[Len(samples) - Len(samples') + i]
        BY <2>2, <3>1
      <4>3. samples[Len(samples) - Len(samples') + i].n
               = drawn - Len(samples) + (Len(samples) - Len(samples') + i)
        BY <1>4, <4>1 DEF SamplesLast
      <4> QED BY <1>1, <1>2, <1>4, <4>1, <4>2, <4>3
    <3>3. Len(samples') <= drawn' /\ (Len(samples') < WindowSize => Len(samples') = drawn')
      BY <1>1, <1>2, <1>4, <2>2, <3>1 DEF SamplesLast
    <3> QED BY <2>2, <3>1, <3>2, <3>3 DEF SamplesLast
  <2> QED BY <1>2, <2>1, <2>2
<1> HIDE DEF t
<1>6. searches' \in [Searchers -> Search] /\ (\A v \in Searchers : ReadSoFar(searches[v]))'
  BY <1>2, <1>3, SearcherMoves
<1>7. SlotsApart' /\ SlotsBefore' /\ SearchComplete'
  BY <1>2, SlotsStay DEF SearchInv, SearchComplete
<1> QED BY <1>2, <1>5, <1>6, <1>7 DEF SearchInv, SearchTyped

\* A batch completed is of a search that read what it should, and a failed search
\* leaves one that asserts nothing.
LEMMA SettleStep ==
    ASSUME SearchInv, NEW w \in Searchers, admitCT(w) \/ retryOrDeadLetterCT(w)
    PROVE  SearchInv'
<1> DEFINE s == searches[w]
<1>1. s \in Search /\ ReadSoFar(s) /\ issued \in Nat
  BY DEF SearchInv, SearchTyped
<1>2. UNCHANGED <<issued, second, nextFree, slots, samples, drawn>> /\ s.at = "settle"
  BY DEF admitCT, retryOrDeadLetterCT
<1>3. CASE admitCT(w)
  <2> DEFINE b == [outcome |-> "completed", scoped |-> TRUE, names |-> s.names, from |-> s.from, pages |-> s.page]
  <2>1. batches' = batches \cup {b} /\ searches' = [searches EXCEPT ![w] = NoSearch] /\ s.ok
    BY <1>3 DEF admitCT
  <2>2. /\ b.outcome = "completed" /\ b.names = s.names /\ b.from = s.from /\ b.pages = s.page
    OBVIOUS
  <2>3. NamesFull(s.names) \/ ~(s.page < MaxCTPages) \/ ((1..s.from) \cap InScope) \ Wild \subseteq s.names
    BY <1>1, <1>2, <2>1 DEF ReadSoFar, Due
  <2> HIDE DEF b
  <2>4. SearchComplete'
    <3> SUFFICES ASSUME NEW x \in batches'
                 PROVE  /\ (x.outcome = "completed" /\ ~NamesFull(x.names) /\ x.pages < MaxCTPages)
                              => ((1..x.from) \cap InScope) \ Wild \subseteq x.names
                        /\ x.outcome = "dead-lettered" => x.names = {} /\ ~x.scoped
      BY DEF SearchComplete, NamesFull
    <3>1. CASE x \in batches
      BY <3>1 DEF SearchInv, SearchComplete
    <3>2. CASE x = b
      BY <2>2, <2>3, <3>2
    <3> QED BY <2>1, <3>1, <3>2
  <2> QED BY <1>1, <1>2, <2>1, <2>4, FreshAttempt, OwnSteps
<1>4. CASE retryOrDeadLetterCT(w) /\ s.attempt < SearchAttempts
  <2>1. searches' = [searches EXCEPT ![w] = BuildCTJob(s.attempt + 1)] /\ batches' = batches
    BY <1>4 DEF retryOrDeadLetterCT
  <2>2. s.attempt + 1 \in Nat
    BY <1>1 DEF Search
  <2>3. SearchComplete'
    BY <2>1 DEF SearchInv, SearchComplete, NamesFull
  <2> QED BY <1>1, <1>2, <2>1, <2>2, <2>3, FreshAttempt, OwnSteps
<1>5. CASE retryOrDeadLetterCT(w) /\ ~(s.attempt < SearchAttempts)
  <2> DEFINE b == [outcome |-> "dead-lettered", scoped |-> FALSE, names |-> {}, from |-> s.from, pages |-> 0]
  <2>1. batches' = batches \cup {b} /\ searches' = [searches EXCEPT ![w] = NoSearch]
    BY <1>5 DEF retryOrDeadLetterCT
  <2>2. /\ b.outcome = "dead-lettered" /\ b.names = {} /\ ~b.scoped
    OBVIOUS
  <2> HIDE DEF b
  <2>3. SearchComplete'
    BY <2>1, <2>2 DEF SearchInv, SearchComplete, NamesFull
  <2> QED BY <1>1, <1>2, <2>1, <2>3, FreshAttempt, OwnSteps
<1> QED BY <1>3, <1>4, <1>5

\* The world's own steps: an issuance is never due to a search that began before it.
LEMMA WorldSteps ==
    ASSUME SearchInv, Issue \/ Second \/ UNCHANGED searchVars
    PROVE  SearchInv'
<1>1. /\ UNCHANGED <<nextFree, slots, searches, batches, samples, drawn>>
      /\ issued' \in {issued, issued + 1} /\ second' \in {second, second + 1}
  BY DEF Issue, Second, searchVars
<1>2. SearchTyped'
  BY <1>1 DEF SearchInv, SearchTyped
<1>3. \A w \in Searchers : searches[w].from \in Nat
  BY DEF SearchInv, SearchTyped, Search
<1>4. (\A w \in Searchers : ReadSoFar(searches[w]))'
  BY <1>1, <1>3 DEF SearchInv, SearchTyped, ReadSoFar, Due, NamesFull
<1> QED BY <1>1, <1>2, <1>4, WindowStays, SlotsStay DEF SearchInv, SearchComplete, NamesFull

\* The invariant holds at the start, before any search, and throughout.
LEMMA SearchStart == SearchInit => SearchInv
<1> SUFFICES ASSUME SearchInit PROVE SearchInv
  OBVIOUS
<1>1. \A S : << >> \in Seq(S) /\ Len(<< >>) = 0
  BY EmptySeq
<1>2. DOMAIN << >> = {}
  OBVIOUS
<1>3. issued \in Nat
  BY DEF SearchInit
<1>4. NoSearch \in Search /\ ReadSoFar(NoSearch)
  BY <1>3, FreshAttempt
<1> QED BY <1>1, <1>2, <1>4
      DEF SearchInit, SearchInv, SearchTyped, SlotsApart, SlotsBefore, SearchComplete, SamplesLast

\* The search keeps its invariant.
LEMMA SearchAlways == SearchSpec => []SearchInv
<1>1. SearchInv /\ [SearchNext]_searchVars => SearchInv'
  BY ReserveStep, FetchStep, StartOrFail, InsertStep, TrimStep, SettleStep, WorldSteps DEF SearchNext
<1> QED BY <1>1, SearchStart, PTL DEF SearchSpec

\* The window read of the samples kept is whole.
LEMMA WindowIsWhole == SearchInv => WindowWhole
<1> SUFFICES ASSUME SearchInv, NEW k \in 0..(WindowSize - 1), drawn > k
             PROVE  \E i \in DOMAIN Newest(WindowSize) : Newest(WindowSize)[i].n = drawn - k
  BY DEF WindowWhole
<1>1. WindowSize \in Nat /\ drawn \in Nat /\ Len(samples) \in Nat /\ samples \in Seq(Sample)
  BY SearchAssumption, LenProperties DEF SearchInv, SearchTyped
<1> DEFINE W == Newest(WindowSize)
           i == Len(W) - k
<1>2. /\ Len(W) = IF Len(samples) <= WindowSize THEN Len(samples) ELSE WindowSize
      /\ DOMAIN W = 1..Len(W)
      /\ \A j \in 1..Len(W) : W[j] = samples[Len(samples) - Len(W) + j]
  BY <1>1, NewestOf
<1> HIDE DEF W
<1>3. i \in 1..Len(W) /\ Len(samples) - Len(W) + i \in 1..Len(samples)
  BY <1>1, <1>2 DEF SearchInv, SamplesLast
<1>4. W[i] = samples[Len(samples) - Len(W) + i]
  BY <1>2, <1>3
<1>5. samples[Len(samples) - Len(W) + i].n = drawn - Len(samples) + (Len(samples) - Len(W) + i)
  BY <1>3 DEF SearchInv, SamplesLast
<1>6. W[i].n = drawn - k
  BY <1>1, <1>2, <1>3, <1>4, <1>5
<1> QED BY <1>2, <1>3, <1>6 DEF W

\* Slots are a spacing apart, an answer is whole or nothing, and the window is whole.
THEOREM SearchIsHonest == SearchSpec => []SearchHonest
<1>1. SearchInv => SearchHonest
  BY WindowIsWhole DEF SearchInv, SearchHonest
<1> QED BY <1>1, SearchAlways, PTL

-----------------------------------------------------------------------------
(* CTVerify: a certificate called not logged.                              *)

\* The tree holds the entry where the log promised it, or nowhere.
LeafWherePromised ==
    /\ logTree \in Seq(BOOLEAN) /\ cert.index \in Nat
    /\ \A i \in DOMAIN logTree : logTree[i] => i = cert.index + 1

\* Every SCT the loop reaches is one of the certificate's.
AtAnSCT == cert.scts \in Seq(SCTKinds) /\ position \in Nat \ {0}

AllTiled == \A i \in DOMAIN cert.scts : cert.scts[i].tiled

\* The promised slot is in the head, and holds another entry.
ShownOtherwise == Len(logTree) > cert.index /\ ~logTree[cert.index + 1]

\* The inductive invariant.
VerifyInv ==
    /\ LeafWherePromised /\ AtAnSCT
    /\ AllTiled /\ "notFound" \in checks => ShownOtherwise
    /\ verdict = "not logged" => "errored" \notin checks /\ "notFound" \in checks

\* A tiled log denies the leaf only from a head that shows the promised slot.
LEMMA TiledDenies ==
    ASSUME NEW leaves \in Seq(BOOLEAN), NEW index \in Nat, "notFound" \in checkTiled(leaves, index)
    PROVE  Len(leaves) > index /\ ~leaves[index + 1]
<1>1. /\ ~(index >= Len(leaves)) /\ LeafHashInTile(Ours, index, leaves) # "absent"
      /\ LeafHashInTile(Ours, index, leaves) # "match"
  BY DEF checkTiled
<1>2. Len(leaves) \in Nat /\ Len(leaves) > index
  BY <1>1, LenProperties
<1>3. leafHash(index, leaves[index + 1]) # Ours
  BY <1>1 DEF LeafHashInTile
<1>4. leafHash(index, TRUE) = Ours
  BY DEF leafHash, Ours
<1>5. leaves[index + 1] \in BOOLEAN
  BY <1>2, ElementOfSeq
<1> QED BY <1>2, <1>3, <1>4, <1>5

\* The certificate before any of its SCTs is checked.
LEMMA VerifyStarts == VerifyInit => VerifyInv
<1> SUFFICES ASSUME VerifyInit
             PROVE  VerifyInv
  OBVIOUS
<1>1. /\ cert.scts \in {<< >>} \cup {<<a>> : a \in SCTKinds} \cup {<<a, b>> : a, b \in SCTKinds}
      /\ cert.index \in 0..(MaxLeaves - 1) /\ logTree \in Trees(cert.index)
      /\ position = 1 /\ checks = {} /\ verdict = "none"
  BY DEF VerifyInit
<1>2. cert.scts \in Seq(SCTKinds)
  <2>1. CASE cert.scts = << >>
    BY <2>1, EmptySeq
  <2>2. CASE \E a \in SCTKinds : cert.scts = <<a>>
    BY <2>2
  <2>3. CASE \E a, b \in SCTKinds : cert.scts = <<a, b>>
    BY <2>3
  <2> QED BY <1>1, <2>1, <2>2, <2>3
<1>3. cert.index \in Nat
  BY <1>1, VerifyAssumption
<1>4. PICK n \in 1..MaxLeaves : logTree \in [1..n -> BOOLEAN]
  BY <1>1 DEF Trees
<1>5. logTree \in Seq(BOOLEAN)
  BY <1>4, VerifyAssumption, SeqDef
<1>6. \A i \in DOMAIN logTree : logTree[i] => i = cert.index + 1
  BY <1>1 DEF Trees
<1> QED BY <1>1, <1>2, <1>3, <1>5, <1>6 DEF VerifyInv, LeafWherePromised, AtAnSCT

\* One SCT is checked against its log.
LEMMA CheckStep == VerifyInv /\ CheckSCT => VerifyInv'
<1> SUFFICES ASSUME VerifyInv, CheckSCT
             PROVE  VerifyInv'
  OBVIOUS
<1>1. /\ verdict = "none" /\ position <= Len(cert.scts) /\ position' = position + 1
      /\ cert' = cert /\ logTree' = logTree
  BY DEF CheckSCT
<1> DEFINE sct == cert.scts[position]
<1>2. \/ checks' = checks /\ verdict' = verdict
      \/ \E r \in checkOneLog(sct) :
            checks' = checks \cup {r} /\ verdict' = IF r = "included" THEN "logged" ELSE "none"
  BY DEF CheckSCT
<1>3. LeafWherePromised' /\ AtAnSCT'
  BY <1>1 DEF VerifyInv, LeafWherePromised, AtAnSCT
<1>4. verdict' # "not logged"
  BY <1>1, <1>2
<1>5. ASSUME AllTiled, "notFound" \in checks'
      PROVE  ShownOtherwise
  <2>1. CASE "notFound" \in checks
    BY <1>5, <2>1 DEF VerifyInv
  <2>2. CASE "notFound" \notin checks
    <3>1. "notFound" \in checkOneLog(sct)
      BY <1>2, <1>5, <2>2
    <3>2. position \in DOMAIN cert.scts
      BY <1>1, LenProperties DEF VerifyInv, AtAnSCT
    <3>3. checkOneLog(sct) = checkTiled(logTree, cert.index)
      BY <1>5, <3>2 DEF AllTiled, checkOneLog
    <3> QED BY <3>1, <3>3, TiledDenies DEF VerifyInv, LeafWherePromised, ShownOtherwise
  <2> QED BY <2>1, <2>2
<1>6. AllTiled' = AllTiled /\ ShownOtherwise' = ShownOtherwise
  BY <1>1 DEF AllTiled, ShownOtherwise
<1> QED BY <1>3, <1>4, <1>5, <1>6 DEF VerifyInv

\* The tree grows, and takes the entry at no other slot than the promised one.
LEMMA GrowStep == VerifyInv /\ GrowTree => VerifyInv'
<1> SUFFICES ASSUME VerifyInv, GrowTree
             PROVE  VerifyInv'
  OBVIOUS
<1>1. PICK ours \in BOOLEAN : (ours => Len(logTree) = cert.index) /\ logTree' = Append(logTree, ours)
  BY DEF GrowTree
<1>2. cert' = cert /\ position' = position /\ checks' = checks /\ verdict' = verdict
  BY DEF GrowTree
<1>3. logTree \in Seq(BOOLEAN) /\ cert.index \in Nat /\ Len(logTree) \in Nat /\ DOMAIN logTree = 1..Len(logTree)
  BY LenProperties DEF VerifyInv, LeafWherePromised
<1>4. /\ logTree' \in Seq(BOOLEAN) /\ Len(logTree') = Len(logTree) + 1
      /\ DOMAIN logTree' = 1..(Len(logTree) + 1)
      /\ \A i \in 1..Len(logTree) : logTree'[i] = logTree[i]
      /\ logTree'[Len(logTree) + 1] = ours
  BY <1>1, <1>3, AppendProperties, LenProperties
<1>5. \A i \in DOMAIN logTree' : logTree'[i] => i = cert.index + 1
  <2> SUFFICES ASSUME NEW i \in DOMAIN logTree', logTree'[i]
               PROVE  i = cert.index + 1
    OBVIOUS
  <2>1. CASE i \in 1..Len(logTree)
    BY <1>3, <1>4, <2>1 DEF VerifyInv, LeafWherePromised
  <2>2. CASE i = Len(logTree) + 1
    BY <1>1, <1>3, <1>4, <2>2
  <2> QED BY <1>3, <1>4, <2>1, <2>2
<1>6. LeafWherePromised' /\ AtAnSCT'
  BY <1>2, <1>3, <1>4, <1>5 DEF VerifyInv, LeafWherePromised, AtAnSCT
<1>7. ShownOtherwise => ShownOtherwise'
  <2> SUFFICES ASSUME Len(logTree) > cert.index, ~logTree[cert.index + 1]
               PROVE  Len(logTree') > cert.index /\ ~logTree'[cert.index + 1]
    BY <1>2 DEF ShownOtherwise
  <2>1. cert.index + 1 \in 1..Len(logTree)
    BY <1>3
  <2> QED BY <1>3, <1>4, <2>1
<1>8. AllTiled' = AllTiled
  BY <1>2 DEF AllTiled
<1> QED BY <1>2, <1>6, <1>7, <1>8 DEF VerifyInv

\* Every step of the verification keeps the invariant.
LEMMA VerifyStep == VerifyInv /\ [VerifyNext]_verifyVars => VerifyInv'
<1>1. ASSUME VerifyInv, Conclude
      PROVE  VerifyInv'
  <2>1. /\ verdict' = Verdict(checks)
        /\ cert' = cert /\ logTree' = logTree /\ position' = position /\ checks' = checks
    BY <1>1 DEF Conclude
  <2>2. verdict' = "not logged" => "errored" \notin checks /\ "notFound" \in checks
    BY <2>1 DEF Verdict
  <2> QED BY <1>1, <2>1, <2>2 DEF VerifyInv, LeafWherePromised, AtAnSCT, AllTiled, ShownOtherwise
<1>2. ASSUME VerifyInv, UNCHANGED verifyVars
      PROVE  VerifyInv'
  BY <1>2 DEF verifyVars, VerifyInv, LeafWherePromised, AtAnSCT, AllTiled, ShownOtherwise
<1> QED BY <1>1, <1>2, CheckStep, GrowStep DEF VerifyNext

\* A certificate is called not logged on no failed fetch, and by tiled logs only
\* from a head that shows another entry at the promised index, however the tree
\* grew while the SCTs were checked (verifyMaterial).
THEOREM NoFalseDenialHolds == VerifySpec => []NoFalseDenial
<1>1. VerifyInv => NoFalseDenial
  <2> SUFFICES ASSUME VerifyInv, Warns
               PROVE  /\ "errored" \notin checks
                      /\ AllTiled => Len(logTree) > cert.index /\ ~LeafHeld(logTree)
    BY DEF NoFalseDenial, AllTiled
  <2>1. "errored" \notin checks /\ "notFound" \in checks
    BY DEF VerifyInv, Warns
  <2>2. ASSUME AllTiled
        PROVE  Len(logTree) > cert.index /\ ~LeafHeld(logTree)
    BY <2>1, <2>2 DEF VerifyInv, LeafWherePromised, ShownOtherwise, LeafHeld
  <2> QED BY <2>1, <2>2
<1> QED BY <1>1, VerifyStarts, VerifyStep, PTL DEF VerifySpec
===============================================================================
