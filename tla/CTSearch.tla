------------------------------ MODULE CTSearch ------------------------------
(***************************************************************************)
(* The bulk certificate-transparency search (internal/queue/crtsh.go,      *)
(* internal/scan/crtsh.go, certspotter.go): a ct job pages through a       *)
(* source's issuances under the source's instance-wide throttle, samples   *)
(* its own reliability, and admits the names it read or nothing.           *)
(*                                                                         *)
(* An issuance is its id and the one name it carries.  Jobs are claimed    *)
(* and their leases kept by the queue (module ScanQueue); here a worker    *)
(* holds one search at a time.                                             *)
(***************************************************************************)
EXTENDS Naturals, FiniteSets, Sequences, SequencesExt

CONSTANTS
    Searchers,     \* workers
    InScope,       \* issuance ids whose name is within the seed's domain
    Wild,          \* issuance ids that carry a wildcard
    Issued,        \* bound: the last issuance id the source will hold
    PageRows,      \* issuances a page holds
    Paged,         \* TRUE: Cert Spotter pages by id; FALSE: crt.sh answers whole
    MaxCTPages,    \* maxCTPages
    NameCap,       \* MaxAdmittedNames
    SlotSpacing,   \* crtshInterval, certSpotterInterval
    WindowSize,    \* CTReliabilityWindowSize
    SearchAttempts,\* a ct job's max_attempts
    MaxSearches,   \* bound: jobs ever run
    MaxSecond      \* bound: the last instant

ASSUME SearchAssumption == PageRows \in Nat \ {0} /\ {NameCap, SlotSpacing, WindowSize} \subseteq Nat

VARIABLES
    issued,    \* the source holds issuances 1..issued
    second,
    nextFree,  \* ct_throttle.next_free_at
    slots,     \* every slot granted
    searches,  \* each worker's search
    batches,   \* the batches written: outcome, names, the source's size at the start
    samples,   \* ct_reliability_sample, oldest first: ok, empty
    drawn,     \* samples ever inserted
    started

searchVars == <<issued, second, nextFree, slots, searches, batches, samples, drawn, started>>

NoSearch == [at |-> "none", cursor |-> 0, page |-> 0, names |-> {}, any |-> FALSE,
             attempt |-> 0, slot |-> 0, from |-> 0, ok |-> FALSE]

SearchInit ==
    /\ issued = 1 /\ second = 0 /\ nextFree = 0 /\ slots = << >>
    /\ searches = [w \in Searchers |-> NoSearch]
    /\ batches = {} /\ samples = << >> /\ drawn = 0 /\ started = 0

\* External: certificates are issued, and time passes.
Issue ==
    /\ issued < Issued /\ issued' = issued + 1
    /\ UNCHANGED <<second, nextFree, slots, searches, batches, samples, drawn, started>>

Second ==
    /\ second < MaxSecond /\ second' = second + 1
    /\ UNCHANGED <<issued, nextFree, slots, searches, batches, samples, drawn, started>>

-----------------------------------------------------------------------------
(* The fan-out queues one job per name seed while the source is enabled;   *)
(* a retry is a fresh attempt of the job.                                  *)

BuildCTJob(attempt) ==
    [NoSearch EXCEPT !.at = "reserve", !.attempt = attempt, !.from = issued]

StartSearch(w) ==
    /\ searches[w].at = "none" /\ started < MaxSearches
    /\ searches' = [searches EXCEPT ![w] = BuildCTJob(1)]
    /\ started' = started + 1
    /\ UNCHANGED <<issued, second, nextFree, slots, batches, samples, drawn>>

Later(a, b) == IF a > b THEN a ELSE b

\* ReserveCTSlot: the row is moved past now and past the last slot granted.
ReservedAt_Now == second
ReservedAt == Later(nextFree, second)

Reserve(w) ==
    /\ searches[w].at = "reserve"
    /\ nextFree' = ReservedAt + SlotSpacing
    /\ slots' = Append(slots, ReservedAt)
    /\ searches' = [searches EXCEPT ![w].at = "fetch", ![w].slot = ReservedAt]
    /\ UNCHANGED <<issued, second, batches, samples, drawn, started>>

-----------------------------------------------------------------------------
(* The page. *)

\* What the source answers after a cursor: its lowest ids above it, in no order.
Page(cursor) ==
    IF ~Paged THEN 1..issued
    ELSE {i \in (cursor + 1)..issued : i <= cursor + PageRows}

\* DecodePage's cursor: the highest id of the page, none for an empty page.
maxIssuanceID(page) == IF page = {} \/ ~Paged THEN 0 ELSE CHOOSE i \in page : \A j \in page : j <= i

\* CTAdmitter.Add: within the domain, never a wildcard, never past the cap.
Admits(names, page) ==
    LET new == (page \cap InScope) \ (Wild \cup names)
    IN {S \in SUBSET new : IF Cardinality(names \cup new) <= NameCap THEN S = new
                           ELSE Cardinality(names \cup S) = NameCap}

NamesFull(names) == Cardinality(names) >= NameCap

\* The search goes on while the source names a further page.
GoesOn(s, next, names) ==
    next # 0 /\ next # s.cursor /\ ~NamesFull(names) /\ s.page + 1 < MaxCTPages

\* A page is read once its slot has come.
FetchPage(w) ==
    LET s == searches[w] page == Page(s.cursor) next == maxIssuanceID(page)
    IN /\ s.at = "fetch" /\ second >= s.slot
       /\ \E new \in Admits(s.names, page) :
            LET names == s.names \cup new
            IN searches' = [searches EXCEPT ![w] =
                 [s EXCEPT !.names = names, !.any = s.any \/ page # {}, !.page = s.page + 1,
                           !.cursor = next, !.ok = TRUE,
                           !.at = IF GoesOn(s, next, names) THEN "reserve" ELSE "sample"]]
       /\ UNCHANGED <<issued, second, nextFree, slots, batches, samples, drawn, started>>

\* The fetch fails, is refused, or does not decode: the attempt ends.
Refused(s) == [s EXCEPT !.at = "sample", !.ok = FALSE]

FetchFails(w) ==
    /\ searches[w].at = "fetch" /\ second >= searches[w].slot
    /\ searches' = [searches EXCEPT ![w] = Refused(searches[w])]
    /\ UNCHANGED <<issued, second, nextFree, slots, batches, samples, drawn, started>>

-----------------------------------------------------------------------------
(* The sample: inserted, then trimmed, each a statement of its own.        *)

InsertSample(w) ==
    LET s == searches[w]
    IN /\ s.at = "sample"
       /\ samples' = Append(samples, [n |-> drawn + 1, ok |-> s.ok, empty |-> s.ok /\ ~s.any])
       /\ drawn' = drawn + 1
       /\ searches' = [searches EXCEPT ![w].at = "trim"]
       /\ UNCHANGED <<issued, second, nextFree, slots, batches, started>>

Newest(n) == IF Len(samples) <= n THEN samples ELSE SubSeq(samples, Len(samples) - n + 1, Len(samples))
\* TrimCTReliabilitySamples keeps the newest rows.
Trimmed == Newest(WindowSize)

\* A lost sample never changes the job's outcome, so the trim may be skipped.
TrimSamples(w) ==
    /\ searches[w].at = "trim"
    /\ samples' \in {Trimmed, samples}
    /\ searches' = [searches EXCEPT ![w].at = "settle"]
    /\ UNCHANGED <<issued, second, nextFree, slots, batches, drawn, started>>

-----------------------------------------------------------------------------
(* The outcome, in one transaction with the job's end.                     *)

admitCT(w) ==
    /\ searches[w].at = "settle" /\ searches[w].ok
    /\ batches' = batches \cup {[outcome |-> "completed", scoped |-> TRUE, names |-> searches[w].names,
                                 from |-> searches[w].from, pages |-> searches[w].page]}
    /\ searches' = [searches EXCEPT ![w] = NoSearch]
    /\ UNCHANGED <<issued, second, nextFree, slots, samples, drawn, started>>

\* retryOrDeadLetterCT: a dead letter's recorded scope is empty.
retryOrDeadLetterCT(w) ==
    /\ searches[w].at = "settle" /\ ~searches[w].ok
    /\ IF searches[w].attempt < SearchAttempts
       THEN /\ searches' = [searches EXCEPT ![w] = BuildCTJob(searches[w].attempt + 1)]
            /\ batches' = batches
       ELSE /\ searches' = [searches EXCEPT ![w] = NoSearch]
            /\ batches' = batches \cup {[outcome |-> "dead-lettered", scoped |-> FALSE, names |-> {},
                                         from |-> searches[w].from, pages |-> 0]}
    /\ UNCHANGED <<issued, second, nextFree, slots, samples, drawn, started>>

SearchNext ==
    \/ Issue \/ Second
    \/ \E w \in Searchers :
         \/ StartSearch(w) \/ Reserve(w) \/ FetchPage(w) \/ FetchFails(w)
         \/ InsertSample(w) \/ TrimSamples(w) \/ admitCT(w) \/ retryOrDeadLetterCT(w)

SearchSpec == SearchInit /\ [][SearchNext]_searchVars

-----------------------------------------------------------------------------
\* Whatever the number of workers and however they interleave, the slots a source
\* grants are a spacing apart (ReserveCTSlot, reserveCTSlot).
SlotsApart ==
    \A i, j \in DOMAIN slots : i < j => slots[j] >= slots[i] + SlotSpacing

\* A search that completed short of its caps admitted every name in scope that the
\* source held when it began; one that failed asserts nothing (completeCT).
SearchComplete ==
    \A b \in batches :
      /\ (b.outcome = "completed" /\ ~NamesFull(b.names) /\ b.pages < MaxCTPages)
            => ((1..b.from) \cap InScope) \ Wild \subseteq b.names
      /\ b.outcome = "dead-lettered" => b.names = {} /\ ~b.scoped

\* However the workers' inserts and trims interleave, the window the reliability
\* bar reads is the newest samples drawn, none of them missing (recordCTSample).
WindowWhole ==
    LET w == Newest(WindowSize)
    IN \A k \in 0..(WindowSize - 1) :
         drawn > k => \E i \in DOMAIN w : w[i].n = drawn - k

\* What several searchers share stays whole: the source's slots, the answer a
\* search reports and the window its source is judged by.
SearchHonest == SlotsApart /\ SearchComplete /\ WindowWhole
=============================================================================
