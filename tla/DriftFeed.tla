----------------------------- MODULE DriftFeed -----------------------------
(***************************************************************************)
(* The drift feed and the report's trends (internal/drift, cmd/web/drift.go,*)
(* driftfeed.go, reports.go, db/queries/span.sql): what moved is read back   *)
(* from spans on every load, under a cap for each batch and one for the      *)
(* page.  Time is a count of instants; a batch folds everything at one.      *)
(***************************************************************************)
EXTENDS Integers, Sequences, FiniteSets, SequencesExt, FiniteSetsExt

CONSTANTS
    Lines,        \* the timelines, as the numbers the read orders them by
    SubjectOf,    \* [Lines -> subjects]
    KindOf,       \* [subjects -> {"name", "service"}]
    DeclaredSubjects,     \* the subjects a declared scope covers and no exclusion cuts out
    Values,       \* the values a reading may bring
    driftFeedLimit, driftBatchLimit,
    TrendBucket, TrendBuckets,   \* the width and the number of a trend's buckets
    MaxBars,      \* bars a chart may draw
    MaxBar,       \* bound: timelines a batch reads
    MaxFeedClock      \* bound: instants

VARIABLES
    spans,     \* [line, value, vector, opened, closed, reason, aperture]
    release,   \* the derivation vector the prober stamps now
    feedClock,
    happened   \* what each batch did, as the fold saw it: [line, at, what]

driftVars == <<spans, release, feedClock, happened>>

StillOpen == 0 - 1
NoReason == ""
Reasons == {"measured-absent", "uncited", "descoped"}
Subjects == {SubjectOf[l] : l \in Lines}

-----------------------------------------------------------------------------
(* The timeline's fold. *)

IsOpen(sp) == sp.closed = StillOpen
openAt(sp, t) == sp.opened <= t /\ (IsOpen(sp) \/ sp.closed > t)
CurrentlyOpen(l) == {sp \in spans : sp.line = l /\ IsOpen(sp)}

\* A differing vector opens a new span even where the value is the same.
sameSpan(sp, value) == sp.value = value /\ sp.vector = release

\* The span before this one on its timeline.
Predecessor(sp) ==
    LET older == {p \in spans : p.line = sp.line /\ p.opened < sp.opened}
    IN {p \in older : \A q \in older : q.opened <= p.opened}

\* What the reading of a timeline does, said by the fold itself.
FoldStep(l, value) ==
    LET before == {sp \in spans : sp.line = l}
        last == CHOOSE sp \in before : \A q \in before : q.opened <= sp.opened
    IN CASE before = {} -> "gain"
         [] before # {} /\ IsOpen(last) /\ sameSpan(last, value) -> "nothing"
         [] before # {} /\ last.vector # release -> "break"
         [] OTHER -> IF IsOpen(last) THEN "change" ELSE "gain"

\* Closes written once: a closed span keeps its reason.
CloseWithdrawal(lines, reason) ==
    {[sp EXCEPT !.closed = feedClock, !.reason = reason] : sp \in {x \in spans : IsOpen(x) /\ x.line \in lines}}

-----------------------------------------------------------------------------
(* What the feed reads. *)

\* A Break on any resolution witness of the subject open at the instant.
WitnessBroke(sp) ==
    \E w \in spans : /\ SubjectOf[w.line] = SubjectOf[sp.line]
                     /\ openAt(w, sp.opened)
                     /\ \E p \in Predecessor(w) : p.vector # w.vector

\* Mutant: a move's close is listed beside the opening that replaced it.
Edges_BothEnds(since, until) ==
    {[role |-> "opened", at |-> sp.opened, span |-> sp] :
        sp \in {x \in spans : x.opened >= since /\ x.opened < until}}
    \cup {[role |-> "closed", at |-> sp.closed, span |-> sp] :
        sp \in {x \in spans : ~IsOpen(x) /\ x.closed >= since /\ x.closed < until}}

\* The openings and the closes with a reason; a move's close rides its successor's opening.
Edges(since, until) ==
    {[role |-> "opened", at |-> sp.opened, span |-> sp] :
        sp \in {x \in spans : x.opened >= since /\ x.opened < until}}
    \cup {[role |-> "closed", at |-> sp.closed, span |-> sp] :
        sp \in {x \in spans : ~IsOpen(x) /\ x.reason # NoReason /\ x.closed >= since /\ x.closed < until}}

InBatchOrder(a, b) ==
    \/ a.span.line < b.span.line
    \/ a.span.line = b.span.line /\ a.span.opened < b.span.opened
    \/ a.span.line = b.span.line /\ a.span.opened = b.span.opened /\ a.role = "closed" /\ b.role = "opened"

BatchRank(e, es) == Cardinality({x \in es : x.at = e.at /\ InBatchOrder(x, e)}) + 1

\* One row past each bound is read, so that an overflow is measured.
driftBatchRead == driftBatchLimit + 1
driftFeedRead == driftFeedLimit + 1

\* The members of a set in a total order.
InOrder(S, before(_, _)) ==
    [i \in 1..Cardinality(S) |-> CHOOSE e \in S : Cardinality({x \in S : before(x, e)}) = i - 1]

ListRecentDriftEvents(since, until) ==
    LET es == Edges(since, until)
        ranked == {e \in es : BatchRank(e, es) <= driftBatchRead}
        order(a, b) == a.at > b.at \/ (a.at = b.at /\ InBatchOrder(a, b))
        rows == InOrder(ranked, order)
    IN SubSeq(rows, 1, Min({Len(rows), driftFeedRead}))

capDriftFeed(rows) ==
    [rows |-> SubSeq(rows, 1, Min({Len(rows), driftFeedLimit})), truncated |-> Len(rows) > driftFeedLimit]

\* The page's rows by batch, newest first, each cut at its bound.
driftBatchRuns(rows) ==
    LET ats == {rows[i].at : i \in DOMAIN rows}
        run(t) == SelectSeq(rows, LAMBDA r : r.at = t)
        order == InOrder(ats, LAMBDA a, b : a > b)
    IN [i \in DOMAIN order |->
            [rows      |-> SubSeq(run(order[i]), 1, Min({Len(run(order[i])), driftBatchLimit})),
             truncated |-> Len(run(order[i])) > driftBatchLimit,
             at        |-> order[i]]]

MembershipReturn(reason, broke) == IF reason = "descoped" \/ broke THEN "appeared" ELSE "returned"

ReEntryKind(reason, broke, aperture) ==
    IF aperture /\ reason = "descoped" THEN "revealed" ELSE MembershipReturn(reason, broke)

\* What a row is told as, "" for one that cannot be narrated.
classifyDriftEvent(row) ==
    LET prev == Predecessor(row.span)
        p == CHOOSE x \in prev : TRUE
    IN CASE row.role = "closed" -> IF row.span.reason = "descoped" THEN "descoped" ELSE "withdrawn"
         [] row.role = "opened" /\ prev = {} -> IF row.span.aperture THEN "revealed" ELSE "appeared"
         [] row.role = "opened" /\ prev # {} /\ p.vector # row.span.vector -> ""
         [] row.role = "opened" /\ prev # {} /\ p.vector = row.span.vector /\ p.reason \in Reasons ->
                ReEntryKind(p.reason, WitnessBroke(row.span), row.span.aperture)
         [] OTHER -> "changed"

driftFamily(change) ==
    CASE change \in {"appeared", "revealed", "returned"} -> "gain"
      [] change \in {"withdrawn", "descoped"} -> "loss"
      [] OTHER -> "change"

Narrated(run) == {[line |-> run.rows[i].span.line, at |-> run.at, what |-> driftFamily(classifyDriftEvent(run.rows[i]))] :
                    i \in {k \in DOMAIN run.rows : classifyDriftEvent(run.rows[k]) # ""}}

\* The page drops a batch none of whose rows it could narrate.
buildDriftFeed(rows) == SelectSeq(driftBatchRuns(rows), LAMBDA run : Narrated(run) # {})

movement(rows) ==
    LET runs == driftBatchRuns(rows)
    IN [what \in {"gain", "loss", "change"} |->
            Cardinality({e \in UNION {Narrated(runs[i]) : i \in DOMAIN runs} : e.what = what})]

driftPage(since, until) ==
    LET capped == capDriftFeed(ListRecentDriftEvents(since, until))
        groups == buildDriftFeed(capped.rows)
    IN [events    |-> UNION {Narrated(groups[i]) : i \in DOMAIN groups},
        truncated |-> capped.truncated \/ \E i \in DOMAIN groups : groups[i].truncated,
        collapsed |-> {groups[i].at : i \in {k \in DOMAIN groups : k > 2}},
        total     |-> movement(capped.rows)]

\* The export writes a note after every batch it cut, and one for the feed.
writeDriftExportCSV(since, until) ==
    LET capped == capDriftFeed(ListRecentDriftEvents(since, until))
        runs == driftBatchRuns(capped.rows)
    IN [lines  |-> [i \in DOMAIN capped.rows |-> capped.rows[i].span.line],
        events |-> UNION {Narrated(runs[i]) : i \in DOMAIN runs},
        notes  |-> {runs[i].at : i \in {k \in DOMAIN runs : runs[k].truncated}},
        capped |-> capped.truncated]

-----------------------------------------------------------------------------
(* The report's trends. *)

windowStart(now, bucket, buckets) == now - bucket * buckets

bucketIndex(at, start, bucket, buckets) ==
    IF at < start THEN {} ELSE {(at - start) \div bucket} \cap (0..buckets - 1)

\* When each subject was first seen, from the given instant on.
ListSubjectFirstAppearances(since) ==
    LET seen(s) == {sp.opened : sp \in {x \in spans : SubjectOf[x.line] = s}}
    IN {[subject |-> s, service |-> KindOf[s] = "service", at |-> Min(seen(s))] :
           s \in {x \in Subjects : seen(x) # {} /\ Min(seen(x)) >= since}}

ListWithdrawalLifespans(since) ==
    {[subject |-> SubjectOf[w.line], withdrawn |-> w.closed,
      appeared |-> Min({p.opened : p \in {x \in spans : SubjectOf[x.line] = SubjectOf[w.line]}})] :
        w \in {x \in spans : ~IsOpen(x) /\ x.reason # NoReason /\ x.closed >= since}}

DiscoverySeries(apps, now, bucket, buckets) ==
    [i \in 0..buckets - 1 |->
        Cardinality({a \in apps : i \in bucketIndex(a.at, windowStart(now, bucket, buckets), bucket, buckets)})]

DiscoveryCount(apps, start, end) ==
    LET in == {a \in apps : start <= a.at /\ a.at < end}
    IN [total |-> Cardinality(in), services |-> Cardinality({a \in in : a.service})]

\* Bars of seven days, or of fourteen, until the row fits.
aggregateDiscoveryBars(points) ==
    LET n == Cardinality(DOMAIN points)
        fits(per) == (n + per - 1) \div per <= MaxBars
        per == IF n <= MaxBars THEN 1 ELSE 7 * Min({k \in 1..n : fits(7 * k)})
    IN [b \in 0..((n + per - 1) \div per) - 1 |->
            MapThenSumSet(LAMBDA i : points[i], {x \in DOMAIN points : x \div per = b})]

\* Only withdrawals after their appearance make an interval.
Duration(w) == IF w.withdrawn > w.appeared THEN {w.withdrawn - w.appeared} ELSE {}

MeanTimeToWithdrawal(ws) ==
    LET usable == {w \in ws : Duration(w) # {}}
    IN IF usable = {} THEN {}
       ELSE {MapThenSumSet(LAMBDA w : w.withdrawn - w.appeared, usable) \div Cardinality(usable)}

WithdrawalSeries(ws, now, bucket, buckets) ==
    [i \in 0..buckets - 1 |->
        MeanTimeToWithdrawal({w \in ws : i \in bucketIndex(w.withdrawn, windowStart(now, bucket, buckets), bucket, buckets)})]

\* The level is the quartile of the busiest day, and a silent day is level 0.
HeatLevels(counts) ==
    LET most == Max({counts[i] : i \in DOMAIN counts} \cup {1})
    IN [i \in DOMAIN counts |-> IF counts[i] <= 0 THEN 0 ELSE Min({4, (counts[i] * 4 + most - 1) \div most})]

\* What the reports page shows of the last window and the one before it.
reportsPage(now) ==
    LET start == windowStart(now, TrendBucket, TrendBuckets)
        double == windowStart(now, TrendBucket, 2 * TrendBuckets)
        apps == ListSubjectFirstAppearances(double)
        ws == ListWithdrawalLifespans(double)
    IN [discovered |-> DiscoveryCount(apps, start, now),
        before     |-> DiscoveryCount(apps, double, start),
        series     |-> DiscoverySeries(apps, now, TrendBucket, TrendBuckets),
        bars       |-> aggregateDiscoveryBars(DiscoverySeries(apps, now, 1, TrendBucket * TrendBuckets)),
        mttw       |-> MeanTimeToWithdrawal({w \in ws : w.withdrawn >= start}),
        means      |-> WithdrawalSeries(ws, now, TrendBucket, TrendBuckets),
        heat       |-> HeatLevels(DiscoverySeries(apps, now, 1, TrendBucket * TrendBuckets))]

-----------------------------------------------------------------------------
DriftInit == spans = {} /\ release = 1 /\ feedClock = 1 /\ happened = {}

\* One batch folds its readings and may withdraw a subject it did not read.
FoldBatch(read, gone, reason) ==
    LET moved == {l \in DOMAIN read : FoldStep(l, read[l]) # "nothing"}
        lost == {l \in Lines : SubjectOf[l] \in gone /\ CurrentlyOpen(l) # {}}
        closing == {sp \in spans : IsOpen(sp) /\ sp.line \in moved \cup lost}
    IN /\ feedClock < MaxFeedClock
       /\ spans' = (spans \ closing)
              \cup {[sp EXCEPT !.closed = feedClock] : sp \in {x \in closing : x.line \in moved}}
              \cup CloseWithdrawal(lost, reason)
              \cup {[line |-> l, value |-> read[l], vector |-> release, opened |-> feedClock, closed |-> StillOpen,
                     reason |-> NoReason, aperture |-> SubjectOf[l] \in DeclaredSubjects] : l \in moved}
       /\ happened' = happened \cup {[line |-> l, at |-> feedClock, what |-> FoldStep(l, read[l])] : l \in moved}
                               \cup {[line |-> l, at |-> feedClock, what |-> "loss"] : l \in lost}
       /\ feedClock' = feedClock + 1
       /\ UNCHANGED release

\* A prober release moves the derivation vector of everything it measures.
Released ==
    /\ release < 2
    /\ release' = release + 1
    /\ UNCHANGED <<spans, feedClock, happened>>

DriftNext ==
    \/ \E ls \in SUBSET Lines :
          /\ Cardinality(ls) \in 1..MaxBar
          /\ \E read \in [ls -> Values] :
                \/ FoldBatch(read, {}, NoReason)
                \/ \E s \in Subjects \ {SubjectOf[l] : l \in ls}, reason \in {"uncited", "descoped"} :
                      FoldBatch(read, {s}, reason)
    \/ Released

DriftSpec == DriftInit /\ [][DriftNext]_driftVars

-----------------------------------------------------------------------------
Windows == {w \in (1..feedClock) \X {feedClock - 1, feedClock} : w[1] < w[2]}
Told(w) == {h \in happened : h.what # "break" /\ w[1] <= h.at /\ h.at < w[2]}

\* The export tells what moved, once and as what it was: what it leaves out is
\* in a batch it names as cut, or older than the feed's cap
\* (ListRecentDriftEvents, driftBatchRuns, writeDriftExportCSV).
ExportTells ==
    \A w \in Windows :
        LET x == writeDriftExportCSV(w[1], w[2])
        IN /\ x.events \subseteq Told(w)
           /\ \A h \in Told(w) \ x.events : h.at \in x.notes \/ x.capped

\* The bars of the report add up to the figure beside them, at any width of bar
\* (DiscoverySeries, DiscoveryCount, aggregateDiscoveryBars).
SeriesSums ==
    LET r == reportsPage(feedClock)
        total(f) == MapThenSumSet(LAMBDA i : f[i], DOMAIN f)
    IN total(r.series) = r.discovered.total /\ total(r.bars) = r.discovered.total

\* The page tells nothing that did not move, and of a batch it shows it leaves
\* nothing out without owning to a cut (buildDriftFeed, capDriftFeed).
PageTells ==
    LET w == <<1, feedClock>>
        p == driftPage(w[1], w[2])
    IN /\ p.events \subseteq Told(w)
       /\ \A h \in Told(w) \ p.events : p.truncated \/ \A e \in p.events : e.at # h.at

\* What a reader takes away, the page, the export and the trend, is what moved.
FeedFaithful == PageTells /\ ExportTells /\ SeriesSums
=============================================================================
