----------------------------- MODULE Retention -----------------------------
(***************************************************************************)
(* Observation and transcript retention (internal/retention, the statements *)
(* of db/queries/retention.sql, cmd/web/retentionpanel.go).  Each sweep     *)
(* reads the dial in one statement and deletes in another.  The delete is   *)
(* written twice in the code, as a row rule in Go and as one SQL statement, *)
(* and so are the dial's floor and the gate the derivations read through.   *)
(* A day is SecondsPerDay instants.                                         *)
(***************************************************************************)
EXTENDS Integers, FiniteSets, FiniteSetsExt

CONSTANTS
    Timeline,        \* subject, facet, discriminator, vantage and source
    Enabled,         \* the scans
    CadenceOf,       \* cadences a scan may be set to
    DialDays,        \* values the observation dial may be set to; 0 is unbounded
    SecondsPerDay,
    FloorCadences,   \* k, the cadences a bound is made of
    MaxHour,         \* bound: instants
    MaxHeld          \* bound: observations, and transcripts, held at once

ASSUME RetentionAssumption ==
    /\ CadenceOf \subseteq Nat \ {0} /\ DialDays \subseteq Nat
    /\ SecondsPerDay \in Nat \ {0} /\ FloorCadences \in Nat \ {0}
    /\ MaxHour \in Nat /\ MaxHeld \in Nat

VARIABLES
    hour,        \* the clock
    observations,  \* the rows: line, scan, at
    shut,        \* timelines of withdrawn subjects: every span closed
    cadence,     \* each scan's cadence, 0 while it is disabled
    currency,    \* observation_currency_days
    purge,       \* the retirer between its two statements
    scripts      \* transcripts, by the instant each was captured

retentionVars == <<hour, observations, shut, cadence, currency, purge, scripts>>

NoPurge == [dial |-> -1, asOf |-> -1]

RetentionTypeOK ==
    /\ hour \in Nat
    /\ observations \subseteq [line : Timeline, scan : Enabled, at : Nat]
    /\ shut \subseteq Timeline
    /\ cadence \in [Enabled -> CadenceOf \cup {0}]
    /\ currency \in Nat
    /\ purge \in {NoPurge} \cup [dial : Nat, asOf : 0..hour]
    /\ scripts \subseteq Nat

RetentionInit ==
    /\ hour = 0 /\ observations = {} /\ shut = {} /\ scripts = {}
    /\ cadence \in [Enabled -> CadenceOf]
    /\ currency = 0
    /\ purge = NoPurge

-----------------------------------------------------------------------------
(* The rule in Go. *)

Age(r, t) == t - r.at

\* A bound is undefined, and not zero, where no enabled scan covers the line.
ObservationBoundSeconds(tightest) == [has |-> tightest > 0, secs |-> FloorCadences * tightest]

\* Rounding up keeps the floor out of the live tier.
ObservationFloorDays(tightest) ==
    IF tightest > 0 THEN (FloorCadences * tightest + SecondsPerDay - 1) \div SecondsPerDay ELSE 0

TierOf(age, bound) == IF bound.has /\ age <= bound.secs THEN "live" ELSE "evidential"

RetainObservation(age, bound, dial, withdrawn) ==
    \/ withdrawn /\ (dial <= 0 \/ age <= dial)
    \/ ~withdrawn /\ (~bound.has \/ age <= bound.secs \/ dial <= 0 \/ age <= dial)

\* The tightest cadence of the enabled scans that observed a line.
Tightest(line) ==
    LET cs == {cadence[r.scan] : r \in {x \in observations : x.line = line}} \ {0}
    IN IF cs = {} THEN 0 ELSE Min(cs)

BoundOf(r) == ObservationBoundSeconds(Tightest(r.line))
LiveOnly(t) == {r \in observations : TierOf(Age(r, t), BoundOf(r)) = "live"}

-----------------------------------------------------------------------------
(* The statements. *)

\* The joins keep the rows of enabled scans, group them by timeline, and the
\* aggregate takes each group's least cadence.
CoverRows == {r \in observations : cadence[r.scan] > 0}
CoverOf(line) == {cadence[r.scan] : r \in {x \in CoverRows : x.line = line}}
Withdrawn(line) == line \in shut

DeleteExpiredObservations_DialOnly(dial, asOf) ==
    {r \in observations : dial > 0 /\ asOf - r.at > dial /\ (Withdrawn(r.line) \/ CoverOf(r.line) # {})}
DeleteExpiredObservations(dial, asOf) ==
    {r \in observations :
        /\ dial > 0 /\ asOf - r.at > dial
        /\ \/ Withdrawn(r.line)
           \/ CoverOf(r.line) # {} /\ asOf - r.at > FloorCadences * Min(CoverOf(r.line))}

ListLiveObservationsForDerivation(asOf) ==
    {r \in observations : CoverOf(r.line) # {} /\ asOf - r.at <= FloorCadences * Min(CoverOf(r.line))}

ListCoveringScanKinds == {s \in Enabled : cadence[s] > 0 /\ \E r \in observations : r.scan = s}

\* GREATEST of the submitted days and the floor over the covering scans.
UpdateCoverageRetentionSettings(days) ==
    LET cs == {cadence[s] : s \in ListCoveringScanKinds}
        floor == IF cs = {} THEN 0
                 ELSE (FloorCadences * Min(cs) + SecondsPerDay - 1) \div SecondsPerDay
    IN IF days <= 0 THEN days ELSE IF days < floor THEN floor ELSE days

-----------------------------------------------------------------------------
(* The panel. *)

Unbounded == [kind |-> "", secs |-> 0]
Bounded(f) == f.secs > 0

\* A tie resolves on the kind, so the scan named does not move between loads.
pickScan(scans, Beats(_, _)) ==
    LET cands == {s \in scans : cadence[s] > 0}
        best == {s \in cands : \A o \in cands : ~Beats(cadence[o], cadence[s])}
    IN IF best = {} THEN Unbounded
       ELSE [kind |-> CHOOSE s \in best : TRUE, secs |-> FloorCadences * cadence[CHOOSE s \in best : TRUE]]

ObservationFloor == pickScan(ListCoveringScanKinds, LAMBDA a, b : a < b)
FloorDays(f) == IF Bounded(f) THEN (f.secs + SecondsPerDay - 1) \div SecondsPerDay ELSE 0

\* The ground below the floor is not a stop.
DialStops(floor, ladder) ==
    LET f == IF floor < 1 THEN 1 ELSE floor IN {f} \cup {v \in ladder : v > f}

\* What the panel lets an admin submit: the terminal stop or one of the track's.
buildDial == {0} \cup DialStops(FloorDays(ObservationFloor), DialDays \ {0})

\* The pairs the panel lists: a line's floor, its rows, and the rows no enabled
\* scan covers.
ListFacetSourceFloors ==
    {[line |-> l, tightest |-> IF CoverOf(l) = {} THEN 0 ELSE Min(CoverOf(l)),
      held |-> Cardinality({r \in observations : r.line = l}),
      uncovered |-> Cardinality({r \in observations : r.line = l /\ cadence[r.scan] = 0})] :
        l \in {r.line : r \in observations}}

\* A pair is shown never retired when its floor is unbounded.
pairViews == {[line |-> p.line, covered |-> p.tightest > 0, held |-> p.held] : p \in ListFacetSourceFloors}

-----------------------------------------------------------------------------
(* Steps. *)

Hour == /\ hour < MaxHour /\ hour' = hour + 1
        /\ UNCHANGED <<observations, shut, cadence, currency, purge, scripts>>

\* A worker stores an observation and its transcript.
StoreObservation(l, s) ==
    /\ Cardinality(observations) < MaxHeld /\ Cardinality(scripts) < MaxHeld
    /\ observations' = observations \cup {[line |-> l, scan |-> s, at |-> hour]}
    /\ scripts' = scripts \cup {hour}
    /\ shut' = shut \ {l}
    /\ UNCHANGED <<hour, cadence, currency, purge>>

\* A withdrawal closes every span of a subject.
CloseTimeline(l) ==
    /\ \E r \in observations : r.line = l
    /\ shut' = shut \cup {l}
    /\ UNCHANGED <<hour, observations, cadence, currency, purge, scripts>>

\* An admin moves or disables a scan.
SetScan(s, c) ==
    /\ cadence' = [cadence EXCEPT ![s] = c]
    /\ UNCHANGED <<hour, observations, shut, currency, purge, scripts>>

\* updateCoverageRetention; the form may be older than the scans it was drawn from.
SetCurrency(days) ==
    /\ currency' = UpdateCoverageRetentionSettings(days)
    /\ UNCHANGED <<hour, observations, shut, cadence, purge, scripts>>

\* GetRetentionSettings, then the clock.
SweepReadsDial ==
    /\ purge = NoPurge /\ currency > 0
    /\ purge' = [dial |-> currency * SecondsPerDay, asOf |-> hour]
    /\ UNCHANGED <<hour, observations, shut, cadence, currency, scripts>>

SweepDeletes ==
    /\ purge # NoPurge
    /\ observations' = observations \ DeleteExpiredObservations(purge.dial, purge.asOf)
    /\ purge' = NoPurge
    /\ UNCHANGED <<hour, shut, cadence, currency, scripts>>

\* The transcript dial is floored at a day and reads no cadence.
TranscriptWindowDays(days) == IF days < 1 THEN 1 ELSE days
TranscriptCutoff(now, days) == now - TranscriptWindowDays(days) * SecondsPerDay
SweepTranscripts(days) ==
    /\ days > 0
    /\ scripts' = {t \in scripts : t >= TranscriptCutoff(hour, days)}
    /\ scripts' # scripts
    /\ UNCHANGED <<hour, observations, shut, cadence, currency, purge>>

RetentionNext ==
    \/ Hour
    \/ \E l \in Timeline : CloseTimeline(l) \/ \E s \in Enabled : cadence[s] > 0 /\ StoreObservation(l, s)
    \/ \E s \in Enabled, c \in CadenceOf \cup {0} : SetScan(s, c)
    \/ \E d \in DialDays : SetCurrency(d) \/ SweepTranscripts(d)
    \/ SweepReadsDial \/ SweepDeletes

RetentionSpec == RetentionInit /\ [][RetentionNext]_retentionVars

-----------------------------------------------------------------------------
\* A sweep retires a row only by the rule, whatever was measured, withdrawn or
\* re-timed after it read the dial: the row is past the dial that was read, its
\* line is withdrawn or covered, and no derivation would still read it
\* (observation.go: "no dial size can reach a live row").
RetiredByRule ==
    [][\A r \in observations \ observations' :
        /\ ~RetainObservation(Age(r, hour), BoundOf(r), purge.dial, r.line \in shut)
        /\ r \in LiveOnly(hour) => r.line \in shut]_retentionVars

\* Each rule that is written twice is written once: the gate a derivation reads
\* through, the floor the panel draws and the one the statement enforces, and
\* so every stop the panel offers is stored as it was offered.
TwinsAgree ==
    /\ ListLiveObservationsForDerivation(hour) = LiveOnly(hour)
    /\ FloorDays(ObservationFloor) = ObservationFloorDays(ObservationFloor.secs \div FloorCadences)
    /\ \A d \in buildDial : UpdateCoverageRetentionSettings(d) = d
    /\ \A d \in DialDays \ {0} : UpdateCoverageRetentionSettings(d) = Max({d, FloorDays(ObservationFloor)})
    /\ \A p \in pairViews : ~p.covered =>
         \A asOf \in 0..hour : \A r \in DeleteExpiredObservations(1, asOf) : r.line = p.line => p.line \in shut

\* Rows leave by the one rule, wherever it is written.
RetiresByOneRule == RetiredByRule /\ [](observations # {} => TwinsAgree)
=============================================================================
