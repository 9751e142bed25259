------------------------------- MODULE Cause -------------------------------
(***************************************************************************)
(* What a fold tells the operator about one Service and the Endpoint on it  *)
(* (internal/queue: produce.go, gapclose.go, censusrules.go, facetmove.go,  *)
(* signaledge.go, certlifetime.go).  A batch row is stamped with the start  *)
(* of its transaction and its spans with the worker's later reading of the  *)
(* clock, so a fold has two instants.  The one worker of an install folds   *)
(* one batch at a time.                                                     *)
(***************************************************************************)
EXTENDS Signals, FiniteSetsExt

CONSTANTS
    Vantage,       \* vantages of the internet class
    Cert,          \* certificate values a handshake may show
    Http,          \* http-identity values an exchange may show
    Tls,           \* tls-acceptance values an enumeration may show
    Svc, Host,     \* the service's port and transport, the endpoint's name
    Declared,      \* an address Seed covers the service
    Muted,         \* rules annotated on the endpoint
    MaxInstant,    \* bound: the clock
    MaxFold        \* bound: batches

\* A certificate's dates are instants.
ASSUME CauseAssumption == \A c \in Cert : c.nb \in Int /\ c.na \in Int

VARIABLES
    now,       \* the clock
    reach,     \* each vantage's reachability spans, oldest first: value, at
    cert,      \* the endpoint's open certificate span, as a set of at most one
    certSeen,  \* when that value was last observed
    http, tls, \* the other two open spans
    batches,   \* the batch rows: at, folds
    told,      \* what the last fold wrote
    tenure     \* the open certificate: its reading at each fold since it opened, edges told

causeVars == <<now, reach, cert, certSeen, http, tls, batches, told, tenure>>

Message(cause, at, rules) == [cause |-> cause, at |-> at, rules |-> rules]
NewTenure == [folds |-> <<>>, edges |-> <<>>]

CauseInit ==
    /\ now = 0 /\ reach = [v \in Vantage |-> <<>>]
    /\ cert = {} /\ certSeen = 0 /\ http = {} /\ tls = {}
    /\ batches = {} /\ told = {} /\ tenure = NewTenure

-----------------------------------------------------------------------------
(* Reads of the fold's transaction. *)

\* The batch before the newest, whatever its kind or outcome.
PreviousBatchTime(rows) == LET ts == {b.at : b \in rows} IN Max({0} \cup (ts \ {Max(ts)}))
HasPrevious(rows) == Cardinality({b.at : b \in rows}) > 1

\* The two newest batches that fold messages.
FoldedBatchWindow(rows) ==
    LET ts == {b.at : b \in {x \in rows : x.folds}}
    IN [ok |-> Cardinality(ts) > 1, prev |-> Max({0} \cup (ts \ {Max(ts)})), latest |-> Max(ts)]

SpanAt(s, t) == LET is == {i \in DOMAIN s : s[i].at <= t} IN IF is = {} THEN {} ELSE {s[Max(is)].value}

\* One reached leg of the class decides; gaps and unopened timelines do not.
ComposeReach(values) ==
    IF "reached" \in values THEN {"reached"} ELSE values \cap {"not-reached"}
legsFromCurrent(spans) == ComposeReach(UNION {SpanAt(spans[v], MaxInstant) : v \in Vantage})
legsFromAt(spans, t) == ComposeReach(UNION {SpanAt(spans[v], t) : v \in Vantage})

-----------------------------------------------------------------------------
(* The fold's changes.  A side of it is the three facets the rules read.     *)

Side(c, h, t) == [cert |-> c, http |-> h, tls |-> t]
Moved(a, b) == a # {} /\ b # {} /\ a # b      \* both sides are values

endpointOutcomes(side, seen, at) ==
    LET f == AllEndpointRules(EndpointFactsFrom(Host, side.cert, seen, side.http, at, {}))
    IN [r \in DOMAIN f \ {"redirect-to-host-outside-estate"} |-> f[r]]   \* the estate is unread here
serviceOutcomes(side, leg) == AllServiceRules(ServiceFactsFrom(Svc, leg, side.tls))

\* Rules that open at fired between two readings, from the outcomes named.
Opens(before, after, from) == {r \in DOMAIN after : after[r] = Fired /\ before[r] \in from}

\* The subjects beneath the service: itself always, its endpoint where a facet
\* of it changed in this fold.  A facet that opened in this fold is in no before.
censusWithRules(f, legBefore, legAfter) ==
    Opens(serviceOutcomes(f.before, legBefore), serviceOutcomes(f.after, legAfter), Outcomes \ {Fired})
    \cup IF f.before.cert = f.after.cert /\ f.before.http = f.after.http THEN {}
         ELSE Opens(endpointOutcomes(f.before, f.at, f.at), endpointOutcomes(f.after, f.at, f.at), Outcomes \ {Fired})

\* A message covers a rule of a subject its own subject's key is part of.
keyNestsService(at, key) == at = key \/ (at = "service" /\ key = "endpoint")
coveredByPrior(prior, key, rule) == \E m \in prior : keyNestsService(m.at, key) /\ rule \in m.rules

-----------------------------------------------------------------------------
(* The producers, in buildMessages' order.  f is the fold: the two sides, the *)
(* reach timelines before and after, the batch rows, the two instants.        *)

ReachChanged(f) == f.reach # reach

flagshipMessages(f) ==
    LET before == IF HasPrevious(f.rows) THEN legsFromAt(f.reach, PreviousBatchTime(f.rows)) ELSE {}
    IN IF ReachChanged(f) /\ before = {"not-reached"} /\ legsFromCurrent(f.reach) = {"reached"}
       THEN {Message("flagship", "service", censusWithRules(f, {"not-reached"}, {"reached"}))}
       ELSE {}

\* A Gap that gives way to a value, told at the Seed that covers it.
gapCloseMessages(f) ==
    IF \E v \in Vantage : /\ f.reach[v] # reach[v] /\ reach[v] # <<>>
                          /\ Last(reach[v]).value = "gap" /\ Last(f.reach[v]).value # "gap"
    THEN {Message("gap-close", IF Declared THEN "seed" ELSE "service",
                  censusWithRules(f, {}, legsFromCurrent(f.reach)))}
    ELSE {}

movedSubjectsAtCause_CertOnly(f) ==
    IF Moved(f.before.cert, f.after.cert)
    THEN {[key |-> "endpoint", before |-> endpointOutcomes(f.before, f.at, f.at),
           after |-> endpointOutcomes(f.after, f.at, f.at)]} ELSE {}
\* The subjects a facet of which moved from value to value, with the readings.
movedSubjectsAtCause(f) ==
    (IF Moved(f.before.cert, f.after.cert) \/ Moved(f.before.http, f.after.http)
     THEN {[key |-> "endpoint", before |-> endpointOutcomes(f.before, f.at, f.at),
            after |-> endpointOutcomes(f.after, f.at, f.at)]} ELSE {})
    \cup IF Moved(f.before.tls, f.after.tls)
         THEN {[key |-> "service", before |-> serviceOutcomes(f.before, {}), after |-> serviceOutcomes(f.after, {})]}
         ELSE {}

facetMoveMessages(f, prior) ==
    {Message("facet-move", s.key,
             {r \in Opens(s.before, s.after, {OutsideDomain}) : ~coveredByPrior(prior, s.key, r)}) :
        s \in movedSubjectsAtCause(f)}

signalEdgeRule(r) == r \notin ClockRules \cup {SensitivePort}

signalEdgeMessages(f, prior) ==
    UNION {{Message("signal-edge", s.key, {r}) :
               r \in {x \in Opens(s.before, s.after, {NotFired}) :
                        /\ signalEdgeRule(x) /\ ~coveredByPrior(prior, s.key, x)
                        /\ ~(s.key = "endpoint" /\ x \in Muted)}} : s \in movedSubjectsAtCause(f)}

readClockRules(value, seen, at) ==
    LET o == endpointOutcomes(Side(value, {}, {}), seen, at) IN [r \in ClockRules |-> o[r]]

clockCrossings(before, after, prior) ==
    {r \in Opens(before, after, {NotFired}) : ~coveredByPrior(prior, "endpoint", r)}

\* A certificate that opened in this fold is not compared; one that moved is
\* compared with what it replaced; one that stood is compared with itself.
certificateLifetimeMessages(f, prior) ==
    LET w == FoldedBatchWindow(f.rows)
        rs == IF ~w.ok \/ f.after.cert = {} \/ f.before.cert = {} THEN {}
              ELSE IF f.before.cert # f.after.cert
              THEN clockCrossings(readClockRules(f.before.cert, w.prev, w.prev),
                                  readClockRules(f.after.cert, f.at, w.latest), prior)
              ELSE clockCrossings(readClockRules(f.after.cert, f.seen, w.prev),
                                  readClockRules(f.after.cert, f.seen, w.latest), prior)
    IN {Message(IF f.before.cert # f.after.cert THEN "signal-edge" ELSE "clock-edge", "endpoint", {r}) : r \in rs \ Muted}

\* Each producer reads what the ones before it wrote; a move that opens no rule
\* writes no message.
buildMessages(f) ==
    \E a \in {flagshipMessages(f) \cup gapCloseMessages(f)} :
    \E b \in {a \cup {m \in facetMoveMessages(f, a) : m.rules # {}}} :
    \E c \in {b \cup signalEdgeMessages(f, b)} :
        told' = c \cup certificateLifetimeMessages(f, c)

-----------------------------------------------------------------------------
(* The batches. *)

\* The worker commits one fold: its batch row, its spans and its messages.
complete(v, value, c, h, t) ==
    /\ now + 1 < MaxInstant /\ Cardinality(batches) < MaxFold
    /\ now' = now + 1 /\ batches' = batches \cup {[at |-> now, folds |-> TRUE]}
    /\ reach' = IF value = {} \/ SpanAt(reach[v], MaxInstant) = value THEN reach
                ELSE [reach EXCEPT ![v] = Append(@, [value |-> CHOOSE x \in value : TRUE, at |-> now + 1])]
    /\ cert' = (IF c = {} THEN cert ELSE c) /\ http' = (IF h = {} THEN http ELSE h) /\ tls' = (IF t = {} THEN tls ELSE t)
    /\ certSeen' = IF c = {} THEN certSeen ELSE now + 1
    /\ buildMessages([before |-> Side(cert, http, tls), after |-> Side(cert', http', tls'),
                      reach |-> reach', seen |-> certSeen', rows |-> batches', at |-> now + 1])
    /\ LET reading == <<readClockRules(cert', certSeen', now)>>
       IN tenure' = IF cert' # cert THEN [NewTenure EXCEPT !.folds = reading]
                    ELSE [folds |-> tenure.folds \o reading,
                          edges |-> tenure.edges \o SetToSeq({m \in told' : m.cause = "clock-edge"})]

\* A blanket responder's ports are gapped and not dialled; a port that does not
\* answer shows no certificate.
hotBatch(v) ==
    \E shown \in {<<"gap", {}>>, <<"not-reached", {}>>} \cup {<<"reached", {c}>> : c \in Cert} :
        complete(v, {shown[1]}, shown[2], {}, {})
httpBatch(v) == \E h \in Http : reach[v] # <<>> /\ Last(reach[v]).value = "reached" /\ complete(v, {}, {}, {h}, {})
tlsBatch(v) == \E t \in Tls : reach[v] # <<>> /\ Last(reach[v]).value = "reached" /\ complete(v, {}, {}, {}, {t})
otherBatch(v) == complete(v, {}, {}, {}, {})        \* another address, or another Scan

\* A batch that folds no message: a CT or zone read, or a dead letter.
unfoldedBatch ==
    /\ now + 1 < MaxInstant /\ Cardinality(batches) < MaxFold
    /\ batches' = batches \cup {[at |-> now, folds |-> FALSE]} /\ now' = now + 1
    /\ UNCHANGED <<reach, cert, certSeen, http, tls, told, tenure>>

Pass == now + 1 < MaxInstant /\ now' = now + 1
        /\ UNCHANGED <<reach, cert, certSeen, http, tls, batches, told, tenure>>

CauseNext ==
    \/ \E v \in Vantage : hotBatch(v) \/ httpBatch(v) \/ tlsBatch(v) \/ otherBatch(v)
    \/ unfoldedBatch \/ Pass
CauseSpec == CauseInit /\ [][CauseNext]_causeVars

-----------------------------------------------------------------------------
\* A certificate that stands while the clock passes it is told of once: a
\* lifetime rule that reads not-fired at one fold of the certificate's tenure
\* and fired at a later one has exactly one clock edge, whatever other batches
\* were written between, unless a fold in between could not evaluate it
\* (certlifetime.go, FoldedBatchWindow).
CrossingToldOnce ==
    \A r \in ClockRules \ Muted :
        LET reads == [i \in DOMAIN tenure.folds |-> tenure.folds[i][r]]
            n == Cardinality({i \in DOMAIN tenure.edges : r \in tenure.edges[i].rules})
        IN /\ n <= 1
           /\ (/\ \A i \in DOMAIN reads : reads[i] # NotEvaluable
               /\ \E i, j \in DOMAIN reads : i < j /\ reads[i] = NotFired /\ reads[j] = Fired) => n = 1

\* A rule that a move of the endpoint's facets takes to fired is told in that
\* fold, by the move or by a message above it (facetmove.go, signaledge.go):
\* an earlier message may silence only the openings it carries itself.
OpeningTold ==
    [][ (batches' # batches /\ (Moved(cert, cert') \/ Moved(http, http'))) =>
          LET b == endpointOutcomes(Side(cert, http, {}), now', now')
              a == endpointOutcomes(Side(cert', http', {}), now', now')
          IN \A r \in Opens(b, a, {OutsideDomain}) \cup {x \in Opens(b, a, {NotFired}) \ Muted : signalEdgeRule(x)} :
                 \E m \in told' : r \in m.rules ]_causeVars

\* The internet leg's move from not-reached to reached is the flagship message
\* of the fold that made it (CONTEXT.md, Reach).
FlagshipTold ==
    [][ (legsFromCurrent(reach) = {"not-reached"} /\ legsFromCurrent(reach') = {"reached"}) =>
          \E m \in told' : m.cause = "flagship" ]_causeVars

\* What a fold moves to fired is told in it, and what the clock moves is told once.
MovesTold == OpeningTold /\ []CrossingToldOnce
=============================================================================
