------------------------------- MODULE Board -------------------------------
(***************************************************************************)
(* What the operator's screens derive from the estate: the signals page,    *)
(* the exposure board and the dashboard's figures (cmd/web/signals.go,      *)
(* exposure.go, deltas.go, vantageclass.go, auth.go) over the reach legs,    *)
(* the resolutions and the HTTP answers the worker folded.  No verdict is   *)
(* stored: a page load reads the estate, evaluates the rules and mints the  *)
(* identity of each pair that fires, and two loads may interleave.          *)
(*                                                                         *)
(* A batch is created at 2k and folds its values at 2k + 1.  A load reads   *)
(* the corpus in one step and the identities in another.                    *)
(***************************************************************************)
EXTENDS Signals, FiniteSetsExt

CONSTANTS
    Vantages,      \* the positions
    Presented,     \* [Vantages -> the addresses an outsider saw it present]
    Service,       \* the one service probed
    Name,          \* the one name walked, its labels
    Zone,          \* [origin, lines]: the zone file that may be uploaded
    Blocks,        \* the special-purpose registry
    Order,         \* [subjects -> Nat]: the order of subject keys
    WalkOutcomes,  \* bound: the resolution outcomes a fold may bring
    Loaders,       \* concurrent requests for the signals page
    MaxMoves,      \* bound: folds and operator acts
    MaxLoads       \* bound: page loads

NameSubject == "name"
ServiceSubject == "service"
EndpointSubject == "endpoint"

\* Two subjects never compare equal (strings.Compare in sortSignalRows).
ASSUME BoardAssumption ==
    /\ \A s \in {NameSubject, ServiceSubject, EndpointSubject} : Order[s] \in Nat
    /\ \A s, t \in {NameSubject, ServiceSubject, EndpointSubject} : Order[s] = Order[t] => s = t

Open == 0 - 1
NoAnswer == "none"
ReachOutcomes == {"reached", "not-reached", "unanswered", "gap"}

VARIABLES
    scopes, excluded,  \* address scopes and address exclusions, as addresses
    moves,             \* folds and acts so far; also the batch clock
    boardBatches,           \* the created_at of every batch
    legs,              \* reachability spans of the service
    answers,           \* the live resolution of the name at each vantage
    lame,              \* the NS record's delegation flag
    uploaded,          \* a zone file stands
    endpointHttp,              \* the endpoint's live HTTP identity, {} where none
    annotations,       \* accepted risks: [id, rule, subject]
    instances,         \* signal_instance: [id, rule, subject, first]
    sequence,          \* the last id drawn for signal_instance
    loads,             \* each loader's request in flight
    painted,           \* rows painted so far: [rule, subject, id]
    served             \* requests served

boardVars == <<scopes, excluded, moves, boardBatches, legs, answers, lame, uploaded, endpointHttp, annotations,
               instances, sequence, loads, painted, served>>
estateVars == <<scopes, excluded, moves, boardBatches, legs, answers, lame, uploaded, endpointHttp>>

-----------------------------------------------------------------------------
(* A vantage's class is derived on every read. *)

addressScopeCovered(a) == a \in scopes \ excluded

VerifyClass(presented) ==
    IF presented = {} THEN "unverified"
    ELSE IF \A a \in presented : addressScopeCovered(a) THEN "internal" ELSE "internet"

vantageFactsClass(v) == VerifyClass(Presented[v])

runningVantageClasses == {vantageFactsClass(v) : v \in Vantages}

-----------------------------------------------------------------------------
(* Reach: the legs of the service, now and at an earlier instant. *)

ListServiceReachabilitySpansByClass == {sp \in legs : sp.closed = Open}

ListServiceReachabilitySpansByClassAt(t) ==
    {sp \in legs : sp.opened <= t /\ (sp.closed = Open \/ sp.closed > t)}

\* One vantage reaching settles a class; an unanswered exchange decides nothing.
ComposeOutcome(group) ==
    LET os == {sp.outcome : sp \in group}
    IN IF "reached" \in os THEN "reached" ELSE IF "not-reached" \in os THEN "not-reached" ELSE NoAnswer

\* A class that composed no value and holds a Gap stopped looking.  The leg is
\* dated by the spans of its own value: the earliest that reached, or the latest.
legFromClassGroup(group) ==
    LET held == ComposeOutcome(group)
        gap == held = NoAnswer /\ \E sp \in group : sp.outcome = "gap"
        dates == {sp.opened : sp \in {x \in group : x.outcome = IF gap THEN "gap" ELSE held}}
    IN [outcome |-> held, isGap |-> gap,
        since |-> IF dates = {} THEN {} ELSE {IF held = "reached" THEN Min(dates) ELSE Max(dates)}]

collapseReachLegs(rows) ==
    [c \in {vantageFactsClass(sp.vantage) : sp \in rows} |->
        legFromClassGroup({sp \in rows : vantageFactsClass(sp.vantage) = c})]

\* A leg is valued, a gap, or was never configured.
legFrom(collapsed, class) ==
    IF class \notin DOMAIN collapsed THEN "never-configured"
    ELSE IF collapsed[class].isGap THEN "gap"
    ELSE IF collapsed[class].outcome = NoAnswer THEN "never-configured" ELSE collapsed[class].outcome

Project(internet, internal) ==
    IF {internet, internal} \subseteq {"reached", "not-reached"}
    THEN CASE internet = "reached" /\ internal = "reached" -> "exposed"
           [] internet = "reached" /\ internal = "not-reached" -> "edge-only"
           [] internet = "not-reached" /\ internal = "reached" -> "firewalled"
           [] OTHER -> "unreachable"
    ELSE "one-legged"

censusFromLegs(collapsed) ==
    IF DOMAIN collapsed = {} THEN [exposed |-> 0, counted |-> 0]
    ELSE LET cell == Project(legFrom(collapsed, "internet"), legFrom(collapsed, "internal"))
         IN [exposed |-> IF cell = "exposed" THEN 1 ELSE 0, counted |-> 1]

\* The board is withheld where no vantage is an internet one.
exposurePage ==
    LET cur == collapseReachLegs(ListServiceReachabilitySpansByClass)
    IN IF "internet" \notin runningVantageClasses THEN [withheld |-> TRUE, exposed |-> 0]
       ELSE [withheld |-> FALSE, exposed |-> censusFromLegs(cur).exposed]

reachLegChip(class, leg) ==
    CASE leg = "reached" -> IF class = "internet" THEN "danger" ELSE "neutral"
      [] leg = "not-reached" -> "neutral"
      [] leg = "gap" -> "warn"
      [] OTHER -> "absent"

-----------------------------------------------------------------------------
(* Resolution: the name's value in each class, and across classes. *)

\* Presence needs one vantage of the class and absence all of them; one that
\* could not look has no vote.
composeClassResolution(vs) ==
    LET votes == {answers[v] : v \in vs} \ {"Gap"}
    IN CASE "Resolved" \in votes -> "Resolved"
         [] votes = {} -> "Gap"
         [] "Resolved" \notin votes /\ Cardinality(votes) = 1 -> CHOOSE o \in votes : TRUE
         [] OTHER -> "NotEvaluable"

collapseNameResolutions ==
    LET heard == {v \in Vantages : answers[v] # NoAnswer}
    IN [c \in {vantageFactsClass(v) : v \in heard} |->
            composeClassResolution({v \in heard : vantageFactsClass(v) = c})]

suppresses(o) == o \in {"NameError", "Shadowed"}

\* Every class must have been heard and every outcome of every class suppress.
WithdrawnCrossClass(witnesses) ==
    /\ witnesses # {}
    /\ \A w \in witnesses : w # {} /\ \A o \in w : suppresses(o)

\* Every running class must hold a value and the values agree.
composeResolution ==
    LET byClass == collapseNameResolutions
        running == runningVantageClasses
        witness(c) == IF c \in DOMAIN byClass THEN {byClass[c]} ELSE {}
        values == {byClass[c] : c \in running \cap DOMAIN byClass}
        complete == running # {} /\ running \subseteq DOMAIN byClass /\ Cardinality(values) = 1
        agreed == CHOOSE o \in values : TRUE
    IN [inEstate |-> DOMAIN byClass # {} /\ ~WithdrawnCrossClass({witness(c) : c \in running}),
        outcome  |-> CASE ~complete -> "NotEvaluable"
                       [] complete /\ lame /\ agreed \notin {"Resolved", "Shadowed"} -> "Lame"
                       [] OTHER -> agreed]


buildNameFacts ==
    LET composed == composeResolution
        byClass == collapseNameResolutions
        declared == uploaded /\ Name \in DeclaredNames(Zone.lines, Zone.origin)
    IN IF DOMAIN byClass = {} /\ ~declared THEN {}
       ELSE {[inEstate   |-> composed.inEstate,
              resolution |-> composed.outcome,
              cname      |-> FALSE,
              target     |-> "",
              declared   |-> declared,
              inZone     |-> uploaded /\ IsSuffix(Zone.origin, Name),
              delegated  |-> uploaded /\ \E cut \in DelegatedSubzones(Zone.lines, Zone.origin) :
                                             cut # Name /\ IsSuffix(cut, Name),
              internet   |-> "internet" \in DOMAIN byClass,
              seen       |-> IF "internet" \in DOMAIN byClass THEN byClass["internet"] ELSE "",
              addresses  |-> IF "internet" \in DOMAIN byClass /\ byClass["internet"] = "Resolved"
                             THEN {Service.addr} ELSE {}]}

-----------------------------------------------------------------------------
(* The corpus the rules are evaluated on. *)

buildServiceFacts ==
    LET collapsed == collapseReachLegs(ListServiceReachabilitySpansByClass)
        measured == {c \in DOMAIN collapsed \cap {"internet"} :
                        ~collapsed[c].isGap /\ collapsed[c].outcome # NoAnswer}
    IN IF DOMAIN collapsed = {} THEN {}
       ELSE {ServiceFactsFrom(Service, {collapsed[c].outcome : c \in measured}, {})}

\* The hosts a redirect may stay within: an address probed, a name in the estate.
estateHosts ==
    {""} \cup (IF ListServiceReachabilitySpansByClass = {} THEN {} ELSE {"address"})
         \cup UNION {IF f.inEstate THEN {"name"} ELSE {} : f \in buildNameFacts}

buildEndpointFacts == {EndpointFactsFrom(Name, {}, 0, endpointHttp, moves, estateHosts) : h \in endpointHttp}

Redirect == "redirect-to-host-outside-estate"

\* Each rule's outcome at each subject of its kind.
buildSignalCorpus ==
    (UNION {{[rule |-> r, subject |-> NameSubject, outcome |-> All(f, Blocks)[r]] : r \in DOMAIN All(f, Blocks)} :
                f \in buildNameFacts})
    \cup {[rule |-> SensitivePort, subject |-> ServiceSubject, outcome |-> AllServiceRules(f)[SensitivePort]] :
        f \in buildServiceFacts}
    \cup {[rule |-> Redirect, subject |-> EndpointSubject, outcome |-> AllEndpointRules(f)[Redirect]] :
        f \in buildEndpointFacts}

firedPairs(corpus) == {[rule |-> c.rule, subject |-> c.subject] : c \in {x \in corpus : x.outcome = Fired}}
population(corpus) ==
    {[rule |-> c.rule, subject |-> c.subject] : c \in {x \in corpus : x.outcome # OutsideDomain}}

-----------------------------------------------------------------------------
(* The signals page. *)

\* Mutant: a conflicting pair is minted again and the old row replaced.
MintSignalInstances_Again(pairs) ==
    {[id |-> sequence + k, rule |-> pairs[k].rule, subject |-> pairs[k].subject, first |-> moves] :
        k \in DOMAIN pairs}

\* A pair keeps the identity it was first minted with; a conflicting row has drawn
\* its number all the same.
MintSignalInstances(pairs) ==
    {[id |-> sequence + k, rule |-> pairs[k].rule, subject |-> pairs[k].subject, first |-> moves] :
        k \in {j \in DOMAIN pairs :
                 \A i \in instances : <<i.rule, i.subject>> # <<pairs[j].rule, pairs[j].subject>>}}

identityOf(p) ==
    LET is == {i \in instances : i.rule = p.rule /\ i.subject = p.subject}
    IN IF is = {} THEN 0 ELSE Max({i.id : i \in is})

\* The open tab, and the accepted risks split by whether their subject is still
\* in the rule's population.
buildSignalTabs(fired, pop, annos) ==
    [open      |-> {[rule |-> p.rule, subject |-> p.subject, id |-> identityOf(p),
                     accepted |-> \E a \in annos : a.rule = p.rule /\ a.subject = p.subject] : p \in fired},
     annotated |-> {a \in annos : [rule |-> a.rule, subject |-> a.subject] \in pop},
     withdrawn |-> {a \in annos : [rule |-> a.rule, subject |-> a.subject] \notin pop}]

filterSignalRows(rows, sev) == {r \in rows : sev = "" \/ SeverityFor(r.rule) = sev}

SevRank(sev) == CASE sev = "critical" -> 0 [] sev = "high" -> 1 [] sev = "medium" -> 2 [] sev = "low" -> 3

\* The key asked for, then severity, then the subject, then the identity.
less(a, b, key) ==
    LET rank(r) == SevRank(SeverityFor(r.rule))
        primary(r) == CASE key = "asset" -> Order[r.subject] [] key = "id" -> r.id [] OTHER -> rank(r)
    IN \/ primary(a) < primary(b)
       \/ primary(a) = primary(b) /\ rank(a) < rank(b)
       \/ primary(a) = primary(b) /\ rank(a) = rank(b) /\ Order[a.subject] < Order[b.subject]
       \/ primary(a) = primary(b) /\ rank(a) = rank(b) /\ a.subject = b.subject /\ a.id < b.id

\* A stable sort: rows that tie keep the order they were loaded in, so that a
\* second render never reshuffles equal keys.
sortSignalRows(rows, key, dir) ==
    LET before(a, b) == IF dir = "desc" THEN less(b, a, key) ELSE less(a, b, key)
        loaded == SetToSeq(rows)
        above(k) == {j \in DOMAIN loaded :
                        before(loaded[j], loaded[k]) \/ (~before(loaded[k], loaded[j]) /\ j <= k)}
    IN [n \in DOMAIN loaded |-> loaded[CHOOSE k \in DOMAIN loaded : Cardinality(above(k)) = n]]

\* The window of page links: seven cells, 0 for an ellipsis.
pageWindow(page, count) ==
    CASE count <= 7 -> [p \in 1..count |-> p]
      [] count > 7 /\ page <= 4 -> <<1, 2, 3, 4, 5, 0, count>>
      [] count > 7 /\ page > 4 /\ page >= count - 3 ->
            <<1, 0, count - 4, count - 3, count - 2, count - 1, count>>
      [] OTHER -> <<1, 0, page - 1, page, page + 1, 0, count>>

\* The rows of one page; a page past the end is the last.
renderSignals(rows, asked, size) ==
    LET count == (Len(rows) + size - 1) \div size
        page == IF asked > count THEN count ELSE asked
    IN IF rows = <<>> THEN [rows |-> <<>>, links |-> <<>>]
       ELSE [rows  |-> SubSeq(rows, (page - 1) * size + 1, Min({page * size, Len(rows)})),
             links |-> pageWindow(page, count)]

-----------------------------------------------------------------------------
(* The dashboard's figures and their changes. *)

PreviousBatchInstant ==
    LET older == {b \in boardBatches : b < Max(boardBatches)}
    IN IF boardBatches = {} \/ older = {} THEN {} ELSE {Max(older)}

\* Both snapshots are classified under the scopes that stand now.
exposureCountDeltas ==
    [current  |-> censusFromLegs(collapseReachLegs(ListServiceReachabilitySpansByClass)).exposed,
     previous |-> UNION {{censusFromLegs(collapseReachLegs(ListServiceReachabilitySpansByClassAt(t))).exposed} :
                         t \in PreviousBatchInstant}]

\* A firing that ended is not stored, so the change counts what is new.
signalDeltas(fired) ==
    [current  |-> Cardinality(fired),
     critical |-> Cardinality({p \in fired : SeverityFor(p.rule) = "critical"}),
     previous |-> UNION {{Cardinality({p \in fired : \E i \in instances :
                              i.rule = p.rule /\ i.subject = p.subject /\ i.first < t})} :
                         t \in PreviousBatchInstant}]

dashboardData ==
    LET fired == firedPairs(buildSignalCorpus)
    IN [signals |-> signalDeltas(fired),
        exposed |-> exposureCountDeltas,
        known   |-> PreviousBatchInstant # {},
        recent  |-> SubSeq(sortSignalRows(buildSignalTabs(fired, {}, {}).open, "sev", "asc"), 1,
                           Min({6, Cardinality(fired)}))]

-----------------------------------------------------------------------------
BoardInit ==
    /\ scopes = {} /\ excluded = {} /\ moves = 0 /\ boardBatches = {} /\ legs = {}
    /\ answers = [v \in Vantages |-> NoAnswer]
    /\ lame = FALSE /\ uploaded = FALSE /\ endpointHttp = {}
    /\ annotations = {} /\ instances = {} /\ sequence = 0
    /\ loads = [l \in Loaders |-> [pc |-> "idle"]]
    /\ painted = {} /\ served = 0

Move == moves < MaxMoves /\ moves' = moves + 1
PageState == <<annotations, instances, sequence, loads, painted, served>>

\* The worker folds one batch: a reach outcome, a resolution, or an exchange.
FoldReach(v, o) ==
    LET held == {sp \in legs : sp.vantage = v /\ sp.closed = Open}
    IN /\ Move
       /\ boardBatches' = boardBatches \cup {2 * moves}
       /\ legs' = IF \E sp \in held : sp.outcome = o THEN legs
                  ELSE (legs \ held) \cup {[sp EXCEPT !.closed = 2 * moves + 1] : sp \in held}
                       \cup {[vantage |-> v, outcome |-> o, opened |-> 2 * moves + 1, closed |-> Open]}
       /\ UNCHANGED <<scopes, excluded, answers, lame, uploaded, endpointHttp>>
       /\ UNCHANGED PageState

FoldAnswer(v, o, l) ==
    /\ Move
    /\ boardBatches' = boardBatches \cup {2 * moves}
    /\ answers' = [answers EXCEPT ![v] = o]
    /\ lame' = l
    /\ UNCHANGED <<scopes, excluded, legs, uploaded, endpointHttp>>
    /\ UNCHANGED PageState

FoldExchange(h) ==
    /\ Move
    /\ boardBatches' = boardBatches \cup {2 * moves}
    /\ endpointHttp' = h
    /\ UNCHANGED <<scopes, excluded, legs, answers, lame, uploaded>>
    /\ UNCHANGED PageState

\* The operator's scope acts re-class every vantage at the next read.
EditScope(s, x) ==
    /\ Move
    /\ scopes' = s /\ excluded' = x
    /\ UNCHANGED <<boardBatches, legs, answers, lame, uploaded, endpointHttp>>
    /\ UNCHANGED PageState

UploadZone ==
    /\ Move
    /\ uploaded' = TRUE
    /\ UNCHANGED <<scopes, excluded, boardBatches, legs, answers, lame, endpointHttp>>
    /\ UNCHANGED PageState

\* One annotation for each pair; a changed reason is a withdrawal and a declaration.
declareAnnotation(p) ==
    /\ Move
    /\ \A a \in annotations : <<a.rule, a.subject>> # <<p.rule, p.subject>>
    /\ annotations' = annotations \cup {[id |-> moves + 1, rule |-> p.rule, subject |-> p.subject]}
    /\ UNCHANGED <<scopes, excluded, boardBatches, legs, answers, lame, uploaded, endpointHttp>>
    /\ UNCHANGED <<instances, sequence, loads, painted, served>>

withdrawAnnotation(a) ==
    /\ Move
    /\ a \in annotations
    /\ annotations' = annotations \ {a}
    /\ UNCHANGED <<scopes, excluded, boardBatches, legs, answers, lame, uploaded, endpointHttp>>
    /\ UNCHANGED <<instances, sequence, loads, painted, served>>

\* A page load: the corpus and the annotations are read, the fired pairs minted,
\* and the identities read back.
LoadCorpus(l) ==
    /\ loads[l].pc = "idle" /\ served < MaxLoads
    /\ loads' = [loads EXCEPT ![l] = [pc |-> "read", fired |-> firedPairs(buildSignalCorpus),
                                      pop |-> population(buildSignalCorpus), annos |-> annotations]]
    /\ served' = served + 1
    /\ UNCHANGED estateVars /\ UNCHANGED <<annotations, instances, sequence, painted>>

deriveSignalInstances(l) ==
    /\ loads[l].pc = "read"
    /\ LET pairs == SetToSeq(loads[l].fired)
           minted == MintSignalInstances(pairs)
       IN /\ instances' = {i \in instances : \A m \in minted : <<i.rule, i.subject>> # <<m.rule, m.subject>>}
                             \cup minted
          /\ sequence' = sequence + Len(pairs)
    /\ loads' = [loads EXCEPT ![l].pc = "minted"]
    /\ UNCHANGED estateVars /\ UNCHANGED <<annotations, painted, served>>

PaintSignals(l) ==
    /\ loads[l].pc = "minted"
    /\ LET tabs == buildSignalTabs(loads[l].fired, loads[l].pop, loads[l].annos)
       IN painted' = painted \cup {[rule |-> r.rule, subject |-> r.subject, id |-> r.id] : r \in tabs.open}
    /\ loads' = [loads EXCEPT ![l] = [pc |-> "idle"]]
    /\ UNCHANGED estateVars /\ UNCHANGED <<annotations, instances, sequence, served>>

Folding ==
    \/ \E v \in Vantages, o \in ReachOutcomes : FoldReach(v, o)
    \/ \E v \in Vantages, o \in WalkOutcomes, l \in BOOLEAN : FoldAnswer(v, o, l)
    \/ \E host \in {"name", "address"} :
          FoldExchange({[responded |-> TRUE, status |-> 301, location |-> {[scheme |-> "https", host |-> host]}]})

Acting ==
    \/ \E s \in SUBSET UNION {Presented[v] : v \in Vantages} : EditScope(s, {})
    \/ \E a \in scopes : EditScope(scopes, {a})
    \/ UploadZone
    \/ \E p \in {[rule |-> SensitivePort, subject |-> ServiceSubject],
                 [rule |-> "lame-delegation", subject |-> NameSubject]} : declareAnnotation(p)
    \/ \E a \in annotations : withdrawAnnotation(a)

Loading == \E l \in Loaders : LoadCorpus(l) \/ deriveSignalInstances(l) \/ PaintSignals(l)

-----------------------------------------------------------------------------
\* A pair that fires keeps one identity on every page painted, whichever of two
\* racing loads minted it, and an identity names one pair (deriveSignalInstances).
IdentityStands ==
    \A p \in painted : p.id # 0 /\ \A q \in painted : (p.id = q.id) <=> (p.rule = q.rule /\ p.subject = q.subject)

\* The alarm on a sensitive port, the exposure board and the dashboard's figure
\* agree on the service under every scope: the alarm fires where the internet
\* leg is painted as danger, and a withheld board leaves nothing to alarm about
\* (buildServiceFacts, exposurePage, exposureCountDeltas).
ScreensAgree ==
    LET collapsed == collapseReachLegs(ListServiceReachabilitySpansByClass)
        chip == reachLegChip("internet", legFrom(collapsed, "internet"))
        alarm == [rule |-> SensitivePort, subject |-> ServiceSubject] \in firedPairs(buildSignalCorpus)
    IN /\ alarm <=> chip = "danger"
       /\ exposurePage.withheld => ~alarm
       /\ dashboardData.exposed.current = exposurePage.exposed

BoardNext == Folding \/ Acting \/ Loading
BoardSpec == BoardInit /\ [][BoardNext]_boardVars

\* An accepted risk that still fires is never listed as withdrawn, and every row of
\* the open tab is on exactly one page of its severity, at any size of page
\* (buildSignalTabs, filterSignalRows, sortSignalRows, renderSignals).
RowsListed ==
    LET tabs == buildSignalTabs(firedPairs(buildSignalCorpus), population(buildSignalCorpus), annotations)
    IN /\ tabs.annotated \cup tabs.withdrawn = annotations
       /\ \A r \in tabs.open : r.accepted => \E a \in tabs.annotated : a.rule = r.rule /\ a.subject = r.subject
       /\ \A sev \in {"", "critical", "high"}, size \in 1..2 :
            LET rows == filterSignalRows(tabs.open, sev)
                page(n) == renderSignals(sortSignalRows(rows, "sev", "asc"), n, size).rows
                pages == [n \in 1..((Cardinality(rows) + size - 1) \div size) |-> page(n)]
            IN /\ rows = UNION {Range(pages[n]) : n \in DOMAIN pages}
               /\ \A m, n \in DOMAIN pages : \A i \in DOMAIN pages[m], j \in DOMAIN pages[n] :
                       pages[m][i] = pages[n][j] => m = n /\ i = j

\* The pages name a firing pair alike, agree on what it shows and list all of it.
PagesAgree == moves > 0 => IdentityStands /\ ScreensAgree /\ RowsListed
=============================================================================
