------------------------------- MODULE Arrivals -------------------------------
(***************************************************************************)
(* What the operator is told when ground enters the estate.  A walk's fold *)
(* writes the resolution timeline of a name at a vantage, decides whether  *)
(* the name has departed, and in the same transaction composes messages:   *)
(* a membership root for every timeline that opened, an Address root for a *)
(* re-point onto new ground, one for sight restored after a Gap, one per   *)
(* derivation a release moved, and one for the addresses a custody         *)
(* extension has come to reach.  A hot fold tells the declared scope of a  *)
(* service that opens on ground no name cites.                             *)
(*                                                                         *)
(* A fold is one step: the worker folds one batch per transaction and the  *)
(* rows it reads are those it wrote and those committed before.  The       *)
(* census a root carries is CensusRelease's matter.                        *)
(***************************************************************************)
EXTENDS Naturals, FiniteSets

CONSTANTS
    ArrName, ArrAddr,
    T,              \* the timelines: a name and a vantage that walks it
    ArrZone,        \* the names within the declared, extending domain
    ArrBlock,       \* the addresses of the one block a seed may declare
    MaxRelease,     \* bound on the versions of the walk
    MaxArrFolds,       \* bound on the folds of a behaviour
    MaxArrActs      \* bound on the operator's acts in a behaviour

ASSUME ArrivalsAssumption ==
    /\ \A t \in T : t[1] \in ArrName
    /\ ArrZone \subseteq ArrName /\ ArrBlock \subseteq ArrAddr
    /\ {MaxRelease, MaxArrFolds, MaxArrActs} \subseteq Nat

VARIABLES
    resolved,   \* the open resolution span of a name at a vantage, and the owner its A record names
    behind,     \* of the closed spans of that timeline: the last one's version, the last value's citations
    closure,    \* the reason on a name's latest closed span
    recent,     \* addresses reached through the zone by closed spans within the currency bound
    extending,  \* whether the seed's custody extension is on
    block,      \* whether the block is declared
    refused,    \* excluded names, and the addresses of an excluded block
    walkVersion, told,
    known,      \* history: the ground the operator has been told of and that never left since
    left,       \* history: why the name last departed
    standing,   \* history: addresses told as gained that never fell out of reach or currency since
    folds, arrActs

timelineVars == <<resolved, behind, closure, recent>>
declaredVars == <<extending, block, refused>>
arrivalVars  == <<timelineVars, declaredVars, walkVersion, told, known, left, standing, folds, arrActs>>

NoSpan == [is |-> "none", cites |-> {}, version |-> 0, owner |-> "foreign"]
Readings(n) ==
    {[is |-> "Resolved", cites |-> {a}, owner |-> o] :
            a \in ArrAddr, o \in {"foreign"} \cup {"zone" : m \in ArrZone \cap {n}}}
        \cup {[is |-> i, cites |-> {}, owner |-> "foreign"] : i \in {"NameError", "Gap"}}

ArrivalsInit ==
    /\ resolved = [t \in T |-> NoSpan]
    /\ behind = [t \in T |-> [version |-> 0, cites |-> {}]]
    /\ closure = [n \in ArrName |-> "none"]
    /\ extending = TRUE /\ block \in BOOLEAN   \* the seed is declared with its extension
    /\ known = IF block THEN ArrBlock ELSE {}
    /\ recent = {} /\ refused = {} /\ walkVersion = 1 /\ told = {} /\ standing = {}
    /\ left = [n \in ArrName |-> "never"]
    /\ folds = 0 /\ arrActs = 0

(* What a timeline cites: a gapped name still cites its pre-Gap value. *)
CitedBy(S, B, t) == IF S[t].is = "Gap" THEN B[t].cites ELSE S[t].cites
OpenCiters(S, B, a) == {t \in T : a \in CitedBy(S, B, t)}
Covered(a) == block /\ a \in ArrBlock
AddressPresent(S, B) == {a \in ArrAddr : OpenCiters(S, B, a) # {} \/ Covered(a)}
OpenOf(S, n) == {t \in T : t[1] = n /\ S[t] # NoSpan}

(***************************************************************************)
(* The fold of one reading                                                 *)
(***************************************************************************)
Spans(t, r) == [resolved EXCEPT ![t] = [is |-> r.is, cites |-> r.cites, version |-> walkVersion, owner |-> r.owner]]
Same(t, r) == resolved[t].is = r.is /\ resolved[t].cites = r.cites /\ resolved[t].version = walkVersion
Closes(B, S, C) ==
    [t \in T |-> IF t \in C THEN [version |-> S[t].version, cites |-> CitedBy(S, B, t)] ELSE B[t]]

decideNameDeparture(S, n) ==
    LET W == {S[t].is : t \in OpenOf(S, n)}
    IN  IF W = {} THEN "stays"
        ELSE IF n \in refused THEN "descoped"
        ELSE IF W = {"NameError"} THEN "measured-absent" ELSE "stays"

reEntryInputs(S, n) ==
    [prior |-> IF closure[n] \in {"measured-absent", "descoped"} THEN closure[n] ELSE "none",
     broke |-> \E t \in OpenOf(S, n) : behind[t].version \notin {0, S[t].version}]

openedByAperture(n) == n \in ArrZone /\ n \notin refused

membershipEntry_AnyClosure(S, n) == IF reEntryInputs(S, n).prior = "none" THEN "appeared" ELSE "returned"

membershipEntry(S, n) ==
    LET in == reEntryInputs(S, n)
    IN  CASE in.prior = "none" -> IF openedByAperture(n) THEN "revealed" ELSE "appeared"
          [] in.prior = "descoped" /\ openedByAperture(n) -> "revealed"
          [] in.prior = "measured-absent" /\ ~in.broke -> "returned"
          [] OTHER -> "appeared"

(***************************************************************************)
(* The messages of a fold.  S and B are the timelines as the fold leaves   *)
(* them, opened whether the reading opened its timeline.                   *)
(***************************************************************************)
Say(kind, at, of) == [kind |-> kind, at |-> at, of |-> of]

membershipMessages(S, t) == {Say(membershipEntry(S, t[1]), t[1], {})}

rePointed(t, r) == ~Same(t, r) /\ resolved[t] # NoSpan /\ resolved[t].is # "Gap" /\ r.is # "Gap"

addressesNewToEstate_OwnCiter(S, B, t, r) ==
    {a \in r.cites \ resolved[t].cites : OpenCiters(S, B, a) = {} /\ ~Covered(a) /\ a \notin refused}

addressesNewToEstate(S, B, t, r) ==
    {a \in r.cites \ resolved[t].cites :
        /\ OpenCiters(S, B, a) \ {t} = {}
        /\ ~Covered(a) /\ a \notin refused}

rePointMessages(S, B, t, r) ==
    IF rePointed(t, r) THEN {Say("address", a, {a}) : a \in addressesNewToEstate(S, B, t, r)} ELSE {}

gapCloseMessages(t, r) ==
    IF resolved[t].is = "Gap" /\ r.is # "Gap" THEN {Say("sight", t[1], r.cites)} ELSE {}

rebaselineMessages(t) ==
    IF resolved[t] # NoSpan /\ resolved[t].version # walkVersion THEN {Say("rebaseline", "resolution", {})} ELSE {}

(* The extension reaches an address through a record owned within the zone. *)
ExtensionCandidates(S) == UNION {S[t].cites : t \in {u \in T : S[u].is = "Resolved" /\ S[u].owner = "zone"}}

(* The owner of a citation is read from the record spans that overlap it,   *)
(* and the last of them wins: a span this fold left open is read with the   *)
(* record the fold has just written, before as well as after.              *)
ReachedBefore(t, r) ==
    recent \cup ExtensionCandidates(IF Same(t, r) THEN Spans(t, r) ELSE resolved)

extensionGains(S, t, r) ==
    IF extending THEN ExtensionCandidates(S) \ ReachedBefore(t, r) ELSE {}

extensionGainMessages(S, t, r) ==
    IF extensionGains(S, t, r) = {} THEN {} ELSE {Say("gained", "zone", extensionGains(S, t, r))}

withdrawalMessages(n, why) ==
    CASE why = "measured-absent" -> {Say("withdrawn", n, {})}
      [] why = "descoped" -> {Say("declared-input", n, {})}
      [] OTHER -> {}

FoldArrivingWalk(t, r) ==
    LET n == t[1]
        opened == resolved[t] = NoSpan
        S == Spans(t, r)
        B == IF opened \/ Same(t, r) THEN behind ELSE Closes(behind, resolved, {t})
        closed == IF opened \/ Same(t, r) \/ resolved[t].owner = "foreign" THEN {} ELSE resolved[t].cites
    IN  /\ folds < MaxArrFolds /\ folds' = folds + 1
        /\ \E why \in {decideNameDeparture(S, n)} :
           \E gone \in {IF why = "stays" THEN {} ELSE OpenOf(S, n)} :
             /\ resolved' = [u \in T |-> IF u \in gone THEN NoSpan ELSE S[u]]
             /\ behind' = Closes(B, S, gone)
             /\ closure' = [closure EXCEPT ![n] = IF gone # {} THEN why
                                                 ELSE IF B # behind THEN "plain" ELSE @]
             /\ recent' = recent \cup closed \cup UNION {S[u].cites : u \in {w \in gone : S[w].owner = "zone"}}
             /\ told' = (IF opened THEN membershipMessages(S, t) ELSE {})
                          \cup rePointMessages(resolved', behind', t, r)
                          \cup gapCloseMessages(t, r) \cup (IF Same(t, r) THEN {} ELSE rebaselineMessages(t))
                          \cup extensionGainMessages(resolved', t, r) \cup withdrawalMessages(n, why)
             /\ left' = IF gone = {} THEN left ELSE [left EXCEPT ![n] = why]
        /\ known' = (known \cup (r.cites \cap refused)
                        \cup (UNION {m.of : m \in {x \in told' : x.kind \in {"address", "sight"}}})
                        \cup (IF opened THEN UNION {CitedBy(resolved', behind', u) : u \in OpenOf(resolved', n)} ELSE {}))
                    \cap AddressPresent(resolved', behind')
        /\ standing' = (standing \cup extensionGains(resolved', t, r)) \cap (ExtensionCandidates(resolved') \cup recent')
        /\ UNCHANGED <<declaredVars, walkVersion, arrActs>>

(* A hot fold opens a service beneath a: a declared address no name cites  *)
(* has no root, so the scope itself is told.                               *)
darkScopeOpenings(a) == Covered(a) /\ a \notin refused /\ OpenCiters(resolved, behind, a) = {}
FoldHot(a) ==
    /\ folds < MaxArrFolds /\ folds' = folds + 1
    /\ told' = IF darkScopeOpenings(a) THEN {Say("scope", "block", {a})} ELSE {}
    /\ UNCHANGED <<timelineVars, declaredVars, walkVersion, known, left, standing, arrActs>>

(***************************************************************************)
(* The operator, releases and the clock                                    *)
(***************************************************************************)
ArrAct == arrActs < MaxArrActs /\ arrActs' = arrActs + 1 /\ told' = {}

DeclareBlock ==
    /\ ArrAct /\ block' = ~block
    /\ known' = IF block THEN {a \in known : OpenCiters(resolved, behind, a) # {}} ELSE known \cup ArrBlock
    /\ UNCHANGED <<timelineVars, extending, refused, walkVersion, left, standing, folds>>

Refuse(X) ==
    /\ ArrAct
    /\ refused' = IF X \subseteq refused THEN refused \ X ELSE refused \cup X
    /\ UNCHANGED <<timelineVars, extending, block, walkVersion, known, left, standing, folds>>

ToggleExtension ==
    /\ ArrAct /\ extending' = ~extending
    /\ UNCHANGED <<timelineVars, block, refused, walkVersion, known, left, standing, folds>>

Upgrade ==
    /\ walkVersion < MaxRelease /\ walkVersion' = walkVersion + 1 /\ told' = {}
    /\ UNCHANGED <<timelineVars, declaredVars, known, left, standing, folds, arrActs>>

(* The closed spans fall behind the currency bound together. *)
Lapse ==
    /\ recent # {} /\ recent' = {} /\ told' = {}
    /\ standing' = standing \cap ExtensionCandidates(resolved)
    /\ UNCHANGED <<resolved, behind, closure, declaredVars, walkVersion, known, left, folds, arrActs>>

ArrivalsNext ==
    \/ \E t \in T : \E r \in Readings(t[1]) : FoldArrivingWalk(t, r)
    \/ \E a \in ArrAddr : FoldHot(a)
    \/ DeclareBlock \/ ToggleExtension \/ Upgrade \/ Lapse
    \/ \E X \in {{n} : n \in ArrName} \cup {ArrBlock} : Refuse(X)

ArrivalsSpec == ArrivalsInit /\ [][ArrivalsNext]_arrivalVars

(***************************************************************************)
(* Properties                                                              *)
(***************************************************************************)
(* An address is in the estate only if the operator declared it or was     *)
(* told of it: by the root of the name whose timeline opened, as an        *)
(* Address root, or as sight restored; a re-point onto ground a sibling    *)
(* vantage already cites says nothing and loses nothing.                   *)
NoSilentGround == AddressPresent(resolved, behind) \subseteq known

(* 'returned' is told only of a name that last left because every vantage  *)
(* measured it absent, never across a narrowing of ours.                   *)
ReturnedMeansLeft ==
    [][\A m \in told' : m.kind = "returned" => left[m.at] = "measured-absent"]_arrivalVars

(* An address told as gained is not told again while a closed citation of  *)
(* it is within the currency bound, however its names flap.                *)
GainToldOnce ==
    [][\A m \in told' : m.kind = "gained" => m.of \cap standing = {}]_arrivalVars

(* A gain is told once and 'returned' only of what had left.                 *)
ArrivalsTold == GainToldOnce /\ ReturnedMeansLeft
=============================================================================
