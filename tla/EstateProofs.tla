----------------------------- MODULE EstateProofs -----------------------------
(***************************************************************************)
(* Proofs about the estate, for any names, addresses, vantages and scopes  *)
(* and any number of acts and faults.                                      *)
(***************************************************************************)
EXTENDS Estate, TLAPS

\* The estates a stage of the completing transaction takes and returns.
Estates == [res  : [Name \X Vantage -> Resolution],
            svc  : [Address \X Vantage -> {"none", "up", "Outage"}],
            prev : [Name \X Vantage -> SUBSET Address],
            ever : [Name -> SUBSET Address]]

\* F is E after some of its spans were closed: a resolution that stays open keeps
\* its value and what it held before it.
Closes(E, F) ==
    /\ F \in Estates
    /\ \A u \in Name \X Vantage :
          F.res[u] = Closed \/ (F.res[u] = E.res[u] /\ F.prev[u] = E.prev[u])
    /\ \A t \in Address \X Vantage : F.svc[t] \in {E.svc[t], "none"}

\* What walks have taken up is declared, or was when they were enqueued and has
\* its mover: what is admitted hangs on a seed, a fan-out under way reads names of
\* standing seeds, and a queued walk's names still have a seed or a tombstone.
AdmittedHeld == \A p \in admitted : p[2] \in seeds \cap Domain /\ p[1] \in NamesIn[p[2]]
DraftHeld    == \A n \in draft : NameSeedCovered(n, seeds)
FrozenHeld   == (\E w \in Walk : job[w] # Absent) => \A n \in frozen : NameSeedCovered(n, seeds \cup tombs)

ShownHeld    == \A t \in Name \X Vantage : res[t] # Closed => NameSeedCovered(t[1], seeds \cup tombs)

MoverInv == AdmittedHeld /\ DraftHeld /\ FrozenHeld /\ ShownHeld

-----------------------------------------------------------------------------
(* The stages.                                                             *)

\* Closed and Outage are resolutions, and apart.
LEMMA TwoEnds == Closed \in Resolution /\ Outage \in Resolution /\ Closed # Outage /\ ~IsGap(Closed)
                 /\ Closed.cites = {}
  BY DEF Closed, Outage, Resolution, IsGap

\* What a span cites is a set of addresses.
LEMMA CitesTyped ==
    ASSUME NEW r \in Resolution
    PROVE  r.cites \in SUBSET Address
  BY DEF Resolution

\* Walks and probes are different jobs.
LEMMA JobsApart ==
    /\ \A j \in Walk : j \notin Probe /\ j \in Job /\ From(j) \in Vantage
    /\ \A j \in Probe : j \notin Walk /\ j \in Job /\ From(j) \in Vantage /\ j[2] \in Address
<1>1. ASSUME NEW j \in Walk PROVE j[1] = "walk" /\ j[2] \in Vantage /\ j \in Job
  BY DEF Walk, Job
<1>2. ASSUME NEW j \in Probe PROVE j[1] = "probe" /\ j[2] \in Address /\ j[3] \in Vantage /\ j \in Job
  BY DEF Probe, Job
<1> QED
  BY <1>1, <1>2 DEF From

\* What CloseSpans leaves open and what it remembers (CloseSpan).
LEMMA CloseSpansCloses ==
    ASSUME NEW E \in Estates, NEW T
    PROVE  /\ CloseSpans(E, T) \in Estates
           /\ Closes(E, CloseSpans(E, T))
           /\ \A t \in Name \X Vantage : CloseSpans(E, T).res[t] = IF t \in T THEN Closed ELSE E.res[t]
           /\ \A t \in Address \X Vantage : CloseSpans(E, T).svc[t] = IF t \in T THEN "none" ELSE E.svc[t]
           /\ CloseSpans(E, T).ever = E.ever
<1> DEFINE R == [t \in Name \X Vantage |-> IF t \in T THEN Closed ELSE E.res[t]]
           S == [t \in Address \X Vantage |-> IF t \in T THEN "none" ELSE E.svc[t]]
           P == [t \in Name \X Vantage |->
                   IF t \in T /\ E.res[t] # Closed /\ ~IsGap(E.res[t]) THEN E.res[t].cites ELSE E.prev[t]]
           F == CloseSpans(E, T)
<1>1. /\ E.res \in [Name \X Vantage -> Resolution]
      /\ E.svc \in [Address \X Vantage -> {"none", "up", "Outage"}]
      /\ E.prev \in [Name \X Vantage -> SUBSET Address]
  BY DEF Estates
<1>2. F = [E EXCEPT !.res = R, !.svc = S, !.prev = P]
  BY <1>1 DEF CloseSpans
<1>3. R \in [Name \X Vantage -> Resolution]
  BY <1>1, TwoEnds
<1>4. S \in [Address \X Vantage -> {"none", "up", "Outage"}]
  BY <1>1
<1>5. P \in [Name \X Vantage -> SUBSET Address]
  BY <1>1, CitesTyped
<1>6. F \in Estates /\ F.res = R /\ F.svc = S /\ F.prev = P /\ F.ever = E.ever
  <2> HIDE DEF R, S, P, F
  <2> QED
    BY <1>2, <1>3, <1>4, <1>5 DEF Estates
<1>7. \A t \in Name \X Vantage :
        /\ R[t] = IF t \in T THEN Closed ELSE E.res[t]
        /\ R[t] = Closed \/ (R[t] = E.res[t] /\ P[t] = E.prev[t])
  OBVIOUS
<1>8. \A t \in Address \X Vantage : S[t] = IF t \in T THEN "none" ELSE E.svc[t]
  OBVIOUS
<1> HIDE DEF R, S, P, F
<1>9. /\ \A t \in Name \X Vantage :
           /\ F.res[t] = IF t \in T THEN Closed ELSE E.res[t]
           /\ F.res[t] = Closed \/ (F.res[t] = E.res[t] /\ F.prev[t] = E.prev[t])
      /\ \A t \in Address \X Vantage : F.svc[t] = IF t \in T THEN "none" ELSE E.svc[t]
      /\ \A t \in Address \X Vantage : F.svc[t] \in {E.svc[t], "none"}
  BY <1>6, <1>7, <1>8
<1> QED
  BY <1>6, <1>9 DEF Closes, F

\* Closing goes on from where it stood.
LEMMA ClosesOn ==
    ASSUME NEW E, NEW F, NEW G, Closes(E, F), Closes(F, G)
    PROVE  Closes(E, G)
  BY DEF Closes

\* An answer of the walk is what its timelines hold, and the rest stand (foldOne).
LEMMA FoldWalkSets ==
    ASSUME NEW E \in Estates, NEW v \in Vantage, NEW N \in SUBSET Name, NEW seen \in [N -> Observable]
    PROVE  /\ FoldWalk(E, v, seen) \in Estates
           /\ \A t \in Name \X Vantage :
                FoldWalk(E, v, seen).res[t] = IF t[2] = v /\ t[1] \in N THEN seen[t[1]] ELSE E.res[t]
           /\ FoldWalk(E, v, seen).svc = E.svc
<1>1. /\ E.res \in [Name \X Vantage -> Resolution]
      /\ E.svc \in [Address \X Vantage -> {"none", "up", "Outage"}]
      /\ E.prev \in [Name \X Vantage -> SUBSET Address]
      /\ E.ever \in [Name -> SUBSET Address]
      /\ E = [res |-> E.res, svc |-> E.svc, prev |-> E.prev, ever |-> E.ever]
  BY DEF Estates
<1>2. ASSUME NEW t \in Name \X Vantage, NEW r \in Resolution
      PROVE  FoldStep(E, t, r).res[t] = r /\ FoldStep(E, t, r).prev[t] \in SUBSET Address
  <2>1. CASE E.res[t] = r
    BY <1>1, <2>1 DEF FoldStep
  <2>2. CASE E.res[t] # r
    <3> DEFINE C == CloseSpans(E, {t})
    <3>1. C \in Estates
      BY CloseSpansCloses
    <3>2. /\ C.res \in [Name \X Vantage -> Resolution] /\ C.ever \in [Name -> SUBSET Address]
          /\ C.prev \in [Name \X Vantage -> SUBSET Address]
      BY <3>1 DEF Estates
    <3> DEFINE x == [C.res EXCEPT ![t] = r]
               w == [C.ever EXCEPT ![t[1]] = C.ever[t[1]] \cup r.cites]
               F == [C EXCEPT !.res = x]
    <3>3. OpenResolution(E, t, r) = [F EXCEPT !.ever = [F.ever EXCEPT ![t[1]] = F.ever[t[1]] \cup r.cites]]
      BY DEF OpenResolution
    <3>4. x \in [Name \X Vantage -> Resolution] /\ x[t] = r
      BY <3>2
    <3>5. w \in [Name -> SUBSET Address]
      BY <3>2, CitesTyped
    <3> HIDE DEF C, x, w
    <3>6. F.ever = C.ever
      BY <3>1, <3>4 DEF Estates
    <3>7. OpenResolution(E, t, r) = [C EXCEPT !.res = x, !.ever = w]
      BY <3>3, <3>6 DEF w
    <3> DEFINE G == [C EXCEPT !.res = x, !.ever = w]
    <3>8. G.res = x /\ G.prev = C.prev
      BY <3>1, <3>4, <3>5 DEF Estates
    <3>9. FoldStep(E, t, r) = G
      BY <2>2, <3>7 DEF FoldStep
    <3> QED
      BY <3>2, <3>4, <3>8, <3>9
  <2> QED
    BY <2>1, <2>2
<1>3. \A n \in N : seen[n] \in Resolution /\ DOMAIN seen = N
  BY DEF Observable
<1>4. \A t \in Name \X Vantage : t[1] \in Name /\ t[2] \in Vantage
  OBVIOUS
<1> DEFINE Hit(t) == t[2] = v /\ t[1] \in DOMAIN seen
           R == [t \in Name \X Vantage |-> IF Hit(t) THEN FoldStep(E, t, seen[t[1]]).res[t] ELSE E.res[t]]
           P == [t \in Name \X Vantage |-> IF Hit(t) THEN FoldStep(E, t, seen[t[1]]).prev[t] ELSE E.prev[t]]
           V == [n \in Name |-> IF n \in DOMAIN seen THEN E.ever[n] \cup seen[n].cites ELSE E.ever[n]]
<1>5. FoldWalk(E, v, seen) = [res |-> R, svc |-> E.svc, prev |-> P, ever |-> V]
  BY <1>1 DEF FoldWalk
<1>6. \A t \in Name \X Vantage : R[t] = IF t[2] = v /\ t[1] \in N THEN seen[t[1]] ELSE E.res[t]
  BY <1>2, <1>3
<1>7. R \in [Name \X Vantage -> Resolution]
  BY <1>1, <1>3, <1>6
<1>8. P \in [Name \X Vantage -> SUBSET Address]
  <2> SUFFICES ASSUME NEW t \in Name \X Vantage PROVE P[t] \in SUBSET Address
    OBVIOUS
  <2> QED
    BY <1>1, <1>2, <1>3
<1>9. V \in [Name -> SUBSET Address]
  BY <1>1, <1>3, CitesTyped
<1> QED
  BY <1>1, <1>5, <1>6, <1>7, <1>8, <1>9 DEF Estates

\* A probe moves no resolution (the hot fold's availability).
LEMMA FoldProbeSets ==
    ASSUME NEW E \in Estates, NEW j \in Probe, NEW outage
    PROVE  /\ FoldProbe(E, j, outage) \in Estates
           /\ FoldProbe(E, j, outage).res = E.res
           /\ \A t \in Address \X Vantage : FoldProbe(E, j, outage).svc[t] \in {E.svc[t], "up"}
<1> DEFINE p == <<j[2], j[3]>>
           y == [E.svc EXCEPT ![p] = "up"]
<1>1. p \in Address \X Vantage
  BY JobsApart DEF From, Probe
<1>2. E.svc \in [Address \X Vantage -> {"none", "up", "Outage"}]
  BY DEF Estates
<1>3. /\ y \in [Address \X Vantage -> {"none", "up", "Outage"}]
      /\ \A t \in Address \X Vantage : y[t] \in {E.svc[t], "up"}
  BY <1>1, <1>2
<1>4. FoldProbe(E, j, outage) = E \/ FoldProbe(E, j, outage) = [E EXCEPT !.svc = y]
  BY DEF FoldProbe
<1> HIDE DEF y
<1>5. [E EXCEPT !.svc = y] \in Estates /\ [E EXCEPT !.svc = y].svc = y /\ [E EXCEPT !.svc = y].res = E.res
  BY <1>3 DEF Estates
<1> QED
  BY <1>3, <1>4, <1>5

\* A completed walk retires its vantage's outage Gaps (applyAvailability).
LEMMA MarkAvailableCloses ==
    ASSUME NEW E \in Estates, NEW v \in Vantage
    PROVE  /\ Closes(E, MarkAvailable(E, v))
           /\ \A t \in Name \X Vantage : t[2] = v => MarkAvailable(E, v).res[t] # Outage
           /\ MarkAvailable(E, v).svc = E.svc
<1> DEFINE x == [t \in Name \X Vantage |-> IF t[2] = v /\ E.res[t] = Outage THEN Closed ELSE E.res[t]]
<1>1. E.res \in [Name \X Vantage -> Resolution]
  BY DEF Estates
<1>2. MarkAvailable(E, v) = [E EXCEPT !.res = x]
  BY <1>1 DEF MarkAvailable
<1>3. /\ x \in [Name \X Vantage -> Resolution]
      /\ \A t \in Name \X Vantage : x[t] \in {Closed, E.res[t]} /\ (t[2] = v => x[t] # Outage)
  BY <1>1, TwoEnds
<1> HIDE DEF x
<1>4. LET F == [E EXCEPT !.res = x]
      IN  F \in Estates /\ F.res = x /\ F.svc = E.svc /\ F.prev = E.prev
  BY <1>3 DEF Estates
<1>5. \A t \in Address \X Vantage : E.svc[t] \in {E.svc[t], "none"}
  OBVIOUS
<1> QED
  BY <1>2, <1>3, <1>4, <1>5 DEF Closes

\* A dead-lettered walk replaces what its vantage held by outage Gaps.
LEMMA MarkUnavailableDowns ==
    ASSUME NEW E \in Estates, NEW v \in Vantage
    PROVE  /\ MarkUnavailable(E, v) \in Estates
           /\ \A t \in Name \X Vantage :
                MarkUnavailable(E, v).res[t] = IF t[2] = v /\ E.res[t] # Closed THEN Outage ELSE E.res[t]
           /\ \A t \in Address \X Vantage :
                MarkUnavailable(E, v).svc[t] = IF t[2] = v /\ E.svc[t] # "none" THEN "Outage" ELSE E.svc[t]
<1> DEFINE C == CloseSpans(E, {t \in DOMAIN E.res : t[2] = v})
           x == [t \in Name \X Vantage |-> IF t[2] = v /\ E.res[t] # Closed THEN Outage ELSE E.res[t]]
           y == [t \in Address \X Vantage |-> IF t[2] = v /\ E.svc[t] # "none" THEN "Outage" ELSE E.svc[t]]
<1>1. /\ E.res \in [Name \X Vantage -> Resolution]
      /\ E.svc \in [Address \X Vantage -> {"none", "up", "Outage"}]
  BY DEF Estates
<1>2. C \in Estates
  BY CloseSpansCloses
<1>3. MarkUnavailable(E, v) = [C EXCEPT !.res = x, !.svc = y]
  BY <1>1 DEF MarkUnavailable
<1>4. x \in [Name \X Vantage -> Resolution]
  BY <1>1, TwoEnds
<1>5. y \in [Address \X Vantage -> {"none", "up", "Outage"}]
  BY <1>1
<1>6. MarkUnavailable(E, v) \in Estates /\ MarkUnavailable(E, v).res = x /\ MarkUnavailable(E, v).svc = y
  <2> HIDE DEF C, x, y
  <2> QED
    BY <1>2, <1>3, <1>4, <1>5 DEF Estates
<1> QED
  BY <1>6

\* The stages after a job's own observations only close.
LEMMA StagesClose ==
    ASSUME NEW E \in Estates, NEW seen, NEW in
    PROVE  /\ Closes(E, FoldEstateTransitions(E, seen, in))
           /\ Closes(E, FoldNameSeedWithdrawals(E, in))
           /\ Closes(E, FoldAddressExclusions(E, in))
           /\ Closes(E, FoldSeedWithdrawals(E, in))
<1>1. \A T : Closes(E, CloseSpans(E, T)) /\ CloseSpans(E, T) \in Estates
  BY CloseSpansCloses
<1>2. \A T, U : Closes(E, CloseSpans(CloseSpans(E, T), U))
  BY <1>1, CloseSpansCloses, ClosesOn
<1>3. Closes(E, FoldEstateTransitions(E, seen, in))
  BY <1>2 DEF FoldEstateTransitions
<1>4. Closes(E, FoldNameSeedWithdrawals(E, in))
  BY <1>2 DEF FoldNameSeedWithdrawals
<1> QED
  BY <1>1, <1>3, <1>4 DEF FoldAddressExclusions, FoldSeedWithdrawals

-----------------------------------------------------------------------------
(* Types, and what a completing transaction writes.                        *)

\* The four tables are an estate.
LEMMA EstateTyped ==
    ASSUME TypeOK
    PROVE  Estate \in Estates /\ Estate.res = res /\ Estate.svc = svc /\ Estate.prev = prev /\ Estate.ever = ever
  BY DEF TypeOK, Estate, Estates

\* What a completing job has read of its targets.
Saw(j, seen) == \/ j \in Walk /\ seen \in [frozen -> Observable]
                \/ j \in Probe /\ seen = [n \in {} |-> Closed]

\* The estates a completion passes through and what it leaves in the tables.
Passes(j, seen, own, known, named, ground, last) ==
    /\ \A t \in Name \X Vantage :
         own.res[t] = IF j \in Walk /\ t[2] = From(j) /\ t[1] \in frozen THEN seen[t[1]] ELSE res[t]
    /\ \A t \in Address \X Vantage : own.svc[t] \in {svc[t], "up"}
    /\ known = FoldEstateTransitions(own, seen, job[j]) /\ Closes(own, known)
    /\ named = FoldNameSeedWithdrawals(known, job[j]) /\ Closes(known, named)
    /\ ground = FoldSeedWithdrawals(FoldAddressExclusions(named, job[j]), job[j]) /\ Closes(named, ground)
    /\ Closes(ground, last) /\ last.svc = ground.svc
    /\ j \in Walk => \A t \in Name \X Vantage : t[2] = From(j) => last.res[t] # Outage
    /\ res' = last.res /\ svc' = last.svc /\ prev' = last.prev /\ ever' = last.ever
    /\ tombs' = (tombs \ SpendNameSeedWithdrawals(named)) \ SpendSeedWithdrawals(ground)

\* A completion passes through such estates: the job's observations, departures,
\* name withdrawals, then exclusions and seed withdrawals (completeMeasurement).
LEMMA Completion ==
    ASSUME TypeOK, NEW j \in Job, NEW seen, Saw(j, seen), Complete(j, seen)
    PROVE  \E own, known, named, ground, last \in Estates : Passes(j, seen, own, known, named, ground, last)
<1> DEFINE own == IF j \in Walk THEN FoldWalk(Estate, From(j), seen) ELSE FoldProbe(Estate, j, job[j].outage)
           known == FoldEstateTransitions(own, seen, job[j])
           named == FoldNameSeedWithdrawals(known, job[j])
           excluded == FoldAddressExclusions(named, job[j])
           ground == FoldSeedWithdrawals(excluded, job[j])
           last == IF j \in Walk THEN MarkAvailable(ground, From(j)) ELSE ground
<1>0. \A E, F : Closes(E, F) => F \in Estates
  BY DEF Closes
<1>1. /\ res' = last.res /\ svc' = last.svc /\ prev' = last.prev /\ ever' = last.ever
      /\ tombs' = (tombs \ SpendNameSeedWithdrawals(named)) \ SpendSeedWithdrawals(ground)
  BY DEF Complete, Write
<1>2. /\ own \in Estates
      /\ \A t \in Name \X Vantage :
           own.res[t] = IF j \in Walk /\ t[2] = From(j) /\ t[1] \in frozen THEN seen[t[1]] ELSE res[t]
      /\ \A t \in Address \X Vantage : own.svc[t] \in {svc[t], "up"}
  <2>1. CASE j \in Walk
    <3>1. seen \in [frozen -> Observable] /\ From(j) \in Vantage /\ frozen \in SUBSET Name
      BY <2>1, JobsApart DEF Saw, TypeOK
    <3> QED
      BY <2>1, <3>1, EstateTyped, FoldWalkSets
  <2>2. CASE j \notin Walk
    <3>1. j \in Probe
      BY <2>2 DEF Job
    <3> QED
      BY <2>2, <3>1, EstateTyped, FoldProbeSets
  <2> QED
    BY <2>1, <2>2
<1> HIDE DEF own
<1>3. Closes(own, known) /\ known \in Estates
  BY <1>0, <1>2, StagesClose
<1> HIDE DEF known
<1>4. Closes(known, named) /\ named \in Estates
  BY <1>0, <1>3, StagesClose
<1> HIDE DEF named
<1>5. Closes(named, excluded) /\ excluded \in Estates
  BY <1>0, <1>4, StagesClose
<1> HIDE DEF excluded
<1>6. Closes(excluded, ground) /\ ground \in Estates
  BY <1>0, <1>5, StagesClose
<1>7. Closes(named, ground)
  BY <1>5, <1>6, ClosesOn
<1>8. /\ Closes(ground, last) /\ last.svc = ground.svc /\ last \in Estates
      /\ j \in Walk => \A t \in Name \X Vantage : t[2] = From(j) => last.res[t] # Outage
  <2> HIDE DEF ground
  <2>1. CASE j \in Walk
    <3>1. From(j) \in Vantage
      BY <2>1, JobsApart
    <3> QED
      BY <1>6, <2>1, <3>1, MarkAvailableCloses DEF Closes
  <2>2. CASE j \notin Walk
    BY <1>6, <2>2 DEF Closes
  <2> QED
    BY <2>1, <2>2
<1> QED
  <2>1. known = FoldEstateTransitions(own, seen, job[j]) /\ named = FoldNameSeedWithdrawals(known, job[j])
        /\ ground = FoldSeedWithdrawals(FoldAddressExclusions(named, job[j]), job[j])
    BY DEF known, named, excluded
  <2> HIDE DEF ground, last
  <2> QED
    BY <1>1, <1>2, <1>3, <1>4, <1>6, <1>7, <1>8, <2>1 DEF Passes

\* Every completion saw what its job's kind can see.
LEMMA CompletionsSaw ==
    /\ \A j \in Walk : CompleteWalk(j) => j \in Job /\ \E seen : Saw(j, seen) /\ Complete(j, seen)
    /\ \A j \in Probe : CompleteProbe(j) => j \in Job /\ \E seen : Saw(j, seen) /\ Complete(j, seen)
  BY JobsApart DEF CompleteWalk, CompleteProbe, Saw

\* The operator moves declarations only (the settings handlers).
LEMMA OperatorRests ==
    ASSUME Operator
    PROVE  /\ UNCHANGED <<spanVars, down, draft, job, frozen, faults>>
           /\ acts < MaxActs /\ acts' = acts + 1
<1>1. \A s \in Scope : DeclareSeed(s) \/ WithdrawSeed(s) =>
        UNCHANGED <<spanVars, down, draft, job, frozen, faults>> /\ acts < MaxActs /\ acts' = acts + 1
  BY DEF DeclareSeed, WithdrawSeed, Act
<1>2. \A x \in Excludable : DeclareExclusion(x) \/ Unexclude(x) =>
        UNCHANGED <<spanVars, down, draft, job, frozen, faults>> /\ acts < MaxActs /\ acts' = acts + 1
  BY DEF DeclareExclusion, Unexclude, Act
<1>3. \A a \in Address : ExtendCustody(a) =>
        UNCHANGED <<spanVars, down, draft, job, frozen, faults>> /\ acts < MaxActs /\ acts' = acts + 1
  BY DEF ExtendCustody, Act
<1>4. \A n \in Name, d \in Domain : Admit(n, d) =>
        UNCHANGED <<spanVars, down, draft, job, frozen, faults>> /\ acts < MaxActs /\ acts' = acts + 1
  BY DEF Admit, Act
<1> QED
  BY <1>1, <1>2, <1>3, <1>4 DEF Operator

\* The rows, the declarations and the jobs keep their types, for every estate and
\* however many acts and faults the operator and the workers add.
THEOREM EstateTypeCorrect == Spec => []TypeOK
<1>1. Init => TypeOK
  <2> SUFFICES ASSUME Init PROVE TypeOK
    OBVIOUS
  <2>1. MaxActs \in Nat /\ MaxFaults \in Nat
    BY EstateAssumption
  <2>2. Absent \in [phase : {"none", "ready", "folding"}, seeds : SUBSET Scope,
                    excl : SUBSET (Name \cup Block), outage : BOOLEAN]
    BY DEF Absent
  <2> QED
    BY <2>1, <2>2, TwoEnds DEF Init, TypeOK
<1>2. TypeOK /\ [Next]_vars => TypeOK'
  <2> SUFFICES ASSUME TypeOK, [Next]_vars PROVE TypeOK'
    OBVIOUS
  <2> DEFINE Row == [phase : {"none", "ready", "folding"}, seeds : SUBSET Scope,
                     excl : SUBSET (Name \cup Block), outage : BOOLEAN]
  <2>0. /\ Absent \in Row /\ Waiting \in Row /\ job \in [Job -> Row]
        /\ MaxActs \in Nat /\ MaxFaults \in Nat /\ acts \in 0..MaxActs /\ faults \in 0..MaxFaults
    BY EstateAssumption DEF Absent, Waiting, TypeOK
  <2>1. CASE ReadNames
    <3>1. \A d \in Domain : Apex[d] \in Name
      BY EstateAssumption
    <3>2. AdmittedNames \subseteq Name
      BY DEF TypeOK, AdmittedNames
    <3> QED
      BY <2>1, <3>1, <3>2 DEF ReadNames, TypeOK, spanVars, declareVars
  <2>2. CASE FanOutDNS
    <3>1. job' \in [Job -> Row]
      BY <2>0, <2>2 DEF FanOutDNS
    <3> QED
      BY <2>2, <3>1 DEF FanOutDNS, TypeOK, spanVars, declareVars
  <2>3. ASSUME NEW j \in Probe, FanOutHot(j) PROVE TypeOK'
    <3>1. job' \in [Job -> Row]
      BY <2>0, <2>3 DEF FanOutHot
    <3> QED
      BY <2>3, <3>1 DEF FanOutHot, TypeOK, spanVars, declareVars
  <2>4. ASSUME NEW j \in Job, NEW seen, Saw(j, seen), Complete(j, seen) PROVE TypeOK'
    <3>0. PICK own, known, named, ground, last \in Estates : Passes(j, seen, own, known, named, ground, last)
      BY <2>4, Completion
    <3>1. /\ res' = last.res /\ svc' = last.svc /\ prev' = last.prev /\ ever' = last.ever
          /\ tombs' = (tombs \ SpendNameSeedWithdrawals(named)) \ SpendSeedWithdrawals(ground)
      BY <3>0 DEF Passes
    <3>2. /\ res' \in [Name \X Vantage -> Resolution]
          /\ svc' \in [Address \X Vantage -> {"none", "up", "Outage"}]
          /\ prev' \in [Name \X Vantage -> SUBSET Address]
          /\ ever' \in [Name -> SUBSET Address]
      BY <3>1 DEF Estates
    <3>3. job' \in [Job -> Row]
      BY <2>0, <2>4 DEF Complete
    <3>4. tombs' \subseteq Scope /\ down' \subseteq Vantage
      BY <2>4, <3>1 DEF Complete, TypeOK
    <3> QED
      BY <2>4, <3>2, <3>3, <3>4 DEF Complete, TypeOK
  <2>5. ASSUME NEW j \in Job, BeginFold(j) PROVE TypeOK'
    <3> DEFINE r == [phase |-> "folding", seeds |-> seeds, excl |-> excl,
                     outage |-> j \in Probe /\ From(j) \in down]
    <3>1. r \in Row
      BY DEF TypeOK
    <3>2. job' \in [Job -> Row]
      BY <2>0, <2>5, <3>1 DEF BeginFold
    <3> QED
      BY <2>5, <3>2 DEF BeginFold, TypeOK, spanVars, declareVars
  <2>6. ASSUME NEW j \in Job, DeadLetter(j) PROVE TypeOK'
    <3>1. job' \in [Job -> Row] /\ faults' \in 0..MaxFaults
      BY <2>0, <2>6 DEF DeadLetter
    <3>2. /\ res' \in [Name \X Vantage -> Resolution]
          /\ svc' \in [Address \X Vantage -> {"none", "up", "Outage"}]
          /\ prev' \in [Name \X Vantage -> SUBSET Address]
          /\ ever' \in [Name -> SUBSET Address] /\ down' \subseteq Vantage
      <4>1. CASE j \in Walk
        <5>1. From(j) \in Vantage
          BY <4>1, JobsApart
        <5>2. MarkUnavailable(Estate, From(j)) \in Estates
          BY <5>1, EstateTyped, MarkUnavailableDowns
        <5>3. Write(MarkUnavailable(Estate, From(j))) /\ down' = down \cup {From(j)}
          BY <2>6, <4>1 DEF DeadLetter
        <5> QED
          BY <5>1, <5>2, <5>3 DEF Write, Estates, TypeOK
      <4>2. CASE j \notin Walk
        BY <2>6, <4>2 DEF DeadLetter, TypeOK, spanVars
      <4> QED
        BY <4>1, <4>2
    <3> QED
      BY <2>6, <3>1, <3>2 DEF DeadLetter, TypeOK, declareVars
  <2>7. ASSUME NEW j \in Job, LoseFold(j) PROVE TypeOK'
    <3>1. job' \in [Job -> Row] /\ faults' \in 0..MaxFaults
      BY <2>0, <2>7 DEF LoseFold
    <3> QED
      BY <2>7, <3>1 DEF LoseFold, TypeOK, spanVars, declareVars
  <2>8. CASE Operator
    <3>1. acts' \in 0..MaxActs
      BY <2>0, <2>8, OperatorRests
    <3> DEFINE Declared == /\ seeds' \subseteq Scope /\ tombs' \subseteq Scope /\ excl' \subseteq Name \cup Block
                           /\ admitted' \subseteq Name \X Domain /\ reached' \subseteq Address
    <3>2. Declared
      <4>1. ASSUME NEW s \in Scope, DeclareSeed(s) \/ WithdrawSeed(s) PROVE Declared
        BY <4>1 DEF DeclareSeed, WithdrawSeed, TypeOK, Act
      <4>2. ASSUME NEW x \in Excludable, DeclareExclusion(x) \/ Unexclude(x) PROVE Declared
        BY <4>2, EstateAssumption DEF DeclareExclusion, Unexclude, TypeOK, Act
      <4>3. ASSUME NEW a \in Address, ExtendCustody(a) PROVE Declared
        BY <4>3 DEF ExtendCustody, TypeOK, Act
      <4>4. ASSUME NEW n \in Name, NEW d \in Domain, Admit(n, d) PROVE Declared
        BY <4>4 DEF Admit, TypeOK, Act
      <4> QED
        BY <2>8, <4>1, <4>2, <4>3, <4>4 DEF Operator
    <3> QED
      BY <2>8, <3>1, <3>2, OperatorRests DEF TypeOK, spanVars
  <2>9. CASE UNCHANGED vars
    BY <2>9 DEF vars, spanVars, declareVars, TypeOK
  <2> QED
    BY <2>1, <2>2, <2>3, <2>4, <2>5, <2>6, <2>7, <2>8, <2>9, CompletionsSaw DEF Next
<1> QED
  BY <1>1, <1>2, PTL DEF Spec

-----------------------------------------------------------------------------
(* Outages.                                                                *)

\* Spans move and availability turns when a job completes or a walk is given up,
\* and at no other step.
LEMMA EveryEstateStep ==
    ASSUME TypeOK, [Next]_vars
    PROVE  \/ UNCHANGED <<spanVars, down>>
           \/ \E j \in Job : \E seen : Saw(j, seen) /\ Complete(j, seen)
           \/ \E j \in Walk : DeadLetter(j)
<1>1. ReadNames \/ FanOutDNS => UNCHANGED <<spanVars, down>>
  BY DEF ReadNames, FanOutDNS
<1>2. \A j \in Probe : FanOutHot(j) => UNCHANGED <<spanVars, down>>
  BY DEF FanOutHot
<1>3. \A j \in Job : BeginFold(j) \/ LoseFold(j) => UNCHANGED <<spanVars, down>>
  BY DEF BeginFold, LoseFold
<1>4. \A j \in Job : DeadLetter(j) => j \in Walk \/ UNCHANGED <<spanVars, down>>
  BY DEF DeadLetter
<1>5. Operator => UNCHANGED <<spanVars, down>>
  BY OperatorRests DEF spanVars
<1>6. UNCHANGED vars => UNCHANGED <<spanVars, down>>
  BY DEF vars
<1> QED
  BY <1>1, <1>2, <1>3, <1>4, <1>5, <1>6, CompletionsSaw DEF Next

\* While a vantage is unavailable its resolution timelines hold outage Gaps and
\* nothing else, and none outlives the outage (applyAvailability).
THEOREM OutageCorrect == Spec => []OutageIffDown
<1>1. Init => OutageIffDown
  BY TwoEnds DEF Init, OutageIffDown
<1>2. TypeOK /\ OutageIffDown /\ [Next]_vars => OutageIffDown'
  <2> SUFFICES ASSUME TypeOK, OutageIffDown, [Next]_vars,
                      NEW t \in Name \X Vantage
               PROVE  IF t[2] \in down' THEN res'[t] \in {Closed, Outage} ELSE res'[t] # Outage
    BY DEF OutageIffDown
  <2>0. IF t[2] \in down THEN res[t] \in {Closed, Outage} ELSE res[t] # Outage
    BY DEF OutageIffDown
  <2>1. CASE UNCHANGED <<spanVars, down>>
    BY <2>0, <2>1 DEF spanVars
  <2>2. ASSUME NEW j \in Job, NEW seen, Saw(j, seen), Complete(j, seen)
        PROVE  IF t[2] \in down' THEN res'[t] \in {Closed, Outage} ELSE res'[t] # Outage
    <3>0. PICK own, known, named, ground, last \in Estates : Passes(j, seen, own, known, named, ground, last)
      BY <2>2, Completion
    <3>1. /\ own.res[t] = IF j \in Walk /\ t[2] = From(j) /\ t[1] \in frozen THEN seen[t[1]] ELSE res[t]
          /\ Closes(own, known) /\ Closes(known, named) /\ Closes(named, ground) /\ Closes(ground, last)
          /\ j \in Walk /\ t[2] = From(j) => last.res[t] # Outage
          /\ res' = last.res
      BY <3>0 DEF Passes
    <3>2. res'[t] \in {Closed, own.res[t]}
      BY <3>1, ClosesOn DEF Closes
    <3>3. down' = IF j \in Walk THEN down \ {From(j)} ELSE down
      BY <2>2 DEF Complete
    <3> QED
      BY <2>0, <3>1, <3>2, <3>3, TwoEnds
  <2>3. ASSUME NEW j \in Walk, DeadLetter(j)
        PROVE  IF t[2] \in down' THEN res'[t] \in {Closed, Outage} ELSE res'[t] # Outage
    <3>1. /\ res' = MarkUnavailable(Estate, From(j)).res
          /\ down' = down \cup {From(j)}
      BY <2>3 DEF DeadLetter, Write
    <3>2. res'[t] = IF t[2] = From(j) /\ res[t] # Closed THEN Outage ELSE res[t]
      BY <3>1, JobsApart, EstateTyped, MarkUnavailableDowns
    <3> QED
      BY <2>0, <3>1, <3>2, TwoEnds
  <2> QED
    BY <2>1, <2>2, <2>3, EveryEstateStep
<1> QED
  BY <1>1, <1>2, EstateTypeCorrect, PTL DEF Spec

-----------------------------------------------------------------------------
(* Movers.                                                                 *)

\* A tombstone is spent only when its names are under another seed, or when
\* nothing of them is on the page and no walk is on its way.
LEMMA SpentSafely ==
    ASSUME TypeOK, NEW named \in Estates, NEW ground, NEW n \in Name,
           NameSeedCovered(n, seeds \cup tombs),
           tombs' = (tombs \ SpendNameSeedWithdrawals(named)) \ SpendSeedWithdrawals(ground),
           \/ \E t \in Name \X Vantage : t[1] = n /\ named.res[t] # Closed
           \/ \E w \in Walk : job[w] # Absent
    PROVE  NameSeedCovered(n, seeds \cup tombs')
<1>1. PICK d \in (seeds \cup tombs) \cap Domain : n \in NamesIn[d]
  BY DEF NameSeedCovered
<1>2. CASE d \in seeds
  BY <1>1, <1>2 DEF NameSeedCovered
<1>3. CASE d \in SpendNameSeedWithdrawals(named)
  <2>1. CASE \E s \in seeds \cap Domain : NamesIn[d] \subseteq NamesIn[s]
    BY <1>1, <2>1 DEF NameSeedCovered
  <2>2. CASE Timelines(named, n) = {} /\ \A w \in Walk : job[w] = Absent
    <3>1. DOMAIN named.res = Name \X Vantage
      BY DEF Estates
    <3> QED
      BY <2>2, <3>1 DEF Timelines
  <2> QED
    BY <1>1, <1>3, <2>1, <2>2 DEF SpendNameSeedWithdrawals
<1>4. CASE d \in tombs /\ d \notin SpendNameSeedWithdrawals(named)
  <2>1. d \notin SpendSeedWithdrawals(ground)
    BY <1>1, EstateAssumption DEF SpendSeedWithdrawals
  <2> QED
    BY <1>1, <1>4, <2>1 DEF NameSeedCovered
<1> QED
  BY <1>1, <1>2, <1>3, <1>4

\* More seeds and tombstones cover no less.
LEMMA CoverGrows ==
    ASSUME NEW n, NEW S, NEW U, S \subseteq U, NameSeedCovered(n, S)
    PROVE  NameSeedCovered(n, U)
  BY DEF NameSeedCovered

\* What a completion leaves on the page was there, or was on its way.
LEMMA ShownAfter ==
    ASSUME TypeOK, MoverInv, NEW j \in Job, NEW seen, Saw(j, seen), Complete(j, seen)
    PROVE  ShownHeld' /\ FrozenHeld'
<1>0. PICK own, known, named, ground, last \in Estates : Passes(j, seen, own, known, named, ground, last)
  BY Completion
<1>1. /\ \A t \in Name \X Vantage :
           own.res[t] = IF j \in Walk /\ t[2] = From(j) /\ t[1] \in frozen THEN seen[t[1]] ELSE res[t]
      /\ Closes(own, known) /\ Closes(known, named) /\ Closes(named, ground) /\ Closes(ground, last)
      /\ res' = last.res
      /\ tombs' = (tombs \ SpendNameSeedWithdrawals(named)) \ SpendSeedWithdrawals(ground)
  BY <1>0 DEF Passes
<1>2. /\ seeds' = seeds /\ frozen' = frozen /\ job' = [job EXCEPT ![j] = Absent]
      /\ job[j].phase = "folding"
  BY DEF Complete
<1>3. job[j] # Absent
  BY <1>2 DEF Absent
<1>4. ASSUME NEW t \in Name \X Vantage, res'[t] # Closed PROVE NameSeedCovered(t[1], seeds' \cup tombs')
  <2>1. named.res[t] # Closed /\ own.res[t] # Closed
    BY <1>1, <1>4, ClosesOn DEF Closes
  <2>2. NameSeedCovered(t[1], seeds \cup tombs)
    <3>1. CASE res[t] # Closed
      BY <3>1 DEF MoverInv, ShownHeld
    <3>2. CASE j \in Walk /\ t[1] \in frozen
      BY <1>3, <3>2 DEF MoverInv, FrozenHeld
    <3> QED
      BY <1>1, <2>1, <3>1, <3>2
  <2>3. t[1] \in Name
    OBVIOUS
  <2> QED
    BY <1>1, <1>2, <2>1, <2>2, <2>3, SpentSafely
<1>5. ASSUME NEW w \in Walk, job'[w] # Absent, NEW n \in frozen PROVE NameSeedCovered(n, seeds' \cup tombs')
  <2>1. job \in [Job -> {job[k] : k \in Job}] /\ w \in Job
    BY JobsApart DEF TypeOK
  <2>2. job[w] # Absent
    BY <1>2, <1>5, <2>1
  <2>3. NameSeedCovered(n, seeds \cup tombs) /\ n \in Name
    BY <2>2 DEF MoverInv, FrozenHeld, TypeOK
  <2> QED
    BY <1>1, <1>2, <2>2, <2>3, SpentSafely
<1> QED
  BY <1>2, <1>4, <1>5 DEF ShownHeld, FrozenHeld

\* MoverInv is inductive, as long as no withdrawal commits while a fan-out has
\* read its names and not yet enqueued their walks.
LEMMA MoverCorrect == ~Straddle => (Spec => []MoverInv)
<1> SUFFICES ASSUME ~Straddle PROVE Spec => []MoverInv
  OBVIOUS
<1>1. Init => MoverInv
  BY DEF Init, MoverInv, AdmittedHeld, DraftHeld, FrozenHeld, ShownHeld
<1>2. TypeOK /\ MoverInv /\ [Next]_vars => MoverInv'
  <2> SUFFICES ASSUME TypeOK, MoverInv, [Next]_vars PROVE MoverInv'
    OBVIOUS
  <2> USE DEF MoverInv
  <2>0. ASSUME UNCHANGED <<seeds, tombs, admitted>> PROVE AdmittedHeld'
    BY <2>0 DEF AdmittedHeld
  <2>1. CASE ReadNames
    <3>1. UNCHANGED <<spanVars, seeds, tombs, admitted, job, frozen>>
      BY <2>1 DEF ReadNames, declareVars
    <3>2. draft' = {Apex[d] : d \in seeds \cap Domain} \cup AdmittedNames
      BY <2>1 DEF ReadNames
    <3>3. \A d \in Domain : Apex[d] \in NamesIn[d]
      BY EstateAssumption
    <3>4. \A n \in AdmittedNames : NameSeedCovered(n, seeds)
      BY DEF AdmittedHeld, AdmittedNames, NameSeedCovered
    <3>5. \A d \in seeds \cap Domain : NameSeedCovered(Apex[d], seeds)
      BY <3>3 DEF NameSeedCovered
    <3>6. DraftHeld'
      BY <3>1, <3>2, <3>4, <3>5 DEF DraftHeld
    <3> QED
      BY <2>0, <3>1, <3>6 DEF FrozenHeld, ShownHeld, spanVars
  <2>2. CASE FanOutDNS
    <3>1. UNCHANGED <<spanVars, seeds, tombs, admitted>> /\ frozen' = draft /\ draft' = {}
      BY <2>2 DEF FanOutDNS, declareVars
    <3>2. \A n \in draft : NameSeedCovered(n, seeds \cup tombs)
      BY CoverGrows DEF DraftHeld
    <3> QED
      BY <2>0, <3>1, <3>2 DEF DraftHeld, FrozenHeld, ShownHeld, spanVars
  <2>3. ASSUME NEW j \in Job, UNCHANGED <<spanVars, seeds, tombs, admitted, draft, frozen>>,
               NEW r, job' = [job EXCEPT ![j] = r], r # Absent /\ j \in Walk => job[j] # Absent
        PROVE  MoverInv'
    <3>1. \A w \in Walk : job'[w] # Absent => job[w] # Absent
      BY <2>3, JobsApart DEF TypeOK
    <3> QED
      BY <2>0, <2>3, <3>1 DEF DraftHeld, FrozenHeld, ShownHeld, spanVars
  <2>4. ASSUME NEW j \in Probe, FanOutHot(j) PROVE MoverInv'
    BY <2>3, <2>4, JobsApart DEF FanOutHot, declareVars
  <2>5. ASSUME NEW j \in Job, NEW seen, Saw(j, seen), Complete(j, seen) PROVE MoverInv'
    <3>1. UNCHANGED <<seeds, admitted, draft>>
      BY <2>5 DEF Complete
    <3>2. ShownHeld' /\ FrozenHeld'
      BY <2>5, ShownAfter
    <3> QED
      BY <3>1, <3>2 DEF AdmittedHeld, DraftHeld
  <2>6. ASSUME NEW j \in Job, BeginFold(j) PROVE MoverInv'
    <3>1. job[j] # Absent /\ UNCHANGED <<spanVars, seeds, tombs, admitted, draft, frozen>>
      BY <2>6 DEF BeginFold, declareVars, Absent
    <3>2. PICK r : job' = [job EXCEPT ![j] = r]
      BY <2>6 DEF BeginFold
    <3> QED
      BY <2>3, <3>1, <3>2
  <2>7. ASSUME NEW j \in Job, LoseFold(j) PROVE MoverInv'
    <3>1. job[j] # Absent /\ UNCHANGED <<spanVars, seeds, tombs, admitted, draft, frozen>>
      BY <2>7 DEF LoseFold, declareVars, Absent
    <3>2. PICK r : job' = [job EXCEPT ![j] = r]
      BY <2>7 DEF LoseFold
    <3> QED
      BY <2>3, <3>1, <3>2
  <2>8. ASSUME NEW j \in Job, DeadLetter(j) PROVE MoverInv'
    <3>1. UNCHANGED <<seeds, tombs, admitted, draft, frozen>> /\ job' = [job EXCEPT ![j] = Absent]
      BY <2>8 DEF DeadLetter, declareVars
    <3>2. \A w \in Walk : job'[w] # Absent => job[w] # Absent
      BY <3>1, JobsApart DEF TypeOK
    <3>3. \A t \in Name \X Vantage : res'[t] # Closed => res[t] # Closed
      <4>1. CASE j \in Walk
        <5>1. res' = MarkUnavailable(Estate, From(j)).res
          BY <2>8, <4>1 DEF DeadLetter, Write
        <5> QED
          BY <4>1, <5>1, JobsApart, EstateTyped, MarkUnavailableDowns
      <4>2. CASE j \notin Walk
        BY <2>8, <4>2 DEF DeadLetter, spanVars
      <4> QED
        BY <4>1, <4>2
    <3> QED
      BY <2>0, <3>1, <3>2, <3>3 DEF DraftHeld, FrozenHeld, ShownHeld
  <2>9. CASE Operator
    <3>1. UNCHANGED <<spanVars, draft, job, frozen>>
      BY <2>9, OperatorRests
    <3>2. /\ seeds \cup tombs \subseteq seeds' \cup tombs'
          /\ seeds \subseteq seeds' \/ draft = {}
          /\ \A p \in admitted' : p[2] \in seeds' \cap Domain /\ p[1] \in NamesIn[p[2]]
      <4> DEFINE Kept == /\ seeds \cup tombs \subseteq seeds' \cup tombs'
                         /\ seeds \subseteq seeds' \/ draft = {}
                         /\ \A p \in admitted' : p[2] \in seeds' \cap Domain /\ p[1] \in NamesIn[p[2]]
      <4>1. ASSUME NEW x \in Scope, DeclareSeed(x) PROVE Kept
        BY <4>1 DEF DeclareSeed, AdmittedHeld
      <4>2. ASSUME NEW x \in Scope, WithdrawSeed(x) PROVE Kept
        BY <4>2 DEF WithdrawSeed, AdmittedHeld
      <4>3. ASSUME NEW x \in Excludable, DeclareExclusion(x) \/ Unexclude(x) PROVE Kept
        BY <4>3 DEF DeclareExclusion, Unexclude, AdmittedHeld
      <4>4. ASSUME NEW a \in Address, ExtendCustody(a) PROVE Kept
        BY <4>4 DEF ExtendCustody, AdmittedHeld
      <4>5. ASSUME NEW n \in Name, NEW d \in Domain, Admit(n, d) PROVE Kept
        BY <4>5 DEF Admit, AdmittedHeld
      <4> QED
        BY <2>9, <4>1, <4>2, <4>3, <4>4, <4>5 DEF Operator
    <3>3. DraftHeld'
      BY <3>1, <3>2, CoverGrows DEF DraftHeld
    <3>4. FrozenHeld' /\ ShownHeld'
      BY <3>1, <3>2, CoverGrows DEF FrozenHeld, ShownHeld, spanVars
    <3> QED
      BY <3>2, <3>3, <3>4 DEF AdmittedHeld
  <2>10. CASE UNCHANGED vars
    BY <2>0, <2>10 DEF vars, spanVars, declareVars, DraftHeld, FrozenHeld, ShownHeld
  <2> QED
    BY <2>1, <2>2, <2>4, <2>5, <2>6, <2>7, <2>8, <2>9, <2>10, CompletionsSaw DEF Next
<1> QED
  BY <1>1, <1>2, EstateTypeCorrect, PTL DEF Spec

\* A name on the page is declared, or a tombstone is left that will take it off
\* (SpendNameSeedWithdrawals), as long as no withdrawal straddles a fan-out.
THEOREM MoverStands == ~Straddle => (Spec => []GroundHasMover)
<1> SUFFICES ASSUME ~Straddle PROVE Spec => []GroundHasMover
  OBVIOUS
<1>1. TypeOK /\ MoverInv => GroundHasMover
  <2>1. TypeOK => DOMAIN res = Name \X Vantage
    BY DEF TypeOK
  <2> QED
    BY <2>1 DEF MoverInv, ShownHeld, GroundHasMover, Timelines, Estate
<1> QED
  BY <1>1, EstateTypeCorrect, MoverCorrect, PTL

-----------------------------------------------------------------------------
(* Citations.                                                              *)

\* No timeline of an estate holds a citation of an address, a Gap's included.
Uncites(E, a) == \A u \in Name \X Vantage : ~Cites(E, u, a)

\* Closing cites nothing new.
LEMMA UncitesStays ==
    ASSUME NEW E, NEW F, NEW a, Closes(E, F), Uncites(E, a)
    PROVE  Uncites(F, a)
  BY TwoEnds DEF Closes, Uncites, Cites

\* Timelines of names and of services are different ground.
LEMMA GroundsApart ==
    ASSUME NEW t \in Address \X Vantage
    PROVE  t \notin Name \X Vantage
<1>1. t[1] \in Address /\ Name \cap Address = {}
  BY EstateAssumption
<1> QED
  BY <1>1

\* A service that a stage closes after its names lost an address is uncited
\* (uncitedAddresses).
LEMMA UncitedStage ==
    ASSUME NEW E \in Estates, NEW T \in SUBSET (Name \X Vantage), NEW N, NEW in,
           NEW t \in Address \X Vantage, E.svc[t] # "none",
           LET C == CloseSpans(E, T)
           IN  CloseSpans(C, Beneath(C, UncitedAddresses(C, N, in))).svc[t] = "none"
    PROVE  LET C == CloseSpans(E, T)
           IN  Uncites(CloseSpans(C, Beneath(C, UncitedAddresses(C, N, in))), t[1])
<1> DEFINE C == CloseSpans(E, T)
           U == UncitedAddresses(C, N, in)
           F == CloseSpans(C, Beneath(C, U))
<1>1. C \in Estates /\ C.svc[t] = E.svc[t]
  BY CloseSpansCloses, GroundsApart
<1> HIDE DEF C
<1>2. F.svc[t] = (IF t \in Beneath(C, U) THEN "none" ELSE C.svc[t]) /\ Closes(C, F)
  BY <1>1, CloseSpansCloses
<1>3. F.svc[t] = "none"
  BY DEF C
<1>4. t[1] \in U
  BY <1>1, <1>2, <1>3 DEF Beneath
<1>5. Citers(C, t[1]) = {} /\ DOMAIN C.res = Name \X Vantage
  BY <1>1, <1>4 DEF UncitedAddresses, Estates
<1>6. Uncites(C, t[1])
  BY <1>5 DEF Citers, Uncites
<1> QED
  BY <1>2, <1>6, UncitesStays DEF C

\* The four stages close a service for being uncited, excluded or withdrawn.
LEMMA WhyClosed ==
    ASSUME NEW E \in Estates, NEW seen, NEW in, NEW t \in Address \X Vantage, E.svc[t] # "none"
    PROVE  /\ FoldEstateTransitions(E, seen, in).svc[t] = "none" =>
                Uncites(FoldEstateTransitions(E, seen, in), t[1])
           /\ FoldNameSeedWithdrawals(E, in).svc[t] = "none" =>
                Uncites(FoldNameSeedWithdrawals(E, in), t[1])
           /\ FoldAddressExclusions(E, in).svc[t] = "none" => AddressExcluded(t[1], excl)
           /\ FoldSeedWithdrawals(E, in).svc[t] = "none" => AddressSeedCovered(t[1], tombs)
<1>1. DOMAIN E.res = Name \X Vantage
  BY DEF Estates
<1>2. \A n : Timelines(E, n) \subseteq Name \X Vantage
  BY <1>1 DEF Timelines
<1>3. FoldEstateTransitions(E, seen, in).svc[t] = "none" =>
        Uncites(FoldEstateTransitions(E, seen, in), t[1])
  <2> DEFINE T == UNION {Timelines(E, n) : n \in {m \in DOMAIN seen : DecideNameDeparture(E, m, in)}}
             N == {m \in DOMAIN seen : DecideNameDeparture(E, m, in)}
                    \cup (DOMAIN seen \ {m \in DOMAIN seen : IsGap(seen[m])})
             C == CloseSpans(E, T)
  <2>1. T \in SUBSET (Name \X Vantage)
    BY <1>2
  <2>2. FoldEstateTransitions(E, seen, in) = CloseSpans(C, Beneath(C, UncitedAddresses(C, N, in)))
    BY DEF FoldEstateTransitions
  <2> HIDE DEF T, N
  <2> QED
    BY <2>1, <2>2, UncitedStage
<1>4. FoldNameSeedWithdrawals(E, in).svc[t] = "none" =>
        Uncites(FoldNameSeedWithdrawals(E, in), t[1])
  <2> DEFINE N == {n \in UNION {NamesIn[d] : d \in tombs \cap Domain} :
                     ~NameSeedCovered(n, in.seeds) /\ n \notin AdmittedNames /\ Timelines(E, n) # {}}
             T == UNION {Timelines(E, n) : n \in N}
             C == CloseSpans(E, T)
  <2>1. T \in SUBSET (Name \X Vantage)
    BY <1>2
  <2>2. FoldNameSeedWithdrawals(E, in) = CloseSpans(C, Beneath(C, UncitedAddresses(C, N, in)))
    BY DEF FoldNameSeedWithdrawals
  <2> HIDE DEF T, N
  <2> QED
    BY <2>1, <2>2, UncitedStage
<1>5. \A A : CloseSpans(E, Beneath(E, A)).svc[t] = "none" => t[1] \in A
  BY CloseSpansCloses DEF Beneath
<1>6. FoldAddressExclusions(E, in).svc[t] = "none" => AddressExcluded(t[1], excl)
  BY <1>5 DEF FoldAddressExclusions
<1>7. FoldSeedWithdrawals(E, in).svc[t] = "none" => AddressSeedCovered(t[1], tombs)
  BY <1>5 DEF FoldSeedWithdrawals
<1> QED
  BY <1>3, <1>4, <1>6, <1>7

\* A service closes as uncited only when no name's last decided resolution cites
\* its address, however many Gaps were folded over it (uncitedAddresses).
THEOREM CitationsHeld == Spec => GapsHoldCitations
<1>1. TypeOK /\ [Next]_vars =>
        [\A t \in Address \X Vantage :
           /\ svc[t] # "none" /\ svc'[t] = "none"
           /\ ~AddressExcluded(t[1], excl) /\ ~AddressSeedCovered(t[1], tombs)
           => \A u \in Name \X Vantage :
                 /\ t[1] \notin res'[u].cites
                 /\ IsGap(res'[u]) => t[1] \notin prev'[u]]_vars
  <2> SUFFICES ASSUME TypeOK, [Next]_vars, NEW t \in Address \X Vantage,
                      svc[t] # "none", svc'[t] = "none",
                      ~AddressExcluded(t[1], excl), ~AddressSeedCovered(t[1], tombs),
                      NEW u \in Name \X Vantage
               PROVE  t[1] \notin res'[u].cites /\ (IsGap(res'[u]) => t[1] \notin prev'[u])
    OBVIOUS
  <2>1. CASE UNCHANGED <<spanVars, down>>
    BY <2>1 DEF spanVars
  <2>2. ASSUME NEW j \in Job, NEW seen, Saw(j, seen), Complete(j, seen)
        PROVE  t[1] \notin res'[u].cites /\ (IsGap(res'[u]) => t[1] \notin prev'[u])
    <3>0. PICK own, known, named, ground, last \in Estates : Passes(j, seen, own, known, named, ground, last)
      BY <2>2, Completion
    <3>1. /\ \A x \in Address \X Vantage : own.svc[x] \in {svc[x], "up"}
          /\ known = FoldEstateTransitions(own, seen, job[j])
          /\ named = FoldNameSeedWithdrawals(known, job[j]) /\ Closes(known, named)
          /\ ground = FoldSeedWithdrawals(FoldAddressExclusions(named, job[j]), job[j]) /\ Closes(named, ground)
          /\ Closes(ground, last) /\ last.svc = ground.svc
          /\ res' = last.res /\ svc' = last.svc /\ prev' = last.prev
      BY <3>0 DEF Passes
    <3>2. PICK excluded \in Estates : excluded = FoldAddressExclusions(named, job[j])
      BY StagesClose DEF Closes
    <3>3. own.svc[t] # "none" /\ ground.svc[t] = "none"
      BY <3>1
    <3>4. excluded.svc[t] = "none"
      <4>1. ground = FoldSeedWithdrawals(excluded, job[j])
        BY <3>1, <3>2
      <4> QED
        BY <3>3, <4>1, WhyClosed
    <3>5. named.svc[t] = "none"
      BY <3>2, <3>4, WhyClosed
    <3>6. Uncites(named, t[1])
      <4>1. CASE known.svc[t] = "none"
        BY <3>1, <3>3, <4>1, WhyClosed, UncitesStays
      <4>2. CASE known.svc[t] # "none"
        BY <3>1, <3>5, <4>2, WhyClosed
      <4> QED
        BY <4>1, <4>2
    <3>7. Uncites(last, t[1])
      BY <3>1, <3>6, UncitesStays
    <3> QED
      BY <3>1, <3>7 DEF Uncites, Cites
  <2>3. ASSUME NEW j \in Walk, DeadLetter(j) PROVE FALSE
    <3>1. svc' = MarkUnavailable(Estate, From(j)).svc
      BY <2>3 DEF DeadLetter, Write
    <3>2. Estate \in Estates /\ Estate.svc = svc /\ From(j) \in Vantage
      BY JobsApart, EstateTyped
    <3>3. svc'[t] = IF t[2] = From(j) /\ Estate.svc[t] # "none" THEN "Outage" ELSE Estate.svc[t]
      BY <3>1, <3>2, MarkUnavailableDowns
    <3> QED
      BY <3>2, <3>3
  <2> QED
    BY <2>1, <2>2, <2>3, EveryEstateStep
<1> QED
  BY <1>1, EstateTypeCorrect, PTL DEF Spec, GapsHoldCitations

-----------------------------------------------------------------------------
(* Previews.                                                               *)

\* The inputs a fold that begins now reads.
Inputs == [seeds |-> seeds, excl |-> excl]

\* The timelines the next fold closes for a withdrawn domain, and the services it
\* closes for a withdrawn block, if nothing moves before it.
NamesClosedNext ==
    \A t \in Name \X Vantage :
        FoldNameSeedWithdrawals(Estate, Inputs).res[t] =
            IF /\ res[t] # Closed
               /\ \E d \in tombs \cap Domain : t[1] \in NamesIn[d]
               /\ ~NameSeedCovered(t[1], seeds) /\ t[1] \notin AdmittedNames
            THEN Closed ELSE res[t]
ServicesClosedNext ==
    \A t \in Address \X Vantage :
        FoldSeedWithdrawals(Estate, Inputs).svc[t] =
            IF /\ AddressSeedCovered(t[1], tombs) /\ ~CitedNow(Estate, t[1])
               /\ ~AddressSeedCovered(t[1], seeds) /\ ~Derive(t[1])
            THEN "none" ELSE svc[t]

\* That is what the two stages do (foldNameSeedWithdrawals, foldSeedWithdrawals).
LEMMA ClosedNext == TypeOK => NamesClosedNext /\ ServicesClosedNext
<1> SUFFICES ASSUME TypeOK PROVE NamesClosedNext /\ ServicesClosedNext
  OBVIOUS
<1>1. /\ Estate \in Estates /\ Estate.res = res /\ Estate.svc = svc
      /\ DOMAIN res = Name \X Vantage /\ DOMAIN svc = Address \X Vantage
  BY EstateTyped DEF TypeOK
<1>2. NamesClosedNext
  <2> DEFINE N == {n \in UNION {NamesIn[d] : d \in tombs \cap Domain} :
                     ~NameSeedCovered(n, seeds) /\ n \notin AdmittedNames /\ Timelines(Estate, n) # {}}
             T == UNION {Timelines(Estate, n) : n \in N}
             C == CloseSpans(Estate, T)
             A == UncitedAddresses(C, N, Inputs)
  <2>1. FoldNameSeedWithdrawals(Estate, Inputs) = CloseSpans(C, Beneath(C, A))
    BY DEF FoldNameSeedWithdrawals, Inputs
  <2>2. C \in Estates /\ \A t \in Name \X Vantage : C.res[t] = IF t \in T THEN Closed ELSE res[t]
    BY <1>1, CloseSpansCloses
  <2>3. \A t \in Name \X Vantage :
          t \in T <=> /\ res[t] # Closed
                      /\ \E d \in tombs \cap Domain : t[1] \in NamesIn[d]
                      /\ ~NameSeedCovered(t[1], seeds) /\ t[1] \notin AdmittedNames
    BY <1>1 DEF Timelines
  <2> HIDE DEF C, T, A
  <2>4. DOMAIN C.svc = Address \X Vantage
    BY <2>2 DEF Estates
  <2>5. \A t \in Name \X Vantage : t \notin Beneath(C, A)
    BY <2>4, GroundsApart DEF Beneath
  <2>6. \A t \in Name \X Vantage : CloseSpans(C, Beneath(C, A)).res[t] = C.res[t]
    BY <2>2, <2>5, CloseSpansCloses
  <2> QED
    BY <2>1, <2>2, <2>3, <2>6 DEF NamesClosedNext
<1>3. ServicesClosedNext
  <2> DEFINE A == {a \in Address : /\ AddressSeedCovered(a, tombs) /\ ~CitedNow(Estate, a)
                                   /\ ~AddressSeedCovered(a, seeds) /\ ~Derive(a)}
  <2>1. FoldSeedWithdrawals(Estate, Inputs) = CloseSpans(Estate, Beneath(Estate, A))
    BY DEF FoldSeedWithdrawals, Inputs
  <2>2. \A t \in Address \X Vantage : t \in Beneath(Estate, A) <=> t[1] \in A
    BY <1>1 DEF Beneath
  <2>3. \A t \in Address \X Vantage : CloseSpans(Estate, Beneath(Estate, A)).svc[t] =
          IF t[1] \in A THEN "none" ELSE svc[t]
    BY <1>1, <2>2, CloseSpansCloses
  <2> QED
    BY <2>1, <2>3 DEF ServicesClosedNext
<1> QED
  BY <1>2, <1>3

\* A seed leaves by the operator's withdrawal alone.
LEMMA SeedsLeave ==
    ASSUME [Next]_vars, NEW s \in seeds \ seeds'
    PROVE  WithdrawSeed(s)
<1>1. ReadNames \/ FanOutDNS \/ UNCHANGED vars => seeds' = seeds
  BY DEF ReadNames, FanOutDNS, vars, declareVars
<1>2. \A j \in Probe : FanOutHot(j) \/ CompleteProbe(j) => seeds' = seeds
  BY DEF FanOutHot, CompleteProbe, Complete, declareVars
<1>3. \A j \in Walk : CompleteWalk(j) => seeds' = seeds
  BY DEF CompleteWalk, Complete
<1>4. \A j \in Job : BeginFold(j) \/ DeadLetter(j) \/ LoseFold(j) => seeds' = seeds
  BY DEF BeginFold, DeadLetter, LoseFold, declareVars
<1>5. Operator
  BY <1>1, <1>2, <1>3, <1>4 DEF Next
<1>6. \A x \in Scope : DeclareSeed(x) => s \in seeds'
  BY DEF DeclareSeed
<1>7. \A x \in Scope : WithdrawSeed(x) => x = s
  BY DEF WithdrawSeed
<1>8. /\ \A x \in Excludable : DeclareExclusion(x) \/ Unexclude(x) => seeds' = seeds
      /\ \A a \in Address : ExtendCustody(a) => seeds' = seeds
      /\ \A n \in Name, d \in Domain : Admit(n, d) => seeds' = seeds
  BY DEF DeclareExclusion, Unexclude, ExtendCustody, Admit
<1> QED
  BY <1>5, <1>6, <1>7, <1>8 DEF Operator

\* The receipt the operator confirms is what the withdrawal then closes, if
\* nothing moves in between (nameSeedWithdrawalReceipt, seedWithdrawalReceipt).
THEOREM PreviewCorrect == Spec => PreviewIsTheAct
<1> DEFINE Preview(s) ==
        /\ s \in Domain /\ tombs = {} =>
             NameSeedWithdrawalReceipt(s) =
                {t \in Name \X Vantage : res[t] # FoldNameSeedWithdrawals(Estate, Inputs)'.res[t]}
        /\ s \in Block /\ tombs = {} =>
             SeedWithdrawalReceipt(s) =
                {t \in Address \X Vantage : svc[t] # FoldSeedWithdrawals(Estate, Inputs)'.svc[t]}
<1>1. (TypeOK => NamesClosedNext /\ ServicesClosedNext)'
  BY ClosedNext, PTL
<1>2. TypeOK /\ TypeOK' /\ [Next]_vars => \A s \in seeds \ seeds' : Preview(s)
  <2> SUFFICES ASSUME TypeOK, TypeOK', [Next]_vars, NEW s \in seeds \ seeds', tombs = {} PROVE Preview(s)
    OBVIOUS
  <2>1. /\ UNCHANGED <<res, svc, reached, excl>> /\ Estate' = Estate
        /\ seeds' = seeds \ {s} /\ tombs' = {s} /\ admitted' = {p \in admitted : p[2] # s}
    BY SeedsLeave DEF WithdrawSeed, spanVars, Estate
  <2>2. /\ Estate.res = res /\ Estate.svc = svc
        /\ DOMAIN res = Name \X Vantage /\ DOMAIN svc = Address \X Vantage
    BY EstateTyped DEF TypeOK
  <2>3. ASSUME s \in Domain
        PROVE  NameSeedWithdrawalReceipt(s) =
                 {t \in Name \X Vantage : res[t] # FoldNameSeedWithdrawals(Estate, Inputs)'.res[t]}
    <3>1. \A t \in Name \X Vantage :
            res[t] # FoldNameSeedWithdrawals(Estate, Inputs)'.res[t] <=>
              /\ res[t] # Closed
              /\ t[1] \in NamesIn[s]
              /\ ~NameSeedCovered(t[1], seeds \ {s}) /\ t[1] \notin AdmittedNames'
      BY <1>1, <2>1, <2>3 DEF NamesClosedNext
    <3>2. \A n : n \notin AdmittedNames' <=> \A p \in admitted : p[1] = n => p[2] = s
      BY <2>1 DEF AdmittedNames
    <3>3. \A t : t \in NameSeedWithdrawalReceipt(s) <=>
            /\ t \in Name \X Vantage /\ res[t] # Closed /\ t[1] \in NamesIn[s]
            /\ ~NameSeedCovered(t[1], seeds \ {s})
            /\ \A p \in admitted : p[1] = t[1] => p[2] = s
      BY <2>2 DEF NameSeedWithdrawalReceipt, Timelines
    <3> QED
      BY <3>1, <3>2, <3>3
  <2>4. ASSUME s \in Block
        PROVE  SeedWithdrawalReceipt(s) =
                 {t \in Address \X Vantage : svc[t] # FoldSeedWithdrawals(Estate, Inputs)'.svc[t]}
    <3>1. \A a : AddressSeedCovered(a, {s}) <=> a \in AddrsIn[s]
      BY <2>4 DEF AddressSeedCovered
    <3>2. \A a : ~AddressSeedCovered(a, seeds \ {s}) => (Derive(a)' <=> a \in reached)
      BY <2>1 DEF Derive
    <3>3. \A t \in Address \X Vantage :
            svc[t] # FoldSeedWithdrawals(Estate, Inputs)'.svc[t] <=>
              /\ svc[t] # "none"
              /\ t[1] \in AddrsIn[s] /\ ~CitedNow(Estate, t[1])
              /\ ~AddressSeedCovered(t[1], seeds \ {s}) /\ t[1] \notin reached
      BY <1>1, <2>1, <3>1, <3>2 DEF ServicesClosedNext
    <3>4. \A t : t \in SeedWithdrawalReceipt(s) <=>
            /\ t \in Address \X Vantage /\ svc[t] # "none"
            /\ t[1] \in AddrsIn[s] /\ ~CitedNow(Estate, t[1])
            /\ ~AddressSeedCovered(t[1], seeds \ {s}) /\ t[1] \notin reached
      BY <2>2 DEF SeedWithdrawalReceipt, Beneath
    <3> QED
      BY <3>3, <3>4
  <2> QED
    BY <2>3, <2>4
<1>3. TypeOK /\ TypeOK' /\ [Next]_vars =>
        [\A s \in seeds \ seeds' :
           LET in == [seeds |-> seeds, excl |-> excl]
           IN  /\ s \in Domain /\ tombs = {} =>
                    NameSeedWithdrawalReceipt(s) =
                       {t \in Name \X Vantage : res[t] # FoldNameSeedWithdrawals(Estate, in)'.res[t]}
               /\ s \in Block /\ tombs = {} =>
                    SeedWithdrawalReceipt(s) =
                       {t \in Address \X Vantage : svc[t] # FoldSeedWithdrawals(Estate, in)'.svc[t]}]_vars
  BY <1>2 DEF Inputs
<1> QED
  BY <1>3, EstateTypeCorrect, PTL DEF Spec, PreviewIsTheAct
=============================================================================
