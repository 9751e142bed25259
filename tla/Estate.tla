-------------------------------- MODULE Estate --------------------------------
(***************************************************************************)
(* The estate on the page is the set of open spans, and a completed job is *)
(* the only thing that moves it.  One transaction folds what the job       *)
(* observed into the timelines, decides which names have departed, which   *)
(* addresses nobody cites any more, and which ground the operator has      *)
(* since withdrawn or excluded; a dead-lettered walk instead replaces all  *)
(* its vantage held by outage Gaps.                                        *)
(*                                                                         *)
(* The fold reads the declared seeds, the exclusions and the availability  *)
(* of its vantage once, early (BeginFold), and decides with them at the    *)
(* end (Complete): the operator acts in between, and so do other folds.    *)
(* A job's targets are frozen when it is enqueued, so a job may come back  *)
(* from ground that is no longer declared.                                 *)
(***************************************************************************)
EXTENDS Naturals, FiniteSets

CONSTANTS
    Name, Address, Vantage,
    Domain, Block,    \* the scopes a seed can declare: name domains, address blocks
    Apex,             \* the name a domain's own walk resolves
    NamesIn,          \* the names within a domain
    AddrsIn,          \* the addresses within a block
    Excludable,       \* the names and blocks an exclusion may name
    Outcome,          \* resolution outcomes other than an answer that a walk reports
    MaxActs,          \* bound on the operator's acts in a behaviour
    MaxFaults,        \* bound on dead letters and lost probes in a behaviour
    Straddle          \* whether a withdrawal may commit inside a fan-out's transaction

Scope == Domain \cup Block
Walk  == {"walk"} \X Vantage             \* one resolution-walk job per vantage
Probe == {"probe"} \X Address \X Vantage \* one port-probe job per address and vantage
Job   == Walk \cup Probe
From(j) == IF j \in Walk THEN j[2] ELSE j[3]

ASSUME EstateAssumption ==
    /\ Apex \in [Domain -> Name]
    /\ NamesIn \in [Domain -> SUBSET Name]
    /\ \A d \in Domain : Apex[d] \in NamesIn[d]
    /\ AddrsIn \in [Block -> SUBSET Address]
    /\ Domain \cap Block = {} /\ Name \cap Address = {}
    /\ Excludable \subseteq Name \cup Block
    /\ Outcome \subseteq {"NameError", "Shadowed", "Lame", "Gap"}
    /\ MaxActs \in Nat /\ MaxFaults \in Nat /\ Straddle \in BOOLEAN

(* A resolution span's value: its outcome and the addresses it cites.  An   *)
(* outage Gap is the Gap the vantage's dead letter wrote, cause and all.    *)
Resolution ==
    {[is |-> "Resolved", cites |-> A] : A \in (SUBSET Address) \ {{}}}
        \cup {[is |-> o, cites |-> {}] : o \in Outcome \cup {"Outage", "none"}}
Closed == [is |-> "none", cites |-> {}]
Outage == [is |-> "Outage", cites |-> {}]
IsGap(r) == r.is \in {"Gap", "Outage"}

VARIABLES
    res,        \* the open resolution span of a name at a vantage
    svc,        \* the open service span of an address at a vantage
    prev,       \* what the timeline's last closed span that is no Gap cited
    ever,       \* every address a name's resolution spans have cited
    seeds,      \* declared scopes
    excl,       \* excluded names and blocks
    tombs,      \* pending seed withdrawals
    admitted,   \* names a certificate log or a zone admitted, with the seed they hang on
    reached,    \* addresses the custody extension derives as the operator's
    down,       \* vantages whose availability is 'unavailable'
    draft,      \* the names an open fan-out transaction has read; {} when none is open
    job,        \* none, ready, or the inputs its completing fold has read
    frozen,     \* the names of the queued walks, fixed at their fan-out
    acts, faults

spanVars    == <<res, svc, prev, ever>>
declareVars == <<seeds, excl, tombs, admitted, reached>>
vars == <<spanVars, declareVars, down, draft, job, frozen, acts, faults>>

Waiting == [phase |-> "ready", seeds |-> {}, excl |-> {}, outage |-> FALSE]
Absent  == [phase |-> "none", seeds |-> {}, excl |-> {}, outage |-> FALSE]

TypeOK ==
    /\ res \in [Name \X Vantage -> Resolution]
    /\ svc \in [Address \X Vantage -> {"none", "up", "Outage"}]
    /\ prev \in [Name \X Vantage -> SUBSET Address]
    /\ ever \in [Name -> SUBSET Address]
    /\ seeds \subseteq Scope /\ tombs \subseteq Scope /\ excl \subseteq Name \cup Block
    /\ admitted \subseteq Name \X Domain
    /\ reached \subseteq Address
    /\ down \subseteq Vantage
    /\ draft \subseteq Name /\ frozen \subseteq Name
    /\ job \in [Job -> [phase : {"none", "ready", "folding"}, seeds : SUBSET Scope,
                        excl : SUBSET (Name \cup Block), outage : BOOLEAN]]
    /\ acts \in 0..MaxActs /\ faults \in 0..MaxFaults

Init ==
    /\ res = [t \in Name \X Vantage |-> Closed]
    /\ svc = [t \in Address \X Vantage |-> "none"]
    /\ prev = [t \in Name \X Vantage |-> {}]
    /\ ever = [n \in Name |-> {}]
    /\ seeds = Scope /\ excl = {} /\ tombs = {} /\ admitted = {} /\ reached = {}
    /\ down = {} /\ draft = {} /\ frozen = {}
    /\ job = [j \in Job |-> Absent]
    /\ acts = 0 /\ faults = 0

-----------------------------------------------------------------------------
(* What is declared about a subject, in the inputs a fold or a page has read. *)

NameSeedCovered(n, S) == \E d \in S \cap Domain : n \in NamesIn[d]
AddressSeedCovered(a, S) == \E b \in S \cap Block : a \in AddrsIn[b]
AddressExcluded(a, X) == \E b \in X \cap Block : a \in AddrsIn[b]
AdmittedNames == {p[1] : p \in admitted}

Derive(a) == (AddressSeedCovered(a, seeds) /\ ~AddressExcluded(a, excl)) \/ a \in reached

(* Fan-out.  The dns scan reads its names and enqueues a walk per vantage in *)
(* one transaction; the address tiers enqueue a probe per address they may   *)
(* reach.  A scan whose last tick is unfinished starts no other.             *)

ReadNames ==
    /\ draft = {} /\ \A j \in Walk : job[j] = Absent
    /\ draft' = {Apex[d] : d \in seeds \cap Domain} \cup AdmittedNames
    /\ draft' # {}
    /\ UNCHANGED <<spanVars, declareVars, down, job, frozen, acts, faults>>

FanOutDNS ==
    /\ draft # {}
    /\ frozen' = draft /\ draft' = {}
    /\ job' = [j \in Job |-> IF j \in Walk THEN Waiting ELSE job[j]]
    /\ UNCHANGED <<spanVars, declareVars, down, acts, faults>>

FanOutHot(j) ==
    /\ job[j] = Absent
    /\ Derive(j[2])
    /\ job' = [job EXCEPT ![j] = Waiting]
    /\ UNCHANGED <<spanVars, declareVars, down, draft, frozen, acts, faults>>

-----------------------------------------------------------------------------
(* The completing transaction.  Its stages take and return an estate         *)
(* [res, svc, prev, ever]; each reads what the stage before it wrote.        *)

BeginFold(j) ==
    /\ job[j].phase = "ready"
    /\ job' = [job EXCEPT ![j] = [phase |-> "folding", seeds |-> seeds, excl |-> excl,
                                  outage |-> j \in Probe /\ From(j) \in down]]
    /\ UNCHANGED <<spanVars, declareVars, down, draft, frozen, acts, faults>>

CloseSpans(E, T) ==
    [E EXCEPT
       !.res  = [t \in DOMAIN E.res |-> IF t \in T THEN Closed ELSE E.res[t]],
       !.svc  = [t \in DOMAIN E.svc |-> IF t \in T THEN "none" ELSE E.svc[t]],
       !.prev = [t \in DOMAIN E.prev |->
                   IF t \in T /\ E.res[t] # Closed /\ ~IsGap(E.res[t])
                     THEN E.res[t].cites ELSE E.prev[t]]]

OpenResolution(E, t, r) ==
    LET C == CloseSpans(E, {t})
    IN  [C EXCEPT !.res[t] = r, !.ever[t[1]] = @ \cup r.cites]

FoldStep(E, t, r) == IF E.res[t] = r THEN E ELSE OpenResolution(E, t, r)

FoldWalk(E, v, seen) ==
    [res  |-> [t \in DOMAIN E.res |->
                 IF t[2] = v /\ t[1] \in DOMAIN seen
                   THEN FoldStep(E, t, seen[t[1]]).res[t] ELSE E.res[t]],
     svc  |-> E.svc,
     prev |-> [t \in DOMAIN E.prev |->
                 IF t[2] = v /\ t[1] \in DOMAIN seen
                   THEN FoldStep(E, t, seen[t[1]]).prev[t] ELSE E.prev[t]],
     ever |-> [n \in DOMAIN E.ever |->
                 IF n \in DOMAIN seen THEN E.ever[n] \cup seen[n].cites ELSE E.ever[n]]]

(* A probe that folds while the outage stands leaves the Gap it finds. *)
FoldProbe(E, j, outage) ==
    LET t == <<j[2], j[3]>>
    IN  IF outage /\ E.svc[t] = "Outage" THEN E ELSE [E EXCEPT !.svc[t] = "up"]

Timelines(E, n) == {t \in DOMAIN E.res : t[1] = n /\ E.res[t] # Closed}
Witnesses(E, n) == {E.res[t].is : t \in Timelines(E, n)}
Suppresses == {"NameError", "Shadowed"}
WithdrawnCrossClass(W) == W # {} /\ W \subseteq Suppresses
DecidedAbsentCrossClass(W) == WithdrawnCrossClass(W) /\ "Shadowed" \notin W

DecideNameDeparture(E, n, in) ==
    /\ Timelines(E, n) # {}
    /\ \/ n \in in.excl
       \/ IF NameSeedCovered(n, in.seeds)
            THEN DecidedAbsentCrossClass(Witnesses(E, n))
            ELSE WithdrawnCrossClass(Witnesses(E, n))

\* Mutant: Citers that read the open value alone, a Gap as an answer of nothing.
CitesOpenOnly(E, t, a) == a \in E.res[t].cites

Cites(E, t, a) == a \in E.res[t].cites \/ (IsGap(E.res[t]) /\ a \in E.prev[t])
Citers(E, a) == {t[1] : t \in {u \in DOMAIN E.res : Cites(E, u, a)}}
CitedNow(E, a) == \E t \in DOMAIN E.res : a \in E.res[t].cites

UncitedAddresses(E, N, in) ==
    {a \in UNION {E.ever[n] : n \in N} :
        Citers(E, a) = {} /\ ~AddressSeedCovered(a, in.seeds)}
Beneath(E, A) == {t \in DOMAIN E.svc : t[1] \in A}

FoldEstateTransitions(E, seen, in) ==
    LET departed == {n \in DOMAIN seen : DecideNameDeparture(E, n, in)}
        C == CloseSpans(E, UNION {Timelines(E, n) : n \in departed})
        gapped == {n \in DOMAIN seen : IsGap(seen[n])}
    IN  CloseSpans(C, Beneath(C, UncitedAddresses(C, departed \cup (DOMAIN seen \ gapped), in)))

FoldNameSeedWithdrawals(E, in) ==
    LET gone == {n \in UNION {NamesIn[d] : d \in tombs \cap Domain} :
                    ~NameSeedCovered(n, in.seeds) /\ n \notin AdmittedNames
                       /\ Timelines(E, n) # {}}
        C == CloseSpans(E, UNION {Timelines(E, n) : n \in gone})
    IN  CloseSpans(C, Beneath(C, UncitedAddresses(C, gone, in)))

FoldAddressExclusions(E, in) ==
    CloseSpans(E, Beneath(E, {a \in Address : /\ AddressExcluded(a, in.excl) /\ AddressExcluded(a, excl)
                                             /\ ~CitedNow(E, a) /\ ~Derive(a)}))

FoldSeedWithdrawals(E, in) ==
    CloseSpans(E, Beneath(E, {a \in Address :
        /\ AddressSeedCovered(a, tombs)
        /\ ~CitedNow(E, a)
        /\ ~AddressSeedCovered(a, in.seeds)
        /\ ~Derive(a)}))

\* Mutant: A domain's tombstone spent as the block's is, without waiting for the walks.
SpendWithoutWaiting(E) ==
    {d \in tombs \cap Domain : \A n \in NamesIn[d] : Timelines(E, n) = {}}

(* A tombstone is the only mover its withdrawal has left, so it is spent     *)
(* only when its ground holds nothing; a domain's waits for every walk too,  *)
(* this fold's own included, or for the domain to be declared again.         *)
SpendNameSeedWithdrawals(E) ==
    {d \in tombs \cap Domain :
        \/ \E s \in seeds \cap Domain : NamesIn[d] \subseteq NamesIn[s]
        \/ /\ \A n \in NamesIn[d] : Timelines(E, n) = {}
           /\ \A w \in Walk : job[w] = Absent}

SpendSeedWithdrawals(E) ==
    {b \in tombs \cap Block : \A t \in DOMAIN E.svc : t[1] \in AddrsIn[b] => E.svc[t] = "none"}

\* Mutant: Recovery that clears the availability and leaves the Gaps.
MarkAvailableOnly(E, v) == E

MarkAvailable(E, v) ==
    [E EXCEPT !.res = [t \in DOMAIN E.res |->
        IF t[2] = v /\ E.res[t] = Outage THEN Closed ELSE E.res[t]]]

MarkUnavailable(E, v) ==
    LET C == CloseSpans(E, {t \in DOMAIN E.res : t[2] = v})
    IN  [C EXCEPT
          !.res = [t \in DOMAIN E.res |->
                     IF t[2] = v /\ E.res[t] # Closed THEN Outage ELSE E.res[t]],
          !.svc = [t \in DOMAIN E.svc |->
                     IF t[2] = v /\ E.svc[t] # "none" THEN "Outage" ELSE E.svc[t]]]

Estate == [res |-> res, svc |-> svc, prev |-> prev, ever |-> ever]
Write(E) == res' = E.res /\ svc' = E.svc /\ prev' = E.prev /\ ever' = E.ever

Complete(j, seen) ==
    /\ job[j].phase = "folding"
    /\ \E own \in {IF j \in Walk THEN FoldWalk(Estate, From(j), seen) ELSE FoldProbe(Estate, j, job[j].outage)} :
       \E known \in {FoldEstateTransitions(own, seen, job[j])} :
       \E named \in {FoldNameSeedWithdrawals(known, job[j])} :
       \E ground \in {FoldSeedWithdrawals(FoldAddressExclusions(named, job[j]), job[j])} :
         /\ Write(IF j \in Walk THEN MarkAvailable(ground, From(j)) ELSE ground)
         /\ tombs' = (tombs \ SpendNameSeedWithdrawals(named)) \ SpendSeedWithdrawals(ground)
    /\ down' = IF j \in Walk THEN down \ {From(j)} ELSE down
    /\ job' = [job EXCEPT ![j] = Absent]
    /\ UNCHANGED <<seeds, excl, admitted, reached, draft, frozen, acts, faults>>

\* What a walk may report of its frozen names: every answer the vantage can get.
Observable == {r \in Resolution : r.is \notin {"none", "Outage"}}
CompleteWalk(j) == \E seen \in [frozen -> Observable] : Complete(j, seen)
CompleteProbe(j) == Complete(j, [n \in {} |-> Closed])

(* The probe failed for good.  Only a walk says anything of its vantage. *)
DeadLetter(j) ==
    /\ job[j].phase = "ready" /\ faults < MaxFaults
    /\ IF j \in Walk
         THEN Write(MarkUnavailable(Estate, From(j))) /\ down' = down \cup {From(j)}
         ELSE UNCHANGED <<spanVars, down>>
    /\ job' = [job EXCEPT ![j] = Absent]
    /\ faults' = faults + 1
    /\ UNCHANGED <<declareVars, draft, frozen, acts>>

(* The worker died or the operator canceled: what the fold had written is    *)
(* rolled back, and the job goes back to the queue with its frozen targets   *)
(* or leaves it.                                                             *)
LoseFold(j) ==
    /\ job[j].phase = "folding" /\ faults < MaxFaults
    /\ \E s \in {Waiting, Absent} : job' = [job EXCEPT ![j] = s]
    /\ faults' = faults + 1
    /\ UNCHANGED <<spanVars, declareVars, down, draft, frozen, acts>>

-----------------------------------------------------------------------------
(* The operator, and the sources that admit names under a seed. *)

Act == acts < MaxActs /\ acts' = acts + 1

DeclareSeed(s) ==
    /\ Act /\ s \notin seeds
    /\ seeds' = seeds \cup {s}
    /\ UNCHANGED <<spanVars, excl, tombs, admitted, reached, down, draft, job, frozen, faults>>

\* Mutant: A preview that counts the seed's own admissions as survivors.
ReceiptBeforeCascade(d) ==
    UNION {Timelines(Estate, n) : n \in
        {m \in NamesIn[d] : ~NameSeedCovered(m, seeds \ {d}) /\ m \notin AdmittedNames}}

(* The preview the page shows before a withdrawal: the timelines the fold    *)
(* would close, read while the seed is still declared, so it is dropped from  *)
(* the inputs first, and its own admissions with it.                          *)
NameSeedWithdrawalReceipt(d) ==
    UNION {Timelines(Estate, n) : n \in
        {m \in NamesIn[d] : /\ ~NameSeedCovered(m, seeds \ {d})
                            /\ \A p \in admitted : p[1] = m => p[2] = d}}

SeedWithdrawalReceipt(b) ==
    {t \in Beneath(Estate, AddrsIn[b]) :
        /\ svc[t] # "none"
        /\ ~CitedNow(Estate, t[1])
        /\ ~AddressSeedCovered(t[1], seeds \ {b})
        /\ t[1] \notin reached}

(* One statement deletes the seed, cascades its admissions and leaves a tombstone. *)
WithdrawSeed(s) ==
    /\ Act /\ s \in seeds
    /\ Straddle \/ draft = {}
    /\ seeds' = seeds \ {s}
    /\ tombs' = tombs \cup {s}
    /\ admitted' = {p \in admitted : p[2] # s}
    /\ UNCHANGED <<spanVars, excl, reached, down, draft, job, frozen, faults>>

DeclareExclusion(x) ==
    /\ Act /\ x \notin excl
    /\ excl' = excl \cup {x}
    /\ UNCHANGED <<spanVars, seeds, tombs, admitted, reached, down, draft, job, frozen, faults>>

Unexclude(x) ==
    /\ Act /\ x \in excl
    /\ excl' = excl \ {x}
    /\ UNCHANGED <<spanVars, seeds, tombs, admitted, reached, down, draft, job, frozen, faults>>

ExtendCustody(a) ==
    /\ Act /\ a \in UNION {ever[n] : n \in Name}
    /\ reached' = IF a \in reached THEN reached \ {a} ELSE reached \cup {a}
    /\ UNCHANGED <<spanVars, seeds, excl, tombs, admitted, down, draft, job, frozen, faults>>

Admit(n, d) ==
    /\ Act /\ d \in seeds /\ n \in NamesIn[d] /\ <<n, d>> \notin admitted
    /\ admitted' = admitted \cup {<<n, d>>}
    /\ UNCHANGED <<spanVars, seeds, excl, tombs, reached, down, draft, job, frozen, faults>>

Operator ==
    \/ \E s \in Scope : DeclareSeed(s) \/ WithdrawSeed(s)
    \/ \E x \in Excludable : DeclareExclusion(x) \/ Unexclude(x)
    \/ \E a \in Address : ExtendCustody(a)
    \/ \E n \in Name, d \in Domain : Admit(n, d)

Next ==
    \/ ReadNames \/ FanOutDNS
    \/ \E j \in Probe : FanOutHot(j) \/ CompleteProbe(j)
    \/ \E j \in Walk : CompleteWalk(j)
    \/ \E j \in Job : BeginFold(j) \/ DeadLetter(j) \/ LoseFold(j)
    \/ Operator

Spec == Init /\ [][Next]_vars

-----------------------------------------------------------------------------
(* The hazards: a withdrawal racing jobs that were frozen before it, and a   *)
(* Gap read as if it were an answer.                                         *)

(* A name on the page is declared, or something is left that will take it    *)
(* off: SpendNameSeedWithdrawals never spends the last mover of a domain     *)
(* whose names are still on the page or still on their way.  It does when a  *)
(* withdrawal commits between a fan-out's reads and its inserts (Straddle).  *)
GroundHasMover ==
    \A n \in Name :
        Timelines(Estate, n) # {} =>
            NameSeedCovered(n, seeds \cup tombs)

(* The receipt the operator confirms is what the withdrawal then closes: if  *)
(* nothing moves in between and no older tombstone is pending, the next fold *)
(* closes the previewed timelines of the domain, and of the block no other.  *)
PreviewIsTheAct ==
    [][\A s \in seeds \ seeds' :
         LET in == [seeds |-> seeds, excl |-> excl]
         IN  /\ s \in Domain /\ tombs = {} =>
                  NameSeedWithdrawalReceipt(s) =
                     {t \in Name \X Vantage : res[t] # FoldNameSeedWithdrawals(Estate, in)'.res[t]}
             /\ s \in Block /\ tombs = {} =>
                  SeedWithdrawalReceipt(s) =
                     {t \in Address \X Vantage : svc[t] # FoldSeedWithdrawals(Estate, in)'.svc[t]}]_vars

(* While a vantage is unavailable its resolution timelines hold outage Gaps  *)
(* and nothing else, and none outlives the outage: applyAvailability opens   *)
(* and retires them once, whatever folds run beside it.                      *)
OutageIffDown ==
    \A t \in Name \X Vantage :
        IF t[2] \in down THEN res[t] \in {Closed, Outage} ELSE res[t] # Outage

(* A Gap measures nothing, so it withdraws no address: services close as     *)
(* uncited only when no name's last decided resolution cites them, however   *)
(* many Gaps and outages have been folded over it since.                     *)
GapsHoldCitations ==
    [][\A t \in Address \X Vantage :
         /\ svc[t] # "none" /\ svc'[t] = "none"
         /\ ~AddressExcluded(t[1], excl) /\ ~AddressSeedCovered(t[1], tombs)
         => \A u \in Name \X Vantage :
               /\ t[1] \notin res'[u].cites
               /\ IsGap(res'[u]) => t[1] \notin prev'[u]]_vars
=============================================================================
