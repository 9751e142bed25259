---------------------------- MODULE SignalsProofs ----------------------------
(*****************************************************************************)
(* Proofs about what the signals say: the identities the signals page mints, *)
(* for any number of page loads; and what a fold tells of the rules it moves *)
(* to fired, for any certificates, exchanges and vantages.                   *)
(*****************************************************************************)
EXTENDS Board, Cause, FiniteSetTheorems, SequenceTheorems, TLAPS

\* A finite set, laid out: every member at one place.
LEMMA LaidOut ==
    ASSUME NEW S, IsFiniteSet(S)
    PROVE  /\ SetToSeq(S) \in Seq(S) /\ Len(SetToSeq(S)) \in Nat /\ DOMAIN SetToSeq(S) = 1..Len(SetToSeq(S))
           /\ Len(SetToSeq(S)) = Cardinality(S)
           /\ \A k \in DOMAIN SetToSeq(S) : SetToSeq(S)[k] \in S
           /\ \A j, k \in DOMAIN SetToSeq(S) : SetToSeq(S)[j] = SetToSeq(S)[k] => j = k
           /\ \A p \in S : \E k \in DOMAIN SetToSeq(S) : SetToSeq(S)[k] = p
<1> DEFINE n == Cardinality(S)
           f == SetToSeq(S)
<1>1. n \in Nat /\ ExistsBijection(1..n, S)
  BY FS_CardinalityType
<1>2. PICK g : g \in Bijection(1..n, S)
  BY <1>1 DEF ExistsBijection
<1>3. g \in [1..n -> S] /\ IsInjective(g)
  BY <1>2 DEF Bijection, Injection
<1>4. f \in [1..n -> S] /\ IsInjective(f)
  BY <1>3 DEF SetToSeq
<1> HIDE DEF f
<1>5. f \in Seq(S) /\ Len(f) = n
  BY <1>1, <1>4, SeqDef, LenProperties
<1>6. f \in Surjection(1..n, S)
  <2>1. f \in Injection(1..n, S)
    BY <1>4 DEF Injection
  <2>2. IsFiniteSet(1..n) /\ Cardinality(1..n) = n
    BY <1>1, FS_Interval
  <2> QED BY <2>1, <2>2, FS_Injection
<1>7. DOMAIN f = 1..n
  BY <1>4
<1>8. \A i, j \in 1..n : f[i] = f[j] => i = j
  BY <1>4, <1>7 DEF IsInjective
<1>9. \A x \in S : \E i \in 1..n : f[i] = x
  BY <1>6 DEF Surjection
<1>10. \A i \in 1..n : f[i] \in S
  BY <1>4
<1> QED BY <1>1, <1>5, <1>7, <1>8, <1>9, <1>10 DEF f

-----------------------------------------------------------------------------
(* Board: a firing pair keeps the one identity it was minted with.          *)

NameRules == {"lame-delegation", "cname-target-name-error", "zone-declared-name-returns-name-error",
              "resolved-name-absent-from-zone", "non-globally-reachable-address-resolved-from-internet"}
RulesLoaded == NameRules \cup {SensitivePort, Redirect}
SubjectsLoaded == {NameSubject, ServiceSubject, EndpointSubject}
PairsLoaded == {[rule |-> x[1], subject |-> x[2]] : x \in RulesLoaded \X SubjectsLoaded}

Mints(i, p) == i.rule = p.rule /\ i.subject = p.subject

\* signal_instance: the sequence is past every row, no two rows share a number or
\* a pair.
RowsApart ==
    /\ sequence \in Nat
    /\ \A i \in instances : i.id \in 1..sequence
    /\ \A i, j \in instances : i.id = j.id \/ Mints(i, j) => i = j

\* A load that read the corpus holds some of the pairs, and one that minted finds
\* each of them on a row.
LoadsServed ==
    /\ loads = [l \in Loaders |-> loads[l]]
    /\ \A l \in Loaders :
          /\ loads[l].pc \in {"idle", "read", "minted"}
          /\ loads[l].pc # "idle" =>
                /\ loads[l] = [pc |-> loads[l].pc, fired |-> loads[l].fired, pop |-> loads[l].pop,
                               annos |-> loads[l].annos]
                /\ loads[l].fired \subseteq PairsLoaded
          /\ loads[l].pc = "minted" => \A p \in loads[l].fired : \E i \in instances : Mints(i, p)

\* Every row painted is a row of the table.
PaintedStands == \A p \in painted : \E i \in instances : i.id = p.id /\ Mints(i, p)

\* The inductive invariant.
IdentityInv == RowsApart /\ LoadsServed /\ PaintedStands

\* The pairs that may fire are few.
LEMMA PairsFinite == IsFiniteSet(PairsLoaded)
<1>1. IsFiniteSet(RulesLoaded)
  <2> DEFINE A == {"lame-delegation"}
             B == A \cup {"cname-target-name-error"}
             C == B \cup {"zone-declared-name-returns-name-error"}
             E == C \cup {"resolved-name-absent-from-zone"}
             F == E \cup {"non-globally-reachable-address-resolved-from-internet"}
             G == F \cup {SensitivePort}
             H == G \cup {Redirect}
  <2>1. RulesLoaded = H
    BY DEF RulesLoaded, NameRules
  <2>2. IsFiniteSet(A)
    BY FS_Singleton
  <2> HIDE DEF A
  <2>3. IsFiniteSet(B)
    BY <2>2, FS_AddElement
  <2> HIDE DEF B
  <2>4. IsFiniteSet(C)
    BY <2>3, FS_AddElement
  <2> HIDE DEF C
  <2>5. IsFiniteSet(E)
    BY <2>4, FS_AddElement
  <2> HIDE DEF E
  <2>6. IsFiniteSet(F)
    BY <2>5, FS_AddElement
  <2> HIDE DEF F
  <2>7. IsFiniteSet(G)
    BY <2>6, FS_AddElement
  <2> HIDE DEF G
  <2>8. IsFiniteSet(H)
    BY <2>7, FS_AddElement
  <2> QED BY <2>1, <2>8
<1>2. IsFiniteSet(SubjectsLoaded)
  <2>1. SubjectsLoaded = ({NameSubject} \cup {ServiceSubject}) \cup {EndpointSubject}
    BY DEF SubjectsLoaded
  <2> QED BY <2>1, FS_Singleton, FS_AddElement
<1> DEFINE D == RulesLoaded \X SubjectsLoaded
           f == [x \in D |-> [rule |-> x[1], subject |-> x[2]]]
<1>3. IsFiniteSet(D)
  BY <1>1, <1>2, FS_Product
<1>4. f \in Surjection(D, PairsLoaded)
  BY DEF Surjection, PairsLoaded
<1> QED BY <1>3, <1>4, FS_Surjection

\* Only the rules and the subjects of the corpus fire.
LEMMA CorpusFires == firedPairs(buildSignalCorpus) \subseteq PairsLoaded
<1>1. \A f : DOMAIN All(f, Blocks) = NameRules
  BY DEF All, NameRules
<1>2. \A c \in buildSignalCorpus : c.rule \in RulesLoaded /\ c.subject \in SubjectsLoaded
  <2> SUFFICES ASSUME NEW c \in buildSignalCorpus
               PROVE  c.rule \in RulesLoaded /\ c.subject \in SubjectsLoaded
    OBVIOUS
  <2> DEFINE N(f) == {[rule |-> r, subject |-> NameSubject, outcome |-> All(f, Blocks)[r]] :
                        r \in DOMAIN All(f, Blocks)}
             V == {[rule |-> SensitivePort, subject |-> ServiceSubject,
                    outcome |-> AllServiceRules(f)[SensitivePort]] : f \in buildServiceFacts}
             E == {[rule |-> Redirect, subject |-> EndpointSubject, outcome |-> AllEndpointRules(f)[Redirect]] :
                     f \in buildEndpointFacts}
  <2>1. buildSignalCorpus = (UNION {N(f) : f \in buildNameFacts}) \cup V \cup E
    BY DEF buildSignalCorpus
  <2>2. CASE \E f \in buildNameFacts : c \in N(f)
    BY <1>1, <2>2 DEF RulesLoaded, SubjectsLoaded
  <2>3. CASE c \in V
    BY <2>3 DEF RulesLoaded, SubjectsLoaded
  <2>4. CASE c \in E
    BY <2>4 DEF RulesLoaded, SubjectsLoaded
  <2> HIDE DEF N, V, E
  <2> QED BY <2>1, <2>2, <2>3, <2>4
<1>3. ASSUME NEW c \in buildSignalCorpus
      PROVE  [rule |-> c.rule, subject |-> c.subject] \in PairsLoaded
  <2> DEFINE x == <<c.rule, c.subject>>
  <2>1. x \in RulesLoaded \X SubjectsLoaded /\ x[1] = c.rule /\ x[2] = c.subject
    BY <1>2
  <2> QED BY <2>1 DEF PairsLoaded
<1> QED BY <1>3 DEF firedPairs

\* What a load sends is minted once: the rows it finds stay, and every pair it
\* sends is on a row after it.
LEMMA MintStep ==
    ASSUME IdentityInv, NEW l \in Loaders, deriveSignalInstances(l)
    PROVE  /\ RowsApart' /\ instances \subseteq instances'
           /\ \A p \in loads[l].fired : \E i \in instances' : Mints(i, p)
<1> DEFINE S == loads[l].fired
           pairs == SetToSeq(S)
           fresh == {j \in DOMAIN pairs : \A i \in instances : ~Mints(i, pairs[j])}
           row(k) == [id |-> sequence + k, rule |-> pairs[k].rule, subject |-> pairs[k].subject, first |-> moves]
           minted == {row(k) : k \in fresh}
<1>1. S \subseteq PairsLoaded /\ IsFiniteSet(S)
  <2>1. S \subseteq PairsLoaded
    BY DEF IdentityInv, LoadsServed, deriveSignalInstances
  <2> QED BY <2>1, PairsFinite, FS_Subset
<1>2. /\ Len(pairs) \in Nat /\ DOMAIN pairs = 1..Len(pairs)
      /\ \A k \in DOMAIN pairs : pairs[k] \in S
      /\ \A j, k \in DOMAIN pairs : pairs[j] = pairs[k] => j = k
      /\ \A p \in S : \E k \in DOMAIN pairs : pairs[k] = p
  BY <1>1, LaidOut
<1>3. \A p, q \in PairsLoaded : Mints(p, q) => p = q
  BY DEF PairsLoaded, Mints
<1>4. MintSignalInstances(pairs) = minted
  BY DEF MintSignalInstances, Mints
<1>5. /\ instances' = {i \in instances : \A m \in MintSignalInstances(pairs) :
                           <<i.rule, i.subject>> # <<m.rule, m.subject>>}
                         \cup MintSignalInstances(pairs)
      /\ sequence' = sequence + Len(pairs)
  BY DEF deriveSignalInstances
<1> HIDE DEF pairs, S
<1>6. \A k : /\ row(k).id = sequence + k /\ row(k).rule = pairs[k].rule
             /\ row(k).subject = pairs[k].subject
  OBVIOUS
<1> HIDE DEF row
<1>7. \A i \in instances, m \in minted : <<i.rule, i.subject>> # <<m.rule, m.subject>>
  BY <1>6 DEF Mints
<1>8. instances' = instances \cup minted
  BY <1>4, <1>5, <1>7
<1>9. sequence \in Nat /\ \A i \in instances : i.id \in 1..sequence
  BY DEF IdentityInv, RowsApart
<1>10. \A k \in fresh : k \in 1..Len(pairs) /\ sequence + k > sequence /\ sequence + k <= sequence'
  BY <1>2, <1>5, <1>9
<1>11. \A i \in instances' : i.id \in 1..sequence'
  <2> SUFFICES ASSUME NEW i \in instances'
               PROVE  i.id \in 1..sequence'
    OBVIOUS
  <2>1. CASE i \in instances
    BY <1>2, <1>5, <1>9, <2>1
  <2>2. CASE i \in minted
    <3>1. PICK k \in fresh : i = row(k)
      BY <2>2
    <3>2. i.id = sequence + k
      BY <1>6, <3>1
    <3> QED BY <1>2, <1>5, <1>9, <1>10, <3>2
  <2> QED BY <1>8, <2>1, <2>2
<1>12. ASSUME NEW i \in instances', NEW j \in instances', i.id = j.id \/ Mints(i, j)
       PROVE  i = j
  <2>1. CASE i \in instances /\ j \in instances
    BY <1>12, <2>1 DEF IdentityInv, RowsApart
  <2>2. ASSUME NEW a \in instances, NEW m \in minted
        PROVE  a.id # m.id /\ ~Mints(a, m) /\ ~Mints(m, a)
    <3>1. PICK k \in fresh : m = row(k)
      OBVIOUS
    <3>2. m.id = sequence + k
      BY <1>6, <3>1
    <3>3. a.id # m.id
      BY <1>9, <1>10, <3>2
    <3> QED BY <1>7, <3>3 DEF Mints
  <2>3. CASE i \in minted /\ j \in minted
    <3>1. PICK h \in fresh, k \in fresh : i = row(h) /\ j = row(k)
      BY <2>3
    <3>2. i.id = sequence + h /\ j.id = sequence + k
      BY <1>6, <3>1
    <3>3. h \in Nat /\ k \in Nat
      BY <1>2
    <3>4. CASE i.id = j.id
      <4>1. h = k
        BY <1>9, <3>2, <3>3, <3>4
      <4> QED BY <3>1, <4>1
    <3>5. CASE Mints(i, j)
      <4>1. Mints(pairs[h], pairs[k])
        BY <1>6, <3>1, <3>5 DEF Mints
      <4>2. pairs[h] = pairs[k]
        BY <1>1, <1>2, <1>3, <4>1
      <4>3. h = k
        BY <1>2, <4>2
      <4> QED BY <3>1, <4>3
    <3> QED BY <1>12, <3>4, <3>5
  <2> QED BY <1>8, <1>12, <2>1, <2>2, <2>3
<1>13. ASSUME NEW p \in S
       PROVE  \E i \in instances' : Mints(i, p)
  <2>1. PICK k \in DOMAIN pairs : pairs[k] = p
    BY <1>2
  <2>2. CASE k \in fresh
    BY <1>6, <1>8, <2>1, <2>2 DEF Mints
  <2>3. CASE k \notin fresh
    BY <1>8, <2>1, <2>3
  <2> QED BY <2>2, <2>3
<1>14. sequence' \in Nat
  BY <1>2, <1>5, <1>9
<1>15. RowsApart'
  BY <1>11, <1>12, <1>14 DEF RowsApart, Mints
<1> QED BY <1>8, <1>13, <1>15 DEF S

\* Every step of the screens keeps the invariant.
LEMMA BoardStep == IdentityInv /\ [BoardNext]_boardVars => IdentityInv'
<1>1. ASSUME IdentityInv, UNCHANGED <<instances, sequence, loads, painted>>
      PROVE  IdentityInv'
  BY <1>1 DEF IdentityInv, RowsApart, LoadsServed, PaintedStands, Mints
<1>2. ASSUME Folding \/ Acting \/ UNCHANGED boardVars
      PROVE  UNCHANGED <<instances, sequence, loads, painted>>
  <2>1. ASSUME Folding PROVE UNCHANGED <<instances, sequence, loads, painted>>
    BY <2>1 DEF Folding, FoldReach, FoldAnswer, FoldExchange, PageState
  <2>2. ASSUME Acting PROVE UNCHANGED <<instances, sequence, loads, painted>>
    BY <2>2 DEF Acting, EditScope, UploadZone, declareAnnotation, withdrawAnnotation, PageState
  <2> QED BY <1>2, <2>1, <2>2 DEF boardVars
<1>3. ASSUME IdentityInv, NEW l \in Loaders, LoadCorpus(l)
      PROVE  IdentityInv'
  <2> DEFINE new == [pc |-> "read", fired |-> firedPairs(buildSignalCorpus),
                     pop |-> population(buildSignalCorpus), annos |-> annotations]
  <2>1. loads' = [loads EXCEPT ![l] = new] /\ instances' = instances /\ sequence' = sequence /\ painted' = painted
    BY <1>3 DEF LoadCorpus
  <2>2. /\ new.pc = "read" /\ new.fired \subseteq PairsLoaded
        /\ new = [pc |-> new.pc, fired |-> new.fired, pop |-> new.pop, annos |-> new.annos]
    BY CorpusFires
  <2> HIDE DEF new
  <2>3. LoadsServed'
    BY <1>3, <2>1, <2>2 DEF IdentityInv, LoadsServed
  <2> QED BY <1>3, <2>1, <2>3 DEF IdentityInv, RowsApart, PaintedStands, Mints
<1>4. ASSUME IdentityInv, NEW l \in Loaders, deriveSignalInstances(l)
      PROVE  IdentityInv'
  <2>1. /\ RowsApart' /\ instances \subseteq instances'
        /\ \A p \in loads[l].fired : \E i \in instances' : Mints(i, p)
    BY <1>4, MintStep
  <2>2. /\ loads' = [loads EXCEPT ![l].pc = "minted"] /\ loads[l].pc = "read" /\ painted' = painted
    BY <1>4 DEF deriveSignalInstances
  <2>3. loads[l] = [pc |-> "read", fired |-> loads[l].fired, pop |-> loads[l].pop, annos |-> loads[l].annos]
        /\ loads[l].fired \subseteq PairsLoaded
    BY <1>4, <2>2 DEF IdentityInv, LoadsServed
  <2>4. PICK f, w, a : loads[l] = [pc |-> "read", fired |-> f, pop |-> w, annos |-> a]
    BY <2>3
  <2>5. [loads[l] EXCEPT !.pc = "minted"] = [pc |-> "minted", fired |-> f, pop |-> w, annos |-> a]
    BY <2>4
  <2>6. loads' = [loads EXCEPT ![l] = [pc |-> "minted", fired |-> f, pop |-> w, annos |-> a]]
    BY <1>4, <2>2, <2>5 DEF IdentityInv, LoadsServed
  <2>7. f = loads[l].fired
    BY <2>4
  <2>8. LoadsServed'
    BY <1>4, <2>1, <2>3, <2>6, <2>7 DEF IdentityInv, LoadsServed
  <2>9. PaintedStands'
    BY <1>4, <2>1, <2>2 DEF IdentityInv, PaintedStands, Mints
  <2> QED BY <2>1, <2>8, <2>9 DEF IdentityInv
<1>5. ASSUME IdentityInv, NEW l \in Loaders, PaintSignals(l)
      PROVE  IdentityInv'
  <2> DEFINE open == {[rule |-> p.rule, subject |-> p.subject, id |-> identityOf(p),
                       accepted |-> \E a \in loads[l].annos : a.rule = p.rule /\ a.subject = p.subject] :
                        p \in loads[l].fired}
  <2>1. /\ loads[l].pc = "minted" /\ loads' = [loads EXCEPT ![l] = [pc |-> "idle"]]
        /\ instances' = instances /\ sequence' = sequence
        /\ painted' = painted \cup {[rule |-> r.rule, subject |-> r.subject, id |-> r.id] : r \in open}
    BY <1>5 DEF PaintSignals, buildSignalTabs
  <2>2. ASSUME NEW p \in loads[l].fired
        PROVE  \E i \in instances : i.id = identityOf(p) /\ Mints(i, p)
    <3>1. PICK i \in instances : Mints(i, p)
      BY <1>5, <2>1 DEF IdentityInv, LoadsServed
    <3>2. {x \in instances : x.rule = p.rule /\ x.subject = p.subject} = {i}
      BY <1>5, <3>1 DEF IdentityInv, RowsApart, Mints
    <3>3. i.id \in Nat
      BY <1>5 DEF IdentityInv, RowsApart
    <3>4. {x.id : x \in {i}} = {i.id} /\ {i} # {}
      OBVIOUS
    <3>5. Max({i.id}) = i.id
      BY <3>3 DEF Max
    <3>6. identityOf(p) = i.id
      BY <3>2, <3>4, <3>5 DEF identityOf
    <3> QED BY <3>1, <3>6
  <2>3. PaintedStands'
    <3> SUFFICES ASSUME NEW p \in painted'
                 PROVE  \E i \in instances : i.id = p.id /\ Mints(i, p)
      BY <2>1 DEF PaintedStands, Mints
    <3>1. CASE p \in painted
      BY <1>5, <3>1 DEF IdentityInv, PaintedStands
    <3>2. CASE p \notin painted
      <4>1. PICK q \in loads[l].fired : p.rule = q.rule /\ p.subject = q.subject /\ p.id = identityOf(q)
        BY <2>1, <3>2
      <4> QED BY <2>2, <4>1 DEF Mints
    <3> QED BY <3>1, <3>2
  <2>4. LoadsServed'
    BY <1>5, <2>1 DEF IdentityInv, LoadsServed
  <2> QED BY <1>5, <2>1, <2>3, <2>4 DEF IdentityInv, RowsApart, Mints
<1> QED BY <1>1, <1>2, <1>3, <1>4, <1>5 DEF BoardNext, Loading

\* However many loads of the signals page race, a pair that fires is painted with
\* one identity and an identity names one pair (deriveSignalInstances).
THEOREM IdentityHolds == BoardSpec => []IdentityStands
<1>1. BoardInit => IdentityInv
  BY DEF BoardInit, IdentityInv, RowsApart, LoadsServed, PaintedStands
<1>2. IdentityInv => IdentityStands
  BY DEF IdentityInv, RowsApart, PaintedStands, IdentityStands, Mints
<1> QED BY <1>1, <1>2, BoardStep, PTL DEF BoardSpec

-----------------------------------------------------------------------------
(* Board: the screens agree on the service, and the pages list every row.    *)

\* A span is of a vantage.
LegsTyped ==
    /\ moves \in Nat
    /\ legs \subseteq [vantage : Vantages, outcome : ReachOutcomes, opened : Nat, closed : Nat \cup {Open}]

\* A fold leaves spans of vantages.
LEMMA LegsStep == LegsTyped /\ [BoardNext]_boardVars => LegsTyped'
<1> DEFINE Spans == [vantage : Vantages, outcome : ReachOutcomes, opened : Nat, closed : Nat \cup {Open}]
<1>1. ASSUME LegsTyped, NEW v \in Vantages, NEW o \in ReachOutcomes, FoldReach(v, o)
      PROVE  LegsTyped'
  <2> DEFINE held == {sp \in legs : sp.vantage = v /\ sp.closed = Open}
             closing == {[sp EXCEPT !.closed = 2 * moves + 1] : sp \in held}
             new == [vantage |-> v, outcome |-> o, opened |-> 2 * moves + 1, closed |-> Open]
  <2>1. moves \in Nat /\ 2 * moves + 1 \in Nat /\ legs \subseteq Spans
    BY <1>1 DEF LegsTyped
  <2>2. moves' = moves + 1 /\ (legs' = legs \/ legs' = (legs \ held) \cup closing \cup {new})
    BY <1>1 DEF FoldReach, Move
  <2>3. new \in Spans
    BY <2>1
  <2>4. closing \subseteq Spans
    <3> SUFFICES ASSUME NEW sp \in legs
                 PROVE  [sp EXCEPT !.closed = 2 * moves + 1] \in Spans
      OBVIOUS
    <3>1. sp \in Spans
      BY <2>1
    <3> QED BY <2>1, <3>1
  <2> HIDE DEF new, closing, held, Spans
  <2>5. legs' \subseteq Spans
    BY <2>1, <2>2, <2>3, <2>4
  <2> QED BY <2>1, <2>2, <2>5 DEF LegsTyped, Spans
<1>2. ASSUME LegsTyped, moves' = moves + 1 \/ moves' = moves, legs' = legs
      PROVE  LegsTyped'
  BY <1>2 DEF LegsTyped
<1>3. ASSUME NEW v \in Vantages, NEW o, NEW l, FoldAnswer(v, o, l)
      PROVE  moves' = moves + 1 /\ legs' = legs
  BY <1>3 DEF FoldAnswer, Move
<1>4. ASSUME NEW h, FoldExchange(h)
      PROVE  moves' = moves + 1 /\ legs' = legs
  BY <1>4 DEF FoldExchange, Move
<1>5. ASSUME Acting PROVE moves' = moves + 1 /\ legs' = legs
  BY <1>5 DEF Acting, EditScope, UploadZone, declareAnnotation, withdrawAnnotation, Move
<1>6. ASSUME Loading PROVE moves' = moves /\ legs' = legs
  BY <1>6 DEF Loading, LoadCorpus, deriveSignalInstances, PaintSignals, estateVars
<1>7. ASSUME UNCHANGED boardVars PROVE moves' = moves /\ legs' = legs
  BY <1>7 DEF boardVars
<1> QED BY <1>1, <1>2, <1>3, <1>4, <1>5, <1>6, <1>7 DEF BoardNext, Folding

\* The service that the screens are compared on is one that the alarm is about.
SensitiveService == Service.transport = "tcp" /\ ParseServicePair(Service) \in SensitivePairs

\* The alarm is raised where the internet leg is reached.
LEMMA AlarmIsReached ==
    ASSUME SensitiveService
    PROVE  LET collapsed == collapseReachLegs(ListServiceReachabilitySpansByClass)
           IN ([rule |-> SensitivePort, subject |-> ServiceSubject] \in firedPairs(buildSignalCorpus))
                 <=> legFrom(collapsed, "internet") = "reached"
<1> DEFINE C == collapseReachLegs(ListServiceReachabilitySpansByClass)
           measured == {c \in DOMAIN C \cap {"internet"} : ~C[c].isGap /\ C[c].outcome # NoAnswer}
           heard == {C[c].outcome : c \in measured}
           pair == [rule |-> SensitivePort, subject |-> ServiceSubject]
           alarm == pair \in firedPairs(buildSignalCorpus)
           f == ServiceFactsFrom(Service, heard, {})
           N(x) == {[rule |-> r, subject |-> NameSubject, outcome |-> All(x, Blocks)[r]] :
                       r \in DOMAIN All(x, Blocks)}
           V == {[rule |-> SensitivePort, subject |-> ServiceSubject,
                  outcome |-> AllServiceRules(x)[SensitivePort]] : x \in buildServiceFacts}
           E == {[rule |-> Redirect, subject |-> EndpointSubject, outcome |-> AllEndpointRules(x)[Redirect]] :
                   x \in buildEndpointFacts}
<1>1. buildSignalCorpus = (UNION {N(x) : x \in buildNameFacts}) \cup V \cup E
  BY DEF buildSignalCorpus
<1>2. buildServiceFacts = IF DOMAIN C = {} THEN {} ELSE {f}
  BY DEF buildServiceFacts
<1>3. f.sensitive = TRUE /\ f.reach = heard
  BY DEF ServiceFactsFrom, SensitiveService
<1>4. AllServiceRules(f)[SensitivePort] = IF heard = {} THEN NotEvaluable ELSE Verdict("reached" \in heard)
  BY <1>3 DEF AllServiceRules, sensitivePortReachedFromInternet
<1> HIDE DEF f
<1>5. (AllServiceRules(f)[SensitivePort] = Fired) <=> "reached" \in heard
  BY <1>4 DEF Verdict, Fired, NotFired, NotEvaluable
<1>6. ("reached" \in heard) <=> legFrom(C, "internet") = "reached"
  BY DEF legFrom, NoAnswer
<1>7. alarm <=> \E c \in buildSignalCorpus : c.outcome = Fired /\ c.rule = SensitivePort /\ c.subject = ServiceSubject
  BY DEF firedPairs
<1>8. \A x, c : c \in N(x) \/ c \in E => c.subject # ServiceSubject
  BY DEF NameSubject, ServiceSubject, EndpointSubject
<1>9. \A c \in V : c.rule = SensitivePort /\ c.subject = ServiceSubject
  OBVIOUS
<1>10. alarm <=> \E c \in V : c.outcome = Fired
  <2> HIDE DEF N, V, E, alarm
  <2>1. \A c \in buildSignalCorpus : c.subject = ServiceSubject => c \in V
    BY <1>1, <1>8
  <2> QED BY <1>1, <1>7, <1>9, <2>1
<1>11. alarm <=> (DOMAIN C # {} /\ AllServiceRules(f)[SensitivePort] = Fired)
  <2> DEFINE row(x) == [rule |-> SensitivePort, subject |-> ServiceSubject,
                        outcome |-> AllServiceRules(x)[SensitivePort]]
  <2>0. V = {row(x) : x \in buildServiceFacts} /\ \A x : row(x).outcome = AllServiceRules(x)[SensitivePort]
    OBVIOUS
  <2>1. (\E c \in V : c.outcome = Fired) <=> \E x \in buildServiceFacts : AllServiceRules(x)[SensitivePort] = Fired
    <3> HIDE DEF row, V
    <3> QED BY <2>0
  <2> HIDE DEF V, alarm
  <2> QED BY <1>2, <1>10, <2>1
<1>12. legFrom(C, "internet") = "reached" => DOMAIN C # {}
  BY DEF legFrom
<1> QED BY <1>5, <1>6, <1>11, <1>12

\* The signals page, the exposure board and the dashboard agree on the service.
LEMMA ScreensDoAgree == LegsTyped /\ SensitiveService => ScreensAgree
<1> SUFFICES ASSUME LegsTyped, SensitiveService PROVE ScreensAgree
  OBVIOUS
<1> DEFINE C == collapseReachLegs(ListServiceReachabilitySpansByClass)
           alarm == [rule |-> SensitivePort, subject |-> ServiceSubject] \in firedPairs(buildSignalCorpus)
<1>1. alarm <=> legFrom(C, "internet") = "reached"
  BY AlarmIsReached
<1>2. (reachLegChip("internet", legFrom(C, "internet")) = "danger") <=> legFrom(C, "internet") = "reached"
  <2>1. \A leg : (reachLegChip("internet", leg) = "danger") <=> leg = "reached"
    BY DEF reachLegChip
  <2> QED BY <2>1
<1>3. DOMAIN C \subseteq runningVantageClasses
  <2>1. \A sp \in legs : sp.vantage \in Vantages
    BY DEF LegsTyped
  <2>2. DOMAIN C = {vantageFactsClass(sp.vantage) : sp \in ListServiceReachabilitySpansByClass}
    BY DEF collapseReachLegs
  <2> QED BY <2>1, <2>2 DEF runningVantageClasses, ListServiceReachabilitySpansByClass
<1>4. exposurePage.withheld => "internet" \notin DOMAIN C
  BY <1>3 DEF exposurePage
<1>5. "internet" \notin DOMAIN C => legFrom(C, "internet") = "never-configured"
  BY DEF legFrom
<1>6. "internet" \notin DOMAIN C => censusFromLegs(C).exposed = 0
  BY <1>5 DEF censusFromLegs, Project
<1>7. exposurePage.exposed = censusFromLegs(C).exposed
  BY <1>3, <1>6 DEF exposurePage
<1>8. dashboardData.exposed.current = censusFromLegs(C).exposed
  BY DEF dashboardData, exposureCountDeltas
<1> HIDE DEF C, alarm
<1>9. (alarm <=> reachLegChip("internet", legFrom(C, "internet")) = "danger") /\ (exposurePage.withheld => ~alarm)
  BY <1>1, <1>2, <1>4, <1>5
<1> QED BY <1>7, <1>8, <1>9 DEF ScreensAgree, C, alarm

\* A total order of 1..n.
OrdersPlaces(R, n) ==
    /\ R \in SUBSET ((1..n) \X (1..n))
    /\ \A i \in 1..n : <<i, i>> \in R
    /\ \A i, j \in 1..n : <<i, j>> \in R \/ <<j, i>> \in R
    /\ \A i, j \in 1..n : <<i, j>> \in R /\ <<j, i>> \in R => i = j
    /\ \A i, j, k \in 1..n : <<i, j>> \in R /\ <<j, k>> \in R => <<i, k>> \in R
AtOrAbove(R, n, k) == {h \in 1..n : <<h, k>> \in R}

\* In a total order of 1..n, the numbers of places at or above each place are 1..n.
LEMMA PlacesCounted ==
    ASSUME NEW n \in Nat, NEW R, OrdersPlaces(R, n)
    PROVE  /\ \A i, j \in 1..n : Cardinality(AtOrAbove(R, n, i)) = Cardinality(AtOrAbove(R, n, j)) => i = j
           /\ \A m \in 1..n : \E k \in 1..n : Cardinality(AtOrAbove(R, n, k)) = m
<1> DEFINE D == 1..n
           above(k) == AtOrAbove(R, n, k)
           f == [k \in D |-> Cardinality(above(k))]
<1>1. IsFiniteSet(D) /\ Cardinality(D) = n
  BY FS_Interval
<1>2. ASSUME NEW k \in D PROVE IsFiniteSet(above(k)) /\ Cardinality(above(k)) \in D
  <2>0. above(k) \in SUBSET D /\ k \in above(k)
    BY DEF AtOrAbove, OrdersPlaces
  <2>1. IsFiniteSet(above(k)) /\ Cardinality(above(k)) <= n
    <3> HIDE DEF above, D
    <3> QED BY <1>1, <2>0, FS_Subset
  <2>2. Cardinality(above(k)) \in Nat /\ (Cardinality(above(k)) = 0 <=> above(k) = {})
    BY <2>1, FS_CardinalityType, FS_EmptySet
  <2> HIDE DEF above
  <2> QED BY <2>0, <2>1, <2>2
<1>3. ASSUME NEW i \in D, NEW j \in D, <<i, j>> \in R, i # j
      PROVE  Cardinality(above(i)) # Cardinality(above(j))
  <2>1. above(i) \subseteq above(j) /\ j \in above(j) /\ j \notin above(i)
    BY <1>3 DEF AtOrAbove, OrdersPlaces
  <2>2. IsFiniteSet(above(j))
    BY <1>2
  <2> HIDE DEF above
  <2> QED BY <2>1, <2>2, FS_Subset
<1>4. \A i, j \in D : Cardinality(above(i)) = Cardinality(above(j)) => i = j
  <2>1. \A i, j \in D : <<i, j>> \in R \/ <<j, i>> \in R
    BY DEF OrdersPlaces
  <2> HIDE DEF above
  <2> QED BY <1>3, <2>1
<1>5. f \in Injection(D, D)
  <2>1. f \in [D -> D]
    BY <1>2
  <2>2. \A i, j \in D : f[i] = f[j] => i = j
    BY <1>4
  <2> QED BY <2>1, <2>2 DEF Injection, IsInjective
<1>6. f \in Surjection(D, D)
  BY <1>1, <1>5, FS_Injection
<1>7. \A m \in D : \E k \in D : f[k] = m
  BY <1>6 DEF Surjection
<1> QED BY <1>4, <1>7

\* What a listed row is: one of the subjects, and a number.
Listed(r) == r.subject \in SubjectsLoaded /\ r.id \in Nat

\* The page's comparison is a strict weak order of the rows.
LEMMA RowsCompare ==
    ASSUME NEW key, NEW a, NEW b, NEW c, Listed(a), Listed(b), Listed(c)
    PROVE  /\ ~less(a, a, key)
           /\ less(a, b, key) => ~less(b, a, key)
           /\ less(a, b, key) /\ less(b, c, key) => less(a, c, key)
           /\ ~less(a, b, key) /\ ~less(b, c, key) => ~less(a, c, key)
<1> DEFINE rank(r) == SevRank(SeverityFor(r.rule))
           primary(r) == CASE key = "asset" -> Order[r.subject] [] key = "id" -> r.id [] OTHER -> rank(r)
           lower(x, y) == \/ primary(x) < primary(y)
                          \/ primary(x) = primary(y) /\ rank(x) < rank(y)
                          \/ primary(x) = primary(y) /\ rank(x) = rank(y) /\ Order[x.subject] < Order[y.subject]
                          \/ primary(x) = primary(y) /\ rank(x) = rank(y) /\ Order[x.subject] = Order[y.subject]
                                /\ x.id < y.id
<1>1. \A r : rank(r) \in Nat
  BY DEF SevRank, SeverityFor
<1>2. \A s \in SubjectsLoaded : Order[s] \in Nat
  BY BoardAssumption DEF SubjectsLoaded
<1>3. \A s, t \in SubjectsLoaded : s = t <=> Order[s] = Order[t]
  BY BoardAssumption DEF SubjectsLoaded
<1> HIDE DEF rank
<1>4. \A r : Listed(r) => Order[r.subject] \in Nat /\ r.id \in Nat /\ primary(r) \in Nat
  BY <1>1, <1>2 DEF Listed
<1> HIDE DEF primary
<1>5. \A x, y : Listed(x) /\ Listed(y) => (less(x, y, key) <=> lower(x, y))
  BY <1>3 DEF less, Listed, rank, primary
<1>6. /\ rank(a) \in Nat /\ rank(b) \in Nat /\ rank(c) \in Nat
      /\ primary(a) \in Nat /\ primary(b) \in Nat /\ primary(c) \in Nat
      /\ Order[a.subject] \in Nat /\ Order[b.subject] \in Nat /\ Order[c.subject] \in Nat
      /\ a.id \in Nat /\ b.id \in Nat /\ c.id \in Nat
  BY <1>1, <1>4
<1>7. /\ ~lower(a, a) /\ (lower(a, b) => ~lower(b, a))
      /\ (lower(a, b) /\ lower(b, c) => lower(a, c))
      /\ (~lower(a, b) /\ ~lower(b, c) => ~lower(a, c))
  BY <1>6
<1> HIDE DEF lower
<1> QED BY <1>5, <1>7

AllListed(rows) == IsFiniteSet(rows) /\ \A r \in rows : Listed(r)

\* A list of n rows: each of them at one place.
OneEach(s, rows, n) ==
    /\ n \in Nat /\ s \in [1..n -> rows]
    /\ \A i, j \in 1..n : s[i] = s[j] => i = j
    /\ \A r \in rows : \E i \in 1..n : s[i] = r

\* However the page is sorted, every row is at one place of it.
LEMMA RowsSorted ==
    ASSUME NEW rows, AllListed(rows), NEW key, NEW dir
    PROVE  OneEach(sortSignalRows(rows, key, dir), rows, Cardinality(rows))
<1> DEFINE n == Cardinality(rows)
           before(a, b) == IF dir = "desc" THEN less(b, a, key) ELSE less(a, b, key)
           loaded == SetToSeq(rows)
           keeps(j, k) == before(loaded[j], loaded[k]) \/ (~before(loaded[k], loaded[j]) /\ j <= k)
           above(k) == {j \in DOMAIN loaded : keeps(j, k)}
           from(m) == CHOOSE k \in DOMAIN loaded : Cardinality(above(k)) = m
           s == [m \in DOMAIN loaded |-> loaded[from(m)]]
<1>0. IsFiniteSet(rows) /\ \A r \in rows : Listed(r)
  BY DEF AllListed
<1>1. sortSignalRows(rows, key, dir) = s
  BY DEF sortSignalRows
<1>2. /\ n \in Nat /\ DOMAIN loaded = 1..n
      /\ \A k \in 1..n : loaded[k] \in rows
      /\ \A j, k \in 1..n : loaded[j] = loaded[k] => j = k
      /\ \A r \in rows : \E k \in 1..n : loaded[k] = r
  <2>1. n \in Nat
    BY <1>0, FS_CardinalityType
  <2>2. /\ Len(loaded) \in Nat /\ DOMAIN loaded = 1..Len(loaded)
        /\ \A k \in DOMAIN loaded : loaded[k] \in rows
        /\ \A j, k \in DOMAIN loaded : loaded[j] = loaded[k] => j = k
        /\ \A p \in rows : \E k \in DOMAIN loaded : loaded[k] = p
        /\ Len(loaded) = n
    BY <1>0, LaidOut
  <2> HIDE DEF loaded, n
  <2> QED BY <2>1, <2>2
<1> HIDE DEF loaded, n
<1>3. \A a, b, c \in rows :
         /\ before(a, b) => ~before(b, a)
         /\ before(a, b) /\ before(b, c) => before(a, c)
         /\ ~before(a, b) /\ ~before(b, c) => ~before(a, c)
  BY <1>0, RowsCompare
<1> HIDE DEF before
<1>4. /\ \A i \in 1..n : keeps(i, i)
      /\ \A i, j \in 1..n : keeps(i, j) \/ keeps(j, i)
      /\ \A i, j \in 1..n : keeps(i, j) /\ keeps(j, i) => i = j
      /\ \A i, j, k \in 1..n : keeps(i, j) /\ keeps(j, k) => keeps(i, k)
  <2>1. \A i \in 1..n : loaded[i] \in rows /\ i \in Nat
    BY <1>2
  <2>2. \A i \in 1..n : keeps(i, i)
    BY <1>3, <2>1
  <2>3. \A i, j \in 1..n : keeps(i, j) \/ keeps(j, i)
    BY <1>3, <2>1
  <2>4. \A i, j \in 1..n : keeps(i, j) /\ keeps(j, i) => i = j
    BY <1>3, <2>1
  <2>5. \A i, j, k \in 1..n : keeps(i, j) /\ keeps(j, k) => keeps(i, k)
    BY <1>3, <2>1
  <2> QED BY <2>2, <2>3, <2>4, <2>5
<1> HIDE DEF keeps
<1> DEFINE R == {p \in (1..n) \X (1..n) : keeps(p[1], p[2])}
<1>5. \A i, j \in 1..n : <<i, j>> \in R <=> keeps(i, j)
  OBVIOUS
<1>6. OrdersPlaces(R, n)
  <2>1. R \in SUBSET ((1..n) \X (1..n))
    OBVIOUS
  <2> HIDE DEF R
  <2> QED BY <1>4, <1>5, <2>1 DEF OrdersPlaces
<1> HIDE DEF R
<1>7. /\ \A i, j \in 1..n : Cardinality(AtOrAbove(R, n, i)) = Cardinality(AtOrAbove(R, n, j)) => i = j
      /\ \A m \in 1..n : \E k \in 1..n : Cardinality(AtOrAbove(R, n, k)) = m
  BY <1>2, <1>6, PlacesCounted
<1>8. \A k \in 1..n : above(k) = AtOrAbove(R, n, k)
  BY <1>2, <1>5 DEF AtOrAbove
<1> HIDE DEF above
<1>9. /\ \A i, j \in 1..n : Cardinality(above(i)) = Cardinality(above(j)) => i = j
      /\ \A m \in 1..n : \E k \in 1..n : Cardinality(above(k)) = m
  BY <1>7, <1>8
<1>10. \A m \in 1..n : from(m) \in 1..n /\ Cardinality(above(from(m))) = m
  BY <1>2, <1>9
<1> HIDE DEF from
<1>11. /\ s \in [1..n -> rows]
       /\ \A m \in 1..n : s[m] = loaded[from(m)]
  BY <1>2, <1>10
<1>12. \A i, j \in 1..n : s[i] = s[j] => i = j
  BY <1>2, <1>10, <1>11
<1>13. \A r \in rows : \E i \in 1..n : s[i] = r
  <2> SUFFICES ASSUME NEW r \in rows PROVE \E i \in 1..n : s[i] = r
    OBVIOUS
  <2>1. PICK k \in 1..n : loaded[k] = r
    BY <1>2
  <2>2. Cardinality(above(k)) \in 1..n
    <3>1. PICK m \in 1..n : k = from(m)
      <4> DEFINE g == [m \in 1..n |-> from(m)]
      <4>1. g \in Injection(1..n, 1..n)
        BY <1>10 DEF Injection, IsInjective
      <4>2. IsFiniteSet(1..n)
        BY <1>2, FS_Interval
      <4>3. g \in Surjection(1..n, 1..n)
        BY <4>1, <4>2, FS_Injection
      <4> QED BY <4>3 DEF Surjection
    <3> QED BY <1>10, <3>1
  <2>3. from(Cardinality(above(k))) = k
    BY <1>9, <1>10, <2>2
  <2> QED BY <1>11, <2>1, <2>2, <2>3
<1> HIDE DEF s
<1> QED BY <1>1, <1>2, <1>11, <1>12, <1>13 DEF n, OneEach

\* The pages of a list, and what they owe its rows.
PagesOf(s, n, size) == [p \in 1..((n + size - 1) \div size) |-> renderSignals(s, p, size).rows]
PagedOnce(pages, rows) ==
    /\ rows = UNION {Range(pages[p]) : p \in DOMAIN pages}
    /\ \A p, q \in DOMAIN pages : \A i \in DOMAIN pages[p], j \in DOMAIN pages[q] :
           pages[p][i] = pages[q][j] => p = q /\ i = j

\* Every row of a list is on one of its pages, at one place.
LEMMA PagesWhole ==
    ASSUME NEW rows, NEW n, NEW s, OneEach(s, rows, n), NEW size \in 1..2
    PROVE  PagedOnce(PagesOf(s, n, size), rows)
<1> DEFINE count == (n + size - 1) \div size
           low(p) == (p - 1) * size
           high(p) == IF p * size <= n THEN p * size ELSE n
           pages == PagesOf(s, n, size)
<1>0. /\ n \in Nat /\ s \in [1..n -> rows]
      /\ \A i, j \in 1..n : s[i] = s[j] => i = j
      /\ \A r \in rows : \E i \in 1..n : s[i] = r
  BY DEF OneEach
<1>1. s \in Seq(rows) /\ Len(s) = n
  BY <1>0, SeqDef, LenProperties
<1>2. DOMAIN pages = 1..count /\ count \in Nat /\ \A p \in 1..count : pages[p] = renderSignals(s, p, size).rows
  <2>1. size = 1 => count \in Nat
    BY <1>0
  <2>2. size = 2 => count \in Nat
    BY <1>0
  <2>3. count \in Nat
    BY <2>1, <2>2
  <2> QED BY <2>3 DEF PagesOf
<1> HIDE DEF pages
<1>3. ASSUME NEW p \in 1..count
      PROVE  /\ low(p) \in Nat /\ high(p) \in Nat /\ low(p) < n /\ low(p) < high(p) /\ high(p) <= n
             /\ high(p) - low(p) <= size
  <2>1. CASE size = 1
    BY <1>0, <2>1
  <2>2. CASE size = 2
    BY <1>0, <2>2
  <2>3. size = 1 \/ size = 2
    OBVIOUS
  <2> HIDE DEF low, high, count
  <2> QED BY <2>1, <2>2, <2>3, Zenon
<1>4. ASSUME NEW p \in 1..count
      PROVE  /\ DOMAIN pages[p] = 1..(high(p) - low(p))
             /\ \A i \in 1..(high(p) - low(p)) : low(p) + i \in 1..n /\ pages[p][i] = s[low(p) + i]
  <2>1. n > 0 /\ s # <<>>
    BY <1>1, <1>3, LenProperties
  <2>2. Min({p * size, Len(s)}) = high(p)
    <3>1. p * size \in Nat
      <4>1. CASE size = 1
        BY <1>0, <4>1
      <4>2. CASE size = 2
        BY <1>0, <4>2
      <4> QED BY <4>1, <4>2
    <3> DEFINE m == p * size
    <3>2. m \in Nat /\ (m <= n => Min({m, n}) = m) /\ (~(m <= n) => Min({m, n}) = n)
      <4> HIDE DEF m
      <4> QED BY <1>0, <3>1 DEF Min, m
    <3> QED BY <1>1, <3>2
  <2>3. renderSignals(s, p, size).rows = SubSeq(s, low(p) + 1, high(p))
    <3>1. (Len(s) + size - 1) \div size = count
      BY <1>1
    <3>2. ~(p > count)
      BY <1>2
    <3> HIDE DEF count, high
    <3> QED BY <2>1, <2>2, <3>1, <3>2 DEF renderSignals
  <2>4. pages[p] = SubSeq(s, low(p) + 1, high(p))
    BY <1>2, <2>3
  <2> DEFINE a == low(p) + 1
             b == high(p)
  <2>5. a \in 1..n /\ b \in 1..n /\ a <= b
    BY <1>0, <1>3
  <2>6. \A i \in a..b : s[i] \in rows
    <3> HIDE DEF a, b
    <3> QED BY <1>0, <2>5
  <2> HIDE DEF a, b, low, high
  <2>7. /\ SubSeq(s, a, b) \in Seq(rows) /\ Len(SubSeq(s, a, b)) = b - a + 1
        /\ \A i \in 1..(b - a + 1) : SubSeq(s, a, b)[i] = s[a + i - 1]
    BY <2>5, <2>6, SubSeqProperties
  <2>8. DOMAIN pages[p] = 1..(b - a + 1)
    BY <2>4, <2>7, LenProperties DEF a, b
  <2>9. low(p) \in Nat /\ high(p) \in Nat /\ high(p) <= n
    BY <1>3
  <2>10. a = low(p) + 1 /\ b = high(p)
    BY DEF a, b
  <2>11. b - a + 1 = high(p) - low(p)
    BY <2>9, <2>10
  <2>12. \A i \in 1..(high(p) - low(p)) : a + i - 1 = low(p) + i /\ low(p) + i \in 1..n
    <3> DEFINE lo == low(p)
               hi == high(p)
    <3>1. lo \in Nat /\ hi \in Nat /\ hi <= n /\ a = lo + 1
      BY <2>9, <2>10
    <3> HIDE DEF lo, hi
    <3>2. \A i \in 1..(hi - lo) : a + i - 1 = lo + i /\ lo + i \in 1..n
      BY <1>0, <3>1
    <3> QED BY <3>2 DEF lo, hi
  <2> QED BY <2>4, <2>7, <2>8, <2>10, <2>11, <2>12
<1>5. ASSUME NEW i \in 1..n
      PROVE  \E p \in 1..count : \E k \in 1..(high(p) - low(p)) : i = low(p) + k
  <2>1. CASE size = 1
    <3>1. i \in 1..count /\ low(i) = i - 1 /\ high(i) = i /\ 1 \in 1..(high(i) - low(i))
      BY <1>0, <2>1
    <3>2. i = low(i) + 1
      BY <3>1
    <3> QED BY <3>1, <3>2
  <2>2. CASE size = 2
    <3> DEFINE p == (i + 1) \div 2
    <3>1. p \in 1..count /\ low(p) = 2 * p - 2 /\ i - (2 * p - 2) \in 1..2 /\ i <= high(p)
      BY <1>0, <2>2
    <3>2. i - low(p) \in 1..(high(p) - low(p))
      <4> DEFINE lo == low(p)
                 hi == high(p)
      <4>1. i \in Int /\ lo = 2 * p - 2 /\ i - lo \in 1..2 /\ i <= hi /\ lo \in Int /\ hi \in Int
        BY <1>0, <1>3, <3>1
      <4> HIDE DEF lo, hi
      <4>2. i - lo \in 1..(hi - lo)
        BY <4>1
      <4> QED BY <4>2 DEF lo, hi
    <3> HIDE DEF p, low, high
    <3>3. i = low(p) + (i - low(p))
      BY <3>1
    <3> QED BY <3>1, <3>2, <3>3
  <2>3. size = 1 \/ size = 2
    OBVIOUS
  <2> HIDE DEF low, high, count
  <2> QED BY <2>1, <2>2, <2>3, Zenon
<1>6. ASSUME NEW p \in 1..count, NEW q \in 1..count, NEW i \in 1..(high(p) - low(p)),
             NEW j \in 1..(high(q) - low(q)), low(p) + i = low(q) + j
      PROVE  p = q /\ i = j
  <2>1. i \in 1..size /\ j \in 1..size
    <3> HIDE DEF high, low, count
    <3>1. /\ high(p) - low(p) <= size /\ high(q) - low(q) <= size
          /\ high(p) - low(p) \in Int /\ high(q) - low(q) \in Int
      BY <1>3
    <3> QED BY <3>1
  <2>2. CASE size = 1
    BY <1>6, <2>1, <2>2
  <2>3. CASE size = 2
    BY <1>6, <2>1, <2>3
  <2> QED BY <2>2, <2>3
<1> HIDE DEF low, high, count
<1>7. ASSUME NEW p \in DOMAIN pages, NEW q \in DOMAIN pages, NEW i \in DOMAIN pages[p], NEW j \in DOMAIN pages[q],
             pages[p][i] = pages[q][j]
      PROVE  p = q /\ i = j
  <2>0. /\ p \in 1..count /\ q \in 1..count
        /\ i \in 1..(high(p) - low(p)) /\ j \in 1..(high(q) - low(q))
    BY <1>2, <1>4
  <2>1. /\ low(p) + i \in 1..n /\ pages[p][i] = s[low(p) + i]
        /\ low(q) + j \in 1..n /\ pages[q][j] = s[low(q) + j]
    BY <1>4, <2>0
  <2>2. low(p) + i = low(q) + j
    <3> DEFINE x == low(p) + i
               y == low(q) + j
    <3>1. x \in 1..n /\ y \in 1..n /\ s[x] = s[y]
      BY <1>7, <2>1
    <3> HIDE DEF x, y
    <3>2. x = y
      BY <1>0, <3>1
    <3> QED BY <3>2 DEF x, y
  <2> QED BY <1>6, <2>0, <2>2
<1>8. ASSUME NEW p \in DOMAIN pages PROVE Range(pages[p]) \subseteq rows
  <2> SUFFICES ASSUME NEW i \in DOMAIN pages[p] PROVE pages[p][i] \in rows
    BY DEF Range
  <2>1. p \in 1..count
    BY <1>2
  <2>2. i \in 1..(high(p) - low(p))
    BY <1>4, <2>1
  <2>3. low(p) + i \in 1..n /\ pages[p][i] = s[low(p) + i]
    BY <1>4, <2>1, <2>2
  <2> QED BY <1>0, <2>3
<1>9. ASSUME NEW r \in rows PROVE \E p \in DOMAIN pages : r \in Range(pages[p])
  <2>1. PICK i \in 1..n : s[i] = r
    BY <1>0
  <2>2. PICK p \in 1..count : \E k \in 1..(high(p) - low(p)) : i = low(p) + k
    BY <1>5
  <2>3. PICK k \in 1..(high(p) - low(p)) : i = low(p) + k
    BY <1>0, <2>2
  <2>4. k \in DOMAIN pages[p] /\ pages[p][k] = r
    BY <1>4, <2>1, <2>3
  <2> QED BY <1>2, <2>4 DEF Range
<1>10. rows = UNION {Range(pages[p]) : p \in DOMAIN pages}
  BY <1>8, <1>9
<1>11. PagedOnce(pages, rows)
  BY <1>7, <1>10 DEF PagedOnce
<1> QED BY <1>11 DEF pages

\* The pages of a severity list its rows once, as RowsListed says it.
ListPaged(open, sev, size) ==
    LET rows == filterSignalRows(open, sev)
        page(n) == renderSignals(sortSignalRows(rows, "sev", "asc"), n, size).rows
        pages == [n \in 1..((Cardinality(rows) + size - 1) \div size) |-> page(n)]
    IN /\ rows = UNION {Range(pages[n]) : n \in DOMAIN pages}
       /\ \A m, n \in DOMAIN pages : \A i \in DOMAIN pages[m], j \in DOMAIN pages[n] :
               pages[m][i] = pages[n][j] => m = n /\ i = j

\* Every row that fires is listed once, and an accepted one as accepted.
LEMMA RowsDoStand == IdentityInv => RowsListed
<1> SUFFICES ASSUME IdentityInv PROVE RowsListed
  OBVIOUS
<1> DEFINE fired == firedPairs(buildSignalCorpus)
           pop == population(buildSignalCorpus)
           row(p) == [rule |-> p.rule, subject |-> p.subject, id |-> identityOf(p),
                      accepted |-> \E a \in annotations : a.rule = p.rule /\ a.subject = p.subject]
           open == {row(p) : p \in fired}
           annotated == {a \in annotations : [rule |-> a.rule, subject |-> a.subject] \in pop}
           withdrawn == {a \in annotations : [rule |-> a.rule, subject |-> a.subject] \notin pop}
<1>1. buildSignalTabs(fired, pop, annotations) = [open |-> open, annotated |-> annotated, withdrawn |-> withdrawn]
  BY DEF buildSignalTabs
<1>2. fired \subseteq PairsLoaded /\ IsFiniteSet(fired)
  BY CorpusFires, PairsFinite, FS_Subset
<1>3. fired \subseteq pop
  BY DEF firedPairs, population, Fired, OutsideDomain
<1>4. \A p \in PairsLoaded : p = [rule |-> p.rule, subject |-> p.subject] /\ p.subject \in SubjectsLoaded
  BY DEF PairsLoaded
<1>5. ASSUME NEW p \in fired PROVE identityOf(p) \in Nat
  <2> DEFINE is == {i \in instances : i.rule = p.rule /\ i.subject = p.subject}
  <2>1. CASE is = {}
    BY <2>1 DEF identityOf
  <2>2. CASE is # {}
    <3>1. PICK i \in instances : i \in is
      BY <2>2
    <3>2. is = {i}
      BY <3>1 DEF IdentityInv, RowsApart, Mints
    <3>3. i.id \in Nat
      BY DEF IdentityInv, RowsApart
    <3>4. {x.id : x \in {i}} = {i.id} /\ {i} # {}
      OBVIOUS
    <3>5. Max({i.id}) = i.id
      BY <3>3 DEF Max
    <3>6. identityOf(p) = i.id
      BY <3>2, <3>4, <3>5 DEF identityOf
    <3> QED BY <3>3, <3>6
  <2> QED BY <2>1, <2>2
<1> HIDE DEF fired, pop
<1>6. \A p \in fired : row(p).rule = p.rule /\ row(p).subject = p.subject /\ row(p).id = identityOf(p)
  OBVIOUS
<1>7. \A p \in fired : row(p).accepted <=> \E a \in annotations : a.rule = p.rule /\ a.subject = p.subject
  <2>1. \A p \in fired : row(p).accepted = (\E a \in annotations : a.rule = p.rule /\ a.subject = p.subject)
    OBVIOUS
  <2> QED BY <2>1, Zenon
<1> HIDE DEF row
<1>8. IsFiniteSet(open)
  <2> DEFINE g == [p \in fired |-> row(p)]
  <2>1. g \in Surjection(fired, open)
    BY DEF Surjection
  <2> QED BY <1>2, <2>1, FS_Surjection
<1>9. \A r \in open : Listed(r)
  BY <1>2, <1>4, <1>5, <1>6 DEF Listed
<1>10. annotated \cup withdrawn = annotations
  OBVIOUS
<1>11. ASSUME NEW r \in open, r.accepted
       PROVE  \E a \in annotated : a.rule = r.rule /\ a.subject = r.subject
  <2>1. PICK p \in fired : r = row(p)
    OBVIOUS
  <2>2. PICK a \in annotations : a.rule = p.rule /\ a.subject = p.subject
    BY <1>7, <1>11, <2>1
  <2>3. [rule |-> a.rule, subject |-> a.subject] = p
    BY <1>2, <1>4, <2>2
  <2>4. [rule |-> a.rule, subject |-> a.subject] \in pop
    BY <1>3, <2>3
  <2> QED BY <1>6, <2>1, <2>2, <2>4
<1> HIDE DEF open
<1>12. ASSUME NEW sev \in {"", "critical", "high"}, NEW size \in 1..2
       PROVE  ListPaged(open, sev, size)
  <2> DEFINE rows == filterSignalRows(open, sev)
             s == sortSignalRows(rows, "sev", "asc")
             n == Cardinality(rows)
  <2>1. rows \in SUBSET open
    BY DEF filterSignalRows
  <2>2. AllListed(rows)
    BY <1>8, <1>9, <2>1, FS_Subset DEF AllListed
  <2>3. PagedOnce(PagesOf(s, n, size), rows)
    <3> HIDE DEF rows
    <3>1. OneEach(sortSignalRows(rows, "sev", "asc"), rows, Cardinality(rows))
      BY <2>2, RowsSorted
    <3> HIDE DEF s, n
    <3> QED BY <3>1, PagesWhole DEF s, n
  <2> QED BY <2>3 DEF ListPaged, PagedOnce, PagesOf, rows, s, n
<1> DEFINE tabs == buildSignalTabs(fired, pop, annotations)
<1>13. tabs.open = open /\ tabs.annotated = annotated /\ tabs.withdrawn = withdrawn
  <2> HIDE DEF annotated, withdrawn
  <2> QED BY <1>1
<1> HIDE DEF annotated, withdrawn, tabs
<1>14. \A r \in tabs.open : r.accepted => \E a \in tabs.annotated : a.rule = r.rule /\ a.subject = r.subject
  BY <1>11, <1>13
<1>15. \A sev \in {"", "critical", "high"}, size \in 1..2 :
          ListPaged(tabs.open, sev, size)
  BY <1>12, <1>13
<1>16. tabs.annotated \cup tabs.withdrawn = annotations
  BY <1>10, <1>13 DEF annotated, withdrawn
<1> QED BY <1>14, <1>15, <1>16 DEF RowsListed, ListPaged, tabs, fired, pop

\* Whatever the loads, the folds and the operator do, a firing pair is named
\* alike on every page, the alarm, the board and the dashboard agree on a service
\* the alarm is about, and every row is listed once (signals.go, exposure.go).
THEOREM PagesAgreeHolds == SensitiveService => (BoardSpec => []PagesAgree)
<1> SUFFICES ASSUME SensitiveService PROVE BoardSpec => []PagesAgree
  OBVIOUS
<1>1. BoardInit => IdentityInv /\ LegsTyped
  BY DEF BoardInit, IdentityInv, RowsApart, LoadsServed, PaintedStands, LegsTyped
<1>2. IdentityInv /\ LegsTyped => PagesAgree
  BY ScreensDoAgree, RowsDoStand DEF PagesAgree, IdentityInv, RowsApart, PaintedStands, IdentityStands, Mints
<1> QED BY <1>1, <1>2, BoardStep, LegsStep, PTL DEF BoardSpec

-----------------------------------------------------------------------------
(* Cause: what a fold moves to fired is told in it, and what the clock moves *)
(* is told once.                                                             *)

\* What a lifetime rule says of a certificate at an instant.
CertSpan(c) == IF c.na - c.nb <= ShortValidity THEN (c.na - c.nb) \div 2 ELSE (c.na - c.nb) \div 3
Says(r, c, at) ==
    CASE r = "certificate-expired" -> c.na <= at
      [] r = "certificate-not-yet-valid" -> c.nb > at
      [] r = "certificate-expiring" -> c.na > at /\ c.na <= at + CertSpan(c)
Evaluable(c, seen, at) == c.dated /\ c.na > c.nb /\ at - seen <= CertSpan(c)
Reads(r, c, seen, at) ==
    IF c.outcome # "presented" THEN OutsideDomain
    ELSE IF Evaluable(c, seen, at) THEN Verdict(Says(r, c, at)) ELSE NotEvaluable

\* An outcome is one of four.
LEMMA OutcomesApart ==
    /\ Fired # NotFired /\ Fired # NotEvaluable /\ Fired # OutsideDomain
    /\ NotFired # NotEvaluable /\ NotFired # OutsideDomain /\ NotEvaluable # OutsideDomain
BY DEF Fired, NotFired, NotEvaluable, OutsideDomain

\* What a dated certificate's value says of its clock.
ClockOf(c, seen, at) == IF c.dated THEN {[nb |-> c.nb, na |-> c.na, observed |-> seen, now |-> at]} ELSE {}

\* The facts of an endpoint that presented the certificate: one detail, read at an instant.
Presents(f, c, seen, at) ==
    /\ f.measured = TRUE /\ f.outcome = c.outcome /\ c.outcome = "presented"
    /\ \E d : f.details = {d} /\ d.clock = ClockOf(c, seen, at)

\* What the lifetime rules make of such facts.
LEMMA ClockRuleReads ==
    ASSUME NEW c \in Cert, NEW seen \in Int, NEW at \in Int, NEW f, Presents(f, c, seen, at)
    PROVE  /\ certificateExpired(f) = Reads("certificate-expired", c, seen, at)
           /\ certificateNotYetValid(f) = Reads("certificate-not-yet-valid", c, seen, at)
           /\ certificateExpiring(f) = Reads("certificate-expiring", c, seen, at)
<1> DEFINE k == [nb |-> c.nb, na |-> c.na, observed |-> seen, now |-> at]
           ks == {x \in UNION {e.clock : e \in f.details} :
                       \E h \in CertHorizon(x.nb, x.na) : x.now - x.observed <= h}
<1>1. presentedCert(f) /\ c.outcome = "presented"
  BY DEF presentedCert, Presents
<1>2. UNION {e.clock : e \in f.details} = IF c.dated THEN {k} ELSE {}
  BY DEF ClockOf, Presents
<1>3. c.nb \in Int /\ c.na \in Int
  BY CauseAssumption
<1>4. CertHorizon(c.nb, c.na) = IF c.na > c.nb THEN {CertSpan(c)} ELSE {}
  BY <1>3 DEF CertHorizon, CertSpan
<1>5. k.nb = c.nb /\ k.na = c.na /\ k.observed = seen /\ k.now = at
  OBVIOUS
<1> HIDE DEF k
<1>6. ks = IF Evaluable(c, seen, at) THEN {k} ELSE {}
  BY <1>2, <1>4, <1>5 DEF Evaluable
<1>7. Evaluable(c, seen, at) => CertHorizon(c.nb, c.na) = {CertSpan(c)}
  BY <1>4 DEF Evaluable
<1>8. certificateExpired(f) = Reads("certificate-expired", c, seen, at)
  <2>1. certificateExpired(f) = IF ks = {} THEN NotEvaluable
                                ELSE Verdict(\E x \in ks : \E h \in CertHorizon(x.nb, x.na) : x.na <= x.now)
    BY <1>1 DEF certificateExpired, ClockRule
  <2> HIDE DEF ks
  <2> QED BY <2>1, <1>1, <1>5, <1>6, <1>7 DEF Reads, Says, Verdict
<1>9. certificateNotYetValid(f) = Reads("certificate-not-yet-valid", c, seen, at)
  <2>1. certificateNotYetValid(f) = IF ks = {} THEN NotEvaluable
                                ELSE Verdict(\E x \in ks : \E h \in CertHorizon(x.nb, x.na) : x.nb > x.now)
    BY <1>1 DEF certificateNotYetValid, ClockRule
  <2> HIDE DEF ks
  <2> QED BY <2>1, <1>1, <1>5, <1>6, <1>7 DEF Reads, Says, Verdict
<1>10. certificateExpiring(f) = Reads("certificate-expiring", c, seen, at)
  <2>1. certificateExpiring(f) = IF ks = {} THEN NotEvaluable
                                ELSE Verdict(\E x \in ks : \E h \in CertHorizon(x.nb, x.na) :
                                                x.na > x.now /\ x.na <= x.now + h)
    BY <1>1 DEF certificateExpiring, ClockRule
  <2> HIDE DEF ks
  <2> QED BY <2>1, <1>1, <1>5, <1>6, <1>7 DEF Reads, Says, Verdict
<1> QED BY <1>8, <1>9, <1>10

\* A lifetime rule reads the certificate, when it was seen, and the instant.
LEMMA EndpointReads ==
    ASSUME NEW c \in Cert, NEW seen \in Int, NEW at \in Int, NEW side, side.cert = {c}, NEW r \in ClockRules
    PROVE  endpointOutcomes(side, seen, at)[r] = Reads(r, c, seen, at)
<1> DEFINE f == EndpointFactsFrom(Host, {c}, seen, side.http, at, {})
<1>1. endpointOutcomes(side, seen, at)[r] = AllEndpointRules(f)[r]
  BY DEF endpointOutcomes, ClockRules, AllEndpointRules
<1>2. AllEndpointRules(f)[r] = CASE r = "certificate-expired" -> certificateExpired(f)
                                 [] r = "certificate-not-yet-valid" -> certificateNotYetValid(f)
                                 [] r = "certificate-expiring" -> certificateExpiring(f)
  BY DEF ClockRules, AllEndpointRules
<1>3. f.measured = TRUE /\ f.outcome = c.outcome /\ f.details = CertDetailsFromValue(c, seen, at, Host)
  BY DEF EndpointFactsFrom
<1> HIDE DEF f
<1>4. CASE c.outcome # "presented"
  <2>1. ~presentedCert(f)
    BY <1>3, <1>4 DEF presentedCert
  <2>2. /\ certificateExpired(f) = OutsideDomain /\ certificateNotYetValid(f) = OutsideDomain
        /\ certificateExpiring(f) = OutsideDomain
    BY <2>1 DEF certificateExpired, certificateNotYetValid, certificateExpiring, ClockRule
  <2> QED BY <1>1, <1>2, <1>4, <2>2 DEF Reads, ClockRules
<1>5. CASE c.outcome = "presented"
  <2> DEFINE d == [clock |-> ClockOf(c, seen, at),
                   san   |-> IF c.chain # <<>> /\ Host # <<>> THEN {SANMatchesName(c.sans, Host)} ELSE {},
                   weak  |-> IF c.chain # <<>> THEN {WeakKeyOrSignature(c.chain)} ELSE {},
                   self  |-> IF c.chain # <<>> /\ c.chain[1].verifies # {} THEN {SelfSignedOf(c.chain[1])} ELSE {}]
  <2>1. CertDetailsFromValue(c, seen, at, Host) = {d}
    BY <1>5 DEF CertDetailsFromValue, ClockOf
  <2>2. d.clock = ClockOf(c, seen, at)
    OBVIOUS
  <2> HIDE DEF d
  <2>3. /\ certificateExpired(f) = Reads("certificate-expired", c, seen, at)
        /\ certificateNotYetValid(f) = Reads("certificate-not-yet-valid", c, seen, at)
        /\ certificateExpiring(f) = Reads("certificate-expiring", c, seen, at)
    <3>1. Presents(f, c, seen, at)
      BY <1>3, <1>5, <2>1, <2>2 DEF Presents
    <3> QED BY <3>1, ClockRuleReads
  <2> QED BY <1>1, <1>2, <2>3 DEF ClockRules
<1> QED BY <1>4, <1>5

\* Where no certificate is open a lifetime rule reads nothing.
LEMMA NoCertReads ==
    ASSUME NEW seen, NEW at, NEW h, NEW t, NEW r \in ClockRules
    PROVE  endpointOutcomes(Side({}, h, t), seen, at)[r] = OutsideDomain
<1> DEFINE f == EndpointFactsFrom(Host, {}, seen, h, at, {})
<1>1. endpointOutcomes(Side({}, h, t), seen, at)[r] = AllEndpointRules(f)[r]
  BY DEF endpointOutcomes, Side, ClockRules, AllEndpointRules
<1>2. AllEndpointRules(f)[r] = CASE r = "certificate-expired" -> certificateExpired(f)
                                 [] r = "certificate-not-yet-valid" -> certificateNotYetValid(f)
                                 [] r = "certificate-expiring" -> certificateExpiring(f)
  BY DEF ClockRules, AllEndpointRules
<1>3. ~presentedCert(f)
  BY DEF EndpointFactsFrom, presentedCert
<1> HIDE DEF f
<1>4. /\ certificateExpired(f) = OutsideDomain /\ certificateNotYetValid(f) = OutsideDomain
      /\ certificateExpiring(f) = OutsideDomain
  BY <1>3 DEF certificateExpired, certificateNotYetValid, certificateExpiring, ClockRule
<1> QED BY <1>1, <1>2, <1>4 DEF ClockRules

\* A rule that came to fire between two instants does not come to fire again.
LEMMA CrossesOnce ==
    ASSUME NEW c \in Cert, NEW r \in ClockRules, NEW a \in Int, NEW b \in Int, NEW x \in Int, NEW y \in Int,
           a < b, b <= x, x < y, ~Says(r, c, a), Says(r, c, b), ~Says(r, c, x)
    PROVE  ~Says(r, c, y)
<1>1. c.nb \in Int /\ c.na \in Int /\ CertSpan(c) \in Int
  BY CauseAssumption DEF CertSpan
<1>2. CASE r = "certificate-expired"
  BY <1>1, <1>2 DEF Says
<1>3. CASE r = "certificate-not-yet-valid"
  BY <1>1, <1>3 DEF Says
<1>4. CASE r = "certificate-expiring"
  BY <1>1, <1>4 DEF Says
<1> QED BY <1>2, <1>3, <1>4 DEF ClockRules

-----------------------------------------------------------------------------
\* The two sides and the tables of a committing fold, and what it writes.
FoldOf ==
    [before |-> Side(cert, http, tls), after |-> Side(cert', http', tls'), reach |-> reach',
     seen |-> certSeen', rows |-> batches', at |-> now + 1]

\* What a batch shows of the certificate: nothing, or one value.
Shown(c) == c = {} \/ \E x \in Cert : c = {x}

\* A step that writes a folding batch is a committing fold.
LEMMA ACompleteStep ==
    ASSUME CauseNext, batches' # batches, ~unfoldedBatch
    PROVE  \E v, value, c, h, t : complete(v, value, c, h, t) /\ Shown(c)
<1>1. CASE Pass
  BY <1>1 DEF Pass
<1>2. CASE \E v \in Vantage : hotBatch(v)
  BY <1>2 DEF hotBatch, Shown
<1>3. CASE \E v \in Vantage : httpBatch(v)
  BY <1>3 DEF httpBatch, Shown
<1>4. CASE \E v \in Vantage : tlsBatch(v)
  BY <1>4 DEF tlsBatch, Shown
<1>5. CASE \E v \in Vantage : otherBatch(v)
  BY <1>5 DEF otherBatch, Shown
<1> QED BY <1>1, <1>2, <1>3, <1>4, <1>5 DEF CauseNext

\* The endpoint's rules read its certificate and its exchange.
LEMMA TlsUnread ==
    ASSUME NEW c, NEW h, NEW t, NEW u, NEW seen, NEW at
    PROVE  endpointOutcomes(Side(c, h, t), seen, at) = endpointOutcomes(Side(c, h, u), seen, at)
BY DEF endpointOutcomes, Side

\* A move of the endpoint's facets that takes a rule to fired is told in the fold.
LEMMA OpeningStep ==
    ASSUME [CauseNext]_causeVars, batches' # batches, Moved(cert, cert') \/ Moved(http, http')
    PROVE  LET b == endpointOutcomes(Side(cert, http, {}), now', now')
               a == endpointOutcomes(Side(cert', http', {}), now', now')
           IN \A r \in Opens(b, a, {OutsideDomain})
                       \cup {x \in Opens(b, a, {NotFired}) \ Muted : signalEdgeRule(x)} :
                 \E m \in told' : r \in m.rules
<1> DEFINE b == endpointOutcomes(Side(cert, http, {}), now', now')
           a == endpointOutcomes(Side(cert', http', {}), now', now')
<1>1. CauseNext /\ ~unfoldedBatch
  BY DEF unfoldedBatch, Moved, causeVars
<1>2. PICK v, value, c, h, t : complete(v, value, c, h, t)
  BY <1>1, ACompleteStep
<1>3. buildMessages(FoldOf) /\ now' = now + 1
  BY <1>2 DEF complete, FoldOf
<1>4. /\ FoldOf.before = Side(cert, http, tls) /\ FoldOf.after = Side(cert', http', tls')
      /\ FoldOf.at = now'
  BY <1>3 DEF FoldOf
<1>5. PICK p : \E q \in {p \cup {m \in facetMoveMessages(FoldOf, p) : m.rules # {}}} :
               \E s \in {q \cup signalEdgeMessages(FoldOf, q)} :
                   told' = s \cup certificateLifetimeMessages(FoldOf, s)
  BY <1>3 DEF buildMessages
<1> DEFINE q == p \cup {m \in facetMoveMessages(FoldOf, p) : m.rules # {}}
           s == q \cup signalEdgeMessages(FoldOf, q)
<1>6. q \subseteq told' /\ s \subseteq told'
  BY <1>5
<1> DEFINE k == [key |-> "endpoint", before |-> b, after |-> a]
<1>7. k \in movedSubjectsAtCause(FoldOf)
  <2>1. /\ FoldOf.before.cert = cert /\ FoldOf.after.cert = cert'
        /\ FoldOf.before.http = http /\ FoldOf.after.http = http'
    BY <1>4 DEF Side
  <2>2. b = endpointOutcomes(FoldOf.before, FoldOf.at, FoldOf.at)
    BY <1>4, TlsUnread
  <2>3. a = endpointOutcomes(FoldOf.after, FoldOf.at, FoldOf.at)
    BY <1>4, TlsUnread
  <2> HIDE DEF a, b
  <2> QED BY <2>1, <2>2, <2>3 DEF movedSubjectsAtCause
<1>8. k.key = "endpoint" /\ k.before = b /\ k.after = a
  OBVIOUS
<1> HIDE DEF a, b, k
<1>9. ASSUME NEW r \in Opens(b, a, {OutsideDomain})
      PROVE  \E m \in told' : r \in m.rules
  <2>1. CASE coveredByPrior(p, "endpoint", r)
    BY <2>1, <1>6 DEF coveredByPrior
  <2>2. CASE ~coveredByPrior(p, "endpoint", r)
    <3> DEFINE m == Message("facet-move", k.key,
                            {x \in Opens(k.before, k.after, {OutsideDomain}) : ~coveredByPrior(p, k.key, x)})
    <3>1. m \in facetMoveMessages(FoldOf, p)
      BY <1>7 DEF facetMoveMessages
    <3>2. r \in m.rules
      BY <2>2, <1>8 DEF Message
    <3> HIDE DEF m
    <3> QED BY <3>1, <3>2, <1>6
  <2> QED BY <2>1, <2>2
<1>10. ASSUME NEW r \in Opens(b, a, {NotFired}) \ Muted, signalEdgeRule(r)
       PROVE  \E m \in told' : r \in m.rules
  <2> HIDE DEF q
  <2>1. CASE coveredByPrior(q, "endpoint", r)
    BY <2>1, <1>6 DEF coveredByPrior
  <2>2. CASE ~coveredByPrior(q, "endpoint", r)
    <3> DEFINE R == {x \in Opens(k.before, k.after, {NotFired}) :
                        /\ signalEdgeRule(x) /\ ~coveredByPrior(q, k.key, x)
                        /\ ~(k.key = "endpoint" /\ x \in Muted)}
               m == Message("signal-edge", k.key, {r})
    <3>1. r \in R
      BY <2>2, <1>8, <1>10
    <3>2. m \in {Message("signal-edge", k.key, {x}) : x \in R}
      BY <3>1
    <3> HIDE DEF R
    <3>3. m \in signalEdgeMessages(FoldOf, q)
      <4> USE DEF R
      <4> HIDE DEF m
      <4> QED BY <1>7, <3>2 DEF signalEdgeMessages
    <3>4. r \in m.rules
      BY DEF Message
    <3> HIDE DEF m
    <3> QED BY <3>3, <3>4, <1>6
  <2> QED BY <2>1, <2>2
<1> QED BY <1>9, <1>10 DEF a, b

-----------------------------------------------------------------------------
\* The instants of the batches that fold.
FoldTimes == {b.at : b \in {x \in batches : x.folds}}

ClockTyped ==
    /\ now \in Nat /\ certSeen \in Nat /\ certSeen <= now /\ Shown(cert)
    /\ IsFiniteSet(FoldTimes) /\ \A t \in FoldTimes : t \in Nat /\ t < now

\* The readings of the tenure, the last of them at the last fold.
FoldsRead(n, S, T) ==
    /\ tenure.folds = [i \in 1..n |-> readClockRules(cert, S[i], T[i])]
    /\ \A i \in 1..n : T[i] \in FoldTimes /\ S[i] <= certSeen
    /\ n > 0 => \A t \in FoldTimes : t <= T[n]
    /\ cert # {} => n > 0
TenureRead == \E n \in Nat : \E S, T \in [1..n -> Nat] : FoldsRead(n, S, T)

ClockEdges == {Message("clock-edge", "endpoint", {r}) : r \in ClockRules}
Crossed(r) == \E i \in DOMAIN tenure.edges : r \in tenure.edges[i].rules

\* An edge is told of a certificate that crossed by the last fold, and by one message.
EdgeStands(r) ==
    /\ \A i, j \in DOMAIN tenure.edges : r \in tenure.edges[i].rules /\ r \in tenure.edges[j].rules => i = j
    /\ Crossed(r) => \E c \in Cert : /\ cert = {c}
                                    /\ \E a, b \in Nat : /\ a < b /\ ~Says(r, c, a) /\ Says(r, c, b)
                                                        /\ \E t \in FoldTimes : b <= t

\* Two readings about a crossing, with none between that could not be taken, are told.
CrossingTold(r) ==
    (/\ \A i \in DOMAIN tenure.folds : tenure.folds[i][r] # NotEvaluable
     /\ \E i, j \in DOMAIN tenure.folds : i < j /\ tenure.folds[i][r] = NotFired /\ tenure.folds[j][r] = Fired)
    => Crossed(r)

CauseInv ==
    /\ ClockTyped /\ TenureRead /\ tenure.edges \in Seq(ClockEdges)
    /\ \A r \in ClockRules \ Muted : EdgeStands(r) /\ CrossingTold(r)

\* The window of a fold: the last folding batch before it, and its own.
LEMMA FoldWindow ==
    ASSUME ClockTyped, NEW L \in FoldTimes, \A t \in FoldTimes : t <= L,
           NEW rows, rows = batches \cup {[at |-> now, folds |-> TRUE]}
    PROVE  FoldedBatchWindow(rows) = [ok |-> TRUE, prev |-> L, latest |-> now]
<1> DEFINE ts == {b.at : b \in {x \in rows : x.folds}}
<1>1. ts = FoldTimes \cup {now}
  <2> DEFINE k == [at |-> now, folds |-> TRUE]
  <2>1. k.at = now /\ k.folds
    OBVIOUS
  <2> HIDE DEF k
  <2>2. {x \in rows : x.folds} = {x \in batches : x.folds} \cup {k}
    BY <2>1 DEF k
  <2> QED BY <2>1, <2>2 DEF FoldTimes
<1>2. IsFiniteSet(FoldTimes) /\ now \notin FoldTimes /\ now \in Nat
  BY DEF ClockTyped
<1>3. Cardinality(ts) > 1
  <2>1. Cardinality(ts) = Cardinality(FoldTimes) + 1
    BY <1>1, <1>2, FS_AddElement
  <2>2. Cardinality(FoldTimes) \in Nat /\ Cardinality(FoldTimes) # 0
    BY <1>2, FS_CardinalityType, FS_EmptySet
  <2> HIDE DEF ts
  <2> QED BY <2>1, <2>2
<1> HIDE DEF ts
<1>4. Max(ts) = now
  <2>1. now \in ts /\ \A y \in ts : now >= y
    BY <1>1 DEF ClockTyped
  <2>2. \A x \in ts : (\A y \in ts : x >= y) => x = now
    BY <1>1, <1>2 DEF ClockTyped
  <2> QED BY <2>1, <2>2 DEF Max
<1>5. Max({0} \cup (ts \ {Max(ts)})) = L
  <2> DEFINE U == {0} \cup (ts \ {Max(ts)})
  <2>1. U = {0} \cup FoldTimes
    BY <1>1, <1>2, <1>4
  <2> HIDE DEF U
  <2>2. L \in U /\ \A y \in U : L >= y
    BY <2>1 DEF ClockTyped
  <2>3. \A x \in U : (\A y \in U : x >= y) => x = L
    BY <2>1, <2>2 DEF ClockTyped
  <2>4. Max(U) = L
    BY <2>2, <2>3 DEF Max
  <2> QED BY <2>4 DEF U
<1>6. FoldedBatchWindow(rows) = [ok |-> Cardinality(ts) > 1, prev |-> Max({0} \cup (ts \ {Max(ts)})),
                                 latest |-> Max(ts)]
  BY DEF FoldedBatchWindow, ts
<1>7. (Cardinality(ts) > 1) = TRUE
  BY <1>3
<1> QED BY <1>4, <1>5, <1>6, <1>7, Zenon

\* Where the certificate stands no earlier message of the fold carries a lifetime rule.
LEMMA PriorSilent ==
    ASSUME now \in Nat, Shown(cert), cert' = cert, NEW p, NEW q, NEW s, NEW r \in ClockRules,
           p = flagshipMessages(FoldOf) \cup gapCloseMessages(FoldOf),
           q = p \cup {m \in facetMoveMessages(FoldOf, p) : m.rules # {}},
           s = q \cup signalEdgeMessages(FoldOf, q)
    PROVE  ~coveredByPrior(s, "endpoint", r)
<1>1. FoldOf.before = Side(cert, http, tls) /\ FoldOf.after = Side(cert, http', tls') /\ FoldOf.at = now + 1
  BY DEF FoldOf
<1>2. endpointOutcomes(FoldOf.before, FoldOf.at, FoldOf.at)[r]
        = endpointOutcomes(FoldOf.after, FoldOf.at, FoldOf.at)[r]
  <2>1. CASE cert = {}
    BY <2>1, <1>1, NoCertReads
  <2>2. CASE \E c \in Cert : cert = {c}
    <3>1. PICK c \in Cert : cert = {c}
      BY <2>2
    <3> DEFINE n == now + 1
    <3>2. n \in Int
      OBVIOUS
    <3> HIDE DEF n
    <3>3. FoldOf.at = n
      BY <1>1 DEF n
    <3>4. FoldOf.before.cert = {c} /\ FoldOf.after.cert = {c}
      BY <3>1, <1>1 DEF Side
    <3>5. /\ endpointOutcomes(FoldOf.before, n, n)[r] = Reads(r, c, n, n)
          /\ endpointOutcomes(FoldOf.after, n, n)[r] = Reads(r, c, n, n)
      BY <3>2, <3>4, EndpointReads
    <3> QED BY <3>3, <3>5
  <2> QED BY <2>1, <2>2 DEF Shown
<1> DEFINE b == endpointOutcomes(FoldOf.before, FoldOf.at, FoldOf.at)
           a == endpointOutcomes(FoldOf.after, FoldOf.at, FoldOf.at)
<1>3. b[r] = a[r]
  BY <1>2
<1>4. \A side, leg : r \notin DOMAIN serviceOutcomes(side, leg)
  BY DEF serviceOutcomes, AllServiceRules, ClockRules, SensitivePort
<1>5. \A l, m : r \notin censusWithRules(FoldOf, l, m)
  <2>1. r \notin Opens(b, a, Outcomes \ {Fired})
    BY <1>3 DEF Opens
  <2>2. \A x, y : r \notin Opens(x, serviceOutcomes(FoldOf.after, y), Outcomes \ {Fired})
    BY <1>4 DEF Opens
  <2> QED BY <2>1, <2>2 DEF censusWithRules
<1>6. \A m \in p : r \notin m.rules
  <2>1. \A m \in flagshipMessages(FoldOf) : r \notin m.rules
    <3>1. r \notin Message("flagship", "service",
                         censusWithRules(FoldOf, {"not-reached"}, {"reached"})).rules
      BY <1>5 DEF Message
    <3> QED BY <3>1 DEF flagshipMessages
  <2>2. \A m \in gapCloseMessages(FoldOf) : r \notin m.rules
    BY <1>5 DEF gapCloseMessages, Message
  <2> QED BY <2>1, <2>2
<1>7. \A k \in movedSubjectsAtCause(FoldOf) : \A o : ~(r \in Opens(k.before, k.after, {o}) /\ o # Fired)
  <2> SUFFICES ASSUME NEW k \in movedSubjectsAtCause(FoldOf), NEW o, r \in Opens(k.before, k.after, {o}), o # Fired
               PROVE  FALSE
    OBVIOUS
  <2>1. CASE k = [key |-> "endpoint", before |-> b, after |-> a]
    <3> HIDE DEF a, b
    <3>1. k.before = b /\ k.after = a
      BY <2>1
    <3> QED BY <3>1, <1>3 DEF Opens
  <2>2. CASE k = [key |-> "service", before |-> serviceOutcomes(FoldOf.before, {}),
                  after |-> serviceOutcomes(FoldOf.after, {})]
    <3>1. k.after = serviceOutcomes(FoldOf.after, {})
      BY <2>2
    <3> QED BY <3>1, <1>4 DEF Opens
  <2> QED BY <2>1, <2>2 DEF movedSubjectsAtCause
<1>8. \A m \in facetMoveMessages(FoldOf, p) : r \notin m.rules
  <2> SUFFICES ASSUME NEW k \in movedSubjectsAtCause(FoldOf), NEW m,
                      m = Message("facet-move", k.key,
                            {x \in Opens(k.before, k.after, {OutsideDomain}) : ~coveredByPrior(p, k.key, x)}),
                      r \in m.rules
               PROVE  FALSE
    BY DEF facetMoveMessages
  <2>1. r \in Opens(k.before, k.after, {OutsideDomain})
    BY DEF Message
  <2> QED BY <2>1, <1>7, OutcomesApart
<1>9. \A m \in signalEdgeMessages(FoldOf, q) : r \notin m.rules
  <2> SUFFICES ASSUME NEW k \in movedSubjectsAtCause(FoldOf),
                      NEW x \in {y \in Opens(k.before, k.after, {NotFired}) :
                                   /\ signalEdgeRule(y) /\ ~coveredByPrior(q, k.key, y)
                                   /\ ~(k.key = "endpoint" /\ y \in Muted)},
                      NEW m, m = Message("signal-edge", k.key, {x})
               PROVE  r \notin m.rules
    BY DEF signalEdgeMessages
  <2>1. m.rules = {x}
    BY DEF Message
  <2> QED BY <2>1 DEF signalEdgeRule
<1> QED BY <1>6, <1>8, <1>9 DEF coveredByPrior

\* The certificate that stands came to fire since the last fold.
Crosses(r, seen) ==
    \E x \in Cert, L \in FoldTimes : /\ cert = {x} /\ \A t \in FoldTimes : t <= L
                                    /\ Reads(r, x, seen, L) = NotFired /\ Reads(r, x, seen, now) = Fired

\* The clock edges of a fold are the rules that came to fire since the one before.
LEMMA EdgesOfFold ==
    ASSUME ClockTyped, TenureRead, NEW v, NEW value, NEW c, NEW h, NEW t, complete(v, value, c, h, t), cert' = cert
    PROVE  {m \in told' : m.cause = "clock-edge"}
             = {Message("clock-edge", "endpoint", {r}) : r \in {x \in ClockRules \ Muted : Crosses(x, certSeen')}}
<1> DEFINE R == {x \in ClockRules \ Muted : Crosses(x, certSeen')}
           P == flagshipMessages(FoldOf) \cup gapCloseMessages(FoldOf)
           Q == P \cup {m \in facetMoveMessages(FoldOf, P) : m.rules # {}}
           S == Q \cup signalEdgeMessages(FoldOf, Q)
           M == certificateLifetimeMessages(FoldOf, S)
<1>1. told' = S \cup M
  <2>1. buildMessages(FoldOf)
    BY DEF complete, FoldOf
  <2> QED BY <2>1 DEF buildMessages
<1>2. /\ FoldOf.before = Side(cert, http, tls) /\ FoldOf.after = Side(cert, http', tls') /\ FoldOf.seen = certSeen'
      /\ FoldOf.rows = batches'
  BY DEF FoldOf
<1>3. FoldOf.before.cert = cert /\ FoldOf.after.cert = cert
  BY <1>2 DEF Side
<1>4. now \in Nat /\ certSeen' \in Int /\ Shown(cert)
  BY DEF complete, ClockTyped
<1>5. \A r \in ClockRules : ~coveredByPrior(S, "endpoint", r)
  BY <1>4, PriorSilent
<1>6. \A m \in S : m.cause # "clock-edge"
  <2>1. \A m \in P : m.cause # "clock-edge"
    BY DEF flagshipMessages, gapCloseMessages, Message
  <2>2. \A m \in facetMoveMessages(FoldOf, P) : m.cause # "clock-edge"
    BY DEF facetMoveMessages, Message
  <2>3. \A m \in signalEdgeMessages(FoldOf, Q) : m.cause # "clock-edge"
    <3> SUFFICES ASSUME NEW k, NEW x, NEW m, m = Message("signal-edge", k.key, {x})
                 PROVE  m.cause # "clock-edge"
      BY DEF signalEdgeMessages
    <3> QED BY DEF Message
  <2> QED BY <2>1, <2>2, <2>3
<1> HIDE DEF S
<1>7. M = {Message("clock-edge", "endpoint", {r}) : r \in R}
  <2> DEFINE w == FoldedBatchWindow(FoldOf.rows)
  <2>1. CASE cert = {}
    <3>1. R = {}
      BY <2>1 DEF Crosses
    <3>2. M = {}
      BY <2>1, <1>3 DEF certificateLifetimeMessages
    <3> QED BY <3>1, <3>2
  <2>2. CASE cert # {}
    <3>1. PICK x \in Cert : cert = {x}
      BY <2>2, <1>4 DEF Shown
    <3>2. PICK L \in FoldTimes : \A u \in FoldTimes : u <= L
      BY <2>2 DEF TenureRead, FoldsRead
    <3>3. w = [ok |-> TRUE, prev |-> L, latest |-> now]
      <4>1. FoldOf.rows = batches \cup {[at |-> now, folds |-> TRUE]}
        BY <1>2 DEF complete
      <4> QED BY <4>1, <3>2, FoldWindow
    <3>4. w.ok /\ w.prev = L /\ w.latest = now
      BY <3>3
    <3> DEFINE b == readClockRules(cert, certSeen', L)
               a == readClockRules(cert, certSeen', now)
    <3>5. M = {Message("clock-edge", "endpoint", {r}) : r \in clockCrossings(b, a, S) \ Muted}
      <4> HIDE DEF w
      <4>1. M = {Message(IF FoldOf.before.cert # FoldOf.after.cert THEN "signal-edge" ELSE "clock-edge",
                         "endpoint", {r}) : r \in clockCrossings(b, a, S) \ Muted}
        BY <2>2, <1>2, <1>3, <3>4 DEF certificateLifetimeMessages, w
      <4> QED BY <4>1, <1>3
    <3>6. \A r \in ClockRules : b[r] = Reads(r, x, certSeen', L) /\ a[r] = Reads(r, x, certSeen', now)
      <4>1. L \in Int /\ now \in Int
        BY DEF ClockTyped
      <4>2. \A r \in ClockRules, at \in Int : endpointOutcomes(Side({x}, {}, {}), certSeen', at)[r]
                                              = Reads(r, x, certSeen', at)
        BY <1>4, EndpointReads DEF Side
      <4> QED BY <3>1, <4>1, <4>2 DEF readClockRules
    <3>7. DOMAIN a = ClockRules
      BY DEF readClockRules
    <3> HIDE DEF a, b
    <3>8. clockCrossings(b, a, S) = {r \in ClockRules : Reads(r, x, certSeen', L) = NotFired
                                                      /\ Reads(r, x, certSeen', now) = Fired}
      BY <1>5, <3>6, <3>7 DEF clockCrossings, Opens
    <3>9. \A K \in FoldTimes : (\A u \in FoldTimes : u <= K) => K = L
      BY <3>2 DEF ClockTyped
    <3>10. clockCrossings(b, a, S) \ Muted = R
      <4>1. \A r : Crosses(r, certSeen') <=> /\ Reads(r, x, certSeen', L) = NotFired
                                            /\ Reads(r, x, certSeen', now) = Fired
        BY <3>1, <3>2, <3>9 DEF Crosses
      <4> QED BY <3>8, <4>1
    <3> QED BY <3>5, <3>10
  <2> QED BY <2>1, <2>2
<1>8. \A r : Message("clock-edge", "endpoint", {r}).cause = "clock-edge"
  BY DEF Message
<1> HIDE DEF M, R
<1>9. \A m \in M : m.cause = "clock-edge"
  BY <1>7, <1>8
<1> QED BY <1>1, <1>6, <1>7, <1>9 DEF R

-----------------------------------------------------------------------------

\* There are three clock edges to tell of an endpoint.
LEMMA ClockEdgesFinite == IsFiniteSet(ClockEdges)
<1> DEFINE m(r) == Message("clock-edge", "endpoint", {r})
           A == {m("certificate-expired")}
           B == A \cup {m("certificate-not-yet-valid")}
           C == B \cup {m("certificate-expiring")}
<1>1. ClockEdges = C
  BY DEF ClockEdges, ClockRules
<1>2. IsFiniteSet(A)
  BY FS_Singleton
<1> HIDE DEF A
<1>3. IsFiniteSet(B)
  BY <1>2, FS_AddElement
<1> HIDE DEF B
<1>4. IsFiniteSet(C)
  BY <1>3, FS_AddElement
<1> QED BY <1>1, <1>4

\* One more reading after those of a tenure.
LEMMA OneMore ==
    ASSUME NEW n \in Nat, NEW f, f = [i \in 1..n |-> f[i]], NEW x
    PROVE  f \o <<x>> = [i \in 1..(n + 1) |-> IF i <= n THEN f[i] ELSE x]
<1> DEFINE X == {f[i] : i \in 1..n} \cup {x}
           g == <<x>>
           s == [i \in 1..(n + 1) |-> IF i <= n THEN f[i] ELSE x]
<1>1. f \in Seq(X) /\ Len(f) = n
  <2>1. f \in [1..n -> X]
    OBVIOUS
  <2> HIDE DEF X
  <2> QED BY <2>1, SeqDef, LenProperties
<1>2. g \in Seq(X) /\ Len(g) = 1 /\ g[1] = x
  <2>1. x \in X
    OBVIOUS
  <2> HIDE DEF X
  <2> QED BY <2>1
<1> HIDE DEF X, g
<1>3. /\ f \o g \in Seq(X) /\ Len(f \o g) = n + 1
      /\ \A i \in 1..(n + 1) : (f \o g)[i] = IF i <= n THEN f[i] ELSE g[i - n]
  <2>1. /\ f \o g \in Seq(X) /\ Len(f \o g) = Len(f) + Len(g)
        /\ \A i \in 1..(Len(f) + Len(g)) : (f \o g)[i] = IF i <= Len(f) THEN f[i] ELSE g[i - Len(f)]
    BY <1>1, <1>2, ConcatProperties, Zenon
  <2> QED BY <1>1, <1>2, <2>1
<1>4. DOMAIN (f \o g) = 1..(n + 1) /\ f \o g = [i \in DOMAIN (f \o g) |-> (f \o g)[i]]
  BY <1>3, LenProperties, SeqDef
<1>5. \A i \in 1..(n + 1) : (f \o g)[i] = s[i]
  BY <1>2, <1>3
<1> QED BY <1>4, <1>5 DEF g

\* A fold dates itself by the clock.
LEMMA FoldDated ==
    ASSUME NEW v, NEW value, NEW c, NEW h, NEW t, complete(v, value, c, h, t), ClockTyped, Shown(c)
    PROVE  FoldTimes' = FoldTimes \cup {now} /\ ClockTyped' /\ certSeen <= certSeen'
<1>1. FoldTimes' = FoldTimes \cup {now}
  <2> DEFINE k == [at |-> now, folds |-> TRUE]
  <2>1. k.at = now /\ k.folds
    OBVIOUS
  <2>2. batches' = batches \cup {k}
    BY DEF complete
  <2> HIDE DEF k
  <2>3. {x \in batches' : x.folds} = {x \in batches : x.folds} \cup {k}
    BY <2>1, <2>2
  <2> QED BY <2>1, <2>3 DEF FoldTimes
<1>2. now' = now + 1 /\ certSeen' = IF c = {} THEN certSeen ELSE now + 1
  BY DEF complete
<1>3. cert' = IF c = {} THEN cert ELSE c
  BY DEF complete
<1>4. IsFiniteSet(FoldTimes')
  BY <1>1, FS_AddElement DEF ClockTyped
<1>5. \A x \in FoldTimes' : x \in Nat /\ x < now'
  BY <1>1, <1>2 DEF ClockTyped
<1>6. Shown(cert)'
  BY <1>3 DEF ClockTyped, Shown
<1>7. now' \in Nat /\ certSeen' \in Nat /\ certSeen' <= now' /\ certSeen <= certSeen'
  BY <1>2 DEF ClockTyped
<1> HIDE DEF FoldTimes
<1> QED BY <1>1, <1>4, <1>5, <1>6, <1>7 DEF ClockTyped

\* A fold that brings another certificate begins its tenure.
LEMMA NewTenureStep ==
    ASSUME CauseInv, NEW v, NEW value, NEW c, NEW h, NEW t, complete(v, value, c, h, t), Shown(c), cert' # cert
    PROVE  CauseInv'
<1>1. FoldTimes' = FoldTimes \cup {now} /\ ClockTyped'
  BY FoldDated DEF CauseInv
<1> DEFINE x == readClockRules(cert', certSeen', now)
<1>2. tenure' = [NewTenure EXCEPT !.folds = <<x>>]
  BY DEF complete
<1> HIDE DEF x
<1>3. tenure'.folds = <<x>> /\ tenure'.edges = << >>
  BY <1>2 DEF NewTenure
<1>4. TenureRead'
  <2>0. PICK sn \in Nat, tn \in Nat : sn = certSeen' /\ tn = now
    BY <1>1 DEF ClockTyped, CauseInv
  <2> DEFINE S == [i \in 1..1 |-> sn]
             T == [i \in 1..1 |-> tn]
  <2>1. S \in [1..1 -> Nat] /\ T \in [1..1 -> Nat]
    OBVIOUS
  <2>2. <<x>> = [i \in 1..1 |-> readClockRules(cert', S[i], T[i])]
    BY <2>0 DEF x
  <2>3. \A i \in 1..1 : T[i] \in FoldTimes' /\ S[i] <= certSeen'
    BY <1>1, <2>0 DEF ClockTyped
  <2>4. \A u \in FoldTimes' : u <= T[1]
    BY <1>1, <2>0 DEF ClockTyped, CauseInv
  <2> HIDE DEF S, T
  <2>5. FoldsRead(1, S, T)'
    BY <1>3, <2>2, <2>3, <2>4 DEF FoldsRead
  <2> QED BY <2>1, <2>5 DEF TenureRead
<1>5. tenure'.edges \in Seq(ClockEdges)
  BY <1>3, EmptySeq
<1>6. ASSUME NEW r \in ClockRules \ Muted
      PROVE  EdgeStands(r)' /\ CrossingTold(r)'
  <2>1. DOMAIN tenure'.edges = {} /\ DOMAIN tenure'.folds = 1..1
    BY <1>3
  <2>2. ~Crossed(r)'
    BY <2>1 DEF Crossed
  <2>3. EdgeStands(r)'
    BY <2>1, <2>2 DEF EdgeStands
  <2>4. \A i, j \in 1..1 : ~(i < j)
    OBVIOUS
  <2>5. CrossingTold(r)'
    BY <2>1, <2>4 DEF CrossingTold
  <2> QED BY <2>3, <2>5
<1> QED BY <1>1, <1>4, <1>5, <1>6 DEF CauseInv

\* A fold under which the certificate stands adds a reading, and its edges.
LEMMA StandingTables ==
    ASSUME CauseInv, NEW v, NEW value, NEW c, NEW h, NEW t, complete(v, value, c, h, t), Shown(c), cert' = cert,
           NEW n \in Nat, NEW S \in [1..n -> Nat], NEW T \in [1..n -> Nat], FoldsRead(n, S, T)
    PROVE  /\ tenure'.folds = [i \in 1..(n + 1) |-> IF i <= n THEN tenure.folds[i]
                                                   ELSE readClockRules(cert, certSeen', now)]
           /\ tenure'.edges \in Seq(ClockEdges)
           /\ \A i \in DOMAIN tenure.edges : i \in DOMAIN tenure'.edges /\ tenure'.edges[i] = tenure.edges[i]
           /\ \A r \in ClockRules \ Muted : Crosses(r, certSeen') =>
                  \E i \in DOMAIN tenure'.edges : r \in tenure'.edges[i].rules
           /\ \A i \in DOMAIN tenure'.edges : i \notin DOMAIN tenure.edges =>
                  \E r \in ClockRules \ Muted : Crosses(r, certSeen') /\ tenure'.edges[i].rules = {r}
           /\ \A i, j \in DOMAIN tenure'.edges : i \notin DOMAIN tenure.edges /\ j \notin DOMAIN tenure.edges
                  /\ tenure'.edges[i].rules = tenure'.edges[j].rules => i = j
<1> DEFINE x == readClockRules(cert, certSeen', now)
           E == {m \in told' : m.cause = "clock-edge"}
           R == {r \in ClockRules \ Muted : Crosses(r, certSeen')}
           m(r) == Message("clock-edge", "endpoint", {r})
           g == SetToSeq(E)
           es == tenure.edges
<1>1. tenure' = [folds |-> tenure.folds \o <<x>>, edges |-> es \o g]
  BY DEF complete
<1>2. tenure'.folds = tenure.folds \o <<x>> /\ tenure'.edges = es \o g
  BY <1>1
<1>3. tenure'.folds = [i \in 1..(n + 1) |-> IF i <= n THEN tenure.folds[i] ELSE x]
  <2>1. tenure.folds = [i \in 1..n |-> tenure.folds[i]]
    BY DEF FoldsRead
  <2> HIDE DEF x
  <2> QED BY <1>2, <2>1, OneMore
<1>4. E = {m(r) : r \in R}
  BY EdgesOfFold DEF CauseInv
<1>5. \A r : m(r).rules = {r} /\ m(r).cause = "clock-edge" /\ m(r).at = "endpoint"
  BY DEF Message
<1>6. E \subseteq ClockEdges /\ IsFiniteSet(E)
  <2>1. E \subseteq ClockEdges
    BY <1>4 DEF ClockEdges
  <2> QED BY <2>1, ClockEdgesFinite, FS_Subset
<1> HIDE DEF E, x
<1>7. /\ g \in Seq(E) /\ Len(g) \in Nat /\ DOMAIN g = 1..Len(g)
      /\ \A k \in DOMAIN g : g[k] \in E
      /\ \A j, k \in DOMAIN g : g[j] = g[k] => j = k
      /\ \A p \in E : \E k \in DOMAIN g : g[k] = p
  BY <1>6, LaidOut
<1> HIDE DEF g
<1>8. g \in Seq(ClockEdges) /\ es \in Seq(ClockEdges)
  <2>1. g \in [1..Len(g) -> ClockEdges]
    BY <1>6, <1>7, LenProperties
  <2> QED BY <1>7, <2>1, SeqDef DEF CauseInv
<1> HIDE DEF es
<1>9. /\ es \o g \in Seq(ClockEdges) /\ Len(es \o g) = Len(es) + Len(g)
      /\ \A i \in 1..(Len(es) + Len(g)) : (es \o g)[i] = IF i <= Len(es) THEN es[i] ELSE g[i - Len(es)]
  BY <1>8, ConcatProperties, Zenon
<1>10. Len(es) \in Nat /\ DOMAIN es = 1..Len(es) /\ DOMAIN (es \o g) = 1..(Len(es) + Len(g))
  BY <1>8, <1>9, LenProperties
<1> DEFINE z == es \o g
<1> HIDE DEF z
<1>11. \A i \in DOMAIN es : i \in DOMAIN z /\ z[i] = es[i]
  BY <1>7, <1>9, <1>10 DEF z
<1>12. \A i \in DOMAIN z : i \notin DOMAIN es => i - Len(es) \in DOMAIN g /\ z[i] = g[i - Len(es)]
  BY <1>7, <1>9, <1>10 DEF z
<1>13. \A k \in DOMAIN g : k + Len(es) \in DOMAIN z /\ z[k + Len(es)] = g[k]
  BY <1>7, <1>9, <1>10 DEF z
<1> HIDE DEF m
<1>14. ASSUME NEW r \in R PROVE \E i \in DOMAIN z : r \in z[i].rules
  <2>1. PICK k \in DOMAIN g : g[k] = m(r)
    BY <1>4, <1>7
  <2> QED BY <2>1, <1>5, <1>13
<1>15. ASSUME NEW i \in DOMAIN z, i \notin DOMAIN es
       PROVE  \E r \in R : z[i] = m(r)
  BY <1>4, <1>7, <1>12, <1>15
<1>16. ASSUME NEW i \in DOMAIN z, NEW j \in DOMAIN z, i \notin DOMAIN es, j \notin DOMAIN es,
              z[i].rules = z[j].rules
       PROVE  i = j
  <2>1. PICK r \in R : z[i] = m(r)
    BY <1>15, <1>16
  <2>2. PICK u \in R : z[j] = m(u)
    BY <1>15, <1>16
  <2>3. z[i] = z[j]
    <3>1. z[i].rules = {r} /\ z[j].rules = {u}
      BY <2>1, <2>2, <1>5
    <3>2. r = u
      BY <3>1, <1>16
    <3> QED BY <2>1, <2>2, <3>2
  <2>4. i - Len(es) = j - Len(es)
    BY <2>3, <1>7, <1>12, <1>16
  <2> QED BY <2>4, <1>10, <1>16 DEF z
<1>17. tenure'.edges = z /\ z \in Seq(ClockEdges)
  BY <1>2, <1>9 DEF z
<1>18. \A i \in DOMAIN z : i \notin DOMAIN es => \E r \in R : z[i].rules = {r}
  BY <1>5, <1>15
<1> HIDE DEF R
<1>19. \A r : r \in R <=> r \in ClockRules \ Muted /\ Crosses(r, certSeen')
  BY DEF R
<1>20. x = readClockRules(cert, certSeen', now) /\ tenure.edges = es
  BY DEF x, es
<1> QED BY <1>3, <1>11, <1>14, <1>16, <1>17, <1>18, <1>19, <1>20

\* A fold under which the certificate stands keeps the invariant.
LEMMA StandingStep ==
    ASSUME CauseInv, NEW v, NEW value, NEW c, NEW h, NEW t, complete(v, value, c, h, t), Shown(c), cert' = cert
    PROVE  CauseInv'
<1>1. PICK n \in Nat : \E S, T \in [1..n -> Nat] : FoldsRead(n, S, T)
  BY DEF CauseInv, TenureRead
<1>2. PICK S \in [1..n -> Nat], T \in [1..n -> Nat] : FoldsRead(n, S, T)
  BY <1>1
<1>3. FoldTimes' = FoldTimes \cup {now} /\ ClockTyped' /\ ClockTyped /\ certSeen <= certSeen'
  BY FoldDated DEF CauseInv
<1>4. PICK sn \in Nat, tn \in Nat : sn = certSeen' /\ tn = now
  BY <1>3 DEF ClockTyped
<1> DEFINE fs == tenure.folds
           es == tenure.edges
           gs == tenure'.folds
           zs == tenure'.edges
<1>5. /\ gs = [i \in 1..(n + 1) |-> IF i <= n THEN fs[i] ELSE readClockRules(cert, sn, tn)]
      /\ zs \in Seq(ClockEdges)
      /\ \A i \in DOMAIN es : i \in DOMAIN zs /\ zs[i] = es[i]
      /\ \A r \in ClockRules \ Muted : Crosses(r, sn) => \E i \in DOMAIN zs : r \in zs[i].rules
      /\ \A i \in DOMAIN zs : i \notin DOMAIN es =>
             \E r \in ClockRules \ Muted : Crosses(r, sn) /\ zs[i].rules = {r}
      /\ \A i, j \in DOMAIN zs : i \notin DOMAIN es /\ j \notin DOMAIN es /\ zs[i].rules = zs[j].rules => i = j
  BY <1>2, <1>4, StandingTables
<1>6. /\ fs = [i \in 1..n |-> readClockRules(cert, S[i], T[i])]
      /\ \A i \in 1..n : T[i] \in FoldTimes /\ S[i] <= certSeen /\ S[i] \in Nat /\ T[i] \in Nat
      /\ n > 0 => \A u \in FoldTimes : u <= T[n]
      /\ cert # {} => n > 0
  BY <1>2 DEF FoldsRead
<1> HIDE DEF fs, es, gs, zs
<1>7. \A u \in FoldTimes : u \in Nat /\ u < tn
  BY <1>3, <1>4 DEF ClockTyped
<1>8. TenureRead'
  <2> DEFINE S1 == [i \in 1..(n + 1) |-> IF i <= n THEN S[i] ELSE sn]
             T1 == [i \in 1..(n + 1) |-> IF i <= n THEN T[i] ELSE tn]
  <2>1. S1 \in [1..(n + 1) -> Nat] /\ T1 \in [1..(n + 1) -> Nat] /\ n + 1 \in Nat
    OBVIOUS
  <2>2. gs = [i \in 1..(n + 1) |-> readClockRules(cert, S1[i], T1[i])]
    BY <1>5, <1>6
  <2>3. \A i \in 1..(n + 1) : T1[i] \in FoldTimes' /\ S1[i] <= certSeen'
    <3> SUFFICES ASSUME NEW i \in 1..(n + 1) PROVE T1[i] \in FoldTimes' /\ S1[i] <= certSeen'
      OBVIOUS
    <3>1. CASE i <= n
      BY <3>1, <1>3, <1>4, <1>6 DEF ClockTyped
    <3>2. CASE ~(i <= n)
      BY <3>2, <1>3, <1>4
    <3> QED BY <3>1, <3>2
  <2>4. \A u \in FoldTimes' : u <= T1[n + 1]
    BY <1>3, <1>4, <1>7
  <2> HIDE DEF S1, T1
  <2>5. FoldsRead(n + 1, S1, T1)'
    BY <2>2, <2>3, <2>4 DEF FoldsRead, gs
  <2> QED BY <2>1, <2>5 DEF TenureRead
<1>9. ASSUME NEW r \in ClockRules, NEW x \in Cert, cert = {x}, NEW i \in 1..n
      PROVE  fs[i][r] = Reads(r, x, S[i], T[i])
  <2> DEFINE e == Side({x}, {}, {})
  <2>1. e.cert = {x}
    BY DEF Side
  <2>2. fs[i] = [k \in ClockRules |-> endpointOutcomes(e, S[i], T[i])[k]]
    BY <1>6, <1>9 DEF readClockRules
  <2> HIDE DEF e
  <2>3. S[i] \in Int /\ T[i] \in Int
    BY <1>6
  <2> QED BY <2>1, <2>2, <2>3, EndpointReads
<1>10. ASSUME NEW r \in ClockRules, cert = {}, NEW i \in 1..n
       PROVE  fs[i][r] = OutsideDomain
  BY <1>6, <1>10, NoCertReads DEF readClockRules
<1>11. ASSUME NEW r \in ClockRules, NEW x \in Cert, cert = {x}
       PROVE  gs[n + 1][r] = Reads(r, x, sn, tn)
  <2> DEFINE e == Side({x}, {}, {})
  <2>1. e.cert = {x}
    BY DEF Side
  <2>2. gs[n + 1] = [k \in ClockRules |-> endpointOutcomes(e, sn, tn)[k]]
    BY <1>5, <1>11 DEF readClockRules
  <2> HIDE DEF e
  <2>3. sn \in Int /\ tn \in Int
    OBVIOUS
  <2>4. endpointOutcomes(e, sn, tn)[r] = Reads(r, x, sn, tn)
    BY <2>1, <2>3, EndpointReads
  <2> QED BY <2>2, <2>4
<1>12. ASSUME NEW r \in ClockRules \ Muted, Crosses(r, sn)
       PROVE  /\ \E x \in Cert, L \in FoldTimes : cert = {x} /\ (\A u \in FoldTimes : u <= L)
                                                  /\ ~Says(r, x, L) /\ Says(r, x, tn)
              /\ ~Crossed(r)
  <2>1. PICK x \in Cert, L \in FoldTimes : /\ cert = {x} /\ \A u \in FoldTimes : u <= L
                                          /\ Reads(r, x, sn, L) = NotFired /\ Reads(r, x, sn, tn) = Fired
    BY <1>4, <1>12 DEF Crosses
  <2>2. ~Says(r, x, L) /\ Says(r, x, tn)
    BY <2>1, OutcomesApart DEF Reads, Verdict
  <2>3. ASSUME Crossed(r) PROVE FALSE
    <3>1. PICK y \in Cert : /\ cert = {y}
                           /\ \E a, b \in Nat : /\ a < b /\ ~Says(r, y, a) /\ Says(r, y, b)
                                               /\ \E u \in FoldTimes : b <= u
      BY <2>3 DEF CauseInv, EdgeStands
    <3>2. x = y
      BY <2>1, <3>1
    <3>3. PICK a \in Nat, b \in Nat : /\ a < b /\ ~Says(r, x, a) /\ Says(r, x, b)
                                     /\ \E u \in FoldTimes : b <= u
      BY <3>1, <3>2
    <3>4. b <= L /\ L < tn /\ L \in Nat
      BY <3>3, <2>1, <1>7
    <3>5. a \in Int /\ b \in Int /\ L \in Int /\ tn \in Int
      BY <3>4
    <3> QED BY <2>2, <3>3, <3>4, <3>5, CrossesOnce
  <2> QED BY <2>1, <2>2, <2>3
<1>13. ASSUME NEW r \in ClockRules \ Muted
       PROVE  EdgeStands(r)'
  <2>1. EdgeStands(r)
    BY DEF CauseInv
  <2>2. ASSUME NEW i \in DOMAIN zs, NEW j \in DOMAIN zs, r \in zs[i].rules, r \in zs[j].rules
        PROVE  i = j
    <3>1. CASE i \in DOMAIN es /\ j \in DOMAIN es
      BY <3>1, <2>1, <2>2, <1>5 DEF EdgeStands, es
    <3>2. CASE i \notin DOMAIN es /\ j \notin DOMAIN es
      <4>1. zs[i].rules = {r} /\ zs[j].rules = {r}
        BY <3>2, <2>2, <1>5
      <4> QED BY <3>2, <4>1, <1>5
    <3>3. ASSUME NEW k \in DOMAIN zs, NEW l \in DOMAIN zs, k \in DOMAIN es, l \notin DOMAIN es,
                 r \in zs[k].rules, r \in zs[l].rules
          PROVE  FALSE
      <4>1. Crosses(r, sn)
        BY <3>3, <1>5
      <4>2. Crossed(r)
        BY <3>3, <1>5 DEF Crossed, es
      <4> QED BY <4>1, <4>2, <1>12
    <3> QED BY <3>1, <3>2, <3>3, <2>2
  <2>3. ASSUME NEW i \in DOMAIN zs, r \in zs[i].rules
        PROVE  \E x \in Cert : /\ cert = {x}
                               /\ \E a, b \in Nat : /\ a < b /\ ~Says(r, x, a) /\ Says(r, x, b)
                                                   /\ \E u \in FoldTimes' : b <= u
    <3>1. CASE i \in DOMAIN es
      <4>1. Crossed(r)
        BY <3>1, <2>3, <1>5 DEF Crossed, es
      <4> QED BY <4>1, <2>1, <1>3 DEF EdgeStands
    <3>2. CASE i \notin DOMAIN es
      <4>1. Crosses(r, sn)
        BY <3>2, <2>3, <1>5
      <4>2. PICK x \in Cert, L \in FoldTimes : cert = {x} /\ ~Says(r, x, L) /\ Says(r, x, tn)
        BY <4>1, <1>12
      <4>3. L \in Nat /\ L < tn /\ tn \in FoldTimes' /\ tn <= tn
        BY <1>3, <1>4, <1>7
      <4> QED BY <4>2, <4>3
    <3> QED BY <3>1, <3>2
  <2>4. Crossed(r)' => \E i \in DOMAIN zs : r \in zs[i].rules
    BY DEF Crossed, zs
  <2> QED BY <2>2, <2>3, <2>4 DEF EdgeStands, zs
<1>14. ASSUME NEW r \in ClockRules \ Muted,
              \A i \in 1..(n + 1) : gs[i][r] # NotEvaluable,
              NEW i \in 1..(n + 1), NEW j \in 1..(n + 1), i < j, gs[i][r] = NotFired, gs[j][r] = Fired
       PROVE  \E k \in DOMAIN zs : r \in zs[k].rules
  <2>1. \A k \in 1..n : k \in 1..(n + 1) /\ gs[k] = fs[k]
    BY <1>5
  <2>2. DOMAIN fs = 1..n
    BY <1>6
  <2>3. ASSUME NEW k \in 1..n, NEW l \in 1..n, k < l, fs[k][r] = NotFired, fs[l][r] = Fired
        PROVE  \E q \in DOMAIN zs : r \in zs[q].rules
    <3>1. \A q \in 1..n : fs[q][r] # NotEvaluable
      BY <2>1, <1>14
    <3>2. Crossed(r)
      BY <2>2, <2>3, <3>1 DEF CauseInv, CrossingTold, fs
    <3> QED BY <3>2, <1>5 DEF Crossed, es
  <2>4. CASE j <= n
    <3>1. i \in 1..n /\ j \in 1..n
      BY <2>4, <1>14
    <3> QED BY <3>1, <2>1, <2>3, <1>14
  <2>5. CASE ~(j <= n)
    <3>1. j = n + 1 /\ i \in 1..n /\ n \in 1..n
      BY <2>5, <1>14
    <3>2. fs[i][r] = NotFired
      BY <3>1, <2>1, <1>14
    <3>3. PICK x \in Cert : cert = {x}
      <4>1. cert # {}
        BY <3>1, <3>2, <1>10, OutcomesApart
      <4> QED BY <4>1, <1>3 DEF ClockTyped, Shown
    <3>4. /\ fs[i][r] = Reads(r, x, S[i], T[i]) /\ fs[n][r] = Reads(r, x, S[n], T[n])
          /\ gs[n + 1][r] = Reads(r, x, sn, tn)
      BY <3>1, <3>3, <1>9, <1>11
    <3>5. fs[n][r] # NotEvaluable
      BY <3>1, <2>1, <1>14
    <3>6. x.outcome = "presented"
      BY <3>2, <3>4, OutcomesApart DEF Reads
    <3>7. fs[n][r] \in {Fired, NotFired}
      BY <3>4, <3>5, <3>6 DEF Reads, Verdict
    <3>8. CASE fs[n][r] = Fired
      <4>1. i # n
        BY <3>2, <3>8, OutcomesApart
      <4>2. i < n
        BY <3>1, <4>1
      <4> QED BY <3>1, <3>2, <3>8, <4>2, <2>3
    <3>9. CASE fs[n][r] = NotFired
      <4>1. Evaluable(x, S[n], T[n]) /\ ~Says(r, x, T[n])
        BY <3>4, <3>6, <3>9, OutcomesApart DEF Reads, Verdict
      <4>2. Evaluable(x, sn, T[n])
        <5>1. S[n] \in Nat /\ T[n] \in Nat /\ S[n] <= certSeen /\ certSeen \in Nat /\ certSeen <= sn
          BY <3>1, <1>3, <1>4, <1>6 DEF ClockTyped
        <5>2. T[n] - sn <= T[n] - S[n]
          BY <5>1
        <5>3. CertSpan(x) \in Int
          BY CauseAssumption DEF CertSpan
        <5> QED BY <4>1, <5>1, <5>2, <5>3 DEF Evaluable
      <4>3. Reads(r, x, sn, T[n]) = NotFired
        BY <4>1, <4>2, <3>6 DEF Reads, Verdict
      <4>4. Reads(r, x, sn, tn) = Fired
        BY <3>1, <3>4, <1>14
      <4>5. T[n] \in FoldTimes /\ \A u \in FoldTimes : u <= T[n]
        BY <3>1, <1>6
      <4>6. Crosses(r, sn)
        BY <3>3, <4>3, <4>4, <4>5, <1>4 DEF Crosses
      <4> QED BY <4>6, <1>5
    <3> QED BY <3>7, <3>8, <3>9
  <2> QED BY <2>4, <2>5
<1>15. \A r \in ClockRules \ Muted : CrossingTold(r)'
  <2>1. DOMAIN gs = 1..(n + 1)
    BY <1>5
  <2> QED BY <2>1, <1>14 DEF CrossingTold, Crossed, gs, zs
<1> QED BY <1>3, <1>5, <1>8, <1>13, <1>15 DEF CauseInv, zs

\* Time that passes, and a batch that folds nothing, leave what was told.
LEMMA QuietStep ==
    ASSUME CauseInv, UNCHANGED <<cert, certSeen, tenure>>, FoldTimes' = FoldTimes, now' \in {now, now + 1}
    PROVE  CauseInv'
<1>1. ClockTyped'
  <2>1. now' \in Nat /\ now <= now'
    BY DEF CauseInv, ClockTyped
  <2> HIDE DEF FoldTimes
  <2>2. \A u \in FoldTimes' : u \in Nat /\ u < now'
    BY <2>1 DEF CauseInv, ClockTyped
  <2> QED BY <2>1, <2>2 DEF CauseInv, ClockTyped
<1>2. TenureRead'
  BY DEF CauseInv, TenureRead, FoldsRead
<1>3. \A r \in ClockRules \ Muted : EdgeStands(r)' /\ CrossingTold(r)'
  BY DEF CauseInv, EdgeStands, CrossingTold, Crossed
<1> QED BY <1>1, <1>2, <1>3 DEF CauseInv

\* Every step keeps it.
LEMMA CauseStep == CauseInv /\ [CauseNext]_causeVars => CauseInv'
<1> SUFFICES ASSUME CauseInv, [CauseNext]_causeVars PROVE CauseInv'
  OBVIOUS
<1>1. CASE UNCHANGED causeVars
  <2>1. UNCHANGED <<cert, certSeen, tenure, batches, now>>
    BY <1>1 DEF causeVars
  <2>2. FoldTimes' = FoldTimes
    BY <2>1 DEF FoldTimes
  <2> QED BY <2>1, <2>2, QuietStep
<1>2. CASE Pass
  <2>1. UNCHANGED <<cert, certSeen, tenure, batches>> /\ now' = now + 1
    BY <1>2 DEF Pass
  <2>2. FoldTimes' = FoldTimes
    BY <2>1 DEF FoldTimes
  <2> QED BY <2>1, <2>2, QuietStep
<1>3. CASE unfoldedBatch
  <2>1. UNCHANGED <<cert, certSeen, tenure>> /\ now' = now + 1
    BY <1>3 DEF unfoldedBatch
  <2> DEFINE k == [at |-> now, folds |-> FALSE]
  <2>2. ~k.folds /\ batches' = batches \cup {k}
    BY <1>3 DEF unfoldedBatch
  <2> HIDE DEF k
  <2>3. {x \in batches' : x.folds} = {x \in batches : x.folds}
    BY <2>2
  <2>4. FoldTimes' = FoldTimes
    BY <2>3 DEF FoldTimes
  <2> QED BY <2>1, <2>4, QuietStep
<1>4. ASSUME NEW v, NEW value, NEW c, NEW h, NEW t, complete(v, value, c, h, t), Shown(c)
      PROVE  CauseInv'
  BY <1>4, NewTenureStep, StandingStep
<1>5. ASSUME NEW v \in Vantage, hotBatch(v) \/ httpBatch(v) \/ tlsBatch(v) \/ otherBatch(v)
      PROVE  \E w, value, c, h, t : complete(w, value, c, h, t) /\ Shown(c)
  <2>1. CASE hotBatch(v)
    BY <2>1 DEF hotBatch, Shown
  <2>2. CASE httpBatch(v)
    BY <2>2 DEF httpBatch, Shown
  <2>3. CASE tlsBatch(v)
    BY <2>3 DEF tlsBatch, Shown
  <2>4. CASE otherBatch(v)
    BY <2>4 DEF otherBatch, Shown
  <2> QED BY <1>5, <2>1, <2>2, <2>3, <2>4
<1> QED BY <1>1, <1>2, <1>3, <1>4, <1>5 DEF CauseNext

\* It holds of an install with no batch.
LEMMA CauseStarts == CauseInit => CauseInv
<1> SUFFICES ASSUME CauseInit PROVE CauseInv
  OBVIOUS
<1>1. /\ now = 0 /\ cert = {} /\ certSeen = 0 /\ batches = {}
      /\ tenure.folds = << >> /\ tenure.edges = << >>
  BY DEF CauseInit, NewTenure
<1>2. FoldTimes = {}
  BY <1>1 DEF FoldTimes
<1>3. ClockTyped
  BY <1>1, <1>2, FS_EmptySet DEF ClockTyped, Shown
<1>4. TenureRead
  <2> DEFINE S == [i \in 1..0 |-> 0]
  <2>1. S \in [1..0 -> Nat]
    OBVIOUS
  <2>2. << >> = [i \in 1..0 |-> readClockRules(cert, S[i], S[i])]
    OBVIOUS
  <2> HIDE DEF S
  <2>3. FoldsRead(0, S, S)
    BY <1>1, <2>2 DEF FoldsRead
  <2> QED BY <2>1, <2>3 DEF TenureRead
<1>5. tenure.edges \in Seq(ClockEdges)
  BY <1>1, EmptySeq
<1>6. \A r \in ClockRules \ Muted : EdgeStands(r) /\ CrossingTold(r)
  <2>1. DOMAIN tenure.edges = {} /\ DOMAIN tenure.folds = {}
    BY <1>1
  <2> QED BY <2>1 DEF EdgeStands, CrossingTold, Crossed
<1> QED BY <1>3, <1>4, <1>5, <1>6 DEF CauseInv

\* The invariant counts the edges of a rule.
LEMMA EdgesCounted == CauseInv => CrossingToldOnce
<1> SUFFICES ASSUME CauseInv, NEW r \in ClockRules \ Muted
             PROVE  LET reads == [i \in DOMAIN tenure.folds |-> tenure.folds[i][r]]
                        n == Cardinality({i \in DOMAIN tenure.edges : r \in tenure.edges[i].rules})
                    IN /\ n <= 1
                       /\ (/\ \A i \in DOMAIN reads : reads[i] # NotEvaluable
                           /\ \E i, j \in DOMAIN reads : i < j /\ reads[i] = NotFired /\ reads[j] = Fired) => n = 1
  BY DEF CrossingToldOnce
<1> DEFINE D == {i \in DOMAIN tenure.edges : r \in tenure.edges[i].rules}
           reads == [i \in DOMAIN tenure.folds |-> tenure.folds[i][r]]
<1>0. DOMAIN reads = DOMAIN tenure.folds /\ \A i \in DOMAIN tenure.folds : reads[i] = tenure.folds[i][r]
  OBVIOUS
<1> HIDE DEF reads
<1>1. EdgeStands(r) /\ CrossingTold(r)
  BY DEF CauseInv
<1>2. CASE D = {}
  <2>1. Cardinality(D) = 0
    BY <1>2, FS_EmptySet
  <2>2. ~Crossed(r)
    BY <1>2 DEF Crossed
  <2>3. ~(/\ \A i \in DOMAIN reads : reads[i] # NotEvaluable
          /\ \E i, j \in DOMAIN reads : i < j /\ reads[i] = NotFired /\ reads[j] = Fired)
    BY <2>2, <1>0, <1>1 DEF CrossingTold
  <2> HIDE DEF D
  <2> QED BY <2>1, <2>3 DEF D, reads
<1>3. CASE D # {}
  <2>1. PICK i : i \in D
    BY <1>3
  <2>2. D = {i}
    BY <2>1, <1>1 DEF EdgeStands
  <2>3. Cardinality(D) = 1
    BY <2>2, FS_Singleton
  <2> HIDE DEF D
  <2> QED BY <2>3 DEF D
<1> QED BY <1>2, <1>3

\* What a fold moves to fired is told in that fold, and a lifetime rule that the
\* clock takes to fired under a standing certificate has one clock edge in the
\* whole tenure (produce.go buildMessages, certlifetime.go FoldedBatchWindow).
THEOREM MovesToldCorrect == CauseSpec => MovesTold
<1>1. CauseInit => CauseInv
  BY CauseStarts
<1>2. CauseInv /\ [CauseNext]_causeVars => CauseInv'
  BY CauseStep
<1>3. CauseInv => CrossingToldOnce
  BY EdgesCounted
<1>4. [CauseNext]_causeVars =>
        [(batches' # batches /\ (Moved(cert, cert') \/ Moved(http, http'))) =>
          LET b == endpointOutcomes(Side(cert, http, {}), now', now')
              a == endpointOutcomes(Side(cert', http', {}), now', now')
          IN \A r \in Opens(b, a, {OutsideDomain})
                      \cup {x \in Opens(b, a, {NotFired}) \ Muted : signalEdgeRule(x)} :
                 \E m \in told' : r \in m.rules]_causeVars
  BY OpeningStep
<1> QED BY <1>1, <1>2, <1>3, <1>4, PTL DEF CauseSpec, MovesTold, OpeningTold
==============================================================================
