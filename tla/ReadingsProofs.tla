---------------------------- MODULE ReadingsProofs ----------------------------
(*****************************************************************************)
(* Proofs about what is read of the world outside: the proposals a source    *)
(* files, with the operators who answer them, for any number of operators,   *)
(* scopes and proposals; the resolution walk and its wildcard twin, for any  *)
(* batch, any servers and any budget of attempts; and a probe's job, for any *)
(* hosts, ports and TLS offer, any rate and however late it is scheduled.    *)
(*****************************************************************************)
EXTENDS Proposals, Walk, Prober, FiniteSetTheorems, SequenceTheorems, WellFoundedInduction, TLAPS

-----------------------------------------------------------------------------
(* Proposals: what is declined stays excluded.                             *)

Stage == {"idle", "file", "declare", "confirm", "decline", "exclude", "lift"}
OnOne == {"declare", "confirm", "decline", "exclude", "lift"}
RowStatus == {"pending", "confirmed", "declined"}

\* The rows and the requests, over some set of scopes.
Over(S) ==
    /\ proposals \in Seq([scope : S, status : RowStatus])
    /\ doing \in [Operators -> [at : Stage, id : Nat, todo : SUBSET S]]

\* A request about one proposal names a row that was filed.
ProposalsTyped ==
    /\ \E S : Over(S)
    /\ \A o \in Operators : doing[o].at \in OnOne => doing[o].id \in DOMAIN proposals

\* DeclineHolds without the page: an exclusion of the scope stands.
Excluded(id) == \E e \in exclusions : e.scope = proposals[id].scope
Excluding(id) == \E o \in Operators : doing[o].id = id /\ doing[o].at = "exclude"
DeclinedExcluded ==
    \A id \in DOMAIN proposals :
        ProposalStatus(id) = "declined" => Excluded(id) \/ Excluding(id) \/ id \in stranded

ProposalInv == ProposalsTyped /\ DeclinedExcluded

\* Filing a row leaves those before it, and its own is pending.
LEMMA RowFiled ==
    ASSUME NEW S, proposals \in Seq([scope : S, status : RowStatus]), NEW s \in S,
           proposals' = Append(proposals, [scope |-> s, status |-> "pending"])
    PROVE  /\ proposals' \in Seq([scope : S, status : RowStatus])
           /\ DOMAIN proposals \subseteq DOMAIN proposals'
           /\ \A id \in DOMAIN proposals : proposals'[id] = proposals[id]
           /\ \A id \in DOMAIN proposals' \ DOMAIN proposals : proposals'[id].status = "pending"
<1> DEFINE R == [scope : S, status : RowStatus]
           row == [scope |-> s, status |-> "pending"]
<1>1. row \in R
  BY DEF RowStatus
<1> HIDE DEF R, row
<1>2. proposals \in Seq(R) /\ proposals' = Append(proposals, row)
  BY DEF R, row
<1>3. /\ Append(proposals, row) \in Seq(R)
      /\ Len(Append(proposals, row)) = Len(proposals) + 1
      /\ \A i \in 1..Len(proposals) : Append(proposals, row)[i] = proposals[i]
      /\ Append(proposals, row)[Len(proposals) + 1] = row
  BY <1>1, <1>2, AppendProperties
<1>4. DOMAIN proposals = 1..Len(proposals) /\ Len(proposals) \in Nat
  BY <1>2, LenProperties
<1>5. DOMAIN proposals' = 1..(Len(proposals) + 1)
  BY <1>2, <1>3, LenProperties
<1>6. row.status = "pending"
  BY DEF row
<1> QED BY <1>2, <1>3, <1>4, <1>5, <1>6 DEF R

\* Moving a status leaves the scopes, and only the one row's status may change.
LEMMA RowMoved ==
    ASSUME NEW S, proposals \in Seq([scope : S, status : RowStatus]), NEW i \in DOMAIN proposals,
           NEW from \in RowStatus, NEW to \in RowStatus, proposals' = StatusMoved(i, from, to)
    PROVE  /\ proposals' \in Seq([scope : S, status : RowStatus])
           /\ DOMAIN proposals' = DOMAIN proposals
           /\ \A id \in DOMAIN proposals :
                /\ proposals'[id].scope = proposals[id].scope
                /\ IF id = i /\ proposals[i].status = from THEN proposals'[id].status = to
                   ELSE proposals'[id].status = proposals[id].status
<1> DEFINE R == [scope : S, status : RowStatus]
           row == [proposals[i] EXCEPT !.status = to]
<1>1. CASE ProposalStatus(i) = from
  <2>1. proposals' = [proposals EXCEPT ![i] = row]
    BY <1>1 DEF StatusMoved
  <2>2. proposals[i] \in R
    BY ElementOfSeq, LenProperties
  <2>3. row \in R /\ row.scope = proposals[i].scope /\ row.status = to
    BY <2>2
  <2>4. proposals \in Seq(R) /\ i \in 1..Len(proposals) /\ DOMAIN proposals = 1..Len(proposals)
    BY LenProperties
  <2> HIDE DEF R, row
  <2>5. /\ [proposals EXCEPT ![i] = row] \in Seq(R)
        /\ Len([proposals EXCEPT ![i] = row]) = Len(proposals)
        /\ \A j \in 1..Len(proposals) : [proposals EXCEPT ![i] = row][j] = IF j = i THEN row ELSE proposals[j]
    BY <2>3, <2>4, ExceptSeq
  <2>6. DOMAIN proposals' = DOMAIN proposals
    BY <2>1
  <2> QED BY <1>1, <2>1, <2>3, <2>4, <2>5, <2>6 DEF R, ProposalStatus
<1>2. CASE ProposalStatus(i) # from
  BY <1>2 DEF StatusMoved, ProposalStatus
<1> QED BY <1>1, <1>2

\* The steps that leave every row as it is, but for rows filed.
LEMMA RowsStand ==
    ASSUME DeclinedExcluded,
           DOMAIN proposals \subseteq DOMAIN proposals',
           \A id \in DOMAIN proposals : proposals'[id].scope = proposals[id].scope,
           \A id \in DOMAIN proposals' : proposals'[id].status = "declined" =>
              id \in DOMAIN proposals /\ proposals[id].status = "declined",
           exclusions \subseteq exclusions', stranded \subseteq stranded',
           \A id \in DOMAIN proposals : Excluding(id) =>
              \/ Excluding(id)' \/ id \in stranded' \/ Excluded(id)'
              \/ proposals'[id].status # "declined"
    PROVE  DeclinedExcluded'
<1> SUFFICES ASSUME NEW id, id \in DOMAIN proposals', (ProposalStatus(id) = "declined")'
             PROVE  (Excluded(id) \/ Excluding(id) \/ id \in stranded)'
  BY DEF DeclinedExcluded
<1>1. id \in DOMAIN proposals /\ proposals[id].status = "declined"
  BY DEF ProposalStatus
<1>2. Excluded(id) \/ Excluding(id) \/ id \in stranded
  BY <1>1 DEF DeclinedExcluded, ProposalStatus
<1>3. CASE Excluded(id)
  BY <1>1, <1>3 DEF Excluded
<1>4. CASE Excluding(id)
  BY <1>1, <1>4 DEF ProposalStatus
<1> QED BY <1>2, <1>3, <1>4

\* The types hold after every step of an operator's request.
LEMMA RequestTyped ==
    ASSUME ProposalsTyped, NEW o \in Operators,
           \/ runLookup(o) \/ CreateProposal(o) \/ HandlerFails(o)
           \/ \E id \in DOMAIN proposals : confirmProposal(o, id) \/ declineLookup(o, id) \/ undoDecline(o, id)
           \/ CreateAddressSeed(o) \/ ConfirmProposal(o)
           \/ DeclineProposal(o) \/ CreateDeclinedProposalExclusion(o)
           \/ DeleteUnclaimedAddressExclusion(o)
    PROVE  ProposalsTyped'
<1>1. PICK S : Over(S)
  BY DEF ProposalsTyped
<1>2. DOMAIN proposals \subseteq Nat
  BY <1>1, LenProperties DEF Over
<1>3. doing[o] \in [at : Stage, id : Nat, todo : SUBSET S]
  BY <1>1 DEF Over
<1>4. ASSUME NEW d \in [at : Stage, id : Nat, todo : SUBSET S], doing' = [doing EXCEPT ![o] = d],
             d.at \in OnOne => d.id \in DOMAIN proposals, 
             proposals' \in Seq([scope : S, status : RowStatus]), DOMAIN proposals \subseteq DOMAIN proposals'
      PROVE  ProposalsTyped'
  <2>1. Over(S)'
    BY <1>1, <1>4 DEF Over
  <2>2. \A p \in Operators : doing'[p].at \in OnOne => doing'[p].id \in DOMAIN proposals'
    BY <1>1, <1>4 DEF Over, ProposalsTyped
  <2> QED BY <2>1, <2>2 DEF ProposalsTyped
<1>5. Idle \in [at : Stage, id : Nat, todo : SUBSET S] /\ Idle.at = "idle"
  BY DEF Idle, Stage
<1>6. \A a \in Stage, i \in Nat : [at |-> a, id |-> i, todo |-> {}] \in [at : Stage, id : Nat, todo : SUBSET S]
  OBVIOUS
<1>7. CASE runLookup(o)
  <2>1. PICK cands : doing' = [doing EXCEPT ![o] = IF cands = {} THEN Idle
                                                   ELSE [at |-> "file", id |-> 0, todo |-> cands]]
    BY <1>7 DEF runLookup
  <2>2. PICK Z : Z = S \cup cands
    OBVIOUS
  <2>3. proposals' = proposals
    BY <1>7 DEF runLookup
  <2>4. proposals \in Seq([scope : Z, status : RowStatus])
    <3>1. [scope : S, status : RowStatus] \subseteq [scope : Z, status : RowStatus]
      BY <2>2
    <3>2. proposals \in Seq([scope : S, status : RowStatus])
      BY <1>1 DEF Over
    <3>3. \A i \in 1..Len(proposals) : proposals[i] \in [scope : Z, status : RowStatus]
      BY <3>1, <3>2, ElementOfSeq
    <3>4. proposals \in [1..Len(proposals) -> [scope : Z, status : RowStatus]] /\ Len(proposals) \in Nat
      BY <3>2, <3>3, LenProperties
    <3> HIDE DEF RowStatus
    <3> QED BY <3>4, SeqDef
  <2>5. doing' \in [Operators -> [at : Stage, id : Nat, todo : SUBSET Z]]
    <3>1. [at |-> "file", id |-> 0, todo |-> cands] \in [at : Stage, id : Nat, todo : SUBSET Z]
      BY <2>2 DEF Stage
    <3>2. doing \in [Operators -> [at : Stage, id : Nat, todo : SUBSET Z]]
      BY <1>1, <2>2 DEF Over
    <3>3. Idle \in [at : Stage, id : Nat, todo : SUBSET Z]
      BY DEF Idle, Stage
    <3> QED BY <2>1, <3>1, <3>2, <3>3
  <2>6. \A p \in Operators : doing'[p].at \in OnOne => doing'[p].id \in DOMAIN proposals'
    <3>1. (IF cands = {} THEN Idle ELSE [at |-> "file", id |-> 0, todo |-> cands]).at \notin OnOne
      BY DEF Idle, OnOne
    <3> QED BY <1>1, <2>1, <2>3, <3>1 DEF Over, ProposalsTyped
  <2>7. Over(Z)'
    BY <2>3, <2>4, <2>5 DEF Over
  <2> QED BY <2>6, <2>7 DEF ProposalsTyped
<1>8. CASE CreateProposal(o)
  <2>1. PICK s \in doing[o].todo :
           /\ proposals' = Append(proposals, [scope |-> s, status |-> "pending"])
           /\ doing' = [doing EXCEPT ![o] = IF doing[o].todo = {s} THEN Idle
                                            ELSE [doing[o] EXCEPT !.todo = @ \ {s}]]
    BY <1>8 DEF CreateProposal
  <2>2. s \in S
    BY <1>3, <2>1
  <2>3. [doing[o] EXCEPT !.todo = @ \ {s}] \in [at : Stage, id : Nat, todo : SUBSET S]
        /\ [doing[o] EXCEPT !.todo = @ \ {s}].at = "file"
    BY <1>3, <1>8 DEF CreateProposal
  <2>4. proposals' \in Seq([scope : S, status : RowStatus]) /\ DOMAIN proposals \subseteq DOMAIN proposals'
    BY <1>1, <2>1, <2>2, RowFiled DEF Over
  <2> QED BY <1>4, <1>5, <2>1, <2>3, <2>4 DEF OnOne
<1>9. CASE HandlerFails(o) \/ CreateDeclinedProposalExclusion(o) \/ DeleteUnclaimedAddressExclusion(o)
  <2>1. doing' = [doing EXCEPT ![o] = Idle] /\ proposals' = proposals
    BY <1>9 DEF HandlerFails, CreateDeclinedProposalExclusion, DeleteUnclaimedAddressExclusion
  <2> QED BY <1>1, <1>4, <1>5, <2>1 DEF OnOne, Over
<1>10. ASSUME NEW id \in DOMAIN proposals, confirmProposal(o, id) \/ declineLookup(o, id)
       PROVE  ProposalsTyped'
  <2>1. PICK a \in {"declare", "decline"} : doing' = [doing EXCEPT ![o] = [at |-> a, id |-> id, todo |-> {}]]
    BY <1>10 DEF confirmProposal, declineLookup
  <2>2. proposals' = proposals
    BY <1>10 DEF confirmProposal, declineLookup
  <2>3. a \in Stage /\ id \in Nat
    BY <1>2 DEF Stage
  <2> QED BY <1>1, <1>4, <1>6, <2>1, <2>2, <2>3 DEF Over
<1>11. ASSUME NEW id \in DOMAIN proposals, undoDecline(o, id)
       PROVE  ProposalsTyped'
  <2>1. /\ doing' = [doing EXCEPT ![o] = [at |-> "lift", id |-> id, todo |-> {}]]
        /\ proposals' = StatusMoved(id, "declined", "pending")
    BY <1>11 DEF undoDecline
  <2>2. proposals' \in Seq([scope : S, status : RowStatus]) /\ DOMAIN proposals' = DOMAIN proposals
    BY <1>1, <2>1, RowMoved DEF Over, RowStatus
  <2>3. "lift" \in Stage /\ id \in Nat
    BY <1>2 DEF Stage
  <2> QED BY <1>4, <1>6, <2>1, <2>2, <2>3
<1>12. CASE CreateAddressSeed(o)
  <2>1. /\ doing[o].at = "declare" /\ proposals' = proposals
        /\ doing' = [doing EXCEPT ![o] = IF proposals[doing[o].id].scope \in seeds THEN Idle
                                         ELSE [doing[o] EXCEPT !.at = "confirm"]]
    BY <1>12 DEF CreateAddressSeed
  <2>2. [doing[o] EXCEPT !.at = "confirm"] \in [at : Stage, id : Nat, todo : SUBSET S]
        /\ [doing[o] EXCEPT !.at = "confirm"].id = doing[o].id
    BY <1>3 DEF Stage
  <2>3. doing[o].id \in DOMAIN proposals
    BY <2>1 DEF ProposalsTyped, OnOne
  <2> QED BY <1>1, <1>4, <1>5, <2>1, <2>2, <2>3 DEF Over, OnOne
<1>13. CASE ConfirmProposal(o)
  <2>1. doing[o].at = "confirm" /\ proposals' = StatusMoved(doing[o].id, "pending", "confirmed")
        /\ doing' = [doing EXCEPT ![o] = Idle]
    BY <1>13 DEF ConfirmProposal
  <2>2. doing[o].id \in DOMAIN proposals
    BY <2>1 DEF ProposalsTyped, OnOne
  <2>3. proposals' \in Seq([scope : S, status : RowStatus]) /\ DOMAIN proposals' = DOMAIN proposals
    BY <1>1, <2>1, <2>2, RowMoved DEF Over, RowStatus
  <2> QED BY <1>4, <1>5, <2>1, <2>3 DEF OnOne
<1>14. CASE DeclineProposal(o)
  <2>1. doing[o].at = "decline" /\ proposals' = StatusMoved(doing[o].id, "pending", "declined")
        /\ doing' = [doing EXCEPT ![o] = [doing[o] EXCEPT !.at = "exclude"]]
    BY <1>14 DEF DeclineProposal
  <2>2. doing[o].id \in DOMAIN proposals
    BY <2>1 DEF ProposalsTyped, OnOne
  <2>3. proposals' \in Seq([scope : S, status : RowStatus]) /\ DOMAIN proposals' = DOMAIN proposals
    BY <1>1, <2>1, <2>2, RowMoved DEF Over, RowStatus
  <2>4. [doing[o] EXCEPT !.at = "exclude"] \in [at : Stage, id : Nat, todo : SUBSET S]
        /\ [doing[o] EXCEPT !.at = "exclude"].id = doing[o].id
    BY <1>3 DEF Stage
  <2> QED BY <1>4, <2>1, <2>2, <2>3, <2>4
<1> QED BY <1>7, <1>8, <1>9, <1>10, <1>11, <1>12, <1>13, <1>14

\* What is declined stays excluded through every step of an operator's request.
LEMMA RequestHolds ==
    ASSUME ProposalInv, NEW o \in Operators,
           \/ runLookup(o) \/ CreateProposal(o) \/ HandlerFails(o)
           \/ \E id \in DOMAIN proposals : confirmProposal(o, id) \/ declineLookup(o, id) \/ undoDecline(o, id)
           \/ CreateAddressSeed(o) \/ ConfirmProposal(o)
           \/ DeclineProposal(o) \/ CreateDeclinedProposalExclusion(o)
           \/ DeleteUnclaimedAddressExclusion(o)
    PROVE  DeclinedExcluded'
<1>1. PICK S : Over(S)
  BY DEF ProposalInv, ProposalsTyped
<1>2. DeclinedExcluded /\ doing[o] \in [at : Stage, id : Nat, todo : SUBSET S] /\ o \in DOMAIN doing
  BY <1>1 DEF ProposalInv, Over
<1>3. \A p \in Operators : doing[p].at \in OnOne => doing[p].id \in DOMAIN proposals
  BY DEF ProposalInv, ProposalsTyped
<1>4. ASSUME NEW d, doing' = [doing EXCEPT ![o] = d], doing[o].at # "exclude"
      PROVE  \A id : Excluding(id) => Excluding(id)'
  BY <1>2, <1>4 DEF Excluding
<1>5. CASE \/ runLookup(o) \/ CreateAddressSeed(o)
           \/ \E id \in DOMAIN proposals : confirmProposal(o, id) \/ declineLookup(o, id)
  <2>1. \E d : doing' = [doing EXCEPT ![o] = d]
    BY <1>5 DEF runLookup, CreateAddressSeed, confirmProposal, declineLookup
  <2>2. doing[o].at # "exclude"
    <3>1. doing[o] = Idle \/ doing[o].at = "declare"
      BY <1>5 DEF runLookup, CreateAddressSeed, confirmProposal, declineLookup
    <3> QED BY <3>1 DEF Idle
  <2>3. proposals' = proposals /\ exclusions' = exclusions /\ stranded' = stranded
    BY <1>5 DEF runLookup, CreateAddressSeed, confirmProposal, declineLookup
  <2> QED BY <1>2, <1>4, <2>1, <2>2, <2>3, RowsStand
<1>6. CASE CreateProposal(o)
  <2>1. PICK s \in doing[o].todo : proposals' = Append(proposals, [scope |-> s, status |-> "pending"])
    BY <1>6 DEF CreateProposal
  <2>2. \E d : doing' = [doing EXCEPT ![o] = d]
    BY <1>6 DEF CreateProposal
  <2>3. /\ doing[o].at # "exclude" /\ exclusions' = exclusions /\ stranded' = stranded
    BY <1>6 DEF CreateProposal
  <2>4. s \in S
    BY <1>2, <2>1
  <2>5. /\ DOMAIN proposals \subseteq DOMAIN proposals'
        /\ \A id \in DOMAIN proposals : proposals'[id] = proposals[id]
        /\ \A id \in DOMAIN proposals' \ DOMAIN proposals : proposals'[id].status = "pending"
    BY <1>1, <2>1, <2>4, RowFiled DEF Over
  <2> QED BY <1>2, <1>4, <2>2, <2>3, <2>5, RowsStand
<1>7. CASE HandlerFails(o)
  <2>1. proposals' = proposals /\ exclusions' = exclusions /\ doing' = [doing EXCEPT ![o] = Idle]
    BY <1>7 DEF HandlerFails
  <2>2. stranded \subseteq stranded' /\ (doing[o].at = "exclude" /\ proposals[doing[o].id].status = "declined"
                                           => doing[o].id \in stranded')
    BY <1>7 DEF HandlerFails, ProposalStatus
  <2>3. \A id \in DOMAIN proposals : Excluding(id) =>
           Excluding(id)' \/ id \in stranded' \/ proposals'[id].status # "declined"
    BY <1>2, <2>1, <2>2 DEF Excluding
  <2> QED BY <1>2, <2>1, <2>2, <2>3, RowsStand
<1>8. ASSUME NEW i \in DOMAIN proposals, undoDecline(o, i)
      PROVE  DeclinedExcluded'
  <2>1. /\ doing[o] = Idle /\ i \in toUndoControls /\ proposals' = StatusMoved(i, "declined", "pending")
        /\ doing' = [doing EXCEPT ![o] = [at |-> "lift", id |-> i, todo |-> {}]]
        /\ stranded' = stranded \ {i} /\ exclusions' = exclusions
    BY <1>8 DEF undoDecline
  <2>2. /\ DOMAIN proposals' = DOMAIN proposals
        /\ \A id \in DOMAIN proposals :
             /\ proposals'[id].scope = proposals[id].scope
             /\ IF id = i /\ proposals[i].status = "declined" THEN proposals'[id].status = "pending"
                ELSE proposals'[id].status = proposals[id].status
    BY <1>1, <2>1, RowMoved DEF Over, RowStatus
  <2>3. proposals[i].status = "declined"
    BY <2>1 DEF toUndoControls, ProposalStatus
  <2>4. \A id : Excluding(id) => Excluding(id)'
    <3>1. doing[o].at # "exclude"
      BY <2>1 DEF Idle
    <3> QED BY <1>4, <2>1, <3>1
  <2>5. \A id \in DOMAIN proposals' : proposals'[id].status = "declined" =>
             id \in DOMAIN proposals /\ id # i /\ proposals[id].status = "declined"
    BY <2>2, <2>3
  <2>6. \A id \in DOMAIN proposals : Excluded(id) => Excluded(id)'
    BY <2>1, <2>2 DEF Excluded
  <2> QED BY <1>2, <2>1, <2>4, <2>5, <2>6 DEF DeclinedExcluded, ProposalStatus
<1>9. CASE ConfirmProposal(o)
  <2>1. doing[o].at = "confirm" /\ proposals' = StatusMoved(doing[o].id, "pending", "confirmed")
        /\ doing' = [doing EXCEPT ![o] = Idle] /\ exclusions' = exclusions /\ stranded' = stranded
    BY <1>9 DEF ConfirmProposal
  <2>2. doing[o].id \in DOMAIN proposals
    BY <1>3, <2>1 DEF OnOne
  <2>3. /\ DOMAIN proposals' = DOMAIN proposals
        /\ \A id \in DOMAIN proposals :
             /\ proposals'[id].scope = proposals[id].scope
             /\ IF id = doing[o].id /\ proposals[doing[o].id].status = "pending"
                THEN proposals'[id].status = "confirmed"
                ELSE proposals'[id].status = proposals[id].status
    BY <1>1, <2>1, <2>2, RowMoved DEF Over, RowStatus
  <2>4. \A id : Excluding(id) => Excluding(id)'
    BY <1>4, <2>1
  <2> QED BY <1>2, <2>1, <2>3, <2>4, RowsStand
<1>10. CASE DeclineProposal(o)
  <2>1. doing[o].at = "decline" /\ proposals' = StatusMoved(doing[o].id, "pending", "declined")
        /\ doing' = [doing EXCEPT ![o] = [doing[o] EXCEPT !.at = "exclude"]]
        /\ exclusions' = exclusions /\ stranded' = stranded
    BY <1>10 DEF DeclineProposal
  <2>2. doing[o].id \in DOMAIN proposals
    BY <1>3, <2>1 DEF OnOne
  <2>3. /\ DOMAIN proposals' = DOMAIN proposals
        /\ \A id \in DOMAIN proposals :
             /\ proposals'[id].scope = proposals[id].scope
             /\ IF id = doing[o].id /\ proposals[doing[o].id].status = "pending"
                THEN proposals'[id].status = "declined"
                ELSE proposals'[id].status = proposals[id].status
    BY <1>1, <2>1, <2>2, RowMoved DEF Over, RowStatus
  <2>4. \A id : Excluding(id) => Excluding(id)'
    BY <1>4, <2>1
  <2>5. Excluding(doing[o].id)'
    BY <1>2, <2>1 DEF Excluding
  <2>6. \A id \in DOMAIN proposals' : proposals'[id].status = "declined" =>
             id \in DOMAIN proposals /\ (id = doing[o].id \/ proposals[id].status = "declined")
    BY <2>3
  <2>7. \A id \in DOMAIN proposals : Excluded(id) => Excluded(id)'
    BY <2>1, <2>3 DEF Excluded
  <2> QED BY <1>2, <2>1, <2>4, <2>5, <2>6, <2>7 DEF DeclinedExcluded, ProposalStatus
<1>11. CASE CreateDeclinedProposalExclusion(o)
  <2>1. PICK i, s : i = doing[o].id /\ s = proposals[i].scope
    OBVIOUS
  <2>2. /\ exclusions' = IF ExclusionOf(s) # {} THEN exclusions ELSE exclusions \cup {[scope |-> s, from |-> i]}
        /\ doing' = [doing EXCEPT ![o] = Idle] /\ proposals' = proposals /\ stranded' = stranded
    BY <1>11, <2>1 DEF CreateDeclinedProposalExclusion
  <2>3. Excluded(i)'
    <3>1. CASE ExclusionOf(s) # {}
      BY <2>1, <2>2, <3>1 DEF ExclusionOf, Excluded
    <3>2. CASE ExclusionOf(s) = {}
      <4>1. [scope |-> s, from |-> i] \in exclusions' /\ [scope |-> s, from |-> i].scope = s
        BY <2>2, <3>2
      <4> QED BY <2>1, <2>2, <4>1 DEF Excluded
    <3> QED BY <3>1, <3>2
  <2>4. \A id : Excluding(id) => Excluding(id)' \/ id = i
    BY <1>2, <2>1, <2>2 DEF Excluding
  <2>5. exclusions \subseteq exclusions'
    BY <2>2
  <2> QED BY <1>2, <2>2, <2>3, <2>4, <2>5, RowsStand
<1>12. CASE DeleteUnclaimedAddressExclusion(o)
  <2> DEFINE s == proposals[doing[o].id].scope
  <2>1. /\ exclusions' = exclusions \ Lifted(s) /\ doing[o].at = "lift"
        /\ doing' = [doing EXCEPT ![o] = Idle] /\ proposals' = proposals /\ stranded' = stranded
    BY <1>12 DEF DeleteUnclaimedAddressExclusion
  <2>2. \A id : Excluding(id) => Excluding(id)'
    BY <1>4, <2>1
  <2>3. ASSUME NEW id \in DOMAIN proposals, ProposalStatus(id) = "declined", Excluded(id)
        PROVE  Excluded(id)'
    <3>1. PICK e \in exclusions : e.scope = proposals[id].scope
      BY <2>3 DEF Excluded
    <3>2. e \notin Lifted(s)
      BY <2>3, <3>1 DEF Lifted, ExclusionOf, OfScope, toUndoControls
    <3> QED BY <2>1, <3>1, <3>2 DEF Excluded
  <2> QED BY <1>2, <2>1, <2>2, <2>3 DEF DeclinedExcluded, ProposalStatus
<1> QED BY <1>5, <1>6, <1>7, <1>8, <1>9, <1>10, <1>11, <1>12

\* The invariant holds at the start, when nothing was filed, and every step keeps it.
LEMMA ProposalsStart == ProposalInit => ProposalInv
<1> SUFFICES ASSUME ProposalInit PROVE ProposalInv
  OBVIOUS
<1>1. Over({})
  BY DEF ProposalInit, Over, Idle, Stage
<1>2. DOMAIN proposals = {}
  BY DEF ProposalInit
<1>3. \A o \in Operators : doing[o].at \notin OnOne
  BY DEF ProposalInit, Idle, OnOne
<1> QED BY <1>1, <1>2, <1>3 DEF ProposalInv, ProposalsTyped, DeclinedExcluded

\* Every step of a proposal keeps the invariant.
LEMMA ProposalsStep == ProposalInv /\ [ProposalNext]_proposalVars => ProposalInv'
<1> SUFFICES ASSUME ProposalInv, [ProposalNext]_proposalVars PROVE ProposalInv'
  OBVIOUS
<1>1. CASE \E o \in Operators :
              \/ runLookup(o) \/ CreateProposal(o) \/ HandlerFails(o)
              \/ \E id \in DOMAIN proposals : confirmProposal(o, id) \/ declineLookup(o, id) \/ undoDecline(o, id)
              \/ CreateAddressSeed(o) \/ ConfirmProposal(o)
              \/ DeclineProposal(o) \/ CreateDeclinedProposalExclusion(o)
              \/ DeleteUnclaimedAddressExclusion(o)
  BY <1>1, RequestTyped, RequestHolds DEF ProposalInv
<1>2. CASE UNCHANGED <<proposals, doing>>
  <2>1. ProposalsTyped'
    BY <1>2 DEF ProposalInv, ProposalsTyped, Over
  <2>2. \A id : Excluding(id)' <=> Excluding(id)
    BY <1>2 DEF Excluding
  <2>3. CASE exclusions \subseteq exclusions' /\ stranded' = stranded
    BY <1>2, <2>1, <2>2, <2>3, RowsStand DEF ProposalInv
  <2>4. ASSUME NEW e \in exclusions, unexclude(e) PROVE DeclinedExcluded'
    <3>1. \A id \in DOMAIN proposals : proposals[id].status = "declined" /\ Excluded(id) =>
             Excluded(id)' \/ id \in stranded'
      BY <1>2, <2>4 DEF Excluded, unexclude, OfScope, toUndoControls, ProposalStatus
    <3>2. stranded \subseteq stranded'
      BY <2>4 DEF unexclude
    <3> QED BY <1>2, <2>2, <3>1, <3>2 DEF ProposalInv, DeclinedExcluded, ProposalStatus
  <2>5. \/ \E e \in exclusions : unexclude(e)
        \/ exclusions \subseteq exclusions' /\ stranded' = stranded
        \/ \E o \in Operators :
              \/ runLookup(o) \/ CreateProposal(o) \/ HandlerFails(o)
              \/ \E id \in DOMAIN proposals : confirmProposal(o, id) \/ declineLookup(o, id) \/ undoDecline(o, id)
              \/ CreateAddressSeed(o) \/ ConfirmProposal(o)
              \/ DeclineProposal(o) \/ CreateDeclinedProposalExclusion(o)
              \/ DeleteUnclaimedAddressExclusion(o)
    BY DEF ProposalNext, declareExclusion, toggleSource, proposalVars
  <2> QED BY <1>1, <2>1, <2>3, <2>4, <2>5 DEF ProposalInv
<1>3. UNCHANGED <<proposals, doing>> \/ \E o \in Operators :
              \/ runLookup(o) \/ CreateProposal(o) \/ HandlerFails(o)
              \/ \E id \in DOMAIN proposals : confirmProposal(o, id) \/ declineLookup(o, id) \/ undoDecline(o, id)
              \/ CreateAddressSeed(o) \/ ConfirmProposal(o)
              \/ DeclineProposal(o) \/ CreateDeclinedProposalExclusion(o)
              \/ DeleteUnclaimedAddressExclusion(o)
  BY DEF ProposalNext, declareExclusion, toggleSource, proposalVars, unexclude
<1> QED BY <1>1, <1>2, <1>3

\* A decline that ended stays excluded, with its undo, unless lifted by hand.
THEOREM DeclineHeld == ProposalSpec => []DeclineHolds
<1>1. ProposalInv => DeclineHolds
  BY DEF ProposalInv, DeclinedExcluded, Excluded, Excluding, DeclineHolds, toExclusionViews, toUndoControls,
         OfScope, ProposalStatus
<1> QED BY <1>1, ProposalsStart, ProposalsStep, PTL DEF ProposalSpec

-----------------------------------------------------------------------------
(* Walk: what a batch says of a zone it could only partly hear.            *)

InScope == {WalkNames[i] : i \in DOMAIN WalkNames}
Answer ==
    {RR("A", d) : d \in {"a1", "w1", "w2"}} \cup {RR("NS", s) : s \in Servers} \cup {RR("CNAME", "elsewhere")}
Datum == {"a1", "w1", "w2", "elsewhere"} \cup Servers
Spoken == [server : Servers \cup {""}, reached : BOOLEAN, serves : BOOLEAN]

Asked == {Qtypes[i] : i \in DOMAIN Qtypes} \cup {"NS", "SOA"}
Rcode == {"", "NOERROR", "NXDOMAIN", "REFUSED", "SERVFAIL", "FORMERR", "OTHER"}

Heard ==
    [reached : BOOLEAN, rcode : Rcode, truncated : BOOLEAN, unreachable : BOOLEAN, answer : SUBSET Answer]
Question ==
    [path : {"declared", "walk"}, server : Servers \cup {""}, name : InScope, qtype : Asked,
     transport : {"UDP", "TCP"}, edns : BOOLEAN, tries : Nat, leg : {"first", "plain", "tcp"}]
Reading ==
    [addrs : SUBSET Datum, nxAll : BOOLEAN, anyReached : BOOLEAN, anyNoError : BOOLEAN, sawCNAME : BOOLEAN,
     records : SUBSET [asked : Asked, rr : Answer], silent : SUBSET Asked]
Result ==
    [name : InScope, outcome : {"Resolved", "Gap", "NoData", "NameError", "Shadowed"},
     addresses : SUBSET Datum, delegation : {"none", "gap", "lame", "serves"}, statuses : SUBSET Spoken,
     verdict : {"NotShadowed", "Shadowed", "Gap"}, silent : SUBSET Asked]
Position ==
    [kind : Kinds, phase : {"control", "declared", "authorities", "servers", "written", "failed"},
     name : 1..Len(WalkNames), qt : 1..Len(Qtypes), q : Question, ask : SUBSET Servers,
     statuses : SUBSET Spoken, control : [complete : BOOLEAN, sets : [Labels -> SUBSET Answer]]]

ZoneTyped ==
    /\ zone \in [of : [InScope -> Truths], wildcard : Wildcards]
    /\ \A n \in InScope : zone.of[n] = "synth" => zone.wildcard # "none"

WalkTyped == ZoneTyped /\ batch \in Position /\ acc \in Reading /\ out \in Seq(Result)

Truth == zone.of[WalkNames[batch.name]]
SynthesisedA == [asked |-> "A", rr |-> RR("A", "w1")]
OwnA == [asked |-> "A", rr |-> RR("A", "a1")]

\* The first qtype, the address, is settled and the name not yet emitted.
AddressAsked ==
    batch.phase \in {"authorities", "servers"} \/ (batch.phase = "declared" /\ batch.qt > 1)

\* What was heard of a name is what the zone says of it.
NotMisheard(a, t) ==
    /\ a.anyReached /\ a.nxAll => t = "gone" \/ (t = "dangling" /\ a.sawCNAME)
    /\ a.addrs # {} => t \in {"here", "synth"}
    /\ t = "synth" /\ zone.wildcard = "fixed" => a.records \subseteq {SynthesisedA}

\* A name that was heard in full was heard to have the address it has.
HeardWhole(a, t) ==
    TCPAttempts > 0 /\ a.silent = {} =>
        /\ t = "synth" /\ zone.wildcard = "fixed" => SynthesisedA \in a.records
        /\ t = "here" => OwnA \in a.records

\* A declared query is about the name and the qtype the batch stands at, and the
\* control is probed before any.
AsksInTurn ==
    /\ batch.phase \in {"control", "declared"} =>
          batch.q.server = "" /\ batch.q.name = WalkNames[batch.name] /\ batch.q.qtype = Qtypes[batch.qt]
    /\ batch.phase = "control" => batch.qt = 1

\* A control label was answered by the wildcard, or not heard.
ControlHeard ==
    /\ \A l \in Labels : batch.control.sets[l] = {} \/ batch.control.sets[l] \in Synthesised(zone.wildcard)
    /\ batch.control.complete => \A l \in Labels : batch.control.sets[l] \in Synthesised(zone.wildcard)

\* What both properties ask of one result.
ResultHonest(r) ==
    /\ batch.kind = "resolution-walk" =>
          /\ r.outcome = "NameError" => zone.of[r.name] = "gone"
          /\ r.outcome = "Resolved" => zone.of[r.name] \in {"here", "synth"} /\ r.addresses # {}
          /\ r.delegation = "lame" => \E s \in r.statuses : s.reached
    /\ batch.kind = "wildcard-discrimination" /\ r.silent = {} /\ TCPAttempts > 0 =>
          /\ r.verdict = "Shadowed" => zone.wildcard # "none"
          /\ zone.of[r.name] = "synth" /\ zone.wildcard = "fixed" => r.verdict # "NotShadowed"
          /\ zone.of[r.name] = "here" /\ zone.wildcard = "fixed" => r.verdict # "Shadowed"

OnePerName ==
    CASE batch.phase = "written" -> Len(out) = Len(WalkNames)
      [] batch.phase = "failed" -> out = <<>>
      [] OTHER -> Len(out) = batch.name - 1

\* The inductive invariant.
WalkInv ==
    /\ WalkTyped /\ AsksInTurn /\ ControlHeard /\ OnePerName
    /\ NotMisheard(acc, Truth)
    /\ AddressAsked => HeardWhole(acc, Truth)
    /\ \A i \in 1..Len(out) : ResultHonest(out[i])

\* The names of the batch.
LEMMA NamesInScope ==
    /\ Len(WalkNames) \in Nat \ {0} /\ DOMAIN WalkNames = 1..Len(WalkNames)
    /\ \A i \in 1..Len(WalkNames) : WalkNames[i] \in InScope
    /\ Len(Qtypes) \in Nat \ {0} /\ \A i \in 1..Len(Qtypes) : Qtypes[i] \in Asked
<1>1. WalkNames \in Seq(InScope) /\ Qtypes \in Seq(STRING)
  BY WalkAssumption DEF InScope
<1> QED BY <1>1, WalkAssumption, LenProperties, ElementOfSeq DEF InScope, Asked

-----------------------------------------------------------------------------
(* The exchange.                                                            *)

\* A reply and a record say what they were made of.
LEMMA AsMade ==
    /\ \A c, s : Raw(c, s).rcode = c /\ Raw(c, s).tc = FALSE /\ Raw(c, s).answer = s
    /\ \A t, d : RR(t, d).type = t /\ RR(t, d).data = d
    /\ \A d \in {"a1", "w1", "w2"} : RR("A", d) \in Answer
    /\ \A s \in Servers : RR("NS", s) \in Answer
    /\ RR("CNAME", "elsewhere") \in Answer
<1>1. \A c, s : Raw(c, s).rcode = c /\ Raw(c, s).tc = FALSE /\ Raw(c, s).answer = s
  BY DEF Raw
<1>2. \A t, d : RR(t, d).type = t /\ RR(t, d).data = d
  BY DEF RR
<1>3. /\ \A d \in {"a1", "w1", "w2"} : RR("A", d) \in Answer
      /\ \A s \in Servers : RR("NS", s) \in Answer
      /\ RR("CNAME", "elsewhere") \in Answer
  BY DEF Answer
<1> QED BY <1>1, <1>2, <1>3

\* What the zone's own resolver says of a name.
LEMMA TrueReply ==
    ASSUME ZoneTyped, NEW q \in Question, NEW raw \in TrueReplies(q)
    PROVE  /\ raw.tc = FALSE
           /\ raw.rcode \in {"NOERROR", "REFUSED", "NXDOMAIN"} /\ raw.answer \subseteq Answer
           /\ q.server = "" =>
                /\ raw.rcode = "NXDOMAIN" =>
                      \/ zone.of[q.name] = "gone"
                      \/ zone.of[q.name] = "dangling" /\ \E r \in raw.answer : r.type = "CNAME"
                /\ (\E r \in raw.answer : r.type \in {"A", "AAAA"}) => zone.of[q.name] \in {"here", "synth"}
                /\ zone.of[q.name] = "synth" /\ zone.wildcard = "fixed" =>
                      raw.answer = IF q.qtype = "A" THEN {RR("A", "w1")} ELSE {}
                /\ zone.of[q.name] = "here" /\ q.qtype = "A" => raw.answer = {RR("A", "a1")}
<1> DEFINE t == zone.of[q.name]
<1>1. t \in Truths /\ zone.wildcard \in Wildcards
  BY DEF ZoneTyped, Question
<1>2. ASSUME NEW s \in Synthesised(zone.wildcard)
      PROVE  /\ s \subseteq {RR("A", "w1"), RR("A", "w2")}
             /\ zone.wildcard = "fixed" => s = {RR("A", "w1")}
  BY <1>1, <1>2 DEF Synthesised, Wildcards
<1>3. CASE q.server # ""
  <2>1. TrueReplies(q) = {Raw("NOERROR", {}), Raw("REFUSED", {})}
    BY <1>3 DEF TrueReplies
  <2>2. raw.rcode \in {"NOERROR", "REFUSED"} /\ raw.answer = {} /\ raw.tc = FALSE
    BY <2>1, AsMade
  <2> QED BY <1>3, <2>2
<1>4. CASE q.server = "" /\ t = "gone"
  <2>1. TrueReplies(q) = {Raw("NXDOMAIN", {})}
    BY <1>4 DEF TrueReplies
  <2>2. raw.rcode = "NXDOMAIN" /\ raw.answer = {} /\ raw.tc = FALSE
    BY <2>1, AsMade
  <2> QED BY <1>4, <2>2
<1>5. CASE q.server = "" /\ t = "dangling"
  <2>1. TrueReplies(q) = {Raw("NXDOMAIN", {RR("CNAME", "elsewhere")})}
    BY <1>5 DEF TrueReplies
  <2>2. raw.rcode = "NXDOMAIN" /\ raw.answer = {RR("CNAME", "elsewhere")} /\ raw.tc = FALSE
    BY <2>1, AsMade
  <2>3. /\ raw.answer \subseteq Answer /\ \E r \in raw.answer : r.type = "CNAME"
        /\ ~ \E r \in raw.answer : r.type \in {"A", "AAAA"}
    BY <2>2, AsMade
  <2> QED BY <1>5, <2>2, <2>3
<1>6. CASE q.server = "" /\ t = "here" /\ q.qtype = "A"
  <2>1. TrueReplies(q) = {Raw("NOERROR", {RR("A", "a1")})}
    BY <1>6 DEF TrueReplies
  <2>2. raw.rcode = "NOERROR" /\ raw.answer = {RR("A", "a1")} /\ raw.tc = FALSE
    BY <2>1, AsMade
  <2>3. raw.answer \subseteq Answer
    BY <2>2, AsMade
  <2> QED BY <1>6, <2>2, <2>3
<1>7. CASE q.server = "" /\ t = "here" /\ q.qtype # "A"
  <2>1. TrueReplies(q) \subseteq {Raw("NOERROR", {RR("NS", s) : s \in Servers}), Raw("NOERROR", {})}
    BY <1>7 DEF TrueReplies
  <2>2. raw = Raw("NOERROR", {RR("NS", s) : s \in Servers}) \/ raw = Raw("NOERROR", {})
    BY <2>1
  <2>3. raw.rcode = "NOERROR" /\ raw.answer \in {{RR("NS", s) : s \in Servers}, {}} /\ raw.tc = FALSE
    BY <2>2, AsMade
  <2>4. ASSUME NEW r \in raw.answer
        PROVE  r \in Answer /\ r.type = "NS"
    BY <2>3, AsMade
  <2> QED BY <1>7, <2>3, <2>4
<1>8. CASE q.server = "" /\ t = "synth" /\ q.qtype = "A"
  <2>1. TrueReplies(q) = {Raw("NOERROR", s) : s \in Synthesised(zone.wildcard)}
    BY <1>8 DEF TrueReplies
  <2>2. PICK s \in Synthesised(zone.wildcard) : raw = Raw("NOERROR", s)
    BY <2>1
  <2>3. raw.rcode = "NOERROR" /\ raw.answer = s /\ raw.tc = FALSE
    BY <2>2, AsMade
  <2>4. raw.answer \subseteq Answer
    BY <1>2, <2>3, AsMade
  <2> QED BY <1>2, <1>8, <2>3, <2>4
<1>9. CASE q.server = "" /\ (t = "empty" \/ (t = "synth" /\ q.qtype # "A"))
  <2>1. TrueReplies(q) = {Raw("NOERROR", {})}
    BY <1>9 DEF TrueReplies
  <2>2. raw.rcode = "NOERROR" /\ raw.answer = {} /\ raw.tc = FALSE
    BY <2>1, AsMade
  <2> QED BY <1>9, <2>2
<1> QED BY <1>1, <1>3, <1>4, <1>5, <1>6, <1>7, <1>8, <1>9 DEF Truths

\* A reply as the prober reads it, and the two ways of hearing none.
LEMMA Parsed ==
    /\ \A raw : parseResponse(raw) = [reached |-> TRUE, rcode |-> raw.rcode, truncated |-> raw.tc,
                                      unreachable |-> FALSE, answer |-> raw.answer]
    /\ Msg = [reached |-> FALSE, rcode |-> "", truncated |-> FALSE, unreachable |-> FALSE, answer |-> {}]
    /\ Unreachable = [reached |-> FALSE, rcode |-> "", truncated |-> FALSE, unreachable |-> TRUE, answer |-> {}]
BY DEF Msg, Unreachable, parseResponse

\* What the prober makes of whatever comes back, or does not.
LEMMA WhatIsHeard ==
    ASSUME ZoneTyped, NEW q \in Question, NEW m \in NetPeerExchange(q)
    PROVE  /\ m \in Heard
           /\ ~m.reached => m.answer = {}
           /\ q.server = "" =>
                /\ m.rcode = "NXDOMAIN" =>
                      \/ zone.of[q.name] = "gone"
                      \/ zone.of[q.name] = "dangling" /\ \E r \in m.answer : r.type = "CNAME"
                /\ (\E r \in m.answer : r.type \in {"A", "AAAA"}) => zone.of[q.name] \in {"here", "synth"}
                /\ zone.of[q.name] = "synth" /\ zone.wildcard = "fixed" =>
                      m.answer \subseteq (IF q.qtype = "A" THEN {RR("A", "w1")} ELSE {})
                /\ q.qtype = "A" /\ m.reached /\ ~m.truncated /\ m.rcode \in {"NOERROR", "NXDOMAIN"} =>
                      /\ zone.of[q.name] = "synth" /\ zone.wildcard = "fixed" => RR("A", "w1") \in m.answer
                      /\ zone.of[q.name] = "here" => RR("A", "a1") \in m.answer
<1>1. CASE m \in {Unreachable, Msg}
  <2>1. PICK u \in BOOLEAN :
          m = [reached |-> FALSE, rcode |-> "", truncated |-> FALSE, unreachable |-> u, answer |-> {}]
    BY <1>1 DEF Msg, Unreachable
  <2>2. m.reached = FALSE /\ m.answer = {} /\ m.rcode = ""
    BY <2>1
  <2>3. m \in Heard
    BY <2>1 DEF Heard, Rcode
  <2> QED BY <2>2, <2>3
<1>2. CASE \E raw \in TrueReplies(q) : m = parseResponse(raw)
  <2>1. PICK raw \in TrueReplies(q) : m = parseResponse(raw)
    BY <1>2
  <2>2. /\ raw.tc = FALSE
        /\ raw.rcode \in {"NOERROR", "REFUSED", "NXDOMAIN"} /\ raw.answer \subseteq Answer
        /\ q.server = "" =>
              /\ raw.rcode = "NXDOMAIN" =>
                    \/ zone.of[q.name] = "gone"
                    \/ zone.of[q.name] = "dangling" /\ \E r \in raw.answer : r.type = "CNAME"
              /\ (\E r \in raw.answer : r.type \in {"A", "AAAA"}) => zone.of[q.name] \in {"here", "synth"}
              /\ zone.of[q.name] = "synth" /\ zone.wildcard = "fixed" =>
                    raw.answer = IF q.qtype = "A" THEN {RR("A", "w1")} ELSE {}
              /\ zone.of[q.name] = "here" /\ q.qtype = "A" => raw.answer = {RR("A", "a1")}
    BY TrueReply
  <2>3. m = [reached |-> TRUE, rcode |-> raw.rcode, truncated |-> FALSE,
             unreachable |-> FALSE, answer |-> raw.answer]
    BY <2>1, <2>2, Parsed
  <2>4. m.reached = TRUE /\ m.rcode = raw.rcode /\ m.answer = raw.answer
    BY <2>3
  <2>5. m \in Heard
    BY <2>2, <2>3 DEF Heard, Rcode
  <2> QED BY <2>2, <2>4, <2>5
<1>3. CASE \E raw \in {[rcode |-> "NOERROR", tc |-> TRUE, answer |-> {}], Raw("SERVFAIL", {}),
                       Raw("FORMERR", {}), Raw("OTHER", {})} : m = parseResponse(raw)
  <2>1. PICK raw \in {[rcode |-> "NOERROR", tc |-> TRUE, answer |-> {}], Raw("SERVFAIL", {}),
                      Raw("FORMERR", {}), Raw("OTHER", {})} : m = parseResponse(raw)
    BY <1>3
  <2>2. /\ raw.answer = {}
        /\ \/ raw.rcode = "NOERROR" /\ raw.tc = TRUE
           \/ raw.rcode \in {"SERVFAIL", "FORMERR", "OTHER"} /\ raw.tc = FALSE
    BY <2>1, AsMade
  <2>3. m = [reached |-> TRUE, rcode |-> raw.rcode, truncated |-> raw.tc, unreachable |-> FALSE, answer |-> {}]
    BY <2>1, <2>2, Parsed
  <2>4. m.reached = TRUE /\ m.rcode = raw.rcode /\ m.truncated = raw.tc /\ m.answer = {}
    BY <2>3
  <2>5. m \in Heard
    BY <2>2, <2>3 DEF Heard, Rcode
  <2> QED BY <2>2, <2>4, <2>5
<1> QED BY <1>1, <1>2, <1>3 DEF NetPeerExchange, Replies

\* A query, and its next attempt, are of the name, the qtype and the server.
LEMMA QueryIs ==
    ASSUME NEW path \in {"declared", "walk"}, NEW server \in Servers \cup {""}, NEW name \in InScope,
           NEW qtype \in Asked
    PROVE  /\ Query(path, server, name, qtype) \in Question
           /\ Query(path, server, name, qtype).server = server
           /\ Query(path, server, name, qtype).name = name
           /\ Query(path, server, name, qtype).qtype = qtype
BY DEF Query, Question

\* The first query of a name.
LEMMA FirstIs ==
    ASSUME NEW i \in 1..Len(WalkNames)
    PROVE  /\ FirstQuery(i) \in Question /\ FirstQuery(i).server = ""
           /\ FirstQuery(i).name = WalkNames[i] /\ FirstQuery(i).qtype = Qtypes[1]
<1>1. WalkNames[i] \in InScope /\ Qtypes[1] \in Asked
  BY NamesInScope
<1>2. FirstQuery(i) \in Question
  BY <1>1 DEF FirstQuery, Query, Question
<1>3. FirstQuery(i).server = "" /\ FirstQuery(i).name = WalkNames[i] /\ FirstQuery(i).qtype = Qtypes[1]
  BY DEF FirstQuery, Query
<1> QED BY <1>2, <1>3

\* A next attempt asks the same again.
LEMMA AsksAgain ==
    ASSUME NEW q \in Question
    PROVE  /\ NextAttempt(q) \in Question
           /\ NextAttempt(q).server = q.server /\ NextAttempt(q).name = q.name
           /\ NextAttempt(q).qtype = q.qtype
<1>1. PICK transport \in {"UDP", "TCP"}, tries \in Nat :
        NextAttempt(q) = [q EXCEPT !.transport = transport, !.tries = tries]
  <2>1. [q EXCEPT !.tries = @ + 1] = [q EXCEPT !.transport = q.transport, !.tries = q.tries + 1]
    BY DEF Question
  <2>2. q.tries \in Nat /\ q.transport \in {"UDP", "TCP"}
    BY DEF Question
  <2>3. q.tries + 1 \in Nat
    BY <2>2
  <2> QED BY <2>1, <2>2, <2>3 DEF NextAttempt
<1>2. NextAttempt(q) \in Question
  BY <1>1 DEF Question
<1>3. /\ NextAttempt(q).server = q.server /\ NextAttempt(q).name = q.name
      /\ NextAttempt(q).qtype = q.qtype
  BY <1>1 DEF Question
<1> QED BY <1>2, <1>3

-----------------------------------------------------------------------------
(* A qtype folded into the reading.                                         *)

\* The parts of a reading a query that got no answer leaves as they were, and
\* those an answer adds to.
LEMMA Absorbed ==
    ASSUME NEW a \in Reading, NEW q \in Question, NEW m \in Heard
    PROVE  LET b == Absorb(a, q, m) IN
           /\ b \in Reading
           /\ ~Answered(q, m) =>
                 /\ b.silent = a.silent \cup {q.qtype}
                 /\ b.nxAll = a.nxAll /\ b.anyReached = a.anyReached /\ b.addrs = a.addrs
                 /\ b.sawCNAME = a.sawCNAME /\ b.records = a.records
           /\ Answered(q, m) =>
                 /\ b.silent = IF m.rcode \in {"NOERROR", "NXDOMAIN"} THEN a.silent
                               ELSE a.silent \cup {q.qtype}
                 /\ b.nxAll = (a.nxAll /\ m.rcode = "NXDOMAIN")
                 /\ b.addrs = a.addrs \cup {r.data : r \in {x \in m.answer : x.type \in {"A", "AAAA"}}}
                 /\ b.sawCNAME = (a.sawCNAME \/ \E r \in m.answer : r.type = "CNAME")
                 /\ b.records = a.records \cup {[asked |-> q.qtype, rr |-> r] : r \in m.answer}
<1> DEFINE b == Absorb(a, q, m)
           addrs == {r.data : r \in {x \in m.answer : x.type \in {"A", "AAAA"}}}
           saw == \E r \in m.answer : r.type = "CNAME"
           added == {[asked |-> q.qtype, rr |-> r] : r \in m.answer}
           quiet == IF m.rcode \in {"NOERROR", "NXDOMAIN"} THEN a.silent ELSE a.silent \cup {q.qtype}
<1>1. m.answer \subseteq Answer /\ q.qtype \in Asked
  BY DEF Heard, Question
<1>2. addrs \subseteq Datum
  <2>1. \A r \in Answer : r.data \in Datum
    <3>1. \A d \in {"a1", "w1", "w2"} : RR("A", d).data \in Datum
      BY AsMade DEF Datum
    <3>2. \A s \in Servers : RR("NS", s).data \in Datum
      BY AsMade DEF Datum
    <3>3. RR("CNAME", "elsewhere").data \in Datum
      BY AsMade DEF Datum
    <3> QED BY <3>1, <3>2, <3>3 DEF Answer
  <2> QED BY <1>1, <2>1
<1>3. added \subseteq [asked : Asked, rr : Answer]
  BY <1>1
<1>4. quiet \subseteq Asked
  BY <1>1 DEF Reading
<1>5. CASE ~Answered(q, m)
  <2>1. b = [a EXCEPT !.silent = @ \cup {q.qtype}]
    BY <1>5 DEF Absorb
  <2>2. b \in Reading
    BY <1>1, <2>1 DEF Reading
  <2>3. /\ b.silent = a.silent \cup {q.qtype}
        /\ b.nxAll = a.nxAll /\ b.anyReached = a.anyReached /\ b.addrs = a.addrs
        /\ b.sawCNAME = a.sawCNAME /\ b.records = a.records
    BY <2>1 DEF Reading
  <2> QED BY <1>5, <2>2, <2>3
<1>6. CASE Answered(q, m)
  <2> HIDE DEF addrs, saw, added, quiet
  <2>1. b = [a EXCEPT !.silent = quiet, !.anyReached = TRUE, !.nxAll = @ /\ m.rcode = "NXDOMAIN",
                      !.anyNoError = @ \/ m.rcode = "NOERROR", !.addrs = @ \cup addrs,
                      !.sawCNAME = @ \/ saw, !.records = @ \cup added]
    BY <1>6 DEF Absorb, addrs, saw, added, quiet
  <2> HIDE DEF b
  <2>2. saw \in BOOLEAN
    BY DEF saw
  <2>3. b \in Reading
    BY <1>2, <1>3, <1>4, <2>1, <2>2 DEF Reading
  <2>4. b.silent = quiet /\ b.addrs = a.addrs \cup addrs /\ b.records = a.records \cup added
    BY <2>1 DEF Reading
  <2>5. b.nxAll = (a.nxAll /\ m.rcode = "NXDOMAIN")
    BY <2>1 DEF Reading
  <2>6. b.sawCNAME = (a.sawCNAME \/ saw)
    BY <2>1, <2>2 DEF Reading
  <2> QED BY <1>6, <2>3, <2>4, <2>5, <2>6 DEF b, addrs, saw, added, quiet
<1> QED BY <1>5, <1>6

\* A declared query's settled message leaves the reading true to the zone, and
\* once the address is asked, whole.
LEMMA AbsorbKeeps ==
    ASSUME ZoneTyped, NEW a \in Reading, NEW q \in Question, NEW m \in NetPeerExchange(q),
           q.server = "", ~m.unreachable, ~AsksOverTCP(q, m),
           NotMisheard(a, zone.of[q.name]), HeardWhole(a, zone.of[q.name]) \/ q.qtype = "A"
    PROVE  LET b == Absorb(a, q, m) IN
           b \in Reading /\ NotMisheard(b, zone.of[q.name]) /\ HeardWhole(b, zone.of[q.name])
<1> DEFINE b == Absorb(a, q, m)
           t == zone.of[q.name]
<1>1. /\ m \in Heard
      /\ m.rcode = "NXDOMAIN" => \/ t = "gone"
                                 \/ t = "dangling" /\ \E r \in m.answer : r.type = "CNAME"
      /\ (\E r \in m.answer : r.type \in {"A", "AAAA"}) => t \in {"here", "synth"}
      /\ t = "synth" /\ zone.wildcard = "fixed" =>
            m.answer \subseteq (IF q.qtype = "A" THEN {RR("A", "w1")} ELSE {})
      /\ q.qtype = "A" /\ m.reached /\ ~m.truncated /\ m.rcode \in {"NOERROR", "NXDOMAIN"} =>
            /\ t = "synth" /\ zone.wildcard = "fixed" => RR("A", "w1") \in m.answer
            /\ t = "here" => RR("A", "a1") \in m.answer
  BY WhatIsHeard
<1> HIDE DEF b, t
<1>2. /\ b \in Reading
      /\ ~Answered(q, m) =>
            /\ b.silent = a.silent \cup {q.qtype}
            /\ b.nxAll = a.nxAll /\ b.anyReached = a.anyReached /\ b.addrs = a.addrs
            /\ b.sawCNAME = a.sawCNAME /\ b.records = a.records
      /\ Answered(q, m) =>
            /\ b.silent = IF m.rcode \in {"NOERROR", "NXDOMAIN"} THEN a.silent
                          ELSE a.silent \cup {q.qtype}
            /\ b.nxAll = (a.nxAll /\ m.rcode = "NXDOMAIN")
            /\ b.addrs = a.addrs \cup {r.data : r \in {x \in m.answer : x.type \in {"A", "AAAA"}}}
            /\ b.sawCNAME = (a.sawCNAME \/ \E r \in m.answer : r.type = "CNAME")
            /\ b.records = a.records \cup {[asked |-> q.qtype, rr |-> r] : r \in m.answer}
  BY <1>1, Absorbed DEF b
<1>3. NotMisheard(a, t) /\ (HeardWhole(a, t) \/ q.qtype = "A")
  BY DEF t
<1>4. CASE ~Answered(q, m)
  <2>1. NotMisheard(b, t)
    BY <1>2, <1>3, <1>4 DEF NotMisheard
  <2>2. b.silent # {}
    BY <1>2, <1>4
  <2> QED BY <1>2, <2>1, <2>2 DEF HeardWhole, b, t
<1>5. CASE Answered(q, m)
  <2>1. b.anyReached /\ b.nxAll => t = "gone" \/ (t = "dangling" /\ b.sawCNAME)
    BY <1>1, <1>2, <1>5
  <2>2. b.addrs # {} => t \in {"here", "synth"}
    BY <1>1, <1>2, <1>3, <1>5 DEF NotMisheard
  <2>3. ASSUME t = "synth", zone.wildcard = "fixed"
        PROVE  b.records \subseteq {SynthesisedA}
    <3>1. a.records \subseteq {SynthesisedA}
      BY <1>3, <2>3 DEF NotMisheard
    <3>2. \A r \in m.answer : r = RR("A", "w1") /\ q.qtype = "A"
      BY <1>1, <2>3
    <3>3. \A r \in m.answer : [asked |-> q.qtype, rr |-> r] = SynthesisedA
      BY <3>2 DEF SynthesisedA
    <3> QED BY <1>2, <1>5, <3>1, <3>3
  <2>4. HeardWhole(b, t)
    <3> SUFFICES ASSUME TCPAttempts > 0, b.silent = {}
                 PROVE  /\ t = "synth" /\ zone.wildcard = "fixed" => SynthesisedA \in b.records
                        /\ t = "here" => OwnA \in b.records
      BY DEF HeardWhole
    <3>1. m.rcode \in {"NOERROR", "NXDOMAIN"} /\ a.silent = {}
      BY <1>2, <1>5
    <3>2. m.reached /\ ~m.truncated
      BY <1>5 DEF Answered, AsksOverTCP
    <3>3. a.records \subseteq b.records
      BY <1>2, <1>5
    <3>4. CASE HeardWhole(a, t)
      BY <3>1, <3>3, <3>4 DEF HeardWhole
    <3>5. CASE q.qtype = "A"
      <4>1. /\ t = "synth" /\ zone.wildcard = "fixed" => RR("A", "w1") \in m.answer
            /\ t = "here" => RR("A", "a1") \in m.answer
        BY <1>1, <3>1, <3>2, <3>5
      <4>2. \A r \in m.answer : [asked |-> "A", rr |-> r] \in b.records
        BY <1>2, <1>5, <3>5
      <4> QED BY <4>1, <4>2 DEF SynthesisedA, OwnA
    <3> QED BY <1>3, <3>4, <3>5
  <2> QED BY <1>2, <2>1, <2>2, <2>3, <2>4 DEF NotMisheard, b, t
<1> QED BY <1>4, <1>5

-----------------------------------------------------------------------------
(* A result emitted.                                                        *)

\* Discrimination, of a reading heard whole against a control the wildcard
\* answered: a verdict of the name's own or of its shadow is what the zone says.
LEMMA VerdictTrue ==
    ASSUME ZoneTyped, ControlHeard, batch \in Position, NEW a \in Reading, NEW t \in Truths,
           NotMisheard(a, t), HeardWhole(a, t), a.silent = {}, TCPAttempts > 0
    PROVE  LET verdict == Discriminate(a.records, batch.control) IN
           /\ verdict = "Shadowed" => zone.wildcard # "none"
           /\ t = "synth" /\ zone.wildcard = "fixed" => verdict # "NotShadowed"
           /\ t = "here" /\ zone.wildcard = "fixed" => verdict # "Shadowed"
<1> DEFINE c == batch.control
           verdict == Discriminate(a.records, c)
<1>1. PICK l0 : l0 \in Labels
  BY WalkAssumption
<1>2. verdict = IF ~c.complete THEN "Gap"
                ELSE IF ~wildcardMeasured(c) THEN "NotShadowed"
                ELSE IF differsAtDeterminate(a.records, c) THEN "NotShadowed" ELSE "Shadowed"
  BY DEF Discriminate
<1>3. c.complete => \A l \in Labels : c.sets[l] \in Synthesised(zone.wildcard)
  BY DEF ControlHeard
<1> HIDE DEF c, verdict
<1>4. verdict = "Shadowed" => zone.wildcard # "none"
  <2>1. zone.wildcard = "none" => Synthesised(zone.wildcard) = {{}}
    BY DEF Synthesised
  <2>2. zone.wildcard = "none" /\ c.complete => ~wildcardMeasured(c)
    BY <1>3, <2>1 DEF wildcardMeasured
  <2> QED BY <1>2, <2>2
<1>5. ASSUME zone.wildcard = "fixed", c.complete
      PROVE  /\ \A l \in Labels : c.sets[l] = {RR("A", "w1")}
             /\ wildcardMeasured(c)
             /\ signatureOf(c.sets) = "Determinate"
             /\ UNION {{r.data : r \in c.sets[l]} : l \in Labels} = {"w1"}
  <2>1. \A l \in Labels : c.sets[l] = {RR("A", "w1")}
    BY <1>3, <1>5 DEF Synthesised
  <2>2. wildcardMeasured(c)
    BY <1>1, <2>1 DEF wildcardMeasured
  <2>3. signatureOf(c.sets) = "Determinate"
    BY <1>1, <2>1 DEF signatureOf
  <2>4. \A l \in Labels : {r.data : r \in c.sets[l]} = {"w1"}
    BY <2>1, AsMade
  <2>5. UNION {{r.data : r \in c.sets[l]} : l \in Labels} = {"w1"}
    BY <1>1, <2>4
  <2> QED BY <2>1, <2>2, <2>3, <2>5
<1>6. ASSUME t = "synth", zone.wildcard = "fixed", c.complete
      PROVE  verdict # "NotShadowed"
  <2>1. a.records = {SynthesisedA}
    BY <1>6 DEF NotMisheard, HeardWhole
  <2>2. SynthesisedA.asked = "A" /\ SynthesisedA.rr = RR("A", "w1")
    BY DEF SynthesisedA
  <2>3. SynthesisedA.rr.type = "A" /\ SynthesisedA.rr.data = "w1"
    BY <2>2, AsMade
  <2>4. Component(a.records, "A", "A") = {"w1"}
    BY <2>1, <2>2, <2>3 DEF Component
  <2>5. ~ \E x \in a.records : <<x.asked, x.rr.type>> # <<"A", "A">>
    BY <2>1, <2>2, <2>3
  <2>6. ~differsAtDeterminate(a.records, c)
    BY <1>5, <1>6, <2>4, <2>5 DEF differsAtDeterminate
  <2> QED BY <1>2, <1>5, <1>6, <2>6
<1>7. ASSUME t = "here", zone.wildcard = "fixed", c.complete
      PROVE  verdict # "Shadowed"
  <2>1. OwnA \in a.records
    BY <1>7 DEF HeardWhole
  <2>2. OwnA.asked = "A" /\ OwnA.rr = RR("A", "a1")
    BY DEF OwnA
  <2>3. OwnA.rr.type = "A" /\ OwnA.rr.data = "a1"
    BY <2>2, AsMade
  <2>4. "a1" \in Component(a.records, "A", "A")
    BY <2>1, <2>2, <2>3 DEF Component
  <2>5. Component(a.records, "A", "A") # {"w1"}
    BY <2>4
  <2>6. differsAtDeterminate(a.records, c)
    BY <1>5, <1>7, <2>5 DEF differsAtDeterminate
  <2> QED BY <1>2, <1>5, <1>7, <2>6
<1>8. ~c.complete => verdict = "Gap"
  BY <1>2
<1> QED BY <1>4, <1>6, <1>7, <1>8 DEF c, verdict

\* Resolution and delegation, of a reading not misheard.
LEMMA ResolutionTrue ==
    ASSUME NEW a \in Reading, NEW t, NotMisheard(a, t), NEW statuses \in SUBSET Spoken
    PROVE  /\ decideResolution(a) \in {"Resolved", "Gap", "NoData", "NameError"}
           /\ decideResolution(a) = "NameError" => t = "gone"
           /\ decideResolution(a) = "Resolved" => t \in {"here", "synth"} /\ a.addrs # {}
           /\ Delegation(statuses) \in {"none", "gap", "lame", "serves"}
           /\ Delegation(statuses) = "lame" => \E s \in statuses : s.reached
<1>1. decideResolution(a) = IF a.addrs # {} THEN "Resolved"
                            ELSE IF ~a.anyReached THEN "Gap"
                            ELSE IF a.nxAll THEN (IF a.sawCNAME THEN "NoData" ELSE "NameError")
                            ELSE IF a.anyNoError THEN "NoData" ELSE "Gap"
  BY DEF decideResolution, Reading
<1>2. Delegation(statuses) = IF statuses = {} THEN "none"
                             ELSE IF {s \in statuses : s.reached} = {} THEN "gap"
                             ELSE IF \A s \in {x \in statuses : x.reached} : ~s.serves THEN "lame"
                             ELSE "serves"
  BY DEF Delegation
<1>3. Delegation(statuses) = "lame" => {s \in statuses : s.reached} # {}
  BY <1>2
<1>4. decideResolution(a) \in {"Resolved", "Gap", "NoData", "NameError"}
  BY <1>1
<1>5. Delegation(statuses) \in {"none", "gap", "lame", "serves"}
  BY <1>2
<1>6. decideResolution(a) = "NameError" => t = "gone"
  BY <1>1 DEF NotMisheard
<1>7. decideResolution(a) = "Resolved" => t \in {"here", "synth"} /\ a.addrs # {}
  BY <1>1 DEF NotMisheard
<1> QED BY <1>3, <1>4, <1>5, <1>6, <1>7

\* A result is emitted of a reading that may be silent but is not misheard.
LEMMA EmitKeeps ==
    ASSUME WalkInv, NEW a \in Reading, NotMisheard(a, Truth), HeardWhole(a, Truth),
           NEW statuses \in SUBSET Spoken, batch.phase \in {"declared", "authorities", "servers"},
           Emit(a, statuses), zone' = zone
    PROVE  WalkInv'
<1> DEFINE wild == batch.kind = "wildcard-discrimination"
           verdict == IF wild THEN Discriminate(a.records, batch.control) ELSE "NotShadowed"
           name == WalkNames[batch.name]
           last == batch.name = Len(WalkNames)
           r == [name |-> name,
                 outcome |-> resolutionFor(decideResolution(a), verdict),
                 addresses |-> IF verdict = "NotShadowed" THEN a.addrs ELSE {},
                 delegation |-> Delegation(statuses),
                 statuses |-> statuses,
                 verdict |-> verdict, silent |-> a.silent]
<1>1. /\ out' = Append(out, r) /\ acc' = NoAnswers
      /\ batch' = IF last THEN [batch EXCEPT !.phase = "written"]
                  ELSE [batch EXCEPT !.phase = "declared", !.name = @ + 1, !.qt = 1,
                                     !.q = FirstQuery(batch.name + 1),
                                     !.ask = {}, !.statuses = {}]
  BY DEF Emit
<1>2. /\ ZoneTyped /\ batch \in Position /\ out \in Seq(Result) /\ AsksInTurn /\ ControlHeard /\ OnePerName
      /\ \A i \in 1..Len(out) : ResultHonest(out[i])
  BY DEF WalkInv, WalkTyped
<1>3. name \in InScope /\ Truth = zone.of[name] /\ Truth \in Truths
  BY <1>2, NamesInScope DEF Position, Truth, ZoneTyped
<1>4. verdict \in {"NotShadowed", "Shadowed", "Gap"}
  BY DEF Discriminate
<1>5. /\ decideResolution(a) \in {"Resolved", "Gap", "NoData", "NameError"}
      /\ decideResolution(a) = "NameError" => Truth = "gone"
      /\ decideResolution(a) = "Resolved" => Truth \in {"here", "synth"} /\ a.addrs # {}
      /\ Delegation(statuses) \in {"none", "gap", "lame", "serves"}
      /\ Delegation(statuses) = "lame" => \E s \in statuses : s.reached
  BY ResolutionTrue
<1>6. wild /\ a.silent = {} /\ TCPAttempts > 0 =>
         /\ verdict = "Shadowed" => zone.wildcard # "none"
         /\ Truth = "synth" /\ zone.wildcard = "fixed" => verdict # "NotShadowed"
         /\ Truth = "here" /\ zone.wildcard = "fixed" => verdict # "Shadowed"
  BY <1>2, <1>3, VerdictTrue
<1>7. /\ r.name = name /\ r.silent = a.silent /\ r.verdict = verdict /\ r.statuses = statuses
      /\ r.delegation = Delegation(statuses)
      /\ r.outcome = resolutionFor(decideResolution(a), verdict)
      /\ verdict = "NotShadowed" => r.addresses = a.addrs
  OBVIOUS
<1>8. r \in Result
  <2>1. resolutionFor(decideResolution(a), verdict) \in {"Resolved", "Gap", "NoData", "NameError", "Shadowed"}
    BY <1>5 DEF resolutionFor
  <2>2. a.addrs \subseteq Datum /\ a.silent \subseteq Asked
    BY DEF Reading
  <2> HIDE DEF verdict, name
  <2> QED BY <1>3, <1>4, <1>5, <2>1, <2>2 DEF Result
<1>9. batch.kind = "resolution-walk" => verdict = "NotShadowed"
  OBVIOUS
<1> HIDE DEF r, verdict, name
<1>10. ResultHonest(r)
  <2>1. ASSUME batch.kind = "resolution-walk"
        PROVE  /\ r.outcome = "NameError" => zone.of[r.name] = "gone"
               /\ r.outcome = "Resolved" => zone.of[r.name] \in {"here", "synth"} /\ r.addresses # {}
               /\ r.delegation = "lame" => \E s \in r.statuses : s.reached
    <3>1. r.outcome = decideResolution(a) /\ r.addresses = a.addrs
      BY <1>7, <1>9, <2>1 DEF resolutionFor
    <3> QED BY <1>3, <1>5, <1>7, <3>1
  <2>2. ASSUME wild, r.silent = {}, TCPAttempts > 0
        PROVE  /\ r.verdict = "Shadowed" => zone.wildcard # "none"
               /\ zone.of[r.name] = "synth" /\ zone.wildcard = "fixed" => r.verdict # "NotShadowed"
               /\ zone.of[r.name] = "here" /\ zone.wildcard = "fixed" => r.verdict # "Shadowed"
    BY <1>3, <1>6, <1>7, <2>2
  <2> QED BY <2>1, <2>2 DEF ResultHonest
<1>11. /\ out' \in Seq(Result) /\ Len(out') = Len(out) + 1
       /\ \A i \in 1..Len(out) : out'[i] = out[i]
       /\ out'[Len(out) + 1] = r
  BY <1>1, <1>2, <1>8, AppendProperties
<1>12. batch.name \in 1..Len(WalkNames) /\ Len(out) = batch.name - 1 /\ Len(out) \in Nat
  BY <1>2, LenProperties DEF Position, OnePerName
<1>13. ~last => batch.name + 1 \in 1..Len(WalkNames)
  BY <1>12, NamesInScope
<1>14. /\ batch' \in Position /\ batch'.kind = batch.kind /\ batch'.control = batch.control
       /\ last => batch'.phase = "written"
       /\ ~last => /\ batch'.phase = "declared" /\ batch'.name = batch.name + 1 /\ batch'.qt = 1
                   /\ batch'.q = FirstQuery(batch.name + 1)
  <2>1. CASE last
    BY <1>1, <1>2, <2>1 DEF Position
  <2>2. CASE ~last
    <3>1. FirstQuery(batch.name + 1) \in Question
      BY <1>13, <2>2, FirstIs
    <3>2. 1 \in 1..Len(Qtypes)
      BY NamesInScope
    <3>3. batch' = [batch EXCEPT !.phase = "declared", !.name = batch.name + 1, !.qt = 1,
                                 !.q = FirstQuery(batch.name + 1), !.ask = {}, !.statuses = {}]
      BY <1>1, <2>2
    <3>4. batch' \in Position
      BY <1>2, <1>13, <2>2, <3>1, <3>2, <3>3 DEF Position
    <3> QED BY <1>2, <2>2, <3>3, <3>4 DEF Position
  <2> QED BY <2>1, <2>2
<1>15. /\ NoAnswers \in Reading /\ NoAnswers.anyReached = FALSE
       /\ NoAnswers.addrs = {} /\ NoAnswers.records = {}
  BY DEF NoAnswers, Reading
<1>16. WalkTyped'
  BY <1>1, <1>2, <1>11, <1>14, <1>15 DEF WalkTyped, ZoneTyped
<1>17. AsksInTurn'
  <2>1. CASE last
    BY <1>14, <2>1 DEF AsksInTurn
  <2>2. CASE ~last
    BY <1>13, <1>14, <2>2, FirstIs DEF AsksInTurn
  <2> QED BY <2>1, <2>2
<1>18. ControlHeard'
  BY <1>2, <1>14 DEF ControlHeard
<1>19. OnePerName'
  BY <1>11, <1>12, <1>14 DEF OnePerName
<1>20. NotMisheard(acc, Truth)'
  BY <1>1, <1>15 DEF NotMisheard
<1>21. ~AddressAsked'
  BY <1>14 DEF AddressAsked
<1>22. (\A i \in 1..Len(out) : ResultHonest(out[i]))'
  <2>1. ASSUME NEW x
        PROVE  ResultHonest(x) <=> ResultHonest(x)'
    BY <1>14 DEF ResultHonest
  <2>2. \A i \in 1..Len(out') : out'[i] = r \/ (i \in 1..Len(out) /\ out'[i] = out[i])
    BY <1>11, <1>12
  <2>3. \A i \in 1..Len(out') : ResultHonest(out'[i])
    BY <1>2, <1>10, <2>2
  <2> QED BY <2>1, <2>3
<1> QED BY <1>16, <1>17, <1>18, <1>19, <1>20, <1>21, <1>22 DEF WalkInv

-----------------------------------------------------------------------------
(* The steps.                                                               *)

\* A step that only asks again, or asks another server, changes no reading.
LEMMA AsksOn ==
    ASSUME WalkInv, zone' = zone, acc' = acc, out' = out, batch' \in Position,
           batch'.kind = batch.kind, batch'.control = batch.control,
           batch'.name = batch.name, batch'.qt = batch.qt,
           \/ batch'.phase = batch.phase /\ batch.phase \in {"declared", "authorities", "servers"}
           \/ batch'.phase = "servers" /\ batch.phase = "authorities",
           AsksInTurn'
    PROVE  WalkInv'
<1>1. WalkTyped' /\ ControlHeard'
  BY DEF WalkInv, WalkTyped, ZoneTyped, ControlHeard
<1>2. OnePerName'
  BY DEF WalkInv, OnePerName
<1>3. Truth' = Truth
  BY DEF Truth
<1>4. NotMisheard(acc, Truth)'
  BY <1>3 DEF WalkInv, NotMisheard
<1>5. (AddressAsked => HeardWhole(acc, Truth))'
  BY <1>3 DEF WalkInv, HeardWhole, AddressAsked
<1>6. (\A i \in 1..Len(out) : ResultHonest(out[i]))'
  BY DEF WalkInv, ResultHonest
<1> QED BY <1>1, <1>2, <1>4, <1>5, <1>6 DEF WalkInv

\* The control labels are probed before the candidates.
LEMMA ProbeStep == WalkInv /\ ProbeControl => WalkInv'
<1> SUFFICES ASSUME WalkInv, ProbeControl
             PROVE  WalkInv'
  OBVIOUS
<1>1. PICK c \in ControlAnswers : batch' = [batch EXCEPT !.phase = "declared", !.control = c]
  BY DEF ProbeControl
<1>2. batch.phase = "control" /\ zone' = zone /\ acc' = acc /\ out' = out
  BY DEF ProbeControl
<1>3. ZoneTyped /\ batch \in Position
  BY DEF WalkInv, WalkTyped
<1>4. PICK spoke \in SUBSET Labels, s \in [Labels -> Synthesised(zone.wildcard)] :
        c = [complete |-> spoke = Labels, sets |-> [l \in Labels |-> IF l \in spoke THEN s[l] ELSE {}]]
  BY DEF ControlAnswers
<1>5. \A a \in Synthesised(zone.wildcard) : a \subseteq Answer
  BY <1>3, AsMade DEF Synthesised, ZoneTyped, Wildcards
<1>6. /\ c.complete \in BOOLEAN /\ c.complete = (spoke = Labels)
      /\ c.sets = [l \in Labels |-> IF l \in spoke THEN s[l] ELSE {}]
  BY <1>4
<1>7. /\ c.sets \in [Labels -> SUBSET Answer]
      /\ \A l \in Labels : c.sets[l] = {} \/ c.sets[l] \in Synthesised(zone.wildcard)
      /\ c.complete => \A l \in Labels : c.sets[l] \in Synthesised(zone.wildcard)
  BY <1>5, <1>6
<1>8. c \in [complete : BOOLEAN, sets : [Labels -> SUBSET Answer]]
  BY <1>4, <1>6, <1>7
<1>9. /\ batch' \in Position /\ batch'.control = c /\ batch'.phase = "declared" /\ batch'.q = batch.q
      /\ batch'.kind = batch.kind /\ batch'.name = batch.name /\ batch'.qt = batch.qt
  BY <1>1, <1>3, <1>8 DEF Position
<1>10. WalkTyped'
  BY <1>2, <1>9 DEF WalkInv, WalkTyped, ZoneTyped
<1>11. ControlHeard'
  BY <1>2, <1>7, <1>9 DEF ControlHeard
<1>12. AsksInTurn'
  BY <1>2, <1>9 DEF WalkInv, AsksInTurn
<1>13. OnePerName'
  BY <1>2, <1>9 DEF WalkInv, OnePerName
<1>14. Truth' = Truth
  BY <1>2, <1>9 DEF Truth
<1>15. NotMisheard(acc, Truth)'
  BY <1>2, <1>14 DEF WalkInv, NotMisheard
<1>16. ~AddressAsked'
  <2>1. batch'.qt = 1 /\ batch'.phase = "declared"
    BY <1>2, <1>9 DEF WalkInv, AsksInTurn
  <2> QED BY <2>1 DEF AddressAsked
<1>17. (\A i \in 1..Len(out) : ResultHonest(out[i]))'
  BY <1>2, <1>9 DEF WalkInv, ResultHonest
<1> QED BY <1>10, <1>11, <1>12, <1>13, <1>15, <1>16, <1>17 DEF WalkInv

\* A qtype of a name is settled.
LEMMA SettledStep ==
    ASSUME WalkInv, batch.phase = "declared", NEW m \in NetPeerExchange(batch.q), ~m.unreachable,
           ~AsksOverTCP(batch.q, m), NextQtype(m), zone' = zone
    PROVE  WalkInv'
<1> DEFINE a == Absorb(acc, batch.q, m)
           name == WalkNames[batch.name]
<1>1. /\ ZoneTyped /\ batch \in Position /\ acc \in Reading
      /\ batch.q.server = "" /\ batch.q.name = name /\ batch.q.qtype = Qtypes[batch.qt]
  BY DEF WalkInv, WalkTyped, AsksInTurn
<1>2. batch.q \in Question /\ batch.qt \in 1..Len(Qtypes) /\ batch.name \in 1..Len(WalkNames)
  BY <1>1 DEF Position
<1>3. Truth = zone.of[batch.q.name] /\ name \in InScope
  BY <1>1, <1>2, NamesInScope DEF Truth
<1>4. HeardWhole(acc, Truth) \/ batch.q.qtype = "A"
  <2>1. CASE batch.qt = 1
    BY <1>1, <2>1, WalkAssumption
  <2>2. CASE batch.qt > 1
    BY <2>2 DEF WalkInv, AddressAsked
  <2> QED BY <1>2, <2>1, <2>2, NamesInScope
<1>5. a \in Reading /\ NotMisheard(a, Truth) /\ HeardWhole(a, Truth)
  BY <1>1, <1>2, <1>3, <1>4, AbsorbKeeps DEF WalkInv
<1>6. /\ acc' = a /\ out' = out
      /\ batch' = IF batch.qt < Len(Qtypes)
                  THEN [batch EXCEPT !.qt = @ + 1, !.q = Query("declared", "", name, Qtypes[batch.qt + 1])]
                  ELSE [batch EXCEPT !.phase = "authorities", !.q = Query("walk", "", name, "NS")]
  BY DEF NextQtype
<1> HIDE DEF a, name
<1>7. /\ batch' \in Position /\ batch'.kind = batch.kind /\ batch'.control = batch.control
      /\ batch'.name = batch.name /\ batch'.phase \in {"declared", "authorities"}
      /\ AsksInTurn'
  <2>1. CASE batch.qt < Len(Qtypes)
    <3> DEFINE q == Query("declared", "", name, Qtypes[batch.qt + 1])
    <3>1. batch.qt + 1 \in 1..Len(Qtypes) /\ Qtypes[batch.qt + 1] \in Asked
      BY <1>2, <2>1, NamesInScope
    <3>2. q \in Question
      BY <1>3, <3>1 DEF Query, Question
    <3>3. q.server = "" /\ q.name = name /\ q.qtype = Qtypes[batch.qt + 1]
      BY DEF Query
    <3> HIDE DEF q
    <3>4. batch' = [batch EXCEPT !.qt = batch.qt + 1, !.q = q]
      BY <1>6, <2>1 DEF q
    <3>5. batch' \in Position
      BY <1>1, <3>1, <3>2, <3>4 DEF Position
    <3>6. /\ batch'.kind = batch.kind /\ batch'.control = batch.control /\ batch'.name = batch.name
          /\ batch'.phase = "declared" /\ batch'.q = q /\ batch'.qt = batch.qt + 1
      BY <1>1, <3>4 DEF Position
    <3>7. AsksInTurn'
      BY <3>3, <3>6 DEF AsksInTurn, name
    <3> QED BY <3>5, <3>6, <3>7
  <2>2. CASE ~(batch.qt < Len(Qtypes))
    <3> DEFINE q == Query("walk", "", name, "NS")
    <3>1. q \in Question
      BY <1>3 DEF Query, Question, Asked
    <3> HIDE DEF q
    <3>2. batch' = [batch EXCEPT !.phase = "authorities", !.q = q]
      BY <1>6, <2>2 DEF q
    <3>3. batch' \in Position
      BY <1>1, <3>1, <3>2 DEF Position
    <3>4. /\ batch'.kind = batch.kind /\ batch'.control = batch.control /\ batch'.name = batch.name
          /\ batch'.phase = "authorities"
      BY <1>1, <3>2 DEF Position
    <3> QED BY <3>3, <3>4 DEF AsksInTurn
  <2> QED BY <2>1, <2>2
<1>8. WalkTyped' /\ ControlHeard'
  BY <1>5, <1>6, <1>7 DEF WalkInv, WalkTyped, ZoneTyped, ControlHeard
<1>9. OnePerName'
  BY <1>6, <1>7 DEF WalkInv, OnePerName
<1>10. Truth' = Truth
  BY <1>7 DEF Truth
<1>11. NotMisheard(acc, Truth)' /\ HeardWhole(acc, Truth)'
  BY <1>5, <1>6, <1>10 DEF NotMisheard, HeardWhole
<1>12. (\A i \in 1..Len(out) : ResultHonest(out[i]))'
  BY <1>6, <1>7 DEF WalkInv, ResultHonest
<1> QED BY <1>7, <1>8, <1>9, <1>11, <1>12 DEF WalkInv

\* The resolver is out of reach: a walk writes nothing, a wildcard batch emits
\* what it heard, the silence on record.
LEMMA UnreachableStep ==
    ASSUME WalkInv, batch.phase = "declared", ResolverUnreachable, zone' = zone
    PROVE  WalkInv'
<1>1. ZoneTyped /\ batch \in Position /\ acc \in Reading /\ out \in Seq(Result)
  BY DEF WalkInv, WalkTyped
<1>2. CASE batch.kind = "wildcard-discrimination"
  <2> DEFINE quiet == {Qtypes[i] : i \in batch.qt..Len(Qtypes)}
             a == [acc EXCEPT !.silent = quiet]
  <2>1. batch.qt \in 1..Len(Qtypes) /\ Len(Qtypes) \in Nat
    BY <1>1, NamesInScope DEF Position
  <2>2. quiet # {} /\ quiet \subseteq Asked
    BY <2>1, NamesInScope
  <2>3. Emit(a, {})
    BY <1>2 DEF ResolverUnreachable
  <2> HIDE DEF quiet
  <2>4. a \in Reading
    BY <1>1, <2>2 DEF Reading
  <2>5. /\ a.silent = quiet /\ a.nxAll = acc.nxAll /\ a.anyReached = acc.anyReached
        /\ a.addrs = acc.addrs /\ a.sawCNAME = acc.sawCNAME /\ a.records = acc.records
    BY <1>1 DEF Reading
  <2> HIDE DEF a
  <2>6. NotMisheard(a, Truth) /\ HeardWhole(a, Truth)
    BY <2>2, <2>5 DEF WalkInv, NotMisheard, HeardWhole
  <2> QED BY <2>3, <2>4, <2>6, EmitKeeps
<1>3. CASE batch.kind # "wildcard-discrimination"
  <2>1. batch' = [batch EXCEPT !.phase = "failed"] /\ out' = <<>> /\ acc' = acc
    BY <1>3 DEF ResolverUnreachable
  <2>2. /\ batch' \in Position /\ batch'.phase = "failed" /\ batch'.control = batch.control
        /\ batch'.name = batch.name
    BY <1>1, <2>1 DEF Position
  <2>3. WalkTyped' /\ ControlHeard'
    BY <2>1, <2>2, EmptySeq DEF WalkInv, WalkTyped, ZoneTyped, ControlHeard
  <2>4. AsksInTurn' /\ OnePerName' /\ ~AddressAsked'
    BY <2>1, <2>2 DEF AsksInTurn, OnePerName, AddressAsked
  <2>5. NotMisheard(acc, Truth)'
    BY <2>1, <2>2 DEF WalkInv, NotMisheard, Truth
  <2>6. (\A i \in 1..Len(out) : ResultHonest(out[i]))'
    BY <2>1
  <2> QED BY <2>3, <2>4, <2>5, <2>6 DEF WalkInv
<1> QED BY <1>2, <1>3

\* One attempt of a declared query.
LEMMA AskDeclaredStep == WalkInv /\ AskDeclared => WalkInv'
<1> SUFFICES ASSUME WalkInv, AskDeclared
             PROVE  WalkInv'
  OBVIOUS
<1>1. batch.phase = "declared" /\ zone' = zone
  BY DEF AskDeclared
<1>2. /\ batch \in Position /\ batch.q \in Question
      /\ batch.q.server = "" /\ batch.q.name = WalkNames[batch.name] /\ batch.q.qtype = Qtypes[batch.qt]
  BY <1>1 DEF WalkInv, WalkTyped, AsksInTurn, Position
<1>3. ASSUME NEW q \in Question, q.server = batch.q.server, q.name = batch.q.name, q.qtype = batch.q.qtype,
             batch' = [batch EXCEPT !.q = q], acc' = acc, out' = out
      PROVE  WalkInv'
  <2>1. /\ batch' \in Position /\ batch'.kind = batch.kind /\ batch'.control = batch.control
        /\ batch'.name = batch.name /\ batch'.qt = batch.qt /\ batch'.phase = batch.phase /\ batch'.q = q
    BY <1>2, <1>3 DEF Position
  <2>2. AsksInTurn'
    BY <1>1, <1>2, <1>3, <2>1 DEF AsksInTurn
  <2> QED BY <1>1, <1>3, <2>1, <2>2, AsksOn
<1>4. PICK m \in NetPeerExchange(batch.q) :
        \/ /\ m.unreachable /\ ~Spent(batch.q)
           /\ batch' = [batch EXCEPT !.q = NextAttempt(@)]
           /\ UNCHANGED <<acc, out>>
        \/ /\ m.unreachable /\ Spent(batch.q)
           /\ ResolverUnreachable
        \/ /\ ~m.unreachable /\ AsksPlain(batch.q, m)
           /\ batch' = [batch EXCEPT !.q = [Query("declared", "", @.name, @.qtype)
                                             EXCEPT !.edns = FALSE, !.leg = "plain"]]
           /\ UNCHANGED <<acc, out>>
        \/ /\ ~m.unreachable /\ ~AsksPlain(batch.q, m) /\ AsksOverTCP(batch.q, m)
           /\ batch' = [batch EXCEPT !.q.transport = "TCP", !.q.tries = 0, !.q.leg = "tcp"]
           /\ UNCHANGED <<acc, out>>
        \/ /\ ~m.unreachable /\ ~AsksPlain(batch.q, m) /\ ~AsksOverTCP(batch.q, m)
           /\ NextQtype(m)
  BY DEF AskDeclared
<1>5. CASE m.unreachable /\ ~Spent(batch.q) /\ batch' = [batch EXCEPT !.q = NextAttempt(@)]
           /\ UNCHANGED <<acc, out>>
  BY <1>2, <1>3, <1>5, AsksAgain
<1>6. CASE m.unreachable /\ Spent(batch.q) /\ ResolverUnreachable
  BY <1>1, <1>6, UnreachableStep
<1>7. CASE /\ batch' = [batch EXCEPT !.q = [Query("declared", "", @.name, @.qtype)
                                             EXCEPT !.edns = FALSE, !.leg = "plain"]]
           /\ UNCHANGED <<acc, out>>
  <2> DEFINE p == Query("declared", "", batch.q.name, batch.q.qtype)
             q == [p EXCEPT !.edns = FALSE, !.leg = "plain"]
  <2>1. p \in Question /\ p.server = "" /\ p.name = batch.q.name /\ p.qtype = batch.q.qtype
    BY <1>2 DEF Query, Question
  <2>2. batch' = [batch EXCEPT !.q = q]
    BY <1>7
  <2> HIDE DEF p
  <2>3. q \in Question
    BY <2>1 DEF Question
  <2>4. q.server = p.server /\ q.name = p.name /\ q.qtype = p.qtype
    BY <2>1 DEF Question
  <2> HIDE DEF q
  <2> QED BY <1>2, <1>3, <1>7, <2>1, <2>2, <2>3, <2>4
<1>8. CASE /\ batch' = [batch EXCEPT !.q.transport = "TCP", !.q.tries = 0, !.q.leg = "tcp"]
           /\ UNCHANGED <<acc, out>>
  <2> DEFINE q == [batch.q EXCEPT !.transport = "TCP", !.tries = 0, !.leg = "tcp"]
  <2>1. batch' = [batch EXCEPT !.q = q]
    BY <1>2, <1>8 DEF Position
  <2>2. q \in Question
    BY <1>2 DEF Question
  <2>3. q.server = batch.q.server /\ q.name = batch.q.name /\ q.qtype = batch.q.qtype
    BY <1>2 DEF Question
  <2> HIDE DEF q
  <2> QED BY <1>3, <1>8, <2>1, <2>2, <2>3
<1>9. CASE ~m.unreachable /\ ~AsksOverTCP(batch.q, m) /\ NextQtype(m)
  BY <1>1, <1>9, SettledStep
<1> QED BY <1>4, <1>5, <1>6, <1>7, <1>8, <1>9

\* A query to the name's authorities, or for them, leaves the walk in scope.
LEMMA WalkAsks ==
    ASSUME WalkInv, batch.phase \in {"authorities", "servers"}, NEW q \in Question, NEW ask \in SUBSET Servers,
           NEW statuses \in SUBSET Spoken,
           batch' = [batch EXCEPT !.phase = "servers", !.ask = ask, !.statuses = statuses, !.q = q],
           zone' = zone, acc' = acc, out' = out
    PROVE  WalkInv'
<1>1. batch \in Position
  BY DEF WalkInv, WalkTyped
<1>2. /\ batch' \in Position /\ batch'.kind = batch.kind /\ batch'.control = batch.control
      /\ batch'.name = batch.name /\ batch'.qt = batch.qt /\ batch'.phase = "servers"
  BY <1>1 DEF Position
<1>3. AsksInTurn'
  BY <1>2 DEF AsksInTurn
<1> QED BY <1>2, <1>3, AsksOn

\* An attempt lost and made again.
LEMMA RetryStep ==
    ASSUME WalkInv, batch.phase \in {"authorities", "servers"},
           batch' = [batch EXCEPT !.q = NextAttempt(@)], zone' = zone, acc' = acc, out' = out
    PROVE  WalkInv'
<1>1. batch \in Position /\ batch.q \in Question
  BY DEF WalkInv, WalkTyped, Position
<1>2. NextAttempt(batch.q) \in Question
  BY <1>1, AsksAgain
<1>3. /\ batch' \in Position /\ batch'.kind = batch.kind /\ batch'.control = batch.control
      /\ batch'.name = batch.name /\ batch'.qt = batch.qt /\ batch'.phase = batch.phase
  BY <1>1, <1>2 DEF Position
<1>4. AsksInTurn'
  BY <1>3 DEF AsksInTurn
<1> QED BY <1>3, <1>4, AsksOn

\* The resolver names the authorities, or none.
LEMMA AuthoritiesStep == WalkInv /\ AskAuthorities => WalkInv'
<1> SUFFICES ASSUME WalkInv, AskAuthorities
             PROVE  WalkInv'
  OBVIOUS
<1>1. batch.phase = "authorities" /\ zone' = zone
  BY DEF AskAuthorities
<1>2. /\ ZoneTyped /\ batch \in Position /\ batch.q \in Question /\ acc \in Reading
      /\ batch.name \in 1..Len(WalkNames) /\ batch.statuses \in SUBSET Spoken
  BY DEF WalkInv, WalkTyped, Position
<1>3. PICK m \in NetPeerExchange(batch.q) :
        \/ /\ m.unreachable /\ ~Spent(batch.q)
           /\ batch' = [batch EXCEPT !.q = NextAttempt(@)]
           /\ UNCHANGED <<acc, out>>
        \/ Emit(acc, {})
        \/ /\ \E s \in {r.data : r \in {x \in m.answer : x.type = "NS"}} :
                 batch' = [batch EXCEPT !.phase = "servers",
                             !.ask = {r.data : r \in {x \in m.answer : x.type = "NS"}} \ {s},
                             !.q = Query("walk", s, WalkNames[batch.name], "SOA")]
           /\ UNCHANGED <<acc, out>>
  BY DEF AskAuthorities
<1>4. CASE batch' = [batch EXCEPT !.q = NextAttempt(@)] /\ UNCHANGED <<acc, out>>
  BY <1>1, <1>4, RetryStep
<1>5. CASE Emit(acc, {})
  <2>1. NotMisheard(acc, Truth) /\ HeardWhole(acc, Truth)
    BY <1>1 DEF WalkInv, AddressAsked
  <2> QED BY <1>1, <1>2, <1>5, <2>1, EmitKeeps
<1>6. CASE /\ \E s \in {r.data : r \in {x \in m.answer : x.type = "NS"}} :
                 batch' = [batch EXCEPT !.phase = "servers",
                             !.ask = {r.data : r \in {x \in m.answer : x.type = "NS"}} \ {s},
                             !.q = Query("walk", s, WalkNames[batch.name], "SOA")]
           /\ UNCHANGED <<acc, out>>
  <2> DEFINE named == {r.data : r \in {x \in m.answer : x.type = "NS"}}
  <2>1. named \subseteq Servers
    <3>1. m.answer \subseteq Answer
      BY <1>2, WhatIsHeard DEF Heard
    <3>2. \A r \in Answer : r.type = "NS" => r.data \in Servers
      <4>1. \A d \in {"a1", "w1", "w2"} : RR("A", d).type = "A"
        BY AsMade
      <4>2. \A s \in Servers : RR("NS", s).data = s
        BY AsMade
      <4>3. RR("CNAME", "elsewhere").type = "CNAME"
        BY AsMade
      <4> QED BY <4>1, <4>2, <4>3 DEF Answer
    <3> QED BY <3>1, <3>2
  <2> HIDE DEF named
  <2>2. PICK s \in named : batch' = [batch EXCEPT !.phase = "servers", !.ask = named \ {s},
                                       !.q = Query("walk", s, WalkNames[batch.name], "SOA")]
    BY <1>6 DEF named
  <2>3. Query("walk", s, WalkNames[batch.name], "SOA") \in Question
    BY <1>2, <2>1, NamesInScope DEF Query, Question, Asked
  <2>4. batch' = [batch EXCEPT !.phase = "servers", !.ask = named \ {s}, !.statuses = batch.statuses,
                                !.q = Query("walk", s, WalkNames[batch.name], "SOA")]
    BY <1>2, <2>2 DEF Position
  <2> QED BY <1>1, <1>2, <1>6, <2>1, <2>3, <2>4, WalkAsks
<1> QED BY <1>3, <1>4, <1>5, <1>6

\* An authority answers, refuses, or is not heard.
LEMMA ServerStep == WalkInv /\ AskServer => WalkInv'
<1> SUFFICES ASSUME WalkInv, AskServer
             PROVE  WalkInv'
  OBVIOUS
<1>1. batch.phase = "servers" /\ zone' = zone
  BY DEF AskServer
<1>2. /\ ZoneTyped /\ batch \in Position /\ batch.q \in Question /\ acc \in Reading
      /\ batch.name \in 1..Len(WalkNames) /\ batch.statuses \in SUBSET Spoken /\ batch.ask \in SUBSET Servers
  BY DEF WalkInv, WalkTyped, Position
<1>3. PICK m \in NetPeerExchange(batch.q) :
        \/ /\ m.unreachable /\ ~Spent(batch.q)
           /\ batch' = [batch EXCEPT !.q = NextAttempt(@)]
           /\ UNCHANGED <<acc, out>>
        \/ Emit(acc, batch.statuses \cup {Status(batch.q, m)})
        \/ /\ \E s \in batch.ask :
                 batch' = [batch EXCEPT !.ask = @ \ {s}, !.statuses = batch.statuses \cup {Status(batch.q, m)},
                             !.q = Query("walk", s, WalkNames[batch.name], "SOA")]
           /\ UNCHANGED <<acc, out>>
  BY DEF AskServer
<1> DEFINE statuses == batch.statuses \cup {Status(batch.q, m)}
<1>4. statuses \in SUBSET Spoken
  <2>1. m \in Heard
    BY <1>2, WhatIsHeard
  <2>2. batch.q.server \in Servers \cup {""} /\ m.reached \in BOOLEAN
    BY <1>2, <2>1 DEF Question, Heard
  <2>3. (m.reached /\ m.rcode \notin {"REFUSED", "SERVFAIL"}) \in BOOLEAN
    OBVIOUS
  <2>4. Status(batch.q, m) \in Spoken
    BY <2>2, <2>3 DEF Status, Spoken
  <2> QED BY <1>2, <2>4
<1>5. CASE batch' = [batch EXCEPT !.q = NextAttempt(@)] /\ UNCHANGED <<acc, out>>
  BY <1>1, <1>5, RetryStep
<1>6. CASE Emit(acc, statuses)
  <2>1. NotMisheard(acc, Truth) /\ HeardWhole(acc, Truth)
    BY <1>1 DEF WalkInv, AddressAsked
  <2> HIDE DEF statuses
  <2> QED BY <1>1, <1>2, <1>4, <1>6, <2>1, EmitKeeps
<1>7. CASE /\ \E s \in batch.ask :
                 batch' = [batch EXCEPT !.ask = @ \ {s}, !.statuses = statuses,
                             !.q = Query("walk", s, WalkNames[batch.name], "SOA")]
           /\ UNCHANGED <<acc, out>>
  <2> HIDE DEF statuses
  <2>1. PICK s \in batch.ask : batch' = [batch EXCEPT !.ask = @ \ {s}, !.statuses = statuses,
                                           !.q = Query("walk", s, WalkNames[batch.name], "SOA")]
    BY <1>7
  <2>2. Query("walk", s, WalkNames[batch.name], "SOA") \in Question
    BY <1>2, NamesInScope DEF Query, Question, Asked
  <2>3. batch' = [batch EXCEPT !.phase = "servers", !.ask = batch.ask \ {s}, !.statuses = statuses,
                                !.q = Query("walk", s, WalkNames[batch.name], "SOA")]
    BY <1>1, <1>2, <2>1 DEF Position
  <2> QED BY <1>1, <1>2, <1>4, <1>7, <2>2, <2>3, WalkAsks
<1> QED BY <1>3, <1>5, <1>6, <1>7

\* A batch begins at its first name, with nothing heard.
LEMMA WalkStarts == WalkInit => WalkInv
<1> SUFFICES ASSUME WalkInit
             PROVE  WalkInv
  OBVIOUS
<1>1. acc = NoAnswers /\ out = <<>>
  BY DEF WalkInit
<1>2. ZoneTyped
  BY NamesInScope DEF WalkInit, ZoneTyped, InScope
<1>3. PICK k \in Kinds :
        batch = [kind |-> k, phase |-> IF k = "wildcard-discrimination" THEN "control" ELSE "declared",
                 name |-> 1, qt |-> 1, q |-> FirstQuery(1),
                 ask |-> {}, statuses |-> {}, control |-> NoControl]
  BY DEF WalkInit
<1>4. /\ FirstQuery(1) \in Question /\ FirstQuery(1).server = ""
      /\ FirstQuery(1).name = WalkNames[1] /\ FirstQuery(1).qtype = Qtypes[1]
      /\ 1 \in 1..Len(WalkNames) /\ 1 \in 1..Len(Qtypes)
  <2>1. 1 \in 1..Len(WalkNames) /\ 1 \in 1..Len(Qtypes)
    BY NamesInScope
  <2> QED BY <2>1, FirstIs
<1>5. NoControl = [complete |-> FALSE, sets |-> [l \in Labels |-> {}]]
  BY DEF NoControl
<1>6. NoControl \in [complete : BOOLEAN, sets : [Labels -> SUBSET Answer]]
  BY <1>5
<1>7. batch \in Position
  BY <1>3, <1>4, <1>6 DEF Position
<1>8. /\ batch.phase \in {"control", "declared"} /\ batch.name = 1 /\ batch.qt = 1 /\ batch.q = FirstQuery(1)
      /\ batch.control = NoControl
  BY <1>3
<1>9. /\ NoAnswers \in Reading /\ NoAnswers.anyReached = FALSE
      /\ NoAnswers.addrs = {} /\ NoAnswers.records = {}
  BY DEF NoAnswers, Reading
<1>10. WalkTyped
  BY <1>1, <1>2, <1>7, <1>9, EmptySeq DEF WalkTyped
<1>11. AsksInTurn /\ OnePerName /\ ~AddressAsked
  <2>1. AsksInTurn
    BY <1>4, <1>8 DEF AsksInTurn
  <2>2. Len(out) = 0 /\ batch.name - 1 = 0
    BY <1>1, <1>8
  <2>3. OnePerName
    BY <1>8, <2>2 DEF OnePerName
  <2>4. ~AddressAsked
    BY <1>8 DEF AddressAsked
  <2> QED BY <2>1, <2>3, <2>4
<1>12. ControlHeard
  BY <1>5, <1>8 DEF ControlHeard
<1>13. NotMisheard(acc, Truth)
  BY <1>1, <1>9 DEF NotMisheard
<1> QED BY <1>1, <1>10, <1>11, <1>12, <1>13 DEF WalkInv

\* Every step of a batch keeps the invariant.
LEMMA WalkStep == WalkInv /\ [WalkNext]_walkVars => WalkInv'
<1>1. ASSUME WalkInv, UNCHANGED walkVars
      PROVE  WalkInv'
  BY <1>1 DEF WalkInv, walkVars, WalkTyped, ZoneTyped, AsksInTurn, ControlHeard, OnePerName, NotMisheard,
              HeardWhole, AddressAsked, ResultHonest, Truth
<1> QED BY <1>1, ProbeStep, AskDeclaredStep, AuthoritiesStep, ServerStep DEF WalkNext

\* With an attempt over TCP in the budget, as the code has it, neither kind of
\* batch states what the zone denies, whatever the network lost, truncated,
\* refused or garbled (leaf.go Resolve, wildcarddiscrim Discriminate).
THEOREM ReadingsAreHonest == TCPAttempts > 0 => (WalkSpec => []ReadingsHonest)
<1> SUFFICES ASSUME TCPAttempts > 0
             PROVE  WalkSpec => []ReadingsHonest
  OBVIOUS
<1>1. WalkInv => ReadingsHonest
  <2> SUFFICES ASSUME WalkInv
               PROVE  ReadingsHonest
    OBVIOUS
  <2>1. \A r \in Written : ResultHonest(r)
    BY DEF WalkInv, Written
  <2>2. batch.phase = "written" => Len(out) = Len(WalkNames)
    BY DEF WalkInv, OnePerName
  <2>3. WalkHonest
    BY <2>1, <2>2 DEF WalkHonest, Walked, ResultHonest
  <2>4. DiscriminationHonest
    BY <2>1 DEF DiscriminationHonest, ResultHonest
  <2> QED BY <2>3, <2>4 DEF ReadingsHonest
<1> QED BY <1>1, WalkStarts, WalkStep, PTL DEF WalkSpec

-----------------------------------------------------------------------------
(* Prober: the lists a job walks.                                           *)

\* A strict order of the elements of S, all of them comparable.
Orders(o, S) ==
    /\ \A x \in S : <<x, x>> \notin o
    /\ \A x, y \in S : x = y \/ <<x, y>> \in o \/ <<y, x>> \in o
    /\ \A x, y, z \in S : <<x, y>> \in o /\ <<y, z>> \in o => <<x, z>> \in o

\* A list of the n elements of S.
Lists(s, S, n) ==
    /\ n \in Nat /\ s \in [1..n -> S] /\ s \in Seq(S) /\ Len(s) = n
    /\ \A x \in S : \E i \in 1..n : s[i] = x

\* Sorting leaves out nothing.
LEMMA SortedWhole ==
    ASSUME NEW S, IsFiniteSet(S), NEW o, Orders(o, S)
    PROVE  Lists(Sorted(S, o), S, Cardinality(S))
<1> DEFINE n == Cardinality(S)
           below(t) == {u \in S : <<u, t>> \in o}
           f == [t \in S |-> Cardinality(below(t)) + 1]
           s == [m \in 1..n |-> CHOOSE t \in S : Cardinality(below(t)) = m - 1]
<1>1. n \in Nat /\ IsFiniteSet(1..n) /\ Cardinality(1..n) = n
  BY FS_CardinalityType, FS_Interval
<1>2. \A t \in S : below(t) \subseteq S /\ t \notin below(t)
  BY DEF Orders
<1>3. ASSUME NEW t \in S PROVE IsFiniteSet(below(t)) /\ Cardinality(below(t)) \in 0..(n - 1)
  <2>1. /\ IsFiniteSet(below(t)) /\ Cardinality(below(t)) <= n
        /\ n = Cardinality(below(t)) => S = below(t)
    <3> HIDE DEF below
    <3> QED BY <1>2, FS_Subset
  <2>2. Cardinality(below(t)) \in Nat
    BY <2>1, FS_CardinalityType
  <2> HIDE DEF below, n
  <2> QED BY <1>1, <1>2, <2>1, <2>2
<1>4. ASSUME NEW t \in S, NEW u \in S, <<t, u>> \in o
      PROVE  Cardinality(below(t)) # Cardinality(below(u))
  <2>1. below(t) \subseteq below(u) /\ t \in below(u) /\ t \notin below(t)
    BY <1>4 DEF Orders
  <2> HIDE DEF below
  <2> QED BY <1>3, <2>1, FS_Subset
<1>5. \A t, u \in S : Cardinality(below(t)) = Cardinality(below(u)) => t = u
  <2>1. \A t, u \in S : t = u \/ <<t, u>> \in o \/ <<u, t>> \in o
    BY DEF Orders
  <2> HIDE DEF below
  <2> QED BY <1>4, <2>1
<1> HIDE DEF below
<1>6. f \in Injection(S, 1..n)
  <2>1. f \in [S -> 1..n]
    <3> HIDE DEF n
    <3> QED BY <1>1, <1>3
  <2>2. \A t, u \in S : f[t] = f[u] => t = u
    BY <1>3, <1>5
  <2> QED BY <2>1, <2>2 DEF Injection, IsInjective
<1>7. f \in Surjection(S, 1..n)
  BY <1>1, <1>6, FS_Injection
<1>8. \A m \in 1..n : \E t \in S : Cardinality(below(t)) = m - 1
  <2> SUFFICES ASSUME NEW m \in 1..n PROVE \E t \in S : Cardinality(below(t)) = m - 1
    OBVIOUS
  <2>1. PICK t \in S : f[t] = m
    BY <1>7 DEF Surjection
  <2>2. Cardinality(below(t)) + 1 = m
    BY <2>1
  <2> HIDE DEF n, f
  <2>3. Cardinality(below(t)) \in Nat
    BY <1>1, <1>3
  <2> QED BY <1>1, <2>2, <2>3
<1>9. \A m \in 1..n : s[m] \in S /\ Cardinality(below(s[m])) = m - 1
  BY <1>8
<1>10. s \in [1..n -> S]
  BY <1>9
<1>11. \A x \in S : \E i \in 1..n : s[i] = x
  <2> SUFFICES ASSUME NEW x \in S PROVE \E i \in 1..n : s[i] = x
    OBVIOUS
  <2> DEFINE i == Cardinality(below(x)) + 1
  <2>1. i \in 1..n /\ Cardinality(below(x)) = i - 1
    <3> HIDE DEF n
    <3> QED BY <1>1, <1>3
  <2> HIDE DEF i, s
  <2>2. s[i] \in S /\ Cardinality(below(s[i])) = i - 1
    BY <1>9, <2>1
  <2> QED BY <1>5, <2>1, <2>2
<1>12. s \in Seq(S) /\ Len(s) = n
  <2> HIDE DEF s, n
  <2> QED BY <1>1, <1>10, SeqDef, LenProperties
<1>13. Sorted(S, o) = s
  BY DEF Sorted, below
<1> HIDE DEF s, n
<1> QED BY <1>1, <1>10, <1>11, <1>12, <1>13 DEF Lists, n

\* The control ports are tried on every host of the job.
LEMMA ControlsListed ==
    ASSUME NEW j, j.hosts \subseteq Hosts
    PROVE  Lists(ControlTargets(j), j.hosts \X ControlPorts, Cardinality(j.hosts \X ControlPorts))
<1> DEFINE S == j.hosts \X ControlPorts
<1>0. IsFiniteSet(Hosts) /\ IsFiniteSet(ControlPorts) /\ Hosts \subseteq Nat /\ ControlPorts \subseteq Nat
  BY ProberAssumption
<1>1. IsFiniteSet(S) /\ \A x \in S : x = <<x[1], x[2]>> /\ x[1] \in Nat /\ x[2] \in Nat
  <2>1. IsFiniteSet(j.hosts)
    BY <1>0, FS_Subset
  <2>2. IsFiniteSet(S)
    BY <1>0, <2>1, FS_Product
  <2>3. \A x \in S : x = <<x[1], x[2]>> /\ x[1] \in Hosts /\ x[2] \in ControlPorts
    OBVIOUS
  <2> HIDE DEF S
  <2> QED BY <1>0, <2>2, <2>3
<1>2. Orders(ByHost(S), S)
  <2> HIDE DEF S
  <2>1. \A x, y \in S : <<x, y>> \in ByHost(S) <=> x[1] < y[1] \/ (x[1] = y[1] /\ x[2] < y[2])
    BY DEF ByHost
  <2>2. \A x, y \in S : x[1] = y[1] /\ x[2] = y[2] => x = y
    BY <1>1
  <2> QED BY <1>1, <2>1, <2>2 DEF Orders
<1> HIDE DEF S
<1> QED BY <1>1, <1>2, SortedWhole DEF ControlTargets, S

\* The walk of a job's targets meets each of them.
LEMMA TargetsListed ==
    ASSUME NEW T, IsFiniteSet(T), \A x \in T : x = <<x[1], x[2]>> /\ x[1] \in Nat /\ x[2] \in Nat
    PROVE  Lists(RoundRobin(T), T, Cardinality(T))
<1> DEFINE before(x) == {u \in T : u[1] = x[1] /\ u[2] < x[2]}
<1>1. ASSUME NEW x \in T
      PROVE  IsFiniteSet(before(x)) /\ Round(x, T) = Cardinality(before(x)) /\ Round(x, T) \in Nat
  BY FS_Subset, FS_CardinalityType DEF Round
<1>2. ASSUME NEW x \in T, NEW y \in T, x[1] = y[1], x[2] < y[2]
      PROVE  Round(x, T) # Round(y, T)
  <2>1. before(x) \subseteq before(y) /\ x \in before(y) /\ x \notin before(x)
    BY <1>2
  <2> HIDE DEF before
  <2> QED BY <1>1, <2>1, FS_Subset
<1>3. \A x, y \in T : <<x, y>> \in ByRound(T)
                         <=> Round(x, T) < Round(y, T) \/ (Round(x, T) = Round(y, T) /\ x[1] < y[1])
  BY DEF ByRound
<1>4. \A x, y \in T : x = y \/ <<x, y>> \in ByRound(T) \/ <<y, x>> \in ByRound(T)
  <2>1. \A x, y \in T : Round(x, T) = Round(y, T) /\ x[1] = y[1] => x = y
    BY <1>2
  <2> HIDE DEF before
  <2> SUFFICES ASSUME NEW x \in T, NEW y \in T, x # y
               PROVE  <<x, y>> \in ByRound(T) \/ <<y, x>> \in ByRound(T)
    OBVIOUS
  <2>2. Round(x, T) \in Nat /\ Round(y, T) \in Nat
    BY <1>1
  <2>3. x[1] \in Nat /\ y[1] \in Nat /\ ~(Round(x, T) = Round(y, T) /\ x[1] = y[1])
    BY <2>1
  <2>4. \/ Round(x, T) < Round(y, T) \/ (Round(x, T) = Round(y, T) /\ x[1] < y[1])
        \/ Round(y, T) < Round(x, T) \/ (Round(y, T) = Round(x, T) /\ y[1] < x[1])
    BY <2>2, <2>3
  <2> QED BY <1>3, <2>4
<1>5. Orders(ByRound(T), T)
  <2> HIDE DEF before
  <2> QED BY <1>1, <1>3, <1>4 DEF Orders
<1> QED BY <1>5, SortedWhole DEF RoundRobin

-----------------------------------------------------------------------------
(* Prober: the pace of a connect job.                                       *)

\* A second is a whole number of intervals, as it is at 50 and 200 a second.
WholeIntervals == Second % PerHost = 0 /\ Second % PerVantage = 0

PacerTyped ==
    /\ pacer \in [lastAggregate : Nat, lastHost : [Hosts -> Nat], rate : [Hosts -> 1..PerHost]]
    /\ clock \in Nat \ {0}
    /\ dues \in Seq([host : Hosts, at : Nat \ {0}])

\* Starts are an interval apart, and on one host by the host's.
DuesApart ==
    \A i, j \in 1..Len(dues) : i < j =>
        /\ dues[j].at >= dues[i].at + Second \div PerVantage
        /\ dues[i].host = dues[j].host => dues[j].at >= dues[i].at + Second \div PerHost

\* The pacer remembers the last start in all and on each host.
DuesPast ==
    \A i \in 1..Len(dues) :
        dues[i].at <= pacer.lastAggregate /\ dues[i].at <= pacer.lastHost[dues[i].host]

PaceInv == PacerTyped /\ DuesApart /\ DuesPast

\* A lower rate is a longer interval.
LEMMA SlowerIsLonger ==
    \A r \in 1..PerHost : Interval(r) \in Nat /\ Second \div PerHost <= Interval(r)
<1>1. \A s, p, r \in Nat : r # 0 /\ p # 0 /\ r <= p => s \div r \in Nat /\ s \div p <= s \div r
  OBVIOUS
<1>2. Second \in Nat /\ PerHost \in Nat /\ PerHost # 0
  BY ProberAssumption
<1>3. \A r \in 1..PerHost : r \in Nat /\ r # 0 /\ r <= PerHost
  BY <1>2
<1>4. \A r \in 1..PerHost : Second \div r \in Nat /\ Second \div PerHost <= Second \div r
  BY <1>1, <1>2, <1>3, Zenon
<1> QED BY <1>4 DEF Interval

\* What the pacer grants is not before now, nor within an interval of a start.
LEMMA Granted ==
    ASSUME PaceInv, NEW h \in Hosts
    PROVE  LET g == Next(pacer, h, clock) IN
           /\ g.due \in Nat \ {0} /\ g.due >= clock
           /\ g.pacer = [pacer EXCEPT !.lastAggregate = g.due, !.lastHost[h] = g.due]
           /\ \A i \in 1..Len(dues) :
                 /\ g.due >= dues[i].at + Second \div PerVantage
                 /\ dues[i].host = h => g.due >= dues[i].at + Second \div PerHost
<1> DEFINE A == Second \div PerVantage
           I == Interval(pacer.rate[h])
           agg == IF pacer.lastAggregate = 0 THEN clock ELSE Max2(clock, pacer.lastAggregate + A)
           due == IF pacer.lastHost[h] = 0 THEN agg ELSE Max2(agg, pacer.lastHost[h] + I)
           g == Next(pacer, h, clock)
<1>1. /\ pacer.lastAggregate \in Nat /\ pacer.lastHost[h] \in Nat /\ pacer.rate[h] \in 1..PerHost
      /\ clock \in Nat /\ clock # 0
      /\ \A i \in 1..Len(dues) : dues[i].at \in Nat /\ dues[i].at # 0
  <2>1. \A i \in 1..Len(dues) : dues[i] \in [host : Hosts, at : Nat \ {0}]
    BY ElementOfSeq DEF PaceInv, PacerTyped
  <2> QED BY <2>1 DEF PaceInv, PacerTyped
<1>2. A \in Nat
  <2>1. Second \in Nat /\ PerVantage \in Nat /\ PerVantage # 0
    BY ProberAssumption
  <2> QED BY <2>1
<1>3. I \in Nat /\ Second \div PerHost <= I /\ Second \div PerHost \in Nat
  <2>0. Second \in Nat /\ PerHost \in Nat /\ PerHost # 0
    BY ProberAssumption
  <2>1. Second \div PerHost \in Nat
    BY <2>0
  <2> QED BY <1>1, <2>1, SlowerIsLonger
<1>4. g = [due |-> due, pacer |-> [pacer EXCEPT !.lastAggregate = due, !.lastHost[h] = due]]
  BY DEF Next
<1>5. g.due = due /\ g.pacer = [pacer EXCEPT !.lastAggregate = due, !.lastHost[h] = due]
  BY <1>4
<1> HIDE DEF A, I, g
<1>6. /\ agg \in Nat /\ agg >= clock /\ (pacer.lastAggregate # 0 => agg >= pacer.lastAggregate + A)
      /\ due \in Nat /\ due >= agg /\ (pacer.lastHost[h] # 0 => due >= pacer.lastHost[h] + I)
  <2>1. \A a, b \in Nat : Max2(a, b) \in Nat /\ Max2(a, b) >= a /\ Max2(a, b) >= b
    BY DEF Max2
  <2>2. agg \in Nat /\ agg >= clock /\ (pacer.lastAggregate # 0 => agg >= pacer.lastAggregate + A)
    <3>1. CASE pacer.lastAggregate = 0
      BY <1>1, <3>1
    <3>2. CASE pacer.lastAggregate # 0
      <4> DEFINE m == pacer.lastAggregate + A
      <4>1. m \in Nat
        BY <1>1, <1>2
      <4>2. agg = Max2(clock, m)
        BY <3>2
      <4> HIDE DEF m, agg
      <4>3. agg \in Nat /\ agg >= clock /\ agg >= m
        BY <1>1, <2>1, <4>1, <4>2
      <4> QED BY <4>3 DEF m
    <3> QED BY <3>1, <3>2
  <2> HIDE DEF agg
  <2>3. pacer.lastHost[h] \in Nat /\ I \in Nat
    BY <1>1, <1>3
  <2>4. due \in Nat /\ due >= agg /\ (pacer.lastHost[h] # 0 => due >= pacer.lastHost[h] + I)
    <3>1. CASE pacer.lastHost[h] = 0
      BY <2>2, <3>1
    <3>2. CASE pacer.lastHost[h] # 0
      <4> DEFINE m == pacer.lastHost[h] + I
      <4>1. m \in Nat
        BY <2>3
      <4>2. due = Max2(agg, m)
        BY <3>2
      <4> HIDE DEF m, due
      <4>3. due \in Nat /\ due >= agg /\ due >= m
        BY <2>1, <2>2, <4>1, <4>2
      <4> QED BY <4>3 DEF m
    <3> QED BY <3>1, <3>2
  <2> QED BY <2>2, <2>4
<1> HIDE DEF agg, due
<1>7. ASSUME NEW i \in 1..Len(dues)
      PROVE  due >= dues[i].at + A /\ (dues[i].host = h => due >= dues[i].at + Second \div PerHost)
  <2>1. dues[i].at <= pacer.lastAggregate /\ dues[i].at <= pacer.lastHost[dues[i].host]
    BY DEF PaceInv, DuesPast
  <2>2. due >= dues[i].at + A
    BY <1>1, <1>2, <1>6, <2>1
  <2>3. ASSUME dues[i].host = h PROVE due >= dues[i].at + Second \div PerHost
    <3>1. dues[i].at <= pacer.lastHost[h]
      BY <2>1, <2>3
    <3> DEFINE B == Second \div PerHost
    <3> HIDE DEF B
    <3>2. I \in Nat /\ B <= I /\ B \in Nat
      BY <1>3 DEF B
    <3>3. due >= dues[i].at + B
      BY <1>1, <1>6, <3>1, <3>2
    <3> QED BY <3>3 DEF B
  <2> QED BY <2>2, <2>3
<1>8. due >= clock /\ due # 0
  BY <1>1, <1>6
<1> QED BY <1>5, <1>6, <1>7, <1>8 DEF A, g

\* A paced start keeps the pace.
LEMMA PacedStep ==
    ASSUME PaceInv, NEW h \in Hosts, NEW timedOut, Paced(Next(pacer, h, clock), h, timedOut)
    PROVE  PaceInv'
<1> DEFINE g == Next(pacer, h, clock)
           n == Len(dues)
           start == [host |-> h, at |-> g.due]
           granted == [pacer EXCEPT !.lastAggregate = g.due, !.lastHost[h] = g.due]
<1>1. /\ g.due \in Nat \ {0} /\ g.due >= clock /\ g.pacer = granted
      /\ \A i \in 1..n : /\ g.due >= dues[i].at + Second \div PerVantage
                         /\ dues[i].host = h => g.due >= dues[i].at + Second \div PerHost
  BY Granted
<1>2. /\ pacer' = IF timedOut THEN Signal(granted, h) ELSE granted
      /\ dues' = Append(dues, start)
      /\ \E slip \in 0..MaxSlip : clock' = g.due + slip
  BY <1>1 DEF Paced
<1> HIDE DEF g
<1>3. /\ dues' \in Seq([host : Hosts, at : Nat \ {0}]) /\ Len(dues') = n + 1 /\ n \in Nat
      /\ \A i \in 1..n : dues'[i] = dues[i]
      /\ dues'[n + 1] = start
  <2>1. start \in [host : Hosts, at : Nat \ {0}]
    BY <1>1
  <2>2. dues \in Seq([host : Hosts, at : Nat \ {0}])
    BY DEF PaceInv, PacerTyped
  <2> HIDE DEF start
  <2> QED BY <1>2, <2>1, <2>2, AppendProperties, LenProperties
<1>4. \A i \in 1..n : dues[i].host \in Hosts /\ dues[i].at \in Nat
  <2>1. \A i \in 1..n : dues[i] \in [host : Hosts, at : Nat \ {0}]
    BY ElementOfSeq DEF PaceInv, PacerTyped
  <2> QED BY <2>1
<1>5. clock' \in Nat \ {0}
  BY <1>1, <1>2
<1>6. /\ pacer' \in [lastAggregate : Nat, lastHost : [Hosts -> Nat], rate : [Hosts -> 1..PerHost]]
      /\ pacer'.lastAggregate = g.due
      /\ pacer'.lastHost = [pacer.lastHost EXCEPT ![h] = g.due]
  <2>1. /\ granted \in [lastAggregate : Nat, lastHost : [Hosts -> Nat], rate : [Hosts -> 1..PerHost]]
        /\ granted.lastAggregate = g.due
        /\ granted.lastHost = [pacer.lastHost EXCEPT ![h] = g.due]
    BY <1>1 DEF PaceInv, PacerTyped
  <2> HIDE DEF granted
  <2>2. ASSUME granted.rate[h] > 1 PROVE granted.rate[h] \div 2 \in 1..PerHost
    <3>1. granted.rate[h] \in 1..PerHost /\ PerHost \in Nat
      <4>1. PerHost \in Nat
        BY ProberAssumption
      <4> QED BY <2>1, <4>1
    <3> QED BY <2>2, <3>1
  <2>3. \/ Signal(granted, h) = granted
        \/ Signal(granted, h) = [granted EXCEPT !.rate[h] = granted.rate[h] \div 2] /\ granted.rate[h] > 1
    BY DEF Signal
  <2>4. CASE pacer' = granted
    BY <2>1, <2>4
  <2>5. CASE pacer' # granted
    <3>1. pacer' = [granted EXCEPT !.rate[h] = granted.rate[h] \div 2] /\ granted.rate[h] > 1
      BY <1>2, <2>3, <2>5
    <3>2. granted.rate[h] \div 2 \in 1..PerHost
      BY <2>2, <3>1
    <3> QED BY <2>1, <3>1, <3>2
  <2> QED BY <2>4, <2>5
<1>7. start.host = h /\ start.at = g.due
  OBVIOUS
<1> HIDE DEF start, granted
<1>8. DuesApart'
  <2> SUFFICES ASSUME NEW i \in 1..(n + 1), NEW j \in 1..(n + 1), i < j
               PROVE  /\ dues'[j].at >= dues'[i].at + Second \div PerVantage
                      /\ dues'[i].host = dues'[j].host => dues'[j].at >= dues'[i].at + Second \div PerHost
    BY <1>3 DEF DuesApart
  <2>1. i \in 1..n /\ dues'[i] = dues[i]
    BY <1>3
  <2>2. CASE j = n + 1
    BY <1>1, <1>3, <1>7, <2>1, <2>2
  <2>3. CASE j \in 1..n
    BY <1>3, <2>1, <2>3 DEF PaceInv, DuesApart
  <2> QED BY <1>3, <2>2, <2>3
<1>9. DuesPast'
  <2> SUFFICES ASSUME NEW i \in 1..(n + 1)
               PROVE  /\ dues'[i].at <= pacer'.lastAggregate
                      /\ dues'[i].at <= pacer'.lastHost[dues'[i].host]
    BY <1>3 DEF DuesPast
  <2>0. pacer.lastHost \in [Hosts -> Nat]
    BY DEF PaceInv, PacerTyped
  <2>1. CASE i = n + 1
    BY <1>1, <1>3, <1>6, <1>7, <2>0, <2>1
  <2>2. CASE i \in 1..n
    <3>1. dues'[i] = dues[i] /\ dues[i].at \in Nat /\ dues[i].host \in Hosts
      BY <1>3, <1>4, <2>2
    <3>2. g.due \in Nat /\ dues[i].at <= g.due
      <4>1. Second \div PerVantage \in Nat
        <5>1. Second \in Nat /\ PerVantage \in Nat /\ PerVantage # 0
          BY ProberAssumption
        <5> QED BY <5>1
      <4>2. g.due \in Nat /\ g.due >= dues[i].at + Second \div PerVantage
        BY <1>1, <2>2
      <4> QED BY <3>1, <4>1, <4>2
    <3>3. dues[i].at <= pacer.lastHost[dues[i].host]
      BY <2>2 DEF PaceInv, DuesPast
    <3> QED BY <1>6, <2>0, <3>1, <3>2, <3>3
  <2> QED BY <1>3, <2>1, <2>2
<1> QED BY <1>3, <1>5, <1>6, <1>8, <1>9 DEF PaceInv, PacerTyped

\* Numbers an interval apart and within P intervals are at most P.
LEMMA CountedApart ==
    ASSUME NEW K \in SUBSET Nat, NEW f \in [K -> Nat], NEW b \in Nat, NEW I \in Nat \ {0}, NEW P \in Nat,
           \A k \in K : b <= f[k] /\ f[k] < b + I * P,
           \A i, j \in K : i < j => f[j] >= f[i] + I
    PROVE  Cardinality(K) <= P
<1> DEFINE slot(k) == (f[k] - b) \div I
           g == [k \in K |-> slot(k)]
<1>1. ASSUME NEW k \in K
      PROVE  slot(k) \in Nat /\ slot(k) * I <= f[k] - b /\ f[k] - b < slot(k) * I + I
  <2>1. f[k] - b \in Nat
    OBVIOUS
  <2>2. \A d \in Nat : d \div I \in Nat /\ (d \div I) * I <= d /\ d < (d \div I) * I + I
    OBVIOUS
  <2> QED BY <2>1, <2>2
<1> HIDE DEF slot
<1>2. \A x, y \in Nat : x * I < y * I => x < y
  OBVIOUS
<1>3. ASSUME NEW k \in K PROVE slot(k) \in 0..(P - 1)
  <2>1. f[k] \in Nat /\ slot(k) * I < P * I
    BY <1>1
  <2> QED BY <1>1, <1>2, <2>1
<1>4. ASSUME NEW i \in K, NEW j \in K, i < j PROVE slot(i) # slot(j)
  <2>1. f[i] \in Nat /\ f[j] \in Nat /\ f[j] >= f[i] + I
    BY <1>4
  <2>2. slot(i) * I <= f[i] - b /\ f[j] - b < slot(j) * I + I
    BY <1>1
  <2> SUFFICES ASSUME slot(i) = slot(j) PROVE FALSE
    OBVIOUS
  <2> DEFINE m == slot(j) * I
  <2>3. m \in Nat /\ m <= f[i] - b /\ f[j] - b < m + I
    BY <1>1, <2>2
  <2> HIDE DEF m
  <2> QED BY <2>1, <2>3
<1>5. \A i, j \in K : slot(i) = slot(j) => i = j
  <2>1. \A i, j \in K : i = j \/ i < j \/ j < i
    OBVIOUS
  <2> QED BY <1>4, <2>1
<1>6. g \in Injection(K, 0..(P - 1))
  BY <1>3, <1>5 DEF Injection, IsInjective
<1>7. IsFiniteSet(0..(P - 1)) /\ Cardinality(0..(P - 1)) = P
  BY FS_Interval
<1> HIDE DEF g
<1> QED BY <1>6, <1>7, FS_Injection

\* At the pace, no second holds more starts than it may.
LEMMA PaceKeepsRate ==
    ASSUME WholeIntervals, PaceInv
    PROVE  RateKept
<1> DEFINE A == Second \div PerVantage
           B == Second \div PerHost
           within(i) == {k \in 1..Len(dues) : dues[k].at >= dues[i].at /\ dues[k].at < dues[i].at + Second}
<1>1. /\ Second \in Nat /\ PerVantage \in Nat /\ PerHost \in Nat /\ Second # 0
      /\ PerVantage # 0 /\ PerHost # 0 /\ PerVantage <= Second /\ PerHost <= Second
  BY ProberAssumption
<1>2. A \in Nat \ {0} /\ A * PerVantage = Second /\ B \in Nat \ {0} /\ B * PerHost = Second
  <2>1. \A s, p \in Nat : p # 0 /\ p <= s /\ s % p = 0 => s \div p \in Nat \ {0} /\ (s \div p) * p = s
    OBVIOUS
  <2> QED BY <1>1, <2>1 DEF WholeIntervals
<1>3. \A i \in 1..Len(dues) : dues[i].at \in Nat
  <2>1. \A i \in 1..Len(dues) : dues[i] \in [host : Hosts, at : Nat \ {0}]
    BY ElementOfSeq DEF PaceInv, PacerTyped
  <2> QED BY <2>1
<1>4. \A i, j \in 1..Len(dues) : i < j =>
         dues[j].at >= dues[i].at + A /\ (dues[i].host = dues[j].host => dues[j].at >= dues[i].at + B)
  BY DEF PaceInv, DuesApart
<1> HIDE DEF A, B
<1>5. ASSUME NEW i \in 1..Len(dues) PROVE Cardinality(within(i)) <= PerVantage
  <2> DEFINE f == [k \in within(i) |-> dues[k].at]
  <2>1. within(i) \in SUBSET Nat /\ f \in [within(i) -> Nat] /\ dues[i].at \in Nat
    BY <1>3
  <2>2. \A k \in within(i) : dues[i].at <= f[k] /\ f[k] < dues[i].at + A * PerVantage
    BY <1>2
  <2>3. \A j, k \in within(i) : j < k => f[k] >= f[j] + A
    BY <1>4
  <2> HIDE DEF f, within
  <2> QED BY <1>1, <1>2, <2>1, <2>2, <2>3, CountedApart
<1>6. ASSUME NEW i \in 1..Len(dues), NEW h \in Hosts
      PROVE  Cardinality({k \in within(i) : dues[k].host = h}) <= PerHost
  <2> DEFINE K == {k \in within(i) : dues[k].host = h}
             f == [k \in K |-> dues[k].at]
  <2>1. K \in SUBSET Nat /\ f \in [K -> Nat] /\ dues[i].at \in Nat
    BY <1>3
  <2>2. \A k \in K : dues[i].at <= f[k] /\ f[k] < dues[i].at + B * PerHost
    BY <1>2
  <2>3. \A j, k \in K : j < k => f[k] >= f[j] + B
    BY <1>4
  <2>4. Cardinality(K) <= PerHost
    <3> HIDE DEF f, K
    <3> QED BY <1>1, <1>2, <2>1, <2>2, <2>3, CountedApart
  <2> QED BY <2>4
<1> QED BY <1>5, <1>6 DEF RateKept

-----------------------------------------------------------------------------
(* Prober: what an enumeration says of a listener.                          *)

\* What the listener accepts in a version, and in all of them.
InVersion(v) == IF v = "1.3" THEN {<<v, v>>} ELSE {v} \X world.suites
Accepted(h) == UNION {InVersion(v) : v \in world.tls[h]}

Offered == {Versions[i] : i \in 1..Len(Versions)}
Enumeration ==
    [ver : Nat, remaining : SUBSET Ciphers, accepted : SUBSET (Offered \X (Offered \cup Ciphers)),
     spoke : BOOLEAN, lost : BOOLEAN]

\* An enumeration that lost no handshake holds all of the versions behind it, and
\* of the one it is at what it no longer offers.
Whole(e, h) ==
    /\ \A k \in 1..Len(Versions) :
          k < e.ver /\ Versions[k] \in world.tls[h] => InVersion(Versions[k]) \subseteq e.accepted
    /\ \A v \in world.tls[h] : e.ver <= Len(Versions) /\ v = Versions[e.ver] /\ v # "1.3"
          => {v} \X (world.suites \ e.remaining) \subseteq e.accepted

EnumHonest(e, h) ==
    /\ e \in Enumeration /\ e.ver \in 1..(Len(Versions) + 1)
    /\ e.accepted \subseteq Accepted(h)
    /\ e.spoke = TRUE => world.tls[h] # {}
    /\ e.lost = FALSE => Whole(e, h)

WorldTyped ==
    /\ world.open \subseteq Hosts \X Ports
    /\ world.tls \in [Hosts -> SUBSET Offered] /\ world.suites \subseteq Ciphers

\* Before anything was heard nothing is said.
LEMMA FreshIsHonest ==
    ASSUME WorldTyped, NEW h \in Hosts
    PROVE  EnumHonest(FreshEnum, h) /\ FreshEnum.ver <= Len(Versions)
<1>1. Len(Versions) \in Nat \ {0}
  BY ProberAssumption, EmptySeq, LenProperties
<1>2. FreshEnum \in Enumeration
  BY DEF FreshEnum, Enumeration
<1>3. Whole(FreshEnum, h)
  BY DEF Whole, FreshEnum, WorldTyped
<1> QED BY <1>1, <1>2, <1>3 DEF EnumHonest, FreshEnum

\* What a round leaves of an enumeration.
Narrowed(e, a) ==
    LET ver == Versions[e.ver]
    IN IF ver = "1.3" \/ a.accepted = {} THEN {} ELSE Narrow(e.remaining, a.accepted)
Heeded(h, e) == Attempt(Speaks(h), Accepts(h, Versions[e.ver], e.remaining))
Continued(h, e, a) ==
    [e EXCEPT !.spoke = @ \/ a.spoke, !.accepted = @ \cup {<<Versions[e.ver], c>> : c \in a.accepted},
              !.lost = @ \/ (a # Heeded(h, e)),
              !.remaining = IF Narrowed(e, a) = {} THEN Ciphers ELSE Narrowed(e, a),
              !.ver = IF Narrowed(e, a) = {} THEN @ + 1 ELSE @]

\* A listener accepts a suite of the offer whenever they share one.
LEMMA AcceptsOne ==
    ASSUME NEW h, NEW v, NEW offer
    PROVE  LET S == Accepts(h, v, offer) IN
           /\ v \notin world.tls[h] => S = {}
           /\ v \in world.tls[h] /\ v = "1.3" => S = {"1.3"}
           /\ v \in world.tls[h] /\ v # "1.3" =>
                 S \subseteq offer \cap world.suites /\ (S = {} => offer \cap world.suites = {})
<1> DEFINE shared == offer \cap world.suites
           S == Accepts(h, v, offer)
<1>1. v \notin world.tls[h] => S = {}
  BY DEF Accepts
<1>2. v \in world.tls[h] /\ v = "1.3" => S = {"1.3"}
  BY DEF Accepts
<1>3. ASSUME v \in world.tls[h], v # "1.3"
      PROVE  S \subseteq shared /\ (S = {} => shared = {})
  <2> DEFINE favourite == CHOOSE d \in shared : TRUE
  <2>1. S = {c \in shared : c = favourite}
    BY <1>3 DEF Accepts
  <2>2. shared # {} => favourite \in shared
    OBVIOUS
  <2> HIDE DEF favourite, S
  <2> QED BY <2>1, <2>2
<1> QED BY <1>1, <1>2, <1>3

\* A round keeps an enumeration honest, lost or not.
LEMMA RoundIsHonest ==
    ASSUME WorldTyped, NEW h \in Hosts, NEW e, EnumHonest(e, h), e.ver <= Len(Versions),
           NEW a \in Attempts(h, Versions[e.ver], e.remaining)
    PROVE  EnumHonest(Continued(h, e, a), h)
<1> DEFINE v == Versions[e.ver]
           S == Accepts(h, v, e.remaining)
           got == {<<v, c>> : c \in a.accepted}
           left == Narrowed(e, a)
           next == Continued(h, e, a)
<1>1. /\ e \in Enumeration /\ e.ver \in 1..Len(Versions) /\ e.ver \in Nat /\ Len(Versions) \in Nat
      /\ v \in Offered
  <2>1. Len(Versions) \in Nat
    BY ProberAssumption, LenProperties
  <2> QED BY <2>1 DEF EnumHonest, Offered
<1>2. /\ a = Attempt(FALSE, {}) \/ a = Heeded(h, e)
      /\ a.accepted = {} \/ a.accepted = S
      /\ a = Heeded(h, e) => a.accepted = S
      /\ a.spoke = TRUE => world.tls[h] # {}
      /\ a.spoke \in BOOLEAN
  <2>1. a = Attempt(FALSE, {}) \/ a = Heeded(h, e)
    BY DEF Attempts, Heeded
  <2>2. CASE a = Attempt(FALSE, {})
    <3>1. a.accepted = {} /\ a.spoke = FALSE
      BY <2>2 DEF Attempt
    <3>2. a = Heeded(h, e) => a.accepted = S
      BY DEF Heeded, Attempt
    <3> QED BY <2>1, <3>1, <3>2
  <2>3. CASE a = Heeded(h, e)
    <3>1. a.accepted = S /\ a.spoke = (world.tls[h] # {})
      BY <2>3 DEF Heeded, Attempt, Speaks
    <3> HIDE DEF S
    <3> QED BY <2>1, <3>1
  <2> QED BY <2>1, <2>2, <2>3
<1>3. /\ v \notin world.tls[h] => S = {}
      /\ v \in world.tls[h] /\ v = "1.3" => S = {"1.3"}
      /\ v \in world.tls[h] /\ v # "1.3" =>
            S \subseteq e.remaining \cap world.suites /\ (S = {} => e.remaining \cap world.suites = {})
  BY AcceptsOne
<1>4. /\ left = IF v = "1.3" \/ a.accepted = {} THEN {} ELSE e.remaining \ a.accepted
      /\ left \subseteq e.remaining
  BY DEF Narrowed, Narrow
<1>5. e.remaining \subseteq Ciphers /\ e.accepted \subseteq Offered \X (Offered \cup Ciphers)
      /\ e.spoke \in BOOLEAN /\ e.lost \in BOOLEAN
  BY <1>1 DEF Enumeration
<1> HIDE DEF S, left
<1>6. /\ next = [ver |-> next.ver, remaining |-> next.remaining, accepted |-> next.accepted,
                 spoke |-> next.spoke, lost |-> next.lost]
      /\ next.ver = (IF left = {} THEN e.ver + 1 ELSE e.ver)
      /\ next.remaining = (IF left = {} THEN Ciphers ELSE left)
      /\ next.accepted = e.accepted \cup got
      /\ next.spoke = (e.spoke \/ a.spoke)
      /\ next.lost = (e.lost \/ (a # Heeded(h, e)))
  <2> DEFINE sp == e.spoke \/ a.spoke
             lo == e.lost \/ (a # Heeded(h, e))
             re == IF left = {} THEN Ciphers ELSE left
             ve == IF left = {} THEN e.ver + 1 ELSE e.ver
             ac == e.accepted \cup got
  <2>1. next = [e EXCEPT !.spoke = sp, !.accepted = ac, !.lost = lo, !.remaining = re, !.ver = ve]
    BY DEF Continued, left
  <2>2. e = [ver |-> e.ver, remaining |-> e.remaining, accepted |-> e.accepted, spoke |-> e.spoke,
             lost |-> e.lost]
    BY <1>1 DEF Enumeration
  <2> HIDE DEF sp, lo, re, ve, ac, next
  <2>3. next = [ver |-> ve, remaining |-> re, accepted |-> ac, spoke |-> sp, lost |-> lo]
    BY <2>1, <2>2
  <2>4. next.ver = ve /\ next.remaining = re /\ next.accepted = ac /\ next.spoke = sp /\ next.lost = lo
    BY <2>3, Zenon
  <2>5. next = [ver |-> next.ver, remaining |-> next.remaining, accepted |-> next.accepted,
                spoke |-> next.spoke, lost |-> next.lost]
    BY <2>3, <2>4, Zenon
  <2> QED BY <2>4, <2>5 DEF sp, lo, re, ve, ac
<1> HIDE DEF next
<1>7. got \subseteq InVersion(v) /\ (got # {} => v \in world.tls[h])
  <2> SUFFICES ASSUME NEW c \in a.accepted PROVE <<v, c>> \in InVersion(v) /\ v \in world.tls[h]
    OBVIOUS
  <2>1. c \in S
    BY <1>2
  <2>2. v \in world.tls[h]
    BY <1>3, <2>1
  <2>3. CASE v = "1.3"
    BY <1>3, <2>1, <2>2, <2>3 DEF InVersion
  <2>4. CASE v # "1.3"
    <3>1. c \in world.suites
      BY <1>3, <2>1, <2>2, <2>4
    <3> QED BY <2>2, <2>4, <3>1 DEF InVersion
  <2> QED BY <2>2, <2>3, <2>4
<1>8. InVersion(v) \subseteq Offered \X (Offered \cup Ciphers)
  BY <1>1 DEF InVersion, WorldTyped
<1>9. next.accepted \subseteq Accepted(h)
  <2>1. got \subseteq Accepted(h)
    BY <1>7 DEF Accepted
  <2> QED BY <1>6, <2>1 DEF EnumHonest
<1>10. next \in Enumeration /\ next.ver \in 1..(Len(Versions) + 1)
  <2>1. next.ver \in Nat /\ next.ver \in 1..(Len(Versions) + 1)
    BY <1>1, <1>6
  <2>2. next.remaining \in SUBSET Ciphers
    BY <1>4, <1>5, <1>6
  <2>3. next.accepted \in SUBSET (Offered \X (Offered \cup Ciphers))
    <3> HIDE DEF got, v
    <3> QED BY <1>5, <1>6, <1>7, <1>8
  <2>4. next.spoke \in BOOLEAN /\ next.lost \in BOOLEAN
    BY <1>6, Zenon
  <2> QED BY <1>6, <2>1, <2>2, <2>3, <2>4 DEF Enumeration
<1>11. next.spoke = TRUE => world.tls[h] # {}
  <2>1. next.spoke = TRUE => e.spoke = TRUE \/ a.spoke = TRUE
    BY <1>2, <1>5, <1>6
  <2> QED BY <1>2, <2>1 DEF EnumHonest
<1>12. ASSUME next.lost = FALSE PROVE Whole(next, h)
  <2>1. e.lost = FALSE /\ a = Heeded(h, e)
    BY <1>5, <1>6, <1>12
  <2>2. a.accepted = S
    BY <1>2, <2>1
  <2>3. Whole(e, h)
    BY <2>1 DEF EnumHonest
  <2>4. e.accepted \subseteq next.accepted /\ got \subseteq next.accepted
    BY <1>6
  <2>5. \A u \in world.tls[h] : u = v /\ u # "1.3" => {u} \X (world.suites \ e.remaining) \subseteq e.accepted
    BY <1>1, <2>3 DEF Whole
  <2>6. CASE left = {}
    <3>1. next.ver = e.ver + 1 /\ next.remaining = Ciphers
      BY <1>6, <2>6
    <3>2. ASSUME v \in world.tls[h] PROVE InVersion(v) \subseteq next.accepted
      <4>1. CASE v = "1.3"
        BY <1>3, <2>2, <2>4, <3>2, <4>1 DEF InVersion
      <4>2. CASE v # "1.3"
        <5>1. world.suites \cap e.remaining \subseteq S
          BY <1>3, <1>4, <2>2, <2>6, <3>2, <4>2
        <5>2. \A c \in world.suites : <<v, c>> \in next.accepted
          <6> SUFFICES ASSUME NEW c \in world.suites PROVE <<v, c>> \in next.accepted
            OBVIOUS
          <6>1. CASE c \in e.remaining
            BY <2>2, <2>4, <5>1, <6>1
          <6>2. CASE c \notin e.remaining
            BY <2>4, <2>5, <3>2, <4>2, <6>2
          <6> QED BY <6>1, <6>2
        <5> QED BY <4>2, <5>2 DEF InVersion
      <4> QED BY <4>1, <4>2
    <3>3. ASSUME NEW k \in 1..Len(Versions), k < next.ver, Versions[k] \in world.tls[h]
          PROVE  InVersion(Versions[k]) \subseteq next.accepted
      <4>1. CASE k = e.ver
        BY <3>2, <3>3, <4>1
      <4>2. CASE k < e.ver
        <5>1. InVersion(Versions[k]) \subseteq e.accepted
          BY <2>3, <3>3, <4>2 DEF Whole
        <5> QED BY <2>4, <5>1
      <4> QED BY <1>1, <3>1, <3>3, <4>1, <4>2
    <3>4. world.suites \ next.remaining = {}
      BY <3>1 DEF WorldTyped
    <3> QED BY <3>3, <3>4 DEF Whole
  <2>7. CASE left # {}
    <3>1. next.ver = e.ver /\ next.remaining = left /\ left = e.remaining \ S /\ v # "1.3"
      BY <1>4, <1>6, <2>2, <2>7
    <3>2. ASSUME NEW u \in world.tls[h], u = v
          PROVE  {u} \X (world.suites \ next.remaining) \subseteq next.accepted
      <4> SUFFICES ASSUME NEW c \in world.suites \ next.remaining PROVE <<v, c>> \in next.accepted
        BY <3>2
      <4>1. CASE c \in e.remaining
        BY <2>2, <2>4, <3>1, <4>1
      <4>2. CASE c \notin e.remaining
        BY <2>4, <2>5, <3>1, <3>2, <4>2
      <4> QED BY <4>1, <4>2
    <3>3. ASSUME NEW k \in 1..Len(Versions), k < next.ver, Versions[k] \in world.tls[h]
          PROVE  InVersion(Versions[k]) \subseteq next.accepted
      <4>1. InVersion(Versions[k]) \subseteq e.accepted
        BY <2>3, <3>1, <3>3 DEF Whole
      <4> QED BY <2>4, <4>1
    <3>4. \A u \in world.tls[h] : next.ver <= Len(Versions) /\ u = Versions[next.ver] /\ u # "1.3"
             => {u} \X (world.suites \ next.remaining) \subseteq next.accepted
      BY <3>1, <3>2
    <3> QED BY <3>3, <3>4 DEF Whole
  <2> QED BY <2>6, <2>7
<1> QED BY <1>9, <1>10, <1>11, <1>12 DEF EnumHonest, next

\* The value an enumeration ends with.
Ended(t, e) ==
    Observation("tls-acceptance", t,
                [outcome |-> acceptanceValue(e), accepted |-> e.accepted, lost |-> e.lost])

\* An observation that speaks of TLS as AcceptanceHonest asks.
AcceptanceTrue(o) ==
    o.facet = "tls-acceptance" =>
        /\ o.value.accepted \subseteq Accepted(o.target[1])
        /\ ~o.value.lost => o.value.accepted = Accepted(o.target[1])
        /\ o.value.outcome = "tls-refused" => Speaks(o.target[1])

\* A listener is told of as it was heard.
LEMMA EndedIsTrue ==
    ASSUME WorldTyped, NEW t, t[1] \in Hosts, NEW e, EnumHonest(e, t[1]), e.ver > Len(Versions)
    PROVE  AcceptanceTrue(Ended(t, e))
<1> DEFINE h == t[1]
           o == Ended(t, e)
<1>1. /\ o.target = t /\ o.value.accepted = e.accepted /\ o.value.lost = e.lost
      /\ o.value.outcome = acceptanceValue(e)
  BY DEF Ended, Observation
<1>2. e.accepted \subseteq Accepted(h) /\ e.lost \in BOOLEAN /\ e.spoke \in BOOLEAN
  BY DEF EnumHonest, Enumeration
<1>3. ASSUME e.lost = FALSE PROVE Accepted(h) \subseteq e.accepted
  <2> SUFFICES ASSUME NEW v \in world.tls[h] PROVE InVersion(v) \subseteq e.accepted
    BY DEF Accepted
  <2>1. PICK k \in 1..Len(Versions) : v = Versions[k]
    BY DEF WorldTyped, Offered
  <2>2. k < e.ver
    <3>1. e.ver \in Nat /\ Len(Versions) \in Nat
      BY ProberAssumption, LenProperties DEF EnumHonest, Enumeration
    <3> QED BY <3>1
  <2> QED BY <1>3, <2>1, <2>2 DEF EnumHonest, Whole
<1>4. acceptanceValue(e) = "tls-refused" => e.spoke = TRUE
  BY <1>2 DEF acceptanceValue
<1>5. e.spoke = TRUE => Speaks(h)
  BY DEF EnumHonest, Speaks
<1>6. ~e.lost => e.lost = FALSE
  BY <1>2
<1> HIDE DEF o
<1>7. ~e.lost => e.accepted = Accepted(h)
  <2>1. ASSUME ~e.lost PROVE e.accepted = Accepted(h)
    <3>1. Accepted(h) \subseteq e.accepted
      BY <1>3, <1>6, <2>1
    <3> QED BY <1>2, <3>1
  <2> QED BY <2>1
<1>8. /\ o.value.accepted \subseteq Accepted(o.target[1])
      /\ ~o.value.lost => o.value.accepted = Accepted(o.target[1])
  BY <1>1, <1>2, <1>7, Zenon
<1>9. o.value.outcome = "tls-refused" => Speaks(o.target[1])
  BY <1>1, <1>4, <1>5, Zenon
<1> QED BY <1>8, <1>9 DEF AcceptanceTrue, o

-----------------------------------------------------------------------------
(* Prober: where the process is, and what it has said.                      *)

Run ==
    [phase : {"control", "probe", "http", "tls", "edge"}, at : Nat \ {0}, tries : Nat,
     results : [Hosts -> SUBSET {"answered", "closed", "incomplete"}], names : SUBSET Names,
     enum : Enumeration]

\* A connect job walks its hosts' control ports and then its targets; the others
\* are of services that were open.
JobTyped ==
    /\ job.kind \in {"connect", "http", "tls", "edge"}
    /\ job.kind = "connect" =>
          /\ job.hosts \subseteq Hosts /\ job.names \subseteq Names
          /\ job.targets \subseteq job.hosts \X (Ports \cup ControlPorts)
    /\ job.kind = "tls" => job.targets \subseteq world.open

PhaseOfKind ==
    /\ run.phase \in {"control", "probe"} <=> job.kind = "connect"
    /\ run.phase = "tls" => job.kind = "tls"

ProbeTyped == WorldTyped /\ JobTyped /\ run \in Run /\ PhaseOfKind

\* A control port was tried on every host behind, and no blanketed host refused one.
ControlsTried ==
    /\ \A h \in Hosts \cap world.blanket : "closed" \notin run.results[h]
    /\ run.phase = "control" =>
          /\ run.names = {}
          /\ \A k \in 1..Len(ControlTargets(job)) : k < run.at => run.results[ControlTargets(job)[k][1]] # {}
    /\ run.phase = "probe" => \A h \in job.hosts : run.results[h] # {}

\* The walk stands at a service of a host that is not gapped, and handshakes with
\* one that is open.
AtAService(at) ==
    at <= Len(RoundRobin(job.targets)) => ~Gaps(Verdicts(run.results)[RoundRobin(job.targets)[at][1]])
WalksServices ==
    run.phase = "probe" =>
        /\ run.at <= Len(RoundRobin(job.targets)) + 1
        /\ AtAService(run.at)
        /\ run.names # {} => /\ run.at <= Len(RoundRobin(job.targets))
                             /\ RoundRobin(job.targets)[run.at] \in world.open

\* The enumeration under way is honest about its target.
Enumerates ==
    run.phase = "tls" /\ run.at <= Cardinality(job.targets) =>
        EnumHonest(run.enum, Target(run.at)[1]) /\ run.enum.ver <= Len(Versions)

\* The inductive invariant; the pace is a connect job's.
ProbeInv ==
    /\ ProbeTyped /\ ControlsTried /\ WalksServices /\ Enumerates
    /\ job.kind = "connect" => PaceInv
    /\ ReachWitnessed /\ \A o \in obs : AcceptanceTrue(o)

\* A set of numbers has a least.
LEMMA LeastIn ==
    ASSUME NEW S \in SUBSET Nat, S # {}
    PROVE  \E t \in S : \A u \in S : t <= u
<1>1. PICK t \in S : \A u \in S : ~(<<u, t>> \in OpToRel(<, Nat))
  <2> DEFINE R == OpToRel(<, Nat)
  <2>1. IsWellFoundedOn(R, Nat)
    BY NatLessThanWellFounded
  <2> HIDE DEF R
  <2>2. \E t \in S : \A u \in S : ~(<<u, t>> \in R)
    BY <2>1, WFMin
  <2> QED BY <2>2 DEF R
<1>2. \A u \in S : ~(u < t)
  BY <1>1 DEF OpToRel
<1> QED BY <1>2

\* A connect job walks all of its control ports and all of its targets.
LEMMA ConnectLists ==
    ASSUME ProbeTyped, job.kind = "connect"
    PROVE  /\ Lists(ControlTargets(job), job.hosts \X ControlPorts, Cardinality(job.hosts \X ControlPorts))
           /\ Lists(RoundRobin(job.targets), job.targets, Cardinality(job.targets))
<1>1. job.hosts \subseteq Hosts /\ job.targets \subseteq job.hosts \X (Ports \cup ControlPorts)
  BY DEF ProbeTyped, JobTyped
<1>2. Lists(ControlTargets(job), job.hosts \X ControlPorts, Cardinality(job.hosts \X ControlPorts))
  BY <1>1, ControlsListed
<1>3. /\ IsFiniteSet(Hosts) /\ IsFiniteSet(Ports) /\ IsFiniteSet(ControlPorts)
      /\ Hosts \subseteq Nat /\ Ports \subseteq Nat /\ ControlPorts \subseteq Nat
  BY ProberAssumption
<1> DEFINE P == Ports \cup ControlPorts
<1>4. IsFiniteSet(P) /\ P \subseteq Nat
  BY <1>3, FS_Union
<1> HIDE DEF P
<1>5. IsFiniteSet(Hosts \X P)
  BY <1>3, <1>4, FS_Product
<1>6. job.targets \in SUBSET (Hosts \X P)
  BY <1>1 DEF P
<1>7. IsFiniteSet(job.targets)
  BY <1>5, <1>6, FS_Subset
<1>8. \A x \in job.targets : x = <<x[1], x[2]>> /\ x[1] \in Nat /\ x[2] \in Nat
  BY <1>3, <1>4, <1>6
<1> QED BY <1>2, <1>7, <1>8, TargetsListed

\* The services of an enumeration, each once open, are walked whole.
LEMMA OpenLists ==
    ASSUME ProbeTyped, job.kind = "tls"
    PROVE  Lists(RoundRobin(job.targets), job.targets, Cardinality(job.targets))
<1>1. job.targets \in SUBSET (Hosts \X Ports)
  BY DEF ProbeTyped, JobTyped, WorldTyped
<1>2. IsFiniteSet(Hosts) /\ IsFiniteSet(Ports) /\ Hosts \subseteq Nat /\ Ports \subseteq Nat
  BY ProberAssumption
<1>3. IsFiniteSet(job.targets)
  <2>1. IsFiniteSet(Hosts \X Ports)
    BY <1>2, FS_Product
  <2> QED BY <1>1, <2>1, FS_Subset
<1>4. \A x \in job.targets : x = <<x[1], x[2]>> /\ x[1] \in Nat /\ x[2] \in Nat
  BY <1>1, <1>2
<1> QED BY <1>3, <1>4, TargetsListed

\* The next service is one of a host that is not gapped, and none is passed twice.
LEMMA NextIsAService ==
    ASSUME ProbeTyped, job.kind = "connect", NEW i \in Nat \ {0}, i <= Len(RoundRobin(job.targets)) + 1
    PROVE  LET k == NextService(i, Verdicts(run.results)) IN
           k \in Nat /\ k >= i /\ k <= Len(RoundRobin(job.targets)) + 1 /\ AtAService(k)
<1> DEFINE all == RoundRobin(job.targets)
           live == {k \in i..Len(all) : ~Gaps(Verdicts(run.results)[all[k][1]])}
<1>1. Len(all) \in Nat
  BY ConnectLists DEF Lists
<1>2. NextService(i, Verdicts(run.results)) =
        IF live = {} THEN Len(all) + 1 ELSE CHOOSE k \in live : \A l \in live : k <= l
  BY DEF NextService
<1>3. CASE live = {}
  BY <1>1, <1>2, <1>3 DEF AtAService
<1>4. CASE live # {}
  <2>1. live \in SUBSET Nat
    BY <1>1
  <2> HIDE DEF live
  <2>2. \E t \in live : \A u \in live : t <= u
    BY <1>4, <2>1, LeastIn
  <2>3. NextService(i, Verdicts(run.results)) \in live
    BY <1>2, <1>4, <2>2
  <2> QED BY <1>1, <2>3 DEF live, AtAService
<1> QED BY <1>3, <1>4

\* A job is of one of the kinds, and targets what its scan may.
LEMMA JobsTyped ==
    ASSUME NEW open \in SUBSET (Hosts \X Ports), NEW estate, NEW opted,
           NEW j \in AllJobs(estate, opted, open) \cup BuildColdJobs(estate, opted)
    PROVE  /\ j.kind \in {"connect", "http", "tls", "edge"}
           /\ j.kind = "connect" =>
                 /\ j.hosts \subseteq Hosts /\ j.names \subseteq Names
                 /\ j.targets \subseteq j.hosts \X (Ports \cup ControlPorts)
           /\ j.kind = "tls" => j.targets \subseteq open
<1>1. \A h \in Hosts : \A c : LET i == HotJob(h, c) IN
         /\ i.kind = "connect" /\ i.hosts = {h} /\ i.names = Names /\ i.targets = {<<h, p>> : p \in Ports}
         /\ i = [kind |-> i.kind, class |-> i.class, hosts |-> i.hosts, ports |-> i.ports,
                 names |-> i.names, targets |-> i.targets]
  BY DEF HotJob
<1>2. ASSUME NEW x \in Hosts \X Classes, j = HotJob(x[1], x[2])
      PROVE  /\ j.kind = "connect" /\ j.hosts \subseteq Hosts /\ j.names \subseteq Names
             /\ j.targets \subseteq j.hosts \X (Ports \cup ControlPorts)
  <2>1. x[1] \in Hosts
    OBVIOUS
  <2> QED BY <1>1, <1>2, <2>1
<1>3. ASSUME NEW x \in Hosts \X Classes,
             j = [HotJob(x[1], x[2]) EXCEPT !.ports = ColdPorts, !.targets = {<<x[1], p>> : p \in ColdPorts}]
      PROVE  /\ j.kind = "connect" /\ j.hosts \subseteq Hosts /\ j.names \subseteq Names
             /\ j.targets \subseteq j.hosts \X (Ports \cup ControlPorts)
  <2>1. x[1] \in Hosts
    OBVIOUS
  <2>2. /\ j.kind = "connect" /\ j.hosts = {x[1]} /\ j.names = Names
        /\ j.targets = {<<x[1], p>> : p \in ColdPorts}
    BY <1>3, <2>1 DEF HotJob
  <2> QED BY <2>1, <2>2 DEF ColdPorts
<1>4. \A kind, c, targets : /\ ServiceJob(kind, c, targets).kind = kind
                            /\ ServiceJob(kind, c, targets).targets = targets
  BY DEF ServiceJob
<1>5. CASE j \in BuildHotJobs(estate)
  <2>1. PICK x \in Hosts \X Classes : j = HotJob(x[1], x[2])
    BY <1>5 DEF BuildHotJobs
  <2> QED BY <1>2, <2>1
<1>6. CASE j \in BuildColdJobs(estate, opted)
  <2>1. PICK x \in Hosts \X Classes :
           j = [HotJob(x[1], x[2]) EXCEPT !.ports = ColdPorts, !.targets = {<<x[1], p>> : p \in ColdPorts}]
    BY <1>6 DEF BuildColdJobs
  <2> QED BY <1>3, <2>1
<1>7. CASE j \in BuildHTTPIdentityJobs(estate, open)
  <2>1. PICK c : j = ServiceJob("http", c, StillOurs(estate, c, open))
    BY <1>7 DEF BuildHTTPIdentityJobs
  <2>2. j.kind = "http"
    BY <1>4, <2>1, Zenon
  <2> QED BY <2>2
<1>8. CASE j \in BuildTLSAcceptanceJobs(estate, open)
  <2>1. PICK c : j = ServiceJob("tls", c, StillOurs(estate, c, open))
    BY <1>8 DEF BuildTLSAcceptanceJobs
  <2>2. j.kind = "tls" /\ j.targets = StillOurs(estate, c, open)
    BY <1>4, <2>1, Zenon
  <2>3. j.targets \subseteq open
    BY <2>2 DEF StillOurs
  <2> QED BY <2>2, <2>3
<1>9. CASE j \in BuildEdgeFanoutJobs({x[1] : x \in estate})
  <2>1. PICK T : j = ServiceJob("edge", "internet", T)
    BY <1>9 DEF BuildEdgeFanoutJobs
  <2>2. j.kind = "edge"
    BY <1>4, <2>1, Zenon
  <2> QED BY <2>2
<1> QED BY <1>5, <1>6, <1>7, <1>8, <1>9 DEF AllJobs

\* A process that begins has said nothing.
LEMMA ProbeStart == ProbeInit => ProbeInv
<1> SUFFICES ASSUME ProbeInit PROVE ProbeInv
  OBVIOUS
<1>1. PICK blanket \in SUBSET Hosts, open \in SUBSET (Hosts \X Ports),
           tls \in [Hosts -> SUBSET Offered], suites \in SUBSET Ciphers :
        world = [blanket |-> blanket, open |-> open, tls |-> tls, suites |-> suites]
  BY DEF ProbeInit, Offered
<1>2. WorldTyped /\ world.open = open
  BY <1>1 DEF WorldTyped
<1>3. /\ run = [phase |-> IF job.kind = "connect" THEN "control" ELSE job.kind,
                at |-> 1, tries |-> 0, results |-> [h \in Hosts |-> {}],
                names |-> {}, enum |-> FreshEnum]
      /\ pacer = [lastAggregate |-> 0, lastHost |-> [h \in Hosts |-> 0], rate |-> [h \in Hosts |-> PerHost]]
      /\ clock = 1 /\ dues = <<>> /\ obs = {}
  BY DEF ProbeInit
<1>4. JobTyped
  <2>1. PICK inside \in {{}, Hosts} :
          job \in AllJobs((Hosts \X {"internet"}) \cup (inside \X {"inside"}), {}, open)
                   \cup BuildColdJobs(Hosts \X {"internet"}, {CHOOSE h \in Hosts : TRUE})
    BY <1>2 DEF ProbeInit
  <2> DEFINE E == (Hosts \X {"internet"}) \cup (inside \X {"inside"})
             F == Hosts \X {"internet"}
             O == {CHOOSE h \in Hosts : TRUE}
  <2>2. job \in AllJobs(E, {}, open) \/ job \in BuildColdJobs(F, O)
    BY <2>1
  <2> HIDE DEF E, F, O
  <2>3. CASE job \in AllJobs(E, {}, open)
    BY <1>2, <2>3, JobsTyped DEF JobTyped
  <2>4. CASE job \in BuildColdJobs(F, O)
    BY <1>2, <2>4, JobsTyped DEF JobTyped
  <2> QED BY <2>2, <2>3, <2>4
<1>5. FreshEnum \in Enumeration
  BY DEF FreshEnum, Enumeration
<1>6. /\ run.phase = (IF job.kind = "connect" THEN "control" ELSE job.kind) /\ run.at = 1 /\ run.names = {}
      /\ run.results = [h \in Hosts |-> {}] /\ run.enum = FreshEnum
  BY <1>3
<1>7. run \in Run
  <2>1. run.phase \in {"control", "probe", "http", "tls", "edge"}
    BY <1>4, <1>6 DEF JobTyped
  <2>2. run = [phase |-> run.phase, at |-> 1, tries |-> 0, results |-> run.results,
               names |-> {}, enum |-> FreshEnum]
    BY <1>3, <1>6
  <2>3. run.results \in [Hosts -> SUBSET {"answered", "closed", "incomplete"}]
    BY <1>6
  <2> QED BY <1>5, <2>1, <2>2, <2>3 DEF Run
<1>8. PhaseOfKind
  BY <1>4, <1>6 DEF PhaseOfKind, JobTyped
<1>9. ProbeTyped
  BY <1>2, <1>4, <1>7, <1>8 DEF ProbeTyped
<1>10. ControlsTried
  <2>1. \A h \in Hosts : run.results[h] = {}
    BY <1>6
  <2>2. ~(\E k \in 1..Len(ControlTargets(job)) : k < run.at)
    BY <1>6
  <2>3. run.phase # "probe"
    BY <1>4, <1>6 DEF JobTyped
  <2> QED BY <1>6, <2>1, <2>2, <2>3 DEF ControlsTried
<1>11. WalksServices
  BY <1>4, <1>6 DEF WalksServices, JobTyped
<1>12. Enumerates
  <2> SUFFICES ASSUME run.phase = "tls", 1 <= Cardinality(job.targets)
               PROVE  EnumHonest(FreshEnum, Target(1)[1]) /\ FreshEnum.ver <= Len(Versions)
    BY <1>6 DEF Enumerates
  <2>1. job.kind = "tls"
    BY <1>8 DEF PhaseOfKind
  <2>2. Target(1) \in job.targets
    BY <1>9, <2>1, OpenLists DEF Lists, Target
  <2>3. Target(1)[1] \in Hosts
    BY <1>4, <1>2, <2>1, <2>2 DEF JobTyped, WorldTyped
  <2> QED BY <1>2, <2>3, FreshIsHonest
<1>13. PaceInv
  <2>1. PerHost \in 1..PerHost
    BY ProberAssumption
  <2>2. PacerTyped
    BY <1>3, <2>1 DEF PacerTyped
  <2> QED BY <1>3, <2>2 DEF PaceInv, DuesApart, DuesPast
<1> QED BY <1>3, <1>9, <1>10, <1>11, <1>12, <1>13 DEF ProbeInv, ReachWitnessed

-----------------------------------------------------------------------------
(* Prober: the steps.                                                       *)

\* A target of a connect job is a port of one of its hosts.
LEMMA TargetOfHost ==
    ASSUME ProbeTyped, job.kind = "connect", NEW i \in 1..Len(RoundRobin(job.targets))
    PROVE  LET t == RoundRobin(job.targets)[i] IN t = <<t[1], t[2]>> /\ t[1] \in job.hosts /\ t[1] \in Hosts
<1> DEFINE t == RoundRobin(job.targets)[i]
<1>1. t \in job.targets
  BY ConnectLists DEF Lists
<1>2. job.hosts \subseteq Hosts /\ job.targets \subseteq job.hosts \X (Ports \cup ControlPorts)
  BY DEF ProbeTyped, JobTyped
<1> HIDE DEF t
<1>3. t \in job.hosts \X (Ports \cup ControlPorts)
  BY <1>1, <1>2
<1> QED BY <1>2, <1>3 DEF t

\* A host that is not gapped refused a control port, and answers on what is open.
LEMMA RefusedOne ==
    ASSUME ProbeTyped, ControlsTried, run.phase = "probe", NEW h \in job.hosts, h \in Hosts,
           ~Gaps(Verdicts(run.results)[h])
    PROVE  h \notin world.blanket
<1>1. run.results[h] # {}
  BY DEF ControlsTried
<1>2. Verdicts(run.results)[h] = BlanketDecide(run.results[h])
  BY DEF Verdicts
<1>3. "closed" \in run.results[h]
  <2>1. BlanketDecide(run.results[h]) \notin {"Blanket", "Gap"}
    BY <1>2 DEF Gaps
  <2> QED BY <1>1, <2>1 DEF BlanketDecide
<1> QED BY <1>3 DEF ControlsTried

\* What is unchanged keeps what it says.
LEMMA SaidStands ==
    ASSUME UNCHANGED <<world, job, obs>>
    PROVE  /\ ReachWitnessed => ReachWitnessed'
           /\ (\A o \in obs : AcceptanceTrue(o)) => (\A o \in obs : AcceptanceTrue(o))'
BY DEF ReachWitnessed, AcceptanceTrue, Accepted, InVersion, Speaks

\* The world and the job are of a type as long as they stand.
LEMMA TypesStand ==
    ASSUME UNCHANGED <<world, job>>
    PROVE  WorldTyped /\ JobTyped => WorldTyped' /\ JobTyped'
BY DEF WorldTyped, JobTyped

\* A gap is no claim of either kind.
LEMMA GapsClaimNothing ==
    \A i, k : \A o \in GapsBetween(i, k) : o.facet = "reachability" /\ o.value = "gap"
BY DEF GapsBetween, Observation

\* One control port of one host.
LEMMA ControlStep ==
    ASSUME ProbeInv, ProbeControlPort
    PROVE  ProbeInv'
<1> DEFINE CT == ControlTargets(job)
           t == CT[run.at]
<1>1. run.phase = "control" /\ run.at <= Len(CT) /\ UNCHANGED <<world, job, obs>>
  BY DEF ProbeControlPort
<1>2. job.kind = "connect" /\ run \in Run
  BY <1>1 DEF ProbeInv, ProbeTyped, PhaseOfKind
<1>3. run.at \in Nat \ {0} /\ run.tries \in Nat
  BY <1>2 DEF Run
<1>4. /\ Len(CT) \in Nat /\ \A k \in 1..Len(CT) : CT[k] \in job.hosts \X ControlPorts
  BY <1>2, ConnectLists DEF ProbeInv, Lists
<1>5. t[1] \in Hosts
  <2>1. t \in job.hosts \X ControlPorts
    BY <1>1, <1>3, <1>4
  <2> HIDE DEF t
  <2> QED BY <1>2, <2>1 DEF ProbeInv, ProbeTyped, JobTyped
<1>6. PICK r \in Connect(t[1], t[2]) :
         /\ Paced(Next(pacer, t[1], clock), t[1], r = "timed-out")
         /\ run' = IF ~Decided(r) /\ run.tries < ControlPortRetries
                   THEN [run EXCEPT !.tries = @ + 1]
                   ELSE [run EXCEPT !.at = @ + 1, !.tries = 0,
                                    !.results[t[1]] = @ \cup {controlResultOf(r)}]
  BY DEF ProbeControlPort
<1>7. PaceInv'
  <2> DEFINE late == (r = "timed-out")
  <2> HIDE DEF t, late
  <2>1. Paced(Next(pacer, t[1], clock), t[1], late)
    BY <1>6 DEF late
  <2> QED BY <1>2, <1>5, <2>1, PacedStep DEF ProbeInv
<1>8. /\ controlResultOf(r) \in {"answered", "closed", "incomplete"}
      /\ t[1] \in world.blanket => controlResultOf(r) # "closed"
  <2>1. r \in {"timed-out", "error", "open", "refused"} /\ (t[1] \in world.blanket => r # "refused")
    BY <1>6 DEF Connect
  <2> QED BY <2>1 DEF controlResultOf
<1> HIDE DEF t, CT
<1>9. /\ run' \in Run /\ run'.phase = "control" /\ run'.names = run.names
      /\ \/ run'.at = run.at /\ run'.results = run.results
         \/ /\ run'.at = run.at + 1
            /\ run'.results = [run.results EXCEPT ![t[1]] = @ \cup {controlResultOf(r)}]
  <2>1. CASE run' = [run EXCEPT !.tries = @ + 1]
    BY <1>1, <1>2, <1>3, <2>1 DEF Run
  <2>2. CASE run' = [run EXCEPT !.at = @ + 1, !.tries = 0, !.results[t[1]] = @ \cup {controlResultOf(r)}]
    <3> DEFINE res == [run.results EXCEPT ![t[1]] = @ \cup {controlResultOf(r)}]
    <3>1. res \in [Hosts -> SUBSET {"answered", "closed", "incomplete"}]
      BY <1>2, <1>8 DEF Run
    <3>2. run' = [run EXCEPT !.at = run.at + 1, !.tries = 0, !.results = res]
      BY <1>2, <2>2 DEF Run
    <3> HIDE DEF res
    <3>3. run = [phase |-> run.phase, at |-> run.at, tries |-> run.tries, results |-> run.results,
                 names |-> run.names, enum |-> run.enum]
      BY <1>2 DEF Run
    <3>4. run' = [phase |-> run.phase, at |-> run.at + 1, tries |-> 0, results |-> res,
                  names |-> run.names, enum |-> run.enum]
      BY <3>2, <3>3
    <3>5. run' \in Run
      BY <1>2, <1>3, <3>1, <3>4 DEF Run
    <3>6. run'.phase = "control" /\ run'.names = run.names /\ run'.at = run.at + 1 /\ run'.results = res
      BY <1>1, <3>4
    <3> QED BY <3>5, <3>6 DEF res
  <2> QED BY <1>6, <2>1, <2>2
<1>10. \A h \in Hosts : run.results[h] \subseteq run'.results[h]
  BY <1>2, <1>9 DEF Run
<1>11. ProbeTyped'
  <2>1. PhaseOfKind'
    BY <1>1, <1>2, <1>9 DEF PhaseOfKind
  <2> QED BY <1>1, <1>9, <2>1, TypesStand DEF ProbeInv, ProbeTyped
<1>12. ControlsTried'
  <2>1. \A h \in Hosts \cap world.blanket : "closed" \notin run'.results[h]
    <3>1. \A h \in Hosts \cap world.blanket : "closed" \notin run.results[h]
      BY DEF ProbeInv, ControlsTried
    <3> QED BY <1>2, <1>8, <1>9, <3>1 DEF Run
  <2>2. ASSUME NEW k \in 1..Len(CT), k < run'.at PROVE run'.results[CT[k][1]] # {}
    <3>1. CT[k][1] \in Hosts
      <4>1. CT[k] \in job.hosts \X ControlPorts /\ job.hosts \subseteq Hosts
        BY <1>2, <1>4 DEF ProbeInv, ProbeTyped, JobTyped
      <4> QED BY <4>1
    <3>2. CASE k < run.at
      <4>1. run.results[CT[k][1]] # {}
        BY <1>1, <3>2 DEF ProbeInv, ControlsTried, CT
      <4> QED BY <1>10, <3>1, <4>1
    <3>3. CASE ~(k < run.at)
      <4>1. k = run.at /\ run'.at = run.at + 1
        BY <1>3, <1>9, <2>2, <3>3
      <4>2. run'.results = [run.results EXCEPT ![t[1]] = @ \cup {controlResultOf(r)}]
        BY <1>3, <1>9, <4>1
      <4> QED BY <1>2, <1>5, <4>1, <4>2 DEF Run, t
    <3> QED BY <3>2, <3>3
  <2>3. run'.names = {}
    BY <1>1, <1>9 DEF ProbeInv, ControlsTried
  <2> QED BY <1>1, <1>9, <2>1, <2>2, <2>3 DEF ControlsTried, CT
<1>13. WalksServices' /\ Enumerates'
  BY <1>9 DEF WalksServices, Enumerates
<1> QED BY <1>1, <1>7, <1>11, <1>12, <1>13, SaidStands DEF ProbeInv

\* A record of a run in full.
LEMMA RunInFull ==
    run \in Run => run = [phase |-> run.phase, at |-> run.at, tries |-> run.tries, results |-> run.results,
                          names |-> run.names, enum |-> run.enum]
BY DEF Run

\* What is said grows by claims the world bears out.
LEMMA SaidGrows ==
    ASSUME UNCHANGED <<world, job>>, ProbeInv, NEW said, obs' = obs \cup said,
           \A o \in said :
              /\ o.facet # "tls-acceptance"
              /\ o.facet = "reachability" /\ o.value = "reached" =>
                    o.target \in world.open /\ o.target[1] \notin world.blanket
              /\ o.facet = "certificate" => o.target[2] \in world.open
    PROVE  ReachWitnessed' /\ (\A o \in obs : AcceptanceTrue(o))'
<1>1. ASSUME NEW o \in obs'
      PROVE  /\ o.facet = "reachability" /\ o.value = "reached" =>
                   o.target \in world.open /\ o.target[1] \notin world.blanket
             /\ o.facet = "certificate" => o.target[2] \in world.open
  <2>1. CASE o \in said
    BY <2>1
  <2>2. CASE o \in obs
    BY <2>2 DEF ProbeInv, ReachWitnessed
  <2> QED BY <2>1, <2>2
<1>2. ReachWitnessed'
  BY <1>1 DEF ReachWitnessed
<1>3. ASSUME NEW o \in obs', o.facet = "tls-acceptance"
      PROVE  /\ o.value.accepted \subseteq Accepted(o.target[1])
             /\ ~o.value.lost => o.value.accepted = Accepted(o.target[1])
             /\ o.value.outcome = "tls-refused" => Speaks(o.target[1])
  <2>1. o \in obs
    BY <1>3
  <2> QED BY <1>3, <2>1 DEF ProbeInv, AcceptanceTrue
<1>4. (\A o \in obs : AcceptanceTrue(o))'
  BY <1>3 DEF AcceptanceTrue, Accepted, InVersion, Speaks
<1> QED BY <1>2, <1>4

\* The verdicts are read once every host of the job was tried.
LEMMA VerdictsStep ==
    ASSUME ProbeInv, ControlsRead
    PROVE  ProbeInv'
<1> DEFINE CT == ControlTargets(job)
           k == NextService(1, Verdicts(run.results))
<1>1. /\ run.phase = "control" /\ run.at > Len(CT) /\ UNCHANGED <<world, job, pacer, clock, dues>>
      /\ obs' = GapsBetween(1, k) /\ run' = [run EXCEPT !.phase = "probe", !.at = k]
  BY DEF ControlsRead
<1>2. job.kind = "connect" /\ run \in Run
  BY <1>1 DEF ProbeInv, ProbeTyped, PhaseOfKind
<1>3. k \in Nat /\ k >= 1 /\ k <= Len(RoundRobin(job.targets)) + 1 /\ AtAService(k)
  <2>1. Len(RoundRobin(job.targets)) \in Nat
    BY <1>2, ConnectLists DEF ProbeInv, Lists
  <2>2. 1 \in Nat \ {0} /\ 1 <= Len(RoundRobin(job.targets)) + 1
    BY <2>1
  <2> QED BY <1>2, <2>2, NextIsAService DEF ProbeInv
<1>4. PICK n : n = k
  OBVIOUS
<1>5. /\ run' = [run EXCEPT !.phase = "probe", !.at = n] /\ n \in Nat /\ n >= 1
      /\ n <= Len(RoundRobin(job.targets)) + 1 /\ AtAService(n)
      /\ obs' = GapsBetween(1, n)
  BY <1>1, <1>3, <1>4
<1> HIDE DEF k
<1>6. run' = [phase |-> "probe", at |-> n, tries |-> run.tries, results |-> run.results,
              names |-> run.names, enum |-> run.enum]
  BY <1>2, <1>5, RunInFull
<1>7. run' \in Run
  BY <1>2, <1>5, <1>6 DEF Run
<1>8. /\ run'.phase = "probe" /\ run'.at = n /\ run'.results = run.results
      /\ run'.names = run.names /\ run.names = {}
  <2>1. run.names = {}
    BY <1>1 DEF ProbeInv, ControlsTried
  <2> QED BY <1>6, <2>1, Zenon
<1>9. ProbeTyped'
  <2>1. PhaseOfKind'
    BY <1>1, <1>2, <1>8 DEF PhaseOfKind
  <2> QED BY <1>1, <1>7, <2>1, TypesStand DEF ProbeInv, ProbeTyped
<1>10. ControlsTried'
  <2>1. ASSUME NEW h \in job.hosts PROVE run.results[h] # {}
    <3>1. PICK p : p \in ControlPorts
      BY ProberAssumption
    <3>2. PICK i \in 1..Len(CT) : CT[i] = <<h, p>>
      <4>1. <<h, p>> \in job.hosts \X ControlPorts
        BY <3>1
      <4> QED BY <1>2, <4>1, ConnectLists DEF ProbeInv, Lists
    <3>3. i < run.at /\ CT[i][1] = h
      <4>1. Len(CT) \in Nat /\ run.at \in Nat
        BY <1>2, ConnectLists DEF ProbeInv, Lists, Run
      <4> QED BY <1>1, <3>2, <4>1
    <3> QED BY <1>1, <3>3 DEF ProbeInv, ControlsTried
  <2> QED BY <1>1, <1>8, <2>1 DEF ProbeInv, ControlsTried
<1>11. WalksServices'
  BY <1>1, <1>5, <1>8 DEF WalksServices, AtAService, Verdicts
<1>12. Enumerates'
  BY <1>8 DEF Enumerates
<1>13. PaceInv'
  BY <1>1, <1>2 DEF ProbeInv, PaceInv, PacerTyped, DuesApart, DuesPast
<1>14. /\ ReachWitnessed'
       /\ (\A o \in obs : AcceptanceTrue(o))'
  <2>1. \A o \in obs' : o.facet = "reachability" /\ o.value = "gap"
    BY <1>5, GapsClaimNothing
  <2> QED BY <2>1 DEF ReachWitnessed, AcceptanceTrue
<1> QED BY <1>9, <1>10, <1>11, <1>12, <1>13, <1>14 DEF ProbeInv

\* A connect to a service.
LEMMA ServiceStep ==
    ASSUME ProbeInv, ProbeService
    PROVE  ProbeInv'
<1> DEFINE services == RoundRobin(job.targets)
           t == services[run.at]
           k == NextService(run.at + 1, Verdicts(run.results))
<1>1. run.phase = "probe" /\ run.at <= Len(services) /\ run.names = {} /\ UNCHANGED <<world, job>>
  BY DEF ProbeService
<1>2. job.kind = "connect" /\ run \in Run
  BY <1>1 DEF ProbeInv, ProbeTyped, PhaseOfKind
<1>3. run.at \in Nat \ {0} /\ run.tries \in Nat /\ Len(services) \in Nat /\ run.at \in 1..Len(services)
  <2>1. run.at \in Nat \ {0} /\ run.tries \in Nat /\ Len(services) \in Nat
    BY <1>2, ConnectLists DEF Run, ProbeInv, Lists
  <2> HIDE DEF services
  <2> QED BY <1>1, <2>1
<1>4. t = <<t[1], t[2]>> /\ t[1] \in job.hosts /\ t[1] \in Hosts
  BY <1>2, <1>3, TargetOfHost DEF ProbeInv
<1>5. t[1] \notin world.blanket
  <2>1. ~Gaps(Verdicts(run.results)[t[1]])
    BY <1>1 DEF ProbeInv, WalksServices, AtAService
  <2> HIDE DEF t
  <2> QED BY <1>1, <1>4, <2>1, RefusedOne DEF ProbeInv
<1>6. k \in Nat /\ k >= run.at + 1 /\ k <= Len(services) + 1 /\ AtAService(k)
  <2> DEFINE i == run.at + 1
  <2>1. i \in Nat \ {0} /\ i <= Len(services) + 1
    <3> HIDE DEF services
    <3> QED BY <1>1, <1>3
  <2> HIDE DEF i
  <2>2. LET m == NextService(i, Verdicts(run.results)) IN
        m \in Nat /\ m >= i /\ m <= Len(RoundRobin(job.targets)) + 1 /\ AtAService(m)
    BY <1>2, <2>1, NextIsAService DEF ProbeInv
  <2> QED BY <2>2 DEF i
<1>7. PICK r \in Connect(t[1], t[2]) :
         /\ Paced(Next(pacer, t[1], clock), t[1], r = "timed-out")
         /\ IF ~Decided(r) /\ run.tries < Retries
            THEN run' = [run EXCEPT !.tries = @ + 1] /\ UNCHANGED obs
            ELSE /\ obs' = obs \cup {Observation("reachability", t, Outcome(r))}
                               \cup (IF r = "open" THEN {} ELSE GapsBetween(run.at + 1, k))
                 /\ run' = [run EXCEPT !.tries = 0,
                              !.names = IF r = "open" THEN job.names ELSE {},
                              !.at = IF r = "open" THEN @ ELSE k]
  BY DEF ProbeService
<1>8. PaceInv'
  <2> DEFINE late == (r = "timed-out")
  <2> HIDE DEF t, late
  <2>1. Paced(Next(pacer, t[1], clock), t[1], late)
    BY <1>7 DEF late
  <2> QED BY <1>2, <1>4, <2>1, PacedStep DEF ProbeInv
<1>9. r = "open" => t \in world.open
  <2>1. r = "open" => t[1] \in world.blanket \/ <<t[1], t[2]>> \in world.open
    BY <1>7 DEF Connect
  <2> HIDE DEF t
  <2> QED BY <1>4, <1>5, <2>1
<1>10. PICK n : n = k
  OBVIOUS
<1>11. n \in Nat /\ n >= run.at + 1 /\ n <= Len(services) + 1 /\ AtAService(n)
  BY <1>6, <1>10
<1>12. job.names \subseteq Names
  BY <1>2 DEF ProbeInv, ProbeTyped, JobTyped
<1>13. AtAService(run.at)
  BY <1>1 DEF ProbeInv, WalksServices
<1>14. /\ run' \in Run /\ run'.phase = "probe" /\ run'.results = run.results
       /\ \/ run'.at = run.at /\ run'.names = {} /\ obs' = obs
          \/ /\ r = "open" /\ run'.at = run.at
             /\ obs' = obs \cup {Observation("reachability", t, Outcome(r))}
          \/ /\ r # "open" /\ run'.at = n /\ run'.names = {}
             /\ obs' = obs \cup {Observation("reachability", t, Outcome(r))} \cup GapsBetween(run.at + 1, n)
  <2> HIDE DEF t, k, services
  <2>1. CASE run' = [run EXCEPT !.tries = @ + 1] /\ UNCHANGED obs
    <3>1. run' = [phase |-> run.phase, at |-> run.at, tries |-> run.tries + 1, results |-> run.results,
                  names |-> run.names, enum |-> run.enum]
      BY <1>2, <2>1, RunInFull
    <3>2. run' \in Run
      BY <1>2, <1>3, <3>1 DEF Run
    <3>3. run'.phase = run.phase /\ run'.results = run.results /\ run'.at = run.at /\ run'.names = run.names
      BY <3>1
    <3> QED BY <1>1, <2>1, <3>2, <3>3
  <2>2. CASE /\ obs' = obs \cup {Observation("reachability", t, Outcome(r))}
                               \cup (IF r = "open" THEN {} ELSE GapsBetween(run.at + 1, k))
             /\ run' = [run EXCEPT !.tries = 0,
                          !.names = IF r = "open" THEN job.names ELSE {},
                          !.at = IF r = "open" THEN @ ELSE k]
    <3> DEFINE ns == IF r = "open" THEN job.names ELSE {}
               a == IF r = "open" THEN run.at ELSE n
    <3>0. run' = [run EXCEPT !.tries = 0, !.names = ns, !.at = a]
      BY <1>10, <2>2
    <3>1. ns \in SUBSET Names /\ a \in Nat \ {0}
      BY <1>3, <1>11, <1>12
    <3>2. (r = "open" => a = run.at) /\ (r # "open" => a = n /\ ns = {})
      OBVIOUS
    <3> HIDE DEF ns, a
    <3>3. run' = [phase |-> run.phase, at |-> a, tries |-> 0, results |-> run.results,
                  names |-> ns, enum |-> run.enum]
      BY <1>2, <3>0, RunInFull
    <3>4. run' \in Run
      BY <1>2, <3>1, <3>3 DEF Run
    <3>5. run'.phase = run.phase /\ run'.results = run.results /\ run'.at = a /\ run'.names = ns
      BY <3>3
    <3>6. /\ r = "open" => obs' = obs \cup {Observation("reachability", t, Outcome(r))}
          /\ r # "open" =>
               obs' = obs \cup {Observation("reachability", t, Outcome(r))} \cup GapsBetween(run.at + 1, n)
      BY <1>10, <2>2
    <3> QED BY <1>1, <3>2, <3>4, <3>5, <3>6
  <2> QED BY <1>7, <2>1, <2>2
<1> HIDE DEF t, k
<1>15. ProbeTyped'
  <2>1. PhaseOfKind'
    BY <1>1, <1>2, <1>14 DEF PhaseOfKind
  <2> QED BY <1>1, <1>14, <2>1, TypesStand DEF ProbeInv, ProbeTyped
<1>16. ControlsTried'
  BY <1>1, <1>14 DEF ProbeInv, ControlsTried
<1>17. WalksServices'
  <2>1. run'.at <= Len(services) + 1 /\ AtAService(run'.at)
    BY <1>3, <1>11, <1>13, <1>14
  <2>2. run'.names # {} => run'.at <= Len(services) /\ services[run'.at] \in world.open
    BY <1>1, <1>9, <1>14 DEF t
  <2> QED BY <1>1, <1>14, <2>1, <2>2 DEF WalksServices, AtAService, Verdicts
<1>18. Enumerates'
  BY <1>14 DEF Enumerates
<1>19. ReachWitnessed' /\ (\A o \in obs : AcceptanceTrue(o))'
  <2> DEFINE claim == Observation("reachability", t, Outcome(r))
  <2>1. PICK said \in {{}, {claim}, {claim} \cup GapsBetween(run.at + 1, n)} : obs' = obs \cup said
    <3> HIDE DEF claim
    <3>1. \/ obs' = obs \cup {} \/ obs' = obs \cup {claim}
          \/ obs' = obs \cup ({claim} \cup GapsBetween(run.at + 1, n))
      BY <1>14 DEF claim
    <3> QED BY <3>1
  <2>2. claim.facet = "reachability" /\ claim.target = t /\ (claim.value = "reached" => r = "open")
    BY DEF Observation, Outcome
  <2> HIDE DEF claim
  <2>3. \A o \in said : o = claim \/ (o.facet = "reachability" /\ o.value = "gap")
    BY <2>1, GapsClaimNothing
  <2>4. \A o \in said : /\ o.facet = "reachability"
                        /\ o.value = "reached" => o.target \in world.open /\ o.target[1] \notin world.blanket
    BY <1>5, <1>9, <2>2, <2>3
  <2>5. \A o \in said :
          /\ o.facet # "tls-acceptance"
          /\ o.facet = "reachability" /\ o.value = "reached" =>
                o.target \in world.open /\ o.target[1] \notin world.blanket
          /\ o.facet = "certificate" => o.target[2] \in world.open
    BY <2>4
  <2>6. obs' = obs \cup said
    BY <2>1
  <2> QED BY <1>1, <2>5, <2>6, SaidGrows
<1> QED BY <1>8, <1>15, <1>16, <1>17, <1>18, <1>19 DEF ProbeInv

\* A handshake with a reached service.
LEMMA CertificateStep ==
    ASSUME ProbeInv, ProbeCertificate
    PROVE  ProbeInv'
<1> DEFINE services == RoundRobin(job.targets)
           t == services[run.at]
           k == NextService(run.at + 1, Verdicts(run.results))
<1>1. run.phase = "probe" /\ run.names # {} /\ UNCHANGED <<world, job>>
  BY DEF ProbeCertificate
<1>2. job.kind = "connect" /\ run \in Run
  BY <1>1 DEF ProbeInv, ProbeTyped, PhaseOfKind
<1>3. run.at <= Len(services) /\ t \in world.open /\ AtAService(run.at)
  BY <1>1 DEF ProbeInv, WalksServices
<1>4. run.at \in Nat \ {0} /\ Len(services) \in Nat /\ run.at \in 1..Len(services)
  <2>1. run.at \in Nat \ {0} /\ Len(services) \in Nat
    BY <1>2, ConnectLists DEF Run, ProbeInv, Lists
  <2> HIDE DEF services
  <2> QED BY <1>3, <2>1
<1>5. t[1] \in Hosts
  BY <1>2, <1>4, TargetOfHost DEF ProbeInv
<1>6. k \in Nat /\ k >= run.at + 1 /\ k <= Len(services) + 1 /\ AtAService(k)
  <2> DEFINE i == run.at + 1
  <2>1. i \in Nat \ {0} /\ i <= Len(services) + 1
    <3> HIDE DEF services
    <3> QED BY <1>3, <1>4
  <2> HIDE DEF i
  <2>2. LET m == NextService(i, Verdicts(run.results)) IN
        m \in Nat /\ m >= i /\ m <= Len(RoundRobin(job.targets)) + 1 /\ AtAService(m)
    BY <1>2, <2>1, NextIsAService DEF ProbeInv
  <2> QED BY <2>2 DEF i
<1>7. PICK n \in run.names, r \in Handshake(t[1]), timedOut \in BOOLEAN :
         /\ Paced(Next(pacer, t[1], clock), t[1], timedOut)
         /\ obs' = obs \cup {Observation("certificate", <<n, t>>, r.outcome)}
                       \cup (IF run.names = {n} THEN GapsBetween(run.at + 1, k) ELSE {})
         /\ run' = [run EXCEPT !.names = @ \ {n}, !.at = IF run.names = {n} THEN k ELSE @]
  BY DEF ProbeCertificate
<1>8. PaceInv'
  <2> HIDE DEF t
  <2> QED BY <1>2, <1>5, <1>7, PacedStep DEF ProbeInv
<1>9. PICK m : m = k
  OBVIOUS
<1>10. m \in Nat /\ m >= run.at + 1 /\ m <= Len(services) + 1 /\ AtAService(m)
  BY <1>6, <1>9
<1>11. /\ run' \in Run /\ run'.phase = "probe" /\ run'.results = run.results
       /\ \/ run'.at = run.at
          \/ run'.at = m /\ run'.names = {}
  <2> HIDE DEF t, k, services
  <2> DEFINE ns == run.names \ {n}
             a == IF run.names = {n} THEN m ELSE run.at
  <2>1. run' = [run EXCEPT !.names = ns, !.at = a]
    BY <1>7, <1>9
  <2>2. ns \in SUBSET Names /\ a \in Nat \ {0}
    BY <1>2, <1>4, <1>10 DEF Run
  <2>3. a = run.at \/ (a = m /\ ns = {})
    OBVIOUS
  <2> HIDE DEF ns, a
  <2>4. run' = [phase |-> run.phase, at |-> a, tries |-> run.tries, results |-> run.results,
                names |-> ns, enum |-> run.enum]
    BY <1>2, <2>1, RunInFull
  <2>5. run' \in Run
    BY <1>2, <2>2, <2>4 DEF Run
  <2>6. run'.phase = run.phase /\ run'.results = run.results /\ run'.at = a /\ run'.names = ns
    BY <2>4
  <2> QED BY <1>1, <2>3, <2>5, <2>6
<1>12. ProbeTyped'
  <2>1. PhaseOfKind'
    BY <1>1, <1>2, <1>11 DEF PhaseOfKind
  <2> QED BY <1>1, <1>11, <2>1, TypesStand DEF ProbeInv, ProbeTyped
<1>13. ControlsTried'
  BY <1>1, <1>11 DEF ProbeInv, ControlsTried
<1>14. WalksServices'
  <2>1. run'.at <= Len(services) + 1 /\ AtAService(run'.at)
    <3> HIDE DEF services
    <3> QED BY <1>3, <1>4, <1>10, <1>11
  <2>2. run'.names # {} => run'.at <= Len(services) /\ services[run'.at] \in world.open
    BY <1>3, <1>11
  <2> QED BY <1>1, <1>11, <2>1, <2>2 DEF WalksServices, AtAService, Verdicts
<1>15. Enumerates'
  BY <1>11 DEF Enumerates
<1>16. ReachWitnessed' /\ (\A o \in obs : AcceptanceTrue(o))'
  <2> HIDE DEF t, k
  <2> DEFINE claim == Observation("certificate", <<n, t>>, r.outcome)
             gaps == IF run.names = {n} THEN GapsBetween(run.at + 1, k) ELSE {}
             said == {claim} \cup gaps
  <2>1. claim.facet = "certificate" /\ claim.target[2] = t
    BY DEF Observation
  <2>2. \A o \in gaps : o.facet = "reachability" /\ o.value = "gap"
    BY GapsClaimNothing
  <2>3. obs' = obs \cup said
    BY <1>7
  <2> HIDE DEF claim, gaps
  <2>4. PICK added : added = said
    OBVIOUS
  <2>5. \A o \in added : o = claim \/ (o.facet = "reachability" /\ o.value = "gap")
    BY <2>2, <2>4
  <2>6. t \in world.open
    BY <1>3 DEF t
  <2>7. \A o \in added :
          /\ o.facet # "tls-acceptance"
          /\ o.facet = "reachability" /\ o.value = "reached" =>
                o.target \in world.open /\ o.target[1] \notin world.blanket
          /\ o.facet = "certificate" => o.target[2] \in world.open
    BY <2>1, <2>5, <2>6
  <2>8. obs' = obs \cup added
    BY <2>3, <2>4
  <2> QED BY <1>1, <2>7, <2>8, SaidGrows
<1> QED BY <1>8, <1>12, <1>13, <1>14, <1>15, <1>16 DEF ProbeInv

\* The step of a job that has no pace in common, walking its targets in order.
LEMMA TargetStep ==
    ASSUME ProbeInv, run.phase \in {"http", "edge"}, UNCHANGED <<world, job>>, NextTarget,
           NEW o, o.facet \in {"http-identity", "edge"}, obs' = obs \cup {o}
    PROVE  ProbeInv'
<1>1. job.kind # "connect" /\ run \in Run
  BY DEF ProbeInv, ProbeTyped, PhaseOfKind
<1>2. run' = [run EXCEPT !.at = @ + 1, !.enum = FreshEnum]
  BY DEF NextTarget
<1>3. run' = [phase |-> run.phase, at |-> run.at + 1, tries |-> run.tries, results |-> run.results,
              names |-> run.names, enum |-> FreshEnum]
  BY <1>1, <1>2, RunInFull
<1>4. FreshEnum \in Enumeration
  BY DEF FreshEnum, Enumeration
<1>5. run' \in Run
  BY <1>1, <1>3, <1>4 DEF Run
<1>6. run'.phase = run.phase /\ run'.results = run.results
  BY <1>3
<1>7. ProbeTyped'
  <2>1. PhaseOfKind'
    BY <1>6 DEF PhaseOfKind, ProbeInv, ProbeTyped
  <2> QED BY <1>5, <2>1, TypesStand DEF ProbeInv, ProbeTyped
<1>8. ControlsTried'
  BY <1>6 DEF ProbeInv, ControlsTried
<1>9. WalksServices' /\ Enumerates' /\ job'.kind # "connect"
  BY <1>1, <1>6 DEF WalksServices, Enumerates
<1>10. ReachWitnessed' /\ (\A p \in obs : AcceptanceTrue(p))'
  <2>1. PICK said : said = {o}
    OBVIOUS
  <2>2. obs' = obs \cup said
    BY <2>1
  <2>3. \A p \in said :
          /\ p.facet # "tls-acceptance"
          /\ p.facet = "reachability" /\ p.value = "reached" =>
                p.target \in world.open /\ p.target[1] \notin world.blanket
          /\ p.facet = "certificate" => p.target[2] \in world.open
    BY <2>1
  <2> QED BY <2>2, <2>3, SaidGrows
<1> QED BY <1>7, <1>8, <1>9, <1>10 DEF ProbeInv

\* A request, and a handshake with an edge.
LEMMA PlainStep ==
    ASSUME ProbeInv, ExchangeHTTP \/ HandshakeEdge
    PROVE  ProbeInv'
<1>1. CASE ExchangeHTTP
  <2>1. /\ run.phase = "http" /\ UNCHANGED <<world, job>> /\ NextTarget
        /\ \E failed : obs' = obs \cup {Observation("http-identity", Target(run.at), Identity(failed))}
    BY <1>1 DEF ExchangeHTTP
  <2>2. PICK o : o.facet = "http-identity" /\ obs' = obs \cup {o}
    BY <2>1 DEF Observation
  <2> QED BY <2>1, <2>2, TargetStep
<1>2. CASE HandshakeEdge
  <2>1. /\ run.phase = "edge" /\ UNCHANGED <<world, job>> /\ NextTarget
        /\ \E r : obs' = obs \cup {Observation("edge", Target(run.at), EdgeFold(r))}
    BY <1>2 DEF HandshakeEdge
  <2>2. PICK o : o.facet = "edge" /\ obs' = obs \cup {o}
    BY <2>1 DEF Observation
  <2> QED BY <2>1, <2>2, TargetStep
<1> QED BY <1>1, <1>2

\* A round of an enumeration.
LEMMA RoundStep ==
    ASSUME ProbeInv, EnumerateTLS
    PROVE  ProbeInv'
<1> DEFINE t == Target(run.at)
           e == run.enum
           T == Cardinality(job.targets)
<1>1. run.phase = "tls" /\ run.at <= T /\ UNCHANGED <<world, job>>
  BY DEF EnumerateTLS
<1>2. job.kind = "tls" /\ job.kind # "connect" /\ run \in Run /\ WorldTyped
  BY <1>1 DEF ProbeInv, ProbeTyped, PhaseOfKind
<1>3. Lists(RoundRobin(job.targets), job.targets, T)
  BY <1>2, OpenLists DEF ProbeInv
<1>4. ASSUME NEW i \in Nat \ {0}, i <= T PROVE Target(i)[1] \in Hosts
  <2>1. i \in 1..T
    BY <1>3, <1>4 DEF Lists
  <2>2. Target(i) \in job.targets
    BY <1>3, <2>1 DEF Lists, Target
  <2> QED BY <1>2, <2>2 DEF ProbeInv, ProbeTyped, JobTyped, WorldTyped
<1>5. run.at \in Nat \ {0} /\ T \in Nat /\ t[1] \in Hosts
  <2>1. run.at \in Nat \ {0} /\ T \in Nat
    BY <1>2, <1>3 DEF Run, Lists
  <2> QED BY <1>1, <1>4, <2>1
<1>6. EnumHonest(e, t[1]) /\ e.ver <= Len(Versions)
  BY <1>1 DEF ProbeInv, Enumerates
<1>7. PICK a \in Attempts(t[1], Versions[e.ver], e.remaining) :
         LET next == Continued(t[1], e, a) IN
         IF next.ver > Len(Versions)
         THEN obs' = obs \cup {Ended(t, next)} /\ NextTarget
         ELSE run' = [run EXCEPT !.enum = next] /\ UNCHANGED obs
  BY DEF EnumerateTLS, Continued, Narrowed, Heeded, Ended
<1> DEFINE made == Continued(t[1], e, a)
<1>8. EnumHonest(made, t[1])
  BY <1>2, <1>5, <1>6, <1>7, RoundIsHonest
<1>9. PICK next : next = made
  OBVIOUS
<1>10. /\ EnumHonest(next, t[1])
       /\ \/ next.ver > Len(Versions) /\ obs' = obs \cup {Ended(t, next)} /\ NextTarget
          \/ next.ver <= Len(Versions) /\ run' = [run EXCEPT !.enum = next] /\ UNCHANGED obs
  <2>1. EnumHonest(next, t[1])
    BY <1>8, <1>9
  <2>2. next.ver \in Nat /\ Len(Versions) \in Nat
    BY <2>1, ProberAssumption, LenProperties DEF EnumHonest, Enumeration
  <2>3. IF next.ver > Len(Versions)
        THEN obs' = obs \cup {Ended(t, next)} /\ NextTarget
        ELSE run' = [run EXCEPT !.enum = next] /\ UNCHANGED obs
    BY <1>7, <1>9
  <2> HIDE DEF t
  <2> QED BY <2>1, <2>2, <2>3
<1> HIDE DEF made
<1>11. next \in Enumeration /\ FreshEnum \in Enumeration
  BY <1>10 DEF EnumHonest, FreshEnum, Enumeration
<1>12. /\ run' \in Run /\ run'.phase = "tls" /\ run'.results = run.results
       /\ \/ next.ver > Len(Versions) /\ run'.at = run.at + 1 /\ run'.enum = FreshEnum
          \/ next.ver <= Len(Versions) /\ run'.at = run.at /\ run'.enum = next
  <2>1. CASE next.ver > Len(Versions) /\ NextTarget
    <3>1. run' = [phase |-> run.phase, at |-> run.at + 1, tries |-> run.tries, results |-> run.results,
                  names |-> run.names, enum |-> FreshEnum]
      BY <1>2, <2>1, RunInFull DEF NextTarget
    <3>2. run' \in Run
      BY <1>2, <1>5, <1>11, <3>1 DEF Run
    <3>3. run'.phase = run.phase /\ run'.results = run.results /\ run'.at = run.at + 1 /\ run'.enum = FreshEnum
      BY <3>1
    <3> QED BY <1>1, <2>1, <3>2, <3>3
  <2>2. CASE next.ver <= Len(Versions) /\ run' = [run EXCEPT !.enum = next]
    <3>1. run' = [phase |-> run.phase, at |-> run.at, tries |-> run.tries, results |-> run.results,
                  names |-> run.names, enum |-> next]
      BY <1>2, <2>2, RunInFull
    <3>2. run' \in Run
      BY <1>2, <1>5, <1>11, <3>1 DEF Run
    <3>3. run'.phase = run.phase /\ run'.results = run.results /\ run'.at = run.at /\ run'.enum = next
      BY <3>1
    <3> QED BY <1>1, <2>2, <3>2, <3>3
  <2> QED BY <1>10, <2>1, <2>2
<1>13. ProbeTyped'
  <2>1. PhaseOfKind'
    BY <1>1, <1>2, <1>12 DEF PhaseOfKind
  <2> QED BY <1>1, <1>12, <2>1, TypesStand DEF ProbeInv, ProbeTyped
<1>14. ControlsTried'
  BY <1>1, <1>12 DEF ProbeInv, ControlsTried
<1>15. WalksServices' /\ job'.kind # "connect"
  BY <1>1, <1>2, <1>12 DEF WalksServices
<1>16. Enumerates'
  <2> SUFFICES ASSUME run'.at <= T
               PROVE  (EnumHonest(run.enum, Target(run.at)[1]) /\ run.enum.ver <= Len(Versions))'
    BY <1>1 DEF Enumerates
  <2>1. PICK q, h : q = run'.enum /\ h = RoundRobin(job.targets)[run'.at][1]
    OBVIOUS
  <2>2. EnumHonest(q, h) /\ q.ver <= Len(Versions)
    <3>1. CASE next.ver > Len(Versions) /\ run'.at = run.at + 1 /\ run'.enum = FreshEnum
      <4>1. Target(run.at + 1)[1] \in Hosts
        BY <1>4, <1>5, <3>1
      <4> QED BY <1>2, <2>1, <3>1, <4>1, FreshIsHonest DEF Target
    <3>2. CASE next.ver <= Len(Versions) /\ run'.at = run.at /\ run'.enum = next
      BY <1>10, <2>1, <3>2 DEF Target
    <3> QED BY <1>12, <3>1, <3>2
  <2>3. EnumHonest(q, h)'
    BY <1>1, <2>2 DEF EnumHonest, Accepted, InVersion, Whole, Enumeration, Offered
  <2>4. q = run'.enum /\ h = RoundRobin(job'.targets)[run'.at][1]
    BY <1>1, <2>1
  <2> QED BY <2>2, <2>3, <2>4 DEF Target, EnumHonest, Accepted, InVersion, Whole, Enumeration, Offered
<1>17. ReachWitnessed' /\ (\A o \in obs : AcceptanceTrue(o))'
  <2>1. CASE next.ver > Len(Versions) /\ obs' = obs \cup {Ended(t, next)}
    <3>1. AcceptanceTrue(Ended(t, next)) /\ Ended(t, next).facet = "tls-acceptance"
      BY <1>2, <1>5, <1>10, <2>1, EndedIsTrue DEF Ended, Observation
    <3>2. PICK o : o = Ended(t, next)
      OBVIOUS
    <3>3. AcceptanceTrue(o) /\ o.facet = "tls-acceptance" /\ obs' = obs \cup {o}
      BY <2>1, <3>1, <3>2
    <3>4. ReachWitnessed'
      BY <1>1, <3>3 DEF ProbeInv, ReachWitnessed
    <3>5. \A p \in obs' : AcceptanceTrue(p)
      BY <3>3 DEF ProbeInv
    <3>6. (\A p \in obs : AcceptanceTrue(p))'
      BY <1>1, <3>5 DEF AcceptanceTrue, Accepted, InVersion, Speaks
    <3> QED BY <3>4, <3>6
  <2>2. CASE UNCHANGED obs
    BY <1>1, <2>2, SaidStands DEF ProbeInv
  <2> QED BY <1>10, <2>1, <2>2
<1> QED BY <1>13, <1>14, <1>15, <1>16, <1>17 DEF ProbeInv

\* Nothing happens, and nothing changes.
LEMMA ProbeRests == ProbeInv /\ UNCHANGED probeVars => ProbeInv'
<1> SUFFICES ASSUME ProbeInv, UNCHANGED probeVars PROVE ProbeInv'
  OBVIOUS
<1>1. UNCHANGED <<world, job, run, pacer, clock, dues, obs>>
  BY DEF probeVars
<1>2. ProbeTyped'
  BY <1>1 DEF ProbeInv, ProbeTyped, WorldTyped, JobTyped, PhaseOfKind, Run, Enumeration
<1>3. ControlsTried' /\ WalksServices'
  BY <1>1 DEF ProbeInv, ControlsTried, WalksServices, AtAService, Verdicts
<1>4. Enumerates'
  BY <1>1 DEF ProbeInv, Enumerates, Target, EnumHonest, Accepted, InVersion, Whole, Enumeration, Offered
<1>5. (job.kind = "connect" => PaceInv)'
  BY <1>1 DEF ProbeInv, PaceInv, PacerTyped, DuesApart, DuesPast
<1> QED BY <1>1, <1>2, <1>3, <1>4, <1>5, SaidStands DEF ProbeInv

\* What the invariant says is what is promised.
LEMMA ProbeInvIsHonest == WholeIntervals /\ ProbeInv => ProbesHonest
<1> SUFFICES ASSUME WholeIntervals, ProbeInv PROVE ProbesHonest
  OBVIOUS
<1>1. RateKept
  <2>1. CASE job.kind = "connect"
    BY <2>1, PaceKeepsRate DEF ProbeInv
  <2>2. CASE job.kind # "connect"
    BY <2>2 DEF RateKept
  <2> QED BY <2>1, <2>2
<1>2. AcceptanceHonest
  BY DEF ProbeInv, AcceptanceHonest, AcceptanceTrue, Accepted, InVersion
<1> QED BY <1>1, <1>2 DEF ProbeInv, ProbesHonest

\* A probe reports reached and reads a certificate only where a port is open on a
\* host that refuses some other, lists of a listener what it accepts and all of it
\* unless a handshake was lost, and starts no more connects in a second than it may.
THEOREM ProbesAreHonest == WholeIntervals => (ProbeSpec => []ProbesHonest)
<1>1. ASSUME ProbeInv, [ProbeNext]_probeVars PROVE ProbeInv'
  BY <1>1, ControlStep, VerdictsStep, ServiceStep, CertificateStep, PlainStep, RoundStep, ProbeRests
     DEF ProbeNext
<1>2. ProbeInv /\ [ProbeNext]_probeVars => ProbeInv'
  BY <1>1
<1>3. ProbeSpec => []ProbeInv
  BY ProbeStart, <1>2, PTL DEF ProbeSpec
<1>4. ASSUME WholeIntervals PROVE ProbeSpec => []ProbesHonest
  <2>1. ProbeInv => ProbesHonest
    BY <1>4, ProbeInvIsHonest
  <2> QED BY <1>3, <2>1, PTL
<1> QED BY <1>4
===============================================================================
