---------------------------- MODULE OutboundProofs ----------------------------
(*****************************************************************************)
(* Proofs about what goes out to the operator: the delivery of a message to  *)
(* its Channel, the receipts of on-cadence reports, and the messages of the  *)
(* ground that enters, for any number of messages, Channels, schedules,      *)
(* workers, names and addresses.                                             *)
(*****************************************************************************)
EXTENDS Delivery, Reports, Arrivals, Integers, WellFoundedInduction, TLAPS

\* The steps that leave the rows, the runners and the receivers alone.
Quiet == UNCHANGED <<rowVars, runnerVars, worldVars>>

\* A step is quiet, commits a message, or is one runner's: the case split the
\* step lemmas share.
LEMMA QuietSteps ==
    ASSUME [Next]_vars
    PROVE  \/ Quiet
           \/ \E m \in Message : CommitMessage(m)
           \/ \E r \in Runner :
                \/ Post(r) \/ OpenSecretFault(r) \/ Mark(r) \/ Crash(r)
                \/ \E p \in Pair : Claim(r, p)
<1>1. ASSUME NEW c \in Channel, Configuring(c) PROVE Quiet
  BY <1>1 DEF Configuring, CreateChannel, UpdateChannel, DeleteChannel, Quiet
<1>2. CASE ReplaceKey
  BY <1>2 DEF ReplaceKey, Quiet
<1>3. ASSUME NEW m \in Message, ListChannels(m) \/ RollBackMessage(m) PROVE Quiet
  BY <1>3 DEF ListChannels, RollBackMessage, Quiet
<1>4. CASE UNCHANGED vars
  BY <1>4 DEF vars, Quiet
<1> QED BY <1>1, <1>2, <1>3, <1>4 DEF Next, Writing, Sending

-----------------------------------------------------------------------------
\* The inductive invariant.
IInv == TypeOK /\ Accounted /\ OneSender /\ HonestRecord /\ RoutedWhole

\* The invariant holds before anything is queued.
LEMMA InitInv == Init => IInv
<1> SUFFICES ASSUME Init PROVE IInv OBVIOUS
<1>1. TypeOK BY DeliveryAssumption DEF Init, TypeOK, RowStates
<1>2. Accounted /\ OneSender /\ HonestRecord /\ RoutedWhole
  BY DEF Init, Accounted, OneSender, HonestRecord, RoutedWhole, Pair
<1> QED BY <1>1, <1>2 DEF IInv

\* Every step keeps the types.
LEMMA NextType == ASSUME IInv, [Next]_vars PROVE TypeOK'
<1> USE DeliveryAssumption DEF IInv
<1>1. ASSUME NEW c \in Channel, Configuring(c) PROVE TypeOK'
  BY <1>1 DEF TypeOK, Configuring, CreateChannel, UpdateChannel, DeleteChannel, Deletable,
              Edit, writerVars, rowVars, runnerVars, worldVars
<1>2. CASE ReplaceKey
  BY <1>2 DEF TypeOK, ReplaceKey, Edit, writerVars, rowVars, runnerVars, worldVars
<1>3. ASSUME NEW m \in Message, ListChannels(m) \/ RollBackMessage(m) PROVE TypeOK'
  BY <1>3 DEF TypeOK, ListChannels, RollBackMessage,
              channelVars, rowVars, runnerVars, worldVars
<1>4. ASSUME NEW m \in Message, CommitMessage(m) PROVE TypeOK'
  BY <1>4 DEF TypeOK, CommitMessage, RowStates, channelVars, runnerVars, worldVars
<1>5. ASSUME NEW r \in Runner, NEW p \in Pair, Claim(r, p) PROVE TypeOK'
  BY <1>5 DEF TypeOK, Claim, RowStates, channelVars, writerVars, worldVars
<1>6. ASSUME NEW r \in Runner, Post(r) PROVE TypeOK'
  <2>1. holds[r] \in Pair BY <1>6 DEF TypeOK, Post, Unsent
  <2> QED
    BY <1>6, <2>1 DEF TypeOK, Post, channelVars, writerVars, rowVars
<1>7. ASSUME NEW r \in Runner, OpenSecretFault(r) PROVE TypeOK'
  BY <1>7 DEF TypeOK, OpenSecretFault, Unsent, FaultState, LetGo,
              channelVars, writerVars, worldVars
<1>8. ASSUME NEW r \in Runner, Mark(r) PROVE TypeOK'
  <2> DEFINE verdict == Decide(answer[r] = "2xx", heldAttempt[r])
  <2>1. holds[r] \in Pair BY <1>8 DEF TypeOK, Mark, Accounted
  <2>2. verdict \in RowStates BY DEF Decide, RowStates
  <2>3. verdict = "pending" => heldAttempt[r] + 1 \in 0..MaxAttempts
    BY DEF Decide, TypeOK
  <2>4. state' \in [Pair -> RowStates]
    BY <1>8, <2>2 DEF Mark, TypeOK
  <2>5. attempt' \in [Pair -> 0..MaxAttempts]
    BY <1>8, <2>1, <2>3 DEF Mark, TypeOK
  <2> QED
    BY <1>8, <2>4, <2>5 DEF TypeOK, Mark, LetGo, channelVars, writerVars, worldVars
<1>9. ASSUME NEW r \in Runner, Crash(r) PROVE TypeOK'
  BY <1>9 DEF TypeOK, Crash, Edit, LetGo, channelVars, writerVars, rowVars, worldVars
<1>10. CASE UNCHANGED vars
  BY <1>10 DEF TypeOK, vars, channelVars, writerVars, rowVars, runnerVars, worldVars
<1> QED
  BY <1>1, <1>2, <1>3, <1>4, <1>5, <1>6, <1>7, <1>8, <1>9, <1>10
  DEF Next, Writing, Sending

\* The books, the claims and the records, one case per action that touches a row.
LEMMA NextAccounted ==
    ASSUME IInv, [Next]_vars PROVE Accounted' /\ OneSender' /\ HonestRecord'
<1> USE DeliveryAssumption DEF IInv
<1>1. CASE Quiet
  BY <1>1 DEF Quiet, rowVars, runnerVars, worldVars, Accounted, OneSender, HonestRecord
<1>2. ASSUME NEW m \in Message, CommitMessage(m)
      PROVE  Accounted' /\ OneSender' /\ HonestRecord'
  <2>1. \A p \in Pair :
          \/ state'[p] = state[p] /\ attempt'[p] = attempt[p]
          \/ state[p] = "none" /\ state'[p] = "pending" /\ attempt'[p] = 1
    BY <1>2 DEF CommitMessage, Insertable, RoutedWhole, TypeOK
  <2>2. UNCHANGED <<holds, heldAttempt, answer, tries, got>>
    BY <1>2 DEF CommitMessage, runnerVars, worldVars
  <2>3. Accounted'
    <3>1. ASSUME NEW p \in Pair
          PROVE  /\ state'[p] = "none" => tries'[p] = 0
                 /\ state'[p] # "none" => attempt'[p] > 0 /\ tries'[p] <= attempt'[p]
                 /\ state'[p] = "pending" => tries'[p] + 1 = attempt'[p]
      BY <2>1, <2>2 DEF Accounted, TypeOK
    <3>2. ASSUME NEW r \in Runner, holds[r] # NoPair
          PROVE  /\ state'[holds[r]] = state[holds[r]]
                 /\ attempt'[holds[r]] = attempt[holds[r]]
      BY <2>1, <3>2 DEF Accounted, TypeOK
    <3> QED BY <3>1, <3>2, <2>2 DEF Accounted
  <2>4. OneSender' BY <2>2 DEF OneSender
  <2>5. HonestRecord' BY <2>1, <2>2 DEF HonestRecord
  <2> QED BY <2>3, <2>4, <2>5
<1>3. ASSUME NEW r \in Runner, NEW p \in Pair, Claim(r, p)
      PROVE  Accounted' /\ OneSender' /\ HonestRecord'
  <2> USE <1>3 DEF Claim, Claimable, worldVars
  <2>1. \A s \in Runner : holds[s] # p
    BY DEF Accounted, TypeOK
  <2>2. Accounted'
    BY <2>1 DEF Accounted, TypeOK
  <2>3. OneSender' BY <2>1 DEF OneSender, TypeOK
  <2>4. HonestRecord' BY DEF HonestRecord, TypeOK
  <2> QED BY <2>2, <2>3, <2>4
<1>4. ASSUME NEW r \in Runner, Post(r)
      PROVE  Accounted' /\ OneSender' /\ HonestRecord'
  <2> DEFINE p == holds[r]
  <2>1. p \in Pair /\ state[p] = "sending" /\ answer[r] = "none"
    BY <1>4 DEF Post, Unsent, Accounted, TypeOK
  <2>2. \A s \in Runner : s # r => holds[s] # p
    BY <2>1, <1>4 DEF OneSender, Post, Unsent
  <2>3. /\ UNCHANGED <<state, attempt, holds, heldAttempt>>
        /\ tries' = [tries EXCEPT ![p] = @ + 1]
    BY <1>4 DEF Post, rowVars
  <2>4. PICK reached \in BOOLEAN, code \in {"2xx", "failed"} :
          /\ code = "2xx" => reached
          /\ answer' = [answer EXCEPT ![r] = code]
          /\ got' = [got EXCEPT ![p] = IF reached THEN @ + 1 ELSE @]
    BY <1>4 DEF Post
  <2>5. answer'[r] = code /\ (code = "2xx" => got'[p] > 0) /\ tries'[p] = tries[p] + 1
    BY <2>1, <2>3, <2>4 DEF TypeOK
  <2>6. \A s \in Runner : s # r => answer'[s] = answer[s]
    BY <2>4 DEF TypeOK
  <2>7. \A q \in Pair : q # p => tries'[q] = tries[q] /\ got'[q] = got[q]
    BY <2>3, <2>4 DEF TypeOK
  <2>8. Accounted'
    <3>1. \A q \in Pair :
            /\ state'[q] = "none" => tries'[q] = 0
            /\ state'[q] # "none" => attempt'[q] > 0 /\ tries'[q] <= attempt'[q]
            /\ state'[q] = "pending" => tries'[q] + 1 = attempt'[q]
      <4> TAKE q \in Pair
      <4>1. CASE q = p
        BY <4>1, <2>1, <2>3, <2>5 DEF Accounted, TypeOK
      <4>2. CASE q # p
        BY <4>2, <2>3, <2>7 DEF Accounted
      <4> QED BY <4>1, <4>2
    <3>2. \A s \in Runner :
            /\ holds'[s] = NoPair => answer'[s] = "none"
            /\ holds'[s] # NoPair =>
                /\ state'[holds'[s]] = "sending"
                /\ heldAttempt'[s] = attempt'[holds'[s]]
                /\ answer'[s] = "none" => tries'[holds'[s]] + 1 = attempt'[holds'[s]]
                /\ answer'[s] # "none" => tries'[holds'[s]] = attempt'[holds'[s]]
                /\ answer'[s] = "2xx" => got'[holds'[s]] > 0
      <4> TAKE s \in Runner
      <4>1. CASE s = r
        BY <4>1, <1>4, <2>1, <2>3, <2>5 DEF Accounted, Post, Unsent
      <4>2. CASE s # r /\ holds[s] # NoPair
        <5>1. holds[s] \in Pair /\ holds[s] # p BY <4>2, <2>2 DEF TypeOK
        <5> QED BY <4>2, <5>1, <2>3, <2>6, <2>7 DEF Accounted
      <4>3. CASE s # r /\ holds[s] = NoPair
        BY <4>3, <2>3, <2>6 DEF Accounted
      <4> QED BY <4>1, <4>2, <4>3
    <3> QED BY <3>1, <3>2 DEF Accounted
  <2>9. OneSender' BY <2>3 DEF OneSender
  <2>10. HonestRecord'
    <3> SUFFICES ASSUME NEW q \in Pair
                 PROVE  /\ state'[q] = "delivered" => got'[q] > 0
                        /\ state'[q] = "undelivered" => tries'[q] = MaxAttempts
      BY DEF HonestRecord
    <3>1. CASE q = p BY <3>1, <2>1, <2>3
    <3>2. CASE q # p BY <3>2, <2>3, <2>7 DEF HonestRecord
    <3> QED BY <3>1, <3>2
  <2> QED BY <2>8, <2>9, <2>10
<1>5. ASSUME NEW r \in Runner, OpenSecretFault(r) \/ Crash(r)
      PROVE  Accounted' /\ OneSender' /\ HonestRecord'
  <2>1. LetGo(r) /\ UNCHANGED <<attempt, tries, got>>
    BY <1>5 DEF OpenSecretFault, Crash, rowVars, worldVars
  <2>2. state' = state
    BY <1>5 DEF OpenSecretFault, FaultState, Crash, rowVars, TypeOK
  <2>3. Accounted'
    BY <2>1, <2>2 DEF LetGo, Accounted, TypeOK
  <2>4. OneSender' BY <2>1 DEF LetGo, OneSender, TypeOK
  <2>5. HonestRecord' BY <2>1, <2>2 DEF HonestRecord
  <2> QED BY <2>3, <2>4, <2>5
<1>6. ASSUME NEW r \in Runner, Mark(r)
      PROVE  Accounted' /\ OneSender' /\ HonestRecord'
  <2> DEFINE p == holds[r]
             verdict == Decide(answer[r] = "2xx", heldAttempt[r])
  <2>1. /\ p \in Pair /\ p # NoPair
        /\ state[p] = "sending"
        /\ heldAttempt[r] = attempt[p]
        /\ tries[p] = attempt[p]
        /\ answer[r] = "2xx" => got[p] > 0
    BY <1>6 DEF Mark, Accounted, TypeOK
  <2>2. \A s \in Runner : s # r => holds[s] # p
    BY <2>1 DEF OneSender
  <2>3. /\ LetGo(r)
        /\ UNCHANGED <<tries, got>>
        /\ state' = [state EXCEPT ![p] = verdict]
        /\ attempt' = [attempt EXCEPT ![p] = IF verdict = "pending" THEN heldAttempt[r] + 1 ELSE @]
    BY <1>6 DEF Mark, worldVars
  <2>4. /\ verdict = "delivered" => got[p] > 0
        /\ verdict = "undelivered" => tries[p] = MaxAttempts
        /\ verdict \in {"delivered", "undelivered", "pending"}
    <3>1. attempt[p] \in 0..MaxAttempts BY <2>1 DEF TypeOK
    <3>2. answer[r] # "2xx" => answer[r] = "failed"
      BY <1>6 DEF Mark, TypeOK
    <3> QED BY <3>1, <3>2, <2>1 DEF Decide
  <2> HIDE DEF verdict
  <2>5. /\ state'[p] = verdict
        /\ verdict = "pending" => attempt'[p] = attempt[p] + 1
        /\ verdict # "pending" => attempt'[p] = attempt[p]
        /\ \A q \in Pair : q # p => state'[q] = state[q] /\ attempt'[q] = attempt[q]
    BY <2>1, <2>3 DEF TypeOK
  <2>6. Accounted'
    <3>1. \A q \in Pair :
            /\ state'[q] = "none" => tries'[q] = 0
            /\ state'[q] # "none" => attempt'[q] > 0 /\ tries'[q] <= attempt'[q]
            /\ state'[q] = "pending" => tries'[q] + 1 = attempt'[q]
      <4> TAKE q \in Pair
      <4>1. CASE q = p
        BY <4>1, <2>1, <2>3, <2>4, <2>5 DEF Accounted, TypeOK
      <4>2. CASE q # p
        BY <4>2, <2>3, <2>5 DEF Accounted
      <4> QED BY <4>1, <4>2
    <3>2. holds'[r] = NoPair /\ answer'[r] = "none"
      BY <2>3 DEF LetGo, TypeOK
    <3>3. \A s \in Runner : s # r =>
            holds'[s] = holds[s] /\ answer'[s] = answer[s] /\ heldAttempt'[s] = heldAttempt[s]
      BY <2>3 DEF LetGo, TypeOK
    <3>4. \A s \in Runner : s # r /\ holds[s] # NoPair =>
            state'[holds[s]] = state[holds[s]] /\ attempt'[holds[s]] = attempt[holds[s]]
      BY <2>2, <2>5 DEF TypeOK
    <3> QED BY <3>1, <3>2, <3>3, <3>4, <2>3 DEF Accounted
  <2>7. OneSender' BY <2>3 DEF LetGo, OneSender, TypeOK
  <2>8. HonestRecord' BY <2>3, <2>4, <2>5 DEF HonestRecord
  <2> QED BY <2>6, <2>7, <2>8
<1> QED BY <1>1, <1>2, <1>3, <1>4, <1>5, <1>6, QuietSteps

\* Routing is whole: the Channels' own steps matter here, and the listing.
LEMMA NextRouted == ASSUME IInv, [Next]_vars PROVE RoutedWhole'
<1> USE DEF IInv
<1>1. ASSUME NEW c \in Channel, Configuring(c) PROVE RoutedWhole'
  <2>1. UNCHANGED <<written, listed, state>>
    BY <1>1 DEF Configuring, CreateChannel, UpdateChannel, DeleteChannel, writerVars, rowVars
  <2>2. \A p \in Pair : state[p] # "none" => chan'[p[2]] = "live"
    BY <1>1 DEF Configuring, CreateChannel, UpdateChannel, DeleteChannel, Deletable,
                RoutedWhole, TypeOK, Pair
  <2> QED BY <2>1, <2>2 DEF RoutedWhole
<1>2. CASE ReplaceKey
  BY <1>2 DEF ReplaceKey, RoutedWhole, writerVars, rowVars
<1>3. ASSUME NEW m \in Message, ListChannels(m) \/ RollBackMessage(m) PROVE RoutedWhole'
  <2>1. UNCHANGED <<chan, state>>
    BY <1>3 DEF ListChannels, RollBackMessage, channelVars, rowVars
  <2>2. \A n \in Message :
          /\ written'[n] = "yes" <=> written[n] = "yes"
          /\ written[n] = "yes" => listed'[n] = listed[n]
    BY <1>3 DEF ListChannels, RollBackMessage, TypeOK
  <2>3. \A p \in Pair : p[1] \in Message
    BY DEF Pair
  <2> QED BY <2>1, <2>2, <2>3 DEF RoutedWhole
<1>4. ASSUME NEW m \in Message, CommitMessage(m) PROVE RoutedWhole'
  BY <1>4 DEF CommitMessage, Insertable, RoutedWhole, TypeOK, channelVars, Pair
<1>5. ASSUME UNCHANGED <<chan, written, listed>>,
             \A p \in Pair : state'[p] = state[p] \/ (state[p] # "none" /\ state'[p] # "none")
      PROVE  RoutedWhole'
  <2>1. \A m \in Message, c \in Channel : <<m, c>> \in Pair
    BY DEF Pair
  <2>2. \A m \in Message : listed[m] \subseteq Channel
    BY DEF TypeOK
  <2> QED BY <1>5, <2>1, <2>2 DEF RoutedWhole
<1>6. ASSUME NEW r \in Runner, NEW p \in Pair, Claim(r, p) PROVE RoutedWhole'
  BY <1>5, <1>6 DEF Claim, Claimable, TypeOK, channelVars, writerVars
<1>7. ASSUME NEW r \in Runner, Post(r) \/ Crash(r) PROVE RoutedWhole'
  BY <1>5, <1>7 DEF Post, Crash, channelVars, writerVars, rowVars
<1>8. ASSUME NEW r \in Runner, OpenSecretFault(r) PROVE RoutedWhole'
  BY <1>5, <1>8 DEF OpenSecretFault, FaultState, TypeOK, channelVars, writerVars
<1>9. ASSUME NEW r \in Runner, Mark(r) PROVE RoutedWhole'
  <2>1. holds[r] \in Pair /\ state[holds[r]] = "sending"
    BY <1>9 DEF Mark, Accounted, TypeOK
  <2>2. Decide(answer[r] = "2xx", heldAttempt[r]) # "none"
    BY DEF Decide
  <2> QED BY <1>5, <1>9, <2>1, <2>2 DEF Mark, TypeOK, channelVars, writerVars
<1>10. CASE UNCHANGED vars
  BY <1>10 DEF vars, channelVars, writerVars, rowVars, RoutedWhole
<1> QED
  BY <1>1, <1>2, <1>3, <1>4, <1>6, <1>7, <1>8, <1>9, <1>10 DEF Next, Writing, Sending

\* The delivery keeps its invariant.
LEMMA AlwaysInv == Spec => []IInv
<1>1. ASSUME IInv, [Next]_vars PROVE IInv'
  BY <1>1, NextType, NextAccounted, NextRouted DEF IInv
<1> QED BY InitInv, <1>1, PTL DEF Spec

\* No row, claim or count leaves its type: an attempt never passes max_attempts.
THEOREM TypeCorrect == Spec => []TypeOK
<1>1. IInv => TypeOK BY DEF IInv
<1> QED BY <1>1, AlwaysInv, PTL

\* No two runners ever hold one delivery row (ClaimDelivery under SKIP LOCKED).
THEOREM SenderCorrect == Spec => []OneSender
<1>1. IInv => OneSender BY DEF IInv
<1> QED BY <1>1, AlwaysInv, PTL

\* 'delivered' and 'undelivered' say what happened at the receiver (post, Decide).
THEOREM RecordCorrect == Spec => []HonestRecord
<1>1. IInv => HonestRecord BY DEF IInv
<1> QED BY <1>1, AlwaysInv, PTL

\* A routed pair is sent at most max_attempts times (Decide, RetryDelivery).
THEOREM BudgetCorrect == Spec => []BudgetKept
<1>1. IInv => BudgetKept
  BY DeliveryAssumption DEF IInv, Accounted, TypeOK, BudgetKept
<1> QED BY <1>1, AlwaysInv, PTL

\* A Message and all of its delivery rows commit together (EnqueueForMessage).
THEOREM RoutingCorrect == Spec => []RoutedWhole
<1>1. IInv => RoutedWhole BY DEF IInv
<1> QED BY <1>1, AlwaysInv, PTL

\* A settled row is never sent or marked again.
THEOREM SettledCorrect == Spec => SettledIsFinal
<1> DEFINE Final == \A p \in Pair : state[p] \in Settled =>
                        state'[p] = state[p] /\ tries'[p] = tries[p]
<1>1. ASSUME IInv, [Next]_vars PROVE Final
  <2> USE <1>1 DEF IInv, Settled
  <2>1. CASE Quiet
    BY <2>1 DEF Quiet, rowVars, worldVars
  <2>2. ASSUME NEW m \in Message, CommitMessage(m) PROVE Final
    BY <2>2 DEF CommitMessage, Insertable, RoutedWhole, TypeOK, worldVars
  <2>3. ASSUME NEW r \in Runner, NEW p \in Pair, Claim(r, p) PROVE Final
    BY <2>3 DEF Claim, Claimable, TypeOK, worldVars
  <2>4. ASSUME NEW r \in Runner, Post(r) \/ OpenSecretFault(r) \/ Mark(r) \/ Crash(r)
        PROVE  Final
    <3>1. holds[r] \in Pair /\ state[holds[r]] = "sending"
      BY <2>4 DEF Post, OpenSecretFault, Unsent, Mark, Crash, Accounted, TypeOK
    <3>2. \A q \in Pair : q # holds[r] => state'[q] = state[q] /\ tries'[q] = tries[q]
      BY <2>4, <3>1 DEF Post, OpenSecretFault, FaultState, Mark, Crash, TypeOK, rowVars, worldVars
    <3> QED BY <3>1, <3>2
  <2> QED BY <2>1, <2>2, <2>3, <2>4, QuietSteps
<1>2. Spec => [][Final]_vars
  BY <1>1, AlwaysInv, PTL DEF Spec
<1> QED BY <1>2 DEF SettledIsFinal

\* The numbers given out have a last one, so there is a next.
NumbersEnd == \E b \in Nat : \A r \in receipts : r.no <= b

\* A receipt is named by its schedule and number, and a notice is of one of them.
Numbered ==
    /\ \A r, x \in receipts : ReceiptKey(r) = ReceiptKey(x) => r = x
    /\ \A n \in notices : \E r \in receipts : ReceiptKey(r) = n.receipt

\* A runner holds the notice it claimed as it was before, its row is 'sending',
\* and no other runner holds it.
HeldBySelf ==
    /\ \A w \in Poster : \A n \in posting[w] :
          n.state = "pending" /\ [n EXCEPT !.state = "sending"] \in notices
    /\ \A w, v \in Poster : \A n \in posting[w], m \in posting[v] :
          n.receipt = m.receipt => w = v /\ n = m

ReceiptInv == OneReceiptPerTick /\ Numbered /\ HeldBySelf

-----------------------------------------------------------------------------
(* Types.                                                                  *)

\* A bounded set of numbers has a greatest.
LEMMA GreatestNumber ==
    ASSUME NEW S \in SUBSET Nat, S # {}, NEW b \in Nat, \A n \in S : n <= b
    PROVE  \E n \in S : \A m \in S : m <= n
<1> DEFINE Below == {b - n : n \in S}
<1>1. Below \in SUBSET Nat /\ Below # {}
  <2>1. \A n \in S : b - n \in Nat OBVIOUS
  <2> QED BY <2>1
<1>2. PICK t \in Below : \A u \in Below : ~(u < t)
  <2> DEFINE R == OpToRel(<, Nat)
  <2>1. IsWellFoundedOn(R, Nat) BY NatLessThanWellFounded
  <2> HIDE DEF R
  <2>2. \E t \in Below : \A u \in Below : ~(<<u, t>> \in R) BY <1>1, <2>1, WFMin
  <2> QED BY <1>1, <2>2 DEF R, OpToRel
<1>3. PICK n \in S : t = b - n OBVIOUS
<1>4. ASSUME NEW m \in S PROVE m <= n
  <2>1. ~(b - m < b - n) BY <1>2, <1>3
  <2> QED BY <2>1
<1> QED BY <1>4

\* The next number of a schedule is a number (NextReportDeliveryNo).
LEMMA NextIsNumber ==
    ASSUME ReportTypeOK, NumbersEnd, NEW s \in Schedule
    PROVE  NextReportDeliveryNo(s) \in Nat
<1> DEFINE nos == {r.no : r \in {x \in receipts : x.sched = s}}
<1>1. nos \in SUBSET Nat BY DEF ReportTypeOK, ReceiptRow
<1>2. PICK b \in Nat : \A n \in nos : n <= b BY DEF NumbersEnd
<1>3. CASE nos = {} BY <1>3 DEF NextReportDeliveryNo
<1>4. CASE nos # {}
  <2>1. NextReportDeliveryNo(s) = 1 + CHOOSE n \in nos : \A m \in nos : m <= n
    BY <1>4 DEF NextReportDeliveryNo
  <2> HIDE DEF nos
  <2>2. \E n \in nos : \A m \in nos : m <= n BY <1>1, <1>2, <1>4, GreatestNumber
  <2>3. (CHOOSE n \in nos : \A m \in nos : m <= n) \in nos BY <2>2
  <2>4. PICK g \in nos : g = CHOOSE n \in nos : \A m \in nos : m <= n BY <2>3
  <2>5. NextReportDeliveryNo(s) = 1 + g BY <2>1, <2>4
  <2> QED BY <1>1, <2>5
<1> QED BY <1>3, <1>4

\* A receipt more, of any number, leaves the numbers bounded.
LEMMA StillEnds ==
    ASSUME NumbersEnd, receipts \subseteq ReceiptRow, NEW k \in ReceiptRow,
           receipts' \subseteq receipts \cup {k}
    PROVE  NumbersEnd'
<1>1. PICK b \in Nat : \A r \in receipts : r.no <= b BY DEF NumbersEnd
<1>2. k.no \in Nat /\ \A r \in receipts : r.no \in Nat BY DEF ReceiptRow
<1>3. b + k.no \in Nat /\ \A r \in receipts' : r.no <= b + k.no BY <1>1, <1>2
<1> QED BY <1>3 DEF NumbersEnd

\* What a dispatcher holds while it has a schedule's lock.
LEMMA CutParts ==
    ASSUME ReportTypeOK, NEW p \in ReportPoller, poll[p].at = "cut"
    PROVE  poll[p] \in Cutting
<1>1. poll[p] \in Between \cup Cutting BY DEF ReportTypeOK
<1> QED BY <1>1 DEF Between

\* Every variable keeps its type, and a next number can always be given.
LEMMA ReportTypeCorrect == ReportSpec => [](ReportTypeOK /\ NumbersEnd)
<1>0. /\ Cadence \subseteq Nat \ {0} /\ Hook \subseteq Nat \ {0} /\ MaxNow \in Nat \ {0}
      /\ PostBudget \in Nat \ {0} /\ MaxScheduleEdits \in Nat
  BY ReportAssumption DEF ReportAssumption
<1>1. ReportInit => ReportTypeOK /\ NumbersEnd
  BY <1>0 DEF ReportInit, ReportTypeOK, NumbersEnd, IdlePoll, Between
<1>2. ASSUME ReportTypeOK, NumbersEnd, [ReportNext]_reportVars PROVE ReportTypeOK' /\ NumbersEnd'
  <2> USE <1>0, <1>2
  <2>1. CASE Tick BY <2>1 DEF Tick, ReportTypeOK, NumbersEnd
  <2>2. ASSUME NEW s \in Schedule, NEW ch \in Binding, NEW c \in Cadence,
               createReportSchedule(s, ch, c) \/ editReportSchedule(s, ch, c)
        PROVE  ReportTypeOK' /\ NumbersEnd'
    BY <2>2 DEF createReportSchedule, editReportSchedule, ReportTypeOK, NumbersEnd, ScheduleRow
  <2>3. ASSUME NEW s \in Schedule, deleteReportSchedule(s) PROVE ReportTypeOK' /\ NumbersEnd'
    BY <2>3 DEF deleteReportSchedule, ReportTypeOK, NumbersEnd
  <2>4. ASSUME NEW s \in Schedule, runReportScheduleNow(s) PROVE ReportTypeOK' /\ NumbersEnd'
    <3>1. [sched |-> s, no |-> NextReportDeliveryNo(s)] \in Key BY NextIsNumber DEF Key
    <3> QED BY <2>4, <3>1 DEF runReportScheduleNow, ReportTypeOK, NumbersEnd
  <2>5. ASSUME NEW q \in runNow, InsertReportDelivery(q) PROVE ReportTypeOK' /\ NumbersEnd'
    <3>1. Receipt(q.sched, q.no, 0) \in ReceiptRow BY DEF Receipt, ReceiptRow, ReportTypeOK, Key
    <3>2. receipts' \subseteq receipts \cup {Receipt(q.sched, q.no, 0)}
      BY <2>5 DEF InsertReportDelivery
    <3>3. NumbersEnd' BY <3>1, <3>2, StillEnds DEF ReportTypeOK
    <3> QED BY <2>5, <3>1, <3>2, <3>3 DEF InsertReportDelivery, ReportTypeOK
  <2>6. ASSUME NEW p \in ReportPoller, dispatchDue(p) PROVE ReportTypeOK' /\ NumbersEnd'
    <3> DEFINE L == {[id |-> s, row |-> schedules[s]] : s \in {x \in Schedule : Exists(x)}}
    <3>1. L \in SUBSET Listed BY DEF Exists, Listed, ReportTypeOK
    <3> HIDE DEF L
    <3>2. [IdlePoll EXCEPT !.at = "list", !.list = L] \in Between BY <3>1 DEF IdlePoll, Between
    <3>3. poll' = [poll EXCEPT ![p] = [IdlePoll EXCEPT !.at = "list", !.list = L]]
      BY <2>6 DEF dispatchDue, L
    <3> QED BY <2>6, <3>2, <3>3 DEF dispatchDue, ReportTypeOK, NumbersEnd
  <2>7. ASSUME NEW p \in ReportPoller, NEW x \in poll[p].list, dispatchNumber(p, x)
        PROVE  ReportTypeOK' /\ NumbersEnd'
    <3> DEFINE t == DispatchTick(now, x.row.cadence)
    <3>1. poll[p].list \in SUBSET Listed BY DEF ReportTypeOK, Between, Cutting
    <3>2. x.id \in Schedule /\ x.row \in ScheduleRow /\ x.row.cadence \in Nat \ {0}
      BY <3>1 DEF Listed, ScheduleRow
    <3>3. t \in Nat \ {0}
      <4>1. now \in Nat BY DEF ReportTypeOK
      <4>2. now % x.row.cadence \in Nat BY <3>2, <4>1
      <4>3. t \in Int BY <4>1, <4>2 DEF DispatchTick
      <4> QED BY <2>7, <4>3 DEF dispatchNumber
    <3> HIDE DEF t
    <3>4. [at |-> "cut", list |-> poll[p].list \ {x}, no |-> NextReportDeliveryNo(x.id),
           row |-> [id |-> x.id, row |-> x.row, tick |-> t]] \in Cutting
      BY <3>1, <3>2, <3>3, NextIsNumber DEF Cutting
    <3>5. poll' = [poll EXCEPT ![p] =
              [at |-> "cut", list |-> poll[p].list \ {x}, no |-> NextReportDeliveryNo(x.id),
               row |-> [id |-> x.id, row |-> x.row, tick |-> t]]]
      BY <2>7 DEF dispatchNumber, t
    <3> QED BY <2>7, <3>4, <3>5 DEF dispatchNumber, ReportTypeOK, NumbersEnd
  <2>8. ASSUME NEW p \in ReportPoller, NEW x \in poll[p].list, dispatchNothing(p, x)
        PROVE  ReportTypeOK' /\ NumbersEnd'
    <3>1. [poll[p] EXCEPT !.list = @ \ {x}] \in Between
      BY <2>8 DEF dispatchNothing, ReportTypeOK, Between, Cutting
    <3> QED BY <2>8, <3>1 DEF dispatchNothing, ReportTypeOK, NumbersEnd
  <2>9. ASSUME NEW p \in ReportPoller, TryInsertScheduledDelivery(p)
        PROVE  ReportTypeOK' /\ NumbersEnd'
    <3> DEFINE s == poll[p].row.id
               ch == poll[p].row.row.channel
               k == Receipt(s, poll[p].no, poll[p].row.tick)
               n == [receipt |-> [sched |-> s, no |-> poll[p].no], channel |-> ch,
                     state |-> "pending", attempt |-> 1]
    <3>1. poll[p] \in Cutting BY <2>9, CutParts DEF TryInsertScheduledDelivery
    <3>2. k \in ReceiptRow BY <3>1 DEF Cutting, Receipt, ReceiptRow
    <3>3. ch # 0 => n \in Notice
      <4>1. ch \in Binding /\ s \in Schedule /\ poll[p].no \in Nat BY <3>1 DEF Cutting, ScheduleRow
      <4>2. 1 \in 1..PostBudget OBVIOUS
      <4> QED BY <4>1, <4>2 DEF Binding, Notice, Key
    <3>4. receipts' \subseteq receipts \cup {k}
      BY <2>9 DEF TryInsertScheduledDelivery
    <3>5. notices' \subseteq notices \/ (ch # 0 /\ notices' = notices \cup {n})
      BY <2>9 DEF TryInsertScheduledDelivery
    <3>6. poll' \in [ReportPoller -> Between \cup Cutting]
      <4>1. [poll[p] EXCEPT !.at = "list", !.row = NoSchedule, !.no = 0] \in Between
        BY <3>1 DEF Cutting, Between
      <4> QED BY <2>9, <4>1 DEF TryInsertScheduledDelivery, Done, ReportTypeOK
    <3>7. NumbersEnd' BY <3>2, <3>4, StillEnds DEF ReportTypeOK
    <3>8. receipts' \subseteq ReceiptRow /\ notices' \subseteq Notice
      BY <3>2, <3>3, <3>4, <3>5 DEF ReportTypeOK
    <3>9. UNCHANGED <<schedules, now, runNow, posting, scheduleEdits>>
      BY <2>9 DEF TryInsertScheduledDelivery
    <3> QED BY <3>6, <3>7, <3>8, <3>9 DEF ReportTypeOK
  <2>10. ASSUME NEW p \in ReportPoller, dispatchEnd(p) PROVE ReportTypeOK' /\ NumbersEnd'
    BY <2>10 DEF dispatchEnd, IdlePoll, Between, ReportTypeOK, NumbersEnd
  <2>11. ASSUME NEW w \in Poster, NEW n \in notices, ClaimReportNotification(w, n)
         PROVE  ReportTypeOK' /\ NumbersEnd'
    <3>1. n \in Notice /\ [n EXCEPT !.state = "sending"] \in Notice BY DEF ReportTypeOK, Notice
    <3> QED BY <2>11, <3>1 DEF ClaimReportNotification, ReportTypeOK, NumbersEnd
  <2>12. ASSUME NEW w \in Poster, NEW n \in posting[w], NEW d \in BOOLEAN, postNotice(w, n, d)
         PROVE  ReportTypeOK' /\ NumbersEnd'
    <3>1. n \in Notice BY DEF ReportTypeOK
    <3>2. NoticeAfter(n, d) \in Notice
      <4>1. \A st \in {"delivered", "undelivered"} : [n EXCEPT !.state = st] \in Notice
        BY <3>1 DEF Notice
      <4>2. CASE n.attempt < PostBudget
        <5>1. n.attempt + 1 \in 1..PostBudget BY <3>1, <4>2 DEF Notice
        <5>2. [n EXCEPT !.state = "pending", !.attempt = @ + 1] \in Notice
          BY <3>1, <5>1 DEF Notice
        <5> QED BY <4>1, <5>2 DEF NoticeAfter
      <4>3. CASE ~(n.attempt < PostBudget) BY <4>1, <4>3 DEF NoticeAfter
      <4> QED BY <4>2, <4>3
    <3>3. \A r \in receipts' : r \in ReceiptRow /\ \E x \in receipts : r.no = x.no
      BY <2>12 DEF postNotice, Flips, ReportTypeOK, ReceiptRow
    <3>4. NumbersEnd' BY <3>3 DEF NumbersEnd
    <3> QED BY <2>12, <3>2, <3>3, <3>4 DEF postNotice, ReportTypeOK
  <2>13. ASSUME NEW w \in Poster, loseNotice(w) PROVE ReportTypeOK' /\ NumbersEnd'
    BY <2>13 DEF loseNotice, ReportTypeOK, NumbersEnd
  <2>14. CASE UNCHANGED reportVars BY <2>14 DEF reportVars, ReportTypeOK, NumbersEnd
  <2> QED BY <2>1, <2>2, <2>3, <2>4, <2>5, <2>6, <2>7, <2>8, <2>9, <2>10, <2>11, <2>12, <2>13, <2>14
          DEF ReportNext, Dispatch
<1> QED BY <1>1, <1>2, PTL DEF ReportSpec

-----------------------------------------------------------------------------
(* Receipts and notices.                                                   *)

\* A receipt that is new in its number and, with a tick, in its tick keeps the
\* receipts apart (the unique keys of report_delivery).
LEMMA NewReceipt ==
    ASSUME ReportTypeOK, ReceiptInv, NEW s \in Schedule, NEW no \in Nat, NEW tick \in Nat,
           ~NumberTaken(s, no), tick = 0 \/ ~TickTaken(s, tick),
           receipts' = receipts \cup {Receipt(s, no, tick)},
           NEW N, \A n \in N : n.receipt = [sched |-> s, no |-> no] /\ n.state = "pending",
           \A n, m \in N : n = m,
           notices' = notices \cup N, posting' = posting
    PROVE  ReceiptInv'
<1> DEFINE k == Receipt(s, no, tick)
<1>1. /\ k.sched = s /\ k.no = no /\ k.tick = tick /\ k.state = "generated"
      /\ ReceiptKey(k) = [sched |-> s, no |-> no]
  BY DEF Receipt, ReceiptKey
<1> HIDE DEF k
<1>2. receipts' = receipts \cup {k} BY DEF k
<1>3. \A r \in receipts : ReceiptKey(r) # ReceiptKey(k)
  BY <1>1 DEF NumberTaken, ReceiptKey
<1>4. \A n \in notices : n.receipt # ReceiptKey(k)
  BY <1>3 DEF ReceiptInv, Numbered
<1>5. \A r \in receipts : r.sched = s /\ r.tick = tick => ~(tick > 0)
  BY DEF TickTaken
<1>6. \A r, x \in receipts' : r.sched = x.sched /\ r.tick = x.tick /\ r.tick > 0 => r = x
  BY <1>1, <1>2, <1>5 DEF ReceiptInv, OneReceiptPerTick
<1>7. \A n, x \in notices' : n.receipt = x.receipt => n = x
  BY <1>1, <1>4 DEF ReceiptInv, OneReceiptPerTick
<1>8. \A r \in receipts' : r.state = "delivered" <=>
          \E n \in notices' : n.receipt = ReceiptKey(r) /\ n.state = "delivered"
  <2>1. ASSUME NEW r \in receipts
        PROVE  r.state = "delivered" <=>
                  \E n \in notices' : n.receipt = ReceiptKey(r) /\ n.state = "delivered"
    BY DEF ReceiptInv, OneReceiptPerTick
  <2>2. ~\E n \in notices' : n.receipt = ReceiptKey(k) /\ n.state = "delivered" BY <1>4
  <2> QED BY <1>1, <1>2, <2>1, <2>2
<1>9. Numbered' BY <1>1, <1>2, <1>3 DEF ReceiptInv, Numbered, ReceiptKey
<1>10. HeldBySelf' BY DEF ReceiptInv, HeldBySelf
<1> QED BY <1>6, <1>7, <1>8, <1>9, <1>10 DEF ReceiptInv, OneReceiptPerTick, ReceiptKey

\* However often a window is polled, beside Run now and edits, a tick has one
\* receipt, a receipt one notice, and the two say delivered together
\* (OneReceiptPerTick).
THEOREM OneReceiptPerTickCorrect == ReportSpec => []OneReceiptPerTick
<1>1. ReportInit => ReceiptInv
  BY DEF ReportInit, ReceiptInv, OneReceiptPerTick, Numbered, HeldBySelf
<1>2. ASSUME ReportTypeOK, ReceiptInv, [ReportNext]_reportVars PROVE ReceiptInv'
  <2> USE <1>2
  <2>1. CASE UNCHANGED <<receipts, notices, posting>>
    BY <2>1 DEF ReceiptInv, OneReceiptPerTick, Numbered, HeldBySelf, ReceiptKey
  <2>2. ASSUME NEW q \in runNow, InsertReportDelivery(q) PROVE ReceiptInv'
    <3>1. q.sched \in Schedule /\ q.no \in Nat BY DEF ReportTypeOK, Key
    <3>2. CASE NumberTaken(q.sched, q.no) \/ ~Exists(q.sched)
      BY <2>1, <2>2, <3>2 DEF InsertReportDelivery
    <3>3. CASE ~(NumberTaken(q.sched, q.no) \/ ~Exists(q.sched))
      <4>1. /\ receipts' = receipts \cup {Receipt(q.sched, q.no, 0)}
            /\ notices' = notices \cup {} /\ posting' = posting
        BY <2>2, <3>3 DEF InsertReportDelivery
      <4>2. PICK N \in {{}}, t \in Nat : N = {} /\ t = 0 OBVIOUS
      <4>3. receipts' = receipts \cup {Receipt(q.sched, q.no, t)} /\ notices' = notices \cup N
        BY <4>1, <4>2
      <4> QED BY <3>1, <3>3, <4>1, <4>2, <4>3, NewReceipt
    <3> QED BY <3>2, <3>3
  <2>3. ASSUME NEW p \in ReportPoller, TryInsertScheduledDelivery(p) PROVE ReceiptInv'
    <3> DEFINE s == poll[p].row.id
               ch == poll[p].row.row.channel
               n == [receipt |-> [sched |-> s, no |-> poll[p].no], channel |-> ch,
                     state |-> "pending", attempt |-> 1]
               collides == TickTaken(s, poll[p].row.tick) \/ NumberTaken(s, poll[p].no) \/ ~Exists(s)
    <3>1. poll[p] \in Cutting BY <2>3, CutParts DEF TryInsertScheduledDelivery
    <3>2. s \in Schedule /\ poll[p].no \in Nat /\ poll[p].row.tick \in Nat BY <3>1 DEF Cutting
    <3>3. CASE collides BY <2>1, <2>3, <3>3 DEF TryInsertScheduledDelivery
    <3>4. CASE ~collides
      <4>1. /\ receipts' = receipts \cup {Receipt(s, poll[p].no, poll[p].row.tick)}
            /\ notices' = notices \cup (IF ch = 0 THEN {} ELSE {n}) /\ posting' = posting
        BY <2>3, <3>4 DEF TryInsertScheduledDelivery
      <4>2. PICK N : N = IF ch = 0 THEN {} ELSE {n} OBVIOUS
      <4>3. /\ \A m \in N : m.receipt = [sched |-> s, no |-> poll[p].no] /\ m.state = "pending"
            /\ \A m, o \in N : m = o
        BY <4>2
      <4>4. notices' = notices \cup N BY <4>1, <4>2
      <4> HIDE DEF s, ch, n
      <4> QED BY <3>2, <3>4, <4>1, <4>3, <4>4, NewReceipt DEF collides
    <3> QED BY <3>3, <3>4
  <2>4. ASSUME NEW w \in Poster, NEW n \in notices, ClaimReportNotification(w, n) PROVE ReceiptInv'
    <3> DEFINE m == [n EXCEPT !.state = "sending"]
    <3>1. /\ n.state = "pending" /\ m.state = "sending" /\ m.receipt = n.receipt
          /\ notices' = (notices \ {n}) \cup {m} /\ receipts' = receipts
          /\ posting[w] = {} /\ posting'[w] = {n}
          /\ \A v \in Poster : v # w => posting'[v] = posting[v]
      BY <2>4 DEF ClaimReportNotification, ReportTypeOK, Notice
    <3>2. \A x \in notices : x # n => x.receipt # n.receipt
      BY DEF ReceiptInv, OneReceiptPerTick
    <3>3. \A v \in Poster : \A x \in posting[v] : x.receipt # n.receipt
      <4>1. ASSUME NEW v \in Poster, NEW x \in posting[v] PROVE x.receipt # n.receipt
        <5>1. x \in Notice BY DEF ReportTypeOK
        <5>2. [x EXCEPT !.state = "sending"] \in notices BY DEF ReceiptInv, HeldBySelf
        <5>3. [x EXCEPT !.state = "sending"].receipt = x.receipt
              /\ [x EXCEPT !.state = "sending"].state = "sending"
          BY <5>1 DEF Notice
        <5> QED BY <3>1, <3>2, <5>2, <5>3
      <4> QED BY <4>1
    <3> HIDE DEF m
    <3>4. OneReceiptPerTick'
      BY <3>1, <3>2 DEF ReceiptInv, OneReceiptPerTick, ReceiptKey
    <3>5. Numbered' BY <3>1 DEF ReceiptInv, Numbered, ReceiptKey
    <3>6. ASSUME NEW v \in Poster, NEW x \in posting'[v]
          PROVE  x.state = "pending" /\ [x EXCEPT !.state = "sending"] \in notices'
      <4>1. CASE v = w BY <3>1, <3>6, <4>1 DEF m
      <4>2. CASE v # w
        <5>1. x \in posting[v] /\ x \in Notice BY <3>1, <4>2 DEF ReportTypeOK
        <5>2. x.state = "pending" /\ [x EXCEPT !.state = "sending"] \in notices
          BY <5>1 DEF ReceiptInv, HeldBySelf
        <5>3. [x EXCEPT !.state = "sending"] # n BY <3>1, <5>1 DEF Notice
        <5> QED BY <3>1, <5>2, <5>3
      <4> QED BY <4>1, <4>2
    <3>7. HeldBySelf'
      BY <3>1, <3>3, <3>6 DEF ReceiptInv, HeldBySelf
    <3> QED BY <3>4, <3>5, <3>7 DEF ReceiptInv
  <2>5. ASSUME NEW w \in Poster, NEW n \in posting[w], NEW d \in BOOLEAN, postNotice(w, n, d)
        PROVE  ReceiptInv'
    <3> DEFINE m == NoticeAfter(n, d)
               F == Flips(n, d)
    <3>1. n \in Notice /\ n.state = "pending" /\ [n EXCEPT !.state = "sending"] \in notices
      BY DEF ReportTypeOK, ReceiptInv, HeldBySelf
    <3>2. m.receipt = n.receipt /\ (m.state = "delivered" <=> d)
      BY <3>1 DEF NoticeAfter, Notice
    <3>3. /\ receipts' = (receipts \ F) \cup {[r EXCEPT !.state = "delivered"] : r \in F}
          /\ notices' = {x \in notices : x.receipt # n.receipt} \cup {m}
          /\ posting'[w] = {} /\ \A v \in Poster : v # w => posting'[v] = posting[v]
      BY <2>5 DEF postNotice, ReportTypeOK
    <3>4. \A x \in notices : x.receipt = n.receipt => x.state = "sending"
      <4>1. [n EXCEPT !.state = "sending"].receipt = n.receipt
            /\ [n EXCEPT !.state = "sending"].state = "sending"
        BY <3>1 DEF Notice
      <4> QED BY <3>1, <4>1 DEF ReceiptInv, OneReceiptPerTick
    <3>5. \A r \in F : r \in receipts /\ d /\ ReceiptKey(r) = n.receipt BY DEF Flips
    <3>6. \A r \in receipts : d /\ ReceiptKey(r) = n.receipt => r \in F BY DEF Flips
    <3> HIDE DEF m, F
    \* Every receipt is one that was there, as it was or delivered.
    <3>7. ASSUME NEW r \in receipts'
          PROVE  \E x \in receipts :
                    /\ r.sched = x.sched /\ r.tick = x.tick /\ ReceiptKey(r) = ReceiptKey(x)
                    /\ IF x \in F THEN r = [x EXCEPT !.state = "delivered"] /\ r.state = "delivered"
                       ELSE r = x
      <4>1. CASE r \in receipts /\ r \notin F BY <4>1
      <4>2. CASE \E x \in F : r = [x EXCEPT !.state = "delivered"]
        BY <3>5, <4>2 DEF ReportTypeOK, ReceiptRow, ReceiptKey
      <4> QED BY <3>3, <4>1, <4>2
    <3>8. \A r, x \in receipts' : r.sched = x.sched /\ r.tick = x.tick /\ r.tick > 0 => r = x
      BY <3>7 DEF ReceiptInv, OneReceiptPerTick
    <3>9. \A x, y \in notices' : x.receipt = y.receipt => x = y
      BY <3>2, <3>3 DEF ReceiptInv, OneReceiptPerTick
    <3>10. ASSUME NEW r \in receipts'
           PROVE  r.state = "delivered" <=>
                     \E x \in notices' : x.receipt = ReceiptKey(r) /\ x.state = "delivered"
      <4>1. PICK x \in receipts :
                /\ ReceiptKey(r) = ReceiptKey(x)
                /\ IF x \in F THEN r.state = "delivered" ELSE r = x
        BY <3>7
      <4>2. CASE ReceiptKey(x) = n.receipt
        <5>1. x.state # "delivered" BY <3>4, <4>2 DEF ReceiptInv, OneReceiptPerTick
        <5>2. r.state = "delivered" <=> d BY <3>5, <3>6, <4>1, <4>2, <5>1
        <5> QED BY <3>2, <3>3, <4>1, <4>2, <5>2
      <4>3. CASE ReceiptKey(x) # n.receipt
        <5>1. r = x BY <3>5, <4>1, <4>3
        <5> QED BY <3>2, <3>3, <4>1, <4>3, <5>1 DEF ReceiptInv, OneReceiptPerTick
      <4> QED BY <4>2, <4>3
    <3>11. OneReceiptPerTick'
      BY <3>8, <3>9, <3>10 DEF OneReceiptPerTick, ReceiptKey
    <3>12. \A r, x \in receipts' : ReceiptKey(r) = ReceiptKey(x) => r = x
      BY <3>7 DEF ReceiptInv, Numbered
    <3>13. \A k \in receipts : \E r \in receipts' : ReceiptKey(r) = ReceiptKey(k)
      <4>1. ASSUME NEW k \in F
            PROVE  [k EXCEPT !.state = "delivered"] \in receipts'
                   /\ ReceiptKey([k EXCEPT !.state = "delivered"]) = ReceiptKey(k)
        BY <3>3, <3>5 DEF ReportTypeOK, ReceiptRow, ReceiptKey
      <4>2. \A k \in receipts : k \notin F => k \in receipts' BY <3>3
      <4> QED BY <4>1, <4>2
    <3>14. \A x \in notices' : \E y \in notices : x.receipt = y.receipt
      <4>1. [n EXCEPT !.state = "sending"].receipt = n.receipt BY <3>1 DEF Notice
      <4> QED BY <3>1, <3>2, <3>3, <4>1
    <3>15. \A x \in notices' : \E r \in receipts' : ReceiptKey(r) = x.receipt
      BY <3>13, <3>14 DEF ReceiptInv, Numbered
    <3>16. ASSUME NEW v \in Poster, NEW x \in posting'[v]
           PROVE  x.state = "pending" /\ [x EXCEPT !.state = "sending"] \in notices'
      <4>1. v # w /\ x \in posting[v] /\ x \in Notice BY <3>3, <3>16 DEF ReportTypeOK
      <4>2. x.state = "pending" /\ [x EXCEPT !.state = "sending"] \in notices /\ x.receipt # n.receipt
        BY <4>1 DEF ReceiptInv, HeldBySelf
      <4>3. [x EXCEPT !.state = "sending"].receipt = x.receipt BY <4>1 DEF Notice
      <4> QED BY <3>3, <4>2, <4>3
    <3>17. \A v \in Poster : \A x \in posting'[v] : x \in posting[v] BY <3>3
    <3>18. HeldBySelf' BY <3>16, <3>17 DEF ReceiptInv, HeldBySelf
    <3> QED BY <3>11, <3>12, <3>15, <3>18 DEF ReceiptInv, Numbered, ReceiptKey
  <2>6. ASSUME NEW w \in Poster, loseNotice(w) PROVE ReceiptInv'
    <3>1. /\ receipts' = receipts /\ notices' = notices
          /\ \A v \in Poster : \A x \in posting'[v] : x \in posting[v]
      BY <2>6 DEF loseNotice, ReportTypeOK
    <3> QED BY <3>1 DEF ReceiptInv, OneReceiptPerTick, Numbered, HeldBySelf, ReceiptKey
  <2>7. ASSUME Tick \/ (\E s \in Schedule, ch \in Binding, c \in Cadence :
                           createReportSchedule(s, ch, c) \/ editReportSchedule(s, ch, c))
               \/ \E s \in Schedule : deleteReportSchedule(s) \/ runReportScheduleNow(s)
        PROVE  UNCHANGED <<receipts, notices, posting>>
    BY <2>7 DEF Tick, createReportSchedule, editReportSchedule, deleteReportSchedule,
                runReportScheduleNow
  <2>8. ASSUME NEW p \in ReportPoller, Dispatch(p), ~TryInsertScheduledDelivery(p)
        PROVE  UNCHANGED <<receipts, notices, posting>>
    BY <2>8 DEF Dispatch, dispatchDue, dispatchNumber, dispatchNothing, dispatchEnd
  <2>9. UNCHANGED reportVars => UNCHANGED <<receipts, notices, posting>> BY DEF reportVars
  <2> QED BY <2>1, <2>2, <2>3, <2>4, <2>5, <2>6, <2>7, <2>8, <2>9 DEF ReportNext
<1>3. ReceiptInv => OneReceiptPerTick BY DEF ReceiptInv
<1> QED BY <1>1, <1>2, <1>3, ReportTypeCorrect, PTL DEF ReportSpec

-----------------------------------------------------------------------------
(* Arrivals: what the operator is told of the ground that enters.          *)

Span == [is : {"none", "Resolved", "NameError", "Gap"}, cites : SUBSET ArrAddr,
         version : Nat, owner : {"foreign", "zone"}]

TimelinesTyped ==
    /\ resolved \in [T -> Span]
    /\ behind \in [T -> [version : Nat, cites : SUBSET ArrAddr]]
    /\ closure \in [ArrName -> {"none", "plain", "measured-absent", "descoped"}]
    /\ left \in [ArrName -> {"never", "measured-absent", "descoped"}]
    /\ block \in BOOLEAN
    /\ walkVersion \in Nat

\* A name whose latest span closed by a departure left for that reason.
ClosedAsLeft == \A n \in ArrName : closure[n] \in {"measured-absent", "descoped"} => left[n] = closure[n]

\* What stands as gained is still reached, or was within the currency bound.
StandingReached == standing \subseteq ExtensionCandidates(resolved) \cup recent

ArrivalsInv == TimelinesTyped /\ NoSilentGround /\ ClosedAsLeft /\ StandingReached

\* A reading is of one of the three kinds, and cites addresses.
LEMMA ReadingTyped ==
    ASSUME NEW n, NEW r \in Readings(n)
    PROVE  /\ r.is \in {"Resolved", "NameError", "Gap"} /\ r.cites \subseteq ArrAddr
           /\ r.owner \in {"foreign", "zone"}
BY DEF Readings

\* Why a name departs.
LEMMA DepartureReasons ==
    ASSUME NEW S, NEW n
    PROVE  decideNameDeparture(S, n) \in {"stays", "descoped", "measured-absent"}
BY DEF decideNameDeparture

(***************************************************************************)
(* The timelines a fold leaves: those of a departed name closed, the folded *)
(* one as read, every other as it was.                                     *)
(***************************************************************************)
FoldedTo(t, r, gone) ==
    /\ gone \subseteq {u \in T : u[1] = t[1]}
    /\ resolved' = [u \in T |-> IF u \in gone THEN NoSpan ELSE Spans(t, r)[u]]
    /\ behind' = Closes(IF resolved[t] = NoSpan \/ Same(t, r) THEN behind ELSE Closes(behind, resolved, {t}),
                        Spans(t, r), gone)

\* A fold leaves the timelines so.
LEMMA FoldShape ==
    ASSUME TimelinesTyped, NEW t \in T, NEW r \in Readings(t[1]), FoldArrivingWalk(t, r)
    PROVE  \E gone : FoldedTo(t, r, gone)
<1>1. PICK why \in {decideNameDeparture(Spans(t, r), t[1])} :
      \E gone \in {IF why = "stays" THEN {} ELSE OpenOf(Spans(t, r), t[1])} :
             /\ resolved' = [u \in T |-> IF u \in gone THEN NoSpan ELSE Spans(t, r)[u]]
             /\ behind' = Closes(IF resolved[t] = NoSpan \/ Same(t, r) THEN behind
                                 ELSE Closes(behind, resolved, {t}), Spans(t, r), gone)
  BY DEF FoldArrivingWalk
<1>2. PICK gone \in {IF why = "stays" THEN {} ELSE OpenOf(Spans(t, r), t[1])} :
             /\ resolved' = [u \in T |-> IF u \in gone THEN NoSpan ELSE Spans(t, r)[u]]
             /\ behind' = Closes(IF resolved[t] = NoSpan \/ Same(t, r) THEN behind
                                 ELSE Closes(behind, resolved, {t}), Spans(t, r), gone)
  BY <1>1
<1>3. gone \subseteq {u \in T : u[1] = t[1]}
  BY <1>2 DEF OpenOf
<1> QED BY <1>2, <1>3 DEF FoldedTo

\* A timeline that still cites after a fold was left open by it, and cites what
\* it did before the fold or what the fold read.
LEMMA FoldCites ==
    ASSUME TimelinesTyped, NEW t \in T, NEW r \in Readings(t[1]), NEW gone, FoldedTo(t, r, gone),
           NEW u \in T, NEW a \in CitedBy(resolved', behind', u)
    PROVE  \/ a \in CitedBy(resolved, behind, u)
           \/ /\ u = t /\ r.is # "Gap" /\ a \in r.cites
              /\ resolved'[t] = Spans(t, r)[t]
           \/ /\ u = t /\ resolved[t] = NoSpan /\ resolved'[t] = Spans(t, r)[t]
<1> DEFINE B == IF resolved[t] = NoSpan \/ Same(t, r) THEN behind ELSE Closes(behind, resolved, {t})
<1>1. u \notin gone
  <2> SUFFICES ASSUME u \in gone PROVE FALSE
    OBVIOUS
  <2>1. resolved'[u] = NoSpan
    BY DEF FoldedTo
  <2> QED BY <2>1 DEF CitedBy, NoSpan
<1>2. resolved'[u] = Spans(t, r)[u] /\ behind'[u] = B[u]
  BY <1>1 DEF FoldedTo, Closes
<1>3. CASE u # t
  <2>1. Spans(t, r)[u] = resolved[u] /\ B[u] = behind[u]
    BY <1>3 DEF Spans, Closes, TimelinesTyped
  <2> QED BY <1>2, <2>1 DEF CitedBy
<1>4. CASE u = t
  <2>1. Spans(t, r)[t] = [is |-> r.is, cites |-> r.cites, version |-> walkVersion, owner |-> r.owner]
    BY DEF Spans, TimelinesTyped
  <2>2. CASE r.is # "Gap"
    BY <1>2, <1>4, <2>1, <2>2 DEF CitedBy
  <2>3. CASE r.is = "Gap" /\ resolved[t] # NoSpan
    <3>1. CitedBy(resolved', behind', t) = B[t].cites
      BY <1>2, <1>4, <2>1, <2>3 DEF CitedBy
    <3>2. CASE Same(t, r)
      BY <1>4, <2>3, <3>1, <3>2 DEF CitedBy, Same
    <3>3. CASE ~Same(t, r)
      BY <1>4, <2>3, <3>1, <3>3 DEF Closes
    <3> QED BY <3>2, <3>3
  <2> QED BY <1>2, <1>4, <2>2, <2>3
<1> QED BY <1>3, <1>4

\* A fold keeps the timelines typed.
LEMMA FoldTyped ==
    ASSUME TimelinesTyped, NEW t \in T, NEW r \in Readings(t[1]), FoldArrivingWalk(t, r)
    PROVE  TimelinesTyped'
<1>1. PICK gone : FoldedTo(t, r, gone)
  BY FoldShape
<1>2. /\ r.is \in {"Resolved", "NameError", "Gap"} /\ r.cites \subseteq ArrAddr
      /\ r.owner \in {"foreign", "zone"}
  BY ReadingTyped
<1>3. Spans(t, r) \in [T -> Span]
  BY <1>2 DEF Spans, TimelinesTyped, Span
<1>4. resolved' \in [T -> Span]
  BY <1>1, <1>3 DEF FoldedTo, NoSpan, Span
<1>5. \A S \in [T -> Span], B \in [T -> [version : Nat, cites : SUBSET ArrAddr]], u \in T :
         CitedBy(S, B, u) \subseteq ArrAddr /\ S[u].version \in Nat
  BY DEF CitedBy, Span
<1>6. \A S \in [T -> Span], B \in [T -> [version : Nat, cites : SUBSET ArrAddr]] :
      \A C : Closes(B, S, C) \in [T -> [version : Nat, cites : SUBSET ArrAddr]]
  BY <1>5 DEF Closes
<1>7. behind' \in [T -> [version : Nat, cites : SUBSET ArrAddr]]
  BY <1>1, <1>3, <1>6 DEF FoldedTo, TimelinesTyped
<1>8. closure' \in [ArrName -> {"none", "plain", "measured-absent", "descoped"}]
      /\ left' \in [ArrName -> {"never", "measured-absent", "descoped"}]
  <2> DEFINE B == IF resolved[t] = NoSpan \/ Same(t, r) THEN behind ELSE Closes(behind, resolved, {t})
  <2>1. PICK why \in {decideNameDeparture(Spans(t, r), t[1])} :
        \E X \in {IF why = "stays" THEN {} ELSE OpenOf(Spans(t, r), t[1])} :
           /\ closure' = [closure EXCEPT ![t[1]] = IF X # {} THEN why ELSE IF B # behind THEN "plain" ELSE @]
           /\ left' = IF X = {} THEN left ELSE [left EXCEPT ![t[1]] = why]
    BY DEF FoldArrivingWalk
  <2>2. PICK X \in {IF why = "stays" THEN {} ELSE OpenOf(Spans(t, r), t[1])} :
           /\ closure' = [closure EXCEPT ![t[1]] = IF X # {} THEN why ELSE IF B # behind THEN "plain" ELSE @]
           /\ left' = IF X = {} THEN left ELSE [left EXCEPT ![t[1]] = why]
    BY <2>1
  <2>3. X # {} => why \in {"descoped", "measured-absent"}
    BY <2>2, DepartureReasons
  <2> QED BY <2>2, <2>3, ArrivalsAssumption DEF TimelinesTyped
<1> QED BY <1>4, <1>7, <1>8 DEF TimelinesTyped, FoldArrivingWalk, declaredVars

\* The whole estate is known after a fold: what a timeline that opened cites is
\* told by its root, a re-point by an Address root unless a sibling cites it, it
\* is declared or it is refused, and the end of a Gap by sight restored.
LEMMA FoldTells ==
    ASSUME TimelinesTyped, NoSilentGround, NEW t \in T, NEW r \in Readings(t[1]), FoldArrivingWalk(t, r)
    PROVE  NoSilentGround'
<1> DEFINE n == t[1]
           opened == resolved[t] = NoSpan
<1>1. PICK gone : FoldedTo(t, r, gone)
  BY FoldShape
<1>2. /\ r.is \in {"Resolved", "NameError", "Gap"} /\ r.cites \subseteq ArrAddr
  BY ReadingTyped
<1>3. block' = block /\ refused' = refused
  BY DEF FoldArrivingWalk, declaredVars
<1>4. known' = (known \cup (r.cites \cap refused)
                     \cup (UNION {m.of : m \in {x \in told' : x.kind \in {"address", "sight"}}})
                     \cup (IF opened THEN UNION {CitedBy(resolved', behind', u) : u \in OpenOf(resolved', n)}
                           ELSE {}))
               \cap AddressPresent(resolved', behind')
  BY DEF FoldArrivingWalk
<1>5. rePointMessages(resolved', behind', t, r) \cup gapCloseMessages(t, r) \subseteq told'
  BY DEF FoldArrivingWalk
<1> SUFFICES ASSUME NEW a, a \in AddressPresent(resolved, behind)'
             PROVE  a \in known'
  BY DEF NoSilentGround
<1>6. /\ a \in ArrAddr /\ (OpenCiters(resolved', behind', a) # {} \/ Covered(a))
      /\ a \in AddressPresent(resolved', behind')
  BY <1>3 DEF AddressPresent, Covered, OpenCiters, CitedBy
<1>7. \A u \in T : a \in CitedBy(resolved, behind, u) => a \in known
  BY <1>6 DEF NoSilentGround, AddressPresent, OpenCiters
<1>8. CASE Covered(a)
  BY <1>4, <1>6, <1>8 DEF NoSilentGround, AddressPresent
<1>9. CASE OpenCiters(resolved', behind', a) # {} /\ ~Covered(a)
  <2>1. PICK u \in T : a \in CitedBy(resolved', behind', u)
    BY <1>9 DEF OpenCiters
  <2>2. CASE a \in CitedBy(resolved, behind, u)
    BY <1>4, <1>6, <1>7, <2>2
  <2>3. CASE resolved[t] = NoSpan /\ resolved'[t] = Spans(t, r)[t] /\ u = t
    <3>1. Spans(t, r)[t].is = r.is
      BY DEF Spans, TimelinesTyped
    <3>2. t \in OpenOf(resolved', n)
      BY <1>2, <2>3, <3>1 DEF OpenOf, NoSpan
    <3>3. a \in UNION {CitedBy(resolved', behind', v) : v \in OpenOf(resolved', n)}
      BY <2>1, <2>3, <3>2
    <3> QED BY <1>4, <1>6, <2>3, <3>3
  <2>4. CASE /\ resolved[t] # NoSpan /\ u = t /\ r.is # "Gap"
             /\ a \in r.cites /\ a \notin CitedBy(resolved, behind, t)
    <3>1. ~Same(t, r)
      BY <2>4 DEF Same, CitedBy
    <3>2. CASE resolved[t].is = "Gap"
      <4>1. Say("sight", n, r.cites) \in told'
        BY <1>5, <2>4, <3>2 DEF gapCloseMessages
      <4>2. Say("sight", n, r.cites).kind = "sight" /\ Say("sight", n, r.cites).of = r.cites
        BY DEF Say
      <4>3. r.cites \subseteq UNION {m.of : m \in {x \in told' : x.kind \in {"address", "sight"}}}
        BY <4>1, <4>2
      <4> QED BY <1>4, <1>6, <2>4, <4>3
    <3>3. CASE resolved[t].is # "Gap"
      <4>1. rePointed(t, r)
        BY <2>4, <3>1, <3>3 DEF rePointed
      <4>2. a \in r.cites \ resolved[t].cites
        BY <2>4, <3>3 DEF CitedBy
      <4>3. CASE OpenCiters(resolved', behind', a) \ {t} # {}
        <5>1. PICK v \in T : v # t /\ a \in CitedBy(resolved', behind', v)
          BY <4>3 DEF OpenCiters
        <5>2. a \in CitedBy(resolved, behind, v)
          BY <1>1, <5>1, FoldCites
        <5> QED BY <1>4, <1>6, <1>7, <5>2
      <4>4. CASE a \in refused
        BY <1>4, <1>6, <2>4, <4>4
      <4>5. CASE OpenCiters(resolved', behind', a) \ {t} = {} /\ a \notin refused
        <5>1. a \in addressesNewToEstate(resolved', behind', t, r)
          BY <1>9, <4>2, <4>5 DEF addressesNewToEstate
        <5>2. Say("address", a, {a}) \in told'
          BY <1>5, <4>1, <5>1 DEF rePointMessages
        <5>3. Say("address", a, {a}).kind = "address" /\ Say("address", a, {a}).of = {a}
          BY DEF Say
        <5>4. a \in UNION {m.of : m \in {x \in told' : x.kind \in {"address", "sight"}}}
          BY <5>2, <5>3
        <5> QED BY <1>4, <1>6, <5>4
      <4> QED BY <4>3, <4>4, <4>5
    <3> QED BY <3>2, <3>3
  <2> QED BY <1>1, <2>1, <2>2, <2>3, <2>4, FoldCites
<1> QED BY <1>6, <1>8, <1>9

\* A fold that closes a name's timelines records, with the reason, that it left.
LEMMA FoldLeaves ==
    ASSUME TimelinesTyped, ClosedAsLeft, NEW t \in T, NEW r \in Readings(t[1]), FoldArrivingWalk(t, r)
    PROVE  ClosedAsLeft'
BY DepartureReasons DEF FoldArrivingWalk, TimelinesTyped, ClosedAsLeft

\* What stands as gained after a fold is reached, or has just been.
LEMMA FoldStands ==
    ASSUME NEW t \in T, NEW r \in Readings(t[1]), FoldArrivingWalk(t, r)
    PROVE  StandingReached'
<1>1. standing' \subseteq ExtensionCandidates(resolved') \cup recent'
  BY DEF FoldArrivingWalk
<1>2. ExtensionCandidates(resolved)' = ExtensionCandidates(resolved')
  BY DEF ExtensionCandidates
<1> QED BY <1>1, <1>2 DEF StandingReached

\* The steps that are not folds leave the timelines as they are.
LEMMA OtherSteps ==
    ASSUME ArrivalsInv,
           \/ \E a \in ArrAddr : FoldHot(a)
           \/ DeclareBlock \/ ToggleExtension \/ Upgrade \/ Lapse
           \/ \E X \in {{n} : n \in ArrName} \cup {ArrBlock} : Refuse(X)
           \/ UNCHANGED arrivalVars
    PROVE  ArrivalsInv'
<1>1. resolved' = resolved /\ behind' = behind /\ closure' = closure /\ left' = left
  BY DEF FoldHot, DeclareBlock, ToggleExtension, Upgrade, Lapse, Refuse, arrivalVars, timelineVars
<1>2. TimelinesTyped'
  <2>1. block' \in BOOLEAN
    BY DEF ArrivalsInv, TimelinesTyped, FoldHot, DeclareBlock, ToggleExtension, Upgrade, Lapse,
       Refuse, arrivalVars, declaredVars
  <2>2. walkVersion' \in {walkVersion, walkVersion + 1}
    BY DEF FoldHot, DeclareBlock, ToggleExtension, Upgrade, Lapse, Refuse, arrivalVars
  <2> QED BY <1>1, <2>1, <2>2 DEF ArrivalsInv, TimelinesTyped
<1>3. ClosedAsLeft'
  BY <1>1 DEF ArrivalsInv, ClosedAsLeft
<1>4. StandingReached'
  BY <1>1 DEF ArrivalsInv, StandingReached, FoldHot, DeclareBlock, ToggleExtension, Upgrade, Lapse,
       Refuse, arrivalVars, timelineVars, ExtensionCandidates
<1>5. NoSilentGround'
  <2>1. CASE block' = block
    <3>1. known' = known
      BY <2>1 DEF FoldHot, DeclareBlock, ToggleExtension, Upgrade, Lapse,
           Refuse, arrivalVars, timelineVars, declaredVars, ArrivalsInv, TimelinesTyped
    <3> QED BY <1>1, <2>1, <3>1 DEF ArrivalsInv, NoSilentGround, AddressPresent, OpenCiters, CitedBy, Covered
  <2>2. CASE block' # block
    <3>1. /\ block' = ~block
          /\ known' = IF block THEN {a \in known : OpenCiters(resolved, behind, a) # {}} ELSE known \cup ArrBlock
      BY <2>2 DEF FoldHot, DeclareBlock, ToggleExtension, Upgrade, Lapse,
           Refuse, arrivalVars, timelineVars, declaredVars
    <3> QED BY <1>1, <3>1 DEF ArrivalsInv, NoSilentGround, AddressPresent, OpenCiters, CitedBy, Covered
  <2> QED BY <2>1, <2>2
<1> QED BY <1>2, <1>3, <1>4, <1>5 DEF ArrivalsInv

\* The invariant holds at the start: nothing resolves, and a declared block is known.
LEMMA ArrivalsStart == ArrivalsInit => ArrivalsInv
<1> SUFFICES ASSUME ArrivalsInit PROVE ArrivalsInv
  OBVIOUS
<1>1. TimelinesTyped
  BY ArrivalsAssumption DEF ArrivalsInit, TimelinesTyped, NoSpan, Span
<1>2. NoSilentGround
  <2>1. \A t \in T : CitedBy(resolved, behind, t) = {}
    BY DEF ArrivalsInit, CitedBy, NoSpan
  <2> QED BY <2>1 DEF ArrivalsInit, NoSilentGround, AddressPresent, OpenCiters, Covered
<1> QED BY <1>1, <1>2 DEF ArrivalsInit, ArrivalsInv, ClosedAsLeft, StandingReached

\* Every step keeps it.
LEMMA ArrivalsStep == ArrivalsInv /\ [ArrivalsNext]_arrivalVars => ArrivalsInv'
<1> SUFFICES ASSUME ArrivalsInv, [ArrivalsNext]_arrivalVars PROVE ArrivalsInv'
  OBVIOUS
<1>1. ASSUME NEW t \in T, NEW r \in Readings(t[1]), FoldArrivingWalk(t, r)
      PROVE  ArrivalsInv'
  BY <1>1, FoldTyped, FoldTells, FoldLeaves, FoldStands DEF ArrivalsInv
<1> QED BY <1>1, OtherSteps DEF ArrivalsNext

\* The invariant holds throughout.
LEMMA ArrivalsAlways == ArrivalsSpec => []ArrivalsInv
BY ArrivalsStart, ArrivalsStep, PTL DEF ArrivalsSpec

\* No address is in the estate that the operator neither declared nor was told of.
THEOREM NoSilentGroundHolds == ArrivalsSpec => []NoSilentGround
<1>1. ArrivalsInv => NoSilentGround
  BY DEF ArrivalsInv
<1> QED BY <1>1, ArrivalsAlways, PTL

\* 'returned' is told only of a name that last left by measurement.
LEMMA ReturnedStep ==
    ASSUME ArrivalsInv, ArrivalsNext, NEW m \in told', m.kind = "returned"
    PROVE  left[m.at] = "measured-absent"
<1>1. ASSUME NEW t \in T, NEW r \in Readings(t[1]), FoldArrivingWalk(t, r)
      PROVE  left[m.at] = "measured-absent"
  <2> DEFINE S == Spans(t, r)
  <2>1. m \in membershipMessages(S, t)
    <3>1. \/ m \in membershipMessages(S, t)
          \/ m \in rePointMessages(resolved', behind', t, r) \/ m \in gapCloseMessages(t, r)
          \/ m \in rebaselineMessages(t) \/ m \in extensionGainMessages(resolved', t, r)
          \/ \E why : m \in withdrawalMessages(t[1], why)
      BY <1>1 DEF FoldArrivingWalk
    <3> QED BY <3>1 DEF Say, rePointMessages, gapCloseMessages, rebaselineMessages, extensionGainMessages,
                withdrawalMessages
  <2>2. m.at = t[1] /\ membershipEntry(S, t[1]) = "returned"
    BY <2>1 DEF membershipMessages, Say
  <2>3. closure[t[1]] = "measured-absent"
    BY <2>2 DEF membershipEntry, reEntryInputs
  <2> QED BY <2>2, <2>3, ArrivalsAssumption DEF ArrivalsInv, ClosedAsLeft
<1>2. CASE ~ \E t \in T : \E r \in Readings(t[1]) : FoldArrivingWalk(t, r)
  <2>1. \/ \E a \in ArrAddr : FoldHot(a)
        \/ told' = {}
    BY <1>2 DEF ArrivalsNext, arrivalVars, DeclareBlock, ToggleExtension, Upgrade, Lapse, Refuse, ArrAct
  <2> QED BY <2>1 DEF FoldHot, Say
<1> QED BY <1>1, <1>2

\* An address told as gained did not stand as gained already.
LEMMA GainStep ==
    ASSUME ArrivalsInv, ArrivalsNext, NEW m \in told', m.kind = "gained"
    PROVE  m.of \cap standing = {}
<1>1. ASSUME NEW t \in T, NEW r \in Readings(t[1]), FoldArrivingWalk(t, r)
      PROVE  m.of \cap standing = {}
  <2> DEFINE S == Spans(t, r)
  <2>1. m \in extensionGainMessages(resolved', t, r)
    <3>1. \/ m \in membershipMessages(S, t)
          \/ m \in rePointMessages(resolved', behind', t, r) \/ m \in gapCloseMessages(t, r)
          \/ m \in rebaselineMessages(t) \/ m \in extensionGainMessages(resolved', t, r)
          \/ \E why : m \in withdrawalMessages(t[1], why)
      BY <1>1 DEF FoldArrivingWalk
    <3>2. membershipEntry(S, t[1]) # "gained"
      BY DEF membershipEntry
    <3> QED BY <3>1, <3>2 DEF Say, membershipMessages, rePointMessages, gapCloseMessages, rebaselineMessages,
                withdrawalMessages
  <2>2. m.of = extensionGains(resolved', t, r)
    BY <2>1 DEF extensionGainMessages, Say
  <2>3. m.of \subseteq ExtensionCandidates(resolved') \ ReachedBefore(t, r)
    BY <2>2 DEF extensionGains
  <2>4. CASE ~Same(t, r)
    BY <2>3, <2>4 DEF ReachedBefore, ArrivalsInv, StandingReached
  <2>5. CASE Same(t, r)
    <3>1. PICK gone : FoldedTo(t, r, gone)
      BY <1>1, FoldShape DEF ArrivalsInv
    <3>2. ExtensionCandidates(resolved') \subseteq ExtensionCandidates(Spans(t, r))
      BY <3>1 DEF ExtensionCandidates, FoldedTo, NoSpan
    <3> QED BY <2>3, <2>5, <3>2 DEF ReachedBefore
  <2> QED BY <2>4, <2>5
<1>2. CASE ~ \E t \in T : \E r \in Readings(t[1]) : FoldArrivingWalk(t, r)
  <2>1. \/ \E a \in ArrAddr : FoldHot(a)
        \/ told' = {}
    BY <1>2 DEF ArrivalsNext, arrivalVars, DeclareBlock, ToggleExtension, Upgrade, Lapse, Refuse, ArrAct
  <2> QED BY <2>1 DEF FoldHot, Say
<1> QED BY <1>1, <1>2

\* A gain is told once, and 'returned' only of what had left by measurement.
THEOREM ArrivalsToldHolds == ArrivalsSpec => ArrivalsTold
<1>1. ArrivalsInv /\ [ArrivalsNext]_arrivalVars =>
         [\A m \in told' : m.kind = "returned" => left[m.at] = "measured-absent"]_arrivalVars
  BY ReturnedStep
<1>2. ArrivalsInv /\ [ArrivalsNext]_arrivalVars =>
         [\A m \in told' : m.kind = "gained" => m.of \cap standing = {}]_arrivalVars
  BY GainStep
<1> QED BY <1>1, <1>2, ArrivalsAlways, PTL DEF ArrivalsSpec, ArrivalsTold, GainToldOnce, ReturnedMeansLeft

==============================================================================
