------------------------------- MODULE Delivery -------------------------------
(***************************************************************************)
(* The outbound half of a Notification Channel.  The transaction that      *)
(* writes a Message routes it: one `delivery` row per enabled Channel that *)
(* carries its class.  Runners claim the due rows, POST the body and       *)
(* record what came of it; an operator edits Channels meanwhile.           *)
(*                                                                         *)
(* A claim, a POST and the mark after it are three steps with nothing      *)
(* holding the row between them, and no reaper returns a row whose runner  *)
(* died: 'sending' is left only by the mark of the runner that claimed it. *)
(***************************************************************************)
EXTENDS Naturals, FiniteSets

CONSTANTS
    Message,      \* rows of the message table, to be written
    Channel,      \* ids of the channel table
    Class,        \* drift, coverage, clock
    ClassOf,      \* the class of a Message
    Runner,       \* delivery loops, one per worker process
    MaxAttempts,  \* delivery.max_attempts
    MaxEdits,     \* bound on the operator's edits and the faults of a behaviour
    NoPair

Pair == Message \X Channel

ASSUME DeliveryAssumption ==
    /\ ClassOf \in [Message -> Class]
    /\ MaxAttempts \in Nat \ {0}
    /\ MaxEdits \in Nat
    /\ NoPair \notin Pair

RowStates == {"none", "pending", "sending", "delivered", "undelivered"}
Settled   == {"delivered", "undelivered"}

VARIABLES
    \* the channel table
    chan,       \* whether a Channel id is unused, live or deleted
    carries,    \* the classes it is routed; {} while it is disabled
    opens,      \* whether the worker's key opens its secret
    \* the transactions that write Messages
    written,    \* whether a Message is unwritten, in its transaction, committed
    listed,     \* the Channels its transaction's ListChannels routed it to
    \* the delivery table
    state,      \* delivery.state
    attempt,    \* delivery.attempt
    \* the runners
    holds,      \* the row a runner claimed
    heldAttempt,\* the attempt the claim returned
    answer,     \* what its send came to, before it is recorded
    \* the world
    tries,      \* sends made for a row
    got,        \* POSTs the receiver accepted for it
    edits       \* operator edits and faults so far

channelVars == <<chan, carries, opens>>
writerVars  == <<written, listed>>
rowVars     == <<state, attempt>>
runnerVars  == <<holds, heldAttempt, answer>>
worldVars   == <<tries, got>>
vars == <<channelVars, writerVars, rowVars, runnerVars, worldVars, edits>>

TypeOK ==
    /\ chan \in [Channel -> {"unused", "live", "deleted"}]
    /\ carries \in [Channel -> SUBSET Class]
    /\ opens \in [Channel -> BOOLEAN]
    /\ written \in [Message -> {"no", "listing", "yes"}]
    /\ listed \in [Message -> SUBSET Channel]
    /\ state \in [Pair -> RowStates]
    /\ attempt \in [Pair -> 0..MaxAttempts]
    /\ holds \in [Runner -> Pair \cup {NoPair}]
    /\ heldAttempt \in [Runner -> 0..MaxAttempts]
    /\ answer \in [Runner -> {"none", "2xx", "failed"}]
    /\ tries \in [Pair -> Nat]
    /\ got \in [Pair -> Nat]
    /\ edits \in 0..MaxEdits

Init ==
    /\ chan = [c \in Channel |-> "unused"]
    /\ carries = [c \in Channel |-> {}]
    /\ opens = [c \in Channel |-> TRUE]
    /\ written = [m \in Message |-> "no"]
    /\ listed = [m \in Message |-> {}]
    /\ state = [p \in Pair |-> "none"]
    /\ attempt = [p \in Pair |-> 0]
    /\ holds = [r \in Runner |-> NoPair]
    /\ heldAttempt = [r \in Runner |-> 0]
    /\ answer = [r \in Runner |-> "none"]
    /\ tries = [p \in Pair |-> 0]
    /\ got = [p \in Pair |-> 0]
    /\ edits = 0

-----------------------------------------------------------------------------
(***************************************************************************)
(* The operator's Channels.                                                *)
(***************************************************************************)

Edit == edits < MaxEdits /\ edits' = edits + 1

\* createChannel: at least one class, and it lands enabled.
CreateChannel(c) ==
    /\ chan[c] = "unused"
    /\ chan' = [chan EXCEPT ![c] = "live"]
    /\ \E K \in (SUBSET Class) \ {{}} : carries' = [carries EXCEPT ![c] = K]
    /\ UNCHANGED <<opens, writerVars, rowVars, runnerVars, worldVars, edits>>

\* updateChannel: classes and the enabled flag together, and then perhaps the
\* secret, cleared or sealed anew under the key in force.
UpdateChannel(c) ==
    /\ Edit
    /\ chan[c] = "live"
    /\ \E K \in SUBSET Class : carries' = [carries EXCEPT ![c] = K]
    /\ \E secretSet \in BOOLEAN : opens' = [opens EXCEPT ![c] = @ \/ secretSet]
    /\ UNCHANGED <<chan, writerVars, rowVars, runnerVars, worldVars>>

\* Variant for mutation: a delete that the delivery rows do not restrain.
Deletable_Always(c) == chan[c] = "live"

\* The foreign keys: no delivery row may name the Channel.
Deletable(c) == chan[c] = "live" /\ \A m \in Message : state[<<m, c>>] = "none"

DeleteChannel(c) ==
    /\ Deletable(c)
    /\ chan' = [chan EXCEPT ![c] = "deleted"]
    /\ carries' = [carries EXCEPT ![c] = {}]
    /\ UNCHANGED <<opens, writerVars, rowVars, runnerVars, worldVars, edits>>

\* The transcript-key volume is replaced: secrets sealed under it stop opening.
ReplaceKey ==
    /\ Edit
    /\ \E S \in SUBSET {c \in Channel : chan[c] = "live"} :
        opens' = [c \in Channel |-> opens[c] /\ c \notin S]
    /\ UNCHANGED <<chan, carries, writerVars, rowVars, runnerVars, worldVars>>

-----------------------------------------------------------------------------
(***************************************************************************)
(* EnqueueForMessage, inside the transaction that writes the Message.      *)
(***************************************************************************)

\* Enabled and Routes: class alone routes.
Routes(c, class) == chan[c] = "live" /\ class \in carries[c]

ListChannels(m) ==
    /\ written[m] = "no"
    /\ written' = [written EXCEPT ![m] = "listing"]
    /\ listed' = [listed EXCEPT ![m] = {c \in Channel : Routes(c, ClassOf[m])}]
    /\ UNCHANGED <<channelVars, rowVars, runnerVars, worldVars, edits>>

\* Every InsertDelivery finds its Channel.
Insertable(m) ==
    written[m] = "listing" /\ \A c \in listed[m] : chan[c] = "live"

\* The Message and its delivery rows commit together.
CommitMessage(m) ==
    /\ Insertable(m)
    /\ written' = [written EXCEPT ![m] = "yes"]
    /\ state' = [p \in Pair |->
            IF p[1] = m /\ p[2] \in listed[m] THEN "pending" ELSE state[p]]
    /\ attempt' = [p \in Pair |->
            IF p[1] = m /\ p[2] \in listed[m] THEN 1 ELSE attempt[p]]
    /\ UNCHANGED <<channelVars, listed, runnerVars, worldVars, edits>>

\* An InsertDelivery fails on a deleted Channel, or the process dies: the
\* transaction rolls back, Message and all, and its job runs again later.
RollBackMessage(m) ==
    /\ written[m] = "listing"
    /\ written' = [written EXCEPT ![m] = "no"]
    /\ listed' = [listed EXCEPT ![m] = {}]
    /\ UNCHANGED <<channelVars, rowVars, runnerVars, worldVars, edits>>

-----------------------------------------------------------------------------
(***************************************************************************)
(* A Runner.                                                               *)
(***************************************************************************)

\* Variant for mutation: the last attempt is never claimed.
Claimable_NeverLast(p) == state[p] = "pending" /\ attempt[p] < MaxAttempts

\* A pending row; run_after passes with time.
Claimable(p) == state[p] = "pending"

\* ClaimDelivery (SKIP LOCKED: no two runners claim one pending row).
Claim(r, p) ==
    /\ holds[r] = NoPair
    /\ Claimable(p)
    /\ state' = [state EXCEPT ![p] = "sending"]
    /\ holds' = [holds EXCEPT ![r] = p]
    /\ heldAttempt' = [heldAttempt EXCEPT ![r] = attempt[p]]
    /\ UNCHANGED <<channelVars, writerVars, attempt, answer, worldVars, edits>>

Unsent(r) == holds[r] # NoPair /\ answer[r] = "none"

\* sendToChannel and SendSigned: the receiver answers 2xx; or it accepts and the
\* answer is lost or is no 2xx; or nothing reaches it (guardTarget, dial, TLS).
Post(r) ==
    LET p == holds[r] IN
    /\ Unsent(r)
    /\ opens[p[2]]
    /\ tries' = [tries EXCEPT ![p] = @ + 1]
    /\ \E reached \in BOOLEAN, code \in {"2xx", "failed"} :
        /\ code = "2xx" => reached
        /\ answer' = [answer EXCEPT ![r] = code]
        /\ got' = [got EXCEPT ![p] = IF reached THEN @ + 1 ELSE @]
    /\ UNCHANGED <<channelVars, writerVars, rowVars, holds, heldAttempt, edits>>

LetGo(r) ==
    /\ holds' = [holds EXCEPT ![r] = NoPair]
    /\ heldAttempt' = [heldAttempt EXCEPT ![r] = 0]
    /\ answer' = [answer EXCEPT ![r] = "none"]

\* Variant for mutation: one send more than the budget.
Decide_OffByOne(delivered, att) ==
    CASE delivered -> "delivered"
      [] ~delivered /\ att <= MaxAttempts -> "pending"
      [] OTHER -> "undelivered"

\* Decide, as the state its verdict writes.
Decide(delivered, att) ==
    CASE delivered -> "delivered"
      [] ~delivered /\ att < MaxAttempts -> "pending"
      [] OTHER -> "undelivered"

\* post's switch: MarkDeliveryDelivered, RetryDelivery or MarkDeliveryUndelivered,
\* each by id alone.
Mark(r) ==
    LET p == holds[r]
        verdict == Decide(answer[r] = "2xx", heldAttempt[r]) IN
    /\ answer[r] # "none"
    /\ state' = [state EXCEPT ![p] = verdict]
    /\ attempt' = [attempt EXCEPT ![p] = IF verdict = "pending" THEN heldAttempt[r] + 1 ELSE @]
    /\ LetGo(r)
    /\ UNCHANGED <<channelVars, writerVars, worldVars, edits>>

\* Variant for mutation: an unopenable secret recorded as a failed delivery.
FaultState_Undelivered(p) == "undelivered"

\* What a fault leaves in the claimed row: nothing writes it.
FaultState(p) == state[p]

\* errOpenSecret: post returns before Decide.
OpenSecretFault(r) ==
    /\ Unsent(r)
    /\ ~opens[holds[r][2]]
    /\ state' = [state EXCEPT ![holds[r]] = FaultState(holds[r])]
    /\ LetGo(r)
    /\ UNCHANGED <<channelVars, writerVars, attempt, worldVars, edits>>

\* The process dies, or a load or a mark errors and Drain gives the row up.
Crash(r) ==
    /\ Edit
    /\ holds[r] # NoPair
    /\ LetGo(r)
    /\ UNCHANGED <<channelVars, writerVars, rowVars, worldVars>>

-----------------------------------------------------------------------------
Configuring(c) == CreateChannel(c) \/ UpdateChannel(c) \/ DeleteChannel(c)

Writing(m) == ListChannels(m) \/ CommitMessage(m) \/ RollBackMessage(m)

Sending(r) == Post(r) \/ OpenSecretFault(r) \/ Mark(r)

Next ==
    \/ \E c \in Channel : Configuring(c)
    \/ ReplaceKey
    \/ \E m \in Message : Writing(m)
    \/ \E r \in Runner : Sending(r) \/ Crash(r) \/ \E p \in Pair : Claim(r, p)

Spec == Init /\ [][Next]_vars

\* Run ticks for ever: a runner drains what is due, and a claimed row is sent (the
\* client has a timeout) and marked.  Operators and writers owe nothing.
Fairness ==
    \A r \in Runner : WF_vars(Sending(r)) /\ WF_vars(\E p \in Pair : Claim(r, p))

FairSpec == Spec /\ Fairness

-----------------------------------------------------------------------------
(***************************************************************************)
(* Properties.                                                             *)
(***************************************************************************)

\* A runner's claim is its own: the marks name the row by id alone, so two
\* runners holding one row would overwrite each other's outcome.
OneSender ==
    \A r, s \in Runner : (r # s /\ holds[r] # NoPair) => holds[r] # holds[s]

\* The record is honest: 'delivered' only where the receiver accepted a POST, and
\* 'undelivered' only once the whole budget of sends is spent, so no fault of ours
\* (errOpenSecret, ADR-0172) reads as a receiver that could not be reached.
HonestRecord ==
    \A p \in Pair :
        /\ state[p] = "delivered" => got[p] > 0
        /\ state[p] = "undelivered" => tries[p] = MaxAttempts

\* The books balance: a row waiting for its next send has made one send fewer than
\* its attempt says, a claimed row matches its runner's claim, and a row stranded in
\* flight has made no more sends than its attempt.  Inductive with the invariants
\* beside it, and what bounds the budget.
Accounted ==
    /\ \A p \in Pair :
        /\ state[p] = "none" => tries[p] = 0
        /\ state[p] # "none" => attempt[p] > 0 /\ tries[p] <= attempt[p]
        /\ state[p] = "pending" => tries[p] + 1 = attempt[p]
    /\ \A r \in Runner :
        /\ holds[r] = NoPair => answer[r] = "none"
        /\ holds[r] # NoPair =>
            /\ state[holds[r]] = "sending"
            /\ heldAttempt[r] = attempt[holds[r]]
            /\ answer[r] = "none" => tries[holds[r]] + 1 = attempt[holds[r]]
            /\ answer[r] # "none" => tries[holds[r]] = attempt[holds[r]]
            /\ answer[r] = "2xx" => got[holds[r]] > 0

\* The request rate at somebody else's server is bounded: a routed pair is sent
\* at most MaxAttempts times, whatever runners, faults and retries do.
BudgetKept == \A p \in Pair : tries[p] <= MaxAttempts

\* A Message commits with a row for every Channel its transaction listed, no row
\* precedes its Message, and a delivery row always has its Channel, though an
\* operator deletes Channels between the listing and the inserts.
RoutedWhole ==
    /\ \A p \in Pair : written[p[1]] # "yes" => state[p] = "none"
    /\ \A m \in Message : written[m] = "yes" =>
          \A c \in listed[m] : state[<<m, c>>] # "none"
    /\ \A p \in Pair : state[p] # "none" => chan[p[2]] = "live"

\* A recorded outcome stands: nothing sends or marks a settled row again.
SettledIsFinal ==
    [][\A p \in Pair : state[p] \in Settled =>
            state'[p] = state[p] /\ tries'[p] = tries[p]]_vars

\* In flight in the table, and in no runner's hands.
Orphaned(p) == state[p] = "sending" /\ \A r \in Runner : holds[r] # p

\* Every pending row is worked off: it settles, or a fault strands it.
WorkedOff == \A p \in Pair : state[p] = "pending" ~> (state[p] \in Settled \/ Orphaned(p))
=============================================================================
