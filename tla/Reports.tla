------------------------------ MODULE Reports ------------------------------
(***************************************************************************)
(* On-cadence reports (internal/report, cmd/web/reports_schedule.go): the  *)
(* schedules an operator declares, the dispatcher that cuts one receipt    *)
(* per due tick, the operator's Run now beside it, and the runner that     *)
(* posts a receipt's notice to its Channel.                                *)
(*                                                                         *)
(* A tick is an instant of a small clock; a cadence is the number of       *)
(* instants between two firings.  A receipt is the row (schedule, number). *)
(* The artifact is recomputed when it is viewed and is not part of it.     *)
(***************************************************************************)
EXTENDS Naturals, FiniteSets

CONSTANTS
    Schedule,      \* schedule ids
    Hook,          \* Channels a schedule may be bound to
    ReportPoller,  \* dispatcher processes
    Poster,        \* notify runners
    Cadence,       \* the cadences in use: instants between two firings
    MaxNow,        \* bound: the last instant
    MaxRunNow,     \* bound: Run now requests
    MaxScheduleEdits,  \* bound: schedule acts
    PostBudget,    \* max_attempts of a notice
    NoSchedule

ASSUME ReportAssumption ==
    /\ Cadence \subseteq Nat \ {0} /\ Hook \subseteq Nat \ {0}
    /\ {MaxNow, PostBudget} \subseteq Nat \ {0} /\ {MaxRunNow, MaxScheduleEdits} \subseteq Nat

VARIABLES
    schedules,  \* the schedule rows
    receipts,   \* report_delivery: schedule, number, tick (0: Run now), state
    notices,    \* report_notification: receipt, channel, state, attempt
    now,
    poll,       \* a dispatcher's listing and the receipt it is numbering
    runNow,     \* the Run now requests' read numbers
    posting,    \* the notice each runner holds
    scheduleEdits

reportVars == <<schedules, receipts, notices, now, poll, runNow, posting, scheduleEdits>>

Binding == Hook \cup {0}
ReceiptKey(r) == [sched |-> r.sched, no |-> r.no]
IdlePoll == [at |-> "idle", list |-> {}, row |-> NoSchedule, no |-> 0]

ScheduleRow == [channel : Binding, cadence : Cadence]
Listed == [id : Schedule, row : ScheduleRow]
Key == [sched : Schedule, no : Nat]
ReceiptRow == [sched : Schedule, no : Nat, tick : Nat, state : {"generated", "delivered"}]
Notice == [receipt : Key, channel : Hook, attempt : 1..PostBudget,
           state : {"pending", "sending", "delivered", "undelivered"}]
\* Between two schedules, or holding one's lock with its receipt numbered.
Between == [at : {"idle", "list"}, list : SUBSET Listed, row : {NoSchedule}, no : {0}]
Cutting == [at : {"cut"}, list : SUBSET Listed, no : Nat,
            row : [id : Schedule, row : ScheduleRow, tick : Nat \ {0}]]

ReportTypeOK ==
    /\ schedules \in [Schedule -> ScheduleRow \cup {NoSchedule}]
    /\ receipts \subseteq ReceiptRow /\ notices \subseteq Notice
    /\ now \in 1..MaxNow
    /\ poll \in [ReportPoller -> Between \cup Cutting]
    /\ runNow \subseteq Key
    /\ posting \in [Poster -> SUBSET Notice]
    /\ scheduleEdits \in 0..MaxScheduleEdits

ReportInit ==
    /\ schedules = [s \in Schedule |-> NoSchedule]
    /\ receipts = {} /\ notices = {}
    /\ now = 1
    /\ poll = [p \in ReportPoller |-> IdlePoll]
    /\ runNow = {}
    /\ posting = [w \in Poster |-> {}]
    /\ scheduleEdits = 0

\* The next instant.
Tick ==
    /\ now < MaxNow /\ now' = now + 1
    /\ UNCHANGED <<schedules, receipts, notices, poll, runNow, posting, scheduleEdits>>

-----------------------------------------------------------------------------
(* The operator's acts. *)

Exists(s) == schedules[s] # NoSchedule

\* InsertReportSchedule, once the wizard's form is valid.
createReportSchedule(s, ch, c) ==
    /\ ~Exists(s) /\ scheduleEdits < MaxScheduleEdits
    /\ ~\E r \in receipts : r.sched = s
    /\ schedules' = [schedules EXCEPT ![s] = [channel |-> ch, cadence |-> c]]
    /\ scheduleEdits' = scheduleEdits + 1
    /\ UNCHANGED <<receipts, notices, now, poll, runNow, posting>>

\* UpdateReportSchedule in place; an unknown id edits nothing.
editReportSchedule(s, ch, c) ==
    /\ Exists(s) /\ scheduleEdits < MaxScheduleEdits
    /\ schedules' = [schedules EXCEPT ![s] = [channel |-> ch, cadence |-> c]]
    /\ scheduleEdits' = scheduleEdits + 1
    /\ UNCHANGED <<receipts, notices, now, poll, runNow, posting>>

\* A schedule with receipts is pinned by their foreign key, and the delete fails.
deleteReportSchedule(s) ==
    /\ Exists(s) /\ scheduleEdits < MaxScheduleEdits
    /\ ~\E r \in receipts : r.sched = s
    /\ schedules' = [schedules EXCEPT ![s] = NoSchedule]
    /\ scheduleEdits' = scheduleEdits + 1
    /\ UNCHANGED <<receipts, notices, now, poll, runNow, posting>>

-----------------------------------------------------------------------------
(* Numbering and inserting a receipt. *)

NextReportDeliveryNo_Scheduled(s) == 1 + Cardinality({r \in receipts : r.sched = s /\ r.tick > 0})
NextReportDeliveryNo(s) ==
    LET nos == {r.no : r \in {x \in receipts : x.sched = s}}
    IN IF nos = {} THEN 1 ELSE 1 + CHOOSE n \in nos : \A m \in nos : m <= n

\* The keys of report_delivery: its number, and its tick when it has one.
NumberTaken(s, no) == \E r \in receipts : r.sched = s /\ r.no = no
TickTaken_Delivered(s, tick) == \E r \in receipts : r.sched = s /\ r.tick = tick /\ r.state = "delivered"
TickTaken(s, tick) == \E r \in receipts : r.sched = s /\ r.tick = tick

Receipt(s, no, tick) == [sched |-> s, no |-> no, tick |-> tick, state |-> "generated"]

\* Run now: read the schedule, number the receipt; then insert it, with no lock
\* in between and no notice.
runReportScheduleNow(s) ==
    /\ Exists(s) /\ Cardinality({r \in receipts : r.tick = 0}) + Cardinality(runNow) < MaxRunNow
    /\ runNow' = runNow \cup {[sched |-> s, no |-> NextReportDeliveryNo(s)]}
    /\ UNCHANGED <<schedules, receipts, notices, now, poll, posting, scheduleEdits>>

InsertReportDelivery(q) ==
    /\ q \in runNow
    /\ runNow' = runNow \ {q}
    /\ receipts' = IF NumberTaken(q.sched, q.no) \/ ~Exists(q.sched) THEN receipts
                   ELSE receipts \cup {Receipt(q.sched, q.no, 0)}
    /\ UNCHANGED <<schedules, notices, now, poll, posting, scheduleEdits>>

-----------------------------------------------------------------------------
(* The dispatcher. *)

\* The last firing at or before the instant: two polls between firings agree.
DispatchTick(at, c) == at - (at % c)

\* One listing for the whole pass.
dispatchDue(p) ==
    /\ poll[p].at = "idle"
    /\ poll' = [poll EXCEPT ![p] = [IdlePoll EXCEPT !.at = "list",
                   !.list = {[id |-> s, row |-> schedules[s]] : s \in {x \in Schedule : Exists(x)}}]]
    /\ UNCHANGED <<schedules, receipts, notices, now, runNow, posting, scheduleEdits>>

LockFree(s) == \A p \in ReportPoller : poll[p].at = "cut" => poll[p].row.id # s

\* dispatchOne under the schedule's advisory lock: number the receipt.
dispatchNumber(p, x) ==
    /\ poll[p].at = "list" /\ x \in poll[p].list /\ LockFree(x.id)
    /\ DispatchTick(now, x.row.cadence) > 0
    /\ poll' = [poll EXCEPT ![p] = [at |-> "cut", list |-> @.list \ {x}, no |-> NextReportDeliveryNo(x.id),
                   row |-> [id |-> x.id, row |-> x.row, tick |-> DispatchTick(now, x.row.cadence)]]]
    /\ UNCHANGED <<schedules, receipts, notices, now, runNow, posting, scheduleEdits>>

\* A cadence that has not fired yet.
dispatchNothing(p, x) ==
    /\ poll[p].at = "list" /\ x \in poll[p].list
    /\ DispatchTick(now, x.row.cadence) = 0
    /\ poll' = [poll EXCEPT ![p].list = @ \ {x}]
    /\ UNCHANGED <<schedules, receipts, notices, now, runNow, posting, scheduleEdits>>

Done(p) == poll' = [poll EXCEPT ![p] = [@ EXCEPT !.at = "list", !.row = NoSchedule, !.no = 0]]

\* ... and insert it with its notice, in one transaction.  A taken tick is a
\* skip; a taken number or a schedule that is gone rolls the receipt back.
TryInsertScheduledDelivery(p) ==
    LET s == poll[p].row.id
        ch == poll[p].row.row.channel
        refused == \/ TickTaken(s, poll[p].row.tick)
                   \/ NumberTaken(s, poll[p].no)
                   \/ ~Exists(s)
    IN /\ poll[p].at = "cut"
       /\ receipts' = IF refused THEN receipts ELSE receipts \cup {Receipt(s, poll[p].no, poll[p].row.tick)}
       /\ notices' = IF refused \/ ch = 0 THEN notices
                     ELSE notices \cup {[receipt |-> [sched |-> s, no |-> poll[p].no], channel |-> ch,
                                         state |-> "pending", attempt |-> 1]}
       /\ Done(p)
       /\ UNCHANGED <<schedules, now, runNow, posting, scheduleEdits>>

dispatchEnd(p) ==
    /\ poll[p].at = "list" /\ poll[p].list = {}
    /\ poll' = [poll EXCEPT ![p] = IdlePoll]
    /\ UNCHANGED <<schedules, receipts, notices, now, runNow, posting, scheduleEdits>>

-----------------------------------------------------------------------------
(* The notify runner. *)

\* pending -> sending, skipping locked rows.
ClaimReportNotification(w, n) ==
    /\ posting[w] = {} /\ n \in notices /\ n.state = "pending"
    /\ notices' = (notices \ {n}) \cup {[n EXCEPT !.state = "sending"]}
    /\ posting' = [posting EXCEPT ![w] = {n}]
    /\ UNCHANGED <<schedules, receipts, now, poll, runNow, scheduleEdits>>

\* delivery.Decide: retry below the budget, dead-letter at it.
NoticeAfter(n, delivered) ==
    IF delivered THEN [n EXCEPT !.state = "delivered"]
    ELSE IF n.attempt < PostBudget THEN [n EXCEPT !.state = "pending", !.attempt = @ + 1]
    ELSE [n EXCEPT !.state = "undelivered"]

\* The receipt the mark flips with its notice: the one that was delivered.
Flips(n, delivered) == {r \in receipts : delivered /\ ReceiptKey(r) = n.receipt}

\* The POST is answered and its verdict marked; both rows of a delivery move in
\* one transaction.
postNotice(w, n, delivered) ==
    /\ n \in posting[w]
    /\ LET flipped == Flips(n, delivered)
       IN receipts' = (receipts \ flipped) \cup {[r EXCEPT !.state = "delivered"] : r \in flipped}
    /\ notices' = {m \in notices : m.receipt # n.receipt} \cup {NoticeAfter(n, delivered)}
    /\ posting' = [posting EXCEPT ![w] = {}]
    /\ UNCHANGED <<schedules, now, poll, runNow, scheduleEdits>>

\* The channel cannot be loaded, its secret cannot be opened, the mark fails or
\* the process dies: the row stays 'sending'.
loseNotice(w) ==
    /\ posting[w] # {}
    /\ posting' = [posting EXCEPT ![w] = {}]
    /\ UNCHANGED <<schedules, receipts, notices, now, poll, runNow, scheduleEdits>>

Dispatch(p) ==
    \/ dispatchDue(p)
    \/ \E x \in poll[p].list : dispatchNumber(p, x) \/ dispatchNothing(p, x)
    \/ TryInsertScheduledDelivery(p)
    \/ dispatchEnd(p)

ReportNext ==
    \/ Tick
    \/ \E s \in Schedule, ch \in Binding, c \in Cadence : createReportSchedule(s, ch, c) \/ editReportSchedule(s, ch, c)
    \/ \E s \in Schedule : deleteReportSchedule(s) \/ runReportScheduleNow(s)
    \/ \E q \in runNow : InsertReportDelivery(q)
    \/ \E p \in ReportPoller : Dispatch(p)
    \/ \E w \in Poster : \/ \E n \in notices : ClaimReportNotification(w, n)
                         \/ \E n \in posting[w], d \in BOOLEAN : postNotice(w, n, d)
                         \/ loseNotice(w)

\* A dispatcher polls every minute; everything else may never happen.
ReportFairness == \A p \in ReportPoller : WF_reportVars(Dispatch(p))

ReportSpec == ReportInit /\ [][ReportNext]_reportVars /\ ReportFairness

-----------------------------------------------------------------------------
\* However often and by however many processes a window is polled, beside Run
\* now and edits of the schedule, a tick has one receipt, and a receipt says
\* delivered exactly when its one notice does (dispatchOne, markDelivered).
OneReceiptPerTick ==
    /\ \A r, x \in receipts : r.sched = x.sched /\ r.tick = x.tick /\ r.tick > 0 => r = x
    /\ \A n, x \in notices : n.receipt = x.receipt => n = x
    /\ \A r \in receipts : r.state = "delivered" <=> \E n \in notices : n.receipt = ReceiptKey(r) /\ n.state = "delivered"

\* A firing no later one supersedes is cut for every schedule that stands, also
\* when Run now takes the number the dispatcher had read (dispatchOne).
LastTickCut ==
    <>[](\A s \in Schedule : Exists(s) /\ DispatchTick(MaxNow, schedules[s].cadence) > 0 /\ now = MaxNow =>
            TickTaken(s, DispatchTick(MaxNow, schedules[s].cadence)))
=============================================================================
