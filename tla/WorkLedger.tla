----------------------------- MODULE WorkLedger ------------------------------
(***************************************************************************)
(* What the measurement queue promises about one unit of work of one       *)
(* dispatch, however many queue_job rows, workers, reaps and operator acts *)
(* it takes: it is opened at most once, and it is closed at most once, by  *)
(* exactly one verdict, which then stands.                                 *)
(***************************************************************************)
CONSTANT Line                      \* (dispatch, unit) pairs

VARIABLE verdict

Closed == {"completed", "dead-lettered", "lost", "cancelled"}

\* A line opens, then closes.  One transaction may move many lines.
Advance(from, to) ==
    \/ to = from
    \/ from = "absent" /\ to = "open"
    \/ from = "open" /\ to \in Closed

LedgerInit == verdict = [l \in Line |-> "absent"]

LedgerNext ==
    /\ verdict' \in [Line -> {"absent", "open"} \cup Closed]
    /\ \A l \in Line : Advance(verdict[l], verdict'[l])

LedgerSpec == LedgerInit /\ [][LedgerNext]_verdict
=============================================================================
