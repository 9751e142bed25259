------------------------------- MODULE Dials -------------------------------
(***************************************************************************)
(* The instance's dials and the acts that record their moves               *)
(* (cmd/web/dialtx.go and its callers).  A move is one transaction: lock   *)
(* the row the dial lives on, write the submitted value, and record an act *)
(* when the value differs from the one read under the lock.  The act       *)
(* commits with the move.                                                  *)
(***************************************************************************)
EXTENDS Naturals, Sequences, SequencesExt

CONSTANTS
    Operator,      \* admins submitting dials
    Submitted,     \* values a form may hold; 0 is the unbounded stop
    DialFloor,     \* the floor a retention dial is raised to
    MaxMoves       \* bound: submits

VARIABLES
    dial,    \* the stored values
    moving,  \* each operator's open transaction
    acts,    \* the act log's dial moves
    moves

dialVars == <<dial, moving, acts, moves>>

\* Which row holds a dial: its lock serialises every dial on it.
RowOf(d) ==
    CASE d \in {"observation currency", "dispatch cadence", "transcript currency"} -> "retention_settings"
      [] d \in {"address-scope cap", "update check", "API access"} -> "instance_config"
      [] d = "zone scan cadence" -> "scan zone"
      [] d = "dns scan cadence" -> "scan dns"

Dial == {"observation currency", "dispatch cadence", "transcript currency", "address-scope cap",
         "update check", "API access", "zone scan cadence", "dns scan cadence"}
NoMove == [row |-> "none"]

\* The forms: the dials each submits together, and the values it accepts.  The
\* two Coverage dials share one form; a value below the floor is raised to it.
ClampToFloor(v, floor) == IF v > 0 /\ v < floor THEN floor ELSE v
updateCoverageRetention == [{"observation currency", "dispatch cadence"} -> {ClampToFloor(v, DialFloor) : v \in Submitted}]
updateRetention == [{"transcript currency"} -> Submitted]
updateAddressCap == [{"address-scope cap"} -> Submitted \ {0}]
updateCheckToggle == [{"update check"} -> {0, 1}]
apiToggle == [{"API access"} -> {0, 1}]
setZoneInterval == [{"zone scan cadence"} -> Submitted \ {0}]
setDnsInterval == [{"dns scan cadence"} -> Submitted \ {0}]
Form == updateCoverageRetention \cup updateRetention \cup updateAddressCap \cup updateCheckToggle
            \cup apiToggle \cup setZoneInterval \cup setDnsInterval
RowOfForm(f) == RowOf(CHOOSE d \in DOMAIN f : TRUE)

\* Where a dial stands before any move: the floors at none and the switches off,
\* the rest at a value of their own.
Shipped ==
    [d \in Dial |-> IF d \in {"observation currency", "dispatch cadence", "update check", "API access"}
                    THEN 0 ELSE 1]

DialsInit ==
    /\ dial = Shipped
    /\ moving = [o \in Operator |-> NoMove]
    /\ acts = <<>>
    /\ moves = 0

RowFree_Unlocked(row) == TRUE
RowFree(row) == \A o \in Operator : moving[o].row # row

\* LockRetentionSettings, LockInstanceConfig, LockZoneCadenceSeconds, ...
LockDial(o, f) ==
    /\ moving[o] = NoMove /\ moves < MaxMoves
    /\ RowFree(RowOfForm(f))
    /\ moving' = [moving EXCEPT ![o] = [row |-> RowOfForm(f), form |-> f, seen |-> [d \in DOMAIN f |-> dial[d]]]]
    /\ moves' = moves + 1
    /\ UNCHANGED <<dial, acts>>

\* A dial left where it stood moved nothing, so it writes no row.
Recorded(m) ==
    LET moved == {d \in DOMAIN m.form : m.form[d] # m.seen[d]}
    IN SetToSeq({[dial |-> d, value |-> m.form[d]] : d \in moved})

\* The write, the act, the commit.
moveDial(o) ==
    /\ moving[o] # NoMove
    /\ dial' = [d \in Dial |-> IF d \in DOMAIN moving[o].form THEN moving[o].form[d] ELSE dial[d]]
    /\ acts' = acts \o Recorded(moving[o])
    /\ moving' = [moving EXCEPT ![o] = NoMove]
    /\ UNCHANGED moves

\* The write or the act fails: neither is left behind.
rollBackDial(o) ==
    /\ moving[o] # NoMove
    /\ moving' = [moving EXCEPT ![o] = NoMove]
    /\ UNCHANGED <<dial, acts, moves>>

DialsNext ==
    \E o \in Operator : \/ \E f \in Form : LockDial(o, f)
                        \/ moveDial(o) \/ rollBackDial(o)

DialsSpec == DialsInit /\ [][DialsNext]_dialVars

-----------------------------------------------------------------------------
\* A later move of the same dial, with none of it between.
NextMove(i, j) ==
    /\ i < j /\ acts[i].dial = acts[j].dial
    /\ \A k \in (i + 1)..(j - 1) : acts[k].dial # acts[i].dial
LastMove(i) == \A j \in DOMAIN acts : i < j => acts[j].dial # acts[i].dial

\* The act log is the dials' history: for each dial the recorded moves all
\* change it, the last one is where it stands, and one with no move stands where
\* it shipped, however two submits overlap (ADR-1914: outside one locked section
\* they repeat a row or lose one).
LogTellsDials ==
    /\ \A i, j \in DOMAIN acts : NextMove(i, j) => acts[i].value # acts[j].value
    /\ \A i \in DOMAIN acts : LastMove(i) => dial[acts[i].dial] = acts[i].value
    /\ \A d \in Dial : (\A i \in DOMAIN acts : acts[i].dial # d) => dial[d] = Shipped[d]
=============================================================================
