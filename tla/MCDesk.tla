------------------------------- MODULE MCDesk -------------------------------
(***************************************************************************)
(* The operator's desk: accounts and sign-in, the sign-in limiter, the     *)
(* dials, backup and restore.  They share no state, so a behaviour moves   *)
(* one of them, the focus, while the others rest.                          *)
(***************************************************************************)
EXTENDS Accounts, Restore, LoginLimiter, Dials, TLC

VARIABLE focus

deskVars == <<focus, vars, restoreVars, limiterVars, dialVars>>

DeskInit ==
    /\ focus \in {"accounts", "restore", "limiter", "dials"}
    /\ Init /\ RestoreInit /\ LimiterInit /\ DialsInit
    /\ focus # "accounts" => Standing = {}

DeskNext ==
    /\ \/ focus = "accounts" /\ Next /\ UNCHANGED <<restoreVars, limiterVars, dialVars>>
       \/ focus = "restore" /\ RestoreNext /\ UNCHANGED <<vars, limiterVars, dialVars>>
       \/ focus = "limiter" /\ LimiterNext /\ UNCHANGED <<vars, restoreVars, dialVars>>
       \/ focus = "dials" /\ DialsNext /\ UNCHANGED <<vars, restoreVars, limiterVars>>
    /\ UNCHANGED focus

DeskSpec == DeskInit /\ [][DeskNext]_deskVars

Alike == Permutations(Account) \cup Permutations(Browser)
=============================================================================
