--------------------------- MODULE MCCensusRelease ---------------------------
(***************************************************************************)
(* What is held and what is retired: the census and its release, dispatch  *)
(* retention (CensusRelease), observation retention (Retention).  The two  *)
(* share no state, so a behaviour moves one of them, the focus, while the  *)
(* other rests.  Pollers are interchangeable.                              *)
(***************************************************************************)
EXTENDS CensusRelease, Retention, TLC

VARIABLE focus

Pollers == Permutations(Poller)

censusVars == <<focus, vars, retentionVars>>

CensusInit ==
    /\ focus \in {"census", "retention"}
    /\ Init /\ RetentionInit
    /\ focus = "census" => \A s \in Enabled : cadence[s] = Min(CadenceOf)
    /\ focus = "retention" => reaperOn

CensusNext ==
    \/ focus = "census" /\ Next /\ UNCHANGED <<focus, retentionVars>>
    \/ focus = "retention" /\ RetentionNext /\ UNCHANGED <<focus, vars>>

CensusSpec == CensusInit /\ [][CensusNext]_censusVars
=============================================================================
