------------------------------ MODULE MCEstate ------------------------------
(***************************************************************************)
(* The walk and what is folded of it: the resolver's reading of a batch of *)
(* names (Walk), and the spans, seeds, withdrawals and outages (Estate) of *)
(* a zone, a zone delegated beneath it and one address block.  The estate  *)
(* takes any outcome a walk may report, so the two share no variable: a    *)
(* behaviour moves one of them, the focus, while the other rests.          *)
(***************************************************************************)
EXTENDS Estate, Walk

CONSTANTS apex, sub, parent, child, range

VARIABLE focus

MCApex == [d \in Domain |-> IF d = parent THEN apex ELSE sub]
MCNamesIn == [d \in Domain |-> IF d = parent THEN Name ELSE {sub}]
MCAddrsIn == [b \in Block |-> Address]

\* A batch of two names and two qtypes.
MCNames == <<"n1", "n2">>
MCQtypes == <<"A", "NS">>

groundVars == <<focus, vars, walkVars>>

WalkRests == zone = "none" /\ batch = [kind |-> "none", phase |-> "rest"] /\ acc = "none" /\ out = <<>>

GroundInit ==
    /\ focus \in {"estate", "walk"}
    /\ Init
    /\ IF focus = "walk" THEN WalkInit ELSE WalkRests

GroundNext ==
    \/ focus = "estate" /\ Next /\ UNCHANGED <<focus, walkVars>>
    \/ focus = "walk" /\ WalkNext /\ UNCHANGED <<focus, vars>>

GroundSpec == GroundInit /\ [][GroundNext]_groundVars
=============================================================================
