----------------------------- MODULE MCSources -----------------------------
(***************************************************************************)
(* The passive sources: the CT tail, the CT searches, the check of a       *)
(* certificate against its logs, the zone files.  They share no state, so  *)
(* a behaviour moves one of them, the focus, while the others rest.        *)
(***************************************************************************)
EXTENDS CTTail, CTSearch, CTVerify, ZoneFile

CONSTANTS zone, child

VARIABLE focus

\* Two nested zones: every second certificate is of the child's.
MCCovers == [e \in Entry |-> IF e % 2 = 0 THEN {zone} ELSE {zone, child}]
MCDepth == [s \in Seed |-> IF s = zone THEN 1 ELSE 2]

\* SCTs: embedded or not, readable or not, of a known log or not, tiled or not.
SCT(p, q, k, t) == [precert |-> p, parses |-> q, known |-> k, tiled |-> t]
MCSCTKinds == {SCT(TRUE, TRUE, TRUE, TRUE), SCT(FALSE, TRUE, TRUE, FALSE),
               SCT(FALSE, FALSE, TRUE, TRUE), SCT(FALSE, TRUE, FALSE, FALSE)}

\* Three files for one scope: a whole zone with a parenthesised SOA, inherited
\* owners and a wildcard; a file of the child's apex with no $ORIGIN, an unknown
\* type and an unowned line; a file of another zone.
MCAbsolute ==
    [t \in {"z.", "c.z.", "o."} |->
        CASE t = "z." -> <<"z">> [] t = "c.z." -> <<"c", "z">> [] OTHER -> <<"o">>]
MCScopes == << <<"z">> >>
MCFiles == {
    << <<"$ORIGIN", "z.">>, <<"@", "IN", "SOA", "w1", "(">>, <<"-", "w2", ";", "serial">>,
       <<"-", "w3", ")", ";", "minimum">>, <<"-", "3600", "A", "w1">>, <<"*", "IN", "A", "w1">>,
       <<"-", "A", "w2">> >>,
    << <<"-", "A", "w1">>, <<"c.z.", "IN", "SOA", "w1">>, <<"www", "TLSX", "w1">>, <<"-", "A", "w3">>,
       <<";", "note">>, <<"$TTL", "w1">> >>,
    << <<"o.", "IN", "SOA", "w1">> >> }

sourceVars == <<focus, vars, searchVars, verifyVars, zoneVars>>

VerifyRests == cert = "none" /\ logTree = << >> /\ position = 1 /\ checks = {} /\ verdict = "none"

SourcesInit ==
    /\ focus \in {"tail", "search", "verify", "zone"}
    /\ Init /\ SearchInit /\ ZoneInit
    /\ IF focus = "verify" THEN VerifyInit ELSE VerifyRests
    /\ focus # "tail" => tiled = {}

SourcesNext ==
    /\ \/ focus = "tail" /\ Next /\ UNCHANGED <<searchVars, verifyVars, zoneVars>>
       \/ focus = "search" /\ SearchNext /\ UNCHANGED <<vars, verifyVars, zoneVars>>
       \/ focus = "verify" /\ VerifyNext /\ UNCHANGED <<vars, searchVars, zoneVars>>
       \/ focus = "zone" /\ ZoneNext /\ UNCHANGED <<vars, searchVars, verifyVars>>
    /\ UNCHANGED focus

\* CTTail's Fairness, while it is in focus.
InTail(A) == focus = "tail" /\ A /\ UNCHANGED <<focus, searchVars, verifyVars, zoneVars>>

SourcesFairness ==
    /\ WF_sourceVars(InTail(FanOutCTTail))
    /\ \A w \in Worker : WF_sourceVars(InTail(Poll(w)))
    /\ \A l \in Log : /\ WF_sourceVars(InTail(Orphan(l) /\ Reap(l)))
                      /\ WF_sourceVars(InTail(\E w \in Worker : Claim(w, l)))

SourcesSpec == SourcesInit /\ [][SourcesNext]_sourceVars /\ SourcesFairness
=============================================================================
