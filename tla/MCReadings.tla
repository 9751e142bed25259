----------------------------- MODULE MCReadings -----------------------------
(***************************************************************************)
(* From a reading to what is made of it: the probers, the registries and   *)
(* their proposals, what a fold tells of an endpoint, the signals page and *)
(* the drift feed.                                                         *)
(* They share no state, so a behaviour moves one of them, the focus, while *)
(* the others rest.                                                        *)
(***************************************************************************)
EXTENDS Prober, Proposals, MCCause, Board, DriftFeed, TLC

VARIABLE focus

Alike == Permutations(Operators)

\* Prober: two versions.
MCVersions == <<"1.2", "1.3">>

\* Registry: two delegations, an organisation known by its ASN and by its
\* members, a customer's net and a contact's.
MCDelegated == [i \in {1, 2} |-> IF i = 1 THEN [start |-> 4, count |-> 2] ELSE [start |-> 3, count |-> 1]]
MCRecords == {[key |-> 1, asn |-> 1, members |-> {}], [key |-> 0, asn |-> 0, members |-> {1, 2}]}
MCASNKey == [a \in {1, 2} |-> IF a = 2 THEN 2 ELSE 1]
MCEntities == {[class |-> "customer", nets |-> {[base |-> 4, size |-> 2]}],
               [class |-> "poc", nets |-> {[base |-> 0, size |-> 8]}]}
MCHand == {[base |-> 4, size |-> 2]}

\* Board: each vantage presents its own address; a zone file of two lines.
MCPresented == [v \in Vantages |-> IF v = "v1" THEN {"a1"} ELSE {"a2"}]
MCService == [addr |-> <<1, 0>>, port |-> 22, transport |-> "tcp"]
MCName == <<"www", "zone">>
MCZone == [origin |-> <<"zone">>,
           lines  |-> <<[kind |-> "owner", at |-> TRUE, absolute |-> FALSE, name |-> <<>>, type |-> "SOA"],
                        [kind |-> "owner", at |-> FALSE, absolute |-> FALSE, name |-> <<"www">>, type |-> "A"]>>]
MCBlocks == {[prefix |-> <<1>>, fires |-> TRUE]}
MCOrder == [s \in {"name", "service", "endpoint"} |-> CASE s = "name" -> 1 [] s = "service" -> 2 [] OTHER -> 3]

\* DriftFeed: two lines of a name, one of a service.
MCSubjectOf == [l \in Lines |-> IF l = 3 THEN "svc" ELSE "name"]
MCKindOf == [s \in Subjects |-> IF s = "svc" THEN "service" ELSE "name"]

readingVars == <<focus, probeVars, heard, proposalVars, causeVars, boardVars, driftVars>>

ProbeRests ==
    /\ world = "none" /\ job = [kind |-> "none"] /\ run = 0 /\ pacer = 0
    /\ clock = 0 /\ dues = <<>> /\ obs = {}

ReadingsInit ==
    /\ focus \in {"probe", "registry", "proposals", "cause", "board", "drift"}
    /\ IF focus = "probe" THEN ProbeInit ELSE ProbeRests
    /\ RegistryInit /\ ProposalInit /\ CauseInit /\ BoardInit /\ DriftInit

ReadingsNext ==
    \/ focus = "probe" /\ ProbeNext /\ UNCHANGED <<focus, heard, proposalVars, causeVars, boardVars, driftVars>>
    \/ focus = "registry" /\ Ask /\ UNCHANGED <<focus, probeVars, proposalVars, causeVars, boardVars, driftVars>>
    \/ focus = "proposals" /\ ProposalNext /\ UNCHANGED <<focus, probeVars, heard, causeVars, boardVars, driftVars>>
    \/ focus = "cause" /\ CauseNext /\ UNCHANGED <<focus, probeVars, heard, proposalVars, boardVars, driftVars>>
    \/ focus = "board" /\ BoardNext /\ UNCHANGED <<focus, probeVars, heard, proposalVars, causeVars, driftVars>>
    \/ focus = "drift" /\ DriftNext /\ UNCHANGED <<focus, probeVars, heard, proposalVars, causeVars, boardVars>>

ReadingsSpec == ReadingsInit /\ [][ReadingsNext]_readingVars
=============================================================================
