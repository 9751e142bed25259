----------------------------- MODULE MCDelivery -----------------------------
(***************************************************************************)
(* What the operator is told: the Messages a fold writes (Arrivals), their *)
(* way to the Channels (Delivery), report receipts and notices (Reports).  *)
(* They share no state, so a behaviour moves one of them, the focus, while *)
(* the others rest.                                                        *)
(***************************************************************************)
EXTENDS Delivery, Reports, Arrivals

CONSTANT drift

VARIABLE focus

\* Every Message is of one class, so a Channel either carries it or not.
MCClassOf == [m \in Message |-> drift]

\* A name of the zone seen from two vantages, and a foreign one.
MCTimelines == {<<"in", "v">>, <<"in", "w">>, <<"out", "v">>}

outboundVars == <<focus, vars, reportVars, arrivalVars>>

OutboundInit ==
    /\ focus \in {"delivery", "reports", "arrivals"}
    /\ Init /\ ReportInit /\ ArrivalsInit
    /\ focus # "arrivals" => ~block

OutboundNext ==
    /\ \/ focus = "delivery" /\ Next /\ UNCHANGED <<reportVars, arrivalVars>>
       \/ focus = "reports" /\ ReportNext /\ UNCHANGED <<vars, arrivalVars>>
       \/ focus = "arrivals" /\ ArrivalsNext /\ UNCHANGED <<vars, reportVars>>
    /\ UNCHANGED focus

\* Delivery's Fairness and Reports' ReportFairness, each while it is in focus.
InDelivery(A) == focus = "delivery" /\ A /\ UNCHANGED <<focus, reportVars, arrivalVars>>
InReports(A) == focus = "reports" /\ A /\ UNCHANGED <<focus, vars, arrivalVars>>

OutboundFairness ==
    /\ \A r \in Runner : /\ WF_outboundVars(InDelivery(Sending(r)))
                         /\ WF_outboundVars(InDelivery(\E p \in Pair : Claim(r, p)))
    /\ \A p \in ReportPoller : WF_outboundVars(InReports(Dispatch(p)))

OutboundSpec == OutboundInit /\ [][OutboundNext]_outboundVars /\ OutboundFairness
=============================================================================
