----------------------------- MODULE MCScanQueue -----------------------------
(* Instances of ScanQueue: every tick belongs to one Scan of the named kind. *)
EXTENDS ScanQueue, TLC

MCScanOf      == [d \in Dispatch |-> "scan"]
HotScan       == [s \in {"scan"} |-> "hot"]
CTTailScan    == [s \in {"scan"} |-> "ct-tail"]

\* Ids carry no order in ScanQueue, so each set of ids may be permuted.
Ids ==
    Permutations(Dispatch) \cup Permutations(Job)
        \cup Permutations(Unit) \cup Permutations(Worker)
=============================================================================
