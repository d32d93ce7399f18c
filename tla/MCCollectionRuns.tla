-------------------------- MODULE MCCollectionRuns --------------------------
(* CollectionRuns on small instances.                                      *)
EXTENDS CollectionRunsLedger, TLC

CONSTANTS l1, l2

(* A complete report for either listing, and a partial one for the first.  *)
MCReports ==
    {[digest |-> 1, status |-> "SUCCEEDED", own |-> {l1}],
     [digest |-> 2, status |-> "SUCCEEDED", own |-> {l2}],
     [digest |-> 3, status |-> "PARTIAL_FAILED", own |-> {l1}]}

(* Every interleaving of two reports on two slots; with the third slot at  *)
(* most two runs of their own, the others coalesced, and one report.       *)
ThreeSlotsOneReport ==
    (\E r \in RunIds : r.slot = 3 /\ runs[r].status # "ABSENT") =>
        /\ Cardinality({r \in RunIds : runs[r].status \notin {"ABSENT", "COALESCED"}}) <= 2
        /\ Cardinality(requests) <= 1

(* Agents are interchangeable.                                             *)
AgentSymmetry == Permutations(Agents)

=============================================================================
