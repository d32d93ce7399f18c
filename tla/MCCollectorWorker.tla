------------------------- MODULE MCCollectorWorker --------------------------
(* CollectorWorker on a small instance.                                    *)
EXTENDS CollectorWorker

CONSTANTS l1, s1, s2

(* A complete report, one that falls short and one that failed at once.    *)
Whole == [digest |-> 1, status |-> "SUCCEEDED", own |-> {l1}]

Short == [digest |-> 2, status |-> "PARTIAL_FAILED", own |-> {l1}]

Failed == [digest |-> 3, status |-> "FAILED", own |-> {}]

MCReports == {Whole, Short, Failed}

MCEvidence == [rep \in MCReports |-> CASE rep = Whole  -> Shots
                                       [] rep = Short  -> {s1}
                                       [] rep = Failed -> {}]
=============================================================================
