-------------------------- MODULE MCEvidenceStore ---------------------------
(* EvidenceStore on a small instance.                                      *)
EXTENDS EvidenceStore, TLC

(* The API's processes run on one host, or each on its own.                *)
OneHost == [p \in Processes |-> "h"]
TwoHosts == [p \in Processes |-> p]

(* The processes are alike: a symmetry set, for two hosts as for one.      *)
Alike == Permutations(Processes)
=============================================================================
