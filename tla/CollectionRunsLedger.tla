------------------------ MODULE CollectionRunsLedger ------------------------
(***************************************************************************)
(* CollectionRuns implements RunLedger.  A model is working on its         *)
(* unfinished run; the outcome of a finished run is its stored report, or  *)
(* Quarantined when it has none.                                           *)
(***************************************************************************)
EXTENDS CollectionRuns

CONSTANTS Quarantined, NoOutcome

ASSUME OutcomesAssumption ==
    /\ Quarantined \notin Reports
    /\ NoOutcome \notin Reports \cup {Quarantined}

workingBar ==
    [m \in Models |-> IF UnfinishedRuns(m) = {} THEN NoRun
                     ELSE CHOOSE r \in UnfinishedRuns(m) : TRUE]

outcomeBar ==
    [r \in RunIds |-> IF runs[r].status \notin Terminal THEN NoOutcome
                     ELSE IF runs[r].report = NoReport THEN Quarantined
                     ELSE runs[r].report]

Ledger == INSTANCE RunLedger WITH working <- workingBar, outcome <- outcomeBar, told <- acked

(* Every behaviour of the run table is one of the ledger: one run of a     *)
(* model at a time, each opened once and closed once by what its           *)
(* submitters are told.                                                    *)
ImplementsLedger == Ledger!LedgerSpec

=============================================================================
