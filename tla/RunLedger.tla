----------------------------- MODULE RunLedger ------------------------------
(***************************************************************************)
(* What the run queue, the agent API and report ingestion promise          *)
(* together: a model is worked one run at a time, a run is opened at most  *)
(* once and closed with one outcome that stands, and whoever is told that  *)
(* a report closed the run was told of that outcome.                       *)
(***************************************************************************)
CONSTANTS Models, RunIds, Reports, Quarantined, NoRun, NoOutcome

VARIABLES
    working,  \* the run each model is busy with, or NoRun
    outcome,  \* what closed each run: a report, Quarantined, or NoOutcome
    told      \* the reports acknowledged to their submitters

ledger == <<working, outcome, told>>

LedgerInit ==
    /\ working = [m \in Models |-> NoRun]
    /\ outcome = [r \in RunIds |-> NoOutcome]
    /\ told = {}

Open(r) ==
    /\ working[r.model] = NoRun
    /\ outcome[r] = NoOutcome
    /\ working' = [working EXCEPT ![r.model] = r]
    /\ UNCHANGED <<outcome, told>>

(* The submitter may learn of the outcome at once or later.                *)
Close(r, o) ==
    /\ working[r.model] = r
    /\ working' = [working EXCEPT ![r.model] = NoRun]
    /\ outcome' = [outcome EXCEPT ![r] = o]
    /\ \/ told' = told
       \/ o # Quarantined /\ told' = told \cup {<<r, o>>}

Answer(r) ==
    /\ outcome[r] \in Reports
    /\ told' = told \cup {<<r, outcome[r]>>}
    /\ UNCHANGED <<working, outcome>>

LedgerNext ==
    \E r \in RunIds :
        \/ Open(r)
        \/ \E o \in Reports \cup {Quarantined} : Close(r, o)
        \/ Answer(r)

LedgerSpec == LedgerInit /\ [][LedgerNext]_ledger

=============================================================================
