---------------------------- MODULE AlertOutbox -----------------------------
(***************************************************************************)
(* What alert delivery promises: a run's message is owed once, told at     *)
(* most once, and the run's standing, once it says so, says truly whether  *)
(* the message was told.  Only a standing of "unknown" leaves it open: its *)
(* message may have been told or may still be.                             *)
(***************************************************************************)
EXTENDS Naturals

CONSTANT Runs

VARIABLES
    standing,  \* of each run's message
    told       \* how often each run's message was told

outbox == <<standing, told>>

OutboxInit ==
    /\ standing = [r \in Runs |-> "none"]
    /\ told = [r \in Runs |-> 0]

Owe(r) ==
    /\ standing[r] = "none"
    /\ standing' = [standing EXCEPT ![r] = "owed"]
    /\ UNCHANGED told

Tell(r) ==
    /\ standing[r] \in {"owed", "unknown"}
    /\ told[r] = 0
    /\ told' = [told EXCEPT ![r] = 1]
    /\ UNCHANGED standing

Settle(r) ==
    /\ standing[r] = "owed"
    /\ standing' = [standing EXCEPT ![r] = "unknown"]
    /\ UNCHANGED told

SettleTruly(r) ==
    /\ standing[r] = "owed"
    /\ standing' = [standing EXCEPT ![r] = IF told[r] = 1 THEN "sent" ELSE "unsent"]
    /\ UNCHANGED told

OutboxNext == \E r \in Runs : Owe(r) \/ Tell(r) \/ Settle(r) \/ SettleTruly(r)

OutboxSpec == OutboxInit /\ [][OutboxNext]_outbox

=============================================================================
