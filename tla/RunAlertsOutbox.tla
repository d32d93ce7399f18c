-------------------------- MODULE RunAlertsOutbox ---------------------------
(* RunAlerts implements AlertOutbox: a batch is a run's message, open while *)
(* it is PENDING or SENDING.                                                *)
EXTENDS RunAlerts

Standing(state) ==
    CASE state = "NONE" -> "none"
      [] state \in {"PENDING", "SENDING"} -> "owed"
      [] state = "NOTIFIED" -> "sent"
      [] state = "FAILED" -> "unsent"
      [] state = "AMBIGUOUS" -> "unknown"

standingBar == [r \in Runs |-> Standing(batch[r].state)]

Outbox == INSTANCE AlertOutbox WITH standing <- standingBar, told <- delivered

(* However passes, handlers, crashes and expired leases interleave, the    *)
(* batches of different runs included, delivery keeps the outbox's promise. *)
ImplementsOutbox == Outbox!OutboxSpec

=============================================================================
