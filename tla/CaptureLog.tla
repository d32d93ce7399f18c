----------------------------- MODULE CaptureLog -----------------------------
(***************************************************************************)
(* What collecting one run promises, whatever happens to the process: each *)
(* SKU is captured once, nothing captured is lost unless the search has to *)
(* be done again, and the report that closes the run says exactly what was *)
(* captured.                                                               *)
(***************************************************************************)
CONSTANTS Items,  \* platform items
          Own,    \* the items of the job's own listings
          Skus

VARIABLES captured,  \* the SKUs with a result
          prices,    \* those whose result is a price
          closed     \* the report is handed over

vars == <<captured, prices, closed>>

Init == captured = {} /\ prices = {} /\ closed = FALSE

(* A SKU gets its only result.                                             *)
Capture(k) ==
    /\ ~closed
    /\ k \in (Items \X Skus) \ captured
    /\ captured' = captured \cup {k}
    /\ prices' \in {prices, prices \cup {k}}
    /\ UNCHANGED closed

(* The search is forgotten with everything it led to.                      *)
ForgetSearch ==
    /\ ~closed
    /\ captured' = captured \cap (Own \X Skus)
    /\ prices' = prices \cap (Own \X Skus)
    /\ UNCHANGED closed

Close ==
    /\ ~closed
    /\ closed' = TRUE
    /\ UNCHANGED <<captured, prices>>

Next == (\E k \in Items \X Skus : Capture(k)) \/ ForgetSearch \/ Close

Spec == Init /\ [][Next]_vars
=============================================================================
