--------------------------- MODULE EvidenceObject ---------------------------
(***************************************************************************)
(* What the evidence store promises of one object: it appears whole, one   *)
(* caller at most is told to have created it, and once any caller was told *)
(* of it, it stays.                                                        *)
(***************************************************************************)
VARIABLES present, told, created

object == <<present, told, created>>

ObjectInit == ~present /\ ~told /\ ~created

Appear ==
    /\ ~present /\ present' = TRUE
    /\ UNCHANGED <<told, created>>

(* A publication that fails half-way takes back what nobody was told of.   *)
Withdraw ==
    /\ present /\ ~told /\ present' = FALSE
    /\ UNCHANGED <<told, created>>

TellCreated ==
    /\ present /\ ~created
    /\ told' = TRUE /\ created' = TRUE
    /\ UNCHANGED present

TellExisting ==
    /\ present
    /\ told' = TRUE
    /\ UNCHANGED <<present, created>>

ObjectNext == Appear \/ Withdraw \/ TellCreated \/ TellExisting

ObjectSpec == ObjectInit /\ [][ObjectNext]_object

=============================================================================
