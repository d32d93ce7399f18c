--------------------------- MODULE MCAlertActions ---------------------------
(* AlertActions on a small instance.                                       *)
EXTENDS AlertActions, TLC

OperatorSymmetry == Permutations(Operators)

=============================================================================
