---------------------------- MODULE MCRunAlerts -----------------------------
(* RunAlerts on small instances.                                           *)
EXTENDS RunAlertsOutbox

CONSTANTS p1, p2

(* The rules stand: an evaluation finds the same alert each time.          *)
SteadyFindings == {{p1}}

(* The rules are edited between evaluations: one alert or two.             *)
EditedFindings == {{p1}, {p1, p2}}

=============================================================================
