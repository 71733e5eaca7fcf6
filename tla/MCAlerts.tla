------------------------------- MODULE MCAlerts ------------------------------
(* An instance of Alerts for TLC. *)
EXTENDS Alerts

CONSTANTS e1, e2

KioskChecks == <<"offline", "ink", "paper">>
===============================================================================
