---------------------------- MODULE MCAdminConsole ----------------------------
(* An instance of AdminConsole for TLC. *)
EXTENDS AdminConsole
===============================================================================
