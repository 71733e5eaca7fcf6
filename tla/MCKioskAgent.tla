---------------------------- MODULE MCKioskAgent -----------------------------
(* An instance of KioskAgent for TLC. *)
EXTENDS KioskAgent

CONSTANTS j1, j2
===============================================================================
