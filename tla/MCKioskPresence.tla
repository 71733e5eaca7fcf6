--------------------------- MODULE MCKioskPresence ---------------------------
(* An instance of KioskPresence for TLC. *)
EXTENDS KioskPresence

CONSTANTS j1, j2
===============================================================================
