---------------------------- MODULE MCCustomerPage ----------------------------
(* Instances of CustomerPage for TLC. *)
EXTENDS CustomerPage, TLC

CONSTANTS d1, d2

DocumentThenPhoto == [j \in Jobs |-> IF j = 1 THEN "document" ELSE "photo"]
===============================================================================
