----------------------------- MODULE MCPrintKiosk -----------------------------
(* Instances of PrintKiosk for TLC: one or two jobs at one kiosk. *)
EXTENDS PrintKiosk, TLC

CONSTANTS o1, o2, c1, c2, k1, s1, s2

OneJob  == {1}
TwoJobs == {1, 2}
AtK1    == [j \in Jobs |-> k1]
Pdf     == [j \in Jobs |-> "pdf"]
Docx    == [j \in Jobs |-> "docx"]
Image   == [j \in Jobs |-> "image"]

\* Requests in flight are interchangeable (safety runs only).
SlotSymmetry == Permutations({s1, s2})
===============================================================================
