---------------------------- MODULE PrintContract -----------------------------
(***************************************************************************)
(* What the kiosk promises about money and files, whatever happens inside: *)
(* an order is taken for one job, and given back at most once; a file is   *)
(* released, and a refund announced, only for a job for which an order was *)
(* taken, or given back.  PrintKiosk implements it.                        *)
(***************************************************************************)
CONSTANTS Jobs, Orders

VARIABLES
  held,      \* orders whose money the provider holds for a job
  returned,  \* orders whose money it has given back
  out,       \* jobs of which an agent has received the file
  told       \* jobs that are shown as REFUNDED
contractVars == <<held, returned, out, told>>

Init ==
  /\ held = [j \in Jobs |-> {}] /\ returned = [j \in Jobs |-> {}]
  /\ out = {} /\ told = {}

Take(j, o) ==
  /\ \A i \in Jobs : o \notin held[i] \cup returned[i]
  /\ held' = [held EXCEPT ![j] = @ \cup {o}]
  /\ UNCHANGED <<returned, out, told>>

GiveBack(j, o) ==
  /\ o \in held[j]
  /\ held' = [held EXCEPT ![j] = @ \ {o}]
  /\ returned' = [returned EXCEPT ![j] = @ \cup {o}]
  /\ UNCHANGED <<out, told>>

Release(j) ==
  /\ held[j] \cup returned[j] # {}
  /\ out' = out \cup {j}
  /\ UNCHANGED <<held, returned, told>>

Tell(j) ==
  /\ returned[j] # {}
  /\ told' = told \cup {j}
  /\ UNCHANGED <<held, returned, out>>

\* A late report of a failed print may hide that its money is back.
Hide(j) == told' = told \ {j} /\ UNCHANGED <<held, returned, out>>

Next ==
  \E j \in Jobs :
    \/ Release(j) \/ Tell(j) \/ Hide(j)
    \/ \E o \in Orders : Take(j, o) \/ GiveBack(j, o)

Spec == Init /\ [][Next]_contractVars
===============================================================================
