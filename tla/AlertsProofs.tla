----------------------------- MODULE AlertsProofs -----------------------------
(***************************************************************************)
(* At most one message for a key in a cooldown, for any number of          *)
(* evaluations that overlap, any list of checks and any restarts.  What    *)
(* makes it so is that a key is noted in the step that decides to send:    *)
(* a message on its way, or counted, belongs to a key that cools down.     *)
(***************************************************************************)
EXTENDS Alerts, TLAPS

EvalRecords == [at : 0 .. Len(Checks), pc : {"query", "send", "post"}, due : BOOLEAN]

\* An evaluation that sends is at a key; one that posts has noted its key.
EvalsAgree ==
  \A e \in Evals : /\ eval[e].pc # "query" => eval[e].at > 0
                   /\ eval[e].pc = "post" => Key(e) \in cooling

\* What has been sent is noted.
PostsAgree == \A k \in Keys : posts[k] <= 1 /\ (posts[k] > 0 => k \in cooling)

AlertsInv == TypeOK /\ EvalsAgree /\ PostsAgree

\* The checks are a finite list, whose places are the keys.
LEMMA KeyFacts ==
  /\ Len(Checks) \in Nat \ {0}
  /\ \A i \in 1 .. Len(Checks) : Checks[i] \in Keys
  /\ Keys \subseteq {"offline", "ink", "paper"}
<1>1. Checks \in Seq({"offline", "ink", "paper"})
  BY AlertsAssumption
<1>2. Len(Checks) \in Nat \ {0} /\ DOMAIN Checks = 1 .. Len(Checks)
  BY <1>1, AlertsAssumption
<1>3. \A i \in 1 .. Len(Checks) : Checks[i] \in {"offline", "ink", "paper"}
  BY <1>1
<1> QED BY <1>2, <1>3 DEF Keys

\* The next place of an evaluation is a place.
LEMMA OnwardFacts ==
  ASSUME TypeOK, NEW e \in Evals
  PROVE  /\ Onward(e) \in EvalRecords /\ Onward(e).pc = "query"
         /\ NoEval \in EvalRecords /\ NoEval.pc = "query"
<1>1. eval[e].at \in Nat /\ Len(Checks) \in Nat
  BY KeyFacts DEF TypeOK
<1>2. \A a \in Nat, n \in Nat : (a + 1) % (n + 1) \in 0 .. n
  OBVIOUS
<1>3. (eval[e].at + 1) % (Len(Checks) + 1) \in 0 .. Len(Checks)
  BY <1>1, <1>2
<1> QED BY <1>1, <1>3 DEF Onward, NoEval, EvalRecords

\* At the start nobody evaluates and nothing has been sent.
LEMMA InitAlerts == AlertsInit => AlertsInv
<1> SUFFICES ASSUME AlertsInit PROVE AlertsInv
  OBVIOUS
<1>1. row \in Rows /\ sheets \in 0 .. MaxSheets /\ restarts \in 0 .. MaxRestarts
  BY RowAssumption, AlertsAssumption DEF AlertsInit, NewRow, Rows
<1>2. eval \in [Evals -> EvalRecords] /\ \A e \in Evals : eval[e].pc = "query"
  BY KeyFacts DEF AlertsInit, NoEval, EvalRecords
<1>3. posts \in [Keys -> Nat] /\ told \subseteq cooling /\ cooling \subseteq Keys
  BY DEF AlertsInit
<1>4. TypeOK
  BY <1>1, <1>2, <1>3 DEF TypeOK, EvalRecords
<1>5. EvalsAgree /\ PostsAgree
  BY <1>2 DEF AlertsInit, EvalsAgree, PostsAgree
<1> QED BY <1>4, <1>5 DEF AlertsInv

\* What the kiosk does changes its row only.
LEMMA KioskAlerts ==
  ASSUME AlertsInv,
         \/ \E ink \in Inks : StoreBeat(ink)
         \/ DropOut \/ FallSilent \/ PrintSheet \/ Refill \/ RestartAgent
  PROVE  AlertsInv'
<1> USE DEF Quietly, sending
<1>1. UNCHANGED <<eval, cooling, posts, told, restarts>>
  BY DEF StoreBeat, DropOut, FallSilent, PrintSheet, Refill, RestartAgent
<1>2. row \in Rows /\ sheets \in 0 .. MaxSheets
  BY DEF AlertsInv, TypeOK
<1>3. sheets' \in 0 .. MaxSheets
  <2>1. CASE PrintSheet
    BY <1>2, <2>1, RowAssumption DEF PrintSheet
  <2>2. CASE RestartAgent
    BY <2>2, RowAssumption DEF RestartAgent
  <2>3. CASE UNCHANGED sheets
    BY <1>2, <2>3
  <2> QED BY <2>1, <2>2, <2>3 DEF StoreBeat, DropOut, FallSilent, Refill
<1>4. row' \in Rows
  <2>1. ASSUME NEW ink \in Inks, StoreBeat(ink) PROVE row' \in Rows
    BY <1>2, <2>1 DEF StoreBeat, Heard, Connected, Rows
  <2>2. CASE DropOut \/ FallSilent \/ Refill
    BY <1>2, <2>2, RowAssumption DEF DropOut, FallSilent, Refill, Gone, Refilled, Rows
  <2>3. CASE PrintSheet \/ RestartAgent
    BY <1>2, <2>3 DEF PrintSheet, RestartAgent
  <2> QED BY <2>1, <2>2, <2>3
<1>5. TypeOK'
  BY <1>1, <1>3, <1>4 DEF AlertsInv, TypeOK
<1>6. EvalsAgree' /\ PostsAgree'
  BY <1>1 DEF AlertsInv, EvalsAgree, PostsAgree, Key
<1> QED BY <1>5, <1>6 DEF AlertsInv

\* A step of one evaluation e, to the record t.
LEMMA EvalStep ==
  ASSUME AlertsInv, NEW e \in Evals, NEW t \in EvalRecords,
         eval' = [eval EXCEPT ![e] = t],
         t.pc # "query" => t.at > 0,
         t.pc = "post" => Checks[t.at] \in cooling',
         cooling \subseteq cooling', cooling' \subseteq Keys, told' \subseteq cooling',
         posts' \in [Keys -> Nat], PostsAgree', UNCHANGED kiosk
  PROVE  AlertsInv'
<1>1. eval \in [Evals -> EvalRecords]
  BY DEF AlertsInv, TypeOK, EvalRecords
<1>2. eval'[e] = t /\ \A d \in Evals : d # e => eval'[d] = eval[d]
  BY <1>1
<1>3. eval' \in [Evals -> EvalRecords]
  BY <1>1
<1>4. TypeOK'
  BY <1>3 DEF AlertsInv, TypeOK, kiosk, EvalRecords
<1>5. EvalsAgree'
  BY <1>2 DEF AlertsInv, EvalsAgree, Key
<1> QED BY <1>4, <1>5 DEF AlertsInv

\* Evaluations: the key is noted in the step that counts its message.
LEMMA EvalAlerts ==
  ASSUME AlertsInv, NEW e \in Evals,
         \/ StartEval(e) \/ Query(e) \/ Send(e)
         \/ \E arrives \in BOOLEAN : Post(e, arrives)
  PROVE  AlertsInv'
<1> USE DEF sending
<1>0. /\ TypeOK /\ EvalsAgree /\ PostsAgree /\ eval[e] \in EvalRecords
      /\ Onward(e) \in EvalRecords /\ Onward(e).pc = "query"
  BY OnwardFacts DEF AlertsInv, TypeOK, EvalRecords
<1>a. told \subseteq cooling /\ cooling \subseteq Keys /\ posts \in [Keys -> Nat]
  BY <1>0 DEF TypeOK
<1>b. /\ eval[e].at \in 0 .. Len(Checks) /\ eval[e].due \in BOOLEAN
      /\ eval[e] = [at |-> eval[e].at, pc |-> eval[e].pc, due |-> eval[e].due]
  BY <1>0 DEF EvalRecords
<1>c. /\ eval[e].pc # "query" => eval[e].at > 0
      /\ eval[e].pc = "post" => Key(e) \in cooling
  <2>1. EvalsAgree
    BY <1>0
  <2> QED BY <2>1 DEF EvalsAgree, Key
<1>d. eval[e].at > 0 => Key(e) \in Keys
  <2>1. ASSUME eval[e].at > 0 PROVE eval[e].at \in 1 .. Len(Checks)
    <3>1. eval[e].at \in 0 .. Len(Checks) /\ Len(Checks) \in Nat
      BY <1>b, KeyFacts
    <3> QED BY <2>1, <3>1
  <2> QED BY <2>1, KeyFacts DEF Key
<1>1. CASE StartEval(e)
  <2> DEFINE t == [eval[e] EXCEPT !.at = 1]
  <2>1. eval' = [eval EXCEPT ![e] = t] /\ UNCHANGED <<kiosk, cooling, posts, told>>
    BY <1>1 DEF StartEval
  <2>2. t \in EvalRecords /\ t.pc = "query"
    <3>1. eval[e].pc = "query"
      BY <1>1 DEF StartEval, NoEval
    <3>2. 1 \in 0 .. Len(Checks)
      BY KeyFacts
    <3> QED BY <1>0, <1>b, <3>1, <3>2 DEF EvalRecords
  <2>3. PostsAgree'
    BY <1>0, <2>1 DEF PostsAgree
  <2> HIDE DEF t
  <2> QED BY <1>a, <2>1, <2>2, <2>3, EvalStep
<1>2. CASE Query(e)
  <2> DEFINE t == [eval[e] EXCEPT !.pc = "send", !.due = Due(Key(e))]
  <2>1. eval' = [eval EXCEPT ![e] = t] /\ UNCHANGED <<kiosk, cooling, posts, told>>
    BY <1>2 DEF Query
  <2>2. Due(Key(e)) \in BOOLEAN
    <3>1. Key(e) \in {"offline", "ink", "paper"}
      BY <1>2, <1>d, KeyFacts DEF Query
    <3> DEFINE k == Key(e)
    <3> HIDE DEF k
    <3>2. \A i \in {"offline", "ink", "paper"} : Due(i) \in BOOLEAN
      <4>1. Due("offline") \in BOOLEAN
        BY DEF Due
      <4>2. Due("ink") \in BOOLEAN
        BY DEF Due
      <4>3. Due("paper") \in BOOLEAN
        BY DEF Due
      <4> QED BY <4>1, <4>2, <4>3
    <3> QED BY <3>1, <3>2
  <2>3. t \in EvalRecords /\ t.pc = "send" /\ t.at > 0
    BY <1>0, <1>b, <1>2, <2>2 DEF Query, EvalRecords
  <2>4. PostsAgree'
    BY <1>0, <2>1 DEF PostsAgree
  <2> HIDE DEF t
  <2> QED BY <1>a, <2>1, <2>3, <2>4, EvalStep
<1>3. CASE Send(e)
  <2>1. eval[e].pc = "send" /\ Key(e) \in Keys /\ UNCHANGED <<kiosk, told>>
    BY <1>3, <1>d, <1>c DEF Send
  <2>2. CASE Key(e) \notin cooling /\ cooling' = cooling \cup {Key(e)}
             /\ posts' = [posts EXCEPT ![Key(e)] = @ + 1]
             /\ eval' = [eval EXCEPT ![e].pc = "post"]
    <3> DEFINE t == [eval[e] EXCEPT !.pc = "post"]
               k == Key(e)
    <3>1. t \in EvalRecords /\ t.pc = "post" /\ t.at = eval[e].at /\ t.at > 0
      BY <1>0, <1>c, <2>1 DEF EvalRecords
    <3>2. Checks[t.at] \in cooling'
      BY <2>2, <3>1 DEF Key
    <3>3. eval' = [eval EXCEPT ![e] = t]
      BY <2>2
    <3> HIDE DEF t, k
    <3>4. posts[k] = 0 /\ k \in Keys /\ k = Key(e)
      BY <1>0, <1>a, <2>1, <2>2 DEF PostsAgree, k
    <3>5. posts' \in [Keys -> Nat] /\ PostsAgree'
      BY <1>0, <1>a, <2>2, <3>4 DEF PostsAgree
    <3> QED BY <1>a, <2>1, <2>2, <3>1, <3>2, <3>3, <3>4, <3>5, EvalStep
  <2>3. CASE eval' = [eval EXCEPT ![e] = Onward(e)] /\ UNCHANGED <<cooling, posts>>
    <3>1. PostsAgree'
      BY <1>0, <2>3 DEF PostsAgree
    <3> QED BY <1>0, <1>a, <2>1, <2>3, <3>1, EvalStep
  <2> QED BY <1>3, <2>2, <2>3 DEF Send
<1>4. ASSUME NEW arrives \in BOOLEAN, Post(e, arrives) PROVE AlertsInv'
  <2>1. Key(e) \in cooling
    BY <1>c, <1>4 DEF Post
  <2>2. /\ eval' = [eval EXCEPT ![e] = Onward(e)] /\ UNCHANGED <<kiosk, cooling, posts>>
        /\ told' \subseteq cooling
    BY <1>4, <1>a, <2>1 DEF Post
  <2>3. PostsAgree'
    BY <1>0, <2>2 DEF PostsAgree
  <2> QED BY <1>0, <1>a, <2>2, <2>3, EvalStep
<1> QED BY <1>1, <1>2, <1>3, <1>4

\* A key that has cooled down may be used again: nothing that was sent for it
\* counts, and no message for it is on its way.
LEMMA CoolAlerts ==
  ASSUME AlertsInv, RestartAPI \/ \E k \in Keys : CoolDown(k)
  PROVE  AlertsInv'
<1> USE DEF kiosk
<1>0. TypeOK /\ EvalsAgree /\ PostsAgree
  BY DEF AlertsInv
<1>1. CASE RestartAPI
  <2>1. eval' \in [Evals -> EvalRecords] /\ \A e \in Evals : eval'[e].pc = "query"
    BY <1>1, KeyFacts DEF RestartAPI, NoEval, EvalRecords
  <2>2. restarts' \in 0 .. MaxRestarts
    BY <1>0, <1>1, AlertsAssumption DEF RestartAPI, TypeOK
  <2>3. posts' \in [Keys -> Nat] /\ \A k \in Keys : posts'[k] = 0
    BY <1>1 DEF RestartAPI
  <2>4. TypeOK'
    BY <1>0, <1>1, <2>1, <2>2, <2>3 DEF TypeOK, RestartAPI, EvalRecords
  <2>5. EvalsAgree' /\ PostsAgree'
    BY <2>1, <2>3 DEF EvalsAgree, PostsAgree
  <2> QED BY <2>4, <2>5 DEF AlertsInv
<1>2. ASSUME NEW k \in Keys, CoolDown(k) PROVE AlertsInv'
  <2>1. posts' \in [Keys -> Nat] /\ posts'[k] = 0
        /\ \A i \in Keys : i # k => posts'[i] = posts[i]
    BY <1>0, <1>2 DEF CoolDown, TypeOK
  <2>2. UNCHANGED <<row, sheets, restarts, eval>> /\ cooling' = cooling \ {k}
        /\ told' = told \ {k}
    BY <1>2 DEF CoolDown
  <2>3. TypeOK'
    BY <1>0, <2>1, <2>2 DEF TypeOK
  <2>4. EvalsAgree'
    BY <1>0, <1>2, <2>2 DEF EvalsAgree, Key, CoolDown
  <2>5. PostsAgree'
    BY <1>0, <2>1, <2>2 DEF PostsAgree
  <2> QED BY <2>3, <2>4, <2>5 DEF AlertsInv
<1> QED BY <1>1, <1>2

\* Every step keeps the invariant.
LEMMA NextAlerts == AlertsInv /\ [AlertsNext]_alertVars => AlertsInv'
<1> SUFFICES ASSUME AlertsInv, [AlertsNext]_alertVars PROVE AlertsInv'
  OBVIOUS
<1>1. CASE UNCHANGED alertVars
  BY <1>1 DEF alertVars, AlertsInv, TypeOK, EvalsAgree, PostsAgree, Key
<1> QED BY <1>1, KioskAlerts, EvalAlerts, CoolAlerts DEF AlertsNext

\* Types are kept, and messages on their way belong to keys that cool down.
THEOREM AlertsAreSound == AlertsSpec => []AlertsInv
<1>1. AlertsInit => AlertsInv
  BY InitAlerts
<1>2. AlertsInv /\ [AlertsNext]_alertVars => AlertsInv'
  BY NextAlerts
<1> QED BY <1>1, <1>2, PTL DEF AlertsSpec

\* Types are kept, for any number of evaluations and any list of checks.
THEOREM AlertsTypes == AlertsSpec => []TypeOK
<1>1. AlertsInv => TypeOK
  BY DEF AlertsInv
<1> QED BY <1>1, AlertsAreSound, PTL

\* "Rate-limited per key": in a cooldown at most one message goes out for a key,
\* for any number of overlapping evaluations and any list of checks.
THEOREM AlertsAreLimited == AlertsSpec => []OncePerCooldown
<1>1. AlertsInv => OncePerCooldown
  BY DEF AlertsInv, PostsAgree, OncePerCooldown
<1> QED BY <1>1, AlertsAreSound, PTL
===============================================================================
