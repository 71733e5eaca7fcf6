------------------------------- MODULE Alerts --------------------------------
(***************************************************************************)
(* The alerts of the sweep loop (alerts.service.ts, sweeps.service.ts run) *)
(* about a kiosk whose row follows its heartbeats, refills and drops.  The *)
(* interval does not wait for the run before: evaluations overlap.  (The    *)
(* alert about failure rates counts jobs, which are not modelled here.)     *)
(***************************************************************************)
EXTENDS KioskRow, Sequences

CONSTANTS
  Evals,       \* bound: evaluations at a time
  Checks,      \* the alert keys, in the order of evaluate()
  LowSheets,   \* paperCapacity - PAPER_THRESHOLD_SHEETS
  MaxRestarts  \* bound: restarts of the API

ASSUME AlertsAssumption ==
  /\ Checks \in Seq({"offline", "ink", "paper"}) /\ Checks # <<>>
  /\ LowSheets \in 0 .. MaxSheets
  /\ MaxRestarts \in Nat

VARIABLES
  row,       \* the kiosk's row
  sheets,    \* the agent's own count
  eval,      \* the evaluations
  cooling,   \* lastSentAt: keys that were used within ALERT_COOLDOWN_MIN
  posts,     \* messages sent for a key since it last cooled down
  told,      \* keys of which a message arrived since then
  restarts
alertVars == <<row, sheets, eval, cooling, posts, told, restarts>>
kiosk   == <<row, sheets, restarts>>
sending == <<cooling, posts, told>>

Keys == {Checks[i] : i \in DOMAIN Checks}
NoEval == [at |-> 0, pc |-> "query", due |-> FALSE]

AlertsInit ==
  /\ row = NewRow /\ sheets = 0 /\ eval = [e \in Evals |-> NoEval]
  /\ cooling = {} /\ posts = [k \in Keys |-> 0] /\ told = {} /\ restarts = 0

(***************************************************************************)
(* The kiosk.                                                              *)
(***************************************************************************)
Quietly == UNCHANGED <<eval, sending>>

StoreBeat(ink) ==
  /\ row' = Heard(row, [ink |-> ink, sheets |-> sheets])
  /\ UNCHANGED <<sheets, restarts>> /\ Quietly

DropOut == /\ row' = Gone(row)
           /\ UNCHANGED <<sheets, restarts>> /\ Quietly

\* OFFLINE_AFTER_MIN without a heartbeat.
FallSilent == /\ row.status # "ONLINE" /\ row.seen = "lately" /\ row' = [row EXCEPT !.seen = "past"]
              /\ UNCHANGED <<sheets, restarts>> /\ Quietly

PrintSheet == /\ sheets < MaxSheets /\ sheets' = sheets + 1
              /\ UNCHANGED <<row, restarts>> /\ Quietly

\* Field staff: the row is reset, the agent's count is not.
Refill == /\ row' = Refilled(row)
          /\ UNCHANGED <<sheets, restarts>> /\ Quietly

RestartAgent == sheets' = 0 /\ UNCHANGED <<row, restarts>> /\ Quietly

(***************************************************************************)
(* evaluate(): a query, and the message if one is due, for each key.       *)
(***************************************************************************)
Due(k) ==
  CASE k = "offline" -> row.status = "OFFLINE" /\ row.seen # "lately"
    [] k = "ink"     -> row.ink = "low"
    [] k = "paper"   -> row.sheets > LowSheets

Key(e) == Checks[eval[e].at]
Onward(e) == [at |-> (eval[e].at + 1) % (Len(Checks) + 1), pc |-> "query", due |-> FALSE]

StartEval(e) ==
  /\ eval[e] = NoEval /\ eval' = [eval EXCEPT ![e].at = 1]
  /\ UNCHANGED <<kiosk, sending>>

Query(e) ==
  /\ eval[e].at > 0 /\ eval[e].pc = "query"
  /\ eval' = [eval EXCEPT ![e].pc = "send", ![e].due = Due(Key(e))]
  /\ UNCHANGED <<kiosk, sending>>

\* Mutant: a key counts as used once a message has arrived.
SendUntilTold(e) ==
  /\ eval[e].pc = "send"
  /\ IF eval[e].due /\ Key(e) \notin told
     THEN /\ cooling' = cooling \cup {Key(e)}
          /\ posts' = [posts EXCEPT ![Key(e)] = @ + 1]
          /\ eval' = [eval EXCEPT ![e].pc = "post"]
     ELSE eval' = [eval EXCEPT ![e] = Onward(e)] /\ UNCHANGED <<cooling, posts>>
  /\ UNCHANGED <<kiosk, told>>

\* send(): nothing is sent while the key cools down; the time is noted before
\* the message goes out.
Send(e) ==
  /\ eval[e].pc = "send"
  /\ IF eval[e].due /\ Key(e) \notin cooling
     THEN /\ cooling' = cooling \cup {Key(e)}
          /\ posts' = [posts EXCEPT ![Key(e)] = @ + 1]
          /\ eval' = [eval EXCEPT ![e].pc = "post"]
     ELSE eval' = [eval EXCEPT ![e] = Onward(e)] /\ UNCHANGED <<cooling, posts>>
  /\ UNCHANGED <<kiosk, told>>

\* The message arrives, or fails, which is logged.
Post(e, arrives) ==
  /\ eval[e].pc = "post" /\ eval' = [eval EXCEPT ![e] = Onward(e)]
  /\ told' = IF arrives THEN told \cup {Key(e)} ELSE told
  /\ UNCHANGED <<kiosk, cooling, posts>>

\* Mutant: a key that was ever used is not used again.
CoolNever(k) ==
  /\ k \in cooling /\ \A e \in Evals : eval[e].pc = "post" => Key(e) # k
  /\ posts' = [posts EXCEPT ![k] = 0] /\ told' = told \ {k}
  /\ UNCHANGED <<kiosk, eval, cooling>>

\* ALERT_COOLDOWN_MIN pass, which is longer than a message takes.
CoolDown(k) ==
  /\ k \in cooling /\ \A e \in Evals : eval[e].pc = "post" => Key(e) # k
  /\ cooling' = cooling \ {k} /\ posts' = [posts EXCEPT ![k] = 0] /\ told' = told \ {k}
  /\ UNCHANGED <<kiosk, eval>>

\* The map of times is in memory.
RestartAPI ==
  /\ restarts < MaxRestarts /\ restarts' = restarts + 1
  /\ eval' = [e \in Evals |-> NoEval]
  /\ cooling' = {} /\ posts' = [k \in Keys |-> 0] /\ told' = {}
  /\ UNCHANGED <<row, sheets>>

------------------------------------------------------------------------------
AlertsNext ==
  \/ \E ink \in Inks : StoreBeat(ink)
  \/ DropOut \/ FallSilent \/ PrintSheet \/ Refill \/ RestartAgent \/ RestartAPI
  \/ \E k \in Keys : CoolDown(k)
  \/ \E e \in Evals : \/ StartEval(e) \/ Query(e) \/ Send(e)
                      \/ \E arrives \in BOOLEAN : Post(e, arrives)

\* The interval starts evaluations, whose queries are answered; messages do not
\* fail for ever; time passes.
Fairness ==
  /\ \A e \in Evals :
       /\ WF_alertVars(StartEval(e)) /\ WF_alertVars(Query(e)) /\ WF_alertVars(Send(e))
       /\ WF_alertVars(\E arrives \in BOOLEAN : Post(e, arrives))
  /\ \A k \in Keys : /\ WF_alertVars(CoolDown(k))
                     /\ SF_alertVars(\E e \in Evals : Post(e, TRUE) /\ Key(e) = k)

AlertsSpec == AlertsInit /\ [][AlertsNext]_alertVars /\ Fairness

------------------------------------------------------------------------------
TypeOK ==
  /\ row \in Rows /\ sheets \in 0 .. MaxSheets
  /\ eval \in [Evals -> [at : 0 .. Len(Checks), pc : {"query", "send", "post"}, due : BOOLEAN]]
  /\ posts \in [Keys -> Nat] /\ told \subseteq cooling /\ cooling \subseteq Keys
  /\ restarts \in 0 .. MaxRestarts

\* "Rate-limited per key": at most one message for a key in a cooldown, however
\* many evaluations run at a time.
OncePerCooldown == \A k \in Keys : posts[k] <= 1

\* Trouble that lasts is told again and again, whatever else is wrong and
\* although messages may fail.
TroubleIsTold == \A k \in Keys : <>[]Due(k) => []<>(k \in told)
===============================================================================
