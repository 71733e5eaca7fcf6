---------------------------- MODULE ConsoleProofs ----------------------------
(***************************************************************************)
(* What the console's buttons promise, for any number of presses, loads    *)
(* under way, failures and pages gone to.  A load that a press waits for    *)
(* is sent after the API has carried the press out, so its answer knows of *)
(* it; and a busy button stays busy until its own press is over, as long   *)
(* as no other button is used.                                             *)
(***************************************************************************)
EXTENDS AdminConsole, TLAPS

\* A load belongs to at most one press, whose handler waits for it; an answer
\* that is there knows of that press if the API has carried it out.
LoadsAgree ==
  \A l \in Loads :
    /\ loads[l].by # 0 =>
         /\ click[loads[l].by].mine /\ click[loads[l].by].phase = "looking"
         /\ \A m \in Loads : loads[m].by = loads[l].by => m = l
    /\ loads[l].phase = "ok" =>
         /\ loads[l].view # {}
         /\ loads[l].by # 0 /\ click[loads[l].by].done => \A a \in loads[l].view : loads[l].by \in a.after

\* Presses of the page that is open are presses that were made, of its buttons.
ClicksAgree ==
  \A i \in Clicks : click[i].mine =>
    /\ click[i].phase # "unused"
    /\ click[i].button = "login" => page = "login"
    /\ click[i].button = "logout" => page = "overview"

BusyAgrees ==
  OneButton => \A i \in Clicks : Guarded(i) =>
                 busy = Group(click[i].button) /\ \A k \in Clicks : Guarded(k) => k = i

ConsoleInv == TypeOK /\ LoadsAgree /\ ClicksAgree /\ BusyAgrees

\* What the writers of the row store is a row.
LEMMA RowWrites ==
  ASSUME row \in Rows
  PROVE  /\ Connected(row) \in Rows /\ Gone(row) \in Rows /\ Refilled(row) \in Rows
         /\ \A b \in Beats : Heard(row, b) \in Rows
         /\ \A cmd : Commanded(row, cmd) \in Rows
<1>0. 0 \in 0 .. MaxSheets
  BY RowAssumption
<1>1. Connected(row) \in Rows /\ Gone(row) \in Rows /\ Refilled(row) \in Rows
  BY <1>0 DEF Connected, Gone, Refilled, Rows
<1>2. ASSUME NEW b \in Beats PROVE Heard(row, b) \in Rows
  BY <1>1 DEF Heard, Rows, Beats
<1>3. ASSUME NEW cmd PROVE Commanded(row, cmd) \in Rows
  BY <1>1 DEF Commanded, Rows
<1> QED BY <1>1, <1>2, <1>3

\* The API's answer to the page that is open.
LEMMA AnswerType == TypeOK => Answer \in Answers(page)
  BY DEF TypeOK, Answer, Answers, Data

\* A page that has just opened has nothing under way but its first load.
LEMMA FreshPage ==
  ASSUME /\ row' \in Rows /\ pay' \in Payments /\ cookie' \in BOOLEAN
         /\ events' \in 0 .. MaxEvents,
         page' \in Pages, shown' = {}, error' = FALSE, busy' = "none",
         click' \in [Clicks -> Presses], \A i \in Clicks : ~click'[i].mine,
         NEW auth \in BOOLEAN,
         loads' \in [Loads -> {Idle, [Idle EXCEPT !.phase = "sent", !.by = 0, !.auth = auth]}]
  PROVE  ConsoleInv'
<1>1. \A l \in Loads : loads'[l].by = 0 /\ loads'[l].phase # "ok" /\ loads'[l] \in Requests(page')
  <2>1. \A r \in {Idle, [Idle EXCEPT !.phase = "sent", !.by = 0, !.auth = auth]} :
          r.by = 0 /\ r.phase # "ok" /\ r \in Requests(page')
    <3>1. Idle.by = 0 /\ Idle.phase = "idle" /\ Idle \in Requests(page')
      BY DEF Idle, Requests
    <3> DEFINE first == [Idle EXCEPT !.phase = "sent", !.by = 0, !.auth = auth]
    <3>2. first.by = 0 /\ first.phase = "sent" /\ first \in Requests(page')
      BY DEF Idle, Requests
    <3> QED BY <3>1, <3>2
  <2> QED BY <2>1
<1>2. TypeOK'
  BY <1>1 DEF TypeOK, Answers
<1>3. LoadsAgree' /\ ClicksAgree' /\ BusyAgrees'
  BY <1>1 DEF LoadsAgree, ClicksAgree, BusyAgrees, Guarded, Pending
<1> QED BY <1>2, <1>3 DEF ConsoleInv

\* At the start.
LEMMA InitConsole == ConsoleInit => ConsoleInv
<1> SUFFICES ASSUME ConsoleInit PROVE ConsoleInv
  OBVIOUS
<1>1. row \in Rows
  <2>1. 0 \in 0 .. MaxSheets
    BY RowAssumption
  <2>2. NewRow \in Rows
    BY <2>1 DEF NewRow, Rows
  <2> QED BY <2>2 DEF ConsoleInit, Connected, Rows
<1>2. \A l \in Loads : loads[l].by = 0 /\ loads[l].phase # "ok" /\ loads[l] \in Requests(page)
  BY DEF ConsoleInit, Idle, Sent, Requests
<1>3. /\ click \in [Clicks -> Presses]
      /\ \A i \in Clicks : ~click[i].mine
  BY DEF ConsoleInit, Unpressed, Presses, Buttons
<1>4. TypeOK
  <2>1. loads \in [Loads -> Requests(page)]
    BY <1>2 DEF ConsoleInit
  <2>2. events \in 0 .. MaxEvents
    BY ConsoleAssumption DEF ConsoleInit
  <2> QED BY <1>1, <1>3, <2>1, <2>2 DEF ConsoleInit, TypeOK, Pages, Payments
<1> QED BY <1>2, <1>3, <1>4 DEF ConsoleInv, LoadsAgree, ClicksAgree, BusyAgrees, Guarded, Pending

\* Presses that are left belong to no page.
LEMMA LeftClicks ==
  ASSUME NEW cs \in [Clicks -> Presses]
  PROVE  /\ Left(cs) \in [Clicks -> Presses]
         /\ \A i \in Clicks : ~Left(cs)[i].mine /\ Left(cs)[i].phase = cs[i].phase
  BY DEF Left, Presses

\* A press that is over.
LEMMA FinishedClicks ==
  ASSUME TypeOK, NEW i
  PROVE  /\ Finished(i) \in [Clicks -> Presses]
         /\ \A k \in Clicks : k # i => Finished(i)[k] = click[k]
         /\ i \in Clicks => /\ Finished(i)[i].phase = "over" /\ Finished(i)[i].mine = click[i].mine
                            /\ Finished(i)[i].button = click[i].button
                            /\ Finished(i)[i].done = click[i].done
  BY DEF TypeOK, Finished, Presses

\* Steps that open another page.
LEMMA OpeningSteps ==
  ASSUME ConsoleInv,
         \/ \E p \in Pages : Visit(p)
         \/ \E l \in Loads : /\ loads[l].phase = "unauthenticated" /\ Open("login")
                             /\ click' = Left(click) /\ UNCHANGED <<api, cookie, events>>
         \/ \E i \in Clicks : LoggedIn(i) \/ LoggedOut(i) \/ SentToLogin(i)
  PROVE  ConsoleInv'
<1> USE DEF api
<1>0. TypeOK
  BY DEF ConsoleInv
<1>1. ASSUME NEW p \in Pages, Open(p), cookie' \in BOOLEAN, UNCHANGED <<row, pay>>,
             events' \in 0 .. MaxEvents,
             NEW cs \in [Clicks -> Presses], click' = Left(cs)
      PROVE  ConsoleInv'
  <2>1. loads' \in [Loads -> {Idle, [Idle EXCEPT !.phase = "sent", !.by = 0, !.auth = cookie]}]
    BY <1>1 DEF Open, Sent
  <2>2. click' \in [Clicks -> Presses] /\ \A i \in Clicks : ~click'[i].mine
    BY <1>1, LeftClicks
  <2>3. page' \in Pages /\ shown' = {} /\ error' = FALSE /\ busy' = "none"
    BY <1>1 DEF Open
  <2>4. /\ row' \in Rows /\ pay' \in Payments /\ cookie' \in BOOLEAN /\ cookie \in BOOLEAN
        /\ events' \in 0 .. MaxEvents
    BY <1>0, <1>1 DEF TypeOK
  <2> QED BY <2>1, <2>2, <2>3, <2>4, FreshPage
<1>2. "login" \in Pages /\ click \in [Clicks -> Presses] /\ events \in 0 .. MaxEvents /\ cookie \in BOOLEAN
  BY <1>0 DEF TypeOK, Pages
<1>3. ASSUME NEW p \in Pages, Visit(p) PROVE ConsoleInv'
  <2>1. events' \in 0 .. MaxEvents
    BY <1>2, <1>3, ConsoleAssumption DEF Visit
  <2> QED BY <1>1, <1>2, <1>3, <2>1 DEF Visit
<1>4. ASSUME Open("login"), click' = Left(click), UNCHANGED <<api, cookie, events>> PROVE ConsoleInv'
  BY <1>1, <1>2, <1>4
<1>5. ASSUME NEW i \in Clicks, LoggedIn(i) PROVE ConsoleInv'
  <2>1. Finished(i) \in [Clicks -> Presses]
    BY <1>0, FinishedClicks
  <2>2. click' \in [Clicks -> Presses] /\ \A k \in Clicks : ~click'[k].mine
    BY <1>5, <2>1, LeftClicks DEF LoggedIn
  <2>3. loads' \in [Loads -> {Idle, [Idle EXCEPT !.phase = "sent", !.by = 0, !.auth = TRUE]}]
    BY <1>5 DEF LoggedIn, Sent, Idle
  <2>4. /\ row' \in Rows /\ pay' \in Payments /\ cookie' \in BOOLEAN /\ page' \in Pages
        /\ events' \in 0 .. MaxEvents
        /\ shown' = {} /\ error' = FALSE /\ busy' = "none"
    BY <1>0, <1>5 DEF LoggedIn, TypeOK, Pages
  <2> QED BY <2>2, <2>3, <2>4, FreshPage
<1>6. ASSUME NEW i \in Clicks, LoggedOut(i) \/ SentToLogin(i) PROVE ConsoleInv'
  <2>1. Finished(i) \in [Clicks -> Presses]
    BY <1>0, FinishedClicks
  <2>2. cookie' \in BOOLEAN /\ Open("login") /\ click' = Left(Finished(i)) /\ UNCHANGED <<row, pay, events>>
    BY <1>2, <1>6 DEF LoggedOut, SentToLogin
  <2> QED BY <1>1, <1>2, <2>1, <2>2
<1> QED BY <1>3, <1>4, <1>5, <1>6

\* Loads that are sent, served, or fail.
LEMMA LoadSteps ==
  ASSUME ConsoleInv, Poll \/ \E l \in Loads : Serve(l) \/ LoadFails(l)
  PROVE  ConsoleInv'
<1> USE DEF api, browser
<1>0. TypeOK /\ loads \in [Loads -> Requests(page)]
  BY DEF ConsoleInv, TypeOK
\* It is enough to look at the one load that changes.
<1>1. ASSUME NEW l \in Loads, NEW r \in Requests(page), loads' = [loads EXCEPT ![l] = r],
             UNCHANGED <<row, pay, cookie, page, shown, error, busy, click>>,
             events' \in 0 .. MaxEvents,
             r.by = 0 \/ r.by = loads[l].by,
             r.phase = "ok" =>
               /\ r.view # {}
               /\ r.by # 0 /\ click[r.by].done => \A a \in r.view : r.by \in a.after
      PROVE  ConsoleInv'
  <2>1. /\ loads' \in [Loads -> Requests(page)] /\ loads'[l] = r
        /\ \A m \in Loads : m # l => loads'[m] = loads[m]
    BY <1>0, <1>1
  <2>2. TypeOK'
    BY <1>0, <1>1, <2>1 DEF TypeOK
  <2>3. LoadsAgree'
    BY <1>1, <2>1 DEF ConsoleInv, LoadsAgree
  <2>4. ClicksAgree' /\ BusyAgrees'
    BY <1>1 DEF ConsoleInv, ClicksAgree, BusyAgrees, OneButton, Guarded, Pending
  <2> QED BY <2>2, <2>3, <2>4 DEF ConsoleInv
<1>2. CASE Poll
  <2>1. PICK l \in Loads : loads' = [loads EXCEPT ![l] = Sent(0)]
    BY <1>2 DEF Poll
  <2>2. Sent(0) \in Requests(page) /\ Sent(0).by = 0 /\ Sent(0).phase = "sent"
    BY <1>0 DEF Sent, Idle, Requests, TypeOK
  <2>3. UNCHANGED <<row, pay, cookie, page, shown, error, busy, click>> /\ events' \in 0 .. MaxEvents
    BY <1>0, <1>2 DEF Poll, TypeOK
  <2> QED BY <1>1, <2>1, <2>2, <2>3
<1>3. ASSUME NEW l \in Loads, Serve(l) PROVE ConsoleInv'
  <2> DEFINE r == [loads[l] EXCEPT !.phase = IF loads[l].auth THEN "ok" ELSE "unauthenticated",
                                   !.view = IF loads[l].auth THEN {Answer} ELSE {}]
  <2>0. loads[l] \in Requests(page) /\ Answer \in Answers(page)
    BY <1>0, AnswerType
  <2>1. loads' = [loads EXCEPT ![l] = r]
    BY <1>0, <1>3 DEF Serve
  <2>2. /\ r \in Requests(page) /\ r.by = loads[l].by /\ r.by \in Clicks \cup {0}
        /\ r.phase = "ok" => r.view = {Answer}
    BY <2>0 DEF Requests
  <2>3. r.by # 0 /\ click[r.by].done => r.by \in Answer.after
    BY <2>2 DEF Answer
  <2>4. UNCHANGED <<row, pay, cookie, page, shown, error, busy, click>> /\ events' \in 0 .. MaxEvents
    BY <1>0, <1>3 DEF Serve, TypeOK
  <2>5. r.phase = "ok" =>
          /\ r.view # {}
          /\ r.by # 0 /\ click[r.by].done => \A a \in r.view : r.by \in a.after
    BY <2>2, <2>3
  <2> HIDE DEF r
  <2> QED BY <1>1, <2>1, <2>2, <2>4, <2>5
<1>4. ASSUME NEW l \in Loads, LoadFails(l) PROVE ConsoleInv'
  <2> DEFINE r == [loads[l] EXCEPT !.phase = "failed", !.view = {}]
  <2>1. loads' = [loads EXCEPT ![l] = r]
    BY <1>0, <1>4 DEF LoadFails
  <2>2. r \in Requests(page) /\ r.by = loads[l].by /\ r.phase = "failed"
    BY <1>0 DEF Requests
  <2>3. /\ UNCHANGED <<row, pay, cookie, page, shown, error, busy, click>>
        /\ events' \in 0 .. MaxEvents
    BY <1>0, <1>4, ConsoleAssumption DEF LoadFails, TypeOK
  <2> HIDE DEF r
  <2> QED BY <1>1, <2>1, <2>2, <2>3
<1> QED BY <1>2, <1>3, <1>4

\* An answer that is shown, or the error of a load: the press that has waited
\* for it, if any, is over, and its button no longer busy.
LEMMA ReceivedStep ==
  ASSUME ConsoleInv, NEW l \in Loads, Received(l)
  PROVE  ConsoleInv'
<1>0. TypeOK /\ LoadsAgree /\ ClicksAgree /\ BusyAgrees
  BY DEF ConsoleInv
<1> DEFINE i == loads[l].by
<1>1. loads[l] \in Requests(page) /\ i \in Clicks \cup {0} /\ loads[l].view \in SUBSET Answers(page)
  BY <1>0 DEF TypeOK, Requests
<1>2. /\ loads' = [loads EXCEPT ![l] = Idle] /\ click' = Finished(i)
      /\ busy' = IF i = 0 THEN busy ELSE "none"
      /\ shown' \in {loads[l].view, shown} /\ error' \in BOOLEAN
      /\ UNCHANGED <<api, cookie, page, events>>
  BY DEF Received
<1>3. /\ loads' \in [Loads -> Requests(page)] /\ loads'[l].by = 0 /\ loads'[l].phase = "idle"
      /\ \A m \in Loads : m # l => loads'[m] = loads[m]
  BY <1>0, <1>2 DEF Idle, Requests, TypeOK
<1>4. /\ click' \in [Clicks -> Presses] /\ \A k \in Clicks : k # i => click'[k] = click[k]
      /\ i \in Clicks => /\ click'[i].phase = "over" /\ click'[i].mine = click[i].mine
                         /\ click'[i].button = click[i].button
  BY <1>0, <1>2, FinishedClicks
<1> HIDE DEF i
<1>5. busy' \in Groups \cup {"none"}
  BY <1>0, <1>2 DEF TypeOK
<1>6. TypeOK'
  BY <1>0, <1>1, <1>2, <1>3, <1>4, <1>5 DEF TypeOK, api
<1>7. \A m \in Loads : m # l /\ loads[m].by # 0 => loads[m].by # i /\ loads[m].by \in Clicks
  BY <1>0, <1>1 DEF LoadsAgree, TypeOK, Requests, i
<1>8. LoadsAgree'
  BY <1>0, <1>3, <1>4, <1>7 DEF LoadsAgree
<1>9. ClicksAgree'
  BY <1>0, <1>2, <1>4 DEF ClicksAgree
<1>10. BusyAgrees'
  <2>1. CASE i = 0
    <3>0. \A k \in Clicks : k # i
      BY <2>1, ConsoleAssumption DEF Clicks
    <3>1. click' = click
      BY <1>0, <1>4, <3>0 DEF TypeOK
    <3> QED BY <1>0, <1>2, <2>1, <3>1 DEF BusyAgrees, OneButton, Guarded, Pending
  <2>2. CASE i \in Clicks
    <3>1. click[i].mine /\ click[i].phase = "looking"
      BY <1>0, <2>2 DEF LoadsAgree, i, Clicks
    <3>2. OneButton' => OneButton
      <4>1. \A k \in Clicks : click'[k].mine = click[k].mine /\ click'[k].button = click[k].button
        BY <1>4
      <4> QED BY <4>1 DEF OneButton
    <3>3. ASSUME OneButton', NEW k \in Clicks, Guarded(k)' PROVE FALSE
      <4>1. k # i /\ click[k] = click'[k] /\ Guarded(k)
        BY <1>4, <2>2, <3>3 DEF Guarded, Pending
      <4>2. Group(click[k].button) = Group(click[i].button)
        BY <2>2, <3>1, <3>2, <3>3, <4>1 DEF OneButton, Guarded, Pending
      <4>3. click[i].button \notin {"logout", "refund"}
        BY <4>1, <4>2 DEF Group, Guarded
      <4>4. Guarded(i)
        BY <3>1, <4>3 DEF Guarded, Pending
      <4> QED BY <1>0, <2>2, <3>2, <3>3, <4>1, <4>4 DEF BusyAgrees
    <3> QED BY <3>3 DEF BusyAgrees
  <2> QED BY <1>1, <2>1, <2>2 DEF i
<1> QED BY <1>6, <1>8, <1>9, <1>10 DEF ConsoleInv

\* A press: its button was not busy.
LEMMA PressStep ==
  ASSUME ConsoleInv, NEW b \in Buttons, Press(b)
  PROVE  ConsoleInv'
<1> USE DEF api
<1>0. TypeOK /\ LoadsAgree /\ ClicksAgree /\ BusyAgrees
  BY DEF ConsoleInv
<1>1. Offered(b) /\ busy # Group(b) /\ Pressed(b)
  BY DEF Press
<1>2. PICK i \in Clicks :
        /\ click[i].phase = "unused"
        /\ click' = [click EXCEPT ![i] = [button |-> b, phase |-> "sent", mine |-> TRUE,
                                          auth |-> cookie, done |-> FALSE]]
  BY <1>1 DEF Pressed
<1>3. /\ click' \in [Clicks -> Presses] /\ \A k \in Clicks : k # i => click'[k] = click[k]
      /\ click'[i].button = b /\ click'[i].phase = "sent" /\ click'[i].mine
  BY <1>0, <1>2 DEF TypeOK, Presses
<1>4. /\ busy' = IF b \in {"logout", "refund"} THEN busy ELSE Group(b)
      /\ error' = (error /\ b # "login") /\ UNCHANGED <<row, pay, cookie, page, shown, loads, events>>
  BY <1>1 DEF Pressed
<1>5. TypeOK'
  BY <1>0, <1>3, <1>4 DEF TypeOK, Groups
<1>6. LoadsAgree'
  <2>1. \A l \in Loads : loads[l].by # 0 => loads[l].by # i /\ loads[l].by \in Clicks
    BY <1>0, <1>2 DEF LoadsAgree, TypeOK, Requests
  <2> QED BY <1>0, <1>3, <1>4, <2>1 DEF LoadsAgree
<1>7. ClicksAgree'
  BY <1>0, <1>1, <1>3, <1>4 DEF ClicksAgree, Offered, OnLogin, OnOverview, OnKiosk, OnRefunds
<1>8. ~click[i].mine
  BY <1>0, <1>2 DEF ClicksAgree
<1>9. ASSUME OneButton', NEW k \in Clicks, Guarded(k)'
      PROVE  busy' = Group(click'[k].button) /\ \A m \in Clicks : Guarded(m)' => m = k
  <2>1. OneButton
    BY <1>3, <1>8, <1>9 DEF OneButton
  <2>2. \A m \in Clicks : Guarded(m)' => Group(click'[m].button) = Group(b)
    BY <1>3, <1>9 DEF OneButton, Guarded, Pending
  <2>3. b \notin {"logout", "refund"}
    BY <1>9, <2>2 DEF Group, Guarded
  <2>4. ASSUME NEW m \in Clicks, m # i, Guarded(m)' PROVE FALSE
    <3>1. Guarded(m) /\ click[m] = click'[m]
      BY <1>3, <2>4 DEF Guarded, Pending
    <3>2. busy = Group(b)
      BY <1>0, <2>1, <2>2, <2>4, <3>1 DEF BusyAgrees
    <3> QED BY <1>1, <3>2
  <2> QED BY <1>3, <1>4, <1>9, <2>3, <2>4
<1>10. BusyAgrees'
  BY <1>9 DEF BusyAgrees
<1> QED BY <1>5, <1>6, <1>7, <1>10 DEF ConsoleInv

\* A step of the API on a press leaves it pending and touches no other press,
\* and no press that waits for a load.
LEMMA AnsweredStep ==
  ASSUME ConsoleInv, NEW i \in Clicks, click[i].phase \in {"sent", "read", "ok"},
         NEW phase \in {"read", "ok", "failed", "unauthenticated"}, NEW done \in BOOLEAN,
         Answered(i, phase, done),
         row' \in Rows, pay' \in Payments, events' \in 0 .. MaxEvents,
         UNCHANGED <<cookie, page, shown, error, busy, loads>>
  PROVE  ConsoleInv'
<1>0. TypeOK /\ LoadsAgree /\ ClicksAgree /\ BusyAgrees
  BY DEF ConsoleInv
<1>1. /\ click' \in [Clicks -> Presses] /\ \A k \in Clicks : k # i => click'[k] = click[k]
      /\ click'[i].button = click[i].button /\ click'[i].phase = phase /\ click'[i].mine = click[i].mine
  BY <1>0 DEF TypeOK, Presses, Answered
<1>2. TypeOK'
  BY <1>0, <1>1 DEF TypeOK
<1>3. LoadsAgree'
  <2>1. \A l \in Loads : loads[l].by # 0 => loads[l].by # i /\ loads[l].by \in Clicks
    BY <1>0 DEF LoadsAgree, TypeOK, Requests
  <2> QED BY <1>0, <1>1, <2>1 DEF LoadsAgree
<1>4. ClicksAgree'
  BY <1>0, <1>1 DEF ClicksAgree
<1>5. BusyAgrees'
  <2>1. \A k \in Clicks : click'[k].mine = click[k].mine /\ click'[k].button = click[k].button
    BY <1>1
  <2>2. \A k \in Clicks : Guarded(k)' <=> Guarded(k)
    BY <1>1, <2>1 DEF Guarded, Pending
  <2>3. OneButton' <=> OneButton
    BY <2>1 DEF OneButton
  <2> QED BY <1>0, <2>1, <2>2, <2>3 DEF BusyAgrees
<1> QED BY <1>2, <1>3, <1>4, <1>5 DEF ConsoleInv

\* The API's handlers, and failures.
LEMMA HandlerSteps ==
  ASSUME ConsoleInv, NEW i \in Clicks, Handle(i) \/ Fail(i)
  PROVE  ConsoleInv'
<1> USE DEF api, browser
<1>0. TypeOK /\ click[i] \in Presses /\ row \in Rows /\ pay \in Payments /\ events \in 0 .. MaxEvents
  BY DEF ConsoleInv, TypeOK
<1>1. CASE Refuse(i)
  BY <1>0, <1>1, AnsweredStep DEF Refuse, Asks
<1>2. CASE DoCommand(i)
  <2>1. row' \in Rows
    BY <1>0, <1>2, RowWrites DEF DoCommand
  <2> QED BY <1>0, <1>2, <2>1, AnsweredStep DEF DoCommand, Asks
<1>3. CASE DoRefill(i)
  <2>1. row' \in Rows
    BY <1>0, <1>3, RowWrites DEF DoRefill
  <2> QED BY <1>0, <1>3, <2>1, AnsweredStep DEF DoRefill, Asks
<1>4. CASE DoLogin(i)
  <2>1. PICK phase \in {"ok", "failed"} : Answered(i, phase, phase = "ok")
    BY <1>4 DEF DoLogin
  <2>2. (phase = "ok") \in BOOLEAN
    OBVIOUS
  <2> QED BY <1>0, <1>4, <2>1, <2>2, AnsweredStep DEF DoLogin, Asks
<1>5. CASE ReadPayment(i)
  <2> DEFINE phase == CASE pay = "captured" -> "read" [] pay = "initiated" -> "failed" [] pay = "refunded" -> "ok"
  <2>1. phase \in {"read", "ok", "failed", "unauthenticated"}
    BY <1>0 DEF Payments
  <2>2. Answered(i, phase, FALSE) /\ click[i].phase = "sent"
    BY <1>5 DEF ReadPayment, Asks
  <2>3. UNCHANGED <<row, pay, cookie, page, shown, error, busy, loads, events>>
    BY <1>5 DEF ReadPayment
  <2> HIDE DEF phase
  <2> QED BY <1>0, <2>1, <2>2, <2>3, AnsweredStep
<1>6. CASE DoRefund(i)
  <2>1. /\ click[i].phase = "read" /\ pay' \in Payments
        /\ Answered(i, "ok", TRUE) \/ Answered(i, "failed", TRUE) \/ Answered(i, "failed", FALSE)
        /\ UNCHANGED <<row, cookie, page, shown, error, busy, loads, events>>
    BY <1>0, <1>6 DEF DoRefund, Payments
  <2> QED BY <1>0, <2>1, AnsweredStep
<1>7. CASE Fail(i)
  <2>1. /\ click[i].phase \in {"sent", "read", "ok"} /\ click[i].done \in BOOLEAN
        /\ Answered(i, "failed", click[i].done)
        /\ UNCHANGED <<row, pay, cookie, page, shown, error, busy, loads>>
    BY <1>0, <1>7 DEF Fail, Presses
  <2>2. events' \in 0 .. MaxEvents
    BY <1>0, <1>7, ConsoleAssumption DEF Fail
  <2> QED BY <1>0, <2>1, <2>2, AnsweredStep
<1> QED BY <1>1, <1>2, <1>3, <1>4, <1>5, <1>6, <1>7 DEF Handle

\* A press whose answer is there sends its load.
LEMMA LookStep ==
  ASSUME ConsoleInv, NEW i \in Clicks, Look(i)
  PROVE  ConsoleInv'
<1> USE DEF api, browser
<1>0. TypeOK /\ LoadsAgree /\ ClicksAgree /\ BusyAgrees
  BY DEF ConsoleInv
<1>1. PICK l \in Loads : loads' = [loads EXCEPT ![l] = Sent(i)]
  BY DEF Look
<1>2. Sent(i) \in Requests(page) /\ Sent(i).by = i /\ Sent(i).phase = "sent"
  BY <1>0 DEF Sent, Idle, Requests, TypeOK
<1>3. /\ loads' \in [Loads -> Requests(page)] /\ loads'[l].by = i /\ loads'[l].phase = "sent"
      /\ \A m \in Loads : m # l => loads'[m] = loads[m]
  BY <1>0, <1>1, <1>2 DEF TypeOK
<1>4. click[i].mine /\ click[i].phase = "ok"
  BY DEF Look, Here
<1>5. /\ click' \in [Clicks -> Presses] /\ \A k \in Clicks : k # i => click'[k] = click[k]
      /\ click'[i].button = click[i].button /\ click'[i].phase = "looking" /\ click'[i].mine = click[i].mine
  BY <1>0, <1>4 DEF TypeOK, Presses, Look
<1>6. TypeOK'
  BY <1>0, <1>3, <1>5 DEF TypeOK, Look
<1>7. \A m \in Loads : loads[m].by # 0 => loads[m].by # i /\ loads[m].by \in Clicks
  BY <1>0, <1>4 DEF LoadsAgree, TypeOK, Requests
<1>8. LoadsAgree'
  <2>1. click'[i].mine /\ click'[i].phase = "looking"
    BY <1>4, <1>5
  <2> QED BY <1>0, <1>3, <1>5, <1>7, <2>1 DEF LoadsAgree
<1>9. ClicksAgree'
  BY <1>0, <1>4, <1>5 DEF ClicksAgree, Look
<1>10. BusyAgrees'
  <2>1. \A k \in Clicks : click'[k].mine = click[k].mine /\ click'[k].button = click[k].button
    BY <1>4, <1>5
  <2>2. \A k \in Clicks : Guarded(k)' <=> Guarded(k)
    BY <1>4, <1>5, <2>1 DEF Guarded, Pending
  <2>3. OneButton' <=> OneButton
    BY <2>1 DEF OneButton
  <2>4. busy' = busy
    BY DEF Look
  <2> QED BY <1>0, <2>1, <2>2, <2>3, <2>4 DEF BusyAgrees
<1> QED BY <1>6, <1>8, <1>9, <1>10 DEF ConsoleInv

\* A press that has failed shows its error, and is over.
LEMMA ShowErrorStep ==
  ASSUME ConsoleInv, NEW i \in Clicks, ShowError(i)
  PROVE  ConsoleInv'
<1> USE DEF api
<1>0. TypeOK /\ LoadsAgree /\ ClicksAgree /\ BusyAgrees
  BY DEF ConsoleInv
<1>1. click[i].mine /\ click[i].phase = "failed"
  BY DEF ShowError, Here
<1>2. /\ click' \in [Clicks -> Presses] /\ \A k \in Clicks : k # i => click'[k] = click[k]
      /\ click'[i].button = click[i].button /\ click'[i].phase = "over" /\ click'[i].mine
  BY <1>0, <1>1, FinishedClicks DEF ShowError
<1>3. TypeOK'
  BY <1>0, <1>2 DEF TypeOK, ShowError
<1>4. LoadsAgree'
  <2>1. \A l \in Loads : loads[l].by # 0 => loads[l].by # i /\ loads[l].by \in Clicks
    BY <1>0, <1>1 DEF LoadsAgree, TypeOK, Requests
  <2> QED BY <1>0, <1>2, <2>1 DEF LoadsAgree, ShowError
<1>5. ClicksAgree'
  BY <1>0, <1>1, <1>2 DEF ClicksAgree, ShowError
<1>6. ASSUME OneButton', NEW k \in Clicks, Guarded(k)' PROVE FALSE
  <2>1. k # i /\ Guarded(k)
    BY <1>2, <1>6 DEF Guarded, Pending
  <2>2. OneButton
    BY <1>1, <1>2, <1>6 DEF OneButton
  <2>3. click[i].button \notin {"logout", "refund"}
    BY <1>1, <2>1, <2>2 DEF OneButton, Guarded, Pending, Group
  <2>4. Guarded(i)
    BY <1>1, <2>3 DEF Guarded, Pending
  <2> QED BY <1>0, <2>1, <2>2, <2>4 DEF BusyAgrees
<1>7. BusyAgrees'
  BY <1>6 DEF BusyAgrees
<1> QED BY <1>3, <1>4, <1>5, <1>7 DEF ConsoleInv

\* The session, the kiosk and the provider change nothing on the page.
LEMMA WorldSteps ==
  ASSUME ConsoleInv, SessionEnds \/ KioskWrites \/ RefundProcessed
  PROVE  ConsoleInv'
<1> USE DEF api, browser
<1>1. UNCHANGED <<page, shown, error, busy, loads, click, events>>
  BY DEF SessionEnds, KioskWrites, RefundProcessed
<1>2. TypeOK /\ row \in Rows
  BY DEF ConsoleInv, TypeOK
<1>3. row' \in Rows /\ pay' \in Payments /\ cookie' \in BOOLEAN
  BY <1>2, RowWrites DEF SessionEnds, KioskWrites, RefundProcessed, TypeOK, Payments
<1>4. TypeOK'
  BY <1>1, <1>2, <1>3 DEF TypeOK
<1>5. LoadsAgree' /\ ClicksAgree' /\ BusyAgrees'
  BY <1>1 DEF ConsoleInv, LoadsAgree, ClicksAgree, BusyAgrees, OneButton, Guarded, Pending
<1> QED BY <1>4, <1>5 DEF ConsoleInv

\* Every step keeps the invariant.
LEMMA NextConsole == ConsoleInv /\ [ConsoleNext]_consoleVars => ConsoleInv'
<1> SUFFICES ASSUME ConsoleInv, [ConsoleNext]_consoleVars PROVE ConsoleInv'
  OBVIOUS
<1>1. CASE \E p \in Pages : Visit(p)
  BY <1>1, OpeningSteps
<1>2. CASE Poll \/ \E l \in Loads : Serve(l) \/ LoadFails(l)
  BY <1>2, LoadSteps
<1>3. ASSUME NEW l \in Loads, Receive(l) PROVE ConsoleInv'
  BY <1>3, ReceivedStep, OpeningSteps DEF Receive
<1>4. CASE \E b \in Buttons : Press(b)
  BY <1>4, PressStep
<1>5. ASSUME NEW i \in Clicks, Handle(i) \/ Fail(i) PROVE ConsoleInv'
  BY <1>5, HandlerSteps
<1>6. ASSUME NEW i \in Clicks, Continue(i) PROVE ConsoleInv'
  BY <1>6, OpeningSteps, LookStep, ShowErrorStep DEF Continue
<1>7. CASE SessionEnds \/ KioskWrites \/ RefundProcessed
  BY <1>7, WorldSteps
<1>8. CASE UNCHANGED consoleVars
  BY <1>8 DEF consoleVars, ConsoleInv, TypeOK, LoadsAgree, ClicksAgree, BusyAgrees, OneButton,
              Guarded, Pending
<1> QED BY <1>1, <1>2, <1>3, <1>4, <1>5, <1>6, <1>7, <1>8 DEF ConsoleNext

\* The invariant holds in every reachable state.
LEMMA ConsoleInvariant == ConsoleSpec => []ConsoleInv
<1> QED BY InitConsole, NextConsole, PTL DEF ConsoleSpec

\* A page, its loads and its presses always have their types; what is shown is
\* an answer for the page that is open.
THEOREM ConsoleTypes == ConsoleSpec => []TypeOK
<1>1. ConsoleInv => TypeOK
  BY DEF ConsoleInv
<1> QED BY <1>1, ConsoleInvariant, PTL

\* Commands of one button do not overlap while no other button is used (busy).
THEOREM ButtonsKeepApart == ConsoleSpec => []OneAtATime
<1>1. ConsoleInv => OneAtATime
  BY DEF ConsoleInv, BusyAgrees, OneAtATime
<1> QED BY <1>1, ConsoleInvariant, PTL

\* The last step of a press that has succeeded shows an answer from after it.
LEMMA LookIsNew ==
  ASSUME ConsoleInv, ConsoleNext, NEW i \in Clicks,
         click[i].mine, click[i].done, click[i].phase \in {"ok", "looking"},
         click'[i].phase = "over", page' = page
  PROVE  error' \/ \E a \in shown' : i \in a.after
<1> USE DEF api, browser
<1>0. TypeOK /\ LoadsAgree /\ ClicksAgree
  BY DEF ConsoleInv
\* It is the step that receives the load which the press waits for.
<1>1. ASSUME NEW l \in Loads, Received(l) PROVE error' \/ \E a \in shown' : i \in a.after
  <2>1. loads[l].by = i
    BY <1>0, <1>1, FinishedClicks DEF Received
  <2>2. i # 0
    BY ConsoleAssumption DEF Clicks
  <2>3. CASE loads[l].phase = "ok"
    <3>1. shown' = loads[l].view
      BY <1>1, <2>3 DEF Received
    <3> QED BY <1>0, <2>1, <2>2, <2>3, <3>1 DEF LoadsAgree
  <2>4. CASE loads[l].phase = "failed"
    BY <1>1, <2>4 DEF Received
  <2> QED BY <1>1, <2>3, <2>4 DEF Received
\* No other step ends it.
<1>2. ASSUME click' = click PROVE FALSE
  BY <1>2
<1>3. ASSUME click' = Left(click) PROVE FALSE
  BY <1>0, <1>3, LeftClicks DEF TypeOK
<1>4. ASSUME NEW b \in Buttons, Press(b) PROVE FALSE
  BY <1>0, <1>4 DEF Press, Pressed, TypeOK, Presses
<1>5. ASSUME NEW k \in Clicks, NEW phase, NEW done, Answered(k, phase, done), phase # "over" PROVE FALSE
  BY <1>0, <1>5 DEF Answered, TypeOK, Presses
<1>6. ASSUME NEW k \in Clicks, Handle(k) \/ Fail(k) PROVE FALSE
  <2>1. CASE ReadPayment(k)
    <3>1. pay \in Payments
      BY <1>0 DEF TypeOK
    <3> QED BY <1>5, <2>1, <3>1 DEF ReadPayment, Payments
  <2>2. CASE Handle(k) /\ ~ReadPayment(k)
    BY <1>5, <2>2 DEF Handle, Refuse, DoCommand, DoRefill, DoLogin, DoRefund
  <2>3. CASE Fail(k)
    BY <1>5, <2>3 DEF Fail
  <2> QED BY <1>6, <2>1, <2>2, <2>3
<1>7. ASSUME NEW k \in Clicks, Look(k) \/ ShowError(k) PROVE FALSE
  <2>1. CASE Look(k)
    BY <1>0, <2>1 DEF Look, TypeOK, Presses
  <2>2. CASE ShowError(k)
    <3>1. k # i
      BY <2>2 DEF ShowError, Here
    <3> QED BY <1>0, <2>2, <3>1, FinishedClicks DEF ShowError
  <2> QED BY <1>7, <2>1, <2>2
<1>8. ASSUME NEW k \in Clicks, LoggedIn(k) \/ LoggedOut(k) \/ SentToLogin(k) PROVE FALSE
  <2>1. \A m \in Clicks : Left(Finished(k))[m].phase = Finished(k)[m].phase
    BY <1>0, FinishedClicks, LeftClicks
  <2>2. k = i
    BY <1>0, <1>8, <2>1, FinishedClicks DEF LoggedIn, LoggedOut, SentToLogin
  <2> QED BY <1>0, <1>8, <2>2 DEF LoggedIn, LoggedOut, SentToLogin, ClicksAgree, Open
<1>9. CASE \E p \in Pages : Visit(p)
  BY <1>3, <1>9 DEF Visit
<1>10. CASE Poll \/ SessionEnds \/ KioskWrites \/ RefundProcessed \/ \E l \in Loads : Serve(l) \/ LoadFails(l)
  BY <1>2, <1>10 DEF Poll, SessionEnds, KioskWrites, RefundProcessed, Serve, LoadFails
<1>11. ASSUME NEW l \in Loads, Receive(l) PROVE error' \/ \E a \in shown' : i \in a.after
  BY <1>1, <1>3, <1>11 DEF Receive
<1> QED BY <1>4, <1>6, <1>7, <1>8, <1>9, <1>10, <1>11 DEF ConsoleNext, Continue

\* A button that is released after a success is released with an answer on the
\* page that knows of it (await load() before finally), or with an error.
THEOREM CommandsEndWithLook == ConsoleSpec => EndsWithLook
<1>1. ConsoleInv /\ [ConsoleNext]_consoleVars =>
        [\A i \in Clicks :
           click[i].mine /\ click[i].done /\ click[i].phase \in {"ok", "looking"}
           /\ click'[i].phase = "over" /\ page' = page
             => error' \/ \E a \in shown' : i \in a.after]_consoleVars
  BY LookIsNew
<1> QED BY <1>1, ConsoleInvariant, PTL DEF ConsoleSpec, EndsWithLook
===============================================================================
