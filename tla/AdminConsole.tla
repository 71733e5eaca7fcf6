----------------------------- MODULE AdminConsole -----------------------------
(***************************************************************************)
(* The administrator's console (apps/admin) in one browser, and the part   *)
(* of the API that it talks to (admin.controller.ts): pages that poll,     *)
(* buttons whose commands overlap each other and the polls, and a session  *)
(* that ends.  The console shows one kiosk, and one failed job that had     *)
(* been paid for.                                                          *)
(***************************************************************************)
EXTENDS KioskRow

CONSTANTS
  Final,        \* are the provider's refunds final at once (the mock) or later (Razorpay)?
  MaxLoads,     \* bound: loads of a page under way at once
  MaxClicks,    \* bound: presses of buttons
  MaxEvents     \* bound: pages that the administrator goes to, requests that
                \* fail and answers that are lost

ASSUME ConsoleAssumption ==
  /\ Final \in BOOLEAN
  /\ MaxLoads \in Nat \ {0} /\ MaxClicks \in Nat /\ MaxEvents \in Nat

Loads    == 1 .. MaxLoads
Clicks   == 1 .. MaxClicks
Pages    == {"login", "overview", "kiosk", "refunds"}
Buttons  == Commands \cup {"login", "logout", "refill", "refund"}
Payments == {"captured", "initiated", "refunded"}

VARIABLES
  row, pay,    \* the API: the kiosk's row, the payment of the failed job
  cookie,      \* the browser has a session cookie that is valid
  page,        \* the page that is open
  shown,       \* what it shows: {} (Loading...) or one answer
  error, busy, \* its states of these names; error hides all but the login form
  loads,       \* its loads under way
  click,       \* presses, of this page and of earlier ones
  events       \* how many of MaxEvents there were
consoleVars == <<row, pay, cookie, page, shown, error, busy, loads, click, events>>
api     == <<row, pay>>
browser == <<cookie, page, shown, error, busy>>

\* What the API reads for a page, and which presses it had carried out by then.
Data(p)    == IF p = "refunds" THEN Payments ELSE Rows
Answers(p) == [data : Data(p), after : SUBSET Clicks]
Answer == [data |-> IF page = "refunds" THEN pay ELSE row, after |-> {i \in Clicks : click[i].done}]

\* by: the press whose handler awaits this load, or 0; auth: was it sent with
\* the cookie, by which alone AdminGuard judges it?
Requests(p) == [phase : {"idle", "sent", "ok", "failed", "unauthenticated"},
                by : Clicks \cup {0}, auth : BOOLEAN, view : SUBSET Answers(p)]
Idle == [phase |-> "idle", by |-> 0, auth |-> FALSE, view |-> {}]
Sent(i) == [Idle EXCEPT !.phase = "sent", !.by = i, !.auth = cookie]

\* phase: where the request is and then the handler in the page; mine: it is
\* a press on the page that is open; done: the API has done what it asks for.
Presses == [button : Buttons, mine : BOOLEAN, auth : BOOLEAN, done : BOOLEAN,
            phase : {"unused", "sent", "read", "ok", "failed", "unauthenticated", "looking", "over"}]
Unpressed == [button |-> "login", phase |-> "unused", mine |-> FALSE, auth |-> FALSE, done |-> FALSE]
Pending(i) == click[i].mine /\ click[i].phase \notin {"unused", "over"}

\* setBusy, and the test of it in the buttons.
Group(b) == IF b \in {"maintenance_on", "maintenance_off"} THEN "maintenance" ELSE b
Groups   == {Group(b) : b \in Buttons}

\* A page opens and loads.  What an earlier page has under way no longer
\* changes what is shown.
Open(p) ==
  /\ page' = p /\ shown' = {} /\ error' = FALSE /\ busy' = "none"
  /\ loads' = [l \in Loads |-> IF l = 1 /\ p # "login" THEN Sent(0) ELSE Idle]

Left(clicks) == [i \in Clicks |-> [clicks[i] EXCEPT !.mine = FALSE]]

ConsoleInit ==
  /\ row = Connected(NewRow) /\ pay = "captured"
  /\ cookie \in BOOLEAN /\ page \in Pages
  /\ shown = {} /\ error = FALSE /\ busy = "none"
  /\ loads = [l \in Loads |-> IF l = 1 /\ page # "login" THEN Sent(0) ELSE Idle]
  /\ click = [i \in Clicks |-> Unpressed]
  /\ events = 0

(***************************************************************************)
(* Pages and their loads.                                                  *)
(***************************************************************************)
\* A link, the address, or a reload.
Visit(p) ==
  /\ page # "login" /\ p # "login" /\ events < MaxEvents /\ events' = events + 1
  /\ Open(p) /\ click' = Left(click)
  /\ UNCHANGED <<api, cookie>>

\* Mutant: a page loads when it opens, and not every ten seconds.
PollOnce ==
  /\ page # "login" /\ shown = {}
  /\ \E l \in Loads : loads[l] = Idle /\ loads' = [loads EXCEPT ![l] = Sent(0)]
  /\ UNCHANGED <<api, browser, click, events>>

Poll ==
  /\ page # "login"
  /\ \E l \in Loads : loads[l] = Idle /\ loads' = [loads EXCEPT ![l] = Sent(0)]
  /\ UNCHANGED <<api, browser, click, events>>

\* overview, kioskDetail and refundsList, behind AdminGuard.
Serve(l) ==
  /\ loads[l].phase = "sent"
  /\ loads' = [loads EXCEPT ![l].phase = IF loads[l].auth THEN "ok" ELSE "unauthenticated",
                            ![l].view = IF loads[l].auth THEN {Answer} ELSE {}]
  /\ UNCHANGED <<api, browser, click, events>>

LoadFails(l) ==
  /\ loads[l].phase \in {"sent", "ok"} /\ events < MaxEvents /\ events' = events + 1
  /\ loads' = [loads EXCEPT ![l].phase = "failed", ![l].view = {}]
  /\ UNCHANGED <<api, browser, click>>

\* finally, in the handler that has awaited the load.
Finished(i) == [k \in Clicks |-> IF k = i THEN [click[k] EXCEPT !.phase = "over"] ELSE click[k]]

Received(l) ==
  /\ loads[l].phase \in {"ok", "failed"} /\ loads' = [loads EXCEPT ![l] = Idle]
  /\ shown' = IF loads[l].phase = "ok" THEN loads[l].view ELSE shown
  /\ error' = (loads[l].phase = "failed")
  /\ click' = Finished(loads[l].by)
  /\ busy' = IF loads[l].by = 0 THEN busy ELSE "none"
  /\ UNCHANGED <<api, cookie, page, events>>

\* Mutant: load() swallows a 401, and adminFetch does not go to the login page.
StayAfter401(l) ==
  \/ Received(l)
  \/ /\ loads[l].phase = "unauthenticated" /\ loads' = [loads EXCEPT ![l] = Idle]
     /\ click' = Finished(loads[l].by) /\ busy' = IF loads[l].by = 0 THEN busy ELSE "none"
     /\ UNCHANGED <<api, cookie, page, shown, error, events>>

\* load(), when the answer is there.
Receive(l) ==
  \/ Received(l)
  \/ /\ loads[l].phase = "unauthenticated" /\ Open("login") /\ click' = Left(click)
     /\ UNCHANGED <<api, cookie, events>>

(***************************************************************************)
(* Buttons.                                                                *)
(***************************************************************************)
\* The buttons on each page, over what it shows.
OnLogin(b)        == b = "login"
OnOverview(b)     == b = "logout"
OnKiosk(b, kiosk) ==
  \/ b \in {"test_print", "reboot_agent", "refill"}
  \/ b = IF kiosk.status = "MAINTENANCE" THEN "maintenance_off" ELSE "maintenance_on"
OnRefunds(b, payment) == b = "refund" /\ payment = "captured"

\* An error, or Loading..., takes the place of a page, but not of the login form.
Offered(b) ==
  \/ page = "login" /\ OnLogin(b)
  \/ /\ ~error
     /\ \E a \in shown : \/ page = "overview" /\ OnOverview(b)
                         \/ page = "kiosk" /\ OnKiosk(b, a.data)
                         \/ page = "refunds" /\ OnRefunds(b, a.data)

Pressed(b) ==
  /\ \E i \in Clicks :
       /\ click[i].phase = "unused" /\ \A k \in Clicks : k < i => click[k].phase # "unused"
       /\ click' = [click EXCEPT ![i] = [button |-> b, phase |-> "sent", mine |-> TRUE,
                                         auth |-> cookie, done |-> FALSE]]
  /\ busy' = IF b \in {"logout", "refund"} THEN busy ELSE Group(b)
  /\ error' = (error /\ b # "login")
  /\ UNCHANGED <<api, cookie, page, shown, loads, events>>

Press(b) == Offered(b) /\ busy # Group(b) /\ Pressed(b)

(***************************************************************************)
(* The API's handlers.                                                     *)
(***************************************************************************)
Answered(i, phase, done) == click' = [click EXCEPT ![i].phase = phase, ![i].done = done]
Asks(i, b) == click[i].phase = "sent" /\ click[i].button \in b

\* command() and manualRefund() are behind AdminGuard, the others are not.
Refuse(i) ==
  /\ Asks(i, Commands \cup {"refund"}) /\ ~click[i].auth
  /\ Answered(i, "unauthenticated", FALSE)
  /\ UNCHANGED <<api, browser, loads, events>>

\* command(); emitKioskCommand is in KioskPresence.
DoCommand(i) ==
  /\ Asks(i, Commands) /\ click[i].auth
  /\ row' = Commanded(row, click[i].button) /\ Answered(i, "ok", TRUE)
  /\ UNCHANGED <<pay, browser, loads, events>>

\* refill(), with the secret that the page holds; for a kiosk that has another
\* secret it fails (Fail).
DoRefill(i) ==
  /\ Asks(i, {"refill"})
  /\ row' = Refilled(row) /\ Answered(i, "ok", TRUE)
  /\ UNCHANGED <<pay, browser, loads, events>>

\* login(), with the right password or another one, and logout().
DoLogin(i) ==
  /\ Asks(i, {"login", "logout"})
  /\ \E phase \in {"ok", "failed"} :
       (click[i].button = "logout" => phase = "ok") /\ Answered(i, phase, phase = "ok")
  /\ UNCHANGED <<api, browser, loads, events>>

\* manualRefund(): what refundFailedJob reads of the payment.
ReadPayment(i) ==
  /\ Asks(i, {"refund"}) /\ click[i].auth
  /\ Answered(i, CASE pay = "captured" -> "read" [] pay = "initiated" -> "failed"
                   [] pay = "refunded" -> "ok", FALSE)
  /\ UNCHANGED <<api, browser, loads, events>>

\* ... and the provider's refund with the writes after it.  Razorpay rejects a
\* second refund; one that is not final is answered as a failure.
DoRefund(i) ==
  /\ click[i].phase = "read"
  /\ pay' = IF Final THEN "refunded" ELSE IF pay = "captured" THEN "initiated" ELSE pay
  /\ Answered(i, IF Final THEN "ok" ELSE "failed", Final \/ pay = "captured")
  /\ UNCHANGED <<row, browser, loads, events>>

\* The request fails before it has any effect, or its answer is lost.
Fail(i) ==
  /\ click[i].phase \in {"sent", "read", "ok"} /\ events < MaxEvents /\ events' = events + 1
  /\ Answered(i, "failed", click[i].done)
  /\ UNCHANGED <<api, browser, loads>>

Handle(i) ==
  Refuse(i) \/ DoCommand(i) \/ DoRefill(i) \/ DoLogin(i) \/ ReadPayment(i) \/ DoRefund(i)

(***************************************************************************)
(* The handlers in the page, when the answer is there.                     *)
(***************************************************************************)
LoggedIn(i) ==
  /\ click[i].button = "login" /\ click[i].phase = "ok"
  /\ cookie' = TRUE /\ page' = "overview" /\ shown' = {} /\ error' = FALSE /\ busy' = "none"
  /\ loads' = [l \in Loads |-> IF l = 1 THEN [Sent(0) EXCEPT !.auth = TRUE] ELSE Idle]
  /\ click' = Left(Finished(i))
  /\ UNCHANGED <<api, events>>

\* logout() goes to the login page whether its request succeeds or not.
LoggedOut(i) ==
  /\ click[i].button = "logout" /\ click[i].phase \in {"ok", "failed"}
  /\ cookie' = (cookie /\ click[i].phase = "failed") /\ Open("login") /\ click' = Left(Finished(i))
  /\ UNCHANGED <<api, events>>

\* adminFetch goes to the login page, also for a press on an earlier page.
SentToLogin(i) ==
  /\ click[i].phase = "unauthenticated" /\ Open("login") /\ click' = Left(Finished(i))
  /\ UNCHANGED <<api, cookie, events>>

Here(i, phase) == click[i].mine /\ click[i].phase = phase /\ click[i].button # "logout"

\* Mutant: the command does not wait for the load.
DoNotLook(i) ==
  /\ Here(i, "ok") /\ click[i].button # "login"
  /\ \E l \in Loads : loads[l] = Idle /\ loads' = [loads EXCEPT ![l] = Sent(0)]
  /\ click' = Finished(i) /\ busy' = "none"
  /\ UNCHANGED <<api, cookie, page, shown, error, events>>

\* await load()
Look(i) ==
  /\ Here(i, "ok") /\ click[i].button # "login"
  /\ \E l \in Loads : loads[l] = Idle /\ loads' = [loads EXCEPT ![l] = Sent(i)]
  /\ click' = [click EXCEPT ![i].phase = "looking"]
  /\ UNCHANGED <<api, browser, events>>

\* catch and finally
ShowError(i) ==
  /\ Here(i, "failed")
  /\ error' = TRUE /\ busy' = "none" /\ click' = Finished(i)
  /\ UNCHANGED <<api, cookie, page, shown, loads, events>>

(***************************************************************************)
(* The session's twelve hours end; the kiosk and the provider go on.       *)
(***************************************************************************)
SessionEnds == cookie /\ cookie' = FALSE /\ UNCHANGED <<api, page, shown, error, busy, loads, click, events>>

KioskWrites ==
  /\ row' \in {Connected(row), Gone(row)} \cup {Heard(row, b) : b \in Beats}
  /\ UNCHANGED <<pay, browser, loads, click, events>>

RefundProcessed ==
  /\ pay = "initiated" /\ pay' = "refunded"
  /\ UNCHANGED <<row, browser, loads, click, events>>

------------------------------------------------------------------------------
Continue(i) == LoggedIn(i) \/ LoggedOut(i) \/ SentToLogin(i) \/ Look(i) \/ ShowError(i)

ConsoleNext ==
  \/ \E p \in Pages : Visit(p)
  \/ Poll
  \/ \E l \in Loads : Serve(l) \/ LoadFails(l) \/ Receive(l)
  \/ \E b \in Buttons : Press(b)
  \/ \E i \in Clicks : Handle(i) \/ Fail(i) \/ Continue(i)
  \/ SessionEnds \/ KioskWrites \/ RefundProcessed

ConsoleSpec == ConsoleInit /\ [][ConsoleNext]_consoleVars

\* The interval fires, and requests come back, if only as failures.
ConsoleFairness ==
  /\ WF_consoleVars(Poll)
  /\ \A l \in Loads : WF_consoleVars(Serve(l)) /\ WF_consoleVars(Receive(l))
  /\ \A i \in Clicks : WF_consoleVars(Handle(i)) /\ SF_consoleVars(click[i].mine /\ Continue(i))

FairConsole == ConsoleSpec /\ ConsoleFairness

------------------------------------------------------------------------------
(***************************************************************************)
(* Properties.                                                             *)
(***************************************************************************)

\* Types; a load or an answer belongs to the page that is open.
TypeOK ==
  /\ row \in Rows /\ pay \in Payments /\ cookie \in BOOLEAN /\ page \in Pages
  /\ shown \in SUBSET Answers(page) /\ error \in BOOLEAN /\ busy \in Groups \cup {"none"}
  /\ loads \in [Loads -> Requests(page)] /\ click \in [Clicks -> Presses]
  /\ events \in 0 .. MaxEvents

\* While an administrator uses one button of a page (or one pair, for
\* maintenance), its commands do not overlap.  (busy; only another button's
\* command, which clears it, can let a second one through.  Refund is not
\* guarded.)
Guarded(i) == Pending(i) /\ click[i].button \notin {"logout", "refund"}
OneButton ==
  \A i, k \in Clicks : click[i].mine /\ click[k].mine => Group(click[i].button) = Group(click[k].button)
OneAtATime == OneButton => \A i, k \in Clicks : Guarded(i) /\ Guarded(k) => i = k

\* A press that succeeds ends with a page that shows an answer from after it,
\* not one that a slower poll brings from before, unless the load has failed.
\* (await load() precedes finally.)
EndsWithLook ==
  [][\A i \in Clicks :
       click[i].mine /\ click[i].done /\ click[i].phase \in {"ok", "looking"}
         /\ click'[i].phase = "over" /\ page' = page
         => error' \/ \E a \in shown' : i \in a.after]_consoleVars

\* When the data of a page stop changing and the administrator stays, the page
\* shows them at last, and no error, in whatever order its loads came back.
EndsTrue ==
  <>[][FALSE]_<<row, pay, page, cookie>> => <>[](page # "login" => ~error /\ \E a \in shown : a.data = Answer.data)

\* A page whose session is over goes to the login page by itself, and no button
\* stays busy.
ConsoleComesBack ==
  /\ ~cookie ~> cookie \/ page = "login"
  /\ busy # "none" ~> busy = "none"
===============================================================================
