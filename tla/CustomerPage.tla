----------------------------- MODULE CustomerPage -----------------------------
(***************************************************************************)
(* The customer's page (apps/web/app/page.tsx): its phases, its debounced  *)
(* price requests, the checkout and the polling, whose replies may come in *)
(* any order, late, or not at all.  The API is here what the page sees of  *)
(* it: one answer to each request (PrintKiosk has its inside).             *)
(***************************************************************************)
EXTENDS Integers, FiniteSets

CONSTANTS
  Jobs, NoJob,   \* jobs, numbered as they are created; a code is named by its job
  KindOf,        \* what is picked for a job: "document" or "photo"
  Unreadable,    \* jobs whose upload or processing may fail
  Docs, NewDoc,  \* the settings (copies, colour, range, crop, ...), and those at the start
  BadDocs,       \* settings of a document the API refuses: a mistyped page range
  PayMode,       \* "mock" or "razorpay"
  Lossy,         \* the requests that may be lost, or their replies
  MaxCalls,      \* bound: requests in flight
  MaxOrders,     \* bound: orders
  MaxChanges,    \* bound: changes of the settings
  MaxReloads     \* bound

OpNames == {"info", "create", "put", "process", "price", "pay", "script", "confirm", "status"}

ASSUME PageAssumption ==
  /\ Jobs \subseteq Nat /\ NoJob \notin Jobs
  /\ KindOf \in [Jobs -> {"document", "photo"}]
  /\ Unreadable \subseteq Jobs /\ NewDoc \in Docs /\ BadDocs \subseteq Docs
  /\ PayMode \in {"mock", "razorpay"} /\ Lossy \subseteq OpNames
  /\ {MaxCalls, MaxOrders, MaxChanges, MaxReloads} \subseteq Nat

VARIABLES
  page,     \* the React state
  armed,    \* the pricing effect's 320 ms timer runs
  url,      \* the job in the address, which a reload resumes
  calls,    \* requests and replies in flight
  windows,  \* open Razorpay checkouts, <<job, order>>
  server,   \* the API's job rows
  captured, \* orders that were paid, <<job, order>>
  changes, reloads
pageVars == <<page, armed, url, calls, windows, server, captured, changes, reloads>>
bounds   == <<changes, reloads>>

Phases     == {"loading", "landing", "uploading", "settings", "otp"}
PhotoModes == {"photo4x6", "passport"}
Bodies     == [mode : {"document"} \cup PhotoModes, doc : Docs]
NoBody     == [mode |-> "none", doc |-> NewDoc]
NoPrice    == [job |-> NoJob, body |-> NoBody]
NoStatus   == [job |-> NoJob, state |-> "none"]

\* REFUNDED stands for each way in which a paid job ends unprinted, LOCKED for
\* a waiting job with otpLocked.
JobStates  == {"NONE", "UPLOADED", "PRICED", "AWAITING_PAYMENT", "QUEUED", "LOCKED",
               "PRINTING", "COMPLETED", "FAILED", "REFUNDED"}

\* live: the reply is still of use (its seq is priceSeq.current; its effect is
\* not cancelled).
Call == [op : OpNames, job : Jobs \cup {NoJob}, body : Bodies \cup {NoBody}, order : Nat,
         live : BOOLEAN, reply : {"none", "ok", "failed"},
         state : JobStates \cup {"none", "ONLINE", "OFFLINE"}, code : BOOLEAN]
Request(op, j) == [op |-> op, job |-> j, body |-> NoBody, order |-> 0, live |-> TRUE,
                   reply |-> "none", state |-> "none", code |-> FALSE]

FreshPage == [phase |-> "loading", kiosk |-> "unknown", job |-> NoJob, image |-> FALSE,
              doc |-> NewDoc, mode |-> "photo4x6", price |-> NoPrice, pricing |-> FALSE,
              status |-> NoStatus, otp |-> NoJob, error |-> FALSE]

Init ==
  /\ page = FreshPage /\ armed = FALSE /\ url = NoJob
  /\ calls = {Request("info", NoJob)} /\ windows = {} /\ captured = {} /\ changes = 0 /\ reloads = 0
  /\ server = [j \in Jobs |-> [state |-> "NONE", body |-> NoBody, ordered |-> NoBody,
                               order |-> 0, code |-> "none"]]

API == <<server, captured>>

(***************************************************************************)
(* The page.  Render(p, S): the state becomes p and the requests S, and    *)
(* the effects whose inputs changed are cleaned up and run again.          *)
(***************************************************************************)
Priced(p)  == <<p.phase, p.job, p.doc, p.image, p.mode>>
Watched(p) == <<p.phase, p.job>>

\* Mutant: the clean-up of the polling effect does not set cancelled.
RenderUncancelled(p, S) ==
  /\ page' = p /\ calls' = S
  /\ armed' = (p.phase = "settings" /\ p.job # NoJob /\ (armed \/ Priced(p) # Priced(page)))

Render(p, S) ==
  /\ page' = p
  /\ armed' = (p.phase = "settings" /\ p.job # NoJob /\ (armed \/ Priced(p) # Priced(page)))
  /\ calls' = IF Watched(p) = Watched(page) THEN S
              ELSE {[c EXCEPT !.live = @ /\ c.op # "status"] : c \in S}

Room == Cardinality(calls) < MaxCalls
Answered(c, op) == c \in calls /\ c.op = op /\ c.reply # "none"
Rest(c) == calls \ {c}
Local == UNCHANGED <<url, windows, API, bounds>>

Told(p) == [p EXCEPT !.error = TRUE]

\* Boot: the kiosk's info, then the job in the address or the landing screen.
InfoReply(c) ==
  /\ Answered(c, "info")
  /\ Render(IF c.reply = "failed" THEN [Told(page) EXCEPT !.phase = "landing"]
            ELSE [page EXCEPT !.kiosk = c.state, !.job = url,
                              !.phase = IF url = NoJob THEN "landing" ELSE "otp"],
            Rest(c))
  /\ Local

\* startUpload, as far as the first request.  Without a kiosk it throws; files
\* over 50 MB are turned down.
Free(j) == server[j].state = "NONE" /\ \A i \in Jobs : i < j => server[i].state # "NONE"
PickFile(j) ==
  /\ page.phase = "landing" /\ page.kiosk # "OFFLINE" /\ Room /\ Free(j)
  /\ LET picked == [page EXCEPT !.image = (KindOf[j] = "photo"), !.error = FALSE] IN
     \/ Render(Told(page), calls)
     \/ page.kiosk = "unknown" /\ Render(Told(picked), calls)
     \/ /\ page.kiosk # "unknown"
        /\ Render([picked EXCEPT !.phase = "uploading"], calls \cup {Request("create", NoJob)})
  /\ Local

UploadFails(c) == Render([Told(page) EXCEPT !.phase = "landing"], Rest(c)) /\ Local

\* Create, upload, process: one request after the other.
UploadReply(c, op, next) ==
  /\ Answered(c, op)
  /\ IF c.reply = "failed" THEN UploadFails(c)
     ELSE Render(page, Rest(c) \cup {Request(next, c.job)}) /\ Local

\* The job goes into the address before it is shown.
ProcessReply(c) ==
  /\ Answered(c, "process")
  /\ IF c.reply = "failed" THEN UploadFails(c)
     ELSE /\ Render([page EXCEPT !.job = c.job, !.phase = "settings"], Rest(c))
          /\ url' = c.job
          /\ UNCHANGED <<windows, API, bounds>>

Setting ==
  /\ page.phase = "settings"
  /\ changes < MaxChanges /\ changes' = changes + 1
  /\ UNCHANGED <<url, windows, API, reloads>>

Change(d)     == d # page.doc /\ Render([page EXCEPT !.doc = d], calls) /\ Setting
SelectMode(m) == page.image /\ m # page.mode /\ Render([page EXCEPT !.mode = m], calls) /\ Setting

\* The body of the price request.
Body == [mode |-> IF page.image THEN page.mode ELSE "document", doc |-> page.doc]

\* The timer fires: a new sequence number, so that earlier replies are stale.
Fire ==
  /\ armed /\ Room
  /\ armed' = FALSE
  /\ page' = [page EXCEPT !.pricing = TRUE, !.error = FALSE]
  /\ calls' = {[c EXCEPT !.live = @ /\ c.op # "price"] : c \in calls}
                \cup {[Request("price", page.job) EXCEPT !.body = Body]}
  /\ Local

\* Mutant: no sequence guard.
PriceReplyUnguarded(c) ==
  /\ Answered(c, "price")
  /\ Render(IF c.reply = "ok"
            THEN [page EXCEPT !.price = [job |-> c.job, body |-> c.body], !.pricing = FALSE]
            ELSE [Told(page) EXCEPT !.price = NoPrice, !.pricing = FALSE], Rest(c))
  /\ Local

PriceReply(c) ==
  /\ Answered(c, "price")
  /\ Render(IF ~c.live THEN page
            ELSE IF c.reply = "ok"
            THEN [page EXCEPT !.price = [job |-> c.job, body |-> c.body], !.pricing = FALSE]
            ELSE [Told(page) EXCEPT !.price = NoPrice, !.pricing = FALSE], Rest(c))
  /\ Local

\* The pay bar is disabled without a price and while one is being computed.
Payable == page.phase = "settings" /\ page.price # NoPrice /\ ~page.pricing

TapPay ==
  /\ Payable /\ Room
  /\ Request("pay", page.job) \notin calls
  /\ Render([page EXCEPT !.error = FALSE], calls \cup {Request("pay", page.job)})
  /\ Local

\* Mock: paid.  Razorpay: the checkout script is loaded next.
PayReply(c) ==
  /\ Answered(c, "pay")
  /\ Render(IF c.reply = "failed" THEN Told(page)
            ELSE IF PayMode = "mock" THEN [page EXCEPT !.phase = "otp"] ELSE page,
            Rest(c) \cup {r \in {[Request("script", c.job) EXCEPT !.order = c.order]} :
                            c.reply = "ok" /\ PayMode = "razorpay"})
  /\ Local

ScriptReply(c) ==
  /\ Answered(c, "script")
  /\ Render(IF c.reply = "failed" THEN Told(page) ELSE page, Rest(c))
  /\ windows' = windows \cup {w \in {<<c.job, c.order>>} : c.reply = "ok"}
  /\ UNCHANGED <<url, API, bounds>>

\* The customer pays in the checkout, whose handler confirms, or closes it.
PayInWindow(w) ==
  /\ w \in windows /\ w \notin captured /\ Room
  /\ windows' = windows \ {w} /\ captured' = captured \cup {w}
  /\ Render(page, calls \cup {[Request("confirm", w[1]) EXCEPT !.order = w[2]]})
  /\ UNCHANGED <<url, server, bounds>>

CloseWindow(w) ==
  /\ w \in windows /\ windows' = windows \ {w}
  /\ UNCHANGED <<page, armed, url, calls, API, bounds>>

\* Mutant: a failed confirmation goes unnoticed.
ConfirmReplySilent(c) ==
  /\ Answered(c, "confirm")
  /\ Render(IF c.reply = "failed" THEN page ELSE [page EXCEPT !.phase = "otp"], Rest(c))
  /\ Local

ConfirmReply(c) ==
  /\ Answered(c, "confirm")
  /\ Render(IF c.reply = "failed" THEN Told(page) ELSE [page EXCEPT !.phase = "otp"], Rest(c))
  /\ Local

\* Mutants: one poll only; no polls once the code is shown.
PollOnce ==
  /\ page.phase = "otp" /\ page.job # NoJob /\ Room /\ page.status = NoStatus
  /\ Request("status", page.job) \notin calls
  /\ Render(page, calls \cup {Request("status", page.job)}) /\ Local
PollForCode ==
  /\ page.phase = "otp" /\ page.job # NoJob /\ Room /\ page.otp = NoJob
  /\ Request("status", page.job) \notin calls
  /\ Render(page, calls \cup {Request("status", page.job)}) /\ Local

\* Every three seconds, whether or not the last poll was answered.
Poll ==
  /\ page.phase = "otp" /\ page.job # NoJob /\ Room
  /\ Request("status", page.job) \notin calls
  /\ Render(page, calls \cup {Request("status", page.job)}) /\ Local

\* Mutant: a reply without a code erases the one on the screen.
StatusReplyErasing(c) ==
  /\ Answered(c, "status")
  /\ Render(IF ~c.live THEN page
            ELSE IF c.reply = "failed" THEN Told(page)
            ELSE [page EXCEPT !.status = [job |-> c.job, state |-> c.state],
                              !.otp = IF c.code THEN c.job ELSE NoJob],
            Rest(c))
  /\ Local

StatusReply(c) ==
  /\ Answered(c, "status")
  /\ Render(IF ~c.live THEN page
            ELSE IF c.reply = "failed" THEN Told(page)
            ELSE [page EXCEPT !.status = [job |-> c.job, state |-> c.state],
                              !.otp = IF c.code THEN c.job ELSE @],
            Rest(c))
  /\ Local

\* The screens of OtpScreen that have a way out: all but WaitingForKeypad.
WayOut == {"COMPLETED", "FAILED", "REFUNDED", "LOCKED", "PRINTING"}

\* reset: what was chosen for the photo, errors and the price requests in
\* flight stay as they are.
Reset ==
  /\ page.phase = "otp" /\ page.status.state \in WayOut
  /\ Render([page EXCEPT !.job = NoJob, !.status = NoStatus, !.otp = NoJob, !.price = NoPrice,
                         !.doc = NewDoc, !.phase = "landing"], calls)
  /\ url' = NoJob
  /\ UNCHANGED <<windows, API, bounds>>

\* The customer reloads the page or opens its link again.  (Without a job in
\* the address that is a new beginning.)
Reload ==
  /\ url # NoJob /\ reloads < MaxReloads /\ reloads' = reloads + 1
  /\ page' = FreshPage /\ armed' = FALSE
  /\ calls' = {Request("info", NoJob)} /\ windows' = {}
  /\ UNCHANGED <<url, API, changes>>

(***************************************************************************)
(* What the page sees of the API.                                          *)
(***************************************************************************)
Asked(c, op)  == c \in calls /\ c.op = op /\ c.reply = "none"
Answer(c, r)  == calls' = Rest(c) \cup {r} /\ UNCHANGED <<page, armed, url, windows, captured, bounds>>
Refuse(c)     == Answer(c, [c EXCEPT !.reply = "failed"]) /\ UNCHANGED server
Accept(c)     == [c EXCEPT !.reply = "ok"]
Row(j, r)     == server' = [server EXCEPT ![j] = r]

ServeInfo(c) ==
  /\ Asked(c, "info")
  /\ \E s \in {"ONLINE", "OFFLINE"} : Answer(c, [Accept(c) EXCEPT !.state = s])
  /\ UNCHANGED server

\* Only some types of file are accepted.
ServeCreate(c) ==
  /\ Asked(c, "create")
  /\ \/ Refuse(c)
     \/ \E j \in Jobs :
          /\ Free(j)
          /\ Answer(c, [Accept(c) EXCEPT !.job = j])
          /\ Row(j, [server[j] EXCEPT !.state = "UPLOADED"])

\* The upload may break off.
ServePut(c) ==
  /\ Asked(c, "put")
  /\ \/ c.job \in Unreadable /\ Refuse(c)
     \/ Answer(c, Accept(c)) /\ UNCHANGED server

ServeProcess(c) ==
  /\ Asked(c, "process")
  /\ \E ok \in {TRUE, c.job \notin Unreadable} :
       /\ Answer(c, [c EXCEPT !.reply = IF ok THEN "ok" ELSE "failed"])
       /\ Row(c.job, [server[c.job] EXCEPT !.state = IF ok THEN "PRICED" ELSE "FAILED"])

\* Requests are saved in the order in which they are done, not sent.
Refused(body) == body.mode = "document" /\ body.doc \in BadDocs
ServePrice(c) ==
  /\ Asked(c, "price")
  /\ IF server[c.job].state \in {"PRICED", "AWAITING_PAYMENT"} /\ ~Refused(c.body)
     THEN /\ Answer(c, Accept(c))
          /\ Row(c.job, [server[c.job] EXCEPT !.state = "AWAITING_PAYMENT", !.body = c.body])
     ELSE Refuse(c)

\* The first payment wins; an order is used again while its amount stands, which
\* other settings may have, too.
Queued(r)    == [r EXCEPT !.state = "QUEUED", !.code = "kept"]
NewOrder(o)  == /\ \A j \in Jobs : server[j].order < o
                /\ o = 1 \/ \E j \in Jobs : server[j].order = o - 1
ServePay(c) ==
  LET r == server[c.job] IN
  /\ Asked(c, "pay")
  /\ IF r.state # "AWAITING_PAYMENT" THEN Refuse(c)
     ELSE IF PayMode = "mock" THEN Answer(c, Accept(c)) /\ Row(c.job, Queued(r))
     ELSE \E o \in 1..MaxOrders :
            /\ \/ r.ordered # NoBody /\ o = r.order
               \/ r.ordered # r.body /\ NewOrder(o)
            /\ Answer(c, [Accept(c) EXCEPT !.order = o])
            /\ Row(c.job, [r EXCEPT !.order = o, !.ordered = r.body])

ServeScript(c) == Asked(c, "script") /\ (Refuse(c) \/ (Answer(c, Accept(c)) /\ UNCHANGED server))

Confirmable(j, order) == server[j].state = "AWAITING_PAYMENT" /\ server[j].order = order
ServeConfirm(c) ==
  /\ Asked(c, "confirm")
  /\ IF Confirmable(c.job, c.order)
     THEN Answer(c, Accept(c)) /\ Row(c.job, Queued(server[c.job]))
     ELSE Refuse(c)

\* The webhook may be faster than the page.
Webhook(w) ==
  /\ w \in captured /\ Confirmable(w[1], w[2])
  /\ Row(w[1], Queued(server[w[1]]))
  /\ UNCHANGED <<page, armed, url, calls, windows, captured, bounds>>

\* status: the code is handed out once.
ServeStatus(c) ==
  LET r == server[c.job]
      reveal == r.state \in {"QUEUED", "PRINTING"} /\ r.code = "kept"
  IN
  /\ Asked(c, "status")
  /\ Answer(c, [Accept(c) EXCEPT !.state = r.state, !.code = reveal])
  /\ Row(c.job, [r EXCEPT !.code = IF reveal THEN "given" ELSE @])

\* What kiosk and sweep do to a paid job, while the customer can see it.
Progress(j) ==
  /\ url = j
  /\ \E next \in CASE server[j].state = "QUEUED"   -> {"PRINTING", "LOCKED", "REFUNDED"}
                   [] server[j].state = "LOCKED"   -> {"REFUNDED"}
                   [] server[j].state = "PRINTING" -> {"COMPLETED", "REFUNDED"}
                   [] OTHER -> {} :
       Row(j, [server[j] EXCEPT !.state = next])
  /\ UNCHANGED <<page, armed, url, calls, windows, captured, bounds>>

\* A request, done or not, has no reply.
Lose(c) == c \in calls /\ c.op \in Lossy /\ c.reply # "failed" /\ Refuse(c)

Serve(c) == \/ ServeInfo(c) \/ ServeCreate(c) \/ ServePut(c) \/ ServeProcess(c) \/ ServePrice(c)
            \/ ServePay(c) \/ ServeScript(c) \/ ServeConfirm(c) \/ ServeStatus(c)

Reply(c) == \/ InfoReply(c) \/ UploadReply(c, "create", "put") \/ UploadReply(c, "put", "process")
            \/ ProcessReply(c) \/ PriceReply(c) \/ PayReply(c) \/ ScriptReply(c)
            \/ ConfirmReply(c) \/ StatusReply(c)

Customer == \/ \E j \in Jobs : PickFile(j)
            \/ \E d \in Docs : Change(d)
            \/ \E m \in PhotoModes : SelectMode(m)
            \/ TapPay \/ Reset \/ Reload
            \/ \E w \in windows : PayInWindow(w) \/ CloseWindow(w)

Next == \/ Customer \/ Fire \/ Poll
        \/ \E c \in calls : Serve(c) \/ Reply(c) \/ Lose(c)
        \/ \E w \in captured : Webhook(w)
        \/ \E j \in Jobs : Progress(j)

Spec == Init /\ [][Next]_pageVars

(***************************************************************************)
(* Fairness.  The page's interval fires, requests are done and replies     *)
(* come (browser and network), and the reply with the code is not          *)
(* overtaken by others for ever.  Strong fairness of Poll only says that   *)
(* the bound on calls does not keep it waiting.  Nothing is assumed of the *)
(* customer, the kiosk and the webhook.                                    *)
(***************************************************************************)
Fairness ==
  /\ SF_pageVars(Poll)
  /\ \A poll \in BOOLEAN :
       /\ WF_pageVars(\E c \in calls : (c.op = "status") = poll /\ Serve(c))
       /\ WF_pageVars(\E c \in calls : (c.op = "status") = poll /\ Reply(c))
  /\ WF_pageVars(\E c \in calls : c.code /\ Reply(c))

FairSpec == Spec /\ Fairness

------------------------------------------------------------------------------
TypeOK ==
  /\ page \in [phase : Phases, kiosk : {"unknown", "ONLINE", "OFFLINE"}, job : Jobs \cup {NoJob},
               image : BOOLEAN, doc : Docs, mode : PhotoModes,
               price : [job : Jobs \cup {NoJob}, body : Bodies \cup {NoBody}],
               pricing : BOOLEAN,
               status : [job : Jobs \cup {NoJob}, state : JobStates \cup {"none"}],
               otp : Jobs \cup {NoJob}, error : BOOLEAN]
  /\ armed \in BOOLEAN /\ url \in Jobs \cup {NoJob}
  /\ calls \subseteq Call
  /\ windows \subseteq Jobs \X Nat /\ captured \subseteq Jobs \X Nat
  /\ server \in [Jobs -> [state : JobStates, body : Bodies \cup {NoBody}, ordered : Bodies \cup {NoBody},
                          order : Nat, code : {"none", "kept", "given"}]]
  /\ changes \in 0..MaxChanges /\ reloads \in 0..MaxReloads

\* Once the settings have rested and the pay bar is not busy, the price on the
\* screen is the one for the settings on the screen, or there is an error and
\* nothing to pay: however slow or reordered the replies, those of an earlier
\* job included.
PriceIsForTheseSettings ==
  page.phase = "settings" /\ ~armed /\ ~page.pricing =>
    \/ page.price = [job |-> page.job, body |-> Body]
    \/ page.price = NoPrice /\ page.error

\* The waiting room shows the job that the address names, so that a reload
\* finds it again, and never the code or the state of another job, although
\* polls of an earlier one may still be in flight.
ScreenIsOwn ==
  page.phase \in {"settings", "otp"} =>
    /\ page.job # NoJob /\ url = page.job
    /\ page.otp \in {NoJob, page.job}
    /\ page.status.job \in {NoJob, page.job}

\* Whoever has paid the standing order and is left on the settings screen has
\* been told so: when nothing is in flight there is an error (the webhook may
\* have queued the job before the page's confirmation, which is then refused).
AtRest      == calls = {} /\ ~armed /\ windows = {}
Standing(j) == <<j, server[j].order>> \in captured
PaidIsNotIgnored ==
  AtRest /\ page.phase = "settings" /\ Standing(page.job) => page.error

\* The API gives the digits once, so the page must not lose them: they stay on
\* the screen until the customer leaves it.
CodeStaysOnScreen ==
  [][page.otp # NoJob => page'.otp = page.otp \/ page'.job # page.job]_pageVars

\* On the waiting screen a code that was issued appears, or the page says what
\* became of the job, or that contact was lost.
Waits         == page.phase = "otp" /\ page.job # NoJob
WaitsFor(S)   == Waits /\ server[page.job].state \in S
CodeIssued    == Waits /\ server[page.job].code = "kept"
CodeArrives   == CodeIssued ~> (~Waits \/ page.otp = page.job \/ page.error
                                  \/ page.status.state \in WayOut)

\* "Collect your prints" or "refunded" reaches whoever waits for it.
Outcomes       == {"COMPLETED", "REFUNDED"}
OutcomeArrives == WaitsFor(Outcomes) ~> (~Waits \/ page.status.state \in Outcomes \/ page.error)
==============================================================================
