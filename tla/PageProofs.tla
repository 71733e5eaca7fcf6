------------------------------ MODULE PageProofs ------------------------------
(***************************************************************************)
(* What the page shows is right, for any number of jobs, requests, orders, *)
(* changes and reloads, whatever is lost and in both payment modes.  Three *)
(* things make it so: one upload at a time, a sequence number for prices,  *)
(* and that no checkout of an unpaid job outlives its settings screen.     *)
(* The last part is about money: until a paid order is confirmed there is  *)
(* something in flight that ends in an error or on the waiting screen.     *)
(***************************************************************************)
EXTENDS CustomerPage, TLAPS

Uploads  == {"create", "put", "process"}
Checkout == {"pay", "script", "confirm"}
Pages    == [phase : Phases, kiosk : {"unknown", "ONLINE", "OFFLINE"}, job : Jobs \cup {NoJob},
             image : BOOLEAN, doc : Docs, mode : PhotoModes,
             price : [job : Jobs \cup {NoJob}, body : Bodies \cup {NoBody}],
             pricing : BOOLEAN,
             status : [job : Jobs \cup {NoJob}, state : JobStates \cup {"none"}],
             otp : Jobs \cup {NoJob}, error : BOOLEAN]
Servers  == [Jobs -> [state : JobStates, body : Bodies \cup {NoBody},
                      ordered : Bodies \cup {NoBody}, order : Nat,
                      code : {"none", "kept", "given"}]]

Paid(j)       == server[j].state \notin {"NONE", "UPLOADED", "PRICED", "AWAITING_PAYMENT"}
OnSettings(j) == page.phase = "settings" /\ page.job = j

\* What a call carries.
CallOK(c) ==
  /\ c.op \notin {"info", "create"} => c.job \in Jobs
  /\ c.op = "create" /\ c.reply = "ok" => c.job \in Jobs
  /\ c.op = "info" /\ c.reply = "ok" => c.state \in {"ONLINE", "OFFLINE"}
  /\ c.op = "status" => c.state \in JobStates \cup {"none"}
CallsAgree == \A c \in calls : CallOK(c)

\* The page boots with one request.
BootAgrees ==
  /\ page.phase = "loading" => /\ page = FreshPage /\ windows = {}
                               /\ \E c \in calls : calls = {c} /\ c.op = "info"
  /\ page.phase # "loading" => \A c \in calls : c.op # "info"

\* It uploads one job at a time, of which nothing is known until it is processed.
Pending(c) == \/ c.op \in {"put", "process"} /\ c.reply = "none"
              \/ c.op \in {"create", "put"} /\ c.reply = "ok"
UploadAgrees ==
  /\ \A c \in calls : c.op \in Uploads => page.phase = "uploading"
  /\ \A c, d \in calls : c.op \in Uploads /\ d.op \in Uploads => c = d
  /\ \A c \in calls : Pending(c) => server[c.job].state = "UPLOADED"

\* A checkout that is open belongs to the settings screen, or its job is paid;
\* the one reply that leads to the waiting room still finds the settings.
Grants(c) == c.reply = "ok" /\ (c.op = "confirm" \/ (c.op = "pay" /\ PayMode = "mock"))
CheckoutAgrees ==
  /\ \A c \in calls : c.op \in Checkout => OnSettings(c.job) \/ Paid(c.job)
  /\ \A w \in windows : OnSettings(w[1]) \/ Paid(w[1])
  /\ \A c \in calls : Grants(c) => OnSettings(c.job) /\ Paid(c.job)
  /\ \A c, d \in calls : Grants(c) /\ Grants(d) => c = d

\* Code and status are those of the waiting room; polls of another one are dead.
WaitingAgrees ==
  /\ page.phase # "otp" => page.otp = NoJob /\ page.status = NoStatus
  /\ \A c \in calls : c.op = "status" /\ c.live => page.phase = "otp" /\ page.job = c.job

\* A price request that counts was made for the settings on the screen, unless
\* another one is about to be made.
PricesAgree ==
  /\ armed => page.phase = "settings" /\ page.job \in Jobs
  /\ \A c \in calls : c.op = "price" /\ c.live /\ page.phase = "settings" /\ ~armed
                       => c.job = page.job /\ c.body = Body

Agreed  == /\ TypeOK /\ CallsAgree /\ BootAgrees /\ UploadAgrees /\ CheckoutAgrees
           /\ WaitingAgrees /\ PricesAgree /\ ScreenIsOwn
PageInv == Agreed /\ PriceIsForTheseSettings

\* The parts of the type invariant.
LEMMA Types ==
  TypeOK <=> /\ page \in Pages /\ armed \in BOOLEAN /\ url \in Jobs \cup {NoJob}
             /\ calls \subseteq Call /\ windows \subseteq Jobs \X Nat
             /\ captured \subseteq Jobs \X Nat /\ server \in Servers
             /\ changes \in 0 .. MaxChanges /\ reloads \in 0 .. MaxReloads
BY DEF TypeOK, Pages, Servers

\* A new request is a call.
LEMMA RequestFacts ==
  ASSUME NEW op \in OpNames, NEW j \in Jobs \cup {NoJob}
  PROVE  /\ Request(op, j) \in Call /\ Request(op, j).op = op /\ Request(op, j).job = j
         /\ Request(op, j).reply = "none" /\ Request(op, j).state = "none"
         /\ Request(op, j).live = TRUE
BY DEF Request, Call

\* After a render a poll of another screen is dead, and nothing else has changed
\* on its way.
LEMMA RenderFacts ==
  ASSUME TypeOK, NEW p \in Pages, NEW S \in SUBSET Call, \A c \in S : CallOK(c), Render(p, S)
  PROVE  /\ page' = p /\ calls' \subseteq Call /\ armed' \in BOOLEAN
         /\ \A d \in calls' : CallOK(d)
         /\ \A d \in calls' : d.op # "status" => d \in S
         /\ \A d \in calls' : d.op = "status" /\ d.live =>
               d \in S /\ p.phase = page.phase /\ p.job = page.job
<1>1. page' = p /\ armed' \in BOOLEAN
  BY DEF Render
<1>2. CASE Watched(p) = Watched(page)
  <2>1. calls' = S
    BY <1>2 DEF Render
  <2>2. p.phase = page.phase /\ p.job = page.job
    BY <1>2 DEF Watched
  <2> QED BY <1>1, <2>1, <2>2
<1>3. CASE Watched(p) # Watched(page)
  <2> DEFINE F(c) == [c EXCEPT !.live = @ /\ c.op # "status"]
  <2>1. calls' = {F(c) : c \in S}
    BY <1>3 DEF Render
  <2>2. ASSUME NEW c \in S
        PROVE  /\ F(c) \in Call /\ CallOK(F(c))
               /\ F(c).op = c.op /\ F(c).live = (c.live /\ c.op # "status")
               /\ c.op # "status" => F(c) = c
    <3>1. c \in Call /\ CallOK(c) /\ c.live \in BOOLEAN
      BY DEF Call
    <3>2. /\ F(c) \in Call /\ F(c).op = c.op /\ F(c).job = c.job /\ F(c).reply = c.reply
          /\ F(c).state = c.state /\ F(c).live = (c.live /\ c.op # "status")
      BY <3>1 DEF Call
    <3>3. CallOK(F(c))
      <4> HIDE DEF F
      <4> QED BY <3>1, <3>2 DEF CallOK
    <3>4. ASSUME c.op # "status" PROVE F(c) = c
      <4>1. (c.live /\ c.op # "status") = c.live
        BY <3>1, <3>4
      <4> QED BY <3>1, <4>1 DEF Call
    <3> QED BY <3>2, <3>3, <3>4
  <2> HIDE DEF F
  <2> QED BY <1>1, <2>1, <2>2
<1> QED BY <1>2, <1>3

\* A render that stays on its screen, with the requests S in flight: those that
\* were, or new ones that fit the screen.
Fits(c) ==
  /\ CallOK(c) /\ c.op \notin {"info", "price"} /\ ~Grants(c)
  /\ c.op \in Checkout => OnSettings(c.job) \/ Paid(c.job)
  /\ c.op = "status" => page.phase = "otp" /\ page.job = c.job

LEMMA StaysUploading ==
  ASSUME Agreed, NEW p \in Pages, NEW S \in SUBSET Call, Render(p, S),
         page.phase # "loading", p.phase = page.phase, p.job = page.job,
         \A c \in S : c \in calls \/ Fits(c),
         \A c \in S : c.op \in Uploads => page.phase = "uploading" /\ \A d \in S : d.op \in Uploads => c = d,
         \A c \in S : Pending(c) => server[c.job].state = "UPLOADED",
         p.phase # "otp" => p.otp = NoJob /\ p.status = NoStatus,
         p.otp \in {NoJob, p.job}, p.status.job \in {NoJob, p.job},
         UNCHANGED <<url, server>>,
         captured' \subseteq Jobs \X Nat, windows' \subseteq Jobs \X Nat,
         \A w \in windows' : OnSettings(w[1]) \/ Paid(w[1]),
         changes' \in 0 .. MaxChanges, reloads' \in 0 .. MaxReloads
  PROVE  Agreed'
<1>0. TypeOK /\ CallsAgree /\ BootAgrees /\ UploadAgrees /\ CheckoutAgrees
      /\ WaitingAgrees /\ PricesAgree /\ ScreenIsOwn
  BY DEF Agreed
<1>1. \A c \in S : CallOK(c)
  BY <1>0 DEF CallsAgree, Fits
<1>2. /\ page' = p /\ calls' \subseteq Call /\ armed' \in BOOLEAN
      /\ \A d \in calls' : CallOK(d)
      /\ \A d \in calls' : d.op # "status" => d \in S
      /\ \A d \in calls' : d.op = "status" /\ d.live => d \in S
  BY <1>0, <1>1, RenderFacts
<1>3. TypeOK'
  BY <1>0, <1>2 DEF TypeOK, Pages
<1>4. CallsAgree'
  BY <1>2 DEF CallsAgree
<1>5. BootAgrees'
  BY <1>0, <1>2 DEF BootAgrees, Fits
<1>6. UploadAgrees'
  <2>1. \A d \in calls' : d.op \in Uploads => d \in S
    BY <1>2 DEF Uploads
  <2>2. \A d \in calls' : Pending(d) => d \in S
    BY <1>2 DEF Pending
  <2> QED BY <1>0, <1>2, <2>1, <2>2 DEF UploadAgrees, Pending
<1>7. CheckoutAgrees'
  <2>1. \A j : (OnSettings(j) => OnSettings(j)') /\ (Paid(j) => Paid(j)')
    BY <1>2 DEF OnSettings, Paid
  <2>2. \A d \in calls' : d.op \in Checkout => OnSettings(d.job) \/ Paid(d.job)
    BY <1>0, <1>2 DEF Fits, Checkout, CheckoutAgrees
  <2>3. \A d \in calls' : Grants(d) => d \in calls
    BY <1>2 DEF Fits, Grants
  <2> QED BY <1>0, <2>1, <2>2, <2>3 DEF CheckoutAgrees, Grants, OnSettings, Paid
<1>8. WaitingAgrees'
  BY <1>0, <1>2 DEF WaitingAgrees, Fits
<1>9. PricesAgree'
  <2>1. armed' = (p.phase = "settings" /\ p.job # NoJob /\ (armed \/ Priced(p) # Priced(page)))
    BY DEF Render
  <2>2. armed' => p.phase = "settings" /\ p.job \in Jobs
    BY <2>1 DEF Pages
  <2>3. ASSUME NEW c \in calls', c.op = "price", c.live, p.phase = "settings", ~armed'
        PROVE  c.job = p.job /\ c.body = Body'
    <3>1. c \in calls
      BY <1>2, <2>3 DEF Fits
    <3>2. p.job # NoJob
      BY <1>0, <2>3 DEF ScreenIsOwn
    <3>3. ~armed /\ Priced(p) = Priced(page)
      BY <1>0, <2>1, <2>3, <3>2 DEF TypeOK
    <3>4. Body' = Body
      BY <1>2, <3>3 DEF Body, Priced
    <3> QED BY <1>0, <2>3, <3>1, <3>3, <3>4 DEF PricesAgree
  <2> QED BY <1>2, <2>2, <2>3 DEF PricesAgree
<1>10. ScreenIsOwn'
  BY <1>0, <1>2 DEF ScreenIsOwn
<1> QED BY <1>3, <1>4, <1>5, <1>6, <1>7, <1>8, <1>9, <1>10 DEF Agreed

\* In most of these nothing is uploaded anew.
LEMMA Stays ==
  ASSUME PageInv, NEW p \in Pages, NEW S \in SUBSET Call, Render(p, S),
         page.phase # "loading", p.phase = page.phase, p.job = page.job,
         \A c \in S : c \in calls \/ (Fits(c) /\ c.op \notin Uploads),
         p.phase # "otp" => p.otp = NoJob /\ p.status = NoStatus,
         p.otp \in {NoJob, p.job}, p.status.job \in {NoJob, p.job},
         UNCHANGED <<url, server>>,
         captured' \subseteq Jobs \X Nat, windows' \subseteq Jobs \X Nat,
         \A w \in windows' : OnSettings(w[1]) \/ Paid(w[1]),
         changes' \in 0 .. MaxChanges, reloads' \in 0 .. MaxReloads
  PROVE  Agreed'
<1>1. Agreed /\ UploadAgrees
  BY DEF PageInv, Agreed
<1>2. \A c \in S : c.op \in Uploads \/ Pending(c) => c \in calls
  BY DEF Pending, Uploads
<1>3. \A c \in S : c.op \in Uploads => page.phase = "uploading" /\ \A d \in S : d.op \in Uploads => c = d
  BY <1>1, <1>2 DEF UploadAgrees
<1>4. \A c \in S : Pending(c) => server[c.job].state = "UPLOADED"
  BY <1>1, <1>2 DEF UploadAgrees
<1> QED BY <1>1, <1>3, <1>4, StaysUploading

\* A render that goes to another screen: off the settings only with a paid job,
\* and without anything left of the waiting room.
LEMMA Moves ==
  ASSUME Agreed, NEW p \in Pages, NEW S \in SUBSET Call, Render(p, S),
         p.phase # page.phase, p.phase # "loading",
         \A c \in S : c \in calls \/ (c = Request("create", NoJob) /\ p.phase = "uploading"),
         \A c \in S : c.op # "info",
         \A c \in S : c.op \in Uploads => p.phase = "uploading" /\ \A d \in S : d.op \in Uploads => c = d,
         page.phase = "settings" => Paid(page.job) /\ \A c \in S : ~Grants(c),
         p.phase # "otp" => p.otp = NoJob /\ p.status = NoStatus,
         p.phase \in {"settings", "otp"} => p.job # NoJob /\ url' = p.job,
         p.otp \in {NoJob, p.job}, p.status.job \in {NoJob, p.job},
         url' \in Jobs \cup {NoJob}, UNCHANGED <<windows, server, captured, changes, reloads>>
  PROVE  Agreed' /\ PriceIsForTheseSettings'
<1>0. TypeOK /\ CallsAgree /\ BootAgrees /\ UploadAgrees /\ CheckoutAgrees
      /\ WaitingAgrees /\ PricesAgree /\ ScreenIsOwn
  BY DEF Agreed
<1>a. /\ Request("create", NoJob).op = "create" /\ Request("create", NoJob).reply = "none"
  BY RequestFacts DEF OpNames
<1>1. \A c \in S : CallOK(c)
  BY <1>0, <1>a DEF CallsAgree, CallOK
<1>2. /\ page' = p /\ calls' \subseteq Call /\ armed' \in BOOLEAN
      /\ \A d \in calls' : CallOK(d)
      /\ \A d \in calls' : d.op # "status" => d \in S
      /\ \A d \in calls' : d.op = "status" => ~d.live
  BY <1>0, <1>1, RenderFacts
<1>3. TypeOK'
  BY <1>0, <1>2 DEF TypeOK, Pages
<1>4. CallsAgree'
  BY <1>2 DEF CallsAgree
<1>5. BootAgrees'
  BY <1>2 DEF BootAgrees
<1>6. UploadAgrees'
  <2>1. \A d \in calls' : Pending(d) => d \in calls
    BY <1>2, <1>a DEF Pending
  <2>2. \A d \in calls' : d.op \in Uploads => d \in S
    BY <1>2 DEF Uploads
  <2> QED BY <1>0, <1>2, <2>1, <2>2 DEF UploadAgrees, Pending
<1>7. CheckoutAgrees'
  <2>1. \A j : (OnSettings(j) => Paid(j)) /\ (Paid(j) => Paid(j)')
    BY DEF OnSettings, Paid
  <2>2. \A d \in calls' : d.op \in Checkout => d \in calls
    BY <1>2, <1>a DEF Checkout
  <2>3. \A d \in S : ~Grants(d)
    <3>1. CASE page.phase = "settings"
      BY <3>1
    <3>2. CASE page.phase # "settings"
      BY <1>0, <1>a, <3>2 DEF CheckoutAgrees, OnSettings, Grants
    <3> QED BY <3>1, <3>2
  <2>4. \A d \in calls' : ~Grants(d)
    BY <1>2, <2>3 DEF Grants
  <2>5. \A d \in calls' : ~Grants(d)'
    BY <2>4 DEF Grants
  <2> QED BY <1>0, <2>1, <2>2, <2>5 DEF CheckoutAgrees
<1>8. WaitingAgrees'
  BY <1>2 DEF WaitingAgrees
<1>9. /\ armed' => p.phase = "settings" /\ p.job \in Jobs
      /\ p.phase = "settings" => armed'
  <2>1. armed' = (p.phase = "settings" /\ p.job # NoJob /\ (armed \/ Priced(p) # Priced(page)))
    BY DEF Render
  <2>2. Priced(p) # Priced(page)
    BY DEF Priced
  <2>3. p.job \in Jobs \cup {NoJob}
    BY DEF Pages
  <2> QED BY <2>1, <2>2, <2>3
<1>10. PricesAgree' /\ PriceIsForTheseSettings'
  BY <1>2, <1>9 DEF PricesAgree, PriceIsForTheseSettings
<1>11. ScreenIsOwn'
  BY <1>2 DEF ScreenIsOwn
<1> QED BY <1>3, <1>4, <1>5, <1>6, <1>7, <1>8, <1>10, <1>11 DEF Agreed

\* A render on the same screen that leaves the price alone, and removes an error
\* only next to a price.
LEMMA PriceStays ==
  ASSUME PageInv, NEW p \in Pages, NEW S, Render(p, S),
         p.phase = page.phase, p.job = page.job,
         p.price = page.price, p.pricing = page.pricing,
         page.error /\ page.price = NoPrice => p.error
  PROVE  PriceIsForTheseSettings'
<1>1. armed' = (p.phase = "settings" /\ p.job # NoJob /\ (armed \/ Priced(p) # Priced(page)))
      /\ page' = p
  BY DEF Render
<1>2. SUFFICES ASSUME p.phase = "settings", ~armed', ~p.pricing
               PROVE  \/ p.price = [job |-> p.job, body |-> Body']
                      \/ p.price = NoPrice /\ p.error
  BY <1>1 DEF PriceIsForTheseSettings
<1>3. p.job # NoJob
  BY <1>2 DEF PageInv, Agreed, ScreenIsOwn
<1>4. ~armed /\ Priced(p) = Priced(page)
  BY <1>1, <1>2, <1>3 DEF PageInv, Agreed, TypeOK
<1>5. Body' = Body
  BY <1>1, <1>4 DEF Body, Priced
<1> QED BY <1>2, <1>4, <1>5 DEF PageInv, PriceIsForTheseSettings

\* The API moves rows on: none that is paid becomes unpaid, and one that is being
\* uploaded stays so.
MovesOn ==
  /\ server' \in Servers
  /\ \A j \in Jobs : Paid(j) => Paid(j)'

\* A request c gets its reply r.
LEMMA Answers ==
  ASSUME PageInv, NEW c \in calls, c.reply # "failed", NEW r \in Call, CallOK(r),
         r.op = c.op, r.live = c.live, r.body = c.body, c.op # "create" => r.job = c.job,
         calls' = Rest(c) \cup {r}, UNCHANGED <<page, armed, url, windows, captured, bounds>>,
         MovesOn,
         \A d \in calls' : Pending(d) => server'[d.job].state = "UPLOADED",
         Grants(r) => /\ OnSettings(r.job) /\ Paid(r.job)'
                      /\ \A d \in Rest(c) : ~Grants(d)
  PROVE  PageInv'
<1>0. TypeOK /\ CallsAgree /\ BootAgrees /\ UploadAgrees /\ CheckoutAgrees
      /\ WaitingAgrees /\ PricesAgree /\ ScreenIsOwn
  BY DEF PageInv, Agreed
<1>1. \A d \in calls' : d = r \/ (d \in calls /\ d # c)
  BY DEF Rest
<1>2. TypeOK'
  BY <1>0, <1>1 DEF TypeOK, bounds, MovesOn, Servers
<1>3. CallsAgree' /\ BootAgrees'
  BY <1>0, <1>1 DEF CallsAgree, BootAgrees, Rest
<1>4. UploadAgrees'
  BY <1>0, <1>1 DEF UploadAgrees, Uploads, Pending
<1>5. CheckoutAgrees'
  <2>1. \A j : OnSettings(j) => OnSettings(j)'
    BY DEF OnSettings
  <2>2. \A d \in calls' : d.op \in Checkout => d.job \in Jobs /\ (OnSettings(d.job) \/ Paid(d.job))
    BY <1>0, <1>1 DEF CallsAgree, CallOK, CheckoutAgrees, Checkout
  <2>3. \A w \in windows : w[1] \in Jobs
    BY <1>0 DEF TypeOK
  <2>4. \A d \in calls : Grants(d) => d.job \in Jobs
    BY <1>0 DEF CallsAgree, CallOK, Grants
  <2>5. \A d \in calls' : Grants(d) => OnSettings(d.job) /\ Paid(d.job)'
    BY <1>0, <1>1, <2>4 DEF CheckoutAgrees, MovesOn
  <2>6. \A d, e \in calls' : Grants(d) /\ Grants(e) => d = e
    BY <1>0, <1>1 DEF CheckoutAgrees, Rest
  <2> QED BY <1>0, <2>1, <2>2, <2>3, <2>5, <2>6 DEF CheckoutAgrees, MovesOn, Grants
<1>6. WaitingAgrees'
  BY <1>0, <1>1 DEF WaitingAgrees
<1>7. PricesAgree' /\ ScreenIsOwn' /\ PriceIsForTheseSettings'
  BY <1>0, <1>1 DEF PricesAgree, ScreenIsOwn, PageInv, PriceIsForTheseSettings, Body
<1> QED BY <1>2, <1>3, <1>4, <1>5, <1>6, <1>7 DEF PageInv, Agreed

RowSet == [state : JobStates, body : Bodies \cup {NoBody}, ordered : Bodies \cup {NoBody},
           order : Nat, code : {"none", "kept", "given"}]
Unpaid == {"NONE", "UPLOADED", "PRICED", "AWAITING_PAYMENT"}

\* A reply that grants nothing and leaves the rows alone; a failure, for one.
LEMMA Unserved ==
  ASSUME PageInv, NEW c \in calls, c.reply # "failed", NEW r \in Call, CallOK(r),
         r.op = c.op, r.live = c.live, r.body = c.body, r.job = c.job,
         Answer(c, r), UNCHANGED server, ~Grants(r), Pending(r) => Pending(c)
  PROVE  PageInv'
<1>1. UNCHANGED <<page, armed, url, windows, captured, bounds>> /\ calls' = Rest(c) \cup {r}
  BY DEF Answer
<1>2. MovesOn
  BY DEF MovesOn, Paid, PageInv, Agreed, TypeOK, Servers
<1>3. \A d \in calls' : Pending(d) => server'[d.job].state = "UPLOADED"
  BY <1>1 DEF Rest, PageInv, Agreed, UploadAgrees
<1> QED BY <1>1, <1>2, <1>3, Answers

\* A request that writes the row of its job, which is not being uploaded.
LEMMA Served ==
  ASSUME PageInv, NEW c \in calls, c.reply = "none", c.op \notin Uploads \cup {"info"},
         NEW r \in Call, CallOK(r),
         r.op = c.op, r.live = c.live, r.body = c.body, r.job = c.job, Answer(c, r),
         NEW row \in RowSet, Row(c.job, row),
         server[c.job].state = "UPLOADED" => row.state = "UPLOADED",
         server[c.job].state \notin Unpaid => row.state \notin Unpaid,
         Grants(r) => server[c.job].state \in Unpaid /\ row.state \notin Unpaid
                      /\ c.op \in Checkout
  PROVE  PageInv'
<1>0. /\ server \in Servers /\ c.job \in Jobs
      /\ \A d \in calls : CallOK(d)
      /\ UploadAgrees /\ CheckoutAgrees
  BY DEF PageInv, Agreed, TypeOK, Servers, CallsAgree, CallOK, Uploads
<1>1. UNCHANGED <<page, armed, url, windows, captured, bounds>> /\ calls' = Rest(c) \cup {r}
  BY DEF Answer
<1>2. /\ server' \in Servers /\ server'[c.job] = row
      /\ \A j \in Jobs : j # c.job => server'[j] = server[j]
  BY <1>0 DEF Row, Servers, RowSet
<1>3. MovesOn
  BY <1>2 DEF MovesOn, Paid, Unpaid
<1>4. \A d \in calls' : Pending(d) => server'[d.job].state = "UPLOADED"
  <2>1. ASSUME NEW d \in calls', Pending(d)
        PROVE  d \in calls /\ d.job \in Jobs /\ server[d.job].state = "UPLOADED"
    <3>1. d # r
      BY <2>1 DEF Pending, Uploads
    <3>2. d \in calls
      BY <1>1, <3>1 DEF Rest
    <3> QED BY <1>0, <2>1, <3>2 DEF UploadAgrees, CallOK, Pending
  <2> QED BY <1>2, <2>1
<1>5. ASSUME Grants(r) PROVE /\ OnSettings(r.job) /\ Paid(r.job)'
                             /\ \A d \in Rest(c) : ~Grants(d)
  <2>1. ~Paid(c.job) /\ c.op \in Checkout
    BY <1>5 DEF Paid, Unpaid
  <2>2. OnSettings(c.job)
    BY <1>0, <2>1 DEF CheckoutAgrees
  <2>3. Paid(c.job)'
    BY <1>2, <1>5 DEF Paid, Unpaid
  <2>4. \A d \in calls : ~Grants(d)
    BY <1>0, <2>1, <2>2 DEF CheckoutAgrees, OnSettings
  <2> QED BY <2>2, <2>3, <2>4 DEF Rest
<1> QED BY <1>1, <1>3, <1>4, <1>5, Answers

\* The API's answers that write no row.
LEMMA QuietServed ==
  ASSUME PageInv, NEW c \in calls,
         \/ ServeInfo(c) \/ ServePut(c) \/ ServeScript(c) \/ Lose(c)
         \/ Refuse(c) /\ c.reply = "none"
  PROVE  PageInv'
<1>0. c \in Call /\ CallOK(c)
  BY DEF PageInv, Agreed, TypeOK, CallsAgree
<1>1. ASSUME Refuse(c), c.reply # "failed" PROVE PageInv'
  <2> DEFINE r == [c EXCEPT !.reply = "failed"]
  <2>1. /\ r \in Call /\ r.op = c.op /\ r.job = c.job /\ r.live = c.live
        /\ r.body = c.body /\ r.reply = "failed" /\ r.state = c.state
    BY <1>0 DEF Call
  <2>2. Answer(c, r) /\ UNCHANGED server
    BY <1>1 DEF Refuse
  <2> HIDE DEF r
  <2>3. CallOK(r) /\ ~Grants(r) /\ ~Pending(r)
    BY <1>0, <2>1 DEF CallOK, Grants, Pending
  <2> QED BY <1>1, <2>1, <2>2, <2>3, Unserved
<1>2. ASSUME c.op \in {"put", "script"}, c.reply = "none", Answer(c, Accept(c)), UNCHANGED server
      PROVE  PageInv'
  <2> DEFINE r == [c EXCEPT !.reply = "ok"]
  <2>1. /\ r \in Call /\ r.op = c.op /\ r.job = c.job /\ r.live = c.live
        /\ r.body = c.body /\ r.reply = "ok" /\ r.state = c.state
    BY <1>0 DEF Call
  <2>2. Answer(c, r)
    BY <1>2 DEF Accept
  <2> HIDE DEF r
  <2>3. CallOK(r) /\ ~Grants(r) /\ (Pending(r) => Pending(c))
    BY <1>0, <1>2, <2>1 DEF CallOK, Grants, Pending
  <2> QED BY <1>2, <2>1, <2>2, <2>3, Unserved
<1>3. ASSUME ServeInfo(c) PROVE PageInv'
  <2>1. PICK s \in {"ONLINE", "OFFLINE"} : Answer(c, [Accept(c) EXCEPT !.state = s])
    BY <1>3 DEF ServeInfo
  <2> DEFINE r == [Accept(c) EXCEPT !.state = s]
  <2>2. /\ r \in Call /\ r.op = c.op /\ r.job = c.job /\ r.live = c.live
        /\ r.body = c.body /\ r.reply = "ok" /\ r.state = s
    BY <1>0 DEF Call, Accept
  <2>3. c.op = "info" /\ c.reply = "none" /\ UNCHANGED server
    BY <1>3 DEF ServeInfo, Asked
  <2> HIDE DEF r
  <2>4. CallOK(r) /\ ~Grants(r) /\ ~Pending(r)
    BY <1>0, <2>2, <2>3 DEF CallOK, Grants, Pending
  <2>5. Answer(c, r)
    BY <2>1 DEF r
  <2> QED BY <2>2, <2>3, <2>4, <2>5, Unserved
<1> QED BY <1>1, <1>2, <1>3 DEF ServePut, ServeScript, Lose, Asked

\* The uploads: of the only one there is, the row is written.
LEMMA UploadServed ==
  ASSUME PageInv, NEW c \in calls, c.reply = "none", c.op \in Uploads,
         NEW r \in Call, CallOK(r), r.op = c.op, r.live = c.live, r.body = c.body,
         c.op # "create" => r.job = c.job, r.job \in Jobs, Answer(c, r),
         NEW row \in RowSet, Row(r.job, row), server[r.job].state \in {"NONE", "UPLOADED"},
         Pending(r) => row.state = "UPLOADED"
  PROVE  PageInv'
<1>0. /\ server \in Servers /\ UploadAgrees
  BY DEF PageInv, Agreed, TypeOK, Servers
<1>1. UNCHANGED <<page, armed, url, windows, captured, bounds>> /\ calls' = Rest(c) \cup {r}
  BY DEF Answer
<1>2. /\ server' \in Servers /\ server'[r.job] = row
      /\ \A j \in Jobs : j # r.job => server'[j] = server[j]
  BY <1>0 DEF Row, Servers, RowSet
<1>3. MovesOn
  BY <1>2 DEF MovesOn, Paid
<1>4. \A d \in calls' : Pending(d) => server'[d.job].state = "UPLOADED"
  <2>1. \A d \in Rest(c) : ~Pending(d)
    BY <1>0 DEF UploadAgrees, Pending, Rest, Uploads
  <2> QED BY <1>1, <1>2, <2>1
<1>5. ~Grants(r)
  BY DEF Grants, Uploads
<1> QED BY <1>1, <1>3, <1>4, <1>5, Answers

\* The answers that write a row.
LEMMA WriteServed ==
  ASSUME PageInv, NEW c \in calls,
         \/ ServeCreate(c) \/ ServeProcess(c) \/ ServePrice(c) \/ ServePay(c)
         \/ ServeConfirm(c) \/ ServeStatus(c)
  PROVE  PageInv'
<1>0. /\ c \in Call /\ CallOK(c) /\ server \in Servers
      /\ c.reply = "none" /\ c.op \in {"create", "process", "price", "pay", "confirm", "status"}
  BY DEF PageInv, Agreed, TypeOK, Servers, CallsAgree, ServeCreate, ServeProcess, ServePrice,
         ServePay, ServeConfirm, ServeStatus, Asked
<1>1. CASE Refuse(c)
  BY <1>0, <1>1, QuietServed
<1>2. CASE ServeCreate(c) /\ ~Refuse(c)
  <2>1. PICK j \in Jobs : /\ Free(j) /\ Answer(c, [Accept(c) EXCEPT !.job = j])
                          /\ Row(j, [server[j] EXCEPT !.state = "UPLOADED"])
    BY <1>2 DEF ServeCreate
  <2> DEFINE r == [Accept(c) EXCEPT !.job = j]
             row == [server[j] EXCEPT !.state = "UPLOADED"]
  <2>2. /\ r \in Call /\ r.op = c.op /\ r.job = j /\ r.live = c.live
        /\ r.body = c.body /\ r.reply = "ok" /\ r.state = c.state
    BY <1>0 DEF Call, Accept
  <2>3. row \in RowSet /\ row.state = "UPLOADED" /\ server[j].state = "NONE"
    BY <1>0, <2>1 DEF Servers, RowSet, JobStates, Free
  <2>4. Answer(c, r) /\ Row(j, row) /\ c.op = "create"
    BY <1>2, <2>1 DEF ServeCreate, Asked
  <2> HIDE DEF r, row
  <2>5. CallOK(r)
    BY <2>2, <2>4 DEF CallOK
  <2> QED BY <1>0, <2>2, <2>3, <2>4, <2>5, UploadServed DEF Uploads
<1>3. CASE ServeProcess(c)
  <2>1. PICK ok \in BOOLEAN :
          /\ Answer(c, [c EXCEPT !.reply = IF ok THEN "ok" ELSE "failed"])
          /\ Row(c.job, [server[c.job] EXCEPT !.state = IF ok THEN "PRICED" ELSE "FAILED"])
    BY <1>3 DEF ServeProcess
  <2> DEFINE r == [c EXCEPT !.reply = IF ok THEN "ok" ELSE "failed"]
             row == [server[c.job] EXCEPT !.state = IF ok THEN "PRICED" ELSE "FAILED"]
  <2>2. /\ r \in Call /\ r.op = c.op /\ r.job = c.job /\ r.live = c.live
        /\ r.body = c.body /\ r.reply # "none" /\ r.state = c.state
    BY <1>0 DEF Call
  <2>3. c.op = "process" /\ c.job \in Jobs
    BY <1>0, <1>3 DEF ServeProcess, Asked, CallOK
  <2>4. row \in RowSet
    BY <1>0, <2>3 DEF Servers, RowSet, JobStates
  <2>5. server[c.job].state = "UPLOADED"
    BY <1>0, <2>3 DEF PageInv, Agreed, UploadAgrees, Pending
  <2>6. Answer(c, r) /\ Row(c.job, row)
    BY <2>1
  <2> HIDE DEF r, row
  <2>7. CallOK(r) /\ ~Pending(r)
    BY <1>0, <2>2, <2>3 DEF CallOK, Pending
  <2> QED BY <1>0, <2>2, <2>3, <2>4, <2>5, <2>6, <2>7, UploadServed DEF Uploads
<1>4. CASE ServePrice(c) /\ ~Refuse(c)
  <2> DEFINE r == Accept(c)
             row == [server[c.job] EXCEPT !.state = "AWAITING_PAYMENT", !.body = c.body]
  <2>1. /\ r \in Call /\ r.op = c.op /\ r.job = c.job /\ r.live = c.live
        /\ r.body = c.body /\ r.reply = "ok" /\ r.state = c.state
    BY <1>0 DEF Call, Accept
  <2>2. /\ c.op = "price" /\ c.job \in Jobs /\ Answer(c, r) /\ Row(c.job, row)
        /\ server[c.job].state \in {"PRICED", "AWAITING_PAYMENT"}
    BY <1>0, <1>4 DEF ServePrice, Asked, CallOK
  <2>3. row \in RowSet /\ row.state = "AWAITING_PAYMENT"
    BY <1>0, <2>2 DEF Servers, RowSet, JobStates, Call
  <2> HIDE DEF r, row
  <2>4. CallOK(r) /\ ~Grants(r)
    BY <1>0, <2>1, <2>2 DEF CallOK, Grants
  <2> QED BY <1>0, <2>1, <2>2, <2>3, <2>4, Served DEF Uploads, Unpaid
<1>5. CASE ServePay(c) /\ ~Refuse(c) /\ PayMode = "mock"
  <2> DEFINE r == Accept(c)
             row == Queued(server[c.job])
  <2>1. /\ r \in Call /\ r.op = c.op /\ r.job = c.job /\ r.live = c.live
        /\ r.body = c.body /\ r.reply = "ok" /\ r.state = c.state
    BY <1>0 DEF Call, Accept
  <2>2. /\ c.op = "pay" /\ c.job \in Jobs /\ Answer(c, r) /\ Row(c.job, row)
        /\ server[c.job].state = "AWAITING_PAYMENT"
    BY <1>0, <1>5 DEF ServePay, Asked, CallOK
  <2>3. row \in RowSet /\ row.state = "QUEUED"
    BY <1>0, <2>2 DEF Servers, RowSet, JobStates, Queued
  <2> HIDE DEF r, row
  <2>4. CallOK(r)
    BY <1>0, <2>1, <2>2 DEF CallOK
  <2> QED BY <1>0, <2>1, <2>2, <2>3, <2>4, Served DEF Uploads, Unpaid, Checkout
<1>6. CASE ServePay(c) /\ ~Refuse(c) /\ PayMode # "mock"
  <2>0. /\ c.op = "pay" /\ c.job \in Jobs /\ server[c.job].state = "AWAITING_PAYMENT"
    BY <1>0, <1>6 DEF ServePay, Asked, CallOK
  <2>1. PICK o \in 1 .. MaxOrders :
          /\ Answer(c, [Accept(c) EXCEPT !.order = o])
          /\ Row(c.job, [server[c.job] EXCEPT !.order = o, !.ordered = server[c.job].body])
    BY <1>6 DEF ServePay
  <2> DEFINE r == [Accept(c) EXCEPT !.order = o]
             row == [server[c.job] EXCEPT !.order = o, !.ordered = server[c.job].body]
  <2>2. o \in Nat
    BY PageAssumption
  <2>3. /\ r \in Call /\ r.op = c.op /\ r.job = c.job /\ r.live = c.live
        /\ r.body = c.body /\ r.reply = "ok" /\ r.state = c.state
    BY <1>0, <2>2 DEF Call, Accept
  <2>4. row \in RowSet /\ row.state = "AWAITING_PAYMENT"
    BY <1>0, <2>0, <2>2 DEF Servers, RowSet
  <2>5. Answer(c, r) /\ Row(c.job, row)
    BY <2>1
  <2> HIDE DEF r, row
  <2>6. CallOK(r) /\ ~Grants(r)
    BY <1>0, <1>6, <2>0, <2>3 DEF CallOK, Grants
  <2> QED BY <1>0, <2>0, <2>3, <2>4, <2>5, <2>6, Served DEF Uploads, Unpaid
<1>7. CASE ServeConfirm(c) /\ ~Refuse(c)
  <2> DEFINE r == Accept(c)
             row == Queued(server[c.job])
  <2>1. /\ r \in Call /\ r.op = c.op /\ r.job = c.job /\ r.live = c.live
        /\ r.body = c.body /\ r.reply = "ok" /\ r.state = c.state
    BY <1>0 DEF Call, Accept
  <2>2. /\ c.op = "confirm" /\ c.job \in Jobs /\ Answer(c, r) /\ Row(c.job, row)
        /\ server[c.job].state = "AWAITING_PAYMENT"
    BY <1>0, <1>7 DEF ServeConfirm, Confirmable, Asked, CallOK
  <2>3. row \in RowSet /\ row.state = "QUEUED"
    BY <1>0, <2>2 DEF Servers, RowSet, JobStates, Queued
  <2> HIDE DEF r, row
  <2>4. CallOK(r)
    BY <1>0, <2>1, <2>2 DEF CallOK
  <2> QED BY <1>0, <2>1, <2>2, <2>3, <2>4, Served DEF Uploads, Unpaid, Checkout
<1>8. CASE ServeStatus(c)
  <2> DEFINE s == server[c.job].state
             reveal == s \in {"QUEUED", "PRINTING"} /\ server[c.job].code = "kept"
             r == [Accept(c) EXCEPT !.state = s, !.code = reveal]
             row == [server[c.job] EXCEPT !.code = IF reveal THEN "given" ELSE @]
  <2>1. /\ c.op = "status" /\ c.job \in Jobs /\ Answer(c, r) /\ Row(c.job, row)
    BY <1>0, <1>8 DEF ServeStatus, Asked, CallOK
  <2>2. s \in JobStates /\ reveal \in BOOLEAN
    BY <1>0, <2>1 DEF Servers
  <2>3. row \in RowSet /\ row.state = s
    <3> HIDE DEF reveal
    <3> QED BY <1>0, <2>1, <2>2 DEF Servers, RowSet
  <2>4. /\ r \in Call /\ r.op = c.op /\ r.job = c.job /\ r.live = c.live
        /\ r.body = c.body /\ r.reply = "ok" /\ r.state = s
    <3> HIDE DEF reveal, s
    <3> QED BY <1>0, <2>2 DEF Call, Accept
  <2> HIDE DEF r, row, reveal
  <2>5. CallOK(r) /\ ~Grants(r)
    BY <1>0, <2>1, <2>2, <2>4 DEF CallOK, Grants
  <2> QED BY <1>0, <2>1, <2>2, <2>3, <2>4, <2>5, Served DEF Uploads
<1> QED BY <1>1, <1>2, <1>3, <1>4, <1>5, <1>6, <1>7, <1>8

\* The rows move by themselves: the webhook, the kiosk, the sweep.
LEMMA RowsMove ==
  ASSUME PageInv, (\E w \in captured : Webhook(w)) \/ \E j \in Jobs : Progress(j)
  PROVE  PageInv'
<1>0. server \in Servers /\ captured \subseteq Jobs \X Nat
  BY DEF PageInv, Agreed, TypeOK, Servers
<1>1. /\ UNCHANGED <<page, armed, url, calls, windows, captured, bounds>>
      /\ \E j \in Jobs, row \in RowSet :
           /\ Row(j, row) /\ row.state \notin Unpaid
           /\ server[j].state # "UPLOADED"
  <2>1. ASSUME NEW w \in captured, Webhook(w)
        PROVE  \E j \in Jobs, row \in RowSet : /\ Row(j, row) /\ row.state \notin Unpaid
                                               /\ server[j].state # "UPLOADED"
    <3>1. PICK j \in Jobs : server[j].state = "AWAITING_PAYMENT" /\ Row(j, Queued(server[j]))
      BY <1>0, <2>1 DEF Webhook, Confirmable
    <3>2. Queued(server[j]) \in RowSet /\ Queued(server[j]).state = "QUEUED"
      BY <1>0, <3>1 DEF Queued, Servers, RowSet, JobStates
    <3> QED BY <3>1, <3>2 DEF Unpaid
  <2>2. ASSUME NEW j \in Jobs, Progress(j)
        PROVE  \E i \in Jobs, row \in RowSet : /\ Row(i, row) /\ row.state \notin Unpaid
                                               /\ server[i].state # "UPLOADED"
    <3>1. PICK next \in {"PRINTING", "LOCKED", "REFUNDED", "COMPLETED"} :
            Row(j, [server[j] EXCEPT !.state = next]) /\ server[j].state \in {"QUEUED", "LOCKED", "PRINTING"}
      BY <2>2 DEF Progress
    <3>2. /\ [server[j] EXCEPT !.state = next] \in RowSet
          /\ [server[j] EXCEPT !.state = next].state = next
      BY <1>0 DEF Servers, RowSet, JobStates
    <3> QED BY <3>1, <3>2 DEF Unpaid
  <2> QED BY <2>1, <2>2 DEF Webhook, Progress
<1>2. PICK j \in Jobs, row \in RowSet : /\ Row(j, row) /\ row.state \notin Unpaid
                                        /\ server[j].state # "UPLOADED"
  BY <1>1
<1>3. /\ server' \in Servers
      /\ \A i \in Jobs : Paid(i) => Paid(i)'
      /\ \A i \in Jobs : server[i].state = "UPLOADED" => server'[i].state = "UPLOADED"
  <2>1. /\ server' \in Servers /\ server'[j] = row
        /\ \A i \in Jobs : i # j => server'[i] = server[i]
    BY <1>0, <1>2 DEF Row, Servers, RowSet
  <2> QED BY <1>2, <2>1 DEF Paid, Unpaid
<1>4. \A d \in calls : d.op \in Checkout \/ Pending(d) \/ Grants(d) => d.job \in Jobs
  BY DEF PageInv, Agreed, CallsAgree, CallOK, Checkout, Pending, Grants
<1>5. \A w \in windows : w[1] \in Jobs
  BY DEF PageInv, Agreed, TypeOK
<1>6. TypeOK'
  BY <1>1, <1>3 DEF PageInv, Agreed, TypeOK, Servers, bounds
<1>7. UploadAgrees' /\ CheckoutAgrees'
  <2>1. UploadAgrees'
    BY <1>1, <1>3, <1>4 DEF PageInv, Agreed, UploadAgrees, Pending
  <2>2. CheckoutAgrees'
    BY <1>1, <1>3, <1>4, <1>5 DEF PageInv, Agreed, CheckoutAgrees, Grants, OnSettings
  <2> QED BY <2>1, <2>2
<1>8. CallsAgree' /\ BootAgrees' /\ WaitingAgrees'
  BY <1>1 DEF PageInv, Agreed, CallsAgree, BootAgrees, WaitingAgrees
<1>9. PricesAgree' /\ ScreenIsOwn' /\ PriceIsForTheseSettings'
  BY <1>1 DEF PageInv, Agreed, PricesAgree, ScreenIsOwn, PriceIsForTheseSettings, Body
<1> QED BY <1>6, <1>7, <1>8, <1>9 DEF PageInv, Agreed

\* A page that boots agrees, whatever the API has stored.
LEMMA Boots ==
  ASSUME page' = FreshPage, armed' = FALSE, calls' = {Request("info", NoJob)}, windows' = {},
         url' \in Jobs \cup {NoJob}, captured' \subseteq Jobs \X Nat, server' \in Servers,
         changes' \in 0 .. MaxChanges, reloads' \in 0 .. MaxReloads
  PROVE  PageInv'
<1> DEFINE q == Request("info", NoJob)
<1>1. q \in Call /\ q.op = "info" /\ q.reply = "none"
  BY DEF Request, Call, OpNames
<1>2. FreshPage.phase = "loading" /\ FreshPage.otp = NoJob /\ FreshPage.status = NoStatus
  BY DEF FreshPage
<1>3. FreshPage \in Pages
  BY PageAssumption DEF FreshPage, Pages, Phases, PhotoModes, NoPrice, NoStatus
<1> HIDE DEF q
<1>4. calls' = {q}
  BY DEF q
<1>5. TypeOK'
  BY <1>1, <1>3, <1>4 DEF TypeOK, Pages, Servers
<1>6. CallsAgree' /\ BootAgrees' /\ UploadAgrees'
  <2>1. CallOK(q) /\ q.op \notin Uploads /\ ~Pending(q)
    BY <1>1 DEF CallOK, Uploads, Pending
  <2> QED BY <1>1, <1>2, <1>4, <2>1 DEF CallsAgree, BootAgrees, UploadAgrees, Pending
<1>7. CheckoutAgrees' /\ WaitingAgrees' /\ PricesAgree'
  BY <1>1, <1>2, <1>4 DEF CheckoutAgrees, Checkout, Grants, WaitingAgrees, PricesAgree
<1>8. ScreenIsOwn' /\ PriceIsForTheseSettings'
  BY <1>2 DEF ScreenIsOwn, PriceIsForTheseSettings
<1> QED BY <1>5, <1>6, <1>7, <1>8 DEF PageInv, Agreed

\* A window is closed, the page is reloaded, or the timer fires: earlier price
\* requests are dead from then on.
LEMMA OtherSteps ==
  ASSUME PageInv, (\E w \in windows : CloseWindow(w)) \/ Reload \/ Fire
  PROVE  PageInv'
<1>0. TypeOK /\ CallsAgree /\ BootAgrees /\ UploadAgrees /\ CheckoutAgrees
      /\ WaitingAgrees /\ PricesAgree /\ ScreenIsOwn
  BY DEF PageInv, Agreed
<1>1. CASE \E w \in windows : CloseWindow(w)
  <2>1. windows' \subseteq windows /\ UNCHANGED <<page, armed, url, calls, API, bounds>>
    BY <1>1 DEF CloseWindow
  <2>2. TypeOK'
    BY <1>0, <2>1 DEF TypeOK, API, bounds
  <2>3. CheckoutAgrees'
    BY <1>0, <2>1 DEF CheckoutAgrees, Grants, OnSettings, Paid, API
  <2>4. CallsAgree' /\ BootAgrees' /\ UploadAgrees' /\ WaitingAgrees'
    BY <1>0, <2>1 DEF CallsAgree, BootAgrees, UploadAgrees, WaitingAgrees, Pending, API
  <2>5. PricesAgree' /\ ScreenIsOwn' /\ PriceIsForTheseSettings'
    BY <1>0, <2>1 DEF PageInv, PricesAgree, ScreenIsOwn, PriceIsForTheseSettings, Body
  <2> QED BY <2>2, <2>3, <2>4, <2>5 DEF PageInv, Agreed
<1>2. CASE Reload
  <2>1. reloads' \in 0 .. MaxReloads
    BY <1>0, <1>2, PageAssumption DEF Reload, TypeOK
  <2> QED BY <1>0, <1>2, <2>1, Boots DEF Reload, TypeOK, API, Servers
<1>3. CASE Fire
  <2> DEFINE F(c) == [c EXCEPT !.live = @ /\ c.op # "price"]
             q    == [Request("price", page.job) EXCEPT !.body = Body]
             p    == [page EXCEPT !.pricing = TRUE, !.error = FALSE]
  <2>1. page.phase = "settings" /\ page.job \in Jobs
    BY <1>0, <1>3 DEF Fire, PricesAgree
  <2>2. p \in Pages /\ p.phase = "settings" /\ p.job = page.job /\ p.pricing = TRUE
        /\ p.otp = page.otp /\ p.status = page.status
        /\ p.doc = page.doc /\ p.image = page.image /\ p.mode = page.mode
    BY <1>0, <2>1 DEF TypeOK, Pages
  <2>3. q \in Call /\ q.op = "price" /\ q.job = page.job /\ q.body = Body /\ q.reply = "none"
    <3>1. Body \in Bodies
      BY <1>0 DEF Body, Bodies, TypeOK
    <3> QED BY <2>1, <3>1 DEF Request, Call, OpNames
  <2>4. ASSUME NEW c \in calls
        PROVE  /\ F(c) \in Call /\ CallOK(F(c)) /\ F(c).op = c.op
               /\ F(c).live = (c.live /\ c.op # "price")
               /\ c.op # "price" => F(c) = c
    <3>1. c \in Call /\ CallOK(c) /\ c.live \in BOOLEAN
      BY <1>0 DEF Call, TypeOK, CallsAgree
    <3>2. /\ F(c) \in Call /\ F(c).op = c.op /\ F(c).job = c.job /\ F(c).reply = c.reply
          /\ F(c).state = c.state /\ F(c).live = (c.live /\ c.op # "price")
      BY <3>1 DEF Call
    <3>3. CallOK(F(c))
      <4> HIDE DEF F
      <4> QED BY <3>1, <3>2 DEF CallOK
    <3>4. ASSUME c.op # "price" PROVE F(c) = c
      <4>1. (c.live /\ c.op # "price") = c.live
        BY <3>1, <3>4
      <4> QED BY <3>1, <4>1 DEF Call
    <3> QED BY <3>2, <3>3, <3>4
  <2>5. /\ page' = p /\ armed' = FALSE /\ calls' = {F(c) : c \in calls} \cup {q}
        /\ UNCHANGED <<url, windows, server, captured, changes, reloads>>
    BY <1>3 DEF Fire, Local, API, bounds
  <2> HIDE DEF F, q, p
  <2>6. /\ calls' \subseteq Call /\ \A d \in calls' : d = q \/ CallOK(d)
        /\ \A d \in calls' : d.op # "price" => d \in calls
        /\ \A d \in calls' : d.op = "price" => d = q \/ ~d.live
    BY <2>3, <2>4, <2>5
  <2>7. TypeOK'
    <3>1. page' \in Pages /\ armed' \in BOOLEAN /\ calls' \subseteq Call
      BY <2>2, <2>5, <2>6
    <3> QED BY <1>0, <2>5, <3>1 DEF TypeOK, Pages
  <2>8. CallsAgree' /\ BootAgrees'
    <3>1. CallOK(q)
      BY <2>1, <2>3 DEF CallOK
    <3> QED BY <1>0, <2>1, <2>2, <2>3, <2>5, <2>6, <3>1 DEF CallsAgree, BootAgrees
  <2>9. UploadAgrees'
    BY <1>0, <2>1, <2>2, <2>5, <2>6 DEF UploadAgrees, Uploads, Pending
  <2>10. CheckoutAgrees'
    BY <1>0, <2>1, <2>2, <2>5, <2>6 DEF CheckoutAgrees, Checkout, Grants, OnSettings, Paid
  <2>11. WaitingAgrees' /\ ScreenIsOwn'
    BY <1>0, <2>1, <2>2, <2>5, <2>6 DEF WaitingAgrees, ScreenIsOwn
  <2>12. PricesAgree' /\ PriceIsForTheseSettings'
    <3>1. Body' = Body
      BY <2>2, <2>5 DEF Body
    <3> QED BY <2>2, <2>3, <2>5, <2>6, <3>1 DEF PricesAgree, PriceIsForTheseSettings
  <2> QED BY <2>7, <2>8, <2>9, <2>10, <2>11, <2>12 DEF PageInv, Agreed
<1> QED BY <1>1, <1>2, <1>3

\* What the actions of the page need of the invariant.
LEMMA Usual ==
  ASSUME PageInv
  PROVE  /\ page \in Pages /\ calls \subseteq Call /\ url \in Jobs \cup {NoJob}
         /\ windows \subseteq Jobs \X Nat /\ captured \subseteq Jobs \X Nat
         /\ changes \in 0 .. MaxChanges /\ reloads \in 0 .. MaxReloads
         /\ \A c \in calls : CallOK(c) /\ c \in Call
         /\ \A c \in calls : c.op # "info" => page.phase # "loading"
         /\ \A w \in windows : OnSettings(w[1]) \/ Paid(w[1])
         /\ page.otp \in {NoJob, page.job} /\ page.status.job \in {NoJob, page.job}
         /\ page.phase # "otp" => page.otp = NoJob /\ page.status = NoStatus
         /\ page.phase \in {"settings", "otp"} => page.job \in Jobs /\ url = page.job
<1>1. page \in Pages
  BY DEF PageInv, Agreed, TypeOK, Pages
<1>2. page.phase # "otp" => page.otp = NoJob /\ page.status = NoStatus
  BY DEF PageInv, Agreed, WaitingAgrees
<1>3. page.phase \in {"settings", "otp"} => page.job \in Jobs /\ url = page.job
  BY <1>1 DEF PageInv, Agreed, ScreenIsOwn, Pages
<1>4. page.otp \in {NoJob, page.job} /\ page.status.job \in {NoJob, page.job}
  BY <1>2 DEF PageInv, Agreed, ScreenIsOwn, NoStatus
<1>5. \A c \in calls : CallOK(c) /\ c \in Call /\ (c.op # "info" => page.phase # "loading")
  BY DEF PageInv, Agreed, TypeOK, CallsAgree, BootAgrees
<1> QED BY <1>1, <1>2, <1>3, <1>4, <1>5 DEF PageInv, Agreed, TypeOK, CheckoutAgrees

\* Settings are changed, or a file is turned down: no request is made.
LEMMA Chosen ==
  ASSUME PageInv,
         \/ \E d \in Docs : Change(d)
         \/ \E m \in PhotoModes : SelectMode(m)
         \/ \E j \in Jobs : PickFile(j) /\ page'.phase = page.phase
  PROVE  PageInv'
<1> DEFINE Quiet(p) ==
        /\ Render(p, calls) /\ page.phase # "loading" /\ p.phase = page.phase /\ p.job = page.job
        /\ p.otp = page.otp /\ p.status = page.status /\ p.price = page.price
        /\ p.pricing = page.pricing /\ (page.error => p.error)
        /\ UNCHANGED <<url, server, windows, captured, reloads>>
        /\ changes' \in 0 .. MaxChanges
<1>1. \E p \in Pages : Quiet(p)
  <2>1. ASSUME NEW d \in Docs, Change(d) PROVE \E p \in Pages : Quiet(p)
    <3> DEFINE p == [page EXCEPT !.doc = d]
    <3>1. /\ p \in Pages /\ p.phase = page.phase /\ p.job = page.job
          /\ p.otp = page.otp /\ p.status = page.status /\ p.price = page.price
          /\ p.pricing = page.pricing /\ p.error = page.error
      BY Usual DEF Pages
    <3>2. /\ Render(p, calls) /\ page.phase = "settings"
          /\ UNCHANGED <<url, server, windows, captured, reloads>>
          /\ changes < MaxChanges /\ changes' = changes + 1
      BY <2>1 DEF Change, Setting, API
    <3>3. changes' \in 0 .. MaxChanges
      BY <3>2, Usual, PageAssumption
    <3> HIDE DEF p
    <3> QED BY <3>1, <3>2, <3>3
  <2>2. ASSUME NEW m \in PhotoModes, SelectMode(m) PROVE \E p \in Pages : Quiet(p)
    <3> DEFINE p == [page EXCEPT !.mode = m]
    <3>1. /\ p \in Pages /\ p.phase = page.phase /\ p.job = page.job
          /\ p.otp = page.otp /\ p.status = page.status /\ p.price = page.price
          /\ p.pricing = page.pricing /\ p.error = page.error
      BY Usual DEF Pages
    <3>2. /\ Render(p, calls) /\ page.phase = "settings"
          /\ UNCHANGED <<url, server, windows, captured, reloads>>
          /\ changes < MaxChanges /\ changes' = changes + 1
      BY <2>2 DEF SelectMode, Setting, API
    <3>3. changes' \in 0 .. MaxChanges
      BY <3>2, Usual, PageAssumption
    <3> HIDE DEF p
    <3> QED BY <3>1, <3>2, <3>3
  <2>3. ASSUME NEW j \in Jobs, PickFile(j), page'.phase = page.phase PROVE \E p \in Pages : Quiet(p)
    <3> DEFINE picked == [page EXCEPT !.image = (KindOf[j] = "photo"), !.error = FALSE]
               p1 == [page EXCEPT !.error = TRUE]
               p2 == [picked EXCEPT !.error = TRUE]
               p3 == [picked EXCEPT !.phase = "uploading"]
    <3>1. /\ p1 \in Pages /\ p1.phase = page.phase /\ p1.job = page.job
          /\ p1.otp = page.otp /\ p1.status = page.status /\ p1.price = page.price
          /\ p1.pricing = page.pricing /\ p1.error
      BY Usual DEF Pages
    <3>2. /\ p2 \in Pages /\ p2.phase = page.phase /\ p2.job = page.job
          /\ p2.otp = page.otp /\ p2.status = page.status /\ p2.price = page.price
          /\ p2.pricing = page.pricing /\ p2.error
      BY Usual DEF Pages
    <3>3. p3.phase = "uploading"
      BY Usual DEF Pages
    <3>4. /\ page.phase = "landing" /\ UNCHANGED <<url, server, windows, captured, changes, reloads>>
          /\ \/ Render(p1, calls) \/ Render(p2, calls)
             \/ Render(p3, calls \cup {Request("create", NoJob)})
      BY <2>3 DEF PickFile, Local, API, bounds, Told
    <3> HIDE DEF p1, p2, p3
    <3>5. Render(p1, calls) \/ Render(p2, calls)
      BY <2>3, <3>3, <3>4 DEF Render
    <3> QED BY <3>1, <3>2, <3>4, <3>5, Usual
  <2> QED BY <2>1, <2>2, <2>3
<1>2. PICK p \in Pages : Quiet(p)
  BY <1>1
<1>3. /\ p.phase # "otp" => p.otp = NoJob /\ p.status = NoStatus
      /\ p.otp \in {NoJob, p.job} /\ p.status.job \in {NoJob, p.job}
      /\ captured' \subseteq Jobs \X Nat /\ windows' \subseteq Jobs \X Nat
      /\ \A w \in windows' : OnSettings(w[1]) \/ Paid(w[1])
      /\ reloads' \in 0 .. MaxReloads /\ calls \in SUBSET Call
  BY <1>2, Usual
<1>4. Agreed'
  BY <1>2, <1>3, Stays
<1>5. PriceIsForTheseSettings'
  BY <1>2, PriceStays
<1> QED BY <1>4, <1>5 DEF PageInv

\* A new request that fits the screen, on a page whose error may be removed.
LEMMA Requested ==
  ASSUME PageInv, NEW q \in Call, Fits(q), q.op \notin Uploads, page.phase # "loading",
         NEW p \in Pages, p \in {page, [page EXCEPT !.error = FALSE]},
         page.price = NoPrice => p = page,
         Render(p, calls \cup {q}), UNCHANGED <<url, server, changes, reloads>>,
         windows' \subseteq windows, captured' \subseteq Jobs \X Nat
  PROVE  PageInv'
<1>1. /\ p.phase = page.phase /\ p.job = page.job /\ p.otp = page.otp /\ p.status = page.status
      /\ p.price = page.price /\ p.pricing = page.pricing
  BY Usual DEF Pages
<1>2. Agreed'
  <2>1. /\ p.phase # "otp" => p.otp = NoJob /\ p.status = NoStatus
        /\ p.otp \in {NoJob, p.job} /\ p.status.job \in {NoJob, p.job}
        /\ windows' \subseteq Jobs \X Nat
        /\ \A w \in windows' : OnSettings(w[1]) \/ Paid(w[1])
        /\ changes' \in 0 .. MaxChanges /\ reloads' \in 0 .. MaxReloads
        /\ calls \cup {q} \in SUBSET Call
    BY <1>1, Usual
  <2>2. \A c \in calls \cup {q} : c \in calls \/ (Fits(c) /\ c.op \notin Uploads)
    OBVIOUS
  <2> QED BY <1>1, <2>1, <2>2, Stays
<1>3. PriceIsForTheseSettings'
  BY <1>1, PriceStays
<1> QED BY <1>2, <1>3 DEF PageInv

\* Paying is asked for, a window pays, the job is polled.
LEMMA Asking ==
  ASSUME PageInv, TapPay \/ Poll \/ \E w \in windows : PayInWindow(w)
  PROVE  PageInv'
<1>1. CASE TapPay
  <2> DEFINE q == Request("pay", page.job)
             p == [page EXCEPT !.error = FALSE]
  <2>1. /\ page.phase = "settings" /\ page.price # NoPrice /\ Render(p, calls \cup {q})
        /\ UNCHANGED <<url, server, changes, reloads, windows, captured>>
    BY <1>1 DEF TapPay, Payable, Local, API, bounds
  <2>2. q \in Call /\ q.op = "pay" /\ q.job = page.job /\ q.reply = "none"
    BY <2>1, Usual DEF Request, Call, OpNames
  <2>3. p \in Pages
    BY Usual DEF Pages
  <2> HIDE DEF q
  <2>4. Fits(q) /\ q.op \notin Uploads
    BY <2>1, <2>2, Usual DEF Fits, CallOK, Grants, OnSettings, Uploads
  <2> QED BY <2>1, <2>2, <2>3, <2>4, Usual, Requested
<1>2. CASE Poll
  <2> DEFINE q == Request("status", page.job)
  <2>1. /\ page.phase = "otp" /\ Render(page, calls \cup {q})
        /\ UNCHANGED <<url, server, changes, reloads, windows, captured>>
    BY <1>2 DEF Poll, Local, API, bounds
  <2>2. q \in Call /\ q.op = "status" /\ q.job = page.job /\ q.reply = "none" /\ q.state = "none"
    BY <2>1, Usual DEF Request, Call, OpNames
  <2> HIDE DEF q
  <2>3. Fits(q) /\ q.op \notin Uploads
    BY <2>1, <2>2, Usual DEF Fits, CallOK, Grants, Checkout, Uploads
  <2> QED BY <2>1, <2>2, <2>3, Usual, Requested
<1>3. ASSUME NEW w \in windows, PayInWindow(w) PROVE PageInv'
  <2> DEFINE q == [Request("confirm", w[1]) EXCEPT !.order = w[2]]
  <2>1. /\ Render(page, calls \cup {q}) /\ windows' = windows \ {w} /\ captured' = captured \cup {w}
        /\ UNCHANGED <<url, server, changes, reloads>>
    BY <1>3 DEF PayInWindow, bounds
  <2>2. w[1] \in Jobs /\ w[2] \in Nat /\ w \in Jobs \X Nat /\ (OnSettings(w[1]) \/ Paid(w[1]))
    BY Usual
  <2>3. q \in Call /\ q.op = "confirm" /\ q.job = w[1] /\ q.reply = "none"
    BY <2>2 DEF Request, Call, OpNames
  <2> HIDE DEF q
  <2>4. Fits(q) /\ q.op \notin Uploads
    BY <2>2, <2>3 DEF Fits, CallOK, Grants, Uploads
  <2>5. page.phase # "loading"
    BY DEF PageInv, Agreed, BootAgrees
  <2>6. captured' \subseteq Jobs \X Nat /\ windows' \subseteq windows
    BY <2>1, <2>2, Usual
  <2> QED BY <2>1, <2>3, <2>4, <2>5, <2>6, Usual, Requested
<1> QED BY <1>1, <1>2, <1>3

\* The page goes on from one screen to another.
LEMMA MovingOn ==
  ASSUME PageInv,
         \/ \E c \in calls : \/ InfoReply(c)
                             \/ c.op \in Uploads /\ UploadFails(c)
                             \/ ProcessReply(c) /\ c.reply # "failed"
         \/ \E j \in Jobs : PickFile(j) /\ page'.phase # page.phase
         \/ Reset
  PROVE  PageInv'
<1>0. /\ Agreed /\ BootAgrees /\ UploadAgrees /\ CheckoutAgrees
  BY DEF PageInv, Agreed
<1>1. ASSUME NEW c \in calls, InfoReply(c) PROVE PageInv'
  <2>1. /\ page = FreshPage /\ Rest(c) = {} /\ c.op = "info" /\ page.phase = "loading"
        /\ page.otp = NoJob /\ page.status = NoStatus
    <3>1. c.op = "info"
      BY <1>1 DEF InfoReply, Answered
    <3> QED BY <1>0, <3>1 DEF BootAgrees, Rest, FreshPage
  <2>2. c.reply # "failed" => c.state \in {"ONLINE", "OFFLINE"}
    BY <1>1, <2>1, Usual DEF InfoReply, Answered, CallOK, Call
  <2> DEFINE p1 == [Told(page) EXCEPT !.phase = "landing"]
             p2 == [page EXCEPT !.kiosk = c.state, !.job = url,
                                !.phase = IF url = NoJob THEN "landing" ELSE "otp"]
             p  == IF c.reply = "failed" THEN p1 ELSE p2
  <2>3. Render(p, {}) /\ UNCHANGED <<url, windows, server, captured, changes, reloads>>
    BY <1>1, <2>1 DEF InfoReply, Local, API, bounds
  <2>4. p1 \in Pages /\ p1.phase = "landing" /\ p1.otp = NoJob /\ p1.status = NoStatus
    BY <2>1, Usual DEF Pages, Told, Phases
  <2>5. ASSUME c.reply # "failed"
        PROVE  /\ p2 \in Pages /\ p2.job = url /\ p2.otp = NoJob /\ p2.status = NoStatus
               /\ p2.phase = IF url = NoJob THEN "landing" ELSE "otp"
    <3> DEFINE s == c.state
               h == IF url = NoJob THEN "landing" ELSE "otp"
               t == [page EXCEPT !.kiosk = s, !.job = url, !.phase = h]
    <3>0. p2 = t
      OBVIOUS
    <3>1. s \in {"ONLINE", "OFFLINE"} /\ h \in Phases
      BY <2>2, <2>5 DEF Phases
    <3>2. page \in Pages /\ page.otp = NoJob /\ page.status = NoStatus /\ url \in Jobs \cup {NoJob}
      BY <2>1, Usual
    <3> HIDE DEF s, h, p2
    <3>3. /\ t \in Pages /\ t.job = url /\ t.otp = NoJob /\ t.status = NoStatus
          /\ t.phase = h
      BY <3>1, <3>2 DEF Pages
    <3> QED BY <3>0, <3>3 DEF h
  <2> HIDE DEF p1, p2
  <2>6. /\ p \in Pages /\ p.phase \in {"landing", "otp"} /\ p.otp = NoJob /\ p.status = NoStatus
        /\ p.phase = "otp" => p.job # NoJob /\ p.job = url
    BY <2>4, <2>5
  <2> HIDE DEF p
  <2>7. p.status.job = NoJob
    BY <2>6 DEF NoStatus
  <2> QED BY <1>0, <2>1, <2>3, <2>6, <2>7, Usual, Moves DEF PageInv
<1>2. ASSUME NEW c \in calls, c.op \in Uploads, UploadFails(c) PROVE PageInv'
  <2> DEFINE p == [Told(page) EXCEPT !.phase = "landing"]
  <2>1. page.phase = "uploading" /\ \A d \in Rest(c) : d \in calls /\ d.op \notin Uploads /\ d.op # "info"
    BY <1>0, <1>2 DEF UploadAgrees, BootAgrees, Rest
  <2>2. Render(p, Rest(c)) /\ UNCHANGED <<url, windows, server, captured, changes, reloads>>
    BY <1>2 DEF UploadFails, Local, API, bounds
  <2>3. p \in Pages /\ p.phase = "landing" /\ p.otp = NoJob /\ p.status = NoStatus
    BY <2>1, Usual DEF Pages, Told, Phases
  <2> HIDE DEF p
  <2>4. p.status.job = NoJob /\ Rest(c) \in SUBSET Call
    BY <2>1, <2>3, Usual DEF NoStatus
  <2> QED BY <1>0, <2>1, <2>2, <2>3, <2>4, Usual, Moves DEF PageInv
<1>3. ASSUME NEW c \in calls, ProcessReply(c), c.reply # "failed" PROVE PageInv'
  <2> DEFINE p == [page EXCEPT !.job = c.job, !.phase = "settings"]
  <2>1. c.op = "process" /\ c.job \in Jobs
    BY <1>3, Usual DEF ProcessReply, Answered, CallOK
  <2>2. page.phase = "uploading" /\ \A d \in Rest(c) : d \in calls /\ d.op \notin Uploads /\ d.op # "info"
    BY <1>0, <2>1 DEF UploadAgrees, BootAgrees, Rest, Uploads
  <2>3. Render(p, Rest(c)) /\ url' = c.job /\ UNCHANGED <<windows, server, captured, changes, reloads>>
    BY <1>3 DEF ProcessReply, API, bounds
  <2>4. /\ p \in Pages /\ p.phase = "settings" /\ p.job = c.job
        /\ p.otp = NoJob /\ p.status = NoStatus
    BY <2>1, <2>2, Usual DEF Pages, Phases
  <2> HIDE DEF p
  <2>5. p.status.job = NoJob /\ Rest(c) \in SUBSET Call /\ c.job # NoJob
    BY <2>1, <2>2, <2>4, Usual, PageAssumption DEF NoStatus
  <2> QED BY <1>0, <2>1, <2>2, <2>3, <2>4, <2>5, Usual, Moves DEF PageInv
<1>4. ASSUME NEW j \in Jobs, PickFile(j), page'.phase # page.phase PROVE PageInv'
  <2> DEFINE picked == [page EXCEPT !.image = (KindOf[j] = "photo"), !.error = FALSE]
             p1 == [page EXCEPT !.error = TRUE]
             p2 == [picked EXCEPT !.error = TRUE]
             p  == [picked EXCEPT !.phase = "uploading"]
             q  == Request("create", NoJob)
  <2>1. p1.phase = page.phase /\ p2.phase = page.phase
    BY Usual DEF Pages
  <2>2. /\ page.phase = "landing" /\ UNCHANGED <<url, server, windows, captured, changes, reloads>>
        /\ \/ Render(p1, calls) \/ Render(p2, calls) \/ Render(p, calls \cup {q})
    BY <1>4 DEF PickFile, Local, API, bounds, Told
  <2>3. p \in Pages /\ p.phase = "uploading" /\ p.otp = page.otp /\ p.status = page.status
        /\ p.job = page.job
    BY Usual DEF Pages, Phases
  <2>4. q \in Call /\ q.op = "create"
    BY DEF Request, Call, OpNames
  <2> HIDE DEF p, p1, p2
  <2>5. Render(p, calls \cup {q})
    BY <1>4, <2>1, <2>2 DEF Render
  <2> HIDE DEF q
  <2>6. /\ p.otp = NoJob /\ p.status = NoStatus /\ p.status.job = NoJob
        /\ \A d \in calls \cup {q} : d.op # "info"
        /\ \A d \in calls : d.op \notin Uploads
        /\ calls \cup {q} \in SUBSET Call
    BY <1>0, <2>2, <2>3, <2>4, Usual DEF UploadAgrees, BootAgrees, NoStatus
  <2>7. \A d \in calls \cup {q} : d \in calls \/ (d = Request("create", NoJob) /\ p.phase = "uploading")
    BY <2>3 DEF q
  <2> QED BY <1>0, <2>2, <2>3, <2>5, <2>6, <2>7, Usual, Moves DEF PageInv
<1>5. CASE Reset
  <2> DEFINE p == [page EXCEPT !.job = NoJob, !.status = NoStatus, !.otp = NoJob, !.price = NoPrice,
                               !.doc = NewDoc, !.phase = "landing"]
  <2>1. /\ page.phase = "otp" /\ Render(p, calls) /\ url' = NoJob
        /\ UNCHANGED <<windows, server, captured, changes, reloads>>
    BY <1>5 DEF Reset, API, bounds
  <2>2. p \in Pages /\ p.phase = "landing" /\ p.otp = NoJob /\ p.status = NoStatus
    BY Usual, PageAssumption DEF Pages, Phases, NoStatus, NoPrice
  <2> HIDE DEF p
  <2>3. /\ p.status.job = NoJob /\ \A d \in calls : d.op # "info" /\ d.op \notin Uploads
        /\ calls \in SUBSET Call
    BY <1>0, <2>1, <2>2, Usual DEF UploadAgrees, BootAgrees, NoStatus
  <2> QED BY <1>0, <2>1, <2>2, <2>3, Usual, Moves DEF PageInv
<1> QED BY <1>1, <1>2, <1>3, <1>4, <1>5

\* A reply that leaves phase, job and price alone.
LEMMA Replied ==
  ASSUME PageInv, NEW c \in calls, c.op # "info", NEW p \in Pages, NEW S \in SUBSET Call, Render(p, S),
         \A d \in S : d \in calls \/ (Fits(d) /\ d.op \notin Uploads),
         p.phase = page.phase, p.job = page.job, p.price = page.price, p.pricing = page.pricing,
         page.error => p.error,
         p.phase # "otp" => p.otp = page.otp /\ p.status = page.status,
         p.otp \in {NoJob, p.job}, p.status.job \in {NoJob, p.job},
         UNCHANGED <<url, server, captured, changes, reloads>>,
         windows' \subseteq Jobs \X Nat,
         \A w \in windows' : OnSettings(w[1]) \/ Paid(w[1])
  PROVE  PageInv'
<1>1. Agreed'
  <2>1. /\ p.phase # "otp" => p.otp = NoJob /\ p.status = NoStatus
        /\ captured' \subseteq Jobs \X Nat /\ page.phase # "loading"
        /\ changes' \in 0 .. MaxChanges /\ reloads' \in 0 .. MaxReloads
    BY Usual
  <2> QED BY <2>1, Stays
<1>2. PriceIsForTheseSettings'
  BY PriceStays
<1> QED BY <1>1, <1>2 DEF PageInv

\* One request of an upload follows the other.
LEMMA UploadGoesOn ==
  ASSUME PageInv, NEW c \in calls, c.reply # "failed",
         UploadReply(c, "create", "put") \/ UploadReply(c, "put", "process")
  PROVE  PageInv'
<1>1. PICK op \in {"create", "put"}, next \in {"put", "process"} : UploadReply(c, op, next)
  OBVIOUS
<1> DEFINE q == Request(next, c.job)
           S == Rest(c) \cup {q}
<1>2. /\ c.op \in {"create", "put"} /\ c.reply = "ok" /\ Render(page, S)
      /\ UNCHANGED <<url, windows, server, captured, changes, reloads>>
  BY <1>1, Usual DEF UploadReply, Answered, Local, API, bounds, Call
<1>3. c.job \in Jobs /\ Pending(c) /\ c.op \in Uploads
  BY <1>2, Usual DEF CallOK, Pending, Uploads
<1>4. /\ page.phase = "uploading" /\ server[c.job].state = "UPLOADED"
      /\ \A d \in Rest(c) : d.op \notin Uploads
  BY <1>3 DEF PageInv, Agreed, UploadAgrees, Rest
<1>5. q \in Call /\ q.op \in {"put", "process"} /\ q.job = c.job /\ q.reply = "none"
  BY <1>3 DEF Request, Call, OpNames
<1> HIDE DEF q
<1>6. Fits(q)
  BY <1>3, <1>5 DEF Fits, CallOK, Grants, Checkout
<1>7. /\ S \in SUBSET Call /\ \A d \in S : d \in calls \/ Fits(d)
      /\ \A d \in S : d.op \in Uploads => d = q
      /\ \A d \in S : Pending(d) => server[d.job].state = "UPLOADED"
  <2>1. \A d \in S : d = q \/ d \in calls
    BY DEF Rest
  <2>2. \A d \in S : d.op \in Uploads => d = q
    BY <1>4
  <2>3. \A d \in S : Pending(d) => d = q
    BY <2>2 DEF Pending, Uploads
  <2> QED BY <1>4, <1>5, <1>6, <2>1, <2>2, <2>3, Usual
<1> HIDE DEF S
<1>8. Agreed'
  <2>1. Agreed
    BY DEF PageInv
  <2>2. captured' \subseteq Jobs \X Nat /\ windows' \subseteq Jobs \X Nat
        /\ (\A w \in windows' : OnSettings(w[1]) \/ Paid(w[1]))
        /\ changes' \in 0 .. MaxChanges /\ reloads' \in 0 .. MaxReloads
    BY <1>2, Usual
  <2> QED BY <1>2, <1>4, <1>7, <2>1, <2>2, Usual, StaysUploading
<1>9. PriceIsForTheseSettings'
  BY <1>2, Usual, PriceStays
<1> QED BY <1>8, <1>9 DEF PageInv

\* A price counts if no later one was asked for.
LEMMA PriceReplies ==
  ASSUME PageInv, NEW c \in calls, PriceReply(c)
  PROVE  PageInv'
<1> DEFINE p1 == [page EXCEPT !.price = [job |-> c.job, body |-> c.body], !.pricing = FALSE]
           p2 == [Told(page) EXCEPT !.price = NoPrice, !.pricing = FALSE]
           p  == IF ~c.live THEN page ELSE IF c.reply = "ok" THEN p1 ELSE p2
<1>1. /\ Render(p, Rest(c)) /\ c.op = "price"
      /\ UNCHANGED <<url, windows, server, captured, changes, reloads>>
  BY DEF PriceReply, Answered, Local, API, bounds
<1>2. /\ Rest(c) \in SUBSET Call /\ \A d \in Rest(c) : d \in calls
      /\ c.job \in Jobs /\ c.body \in Bodies \cup {NoBody} /\ page.phase # "loading"
  BY <1>1, Usual DEF Rest, CallOK, Call
<1>3. /\ p1 \in Pages /\ p1.phase = page.phase /\ p1.job = page.job /\ p1.otp = page.otp
      /\ p1.status = page.status /\ p1.doc = page.doc /\ p1.image = page.image /\ p1.mode = page.mode
      /\ p1.price = [job |-> c.job, body |-> c.body]
  BY <1>2, Usual DEF Pages
<1>4. /\ p2 \in Pages /\ p2.phase = page.phase /\ p2.job = page.job /\ p2.otp = page.otp
      /\ p2.status = page.status /\ p2.doc = page.doc /\ p2.image = page.image /\ p2.mode = page.mode
      /\ p2.price = NoPrice /\ p2.error
  BY Usual DEF Pages, Told, NoPrice
<1> HIDE DEF p1, p2
<1>5. /\ p \in Pages /\ p.phase = page.phase /\ p.job = page.job /\ p.otp = page.otp
      /\ p.status = page.status /\ p.doc = page.doc /\ p.image = page.image /\ p.mode = page.mode
  BY <1>3, <1>4, Usual
<1>6. c.live => \/ p.price = [job |-> c.job, body |-> c.body]
                \/ p.price = NoPrice /\ p.error
  BY <1>3, <1>4
<1>7. ~c.live => p = page
  OBVIOUS
<1> HIDE DEF p
<1>8. Agreed'
  <2>1. /\ p.phase # "otp" => p.otp = NoJob /\ p.status = NoStatus
        /\ p.otp \in {NoJob, p.job} /\ p.status.job \in {NoJob, p.job}
        /\ captured' \subseteq Jobs \X Nat /\ windows' \subseteq Jobs \X Nat
        /\ (\A w \in windows' : OnSettings(w[1]) \/ Paid(w[1]))
        /\ changes' \in 0 .. MaxChanges /\ reloads' \in 0 .. MaxReloads
    BY <1>1, <1>5, Usual
  <2> QED BY <1>1, <1>2, <1>5, <2>1, Stays
<1>9. PriceIsForTheseSettings'
  <2>1. CASE ~c.live
    BY <1>1, <1>7, <2>1, Usual, PriceStays
  <2>2. CASE c.live
    <3>1. armed' = (p.phase = "settings" /\ p.job # NoJob /\ (armed \/ Priced(p) # Priced(page)))
          /\ page' = p
      BY <1>1 DEF Render
    <3>2. ASSUME p.phase = "settings", ~armed'
          PROVE  \/ p.price = [job |-> p.job, body |-> Body']
                 \/ p.price = NoPrice /\ p.error
      <4>1. p.job # NoJob
        BY <1>5, <3>2, Usual, PageAssumption
      <4>2. ~armed
        BY <3>1, <3>2, <4>1 DEF PageInv, Agreed, TypeOK
      <4>3. c.job = page.job /\ c.body = Body
        BY <1>1, <1>5, <2>2, <3>2, <4>2 DEF PageInv, Agreed, PricesAgree
      <4>4. Body' = Body
        BY <1>5, <3>1 DEF Body
      <4> QED BY <1>5, <1>6, <2>2, <4>3, <4>4
    <3> QED BY <3>1, <3>2 DEF PriceIsForTheseSettings
  <2> QED BY <2>1, <2>2
<1> QED BY <1>8, <1>9 DEF PageInv

\* The replies of a checkout: only one that grants leaves the settings.
LEMMA CheckoutReplies ==
  ASSUME PageInv, NEW c \in calls, PayReply(c) \/ ScriptReply(c) \/ ConfirmReply(c)
  PROVE  PageInv'
<1>0. /\ c.op \in Checkout /\ c.reply \in {"ok", "failed"} /\ c.op # "info"
      /\ Rest(c) \in SUBSET Call /\ \A d \in Rest(c) : d \in calls
      /\ c.job \in Jobs /\ (OnSettings(c.job) \/ Paid(c.job)) /\ page.phase # "loading"
  <2>1. c.op \in Checkout /\ c.reply # "none" /\ c.op # "info"
    BY DEF PayReply, ScriptReply, ConfirmReply, Answered, Checkout
  <2>2. OnSettings(c.job) \/ Paid(c.job)
    BY <2>1 DEF PageInv, Agreed, CheckoutAgrees
  <2> QED BY <2>1, <2>2, Usual DEF Rest, CallOK, Call, Checkout
<1>1. UNCHANGED <<url, server, captured, changes, reloads>>
  BY DEF PayReply, ScriptReply, ConfirmReply, Local, API, bounds
<1> DEFINE t == Told(page)
           o == [page EXCEPT !.phase = "otp"]
           q == [Request("script", c.job) EXCEPT !.order = c.order]
<1>2. /\ t \in Pages /\ t.phase = page.phase /\ t.job = page.job /\ t.price = page.price
      /\ t.pricing = page.pricing /\ t.error /\ t.otp = page.otp /\ t.status = page.status
  BY Usual DEF Pages, Told
<1>3. /\ o \in Pages /\ o.phase = "otp" /\ o.job = page.job /\ o.otp = page.otp
      /\ o.status = page.status
  BY Usual DEF Pages, Phases
<1>4. /\ q \in Call /\ q.op = "script" /\ q.job = c.job /\ q.reply = "none"
  BY <1>0, Usual DEF Request, Call, OpNames
<1> HIDE DEF t, o, q
<1>5. Fits(q) /\ q.op \notin Uploads
  BY <1>0, <1>4 DEF Fits, CallOK, Grants, Uploads
\* The page stays; the script may be asked for, a window may open.
<1>6. ASSUME NEW p \in {t, page}, NEW S \in SUBSET Call, Render(p, S),
             S \in {Rest(c), Rest(c) \cup {q}},
             windows' \in {windows, windows \cup {<<c.job, c.order>>}}
      PROVE  PageInv'
  <2>1. \A d \in S : d \in calls \/ (Fits(d) /\ d.op \notin Uploads)
    BY <1>0, <1>5, <1>6
  <2>2. <<c.job, c.order>> \in Jobs \X Nat /\ <<c.job, c.order>>[1] = c.job
    BY <1>0, Usual DEF Call
  <2>3. windows' \subseteq Jobs \X Nat /\ \A w \in windows' : OnSettings(w[1]) \/ Paid(w[1])
    BY <1>0, <1>6, <2>2, Usual
  <2>4. /\ p \in Pages /\ p.phase = page.phase /\ p.job = page.job /\ p.price = page.price
        /\ p.pricing = page.pricing /\ (page.error => p.error) /\ p.otp = page.otp
        /\ p.status = page.status
    BY <1>2, <1>6, Usual
  <2> QED BY <1>0, <1>1, <1>6, <2>1, <2>3, <2>4, Usual, Replied
\* A reply that grants.
<1>7. ASSUME Grants(c), Render(o, Rest(c)), UNCHANGED windows
      PROVE  PageInv'
  <2>1. page.phase = "settings" /\ page.job = c.job /\ Paid(page.job)
    BY <1>7 DEF PageInv, Agreed, CheckoutAgrees, OnSettings
  <2>2. \A d \in Rest(c) : ~Grants(d)
    BY <1>7 DEF PageInv, Agreed, CheckoutAgrees, Rest
  <2>3. \A d \in Rest(c) : d.op # "info" /\ d.op \notin Uploads
    BY <1>0, <2>1 DEF PageInv, Agreed, BootAgrees, UploadAgrees
  <2>4. Agreed /\ page.job # NoJob /\ url = page.job
    BY <2>1, Usual, PageAssumption DEF PageInv
  <2> QED BY <1>0, <1>1, <1>3, <1>7, <2>1, <2>2, <2>3, <2>4, Usual, Moves DEF PageInv
<1>8. CASE PayReply(c)
  <2>1. /\ c.op = "pay" /\ UNCHANGED windows
        /\ Render(IF c.reply = "failed" THEN t ELSE IF PayMode = "mock" THEN o ELSE page,
                  Rest(c) \cup {r \in {q} : c.reply = "ok" /\ PayMode = "razorpay"})
    BY <1>8 DEF PayReply, Answered, Local, t, o, q
  <2>2. CASE c.reply = "failed"
    <3>1. {r \in {q} : c.reply = "ok" /\ PayMode = "razorpay"} = {}
      BY <2>2
    <3>2. Render(t, Rest(c))
      BY <2>1, <2>2, <3>1
    <3> QED BY <1>0, <1>6, <2>1, <3>2
  <2>3. CASE c.reply = "ok" /\ PayMode = "mock"
    <3>1. {r \in {q} : c.reply = "ok" /\ PayMode = "razorpay"} = {}
      BY <2>3
    <3>2. Render(o, Rest(c)) /\ Grants(c)
      BY <2>1, <2>3, <3>1 DEF Grants
    <3> QED BY <1>7, <2>1, <3>2
  <2>4. CASE c.reply = "ok" /\ PayMode # "mock"
    <3>1. {r \in {q} : c.reply = "ok" /\ PayMode = "razorpay"} = {q}
      BY <2>4, PageAssumption
    <3>2. Render(page, Rest(c) \cup {q}) /\ Rest(c) \cup {q} \in SUBSET Call
      BY <1>0, <1>4, <2>1, <2>4, <3>1
    <3> QED BY <1>6, <2>1, <3>2
  <2> QED BY <1>0, <2>2, <2>3, <2>4
<1>9. CASE ScriptReply(c)
  <2>1. Render(IF c.reply = "failed" THEN t ELSE page, Rest(c))
    BY <1>9 DEF ScriptReply, t
  <2>2. windows' \in {windows, windows \cup {<<c.job, c.order>>}}
    BY <1>9 DEF ScriptReply
  <2> QED BY <1>0, <1>6, <2>1, <2>2
<1>10. CASE ConfirmReply(c)
  <2>1. /\ c.op = "confirm" /\ UNCHANGED windows
        /\ Render(IF c.reply = "failed" THEN t ELSE o, Rest(c))
    BY <1>10 DEF ConfirmReply, Answered, Local, t, o
  <2>2. CASE c.reply = "failed"
    BY <1>0, <1>6, <2>1, <2>2
  <2>3. CASE c.reply = "ok"
    BY <1>7, <2>1, <2>3 DEF Grants
  <2> QED BY <1>0, <2>2, <2>3
<1> QED BY <1>8, <1>9, <1>10

\* A poll that is alive belongs to the screen.
LEMMA StatusReplies ==
  ASSUME PageInv, NEW c \in calls, StatusReply(c)
  PROVE  PageInv'
<1> DEFINE t  == Told(page)
           s  == [page EXCEPT !.status = [job |-> c.job, state |-> c.state],
                              !.otp = IF c.code THEN c.job ELSE @]
           p  == IF ~c.live THEN page ELSE IF c.reply = "failed" THEN t ELSE s
<1>1. /\ c.op = "status" /\ Render(p, Rest(c)) /\ UNCHANGED windows
      /\ UNCHANGED <<url, server, captured, changes, reloads>>
  BY DEF StatusReply, Answered, Local, API, bounds
<1>2. /\ Rest(c) \in SUBSET Call /\ \A d \in Rest(c) : d \in calls
      /\ c.job \in Jobs /\ c.state \in JobStates \cup {"none"}
      /\ c.live => page.phase = "otp" /\ page.job = c.job
  BY <1>1, Usual DEF Rest, CallOK, PageInv, Agreed, WaitingAgrees
<1>3. /\ t \in Pages /\ t.phase = page.phase /\ t.job = page.job /\ t.price = page.price
      /\ t.pricing = page.pricing /\ t.error /\ t.otp = page.otp /\ t.status = page.status
  BY Usual DEF Pages, Told
<1>4. ASSUME c.live
      PROVE  /\ s \in Pages /\ s.phase = "otp" /\ s.job = page.job /\ s.price = page.price
             /\ s.pricing = page.pricing /\ s.error = page.error
             /\ s.otp \in {page.otp, c.job} /\ s.status.job = c.job
  <2> DEFINE x == IF c.code THEN c.job ELSE page.otp
             v == [page EXCEPT !.status = [job |-> c.job, state |-> c.state], !.otp = x]
  <2>1. s = v
    OBVIOUS
  <2>2. x \in {page.otp, c.job} /\ x \in Jobs \cup {NoJob}
    BY <1>2, Usual DEF Pages
  <2> HIDE DEF s, x
  <2>3. /\ v \in Pages /\ v.phase = page.phase /\ v.job = page.job /\ v.price = page.price
        /\ v.pricing = page.pricing /\ v.error = page.error /\ v.otp = x /\ v.status.job = c.job
    BY <1>2, <2>2, Usual DEF Pages
  <2> QED BY <1>2, <1>4, <2>1, <2>2, <2>3
<1> HIDE DEF t, s
<1>5. /\ p \in Pages /\ p.phase = page.phase /\ p.job = page.job /\ p.price = page.price
      /\ p.pricing = page.pricing /\ (page.error => p.error)
      /\ p.phase # "otp" => p.otp = page.otp /\ p.status = page.status
      /\ p.otp \in {NoJob, p.job} /\ p.status.job \in {NoJob, p.job}
  BY <1>2, <1>3, <1>4, Usual
<1> HIDE DEF p
<1>6. windows' \subseteq Jobs \X Nat /\ \A w \in windows' : OnSettings(w[1]) \/ Paid(w[1])
  BY <1>1, Usual
<1> QED BY <1>1, <1>2, <1>5, <1>6, Replied

\* Every step keeps the invariant.
LEMMA NextPage == PageInv /\ [Next]_pageVars => PageInv'
<1> SUFFICES ASSUME PageInv, [Next]_pageVars PROVE PageInv'
  OBVIOUS
<1>1. CASE UNCHANGED pageVars
  <2>1. TypeOK' /\ CallsAgree' /\ BootAgrees' /\ UploadAgrees'
    BY <1>1 DEF pageVars, PageInv, Agreed, TypeOK, CallsAgree, BootAgrees, UploadAgrees, Pending
  <2>2. CheckoutAgrees' /\ WaitingAgrees' /\ PricesAgree'
    BY <1>1 DEF pageVars, PageInv, Agreed, CheckoutAgrees, Grants, OnSettings, Paid,
                WaitingAgrees, PricesAgree, Body
  <2>3. ScreenIsOwn' /\ PriceIsForTheseSettings'
    BY <1>1 DEF pageVars, PageInv, Agreed, ScreenIsOwn, PriceIsForTheseSettings, Body
  <2> QED BY <2>1, <2>2, <2>3 DEF PageInv, Agreed
<1>2. CASE Customer
  <2>1. ASSUME NEW j \in Jobs, PickFile(j) PROVE PageInv'
    BY <2>1, Chosen, MovingOn
  <2> QED BY <1>2, <2>1, Chosen, MovingOn, Asking, OtherSteps DEF Customer
<1>3. ASSUME NEW c \in calls, Serve(c) \/ Lose(c) PROVE PageInv'
  BY <1>3, QuietServed, WriteServed DEF Serve
<1>4. ASSUME NEW c \in calls, Reply(c) PROVE PageInv'
  <2>1. CASE UploadReply(c, "create", "put") \/ UploadReply(c, "put", "process")
    <3>1. c.op \in Uploads /\ (c.reply = "failed" => UploadFails(c))
      BY <2>1 DEF UploadReply, Answered, Uploads
    <3> QED BY <2>1, <3>1, UploadGoesOn, MovingOn
  <2>2. CASE ProcessReply(c)
    <3>1. c.op \in Uploads /\ (c.reply = "failed" => UploadFails(c))
      BY <2>2 DEF ProcessReply, Answered, Uploads
    <3> QED BY <2>2, <3>1, MovingOn
  <2> QED BY <1>4, <2>1, <2>2, MovingOn, PriceReplies, CheckoutReplies, StatusReplies DEF Reply
<1> QED BY <1>1, <1>2, <1>3, <1>4, OtherSteps, Asking, RowsMove DEF Next

\* At the start the page boots.
LEMMA InitPage == Init => PageInv
<1> SUFFICES ASSUME Init PROVE PageInv
  OBVIOUS
<1> DEFINE q == Request("info", NoJob)
<1>1. q \in Call /\ q.op = "info" /\ q.reply = "none"
  BY DEF Request, Call, OpNames
<1>2. FreshPage.phase = "loading" /\ FreshPage.otp = NoJob /\ FreshPage.status = NoStatus
  BY DEF FreshPage
<1>3. FreshPage \in Pages
  BY PageAssumption DEF FreshPage, Pages, Phases, PhotoModes, NoPrice, NoStatus
<1> HIDE DEF q
<1>4. calls = {q} /\ page = FreshPage /\ armed = FALSE /\ windows = {} /\ captured = {}
      /\ url = NoJob /\ changes = 0 /\ reloads = 0
  BY DEF Init, q
<1>5. server \in Servers
  BY DEF Init, Servers, JobStates
<1>6. TypeOK
  <2>1. 0 \in 0 .. MaxChanges /\ 0 \in 0 .. MaxReloads
    BY PageAssumption
  <2>2. page \in Pages /\ calls \subseteq Call
    BY <1>1, <1>3, <1>4
  <2> QED BY <1>4, <1>5, <2>1, <2>2 DEF TypeOK, Pages, Servers
<1>7. CallsAgree /\ BootAgrees /\ UploadAgrees
  <2>1. CallOK(q) /\ q.op \notin Uploads /\ ~Pending(q)
    BY <1>1 DEF CallOK, Uploads, Pending
  <2> QED BY <1>1, <1>2, <1>4, <2>1 DEF CallsAgree, BootAgrees, UploadAgrees
<1>8. CheckoutAgrees /\ WaitingAgrees /\ PricesAgree
  BY <1>1, <1>2, <1>4 DEF CheckoutAgrees, Checkout, Grants, WaitingAgrees, PricesAgree
<1>9. ScreenIsOwn /\ PriceIsForTheseSettings
  BY <1>2, <1>4 DEF ScreenIsOwn, PriceIsForTheseSettings
<1> QED BY <1>6, <1>7, <1>8, <1>9 DEF PageInv, Agreed

\* At every moment of every run the invariant holds.
THEOREM PageIsSound == Spec => []PageInv
<1>1. Init => PageInv
  BY InitPage
<1>2. PageInv /\ [Next]_pageVars => PageInv'
  BY NextPage
<1> QED BY <1>1, <1>2, PTL DEF Spec

\* Types are kept; in particular every answer the page gets is one it can show.
THEOREM PageTypes == Spec => []TypeOK
<1>1. PageInv => TypeOK
  BY DEF PageInv, Agreed
<1> QED BY <1>1, PageIsSound, PTL

\* However slow or reordered the replies are: a price that can be paid is the one
\* for the settings on the screen, or there is none and an error.
THEOREM PriceIsShownTruly == Spec => []PriceIsForTheseSettings
<1>1. PageInv => PriceIsForTheseSettings
  BY DEF PageInv
<1> QED BY <1>1, PageIsSound, PTL

\* The waiting room shows the code and the state of its own job, which is the job
\* in the address.
THEOREM ScreenShowsItsJob == Spec => []ScreenIsOwn
<1>1. PageInv => ScreenIsOwn
  BY DEF PageInv, Agreed
<1> QED BY <1>1, PageIsSound, PTL

\* What the API does is not seen on the page before its reply.
LEMMA UnseenSteps ==
  ASSUME (\E c \in calls : Serve(c) \/ Lose(c)) \/ (\E w \in captured : Webhook(w))
         \/ \E j \in Jobs : Progress(j)
  PROVE  UNCHANGED page
<1>1. \A c, r : Answer(c, r) => UNCHANGED page
  BY DEF Answer
<1>2. ASSUME NEW c \in calls, Serve(c) \/ Lose(c) PROVE UNCHANGED page
  BY <1>1, <1>2 DEF Serve, Lose, Refuse, ServeInfo, ServeCreate, ServePut, ServeProcess, ServePrice,
                    ServePay, ServeScript, ServeConfirm, ServeStatus
<1> QED BY <1>2 DEF Webhook, Progress

\* The digits, which the API gives once, stay on the screen until the customer
\* leaves it: a code is only replaced by that of the same job.
THEOREM CodeStays == Spec => CodeStaysOnScreen
<1>1. PageInv /\ [Next]_pageVars => [page.otp # NoJob => page'.otp = page.otp \/ page'.job # page.job]_pageVars
  <2> SUFFICES ASSUME PageInv, Next, page.otp # NoJob
               PROVE  page'.otp = page.otp \/ page'.job # page.job
    OBVIOUS
  <2>1. page.phase = "otp" /\ page.job = page.otp /\ page \in Pages /\ ~armed
    BY Usual DEF PageInv, Agreed, PricesAgree, TypeOK
  <2>2. \A c \in calls : c.op # "info" /\ c.op \notin Uploads
    BY <2>1 DEF PageInv, Agreed, BootAgrees, UploadAgrees
  <2>3. \A p, S : Render(p, S) => page' = p
    BY DEF Render
  <2>4. CASE Customer
    <3>1. CASE Reset
      <4>1. page'.job = NoJob
        BY <2>1, <2>3, <3>1 DEF Reset, Pages
      <4> QED BY <2>1, <4>1
    <3>2. CASE Reload
      <4>1. page'.job = NoJob
        BY <3>2 DEF Reload, FreshPage
      <4> QED BY <2>1, <4>1
    <3>3. CASE \E w \in windows : PayInWindow(w) \/ CloseWindow(w)
      BY <2>3, <3>3 DEF PayInWindow, CloseWindow
    <3> QED BY <2>1, <2>4, <3>1, <3>2, <3>3
            DEF Customer, PickFile, Change, SelectMode, Setting, TapPay, Payable
  <2>5. CASE Fire \/ Poll
    BY <2>1, <2>3, <2>5 DEF Fire, Poll
  <2>6. ASSUME NEW c \in calls, Reply(c) PROVE page'.otp = page.otp \/ page'.job # page.job
    <3>1. CASE StatusReply(c)
      <4>1. CASE ~c.live
        BY <2>3, <3>1, <4>1 DEF StatusReply
      <4>2. CASE c.live /\ c.reply = "failed"
        BY <2>1, <2>3, <3>1, <4>2 DEF StatusReply, Told, Pages
      <4>3. CASE c.live /\ c.reply # "failed"
        <5>1. c.job = page.job
          BY <3>1, <4>3 DEF StatusReply, Answered, PageInv, Agreed, WaitingAgrees
        <5>2. page' = [page EXCEPT !.status = [job |-> c.job, state |-> c.state],
                                   !.otp = IF c.code THEN c.job ELSE @]
          BY <2>3, <3>1, <4>3 DEF StatusReply
        <5>3. page'.otp = IF c.code THEN c.job ELSE page.otp
          BY <2>1, <5>2 DEF Pages
        <5> QED BY <2>1, <5>1, <5>3
      <4> QED BY <4>1, <4>2, <4>3
    <3>2. CASE PriceReply(c)
      BY <2>1, <2>3, <3>2 DEF PriceReply, Told, Pages
    <3>3. CASE PayReply(c) \/ ScriptReply(c) \/ ConfirmReply(c)
      BY <2>1, <2>3, <3>3 DEF PayReply, ScriptReply, ConfirmReply, Told, Pages
    <3> QED BY <2>2, <2>6, <3>1, <3>2, <3>3
            DEF Reply, InfoReply, UploadReply, ProcessReply, Answered, Uploads
  <2> QED BY <2>4, <2>5, <2>6, UnseenSteps DEF Next
<1> QED BY <1>1, PageIsSound, PTL DEF Spec, CodeStaysOnScreen

\* No checkout speaks of an order that its job has not been offered, and an order
\* that is offered anew is a new one.
Started(j)    == server[j].state \notin {"NONE", "UPLOADED", "PRICED"}
Offered(j, o) == Started(j) /\ o <= server[j].order
Offers(c)     == \/ c.op \in {"script", "confirm"}
                 \/ c.op = "pay" /\ c.reply = "ok" /\ PayMode = "razorpay"
OffersAgree ==
  /\ \A c \in calls : Offers(c) => Offered(c.job, c.order)
  /\ \A w \in windows \cup captured : Offered(w[1], w[2])

\* What is priced has been processed, and nothing is priced before its settings
\* are shown.
Known(j) == server[j].state \notin {"NONE", "UPLOADED"}
KnownAgree ==
  /\ page.phase = "settings" => Known(page.job)
  /\ \A c \in calls : c.op = "price" => Known(c.job)
  /\ \A c \in calls : c.op = "process" /\ c.reply = "ok" => server[c.job].state = "PRICED"
  /\ \A c, d \in calls : c.op = "price" /\ d.op = "process" => c.job # d.job

\* On the settings screen of a job whose standing order was paid: the job is, or
\* its confirmation has not arrived yet.
Confirms(c, j, o) == c.op = "confirm" /\ c.job = j /\ c.order = o /\ c.reply = "none"
ConfirmsAgree ==
  \A j \in Jobs : OnSettings(j) /\ Standing(j) =>
    \/ Paid(j)
    \/ \E c \in calls : Confirms(c, j, server[j].order)

\* And the customer is told, or something is under way that will end in an error
\* or on the waiting screen.
Tells(c, j) == /\ c.job = j
               /\ \/ c.op = "confirm"
                  \/ c.op = "price" /\ c.live /\ c.reply # "ok"
                  \/ c.op = "pay" /\ c.reply # "ok"
ToldAgrees ==
  \A j \in Jobs : OnSettings(j) /\ Standing(j) =>
    page.error \/ armed \/ \E c \in calls : Tells(c, j)

PaidAgreed == OffersAgree /\ KnownAgree /\ ConfirmsAgree /\ ToldAgrees

\* A render keeps what is in flight, polls apart, and a timer that runs.
LEMMA RenderKeeps ==
  ASSUME PageInv, NEW p, NEW S \in SUBSET Call, Render(p, S)
  PROVE  /\ page' = p
         /\ \A d : d.op # "status" => (d \in calls' <=> d \in S)
         /\ p.phase = "settings" /\ p.job # NoJob /\ armed => armed'
<1>1. page' = p /\ (p.phase = "settings" /\ p.job # NoJob /\ armed => armed')
  BY DEF Render
<1>2. CASE Watched(p) = Watched(page)
  BY <1>1, <1>2 DEF Render
<1>3. CASE Watched(p) # Watched(page)
  <2> DEFINE F(c) == [c EXCEPT !.live = @ /\ c.op # "status"]
  <2>1. calls' = {F(c) : c \in S}
    BY <1>3 DEF Render
  <2>2. ASSUME NEW c \in S
        PROVE  F(c).op = c.op /\ (c.op # "status" => F(c) = c)
    <3>1. c \in Call /\ c.live \in BOOLEAN
      BY DEF Call
    <3>2. F(c).op = c.op
      BY <3>1 DEF Call
    <3>3. ASSUME c.op # "status" PROVE F(c) = c
      <4>1. (c.live /\ c.op # "status") = c.live
        BY <3>1, <3>3
      <4> QED BY <3>1, <4>1 DEF Call
    <3> QED BY <3>2, <3>3
  <2> HIDE DEF F
  <2> QED BY <1>1, <2>1, <2>2
<1> QED BY <1>2, <1>3

\* A step of the page, which makes no more of the orders than they are and keeps
\* the confirmations that the API has not seen.
Sound(d) ==
  \/ d \in calls
  \/ d.op \in {"info", "create", "put", "status"}
  \/ d.op = "pay" /\ d.reply = "none"
  \/ d.op \in {"script", "confirm"} /\ Offered(d.job, d.order)
  \/ d.op = "process" /\ d.reply = "none" /\ server[d.job].state = "UPLOADED"
  \/ /\ d.op = "price" /\ page.phase = "settings"
     /\ d.job = page.job \/ \E c \in calls : c.op = "price" /\ c.job = d.job

LEMMA PageStep ==
  ASSUME PageInv, PaidAgreed, UNCHANGED server,
         \A w \in windows' \cup captured' : w \in windows \cup captured \/ Offered(w[1], w[2]),
         \A d \in calls' : Sound(d),
         page'.phase = "settings" =>
           /\ \/ page.phase = "settings" /\ page'.job = page.job
              \/ page'.job \in Jobs /\ server[page'.job].state = "PRICED"
           /\ \A c \in calls : c.op = "confirm" /\ c.reply = "none" => c \in calls',
         \A w \in captured' : w \in captured \/ \E d \in calls' : Confirms(d, w[1], w[2]),
         ToldAgrees'
  PROVE  PaidAgreed'
<1>0. OffersAgree /\ KnownAgree /\ ConfirmsAgree
  BY DEF PaidAgreed
<1>1. OffersAgree'
  BY <1>0 DEF OffersAgree, Offers, Offered, Started, Sound
<1>2. KnownAgree'
  <2>1. page'.phase = "settings" => Known(page.job)' 
    BY <1>0 DEF KnownAgree, Known
  <2>2. \A d \in calls' : d.op = "price" => Known(d.job)
    BY <1>0 DEF KnownAgree, Sound
  <2>3. \A d \in calls' : d.op = "process" /\ d.reply = "ok" => server[d.job].state = "PRICED"
    BY <1>0 DEF KnownAgree, Sound
  <2>4. \A c \in calls : c.op = "process" => page.phase # "settings"
    BY DEF PageInv, Agreed, UploadAgrees, Uploads
  <2>5. ASSUME NEW c \in calls', NEW d \in calls', c.op = "price", d.op = "process"
        PROVE  c.job # d.job
    <3>1. CASE d \in calls
      BY <1>0, <2>4, <2>5, <3>1 DEF KnownAgree, Sound
    <3>2. CASE d \notin calls
      BY <2>2, <2>5, <3>2 DEF Sound, Known
    <3> QED BY <3>1, <3>2
  <2> QED BY <2>1, <2>2, <2>3, <2>5 DEF KnownAgree, Known
<1>3. ConfirmsAgree'
  <2> SUFFICES ASSUME NEW j \in Jobs, page'.phase = "settings", page'.job = j,
                      <<j, server[j].order>> \in captured'
               PROVE  Paid(j) \/ \E d \in calls' : Confirms(d, j, server[j].order)
    BY DEF ConfirmsAgree, OnSettings, Standing, Paid, Confirms
  <2>1. CASE <<j, server[j].order>> \notin captured
    BY <2>1
  <2>2. CASE <<j, server[j].order>> \in captured
    <3>1. Started(j)
      BY <1>0, <2>2 DEF OffersAgree, Offered
    <3>2. page.phase = "settings" /\ page.job = j
      BY <3>1 DEF Started
    <3> QED BY <1>0, <2>2, <3>2 DEF ConfirmsAgree, OnSettings, Standing, Confirms
  <2> QED BY <2>1, <2>2
<1> QED BY <1>1, <1>2, <1>3 DEF PaidAgreed

\* A step that keeps an error, the timer and what will tell the customer.
LEMMA StillTold ==
  ASSUME PageInv, PaidAgreed, UNCHANGED server,
         page'.phase = "settings" =>
           /\ page.phase = "settings" /\ page'.job = page.job
           /\ page.error => page'.error
           /\ armed => armed'
           /\ \A c \in calls : Tells(c, page.job) => c \in calls' \/ page'.error,
         \A w \in captured' : w \in captured \/ \E d \in calls' : Confirms(d, w[1], w[2])
  PROVE  ToldAgrees'
<1> SUFFICES ASSUME NEW j \in Jobs, page'.phase = "settings", page'.job = j,
                    <<j, server[j].order>> \in captured'
             PROVE  page'.error \/ armed' \/ \E d \in calls' : Tells(d, j)
  BY DEF ToldAgrees, OnSettings, Standing, Tells
<1>1. CASE <<j, server[j].order>> \notin captured
  BY <1>1 DEF Confirms, Tells
<1>2. CASE <<j, server[j].order>> \in captured
  BY <1>2 DEF PaidAgreed, ToldAgrees, OnSettings, Standing
<1> QED BY <1>1, <1>2

\* Both together, for the steps that lead nowhere else.
LEMMA PageGoesOn ==
  ASSUME PageInv, PaidAgreed, UNCHANGED server,
         \A w \in windows' \cup captured' : w \in windows \cup captured \/ Offered(w[1], w[2]),
         \A d \in calls' : Sound(d),
         page'.phase = "settings" =>
           /\ page.phase = "settings" /\ page'.job = page.job
           /\ page.error => page'.error
           /\ armed => armed'
           /\ \A c \in calls : Tells(c, page.job) => c \in calls' \/ page'.error
           /\ \A c \in calls : c.op = "confirm" /\ c.reply = "none" => c \in calls',
         \A w \in captured' : w \in captured \/ \E d \in calls' : Confirms(d, w[1], w[2])
  PROVE  PaidAgreed'
<1>1. ToldAgrees'
  BY StillTold
<1> QED BY <1>1, PageStep


\* Settings are changed, the timer fires, paying is asked for, a window pays: the
\* customer's own steps on the settings screen.
LEMMA PaidOnSettings ==
  ASSUME PageInv, PaidAgreed,
         \/ \E d \in Docs : Change(d)
         \/ \E m \in PhotoModes : SelectMode(m)
         \/ Fire \/ TapPay
         \/ \E w \in windows : PayInWindow(w) \/ CloseWindow(w)
  PROVE  PaidAgreed'
<1>0. OffersAgree
  BY DEF PaidAgreed
<1>1. ASSUME NEW p \in Pages, Render(p, calls), p.phase = page.phase, p.job = page.job,
             p.error = page.error, page.phase = "settings", UNCHANGED <<windows, API>>
      PROVE  PaidAgreed'
  <2>1. page.job \in Jobs
    BY <1>1, Usual
  <2> QED BY <1>1, <2>1, Usual, RenderKeeps, PageGoesOn, PageAssumption DEF API, Sound, Tells
<1>2. ASSUME NEW d \in Docs, Change(d) PROVE PaidAgreed'
  <2> DEFINE p == [page EXCEPT !.doc = d]
  <2>1. p \in Pages /\ p.phase = page.phase /\ p.job = page.job /\ p.error = page.error
    BY Usual DEF Pages
  <2>2. Render(p, calls) /\ page.phase = "settings" /\ UNCHANGED <<windows, API>>
    BY <1>2 DEF Change, Setting
  <2> HIDE DEF p
  <2> QED BY <1>1, <2>1, <2>2
<1>3. ASSUME NEW m \in PhotoModes, SelectMode(m) PROVE PaidAgreed'
  <2> DEFINE p == [page EXCEPT !.mode = m]
  <2>1. p \in Pages /\ p.phase = page.phase /\ p.job = page.job /\ p.error = page.error
    BY Usual DEF Pages
  <2>2. Render(p, calls) /\ page.phase = "settings" /\ UNCHANGED <<windows, API>>
    BY <1>3 DEF SelectMode, Setting
  <2> HIDE DEF p
  <2> QED BY <1>1, <2>1, <2>2
<1>4. CASE Fire
  <2> DEFINE F(c) == [c EXCEPT !.live = @ /\ c.op # "price"]
             q    == [Request("price", page.job) EXCEPT !.body = Body]
  <2>1. page.phase = "settings" /\ page.job \in Jobs
    BY <1>4 DEF Fire, PageInv, Agreed, PricesAgree
  <2>2. q.op = "price" /\ q.job = page.job /\ q.reply = "none" /\ q.live
    BY DEF Request
  <2>3. ASSUME NEW c \in calls
        PROVE  F(c).op = c.op /\ F(c).job = c.job /\ (c.op # "price" => F(c) = c)
    <3>1. c \in Call /\ c.live \in BOOLEAN
      BY Usual DEF Call
    <3>2. F(c).op = c.op /\ F(c).job = c.job
      BY <3>1 DEF Call
    <3>3. ASSUME c.op # "price" PROVE F(c) = c
      <4>1. (c.live /\ c.op # "price") = c.live
        BY <3>1, <3>3
      <4> QED BY <3>1, <4>1 DEF Call
    <3> QED BY <3>2, <3>3
  <2>4. calls' = {F(c) : c \in calls} \cup {q} /\ UNCHANGED <<windows, captured, server>>
    BY <1>4 DEF Fire, Local, API
  <2>5. page'.phase = "settings" /\ page'.job = page.job
    BY <1>4, <2>1, Usual DEF Fire, Pages
  <2> HIDE DEF F, q
  <2>6. \A d \in calls' : Sound(d)
    BY <2>1, <2>2, <2>3, <2>4 DEF Sound
  <2>7. \A c \in calls : c.op = "confirm" => c \in calls'
    BY <2>3, <2>4
  <2>8. ToldAgrees'
    BY <2>2, <2>4, <2>5 DEF ToldAgrees, OnSettings, Tells
  <2> QED BY <2>1, <2>4, <2>5, <2>6, <2>7, <2>8, PageStep
<1>5. CASE TapPay
  <2> DEFINE q == Request("pay", page.job)
             p == [page EXCEPT !.error = FALSE]
  <2>1. /\ page.phase = "settings" /\ Render(p, calls \cup {q})
        /\ UNCHANGED <<server, windows, captured>>
    BY <1>5 DEF TapPay, Payable, Local, API
  <2>2. q \in Call /\ q.op = "pay" /\ q.job = page.job /\ q.reply = "none"
    BY <2>1, Usual DEF Request, Call, OpNames
  <2>3. p \in Pages /\ p.phase = page.phase /\ p.job = page.job
    BY Usual DEF Pages
  <2> HIDE DEF q, p
  <2>4. calls \cup {q} \in SUBSET Call
    BY <2>2, Usual
  <2>5. /\ page' = p
        /\ \A d : d.op # "status" => (d \in calls' <=> d \in calls \cup {q})
    BY <2>1, <2>3, <2>4, RenderKeeps
  <2>6. \A d \in calls' : Sound(d)
    BY <2>2, <2>5 DEF Sound
  <2>7. ToldAgrees'
    BY <2>2, <2>3, <2>5 DEF ToldAgrees, OnSettings, Tells
  <2> QED BY <2>1, <2>3, <2>5, <2>6, <2>7, PageStep
<1>6. ASSUME NEW w \in windows, PayInWindow(w) PROVE PaidAgreed'
  <2> DEFINE q == [Request("confirm", w[1]) EXCEPT !.order = w[2]]
  <2>1. /\ Render(page, calls \cup {q}) /\ windows' = windows \ {w} /\ captured' = captured \cup {w}
        /\ UNCHANGED server
    BY <1>6 DEF PayInWindow
  <2>2. w \in Jobs \X Nat /\ Offered(w[1], w[2])
    BY <1>0, Usual DEF OffersAgree
  <2>3. /\ q \in Call /\ q.op = "confirm" /\ q.job = w[1] /\ q.order = w[2] /\ q.reply = "none"
    BY <2>2 DEF Request, Call, OpNames
  <2> HIDE DEF q
  <2>4. calls \cup {q} \in SUBSET Call /\ page \in Pages
    BY <2>3, Usual
  <2>5. /\ page' = page /\ \A d : d.op # "status" => (d \in calls' <=> d \in calls \cup {q})
        /\ page.phase = "settings" /\ page.job # NoJob /\ armed => armed'
    BY <2>1, <2>4, RenderKeeps
  <2>6. \A d \in calls' : Sound(d)
    BY <2>2, <2>3, <2>5 DEF Sound
  <2>7. \A v \in captured' : v \in captured \/ \E d \in calls' : Confirms(d, v[1], v[2])
    BY <2>1, <2>3, <2>5 DEF Confirms
  <2>8. \A c \in calls : Tells(c, page.job) => c \in calls'
    BY <2>5 DEF Tells
  <2>9. page.phase = "settings" => page.job # NoJob
    BY Usual, PageAssumption
  <2> QED BY <2>1, <2>5, <2>6, <2>7, <2>8, <2>9, PageGoesOn
<1>7. ASSUME NEW w \in windows, CloseWindow(w) PROVE PaidAgreed'
  <2>1. windows' \subseteq windows /\ UNCHANGED <<page, armed, calls, captured, server>>
    BY <1>7 DEF CloseWindow, API
  <2> QED BY <2>1, PageGoesOn DEF Sound
<1> QED BY <1>2, <1>3, <1>4, <1>5, <1>6, <1>7

\* Steps that do not lead to the settings screen.
LEMMA PaidElsewhere ==
  ASSUME PageInv, PaidAgreed,
         \/ \E j \in Jobs : PickFile(j)
         \/ Poll \/ Reset \/ Reload
         \/ \E c \in calls : \/ InfoReply(c)
                             \/ UploadReply(c, "create", "put") \/ UploadReply(c, "put", "process")
                             \/ c.op \in Uploads /\ UploadFails(c)
  PROVE  PaidAgreed'
<1>1. ASSUME NEW p, NEW S \in SUBSET Call, Render(p, S), p.phase # "settings",
             \A d \in S : Sound(d), UNCHANGED <<windows, API>>
      PROVE  PaidAgreed'
  <2>1. page'.phase # "settings" /\ \A d \in calls' : Sound(d)
    BY <1>1, RenderKeeps DEF Sound
  <2> QED BY <1>1, <2>1, PageGoesOn DEF API
<1>2. \A d \in calls : Sound(d)
  BY DEF Sound
<1>3. ASSUME NEW j \in Jobs, PickFile(j) PROVE PaidAgreed'
  <2> DEFINE picked == [page EXCEPT !.image = (KindOf[j] = "photo"), !.error = FALSE]
             p1 == [page EXCEPT !.error = TRUE]
             p2 == [picked EXCEPT !.error = TRUE]
             p  == [picked EXCEPT !.phase = "uploading"]
             q  == Request("create", NoJob)
  <2>1. page.phase = "landing" => p1.phase = "landing" /\ p2.phase = "landing" /\ p.phase = "uploading"
    BY Usual DEF Pages
  <2>2. /\ page.phase = "landing" /\ UNCHANGED <<windows, API>>
        /\ \/ Render(p1, calls) \/ Render(p2, calls) \/ Render(p, calls \cup {q})
    BY <1>3 DEF PickFile, Local, Told
  <2>3. q \in Call /\ q.op = "create"
    BY DEF Request, Call, OpNames
  <2> HIDE DEF p, p1, p2, q
  <2>4. calls \in SUBSET Call /\ calls \cup {q} \in SUBSET Call /\ \A d \in calls \cup {q} : Sound(d)
    BY <1>2, <2>3, Usual DEF Sound
  <2> QED BY <1>1, <1>2, <2>1, <2>2, <2>4
<1>4. CASE Poll
  <2> DEFINE q == Request("status", page.job)
  <2>1. page.phase = "otp" /\ Render(page, calls \cup {q}) /\ UNCHANGED <<windows, API>>
    BY <1>4 DEF Poll, Local
  <2>2. q \in Call /\ q.op = "status"
    BY <2>1, Usual DEF Request, Call, OpNames
  <2> HIDE DEF q
  <2>3. calls \cup {q} \in SUBSET Call /\ \A d \in calls \cup {q} : Sound(d)
    BY <1>2, <2>2, Usual DEF Sound
  <2> QED BY <1>1, <2>1, <2>3
<1>5. CASE Reset
  <2> DEFINE p == [page EXCEPT !.job = NoJob, !.status = NoStatus, !.otp = NoJob, !.price = NoPrice,
                               !.doc = NewDoc, !.phase = "landing"]
  <2>1. Render(p, calls) /\ UNCHANGED <<windows, API>>
    BY <1>5 DEF Reset
  <2>2. p.phase # "settings"
    BY Usual DEF Pages
  <2> HIDE DEF p
  <2> QED BY <1>1, <1>2, <2>1, <2>2, Usual
<1>6. CASE Reload
  <2> DEFINE q == Request("info", NoJob)
  <2>1. /\ page' = FreshPage /\ calls' = {q} /\ windows' = {} /\ UNCHANGED <<server, captured>>
    BY <1>6 DEF Reload, API
  <2>2. page'.phase # "settings" /\ q.op = "info"
    BY <2>1 DEF FreshPage, Request
  <2> HIDE DEF q
  <2>3. \A d \in calls' : Sound(d)
    BY <2>1, <2>2 DEF Sound
  <2> QED BY <2>1, <2>2, <2>3, PageGoesOn
<1>7. ASSUME NEW c \in calls, InfoReply(c) PROVE PaidAgreed'
  <2> DEFINE p1 == [Told(page) EXCEPT !.phase = "landing"]
             h  == IF url = NoJob THEN "landing" ELSE "otp"
             p2 == [page EXCEPT !.kiosk = c.state, !.job = url, !.phase = h]
             p  == IF c.reply = "failed" THEN p1 ELSE p2
  <2>1. Render(p, Rest(c)) /\ UNCHANGED <<windows, API>>
    BY <1>7 DEF InfoReply, Local
  <2>2. p1.phase # "settings"
    BY Usual DEF Pages, Told
  <2>3. p2.phase # "settings"
    <3>1. h # "settings"
      OBVIOUS
    <3> HIDE DEF h
    <3> QED BY <3>1, Usual DEF Pages
  <2> HIDE DEF p1, p2
  <2> QED BY <1>1, <1>2, <2>1, <2>2, <2>3, Usual DEF Rest
<1>8. ASSUME NEW c \in calls, c.op \in Uploads, UploadFails(c) PROVE PaidAgreed'
  <2> DEFINE p == [Told(page) EXCEPT !.phase = "landing"]
  <2>1. Render(p, Rest(c)) /\ UNCHANGED <<windows, API>>
    BY <1>8 DEF UploadFails, Local
  <2>2. p.phase # "settings"
    BY Usual DEF Pages, Told
  <2> HIDE DEF p
  <2> QED BY <1>1, <1>2, <2>1, <2>2, Usual DEF Rest
<1>9. ASSUME NEW c \in calls, UploadReply(c, "create", "put") \/ UploadReply(c, "put", "process")
      PROVE  PaidAgreed'
  <2>0. c.op \in Uploads
    BY <1>9 DEF UploadReply, Answered, Uploads
  <2>1. CASE c.reply = "failed"
    BY <1>8, <1>9, <2>0, <2>1 DEF UploadReply
  <2>2. CASE c.reply # "failed"
    <3>1. PICK op \in {"create", "put"}, next \in {"put", "process"} : UploadReply(c, op, next)
      BY <1>9
    <3> DEFINE q == Request(next, c.job)
    <3>2. /\ c.op \in {"create", "put"} /\ c.reply = "ok" /\ Render(page, Rest(c) \cup {q})
          /\ UNCHANGED <<windows, API>>
      BY <2>2, <3>1, Usual DEF UploadReply, Answered, Local, Call
    <3>3. c.job \in Jobs /\ Pending(c)
      BY <3>2, Usual DEF CallOK, Pending
    <3>4. page.phase = "uploading" /\ server[c.job].state = "UPLOADED"
      BY <2>0, <3>3 DEF PageInv, Agreed, UploadAgrees
    <3>5. q \in Call /\ q.op \in {"put", "process"} /\ q.job = c.job /\ q.reply = "none"
      BY <3>3 DEF Request, Call, OpNames
    <3> HIDE DEF q
    <3>6. /\ Rest(c) \cup {q} \in SUBSET Call
          /\ \A d \in Rest(c) \cup {q} : Sound(d)
      BY <1>2, <3>4, <3>5, Usual DEF Rest, Sound
    <3> QED BY <1>1, <3>2, <3>4, <3>6
  <2> QED BY <2>1, <2>2
<1> QED BY <1>3, <1>4, <1>5, <1>6, <1>7, <1>8, <1>9


\* The settings are shown, of a job that nobody has paid.
LEMMA PaidProcessed ==
  ASSUME PageInv, PaidAgreed, NEW c \in calls, ProcessReply(c), c.reply # "failed"
  PROVE  PaidAgreed'
<1> DEFINE p == [page EXCEPT !.job = c.job, !.phase = "settings"]
<1>1. c.op = "process" /\ c.reply = "ok" /\ c.job \in Jobs
  BY Usual DEF ProcessReply, Answered, CallOK, Call
<1>2. server[c.job].state = "PRICED" /\ page.phase = "uploading"
  BY <1>1 DEF PaidAgreed, KnownAgree, PageInv, Agreed, UploadAgrees, Uploads
<1>3. Render(p, Rest(c)) /\ UNCHANGED <<windows, server, captured>>
  BY <1>1 DEF ProcessReply, API
<1>4. p.phase = "settings" /\ p.job = c.job
  BY Usual DEF Pages
<1> HIDE DEF p
<1>5. /\ page' = p /\ \A d \in calls' : Sound(d)
      /\ \A d \in calls : d.op = "confirm" => d \in calls'
  <2>1. Rest(c) \in SUBSET Call
    BY Usual DEF Rest
  <2> QED BY <1>1, <1>3, <2>1, RenderKeeps DEF Rest, Sound
<1>6. ToldAgrees'
  <2>1. ~Started(c.job)
    BY <1>2 DEF Started
  <2>2. <<c.job, server[c.job].order>> \notin captured
    BY <2>1 DEF PaidAgreed, OffersAgree, Offered
  <2> QED BY <1>3, <1>4, <1>5, <2>2 DEF ToldAgrees, OnSettings, Standing
<1> QED BY <1>1, <1>2, <1>3, <1>4, <1>5, <1>6, PageStep

\* A reply about money that the customer did not want is told.
LEMMA PaidReplies ==
  ASSUME PageInv, PaidAgreed, NEW c \in calls,
         PriceReply(c) \/ PayReply(c) \/ ScriptReply(c) \/ ConfirmReply(c) \/ StatusReply(c)
  PROVE  PaidAgreed'
<1>0. /\ c.op \in {"price", "pay", "script", "confirm", "status"} /\ c.reply \in {"ok", "failed"}
      /\ c.job \in Jobs /\ c \in Call
  BY Usual DEF PriceReply, PayReply, ScriptReply, ConfirmReply, StatusReply, Answered, CallOK, Call
\* What is common to these replies.
<1>1. ASSUME NEW p, NEW S \in SUBSET Call, Render(p, S), UNCHANGED <<server, captured>>,
             Rest(c) \subseteq S, \A d \in S : d \in calls \/ (d.op = "script" /\ Offered(d.job, d.order)),
             \A w \in windows' : w \in windows \/ Offered(w[1], w[2]),
             p.phase = "settings" =>
               /\ page.phase = "settings" /\ p.job = page.job /\ (page.error => p.error)
               /\ Tells(c, page.job) \/ (c.op = "confirm" /\ c.reply = "none") => p.error
      PROVE  PaidAgreed'
  <2>1. /\ page' = p /\ \A d \in calls' : Sound(d)
        /\ \A d \in calls : d.op # "status" => d \in calls' \/ d = c
        /\ p.phase = "settings" /\ p.job # NoJob /\ armed => armed'
    BY <1>1, RenderKeeps DEF Rest, Sound
  <2>2. page.phase = "settings" => page.job # NoJob
    BY Usual, PageAssumption
  <2> QED BY <1>0, <1>1, <2>1, <2>2, PageGoesOn DEF Tells
<1>2. Rest(c) \in SUBSET Call /\ \A d \in Rest(c) : d \in calls
  BY Usual DEF Rest
<1> DEFINE t == Told(page)
           o == [page EXCEPT !.phase = "otp"]
           q == [Request("script", c.job) EXCEPT !.order = c.order]
<1>3. t.phase = page.phase /\ t.job = page.job /\ t.error /\ o.phase = "otp"
  BY Usual DEF Pages, Told
<1>4. q \in Call /\ q.op = "script" /\ q.job = c.job /\ q.order = c.order
  BY <1>0 DEF Request, Call, OpNames
<1>5. Offers(c) => Offered(c.job, c.order)
  BY DEF PaidAgreed, OffersAgree
<1> HIDE DEF t, o, q
<1>6. CASE PriceReply(c)
  <2> DEFINE p1 == [page EXCEPT !.price = [job |-> c.job, body |-> c.body], !.pricing = FALSE]
             p2 == [Told(page) EXCEPT !.price = NoPrice, !.pricing = FALSE]
             p  == IF ~c.live THEN page ELSE IF c.reply = "ok" THEN p1 ELSE p2
  <2>1. Render(p, Rest(c)) /\ UNCHANGED <<server, captured, windows>> /\ c.op = "price"
    BY <1>6 DEF PriceReply, Answered, Local, API
  <2>2. /\ p1.phase = page.phase /\ p1.job = page.job /\ p1.error = page.error
        /\ p2.phase = page.phase /\ p2.job = page.job /\ p2.error
    BY Usual DEF Pages, Told
  <2> HIDE DEF p1, p2
  <2>3. /\ p.phase = page.phase /\ p.job = page.job /\ (page.error => p.error)
        /\ Tells(c, page.job) => p.error
    BY <2>1, <2>2 DEF Tells
  <2> HIDE DEF p
  <2> QED BY <1>0, <1>1, <1>2, <2>1, <2>3
<1>7. CASE PayReply(c)
  <2> DEFINE T == {r \in {q} : c.reply = "ok" /\ PayMode = "razorpay"}
             p == IF c.reply = "failed" THEN t ELSE IF PayMode = "mock" THEN o ELSE page
  <2>1. Render(p, Rest(c) \cup T) /\ UNCHANGED <<server, captured, windows>> /\ c.op = "pay"
    BY <1>7 DEF PayReply, Answered, Local, API, t, o, q
  <2>2. T \in SUBSET Call /\ \A d \in T : d.op = "script" /\ Offered(d.job, d.order)
    BY <1>4, <1>5, <2>1 DEF Offers
  <2>3. p.phase = "settings" =>
               /\ page.phase = "settings" /\ p.job = page.job /\ (page.error => p.error)
               /\ Tells(c, page.job) => p.error
    BY <1>0, <1>3, <2>1 DEF Tells
  <2> HIDE DEF p, T
  <2>4. Rest(c) \cup T \in SUBSET Call
    BY <1>2, <2>2
  <2> QED BY <1>0, <1>1, <1>2, <2>1, <2>2, <2>3, <2>4
<1>8. CASE ScriptReply(c)
  <2> DEFINE p == IF c.reply = "failed" THEN t ELSE page
  <2>1. /\ Render(p, Rest(c)) /\ UNCHANGED <<server, captured>> /\ c.op = "script"
        /\ windows' = windows \cup {w \in {<<c.job, c.order>>} : c.reply = "ok"}
    BY <1>8 DEF ScriptReply, Answered, API, t
  <2>2. \A w \in windows' : w \in windows \/ Offered(w[1], w[2])
    BY <1>5, <2>1 DEF Offers
  <2>3. /\ p.phase = page.phase /\ p.job = page.job /\ (page.error => p.error)
        /\ ~Tells(c, page.job)
    BY <1>3, <2>1 DEF Tells
  <2> HIDE DEF p
  <2> QED BY <1>0, <1>1, <1>2, <2>1, <2>2, <2>3
<1>9. CASE ConfirmReply(c)
  <2> DEFINE p == IF c.reply = "failed" THEN t ELSE o
  <2>1. Render(p, Rest(c)) /\ UNCHANGED <<server, captured, windows>> /\ c.op = "confirm"
    BY <1>9 DEF ConfirmReply, Answered, Local, API, t, o
  <2>2. p.phase = "settings" => page.phase = "settings" /\ p.job = page.job /\ p.error
    BY <1>3
  <2> HIDE DEF p
  <2> QED BY <1>0, <1>1, <1>2, <2>1, <2>2
<1>10. CASE StatusReply(c)
  <2> DEFINE s == [page EXCEPT !.status = [job |-> c.job, state |-> c.state],
                               !.otp = IF c.code THEN c.job ELSE @]
             p == IF ~c.live THEN page ELSE IF c.reply = "failed" THEN t ELSE s
  <2>1. Render(p, Rest(c)) /\ UNCHANGED <<server, captured, windows>> /\ c.op = "status"
    BY <1>10 DEF StatusReply, Answered, Local, API, t
  <2>2. s.phase = page.phase /\ s.job = page.job /\ s.error = page.error
    <3> DEFINE x == IF c.code THEN c.job ELSE page.otp
               v == [page EXCEPT !.status = [job |-> c.job, state |-> c.state], !.otp = x]
    <3>1. s = v
      OBVIOUS
    <3> HIDE DEF s, x
    <3>2. v.phase = page.phase /\ v.job = page.job /\ v.error = page.error
      BY Usual DEF Pages
    <3> QED BY <3>1, <3>2
  <2> HIDE DEF s
  <2>3. /\ p.phase = page.phase /\ p.job = page.job /\ (page.error => p.error)
        /\ ~Tells(c, page.job)
    BY <1>3, <2>1, <2>2 DEF Tells
  <2> HIDE DEF p
  <2> QED BY <1>0, <1>1, <1>2, <2>1, <2>3
<1> QED BY <1>6, <1>7, <1>8, <1>9, <1>10

\* The rows only move on, and an order that takes another's place is a new one.
Grows ==
  \A j \in Jobs :
    /\ (Started(j) => Started(j)') /\ (Known(j) => Known(j)') /\ (Paid(j) => Paid(j)')
    /\ \A o \in Nat : o <= server[j].order => o <= server'[j].order
    /\ <<j, server'[j].order>> \in captured => server'[j].order = server[j].order
    /\ server[j].state = "PRICED" =>
         server'[j].state = "PRICED" \/ \E c \in calls : c.op = "price" /\ c.job = j

LEMMA RowGrows ==
  ASSUME PageInv, PaidAgreed, NEW j \in Jobs, NEW row \in RowSet, Row(j, row),
         \/ row.state = server[j].state
         \/ server[j].state = "NONE" /\ row.state = "UPLOADED"
         \/ server[j].state = "UPLOADED" /\ row.state # "NONE"
         \/ /\ server[j].state \in {"PRICED", "AWAITING_PAYMENT"} /\ row.state = "AWAITING_PAYMENT"
            /\ \E c \in calls : c.op = "price" /\ c.job = j
         \/ /\ server[j].state \notin {"NONE", "UPLOADED", "PRICED"} /\ row.state \notin Unpaid,
         row.order = server[j].order \/ \A i \in Jobs : server[i].order < row.order
  PROVE  Grows
<1>0. server \in Servers /\ \A w \in captured : Offered(w[1], w[2])
  BY DEF PageInv, Agreed, TypeOK, Servers, PaidAgreed, OffersAgree
<1>1. server'[j] = row /\ \A i \in Jobs : i # j => server'[i] = server[i]
  BY <1>0 DEF Row, Servers
<1>2. \A i \in Jobs : server[i].order \in Nat
  BY <1>0 DEF Servers
<1>3. row.order \in Nat
  BY DEF RowSet
<1>4. <<j, row.order>> \in captured => row.order = server[j].order
  <2> SUFFICES ASSUME <<j, row.order>> \in captured PROVE row.order = server[j].order
    OBVIOUS
  <2>1. row.order <= server[j].order
    BY <1>0 DEF Offered
  <2> QED BY <1>2, <1>3, <2>1
<1> SUFFICES ASSUME NEW i \in Jobs
             PROVE  /\ (Started(i) => Started(i)') /\ (Known(i) => Known(i)') /\ (Paid(i) => Paid(i)')
                    /\ \A o \in Nat : o <= server[i].order => o <= server'[i].order
                    /\ <<i, server'[i].order>> \in captured => server'[i].order = server[i].order
                    /\ server[i].state = "PRICED" =>
                         server'[i].state = "PRICED" \/ \E c \in calls : c.op = "price" /\ c.job = i
  BY DEF Grows
<1>5. CASE i # j
  BY <1>1, <1>5 DEF Started, Known, Paid
<1>6. CASE i = j
  <2>1. (Started(i) => Started(i)') /\ (Known(i) => Known(i)') /\ (Paid(i) => Paid(i)')
    BY <1>1, <1>6 DEF Started, Known, Paid, Unpaid
  <2>2. \A o \in Nat : o <= server[i].order => o <= server'[i].order
    BY <1>1, <1>2, <1>3, <1>6
  <2>3. server[i].state = "PRICED" =>
          server'[i].state = "PRICED" \/ \E c \in calls : c.op = "price" /\ c.job = i
    BY <1>1, <1>6
  <2> QED BY <1>1, <1>4, <1>6, <2>1, <2>2, <2>3
<1> QED BY <1>5, <1>6


\* The API answers c with r: what it refuses is told, and a price or an order is
\* only given to a job that has not been paid.
LEMMA PaidAnswers ==
  ASSUME PageInv, PaidAgreed, NEW c \in calls, NEW r \in Call, Answer(c, r), Grows,
         r.op = c.op, r.live = c.live, c.op # "create" => r.job = c.job,
         c.reply = "failed" => r.reply = "failed",
         Offers(r) => Offered(r.job, r.order)',
         c.op = "process" /\ r.reply = "ok" => server'[c.job].state = "PRICED",
         c.op = "confirm" => c.reply = "none" /\ (c.order = server[c.job].order => Paid(c.job)'),
         c.op \in {"price", "pay"} /\ r.reply = "ok" => c.reply = "ok" \/ ~Paid(c.job)
  PROVE  PaidAgreed'
<1>0. OffersAgree /\ KnownAgree /\ ConfirmsAgree /\ ToldAgrees
  BY DEF PaidAgreed
<1>1. /\ UNCHANGED <<page, armed, windows, captured>>
      /\ \A d \in calls' : d = r \/ (d \in calls /\ d # c)
      /\ \A d \in calls : d # c => d \in calls'
      /\ r \in calls'
  BY DEF Answer, Rest
<1>2. /\ \A d \in calls : d.op \notin {"info", "create"} => d.job \in Jobs
      /\ \A d \in calls : d.order \in Nat
      /\ \A w \in windows \cup captured : w \in Jobs \X Nat
  BY Usual DEF CallOK, Call
<1>3. OffersAgree'
  <2>1. \A j \in Jobs, o \in Nat : Offered(j, o) => Offered(j, o)'
    BY DEF Grows, Offered
  <2>2. \A d \in calls' : Offers(d) => Offered(d.job, d.order)'
    BY <1>0, <1>1, <1>2, <2>1 DEF OffersAgree, Offers
  <2>3. \A w \in windows \cup captured : w[1] \in Jobs /\ w[2] \in Nat
    BY <1>2
  <2>4. \A w \in windows \cup captured : Offered(w[1], w[2])'
    BY <1>0, <2>1, <2>3 DEF OffersAgree
  <2> QED BY <1>1, <2>2, <2>4 DEF OffersAgree, Offers
<1>4. KnownAgree'
  <2>1. page.phase = "settings" => page.job \in Jobs
    BY Usual
  <2>2. (page.phase = "settings" => Known(page.job))'
    BY <1>0, <1>1, <2>1 DEF KnownAgree, Grows
  <2>3. \A d \in calls' : d.op = "price" => Known(d.job)'
    BY <1>0, <1>1, <1>2 DEF KnownAgree, Grows
  <2>4. ASSUME NEW d \in calls', d.op = "process", d.reply = "ok"
        PROVE  server'[d.job].state = "PRICED"
    <3>1. CASE d = r
      BY <2>4, <3>1
    <3>2. CASE d \in calls
      <4>1. /\ server[d.job].state = "PRICED" /\ d.job \in Jobs
            /\ ~\E e \in calls : e.op = "price" /\ e.job = d.job
        BY <1>0, <1>2, <2>4, <3>2 DEF KnownAgree
      <4> QED BY <4>1 DEF Grows
    <3> QED BY <1>1, <3>1, <3>2
  <2>5. \A d, e \in calls' : d.op = "price" /\ e.op = "process" => d.job # e.job
    BY <1>0, <1>1 DEF KnownAgree
  <2> QED BY <2>2, <2>3, <2>4, <2>5 DEF KnownAgree
<1>5. ASSUME NEW j \in Jobs, (OnSettings(j) /\ Standing(j))'
      PROVE  OnSettings(j) /\ Standing(j) /\ server'[j].order = server[j].order
  BY <1>1, <1>5 DEF OnSettings, Standing, Grows
<1>6. ASSUME NEW j \in Jobs, OnSettings(j), Standing(j), server'[j].order = server[j].order
      PROVE  Paid(j)' \/ \E d \in calls' : Confirms(d, j, server'[j].order)
  <2>1. CASE Paid(j)
    BY <2>1 DEF Grows
  <2>2. CASE ~Paid(j)
    <3>1. PICK d \in calls : Confirms(d, j, server[j].order)
      BY <1>0, <1>6, <2>2 DEF ConfirmsAgree
    <3>2. CASE d = c
      BY <3>1, <3>2 DEF Confirms
    <3>3. CASE d # c
      BY <1>1, <1>6, <3>1, <3>3
    <3> QED BY <3>2, <3>3
  <2> QED BY <2>1, <2>2
<1>7. ConfirmsAgree'
  BY <1>5, <1>6 DEF ConfirmsAgree, Confirms
<1>8. ASSUME NEW j \in Jobs, OnSettings(j), Standing(j)
      PROVE  page.error \/ armed \/ \E d \in calls' : Tells(d, j)
  <2>1. CASE page.error \/ armed
    BY <2>1
  <2>2. CASE \E d \in calls : Tells(d, j) /\ d # c
    BY <1>1, <2>2
  <2>3. CASE Tells(c, j) /\ (c.op = "confirm" \/ r.reply # "ok")
    <3>1. Tells(r, j)
      BY <2>3 DEF Tells
    <3> QED BY <1>1, <3>1
  <2>4. CASE Tells(c, j) /\ c.op # "confirm" /\ r.reply = "ok"
    <3>1. c.job = j /\ ~Paid(j)
      BY <2>4 DEF Tells
    <3>2. PICK d \in calls : Confirms(d, j, server[j].order)
      BY <1>0, <1>8, <3>1 DEF ConfirmsAgree
    <3>3. d # c /\ Tells(d, j)
      BY <2>4, <3>2 DEF Confirms, Tells
    <3> QED BY <1>1, <3>3
  <2> QED BY <1>0, <1>8, <2>1, <2>2, <2>3, <2>4 DEF ToldAgrees
<1>9. ToldAgrees'
  BY <1>1, <1>5, <1>8 DEF ToldAgrees, Tells
<1> QED BY <1>3, <1>4, <1>7, <1>9 DEF PaidAgreed

\* Rows that stay are rows that move on.
LEMMA RowsStay ==
  ASSUME UNCHANGED server
  PROVE  Grows
BY DEF Grows, Started, Known, Paid

\* The answers of the API, and replies that are lost.
LEMMA PaidServed ==
  ASSUME PageInv, PaidAgreed, "confirm" \notin Lossy, NEW c \in calls, Serve(c) \/ Lose(c)
  PROVE  PaidAgreed'
<1>0. /\ c \in Call /\ CallOK(c) /\ server \in Servers
      /\ OffersAgree /\ KnownAgree
  BY Usual DEF PageInv, Agreed, TypeOK, Servers, PaidAgreed
<1>1. ASSUME Refuse(c), c.op = "confirm" => c.reply = "none" /\ ~Confirmable(c.job, c.order)
      PROVE  PaidAgreed'
  <2> DEFINE r == [c EXCEPT !.reply = "failed"]
  <2>1. /\ r \in Call /\ r.op = c.op /\ r.job = c.job /\ r.live = c.live
        /\ r.order = c.order /\ r.reply = "failed"
    BY <1>0 DEF Call
  <2>2. Answer(c, r) /\ UNCHANGED server
    BY <1>1 DEF Refuse
  <2> HIDE DEF r
  <2>3. ASSUME c.op = "confirm"
        PROVE  c.reply = "none" /\ (c.order = server[c.job].order => Paid(c.job)')
    <3>1. Offered(c.job, c.order)
      BY <1>0, <2>3 DEF OffersAgree, Offers
    <3> QED BY <1>1, <2>2, <2>3, <3>1 DEF Confirmable, Offered, Started, Paid
  <2>4. Offers(r) => Offered(r.job, r.order)'
    BY <1>0, <2>1, <2>2 DEF OffersAgree, Offers, Offered, Started
  <2> QED BY <2>1, <2>2, <2>3, <2>4, RowsStay, PaidAnswers
<1>2. CASE Lose(c)
  BY <1>1, <1>2 DEF Lose
<1>3. CASE ServeInfo(c)
  <2>1. PICK s \in {"ONLINE", "OFFLINE"} : Answer(c, [Accept(c) EXCEPT !.state = s])
    BY <1>3 DEF ServeInfo
  <2> DEFINE r == [Accept(c) EXCEPT !.state = s]
  <2>2. r \in Call /\ r.op = c.op /\ r.job = c.job /\ r.live = c.live
    BY <1>0 DEF Call, Accept
  <2>3. c.op = "info" /\ c.reply = "none" /\ UNCHANGED server /\ Answer(c, r)
    BY <1>3, <2>1 DEF ServeInfo, Asked
  <2> HIDE DEF r
  <2> QED BY <2>2, <2>3, RowsStay, PaidAnswers DEF Offers
<1>4. CASE ServePut(c)
  <2>1. CASE Refuse(c)
    BY <1>1, <1>4, <2>1 DEF ServePut, Asked
  <2>2. CASE ~Refuse(c)
    <3> DEFINE r == Accept(c)
    <3>1. r \in Call /\ r.op = c.op /\ r.job = c.job /\ r.live = c.live
      BY <1>0 DEF Call, Accept
    <3>2. c.op = "put" /\ c.reply = "none" /\ UNCHANGED server /\ Answer(c, r)
      BY <1>4, <2>2 DEF ServePut, Asked
    <3> HIDE DEF r
    <3> QED BY <3>1, <3>2, RowsStay, PaidAnswers DEF Offers
  <2> QED BY <2>1, <2>2
<1>5. CASE ServeScript(c)
  <2>1. CASE Refuse(c)
    BY <1>1, <1>5, <2>1 DEF ServeScript, Asked
  <2>2. CASE ~Refuse(c)
    <3> DEFINE r == Accept(c)
    <3>1. r \in Call /\ r.op = c.op /\ r.job = c.job /\ r.live = c.live /\ r.order = c.order
      BY <1>0 DEF Call, Accept
    <3>2. c.op = "script" /\ c.reply = "none" /\ UNCHANGED server /\ Answer(c, r)
      BY <1>5, <2>2 DEF ServeScript, Asked
    <3> HIDE DEF r
    <3>3. Offered(r.job, r.order)'
      BY <1>0, <3>1, <3>2 DEF OffersAgree, Offers, Offered, Started
    <3> QED BY <3>1, <3>2, <3>3, RowsStay, PaidAnswers
  <2> QED BY <2>1, <2>2
<1>6. CASE ServeCreate(c)
  <2>1. CASE Refuse(c)
    BY <1>1, <1>6, <2>1 DEF ServeCreate, Asked
  <2>2. CASE ~Refuse(c)
    <3>1. PICK j \in Jobs : /\ Free(j) /\ Answer(c, [Accept(c) EXCEPT !.job = j])
                            /\ Row(j, [server[j] EXCEPT !.state = "UPLOADED"])
      BY <1>6, <2>2 DEF ServeCreate
    <3> DEFINE r == [Accept(c) EXCEPT !.job = j]
               row == [server[j] EXCEPT !.state = "UPLOADED"]
    <3>2. r \in Call /\ r.op = c.op /\ r.live = c.live
      BY <1>0 DEF Call, Accept
    <3>3. row \in RowSet /\ row.state = "UPLOADED" /\ row.order = server[j].order
      BY <1>0 DEF Servers, RowSet, JobStates
    <3>4. Answer(c, r) /\ Row(j, row) /\ c.op = "create" /\ c.reply = "none" /\ server[j].state = "NONE"
      BY <1>6, <3>1 DEF ServeCreate, Asked, Free
    <3> HIDE DEF r, row
    <3>5. Grows
      BY <3>3, <3>4, RowGrows
    <3> QED BY <3>2, <3>4, <3>5, PaidAnswers DEF Offers
  <2> QED BY <2>1, <2>2
<1>7. CASE ServeProcess(c)
  <2>1. PICK ok \in BOOLEAN :
          /\ Answer(c, [c EXCEPT !.reply = IF ok THEN "ok" ELSE "failed"])
          /\ Row(c.job, [server[c.job] EXCEPT !.state = IF ok THEN "PRICED" ELSE "FAILED"])
    BY <1>7 DEF ServeProcess
  <2> DEFINE r == [c EXCEPT !.reply = IF ok THEN "ok" ELSE "failed"]
             row == [server[c.job] EXCEPT !.state = IF ok THEN "PRICED" ELSE "FAILED"]
  <2>2. /\ r \in Call /\ r.op = c.op /\ r.job = c.job /\ r.live = c.live
        /\ r.reply = "ok" => ok
    BY <1>0 DEF Call
  <2>3. c.op = "process" /\ c.reply = "none" /\ c.job \in Jobs
    BY <1>0, <1>7 DEF ServeProcess, Asked, CallOK
  <2>4. /\ row \in RowSet /\ row.order = server[c.job].order
        /\ row.state # "NONE" /\ (ok => row.state = "PRICED")
    BY <1>0, <2>3 DEF Servers, RowSet, JobStates
  <2>5. server[c.job].state = "UPLOADED"
    BY <2>3 DEF PageInv, Agreed, UploadAgrees, Pending
  <2>6. Answer(c, r) /\ Row(c.job, row)
    BY <2>1
  <2> HIDE DEF r, row
  <2>7. Grows
    BY <2>3, <2>4, <2>5, <2>6, RowGrows
  <2>8. r.reply = "ok" => server'[c.job].state = "PRICED"
    BY <1>0, <2>2, <2>3, <2>4, <2>6 DEF Row, Servers
  <2> QED BY <2>2, <2>3, <2>6, <2>7, <2>8, PaidAnswers DEF Offers
<1>8. CASE ServePrice(c)
  <2>0. c.op = "price" /\ c.reply = "none" /\ c.job \in Jobs
    BY <1>0, <1>8 DEF ServePrice, Asked, CallOK
  <2>1. CASE Refuse(c)
    BY <1>1, <2>0, <2>1
  <2>2. CASE ~Refuse(c)
    <3> DEFINE r == Accept(c)
               row == [server[c.job] EXCEPT !.state = "AWAITING_PAYMENT", !.body = c.body]
    <3>1. r \in Call /\ r.op = c.op /\ r.job = c.job /\ r.live = c.live
      BY <1>0 DEF Call, Accept
    <3>2. /\ Answer(c, r) /\ Row(c.job, row)
          /\ server[c.job].state \in {"PRICED", "AWAITING_PAYMENT"}
      BY <1>8, <2>2 DEF ServePrice
    <3>a. server[c.job] \in RowSet /\ c.body \in Bodies \cup {NoBody}
      BY <1>0, <2>0 DEF Servers, RowSet, Call
    <3>3. row \in RowSet /\ row.state = "AWAITING_PAYMENT" /\ row.order = server[c.job].order
      BY <3>a DEF RowSet, JobStates
    <3> HIDE DEF r, row
    <3>4. Grows
      BY <2>0, <3>2, <3>3, RowGrows
    <3>5. ~Paid(c.job)
      BY <3>2 DEF Paid
    <3> QED BY <2>0, <3>1, <3>2, <3>4, <3>5, PaidAnswers DEF Offers
  <2> QED BY <2>1, <2>2
<1>9. CASE ServePay(c)
  <2>0. c.op = "pay" /\ c.reply = "none" /\ c.job \in Jobs
    BY <1>0, <1>9 DEF ServePay, Asked, CallOK
  <2>1. CASE Refuse(c)
    BY <1>1, <2>0, <2>1
  <2>2. CASE ~Refuse(c) /\ PayMode = "mock"
    <3> DEFINE r == Accept(c)
               row == Queued(server[c.job])
    <3>1. r \in Call /\ r.op = c.op /\ r.job = c.job /\ r.live = c.live /\ r.order = c.order
      BY <1>0 DEF Call, Accept
    <3>2. Answer(c, r) /\ Row(c.job, row) /\ server[c.job].state = "AWAITING_PAYMENT"
      BY <1>9, <2>2 DEF ServePay
    <3>3. row \in RowSet /\ row.state = "QUEUED" /\ row.order = server[c.job].order
      BY <1>0, <2>0 DEF Servers, RowSet, JobStates, Queued
    <3> HIDE DEF r, row
    <3>4. Grows
      BY <2>0, <3>2, <3>3, RowGrows DEF Unpaid
    <3>5. ~Paid(c.job)
      BY <3>2 DEF Paid
    <3> QED BY <2>0, <2>2, <3>1, <3>2, <3>4, <3>5, PaidAnswers DEF Offers
  <2>3. CASE ~Refuse(c) /\ PayMode # "mock"
    <3>0. server[c.job].state = "AWAITING_PAYMENT"
      BY <1>9, <2>3 DEF ServePay
    <3>1. PICK o \in 1 .. MaxOrders :
            /\ o = server[c.job].order \/ NewOrder(o)
            /\ Answer(c, [Accept(c) EXCEPT !.order = o])
            /\ Row(c.job, [server[c.job] EXCEPT !.order = o, !.ordered = server[c.job].body])
      BY <1>9, <2>3 DEF ServePay
    <3> DEFINE r == [Accept(c) EXCEPT !.order = o]
               row == [server[c.job] EXCEPT !.order = o, !.ordered = server[c.job].body]
    <3>2. o \in Nat
      BY PageAssumption
    <3>3. r \in Call /\ r.op = c.op /\ r.job = c.job /\ r.live = c.live /\ r.order = o
      BY <1>0, <3>2 DEF Call, Accept
    <3>4. row \in RowSet /\ row.state = "AWAITING_PAYMENT" /\ row.order = o
      BY <1>0, <2>0, <3>0, <3>2 DEF Servers, RowSet
    <3>5. Answer(c, r) /\ Row(c.job, row)
      BY <3>1
    <3> HIDE DEF r, row
    <3>6. Grows
      BY <2>0, <3>0, <3>1, <3>4, <3>5, RowGrows DEF NewOrder
    <3>7. ~Paid(c.job)
      BY <3>0 DEF Paid
    <3>8. Offered(r.job, r.order)'
      <4>1. server'[c.job] = row
        BY <1>0, <2>0, <3>5 DEF Row, Servers
      <4> QED BY <3>2, <3>3, <3>4, <4>1 DEF Offered, Started
    <3> QED BY <2>0, <3>3, <3>5, <3>6, <3>7, <3>8, PaidAnswers
  <2> QED BY <2>1, <2>2, <2>3
<1>10. CASE ServeConfirm(c)
  <2>0. c.op = "confirm" /\ c.reply = "none" /\ c.job \in Jobs
    BY <1>0, <1>10 DEF ServeConfirm, Asked, CallOK
  <2>1. CASE ~Confirmable(c.job, c.order)
    BY <1>1, <1>10, <2>0, <2>1 DEF ServeConfirm
  <2>2. CASE Confirmable(c.job, c.order)
    <3> DEFINE r == Accept(c)
               row == Queued(server[c.job])
    <3>1. r \in Call /\ r.op = c.op /\ r.job = c.job /\ r.live = c.live /\ r.order = c.order
      BY <1>0 DEF Call, Accept
    <3>2. Answer(c, r) /\ Row(c.job, row) /\ server[c.job].state = "AWAITING_PAYMENT"
      BY <1>10, <2>2 DEF ServeConfirm, Confirmable
    <3>3. row \in RowSet /\ row.state = "QUEUED" /\ row.order = server[c.job].order
      BY <1>0, <2>0 DEF Servers, RowSet, JobStates, Queued
    <3> HIDE DEF r, row
    <3>4. Grows
      BY <2>0, <3>2, <3>3, RowGrows DEF Unpaid
    <3>5. server'[c.job] = row
      BY <1>0, <2>0, <3>2 DEF Row, Servers
    <3>6. Paid(c.job)'
      BY <3>3, <3>5 DEF Paid
    <3>7. Offered(r.job, r.order)'
      <4>1. Offered(c.job, c.order)
        BY <1>0, <2>0 DEF OffersAgree, Offers
      <4> QED BY <3>1, <3>3, <3>5, <4>1 DEF Offered, Started
    <3> QED BY <2>0, <3>1, <3>2, <3>4, <3>6, <3>7, PaidAnswers
  <2> QED BY <2>1, <2>2
<1>11. CASE ServeStatus(c)
  <2> DEFINE s == server[c.job].state
             reveal == s \in {"QUEUED", "PRINTING"} /\ server[c.job].code = "kept"
             r == [Accept(c) EXCEPT !.state = s, !.code = reveal]
             row == [server[c.job] EXCEPT !.code = IF reveal THEN "given" ELSE @]
  <2>1. /\ c.op = "status" /\ c.reply = "none" /\ c.job \in Jobs /\ Answer(c, r) /\ Row(c.job, row)
    BY <1>0, <1>11 DEF ServeStatus, Asked, CallOK
  <2>2. s \in JobStates /\ reveal \in BOOLEAN
    BY <1>0, <2>1 DEF Servers
  <2>3. row \in RowSet /\ row.state = s /\ row.order = server[c.job].order
    <3> HIDE DEF reveal
    <3> QED BY <1>0, <2>1, <2>2 DEF Servers, RowSet
  <2>4. r \in Call /\ r.op = c.op /\ r.job = c.job /\ r.live = c.live
    <3> HIDE DEF reveal, s
    <3> QED BY <1>0, <2>2 DEF Call, Accept
  <2> HIDE DEF r, row, reveal
  <2>5. Grows
    BY <2>1, <2>3, RowGrows
  <2> QED BY <2>1, <2>4, <2>5, PaidAnswers DEF Offers
<1> QED BY <1>2, <1>3, <1>4, <1>5, <1>6, <1>7, <1>8, <1>9, <1>10, <1>11 DEF Serve


\* The rows move by themselves: nothing that was priced only, and no order.
LEMMA PaidMoves ==
  ASSUME PageInv, PaidAgreed, (\E w \in captured : Webhook(w)) \/ \E j \in Jobs : Progress(j)
  PROVE  PaidAgreed'
<1>0. /\ server \in Servers /\ captured \subseteq Jobs \X Nat
      /\ UNCHANGED <<page, armed, calls, windows, captured>>
  BY Usual DEF PageInv, Agreed, TypeOK, Servers, Webhook, Progress
<1>1. Grows /\ \A j \in Jobs : /\ server'[j].order = server[j].order
                               /\ server[j].state = "PRICED" => server'[j].state = "PRICED"
  <2>1. ASSUME NEW j \in Jobs, NEW row \in RowSet, Row(j, row), row.order = server[j].order,
               server[j].state \notin {"NONE", "UPLOADED", "PRICED"}, row.state \notin Unpaid
        PROVE  Grows /\ \A i \in Jobs : /\ server'[i].order = server[i].order
                                        /\ server[i].state = "PRICED" => server'[i].state = "PRICED"
    <3>1. Grows
      BY <2>1, RowGrows
    <3>2. server'[j] = row /\ \A i \in Jobs : i # j => server'[i] = server[i]
      BY <1>0, <2>1 DEF Row, Servers
    <3> QED BY <2>1, <3>1, <3>2
  <2>2. ASSUME NEW w \in captured, Webhook(w)
        PROVE  \E j \in Jobs, row \in RowSet :
                 /\ Row(j, row) /\ row.order = server[j].order /\ row.state \notin Unpaid
                 /\ server[j].state \notin {"NONE", "UPLOADED", "PRICED"}
    <3>1. PICK j \in Jobs : server[j].state = "AWAITING_PAYMENT" /\ Row(j, Queued(server[j]))
      BY <1>0, <2>2 DEF Webhook, Confirmable
    <3>2. /\ Queued(server[j]) \in RowSet /\ Queued(server[j]).state = "QUEUED"
          /\ Queued(server[j]).order = server[j].order
      BY <1>0 DEF Queued, Servers, RowSet, JobStates
    <3> QED BY <3>1, <3>2 DEF Unpaid
  <2>3. ASSUME NEW i \in Jobs, Progress(i)
        PROVE  \E j \in Jobs, row \in RowSet :
                 /\ Row(j, row) /\ row.order = server[j].order /\ row.state \notin Unpaid
                 /\ server[j].state \notin {"NONE", "UPLOADED", "PRICED"}
    <3>1. PICK next \in {"PRINTING", "LOCKED", "REFUNDED", "COMPLETED"} :
            Row(i, [server[i] EXCEPT !.state = next]) /\ server[i].state \in {"QUEUED", "LOCKED", "PRINTING"}
      BY <2>3 DEF Progress
    <3>2. /\ [server[i] EXCEPT !.state = next] \in RowSet
          /\ [server[i] EXCEPT !.state = next].state = next
          /\ [server[i] EXCEPT !.state = next].order = server[i].order
      BY <1>0 DEF Servers, RowSet, JobStates
    <3> QED BY <3>1, <3>2 DEF Unpaid
  <2> QED BY <2>1, <2>2, <2>3
<1>2. /\ \A c \in calls : c.op \notin {"info", "create"} => c.job \in Jobs
      /\ \A c \in calls : c.order \in Nat
      /\ \A w \in windows \cup captured : w[1] \in Jobs /\ w[2] \in Nat
      /\ page.phase = "settings" => page.job \in Jobs
  BY Usual DEF CallOK, Call
<1>3. OffersAgree'
  <2>1. \A j \in Jobs, o \in Nat : Offered(j, o) => Offered(j, o)'
    BY <1>1 DEF Grows, Offered
  <2> QED BY <1>0, <1>2, <2>1 DEF PaidAgreed, OffersAgree, Offers
<1>4. KnownAgree'
  BY <1>0, <1>1, <1>2 DEF PaidAgreed, KnownAgree, Grows
<1>5. \A j \in Jobs : (OnSettings(j) /\ Standing(j))' => OnSettings(j) /\ Standing(j)
  BY <1>0, <1>1 DEF OnSettings, Standing
<1>6. ConfirmsAgree'
  <2>1. ASSUME NEW j \in Jobs, (OnSettings(j) /\ Standing(j))'
        PROVE  Paid(j)' \/ \E c \in calls : Confirms(c, j, server'[j].order)
    <3>1. Paid(j) \/ \E c \in calls : Confirms(c, j, server[j].order)
      BY <1>5, <2>1 DEF PaidAgreed, ConfirmsAgree
    <3>2. Paid(j) => Paid(j)'
      BY <1>1 DEF Grows
    <3>3. server'[j].order = server[j].order
      BY <1>1
    <3> QED BY <3>1, <3>2, <3>3
  <2> QED BY <1>0, <2>1 DEF ConfirmsAgree, Confirms
<1>7. ToldAgrees'
  BY <1>0, <1>5 DEF PaidAgreed, ToldAgrees, Tells
<1> QED BY <1>3, <1>4, <1>6, <1>7 DEF PaidAgreed

\* Every step keeps what is known of paid orders, if no confirmation is lost.
LEMMA NextPaid ==
  ASSUME "confirm" \notin Lossy, PageInv, PaidAgreed, [Next]_pageVars
  PROVE  PaidAgreed'
<1>1. CASE UNCHANGED pageVars
  <2>1. OffersAgree' /\ KnownAgree'
    BY <1>1 DEF pageVars, PaidAgreed, OffersAgree, KnownAgree, Offers, Offered, Started, Known
  <2>2. ConfirmsAgree' /\ ToldAgrees'
    BY <1>1 DEF pageVars, PaidAgreed, ConfirmsAgree, ToldAgrees, OnSettings, Standing, Paid,
                Confirms, Tells
  <2> QED BY <2>1, <2>2 DEF PaidAgreed
<1>2. CASE Customer
  BY <1>2, PaidOnSettings, PaidElsewhere DEF Customer
<1>3. ASSUME NEW c \in calls, Reply(c) PROVE PaidAgreed'
  <2>1. CASE ProcessReply(c)
    <3>1. c.op \in Uploads /\ (c.reply = "failed" => UploadFails(c))
      BY <2>1 DEF ProcessReply, Answered, Uploads
    <3> QED BY <2>1, <3>1, PaidProcessed, PaidElsewhere
  <2> QED BY <1>3, <2>1, PaidReplies, PaidElsewhere DEF Reply
<1> QED BY <1>1, <1>2, <1>3, PaidOnSettings, PaidElsewhere, PaidServed, PaidMoves DEF Next

\* If no confirmation is lost, a customer who has paid the standing order of the
\* job on the settings screen is not left there without an error, whatever the
\* webhook and the other replies do.
THEOREM PaidIsAcknowledged == "confirm" \notin Lossy /\ Spec => []PaidIsNotIgnored
<1>1. ASSUME "confirm" \notin Lossy PROVE Spec => []PaidIsNotIgnored
  <2>1. Init => PaidAgreed
    <3> SUFFICES ASSUME Init PROVE PaidAgreed
      OBVIOUS
    <3>1. /\ page.phase = "loading" /\ windows = {} /\ captured = {}
          /\ \A c \in calls : c.op = "info"
      BY DEF Init, FreshPage, Request
    <3> QED BY <3>1 DEF PaidAgreed, OffersAgree, KnownAgree, ConfirmsAgree, ToldAgrees, Offers,
                        OnSettings
  <2>2. PageInv /\ PaidAgreed /\ [Next]_pageVars => PaidAgreed'
    BY <1>1, NextPaid
  <2>3. PageInv /\ PaidAgreed => PaidIsNotIgnored
    <3> SUFFICES ASSUME PageInv, PaidAgreed, AtRest, page.phase = "settings", Standing(page.job)
                 PROVE  page.error
      BY DEF PaidIsNotIgnored
    <3>1. OnSettings(page.job) /\ page.job \in Jobs
      BY Usual DEF OnSettings
    <3> QED BY <3>1 DEF PaidAgreed, ToldAgrees, AtRest
  <2> QED BY <2>1, <2>2, <2>3, PageIsSound, PTL DEF Spec
<1> QED BY <1>1
==============================================================================
