# Verification of the print kiosk

A customer scans a QR code, uploads a document, pays, gets a four-digit code and
types it on a kiosk, where an agent prints the file.  The program is a NestJS API
(`apps/api`), a Python agent per kiosk (`agent/kiosk`) and two web front ends.
This directory holds TLA+ models of it, TLC configurations that check them on
small instances, and proofs checked by TLAPS for every instance.

- [The system](#the-system)
- [Modules](#modules)
- [How the models correspond to the code](#how-the-models-correspond-to-the-code)
- [Runs](#runs)
- [What the runs found](#what-the-runs-found)
- [Bounds](#bounds)
- [Fairness](#fairness)
- [Proofs](#proofs)
- [What is not modelled](#what-is-not-modelled)
- [Plan](#plan)

## The system

| Component | Code | State | Operations | What makes it correct |
|---|---|---|---|---|
| Intake | `jobs.service.ts` create … price, `local-storage.service.ts` | Job row, stored objects | `POST /jobs`, `PUT /file`, `POST /process`, `POST /price` | a paid job is not priced again; every stored object is named by a row |
| Checkout | `jobs.service.ts` pay … status, `razorpay.provider.ts`, `webhooks.controller.ts` | Payment row, code hash and expiry on the Job row, `pendingOtps` in memory | `pay`, `confirm`, webhook `payment.captured`, `markPaidAndQueue`, `status` | only captured money queues a job; one code per job, shown once, unique at its kiosk |
| Refunds | `refunds.service.ts`, `admin.controller.ts` | Payment status, Job state | `refundFailedJob`, webhook `refund.processed`, manual refund | REFUNDED means the money went back; captured money is spent or returned |
| Sweeps | `sweeps.service.ts`, `file-cleanup.service.ts` | Job state, file keys, stored objects | interval run: expiry sweep, leftover files | nobody waits for ever; files do not stay |
| Claims | `kiosk.gateway.ts`, `files.controller.ts` | Job state, hash, attempts; links | `job:claim`, `job:completed`, `job:failed`, download | nothing is released unpaid; a code is used once; printing ends |
| Kiosk presence | `kiosk.gateway.ts`, `admin.controller.ts` | Kiosk status, last seen, sheet counter | socket auth, disconnect, heartbeat, commands, refill | a paid job is announced; the status ends up true |
| Agent | `agent/kiosk/*.py` | list of waiting jobs, keypad buffer, display state, sheet counter | `job:queued`, keypad, claim, download, CUPS loop, heartbeat | every claim is reported; the keypad is served again; files are shredded |
| Alerts | `alerts.service.ts` | cooldown table | thresholds, daily summary | one message per cooldown; lasting trouble is told |
| Pricing, conversion | `packages/shared`, `image.util.ts`, `pdf/` | none | page ranges, price, crop window | what is priced is what is printed |
| Customer page | `apps/web/app/page.tsx`, its components | React state, requests in flight, timers | upload, settings, pricing, checkout, polling, reset, reload | price, code and outcome on the screen belong to the job and the settings on the screen |
| Admin console | `apps/admin`, `admin.controller.ts`, `admin.guard.ts` | React state of three pages, polls and presses in flight, session cookie | login, logout, load every ten seconds, commands, refill, manual refund | a button comes back with a page that knows of its command; pages end up true |

The parts meet in two tables (Job, Payment), one directory of stored files and one
Socket.IO namespace.  Handlers call each other directly inside the API process
(`pay` → `markPaidAndQueue` → `emitJobQueued`; `job:failed` and the sweep →
`refundFailedJob` → `purge`).  No handler uses a transaction or a conditional
update (one exception: `payment.updateMany` where the status is `created`), so what
a handler read before an `await` may be out of date when it writes.  That is where
the hard behaviour is: overlapping handlers, replayed webhooks, a restart between
two writes, refund calls that fail or whose answer is lost, agents that die, and
timers (30 minutes for a code, 60 for an upload) that race with all of it.
`PROJECT.json` lists each hazard at its line.

## Modules

| Module | Contents |
|---|---|
| `KioskData` | the state all handlers share: rows, storage, the provider's books, frames; `Init`, `TypeOK` |
| `Intake` | upload, processing, pricing |
| `Checkout` | payment, `markPaidAndQueue`, `status`; the customer's side of the provider |
| `Refunds` | refunds, purge, sweeps; the provider's side of a refund |
| `Claims` | claims, reports, the download; the agent as the API sees it |
| `PrintKiosk` | the composition with its environment and restarts; fairness; all properties |
| `MCPrintKiosk` | instances for TLC: one or two jobs at a kiosk |
| `PrintContract` | the abstract promise about orders, releases and refunds, which `PrintKiosk` implements |
| `MoneyProofs` | type correctness of `PrintKiosk`; the inductive invariant about money, two safety theorems, and the refinement: every step of `PrintKiosk` is a step of `PrintContract` or a stutter |
| `CodeProofs` | paid jobs: with mock payments codes are shown once; jobs are locked, codes final, claims over and captures booked for good once the handlers that overlapped are gone |
| `KioskRow` | the kiosk's row and what each of its writers stores |
| `KioskPresence`, `MCKioskPresence` | the connections of an agent: `authenticate`, catch-up, delayed OFFLINE, heartbeats, commands; extends `KioskRow` |
| `Alerts`, `MCAlerts` | overlapping evaluations with their cooldown table, over a row that beats, refills and prints change; extends `KioskRow` |
| `KioskAgent`, `MCKioskAgent` | the agent's keypad thread beside the events of its connection |
| `Pricing` | page ranges and prices; what the agent hands to CUPS and counts |
| `CropWindow` | the window the server cuts out of a photo; the frame the page shows |
| `SettingsPanel`, `MCSettingsPanel` | the controls of the settings screen over `Pricing` and `CropWindow` |
| `CustomerPage`, `MCCustomerPage` | the page: phases, effects, requests and replies |
| `AdminConsole`, `MCAdminConsole` | the administrator's pages with their polls, buttons and session, over the handlers they call; extends `KioskRow` |
| `AgentProofs` | the agent's shredding and its screen, for any jobs and troubles |
| `AlertsProofs` | the rate limit of alerts, for any number of evaluations |
| `PageProofs` | what the page shows, for any jobs, requests, changes and losses |
| `ConsoleProofs` | what the console's buttons promise, for any presses, loads, visits and failures |
| `PresenceProofs` | no announcement is missed, for any number of connections |
| `PanelProofs` | pricing, paper and crop theorems, for every upload and all rates |

Each of `KioskPresence`, `KioskAgent` and `CustomerPage` has the API as that
component sees it: a job is `queued` when `markPaidAndQueue` stores it and leaves
when it is claimed or swept.  `PrintKiosk` has the inside of these steps, so that
no module repeats another one's interleavings; what one of them takes for granted
(a code that is issued, a claim that is granted or refused) is a guard or an
action of another.

Definitions marked "Mutant" in a comment are not part of the specification.  Each
is a plausible mistake in the definition that follows it; exchanging the two makes
TLC find the property violated that `PROJECT.json` pairs them with.

## How the models correspond to the code

**A handler is a frame.**  Node runs a handler without interruption from one
`await` to the next.  `call[r]` holds the request in flight in slot `r`: its
operation `op`, the awaited operation `pc` it performs next, and the local
variables it read earlier (`held` keys, price or attempt count `n`, code, order).
Each action is one awaited operation with the synchronous code that follows it.  A
decision that depends only on the row that was read is taken in the step that
reads it; `status()` looks at memory after its read, so its lookup (`Reveal`) is a
step of its own, and atomic with the removal, as in the code.

**A request that a guard rejects is not a step**: it changes nothing and answers
with an error.  A job claimed from the wrong kiosk is one of these.

**`refundFailedJob` and `purge` are called from several handlers.**  They are
entered with the caller's frame; `AfterRefund` and `AfterPurge` say where each
caller goes on.

**The provider is external.**  `ledger` is what Razorpay knows of each order:
created, offered to the customer, captured, refund pending, refunded.  A payment
id is identified with its order.  A valid signature or webhook exists exactly for
what the ledger says; webhooks come at any time afterwards, in any order, any
number of times or (in safety runs) never.  The customer can pay any checkout that
was ever opened, since the page of a superseded order may still be open.
In mock mode the payment is captured when `pay()` writes its row.

**Abstractions.**  `price` stands for the settings together with their total.
bcrypt hashes are the codes themselves.  `late[j]` is "otpExpiresAt has passed",
`aged[j]` is "created more than an hour ago".  The two deletions of `purge` are one
step, the key read and the object read of a download are one step.  Link tokens do
not expire.  A database call does not fail by itself (storage, conversion and
provider calls do).  The state PAID is in the schema but nothing writes it.
`RefundCall` asks for the whole payment, as the code does; partial refunds, or refunds made at
Razorpay's dashboard, are not told apart from it.

**The page** (`CustomerPage`).  A React render with the effects that follow it is one
step: `Render(p, S)` compares the dependencies of both effects before and after.
`armed` is the 320 ms timer; a request carries `live`, which stands for
`seq === priceSeq.current` in pricing and for `!cancelled` in polling.  A reply is a
step of its own, at any time and in any order; one that is lost becomes a failure,
as `fetch` rejects; requests are a set, so that two equal payment requests of a double tap
are one.  `pay()` compares amounts, and other settings may cost the same: `ServePay` gives the
standing order to equal settings, and that or a new one to others.  A code is named by its job.
The job's state at the API moves
by itself (`Progress`), as the kiosk and the sweep move it.

**The settings screen** (`SettingsPanel`) works in twentieths of zoom and offset, which
is the step of the slider; lengths that JavaScript computes as floating point
numbers are integers over a common denominator.

**Presence** (`KioskPresence`).  `conn[c].phase` is where `authenticate` is; `room` says
that `client.join` took effect; `timer` is what `handleDisconnect` left behind,
`never` if there was no `kioskId` yet.  `wire` holds messages by connection, so a
message to a socket that closes is lost with it.

**The agent** (`KioskAgent`).  `kp.pc` is where the keypad's thread is between two
calls that another thread can observe.  `emit` raises when the connection is down,
which ends the thread after the `finally` clause (`end = "raised"`), or at once
before the `try` (`DownloadFails`, `Submit`).  So does whatever else is no `PrintFailure`:
`print_file` connects to CUPS before its own `try` (`CupsIsDown`, `printer.py:165`).
`urlretrieve` has no time-out, so that `Downloaded` may never come.  Keys typed while the thread works stay
in the device and are typed afterwards.

**The console** (`AdminConsole`).  Its three pages share one `load`.  A load in flight is a slot of
`loads`, answered with what the API read and with the presses it had carried out by
then (`after`, history); its answers arrive in any order.  `click` holds the presses: `by` of a
load names the press whose handler awaits it, `mine` says that the press was made on the
page that is open.  Going to another page, or a reload, starts with a new state
and one load.  The answers to loads of a page that was left are ignored; its commands still
have their effect, and an answer 401 to one of them still leads to the login page, as they
do after the login page was opened (a full navigation would end the old page's handlers:
the model has more behaviours there than the browser).
`AdminGuard` judges a request by the cookie it was sent with.  A refund is two
steps, the read of the payment and the provider's call with the writes after it; the steps
between these are in `Refunds`.

**Alerts.**  `cooling` is the set of keys whose time in `lastSentAt` is within the
cooldown; `posts` and `told` are history: messages sent, and arrived, since a key last
cooled down.

## Runs

All passing runs but `Page`, `Presence` and `Agent` check for deadlock as well.  In those
three the system may stop: a customer who has reached an error screen may do nothing
more, an agent may be switched off, and its keypad thread may have ended.

`KeepsContract` is the refinement.  `PrintKiosk` instantiates `PrintContract` with a
mapping of its state: `held` and `returned` are the orders of each job that the
provider's books have as captured (or being refunded) and as refunded, `out` the jobs
whose file an agent has received, `told` the jobs in state REFUNDED.  `PrintingEnds` says
of itself what it takes for granted: that agents report (`AgentFairness`).

| Run | Instance | Properties |
|---|---|---|
| `Serial` | one job (photo), all operations and failures, two prices, orders and codes, one request at a time | `TypeOK`, `WaitingIsBooked` |
| `OverlapMock` | one DOCX from the empty table, mock payments, two requests in flight, a restart | `CodeShownOnce`, `PaymentLocks` |
| `Collected` | one job, two requests in flight, working agents; liveness | `NothingReleasedUnpaid`, `BooksAgree`, `CollectedOrRefunded`, `CodeIsFinal`, `NoLateClaim`, `CaptureIsKept` |
| `TwoJobs` | two jobs with an order each and the same code, failing prints, sweeps; liveness, refinement | `NobodyWaitsForEver`, `PrintingEnds`, `CapturedMoneyIsAccountedFor`, `KeepsContract` |
| `FilesGone` | one PDF, a restart at any await, refund calls that fail or lose their answer; liveness | `RefundedMeansMoneyBack`, `FilesDeleted` |
| `Panel` | documents of 1 to 4 pages with ranges of two parts, photos of seven shapes, five zooms | `PanelIsNeverRefused`, `PricedAsPrinted`, `PaperIsNeverUnderestimated`, `CropIsInsideAndUndistorted`, `FrameIsTrueFor4x6` |
| `Page` | a document, then a photo that may be unreadable; Razorpay, lost replies, a reload; liveness | `PriceIsForTheseSettings`, `ScreenIsOwn`, `PaidIsNotIgnored`, `CodeStaysOnScreen`, `CodeArrives`, `OutcomeArrives` |
| `Presence` | one job, two connections, a restart of the API, a command; liveness | `NoJobIsMissed`, `QueuedIsHeard`, `ConnectedEndsOnline`, `GoneEndsOffline` |
| `Alerts` | three alerts, two evaluations at a time, a restart; liveness | `OncePerCooldown`, `TroubleIsTold` |
| `Agent` | two jobs, two troubles (cut, restart, failed download, CUPS down, late answer), a command; liveness | `FilesAreShredded`, `WaitingIsAsked`, `PrintingIsReported`, `KeypadComesBack` |
| `Console` | a press, and a page gone to or a failure, among two loads; Razorpay; liveness | `EndsWithLook`, `EndsTrue`, `ConsoleComesBack` |

The type invariants of the other modules are theorems (see [Proofs](#proofs)) and not checked
again.

`Serial` says what the handlers promise one after the other; `OverlapMock` and
`Collected` say what survives when they interleave.  Since no handler locks a row, one that
read it before a payment, a claim or a confirmation may write after it, which
breaks "a paid job stays paid", "one code per job" and "one claim gets the file" (next section).  What does survive is that
these windows close: `PaymentLocks`, `CodeIsFinal`, `NoLateClaim` and `CaptureIsKept` are about every
job at which no handler is left that began in time (`Preparing`, `Rolling` and `Publishing`,
`Taking`, `Paying` are its places), and say that from then on neither new requests, in any
number and order, nor restarts can undo the payment, issue another code, hand out the file
again or lose the order that was paid.

## What the runs found

`ClaimedTwice` checks what a comment says of `onClaim` ("Single-use: clear the hash and
move to PRINTING before handing out the file", `kiosk.gateway.ts:173`) with two
requests in flight, and TLC finds it violated: two claims read QUEUED before either
writes PRINTING, and both get a link.

**Known limits.**  TLC shows more when a line or two of a passing configuration
change.  They have no configuration of their own, and the bounds below keep the
passing runs clear of them.

- `Collected` with two codes and no `InFlight(Rolling, j)` in `Coded`: confirmation and webhook
  both pass the state check of `markPaidAndQueue` (`jobs.service.ts:266`), and the second one
  replaces the code, which the customer may have read.
- `TwoJobs` with `RefundOutcomes = {"ok", "error"}`: a refund call fails in the sweep, the
  job becomes EXPIRED, and no later sweep looks at it, although the log says "will
  retry on next sweep" (`refunds.service.ts:54`).
- `TwoJobs` with `loseAgent` in `Ops`: an agent dies while it prints, and the job stays
  PRINTING; the specification expects "automatic refund and correct states"
  (`PRINT_KIOSK_SPEC.md:282`).
- `Collected` with `age` in `Ops`: the leftover sweep takes the file of a job that is
  being paid, or waits (`sweeps.service.ts:76`); the claim ends in PRINTING without a file, and no
  refund follows.
- `Panel` with `PrintedAsFramed` instead of `FrameIsTrueFor4x6`: a photo that is not 3:2 is
  centred by the frame and moved by the whole slack on the server, so that the print
  shows another part than the frame, not "exactly as framed" (`PhotoSettings.tsx:76`).
- `TwoJobs` with `MaxRestarts = 1` (`jobs.service.ts:299`): after a restart between
  the write of QUEUED and that of the capture, the sweep finds nothing to refund.
- `TwoJobs` with one job, `price` and a second price (`jobs.service.ts:247`): the customer
  pays the checkout of a superseded order, which no payment row names, and nobody
  refunds it.  If the old checkout is paid before the next `pay()`, the job is
  queued at its new settings for the old amount (`jobs.service.ts:252`).
- `FilesGone` with a photo (`jobs.service.ts:177`): after a restart between
  `saveArtifact` and the write of `printKey`, no row names the sheet.
- `OverlapMock` without `InFlight(Preparing, j)` in `Locked`: `process()` writes PRICED over the
  FAILED of another one, and a payment that lands between the check and the write of
  `price()` leaves a paid job in AWAITING_PAYMENT (`jobs.service.ts:184`).
- Two jobs queued at once both look for collisions before either writes its code
  (`jobs.service.ts:283`); `onClaim` then takes the older job.
- `Page` with `confirm` in `Lossy`: when the confirmation itself is lost, another tap on Pay
  (`page.tsx:248`) or a change of settings (`page.tsx:154`) clears the message, and the
  page offers the same order again to a customer who has paid it (`PaidIsNotIgnored`).
- The expiry sweep writes EXPIRED over the FAILED of `refundFailedJob`, and
  `markRefundProcessed` finalises only FAILED and REFUNDED jobs: the payment ends as
  refunded, the job as EXPIRED (`refunds.service.ts:64`).

The following were met while the models were written, and the properties are worded
so that they say what does hold.

- Page: two price requests may be served in the order opposite to the one they were
  sent in.  The screen shows the price of the last one, the API charges and prints the
  other (`page.tsx:167`).  Within the 320 ms of the timer, the button still pays the
  price before the last change.  `reset` leaves `priceSeq` alone.
- Page: when the webhook is first, the confirmation is refused with 409
  (`jobs.service.ts:242`) and the customer, who has paid, sees an error on the settings
  screen; only a reload leads to the code.
- Page: a reload with a job in the address always goes to the waiting screen, also for a
  job that is not paid (`page.tsx:133`), which has no way out of that screen.  A code
  whose reply is lost, or that a page showed before a reload, is not shown again.
- Presence: a restart of the API, or a connection cut before its `kioskId` is set, leaves
  the kiosk ONLINE.
- Refunds: `refundFailedJob` returns false for a refund that Razorpay has accepted
  (`refunds.service.ts:52`), as it is not final yet; `manualRefund` then answers "Job has no captured
  payment to refund" (`admin.controller.ts:259`).  The administrator sees an error for a refund
  that is on its way, until the next poll takes the error away.
- Maintenance: the comment on `maintenance_off` says "agent heartbeat restores ONLINE"
  (`admin.controller.ts:197`), but a heartbeat writes ONLINE at any time
  (`kiosk.gateway.ts:235`).  After at most 30 seconds the row is ONLINE while the kiosk
  still shows its maintenance screen, and the console's toggle, which goes by the row,
  sends `maintenance_on` again and never `maintenance_off`.
- Console: loads carry no sequence number (`kiosks/[id]/page.tsx:38`), so a slow poll can put
  an old status back on the page for up to ten seconds; `EndsWithLook` is about the moment at
  which a button is released.  One flag serves all buttons: the end of one command
  releases another's button (`OneAtATime` is about the use of one).  The Refund
  button has no flag at all.
- Consumables: the next heartbeat undoes a refill with the agent's own count
  (`printer.py:148`), which a restart of the agent forgets.  Ink levels are read once and
  then cached for ever (`printer.py:75`).
- Agent: a code typed while the connection is down ends the keypad's thread, although
  offline kiosks are to "NEVER accept OTPs" (`main.py:129`); a failed download does, too
  (`keypad.py:85`).  Only a restart brings the keypad back.
- Agent: if CUPS is down when a print is submitted, the file is shredded, but the error
  (`printer.py:165`) is no `PrintFailure`: no `job:failed` is sent, the customer gets no refund,
  the job stays PRINTING and the keypad's thread ends.  A download whose connection goes
  silent (`jobs.py:122`) holds the keypad for ever, without an error.
- Agent: an answer after ten seconds, a lost report, or a restart while printing leaves
  the job PRINTING.  A print that CUPS aborted is reported as completed, since `job-state`
  is a number (`printer.py:213`).
- Agent: after a print the screen is chosen while the printed job is still in the list
  (`jobs.py:111` before `main.py:67`), so it asks for a code that nobody has; jobs that
  expire, or fail to print, stay in the list until a restart.  `maintenance_off` shows the
  QR code even if jobs wait.
- Updater: `cp -r` of a directory onto an existing one (`updater.py:80`) copies into it.

## Bounds

- `Slots`: one or two requests in flight.  Two are enough for every race found;
  three handlers on one job were not run.
- `Jobs`: one, or two where jobs can be confused (codes, orders, sweep order).
- `Orders`: as many as the run can use; `CreateOrder` fails when none is left, as it
  may at any time.
- `MaxAttempts` is 2 for the code's 5 and `RerollTries` 1 for its 5: both are only
  compared.
- `MaxRuns`: claims are not typed while agents hold that many runs of a job: 1, or
  2 where a second run is the question.
- `MaxRestarts`: 0 or 1.
- `StartState` skips the intake where the run is about what follows it.
- `RefundOutcomes`: failing and lost refund calls are in `Serial` (failing) and `FilesGone`; for
  overlapping requests they are covered by the theorems.
- `Collected` has one code (with two it takes almost ten times as long): that a code is
  replaced shows in a handler that is about to write one.
- `Ops` leaves out of a run what its question does not need.  Omissions that a
  result depends on: `Collected` and `TwoJobs` have no `age`
  (known limits), no second price, no restart and no failing refund call; `FilesGone` prints a PDF, which stores no second object, and
  its deletions succeed; `TwoJobs` has no dying agent.
- `Elapse` waits while a handler is between writing a code and publishing it: half
  an hour is longer than two awaits.
- One sweep at a time: the interval is five minutes.
- `Page`: `MaxCalls = 2` lets two replies of any kind overtake each other; one change of
  settings, one reload and one order are each enough for a stale reply, and a
  second job is there for replies that outlive a reset.
  `Lossy` leaves out `confirm` (known limits).
- `Presence`: two connections are what a delayed OFFLINE write and a reconnection need.
  While no spare connection is left, the last one lasts until the agent is switched
  off.  The two seconds of the timer are taken to be longer than what the socket's own
  handlers have still to do (`LookForOthers` waits for them).
- `Agent`: `MaxTroubles = 2` covers a trouble during another one's recovery; two jobs let
  one wait while the other prints.
- `Console`: `MaxLoads = 2` lets two loads overtake each other; a third poll waits for
  a slot.  `MaxClicks = 1` and `MaxEvents = 1`: any page may be the first, and a press
  overlaps polls of its page, or a page gone to while it is under way, or a failure.  Two
  presses have forty-five times the states, too many for the liveness properties; `OneAtATime`,
  which needs two presses, is a theorem and in no run (with `MaxClicks = 2` TLC finds it
  true in 4.9 million states).
- `Alerts`: a message takes less time than the cooldown (`CoolDown` waits for it).
- `Panel`: four pages make every odd and even selection; the theorems of `PanelProofs`
  have no bound.

## Fairness

`FairSpec` assumes that a started handler goes on (event loop and database), that
the interval timer keeps firing, that half an hour passes, that the provider pays
accepted refunds back and repeats `payment.captured` as long as the job waits for its
payment; `refund.processed` may be lost.  Fairness of
arrivals is strong only because the bound on `Slots` can make a free slot come and
go; the code has no such bound.  Customers and administrators owe nothing.
`AgentFairSpec` adds agents that use their link and report how the print ended;
`LoseAgent` takes them away.

The page's fairness is the browser's: the polling interval fires, requests are served
and their replies, or failures, arrive.  In `KioskPresence` both ends notice at some
time that a connection has gone, the client reconnects for as long as it runs
(`retry=True`, `reconnection=True`), and heartbeats repeat.  In `KioskAgent` threads run, calls to
CUPS return, and the printer either ends its job or gets stuck; nothing is assumed of
downloads, which have no time-out (`Downloaded` has no fairness, and `KeypadComesBack` excepts
them).  In `Alerts` the interval fires and a
message that is tried again and again arrives at some time; that is the network's
promise, not the code's.  In `AdminConsole` the interval fires, and requests come back, if only
as failures; fairness of what follows an answer is strong only because `MaxLoads`
can make a free slot come and go, and it is owed to the page that is open alone.
Administrators, customers and field staff owe nothing in any
of them.

## Proofs

TLAPS checks every step.  Nothing is assumed but the ASSUMEs that the modules name,
which say what kind of value each constant is and which TLC evaluates in the runs:
`ConstantsAssumption` (API), `PricingAssumption` and `PanelAssumption` (settings),
`AgentAssumption`, `RowAssumption`, `AlertsAssumption`, `PresenceAssumption`, `ConsoleAssumption` and
`PageAssumption`.

### The API

The theorems hold for any sets of jobs, kiosks, orders, codes and slots, both payment
modes, all failure outcomes and any `Ops`.

- `TypeCorrectness` (`MoneyProofs`): `Spec => []TypeOK`.  `TypeOK` is inductive as
  it stands because `Frame` says that a request past its first await names a job,
  so every write goes to an existing row.
- `BooksAlwaysAgree` (`MoneyProofs`): `Spec => []BooksAgree`.
- `ReleaseIsPaid`: `Spec => []NothingReleasedUnpaid`.
- `RefundIsReal`: `Spec => []RefundedMeansMoneyBack`.

Neither of the last two is inductive.  A claim hands out a link because of a row it
read several awaits ago; the row says QUEUED because of a signature checked before
that.  `BooksAgree` states what each stage relies on: `FrameSafe` for handlers in
flight, by program counter; `RegisterSafe` for orders that the provider has
registered and `pay()` has not yet written down (no two handlers hold the same
one); `PaymentSafe` and `JobSafe` for the rows.  All of these are facts about the
provider's books, and the books only grow (`Grows`: an order keeps its job,
settled money stays settled, a refund is final).  Hence stale reads do no harm
here: `FrameStays`, `PaymentStays` and `JobStays` say that what was true of the
books when it was read is still true.  The remaining work is one lemma per group of
actions, each of which either leaves the books alone or makes them grow.  The
properties that overlapping handlers break are exactly those that depend on
something which does not grow: the state of a row.

- `CodeIsShownOnce` (`CodeProofs`): `Mock /\ Spec => []CodeShownOnce`.  The payment row is the
  turnstile, since of all overlapping `pay()` calls one creates it.  From then on the
  code is in one place at a time (`OnePlace`): with one handler of `markPaidAndQueue` or
  `status`, in memory, on the phone, or lost.  This holds although every handler on the way acts
  on a row it read earlier.  With Razorpay it fails: two overlapping confirmations issue two codes.
- `ContractIsKept` (`MoneyProofs`): `Spec => KeepsContract`, the refinement.  The contract
  moves in three places only: where the provider's books change, one order at a time
  (`TakeStep`, `GiveBackStep`, `QuietOrder`); where an agent downloads
  (`DownloadContract`); and where a handler writes one job's row (`RowStep`).  For the
  first, the books are enough.  For the other two, `BooksAgree` says that the order which
  the contract asks for is there.

Four more are about paid jobs, with any slots, restarts, refund outcomes and both payment modes:

- `PaidJobsAreLocked`: `Spec => PaymentLocks`.
- `OneCodePerJob`: `Spec => CodeIsFinal`.
- `NoClaimComesLate`: `Spec => NoLateClaim`.
- `BookingsLast`: `Spec => CaptureIsKept`.

Here the state of rows is the subject, and it does not grow.  The argument is that a
handler looks at the row when it arrives.  `FramesOn` says of a step that it brings a handler of
job `j` to a place where it would write only if the handler was at such a place before, or the row
still allows it; `RowsOn`, `DisksOn`, `BooksOn`, `CodesOn` and `RunsOn` say that the row, storage, the
payment, the digits and the links change only from those places.  There is one lemma per group of actions
(`IntakeInTime`, `CheckoutInTime`, `ClaimInTime`, `RefundInTime` and so on), and `PromisesKept` puts
them together: if nobody is at such a place and the row does not allow it, nobody ever is.  A
restart leaves no handler at all.  No inductive invariant but `TypeOK` is needed.

### The settings

For documents of any length, any page ranges and rates, and images of any size
(`PanelProofs`):

- `PanelTypes`: `Spec => []TypeOK`.
- `PanelRequestsPass`: `Spec => []PanelIsNeverRefused`.
- `PricesMatchPrints`: `Spec => []PricedAsPrinted`.  The server counts sheets from the sides,
  the printer from the pages it is given; both are the same number because the range that
  reaches CUPS selects the pages that were counted.
- `PaperCountIsSafe`: `Spec => []PaperIsNeverUnderestimated`, as a part of a document has no
  more pages than the document.
- `CropsAreSound`: `Spec => []CropIsInsideAndUndistorted`, by arithmetic on the rounded
  window.
- `FrameShowsThePrint`: `Spec => []FrameIsTrueFor4x6`: for a photo of the printer's shape the frame
  and the window have the same slack (`EdgeIsTrue`), up to rounding.

These follow from the types alone, which is why the bounds of `Panel` do not matter.

### The agent

For any jobs, number of troubles and commands (`AgentProofs`):

- `AgentTypes`: `AgentSpec => []TypeOK`.
- `NoFileIsLeft`: `AgentSpec => []FilesAreShredded`.  Alone it is not inductive: a run might
  begin while another one's file is left.  `ClaimsAgree` says that at most one claim is waited
  for, and only while the thread waits; `FilesAgree` what tmpfs holds at each place of
  the thread.
- `CodeIsAskedFor`: `AgentSpec => []WaitingIsAsked`.  A screen that asks goes on asking while its
  job waits (`AskingStays`), and is chosen anew whenever the thread comes to rest.

### Alerts

For any number of overlapping evaluations and any list of checks (`AlertsProofs`):

- `AlertsTypes`: `AlertsSpec => []TypeOK`.
- `AlertsAreLimited`: `AlertsSpec => []OncePerCooldown`.  A key is noted in the step that decides to
  send, so a message on its way (`EvalsAgree`), or counted (`PostsAgree`), belongs to a key
  that cools down.

### The page

For any jobs, orders, requests in flight, changes of settings and reloads, both payment
modes and any set of requests whose replies may be lost (`PageProofs`):

- `PageTypes`, `PriceIsShownTruly`, `ScreenShowsItsJob`: `Spec =>` always `TypeOK`,
  `PriceIsForTheseSettings`, `ScreenIsOwn`.
- `CodeStays`: `Spec => CodeStaysOnScreen`.
- `PaidIsAcknowledged`: `"confirm" \notin Lossy /\ Spec => []PaidIsNotIgnored` (with a lost
  confirmation it is false: known limits).

The page recognises a stale reply by very little (`live`), so the invariant `PageInv` says
of each kind of request why that is enough.  `BootAgrees` and `UploadAgrees`: there is one
chain of requests at a time, and no button starts a second one.  `CheckoutAgrees`: a
checkout is that of the job on the settings screen, or its job is paid.  `WaitingAgrees`:
the polls of a screen that was left are dead.  `PricesAgree`: a price request that is
live asks for the settings on the screen, unless the timer is armed for another one.

`PaidIsNotIgnored` needs more: `PaidAgreed`.  `OffersAgree`: checkouts speak of orders their job was
offered, so a new order has not been paid yet.  `ConfirmsAgree`: if the standing order was
paid, the job is paid or the confirmation is still on its way.  `ToldAgrees`: there is an
error, or the timer runs, or a confirmation, a price or a payment request is in flight that
will not be granted in silence, because a price or an order is given only to a job that is not
paid.  The second is what makes the third inductive.

### Presence

For any number of connections, jobs, restarts and commands (`PresenceProofs`):

- `PresenceTypes`: `PresenceSpec => []TypeOK`.
- `NoJobFallsBetween`: `PresenceSpec => []NoJobIsMissed`.  `authenticate` joins the room before it
  looks for waiting jobs (`RoomAgrees`), so a job is stored before the lookup and is
  in its result, or is announced to a room that the connection is in (`CatchUpAgrees`).

### The console

For any number of presses, loads under way, pages gone to and failures, and both kinds of
refunds (`ConsoleProofs`):

- `ConsoleTypes`: `ConsoleSpec => []TypeOK`.
- `ButtonsKeepApart`: `ConsoleSpec => []OneAtATime`.  Inductive is `BusyAgrees`: while one button is
  used, the flag is that button's as long as its press is pending.
- `CommandsEndWithLook`: `ConsoleSpec => EndsWithLook`.  A load that a press waits for is sent
  after the API has answered the press, and belongs to no other press (`LoadsAgree`), so that
  its answer was read afterwards; polls that overtake it may change what is shown before,
  not in the step that releases the button.

### Only model-checked

All liveness properties: fairness and ENABLED are out of the prover's reach.  Every
invariant and every safety property that a passing run checks is also a theorem, but
`WaitingIsBooked`: it is about one request at a time, which the server does not guarantee, so that
a theorem would say no more than the run.  `SingleUse` is checked by `ClaimedTwice` alone, which
violates it.  `OneAtATime`, and the type invariants but that of `PrintKiosk`, are theorems only.

## What is not modelled

- The figures of the dashboard (sums over payments and jobs) and the CRUD of kiosks and pricing
  profiles: each request reads, or writes one row, and nothing is interleaved.  Passwords and
  the signature of the session cookie.
- The updater's download, digest, signature and copying: I/O.  An update is a restart of
  the agent at any moment.
- The simulator and the scripts: test tools.
- The alert about failure rates and the daily summary: they count job rows, and use the
  same `send()`.
- The log of `ConsumableEvent` rows, which nothing reads back; the rotation of a secret.
- The HMAC and the ten-minute expiry of links.
- The grid of a passport sheet, pixels and PDF pages; sharp, poppler and LibreOffice are
  operations that succeed or fail.
- Failures of database calls: no handler catches them, so a handler that one ends stops where
  a restart would stop it.
- Texts, layout and languages.

## Plan

In the order in which the modules were written:

1. `KioskData`, `Intake`, `Checkout`, `Refunds`, `Claims`, `PrintKiosk`, `MoneyProofs`,
   `CodeProofs`.
2. `PrintContract` and its refinement, checked in `TwoJobs`, proved in `MoneyProofs`.
3. `KioskRow`, `KioskPresence`, `PresenceProofs`, `Alerts`, `AlertsProofs`.
4. `KioskAgent`, `AgentProofs`.
5. `Pricing`, `CropWindow`, `SettingsPanel`, `PanelProofs`.
6. `CustomerPage`, `PageProofs`.
7. `AdminConsole`, `ConsoleProofs`.

Left: a composition of `KioskAgent` with `Claims` in place of the API it assumes.
