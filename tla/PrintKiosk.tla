------------------------------ MODULE PrintKiosk ------------------------------
(***************************************************************************)
(* The print kiosk's API with its environment: intake, checkout, claims,   *)
(* refunds and sweeps interleave over the shared tables, and the process   *)
(* may restart.                                                            *)
(***************************************************************************)
EXTENDS Intake, Checkout, Claims, Refunds

\* The process dies: requests in flight and the codes in memory are lost.
Restart ==
  /\ restarts < MaxRestarts
  /\ restarts' = restarts + 1
  /\ call' = [r \in Slots |-> IdleFrame]
  /\ pendingOtps' = [j \in Jobs |-> NoCode]
  /\ UNCHANGED <<job, pay, disk, ledger, phone, late, aged, agent>>

\* The next awaited operation of the request in flight in slot r.
Step(r) == IntakeStep(r) \/ CheckoutStep(r) \/ ClaimStep(r) \/ RefundStep(r)

\* A request or event arrives and takes the free slot r.
Start(r) == IntakeStart(r) \/ CheckoutStart(r) \/ ClaimStart(r) \/ RefundStart(r)

Environment ==
  \/ \E j \in Jobs : Create(j) \/ Elapse(j) \/ Age(j) \/ LoseAgent(j)
  \/ \E j \in Jobs, w \in Files : Download(j, w)
  \/ \E o \in Orders : Capture(o) \/ ProviderRefunds(o)

Next ==
  \/ \E r \in Slots : Start(r) \/ Step(r)
  \/ Environment
  \/ Restart

Spec == Init /\ [][Next]_vars

(***************************************************************************)
(* Fairness.  The event loop and the database make every started handler   *)
(* go on; the interval timer fires for ever; half an hour passes; the      *)
(* provider pays accepted refunds back and repeats payment.captured as     *)
(* long as the job waits for its payment; refund.processed may be lost.    *)
(* Strong fairness of an arrival only says that it is not kept waiting by  *)
(* the bound on Slots, which the code does not have.                       *)
(* Nothing is assumed of customers, administrators and agents.             *)
(***************************************************************************)
Fairness ==
  /\ \A r \in Slots : WF_vars(Step(r))
  /\ SF_vars(\E r \in Slots : StartSweep(r))
  /\ \A j \in Jobs : /\ WF_vars(Elapse(j))
                     /\ SF_vars(/\ job[j].state = "AWAITING_PAYMENT"
                                /\ \E r \in Slots : StartCaptured(r, j))
  /\ \A o \in Orders : WF_vars(ProviderRefunds(o))

FairSpec == Spec /\ Fairness

\* Agents that use the link they were given and report how the print ended,
\* unless LoseAgent takes them away.
AgentFairness ==
  \A j \in Jobs :
    /\ \A w \in Files : WF_vars(Download(j, w))
    /\ SF_vars(\E r \in Slots : StartCompleted(r, j) \/ StartFailed(r, j))

AgentFairSpec == FairSpec /\ AgentFairness

------------------------------------------------------------------------------
(***************************************************************************)
(* Safety, for any number of requests in flight.                           *)
(***************************************************************************)

\* No agent obtains a customer's file unless the provider holds, or has held,
\* money for that job.  Every path to a download is covered: both ways to
\* confirm a payment, claims by id and by code, and what handlers in between
\* do with rows they read before others changed them.
NothingReleasedUnpaid == \A j \in Jobs : released[j] => Paid(j)

\* A job that says REFUNDED has had money returned by the provider: neither
\* refundFailedJob nor refund.processed reports a refund that did not happen.
RefundedMeansMoneyBack == \A j \in Jobs : job[j].state = "REFUNDED" => MoneyBack(j)

\* The kiosk's tables, the provider's books and the handlers in flight agree at
\* every await: a handler that goes on as if a payment or a refund had happened
\* is never ahead of the provider, whatever was read before.  (The inductive
\* invariant behind the two properties above.)
FrameSafe(L, f) ==
  /\ f.pc \in {"mark", "roll", "queue", "capture", "refundCall"}
       => SettledIn(L, f.job, f.ord)
  /\ f.pc = "verify" => f.ord \in Orders /\ L[f.ord].status \in Settled
  /\ f.pc \in {"take", "handOver"} => PaidIn(L, f.job)
  /\ \/ f.pc \in {"refundFinal", "settleRead", "settlePayment", "settleJob"}
     \/ f.pc = "refundSave" /\ FinalRefund
     => MoneyBackIn(L, f.job)

\* A fresh order that pay() has yet to write to the payment row.
Registers(f, o)   == f.pc = "savePayment" /\ f.ord = o
RegisterSafe(L, C) ==
  \A o \in Orders, r \in Slots : Registers(C[r], o) =>
    /\ L[o].job = C[r].job /\ L[o].status = "created"
    /\ \A s \in Slots : Registers(C[s], o) => s = r

PaymentSafe(L, p, j) ==
  /\ p.order # NoOrder => L[p.order].job = j /\ L[p.order].status # "unused"
  /\ p.payId # NoOrder => SettledIn(L, j, p.payId)
  /\ p.status = "captured" => p.payId # NoOrder

JobSafe(L, j, state, link, out) ==
  /\ state = "QUEUED" => PaidIn(L, j)
  /\ state = "REFUNDED" => MoneyBackIn(L, j)
  /\ out \/ (\E w \in Files : link[w] > 0) => PaidIn(L, j)

BooksAgree ==
  /\ \A r \in Slots : FrameSafe(ledger, call[r])
  /\ RegisterSafe(ledger, call)
  /\ \A j \in Jobs : /\ PaymentSafe(ledger, pay[j], j)
                     /\ JobSafe(ledger, j, job[j].state, links[j], released[j])

\* status() hands out the digits of an issued code once: while they are in
\* memory nobody has been shown them, and no two polls of the page both have
\* them, although the lookup and the write of otpShownAt are apart.  (In mock
\* mode, where no second capture can issue another code.)
Showing(j) == {r \in Slots : call[r].pc = "saveShown" /\ call[r].job = j}
CodeShownOnce ==
  \A j \in Jobs :
    /\ pendingOtps[j] # NoCode => phone[j] = NoCode /\ Showing(j) = {}
    /\ Cardinality(Showing(j)) <= 1

------------------------------------------------------------------------------
(***************************************************************************)
(* The contract behind these invariants, step by step: the provider's      *)
(* books, the downloads and the job states implement PrintContract.        *)
(***************************************************************************)
OrdersOf(L, j, statuses) == {o \in Orders : L[o].job = j /\ L[o].status \in statuses}

Contract == INSTANCE PrintContract WITH
  held     <- [j \in Jobs |-> OrdersOf(ledger, j, {"captured", "refund_pending"})],
  returned <- [j \in Jobs |-> OrdersOf(ledger, j, {"refunded"})],
  out      <- {j \in Jobs : released[j]},
  told     <- {j \in Jobs : job[j].state = "REFUNDED"}

\* Every step of the API and its environment is a step of the contract or does
\* not touch it: no order pays for two jobs, none is given back twice, and no
\* file is released, and no refund announced, on the strength of another job's
\* order.
KeepsContract == Contract!Spec

------------------------------------------------------------------------------
(***************************************************************************)
(* Paid jobs, step by step, for any number of requests in flight.  No      *)
(* handler locks a row, so one that read it before the payment may still   *)
(* write what follows from that.  These windows close for good: when the   *)
(* handlers that came in time are gone, no request that arrives later, and *)
(* no order of its steps, brings their like back.                          *)
(***************************************************************************)
AfterPayment == {"QUEUED", "PRINTING", "COMPLETED", "FAILED", "EXPIRED", "REFUNDED"}

\* A handler of job j is at one of the places pcs.
InFlight(pcs, j) == \E r \in Slots : call[r].pc \in pcs /\ call[r].job = j

\* "Re-priceable until payment locks the job": it is locked when no upload,
\* process() or price() is in flight that began before.  Then it is never
\* opened for pricing or payment again, its settings and price are those of
\* the payment, and no object is stored in the place of the one to be printed.
Preparing == {"storeUpload", "saveUpload", "inspect", "storeArtifact", "savePages", "compose",
              "savePrice"}
Locked(j) == job[j].state \in AfterPayment /\ ~InFlight(Preparing, j)
StaysLocked(j) ==
  Locked(j) => /\ Locked(j)'
               /\ job'[j].price = job[j].price
               /\ job'[j].keys \subseteq job[j].keys /\ disk'[j] \subseteq disk[j]
PaymentLocks == [][\A j \in Jobs : StaysLocked(j)]_vars

\* markPaidAndQueue is idempotent: once a code is issued, and no other handler
\* has begun to issue one, it is the only one, however often browser and
\* webhooks confirm the payment; and once its digits have gone to memory, no
\* others ever do.
Rolling    == {"roll", "queue"}
Publishing == {"capture", "publish"}
Coded(j)   == Locked(j) /\ ~InFlight(Rolling, j)
StaysCoded(j) ==
  Coded(j) => /\ Coded(j)'
              /\ job'[j].otp \in {job[j].otp, NoCode}
              /\ ~InFlight(Publishing, j) =>
                   /\ ~InFlight(Publishing, j)'
                   /\ pendingOtps'[j] \in {pendingOtps[j], NoCode}
CodeIsFinal == [][\A j \in Jobs : StaysCoded(j)]_vars

\* A code is single-use: once its job has been taken, or is over, and the claims
\* that found it waiting are answered, nobody gets a link to its file any more.
Taking   == {"take", "handOver"}
Taken(j) ==
  Coded(j) /\ job[j].state \in AfterPayment \ {"QUEUED"} /\ ~InFlight(Taking, j)
StaysTaken(j) == Taken(j) => Taken(j)' /\ Runs(j)' <= Runs(j)
NoLateClaim == [][\A j \in Jobs : StaysTaken(j)]_vars

\* Once the capture of a locked job is booked, and no pay() is in flight that
\* began before, the row names the order that was paid for ever: refunds ask
\* for that money, and webhooks find the job.
Paying   == {"readPayment", "createOrder", "savePayment"}
BookedAs == {"captured", "refund_initiated", "refunded"}
Booked(j) == Locked(j) /\ pay[j].status \in BookedAs /\ ~InFlight(Paying, j)
StaysBooked(j) ==
  Booked(j) =>
    Booked(j)' /\ \A x \in {"order", "amount", "payId"} : pay'[j][x] = pay[j][x]
CaptureIsKept == [][\A j \in Jobs : StaysBooked(j)]_vars

(***************************************************************************)
(* What holds only while requests do not overlap (one slot).               *)
(***************************************************************************)

\* One claim gets the file, so that at any time at most one agent holds a link
\* to a job's file or prints it.
SingleUse == \A j \in Jobs : Runs(j) <= 1

\* While no request is in flight, a job that waits at the kiosk has its
\* capture on the payment row, without which no refund would be made for it.
Quiet == \A r \in Slots : Idle(r)
WaitingIsBooked ==
  Quiet => \A j \in Jobs : job[j].state = "QUEUED" =>
             pay[j].status = "captured" /\ ledger[pay[j].payId].status # "offered"

------------------------------------------------------------------------------
(***************************************************************************)
(* Liveness, under FairSpec.                                               *)
(***************************************************************************)

\* Every captured payment is spent or returned: the job prints or has been
\* printed, or the provider is told to pay the money back, also after a print
\* failed or nobody came.
Spent(j) == job[j].state \in {"PRINTING", "COMPLETED"}
CapturedMoneyIsAccountedFor ==
  \A o \in Orders, j \in Jobs :
    (ledger[o].status = "captured" /\ ledger[o].job = j)
      ~> (Spent(j) \/ ledger[o].status # "captured")

\* "Collect it within 30 minutes or the payment auto-refunds": while agents
\* work, whoever has paid gets the file printed or the money back.
CollectedOrRefunded ==
  \A o \in Orders, j \in Jobs :
    (ledger[o].status = "captured" /\ ledger[o].job = j)
      ~> (released[j] \/ ledger[o].status # "captured")

\* No job waits at the kiosk for ever: unclaimed jobs leave QUEUED by the sweep,
\* whatever else is in flight.
NobodyWaitsForEver ==
  \A j \in Jobs : (job[j].state = "QUEUED") ~> (job[j].state # "QUEUED")

\* While agents report how their prints end, a job that is printing is
\* completed, failed or refunded in the end.
PrintingEnds ==
  AgentFairness => \A j \in Jobs : (job[j].state = "PRINTING") ~> (job[j].state # "PRINTING")

\* User files never linger: once the job is over or the upload window has
\* passed, storage is emptied of its objects.
FilesDeleted ==
  \A j \in Jobs : (aged[j] \/ job[j].state \in Terminal) ~> (disk[j] = {})
==============================================================================
