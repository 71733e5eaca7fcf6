------------------------------- MODULE Checkout -------------------------------
(***************************************************************************)
(* Payment and the one-time code: JobsService.pay, confirmPayment,         *)
(* markPaidAndQueue and status, the payment.captured webhook, and the      *)
(* customer's side of the provider's checkout.                             *)
(***************************************************************************)
EXTENDS KioskData

ELSEWHERE == <<disk, time, agent, restarts>>

Mock == PayMode = "mock"

(***************************************************************************)
(* POST /jobs/:id/pay.                                                     *)
(***************************************************************************)
\* Mutant: POST /pay looks only for a job that has been priced.
StartPayAnyTime(r, j) ==
  /\ "pay" \in Ops /\ Idle(r)
  /\ job[j].price # 0
  /\ SetFrame(r, [Arrive("pay", IF Mock THEN "savePayment" ELSE "readPayment", j)
                    EXCEPT !.n = job[j].price])
  /\ UNCHANGED <<job, money, codes, ELSEWHERE>>

StartPay(r, j) ==
  /\ "pay" \in Ops /\ Idle(r)
  /\ job[j].state = "AWAITING_PAYMENT"
  /\ SetFrame(r, [Arrive("pay", IF Mock THEN "savePayment" ELSE "readPayment", j)
                    EXCEPT !.n = job[j].price])
  /\ UNCHANGED <<job, money, codes, ELSEWHERE>>

\* The standing order is returned if its amount still matches.
ReusableOrder(j, price) == pay[j].status = "created" /\ pay[j].amount = price

ReadPayment(r) ==
  LET j == call[r].job IN
  /\ At(r, "readPayment")
  /\ IF ReusableOrder(j, call[r].n)
     THEN Finish(r)
     ELSE SetFrame(r, [call[r] EXCEPT !.pc = "createOrder",
                         !.seen = pay[j].status # "none"])
  /\ UNCHANGED <<job, money, codes, ELSEWHERE>>

\* The provider registers a fresh order for the price that pay() read, or
\* the call fails.
CreateOrder(r) ==
  /\ At(r, "createOrder")
  /\ \/ Finish(r) /\ UNCHANGED ledger
     \/ \E o \in Orders :
          /\ ledger[o].status = "unused"
          /\ ledger' = [ledger EXCEPT ![o] = [job |-> call[r].job,
                                              amount |-> call[r].n,
                                              status |-> "created"]]
          /\ SetFrame(r, [call[r] EXCEPT !.pc = "savePayment", !.ord = o])
  /\ UNCHANGED <<job, pay, codes, ELSEWHERE>>

\* payment.update if a row was seen, else payment.create, which throws when
\* another request has created one (jobId is unique); then the checkout
\* opens on the customer's phone.
SavePayment(r) ==
  LET j == call[r].job  o == call[r].ord IN
  /\ ~Mock /\ At(r, "savePayment")
  /\ IF call[r].seen \/ pay[j].status = "none"
     THEN /\ pay' = [pay EXCEPT ![j].order = o, ![j].amount = call[r].n,
                                ![j].status = "created"]
          /\ ledger' = [ledger EXCEPT ![o].status = "offered"]
     ELSE UNCHANGED money
  /\ Finish(r)
  /\ UNCHANGED <<job, codes, ELSEWHERE>>

\* Mock mode: the row is created and the simulated payment has succeeded.
SaveMockPayment(r) ==
  LET j == call[r].job IN
  /\ Mock /\ At(r, "savePayment")
  /\ \/ /\ pay[j].status # "none"
        /\ Finish(r)
        /\ UNCHANGED money
     \/ /\ pay[j].status = "none"
        /\ \E o \in Orders :
             /\ ledger[o].status = "unused"
             /\ ledger' = [ledger EXCEPT ![o] = [job |-> j, amount |-> call[r].n,
                                                 status |-> "captured"]]
             /\ pay' = [pay EXCEPT ![j].order = o, ![j].amount = call[r].n,
                                   ![j].status = "created"]
             /\ SetFrame(r, [call[r] EXCEPT !.pc = "mark", !.ord = o])
  /\ UNCHANGED <<job, codes, ELSEWHERE>>

(***************************************************************************)
(* The customer pays any checkout that is open, a superseded one included; *)
(* the provider captures and tells the API by the customer's browser       *)
(* (POST /pay/confirm) and by webhook, each at least once or never.        *)
(***************************************************************************)
Capture(o) ==
  /\ "capture" \in Ops
  /\ ledger[o].status = "offered"
  /\ ledger' = [ledger EXCEPT ![o].status = "captured"]
  /\ UNCHANGED <<job, pay, codes, call, ELSEWHERE>>

StartConfirm(r, j, o) ==
  /\ "confirm" \in Ops /\ Idle(r) /\ ~Mock
  /\ ledger[o].status \in Settled
  /\ job[j].state = "AWAITING_PAYMENT"
  /\ SetFrame(r, [Arrive("confirm", "verify", j) EXCEPT !.ord = o])
  /\ UNCHANGED <<job, money, codes, ELSEWHERE>>

\* Mutant: any captured order with a signature will do.
VerifySignatureOnly(r) ==
  /\ At(r, "verify")
  /\ Goto(r, "mark")
  /\ UNCHANGED <<job, money, codes, ELSEWHERE>>

\* The order must be the one on the payment row; the signature proves that
\* the provider captured it.
Verify(r) ==
  /\ At(r, "verify")
  /\ IF pay[call[r].job].order = call[r].ord THEN Goto(r, "mark") ELSE Finish(r)
  /\ UNCHANGED <<job, money, codes, ELSEWHERE>>

\* Mutant: the webhook of an order that is not captured yet counts as well.
StartCapturedEarly(r, j) ==
  /\ "captured" \in Ops /\ Idle(r) /\ ~Mock
  /\ pay[j].order # NoOrder
  /\ SetFrame(r, [Arrive("captured", "mark", j) EXCEPT !.ord = pay[j].order])
  /\ UNCHANGED <<job, money, codes, ELSEWHERE>>

\* Webhook payment.captured: the job is the one whose row names the order.
StartCaptured(r, j) ==
  LET o == pay[j].order IN
  /\ "captured" \in Ops /\ Idle(r) /\ ~Mock
  /\ o # NoOrder /\ ledger[o].status \in Settled
  /\ SetFrame(r, [Arrive("captured", "mark", j) EXCEPT !.ord = o])
  /\ UNCHANGED <<job, money, codes, ELSEWHERE>>

(***************************************************************************)
(* markPaidAndQueue.                                                       *)
(***************************************************************************)
\* Mutant: a job that is queued already is marked again.
MarkAgain(r) ==
  /\ At(r, "mark")
  /\ \E c \in Otps :
       SetFrame(r, [call[r] EXCEPT !.pc = "roll", !.code = c, !.n = 0])
  /\ UNCHANGED <<job, money, codes, ELSEWHERE>>

Mark(r) ==
  /\ At(r, "mark")
  /\ IF job[call[r].job].state = "AWAITING_PAYMENT"
     THEN \E c \in Otps :
            SetFrame(r, [call[r] EXCEPT !.pc = "roll", !.code = c, !.n = 0])
     ELSE Finish(r)
  /\ UNCHANGED <<job, money, codes, ELSEWHERE>>

\* The codes a new one must not collide with.
SiblingCodes(j) ==
  {job[i].otp : i \in {i \in Jobs \ {j} :
      /\ KioskOf[i] = KioskOf[j]
      /\ job[i].state \in {"PAID", "QUEUED"}
      /\ ~late[i]}} \ {NoCode}

\* One round of the re-roll loop; the code of the last round is not checked.
Roll(r) ==
  LET f == call[r] IN
  /\ At(r, "roll")
  /\ IF f.code \notin SiblingCodes(f.job)
     THEN Goto(r, "queue")
     ELSE \E c \in Otps :
            SetFrame(r, [f EXCEPT !.code = c, !.n = f.n + 1,
                           !.pc = IF f.n + 1 < RerollTries THEN "roll"
                                                           ELSE "queue"])
  /\ UNCHANGED <<job, money, codes, ELSEWHERE>>

Queue(r) ==
  LET j == call[r].job IN
  /\ At(r, "queue")
  /\ job' = [job EXCEPT ![j].state = "QUEUED", ![j].otp = call[r].code,
                        ![j].tries = 0, ![j].shown = FALSE]
  /\ late' = [late EXCEPT ![j] = FALSE]
  /\ Goto(r, "capture")
  /\ UNCHANGED <<money, codes, disk, aged, agent, restarts>>

\* Mutant: the update is filtered by the status it should write.
RecordCaptureTwice(r) ==
  LET j == call[r].job IN
  /\ At(r, "capture")
  /\ IF pay[j].status = "captured"
     THEN pay' = [pay EXCEPT ![j].payId = call[r].ord]
     ELSE UNCHANGED pay
  /\ Goto(r, "publish")
  /\ UNCHANGED <<job, ledger, codes, ELSEWHERE>>

\* payment.updateMany where status = 'created'.
RecordCapture(r) ==
  LET j == call[r].job IN
  /\ At(r, "capture")
  /\ IF pay[j].status = "created"
     THEN pay' = [pay EXCEPT ![j].status = "captured", ![j].payId = call[r].ord]
     ELSE UNCHANGED pay
  /\ Goto(r, "publish")
  /\ UNCHANGED <<job, ledger, codes, ELSEWHERE>>

\* The digits go to memory and the kiosk is told that the job waits.
Publish(r) ==
  /\ At(r, "publish")
  /\ pendingOtps' = [pendingOtps EXCEPT ![call[r].job] = call[r].code]
  /\ Finish(r)
  /\ UNCHANGED <<job, money, phone, ELSEWHERE>>

(***************************************************************************)
(* GET /jobs/:id/status, polled by the customer's page.                    *)
(***************************************************************************)
StartStatus(r, j) ==
  /\ "status" \in Ops /\ Idle(r)
  /\ job[j].state \in {"QUEUED", "PRINTING"}
  /\ ~job[j].shown /\ job[j].tries < MaxAttempts
  /\ SetFrame(r, Arrive("status", "reveal", j))
  /\ UNCHANGED <<job, money, codes, ELSEWHERE>>

\* Mutant: the digits stay in memory when they are handed out.
RevealAgain(r) ==
  LET j == call[r].job IN
  /\ At(r, "reveal")
  /\ IF pendingOtps[j] # NoCode /\ ~late[j]
     THEN SetFrame(r, [call[r] EXCEPT !.pc = "saveShown", !.code = pendingOtps[j]])
     ELSE Finish(r)
  /\ UNCHANGED <<job, money, codes, ELSEWHERE>>

\* The lookup and the removal run without an await in between.
Reveal(r) ==
  LET j == call[r].job IN
  /\ At(r, "reveal")
  /\ IF pendingOtps[j] # NoCode /\ ~late[j]
     THEN /\ pendingOtps' = [pendingOtps EXCEPT ![j] = NoCode]
          /\ SetFrame(r, [call[r] EXCEPT !.pc = "saveShown",
                            !.code = pendingOtps[j]])
     ELSE Finish(r) /\ UNCHANGED pendingOtps
  /\ UNCHANGED <<job, money, phone, ELSEWHERE>>

SaveShown(r) ==
  LET j == call[r].job IN
  /\ At(r, "saveShown")
  /\ job' = [job EXCEPT ![j].shown = TRUE]
  /\ phone' = [phone EXCEPT ![j] = call[r].code]
  /\ Finish(r)
  /\ UNCHANGED <<money, pendingOtps, ELSEWHERE>>

\* The code's half hour runs out.  Bound on time: the handler that issues a
\* code finishes long before that code expires.
Issuing(j) == \E r \in Slots : call[r].job = j /\ call[r].pc \in {"capture", "publish"}

Elapse(j) ==
  /\ "elapse" \in Ops
  /\ ~late[j] /\ ~Issuing(j)
  /\ job[j].state \in {"QUEUED", "PRINTING"}
  /\ late' = [late EXCEPT ![j] = TRUE]
  /\ UNCHANGED <<job, money, codes, disk, aged, agent, call, restarts>>

CheckoutStart(r) ==
  \/ \E j \in Jobs : StartPay(r, j) \/ StartCaptured(r, j) \/ StartStatus(r, j)
  \/ \E j \in Jobs, o \in Orders : StartConfirm(r, j, o)

CheckoutStep(r) ==
  \/ ReadPayment(r) \/ CreateOrder(r) \/ SavePayment(r) \/ SaveMockPayment(r)
  \/ Verify(r) \/ Mark(r) \/ Roll(r) \/ Queue(r) \/ RecordCapture(r)
  \/ Publish(r) \/ Reveal(r) \/ SaveShown(r)
==============================================================================
