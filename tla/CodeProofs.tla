----------------------------- MODULE CodeProofs -----------------------------
(***************************************************************************)
(* Theorems about one-time codes and the jobs they unlock.                 *)
(*                                                                         *)
(* With mock payments the digits of a code are shown at most once, for any *)
(* jobs and requests in flight, restarts included.  The payment row is the *)
(* turnstile: of all pay() calls for a job one creates it.  From then on   *)
(* the code is in one place at a time: in the hands of one handler, in     *)
(* memory, on the customer's phone, or lost in a restart.                  *)
(*                                                                         *)
(* A payment locks its job, a code is final, a job that was taken is not   *)
(* handed out again, and a booked capture stays booked: for good, as soon  *)
(* as the handlers that read the row before it changed are gone.  Each     *)
(* handler looks at the row when it arrives; so a step brings a handler to *)
(* a place where it writes such a row only if the row still allows it or   *)
(* the handler was there before (FramesOn), and rows are only rewritten    *)
(* from those places (RowsOn and its like).                                *)
(***************************************************************************)
EXTENDS MoneyProofs, FiniteSetTheorems

\* Where a handler is about to issue the code of its job, or to show it.
Keeping == {"verify", "mark", "roll", "queue", "capture", "publish", "saveShown"}
Keeps(f, j) == f.pc \in Keeping /\ f.job = j

\* The code of job j: kept by a handler of C, in memory (held), or on the phone
\* (shown); status is that of its payment row.
OnePlace(C, status, held, shown, j) ==
  /\ \A r, s \in Slots : Keeps(C[r], j) /\ Keeps(C[s], j) => r = s
  /\ held # NoCode \/ shown # NoCode => \A r \in Slots : ~Keeps(C[r], j)
  /\ held # NoCode => shown = NoCode
  /\ status = "none" => held = NoCode /\ shown = NoCode /\ \A r \in Slots : ~Keeps(C[r], j)

CodesAgree ==
  \A j \in Jobs : OnePlace(call, pay[j].status, pendingOtps[j], phone[j], j)

(***************************************************************************)
(* Steps that neither issue nor move a code.                               *)
(***************************************************************************)

\* The frame of the request in slot r, and what a change of its fields leaves.
LEMMA FrameParts ==
  ASSUME TypeOK, NEW r \in Slots
  PROVE  /\ call[r] \in FrameFields
         /\ \A s \in Slots : \A f : SetFrame(r, f) => call'[s] = IF s = r THEN f ELSE call[s]
         /\ \A pc : /\ [call[r] EXCEPT !.pc = pc].pc = pc
                    /\ [call[r] EXCEPT !.pc = pc].job = call[r].job
  BY DEF TypeOK, Frame, FrameFields, SetFrame

\* A handler goes on with frame f, which keeps no code that it did not keep before.
LEMMA StepKeeps ==
  ASSUME TypeOK, CodesAgree, NEW r \in Slots, NEW f, SetFrame(r, f),
         f.pc \in Keeping => Keeps(call[r], f.job),
         \A j \in Jobs : pay'[j].status = "none" => pay[j].status = "none",
         UNCHANGED codes
  PROVE  CodesAgree'
<1>1. \A j : \A s \in Slots : Keeps(call'[s], j) => Keeps(call[s], j)
  BY FrameParts DEF Keeps
<1>2. UNCHANGED <<pendingOtps, phone>>
  BY DEF codes
<1> QED BY <1>1, <1>2 DEF CodesAgree, OnePlace

\* The same for a handler that ends, and for one that goes on at pc.
LEMMA StepOn ==
  ASSUME TypeOK, CodesAgree, NEW r \in Slots,
         \A j \in Jobs : pay'[j].status = "none" => pay[j].status = "none",
         UNCHANGED codes
  PROVE  /\ Finish(r) => CodesAgree'
         /\ \A pc : Goto(r, pc) /\ (pc \in Keeping => call[r].pc \in Keeping) => CodesAgree'
<1>1. IdleFrame.pc \notin Keeping
  BY DEF IdleFrame, Keeping
<1>2. ASSUME Finish(r) PROVE CodesAgree'
  BY <1>1, <1>2, StepKeeps DEF Finish
<1>3. ASSUME NEW pc, Goto(r, pc), pc \in Keeping => call[r].pc \in Keeping PROVE CodesAgree'
  <2>1. [call[r] EXCEPT !.pc = pc].pc \in Keeping => Keeps(call[r], [call[r] EXCEPT !.pc = pc].job)
    BY <1>3, FrameParts DEF Keeps
  <2> QED BY <1>3, <2>1, StepKeeps DEF Goto
<1> QED BY <1>2, <1>3

\* A request that arrives at pc, with whatever it has read.
LEMMA Arrivals ==
  /\ IdleFrame.pc = "idle"
  /\ \A op, pc, j : LET f == Arrive(op, pc, j) IN
       /\ f.pc = pc
       /\ \A h : [f EXCEPT !.held = h].pc = pc
       /\ \A n : [f EXCEPT !.n = n].pc = pc
  BY DEF Arrive, IdleFrame

(***************************************************************************)
(* Intake, claims and refunds.                                             *)
(***************************************************************************)
LEMMA IntakeKeeps ==
  ASSUME TypeOK, CodesAgree, NEW r \in Slots, IntakeStart(r) \/ IntakeStep(r)
  PROVE  CodesAgree'
<1>1. UNCHANGED <<pay, codes>>
  BY DEF IntakeStart, IntakeStep, StartUpload, StartProcess, StartPrice, StoreUpload, SaveUpload,
         Inspect, FailJob, StoreArtifact, SavePages, Compose, SavePrice, UNTOUCHED, money
<1>2. ASSUME IntakeStart(r) PROVE \E f : SetFrame(r, f) /\ f.pc \notin Keeping
  <2>1. ASSUME NEW j \in Jobs, StartUpload(r, j) \/ StartProcess(r, j)
        PROVE  \E f : SetFrame(r, f) /\ f.pc \notin Keeping
    BY <2>1, Arrivals DEF StartUpload, StartProcess, Keeping
  <2>2. ASSUME NEW j \in Jobs, NEW p \in Prices, NEW photo \in BOOLEAN, StartPrice(r, j, p, photo)
        PROVE  \E f : SetFrame(r, f) /\ f.pc \notin Keeping
    <3> DEFINE f == [Arrive("price", "savePrice", j) EXCEPT
                       !.n = p, !.held = [NoFiles EXCEPT ![j] = job[j].keys \cap {"print"}]]
               g == [f EXCEPT !.pc = "compose"]
    <3>1. f.pc \notin Keeping /\ g.pc \notin Keeping
      BY DEF Keeping, Arrive, IdleFrame
    <3>2. SetFrame(r, f) \/ SetFrame(r, g)
      BY <2>2 DEF StartPrice
    <3> HIDE DEF f, g
    <3> QED BY <3>1, <3>2
  <2> QED BY <1>2, <2>1, <2>2 DEF IntakeStart
<1>3. ASSUME IntakeStep(r) PROVE CodesAgree'
  <2>1. CASE StoreArtifact(r)
    <3>1. \E h : \E pc \in {"savePages", "savePrice"} :
            SetFrame(r, [call[r] EXCEPT !.held = h, !.pc = pc])
      BY <2>1 DEF StoreArtifact
    <3>2. \A h, pc : [call[r] EXCEPT !.held = h, !.pc = pc].pc = pc
      BY FrameParts DEF FrameFields
    <3> QED BY <1>1, <3>1, <3>2, StepKeeps DEF Keeping
  <2>2. CASE ~StoreArtifact(r)
    <3>1. \/ Finish(r)
          \/ \E pc \in {"saveUpload", "failJob", "storeArtifact", "savePages"} : Goto(r, pc)
      BY <1>3, <2>2 DEF IntakeStep, StoreUpload, SaveUpload, Inspect, FailJob, SavePages, Compose,
                        SavePrice
    <3> QED BY <1>1, <3>1, StepOn DEF Keeping
  <2> QED BY <2>1, <2>2
<1> QED BY <1>1, <1>2, <1>3, StepKeeps

\* A claim reads rows and hands out links; it touches no code that is shown.
LEMMA ClaimKeeps ==
  ASSUME TypeOK, CodesAgree, NEW r \in Slots, ClaimStart(r) \/ ClaimStep(r)
  PROVE  CodesAgree'
<1>1. UNCHANGED <<pay, codes>>
  BY DEF ClaimStart, ClaimStep, StartClaimJob, StartClaimCode, StartCompleted, StartFailed, ReportTo,
         Charge, Take, HandOver, Complete, SaveFailed, BEYOND, money
<1>2. ASSUME ClaimStep(r) PROVE CodesAgree'
  BY <1>1, <1>2, StepOn DEF ClaimStep, Charge, Take, HandOver, Complete, SaveFailed, Keeping
<1>3. \A j : TakeFrame(j).pc \notin Keeping /\ ChargeFrame(j).pc \notin Keeping
  BY Arrivals DEF TakeFrame, ChargeFrame, Keeping
<1>4. ASSUME ClaimStart(r) PROVE UNCHANGED call \/ \E f : SetFrame(r, f) /\ f.pc \notin Keeping
  <2>1. ASSUME NEW j \in Jobs, NEW c \in Otps, StartClaimJob(r, j, c)
        PROVE  \E f : SetFrame(r, f) /\ f.pc \notin Keeping
    BY <1>3, <2>1 DEF StartClaimJob
  <2>2. ASSUME NEW k \in Kiosks, NEW c \in Otps, StartClaimCode(r, k, c)
        PROVE  \E f : SetFrame(r, f) /\ f.pc \notin Keeping
    BY <1>3, <2>2 DEF StartClaimCode
  <2>3. ASSUME NEW j \in Jobs, StartCompleted(r, j) \/ StartFailed(r, j)
        PROVE  UNCHANGED call \/ \E f : SetFrame(r, f) /\ f.pc \notin Keeping
    <3>1. PICK op \in {"completed", "failed"}, pc \in {"complete", "refundRead"} : ReportTo(r, j, op, pc)
      BY <2>3 DEF StartCompleted, StartFailed
    <3>2. [Arrive(op, pc, j) EXCEPT !.held = Holding(j)].pc \notin Keeping
      BY Arrivals DEF Keeping
    <3> QED BY <3>1, <3>2 DEF ReportTo
  <2> QED BY <1>4, <2>1, <2>2, <2>3 DEF ClaimStart
<1>5. CASE UNCHANGED call
  BY <1>1, <1>5 DEF CodesAgree, codes
<1> QED BY <1>1, <1>2, <1>4, <1>5, StepKeeps

\* Where refunds, purges and sweeps go.
Refunding == {"idle", "refundRead", "refundCall", "refundSave", "refundFinal", "refundPending",
              "settleRead", "settlePayment", "settleJob", "delete", "forget", "next", "expire",
              "readKeys", "saveFailed"}

\* After refundFailedJob or purge, and on the way to the provider.
LEMMA RefundFrames ==
  ASSUME NEW r, NEW f \in FrameFields
  PROVE  /\ \A b \in BOOLEAN : AfterRefund(f, b).pc \in Refunding
         /\ AfterPurge(f).pc \in Refunding
         /\ ReadForRefund(r, f) => \E g : SetFrame(r, g) /\ g.pc \in Refunding
<1>1. AfterRefund(f, TRUE).pc \in Refunding
  BY DEF AfterRefund, IdleFrame, Refunding, FrameFields
<1>2. AfterRefund(f, FALSE).pc \in Refunding
  BY DEF AfterRefund, IdleFrame, Refunding, FrameFields
<1>3. AfterPurge(f).pc \in Refunding
  BY DEF AfterPurge, IdleFrame, Refunding, FrameFields
<1>4. \A o, h : [f EXCEPT !.pc = "refundCall", !.ord = o, !.held = h].pc \in Refunding
  BY DEF Refunding, FrameFields
<1>5. ASSUME ReadForRefund(r, f) PROVE \E g : SetFrame(r, g) /\ g.pc \in Refunding
  <2>1. \/ SetFrame(r, AfterRefund(f, TRUE)) \/ SetFrame(r, AfterRefund(f, FALSE))
        \/ \E o, h : SetFrame(r, [f EXCEPT !.pc = "refundCall", !.ord = o, !.held = h])
    BY <1>5 DEF ReadForRefund
  <2> QED BY <1>1, <1>2, <1>4, <2>1
<1> QED BY <1>1, <1>2, <1>3, <1>5

\* A refund, a purge or a sweep stays among these places.
LEMMA RefundGoes ==
  ASSUME TypeOK, NEW r \in Slots, RefundStart(r) \/ RefundStep(r)
  PROVE  \E f : SetFrame(r, f) /\ f.pc \in Refunding
<1>0. call[r] \in FrameFields
  BY FrameParts
<1> DEFINE Clear == \E f : SetFrame(r, f) /\ f.pc \in Refunding
<1>1. Finish(r) => Clear
  BY Arrivals DEF Finish, Refunding
<1>2. \A pc : Goto(r, pc) /\ pc \in Refunding => Clear
  BY FrameParts DEF Goto
<1>3. \A f \in FrameFields : ReadForRefund(r, f) => Clear
  BY RefundFrames
<1>4. \A b \in BOOLEAN : SetFrame(r, AfterRefund(call[r], b)) => Clear
  BY <1>0, RefundFrames
<1>5. ASSUME RefundStart(r) PROVE Clear
  <2>1. ASSUME NEW j \in Jobs, StartManualRefund(r, j) PROVE Clear
    <3>1. Arrive("manualRefund", "refundRead", j) \in FrameFields
      <4>1. "manualRefund" \in OpNames /\ "refundRead" \in PcNames
        BY DEF OpNames, PcNames
      <4> QED BY <4>1, ArriveType DEF Frame
    <3> QED BY <1>3, <2>1, <3>1 DEF StartManualRefund
  <2>2. ASSUME NEW j \in Jobs, StartRefunded(r, j) PROVE Clear
    BY <2>2, Arrivals DEF StartRefunded, Refunding
  <2>3. ASSUME StartSweep(r) PROVE Clear
    <3>1. \A op, S : [IdleFrame EXCEPT !.op = op, !.pc = "next", !.todo = S].pc = "next"
      BY DEF IdleFrame
    <3> QED BY <2>3, <3>1 DEF StartSweep, Refunding
  <2> HIDE DEF Clear
  <2> QED BY <1>5, <2>1, <2>2, <2>3 DEF RefundStart
<1>6. ASSUME RefundStep(r) PROVE Clear
  <2>1. CASE RefundRead(r)
    BY <1>0, <1>3, <2>1 DEF RefundRead
  <2>2. CASE RefundCall(r)
    <3>1. \/ Goto(r, "refundSave") \/ SetFrame(r, AfterRefund(call[r], FALSE))
      BY <2>2 DEF RefundCall, Goto
    <3> QED BY <1>2, <1>4, <3>1 DEF Refunding
  <2>3. CASE RefundSave(r) \/ RefundFinal(r) \/ SettlePayment(r) \/ SettleJob(r) \/ Delete(r) \/ Expire(r)
    <3>1. Finish(r) \/ \E pc \in {"refundFinal", "refundPending", "delete", "settleJob", "forget",
                                   "readKeys"} : Goto(r, pc)
      BY <2>3 DEF RefundSave, RefundFinal, SettlePayment, SettleJob, Delete, Expire
    <3> QED BY <1>1, <1>2, <3>1 DEF Refunding
  <2>4. CASE RefundPending(r)
    BY <1>4, <2>4 DEF RefundPending
  <2>5. CASE SettleRead(r)
    <3>1. Finish(r) \/ \E b, h : SetFrame(r, [call[r] EXCEPT !.pc = "settlePayment", !.seen = b, !.held = h])
      BY <2>5 DEF SettleRead
    <3>2. \A b, h : [call[r] EXCEPT !.pc = "settlePayment", !.seen = b, !.held = h].pc \in Refunding
      BY <1>0 DEF FrameFields, Refunding
    <3> QED BY <1>1, <3>1, <3>2
  <2>6. CASE Forget(r)
    BY <1>0, <2>6, RefundFrames DEF Forget
  <2>7. CASE SweepJob(r)
    <3>1. PICK j \in call[r].todo : ReadForRefund(r, [call[r] EXCEPT !.job = j, !.todo = @ \ {j}])
      BY <2>7 DEF SweepJob
    <3>2. [call[r] EXCEPT !.job = j, !.todo = @ \ {j}] \in FrameFields
      BY <1>0 DEF FrameFields
    <3> QED BY <1>3, <3>1, <3>2
  <2>8. CASE ReadKeys(r)
    <3>1. \A h : [call[r] EXCEPT !.held = h, !.pc = "delete"].pc \in Refunding
      BY <1>0 DEF FrameFields, Refunding
    <3> QED BY <2>8, <3>1 DEF ReadKeys
  <2>9. CASE FindLeftovers(r)
    <3>1. \A S, h : [IdleFrame EXCEPT !.op = "fileSweep", !.pc = "next", !.todo = S,
                                      !.held = h].pc \in Refunding
      BY DEF IdleFrame, Refunding
    <3>2. IdleFrame.pc \in Refunding
      BY Arrivals DEF Refunding
    <3> QED BY <2>9, <3>1, <3>2 DEF FindLeftovers
  <2>10. CASE SweepFile(r)
    <3>1. \A j, S : [call[r] EXCEPT !.job = j, !.todo = S, !.pc = "delete"].pc \in Refunding
      BY <1>0 DEF FrameFields, Refunding
    <3>2. Finish(r) \/ \E j, S : SetFrame(r, [call[r] EXCEPT !.job = j, !.todo = S, !.pc = "delete"])
      BY <2>10 DEF SweepFile
    <3> QED BY <1>1, <3>1, <3>2
  <2> HIDE DEF Clear
  <2> QED BY <1>6, <2>1, <2>2, <2>3, <2>4, <2>5, <2>6, <2>7, <2>8, <2>9, <2>10 DEF RefundStep
<1> QED BY <1>5, <1>6

\* Refunds and sweeps: the row of a payment that exists does not disappear.
LEMMA RefundKeeps ==
  ASSUME TypeOK, CodesAgree, NEW r \in Slots, RefundStart(r) \/ RefundStep(r)
  PROVE  CodesAgree'
<1>0. call[r] \in FrameFields /\ pay \in [Jobs -> PaymentRow]
  BY FrameParts DEF TypeOK
<1>1. UNCHANGED codes
  BY DEF RefundStart, RefundStep, StartManualRefund, StartRefunded, StartSweep, RefundRead, RefundCall,
         RefundSave, RefundFinal, RefundPending, SettleRead, SettlePayment, SettleJob, Delete, Forget,
         SweepJob, Expire, ReadKeys, FindLeftovers, SweepFile, OUTSIDE
<1>2. \A j \in Jobs : pay'[j].status = "none" => pay[j].status = "none"
  <2>1. UNCHANGED pay \/ \E s \in {"refunded", "refund_initiated"} :
                           pay' = [pay EXCEPT ![call[r].job].status = s]
    BY DEF RefundStart, RefundStep, StartManualRefund, StartRefunded, StartSweep, RefundRead,
           RefundCall, RefundSave, RefundFinal, RefundPending, SettleRead, SettlePayment, SettleJob,
           Delete, Forget, SweepJob, Expire, ReadKeys, FindLeftovers, SweepFile
  <2> QED BY <1>0, <2>1 DEF PaymentRow
<1>3. \E f : SetFrame(r, f) /\ f.pc \notin Keeping
  BY RefundGoes DEF Refunding, Keeping
<1> QED BY <1>1, <1>2, <1>3, StepKeeps

(***************************************************************************)
(* Checkout: where codes are issued, moved and shown.                      *)
(***************************************************************************)

\* A frame of a handler that stays with its job: what an EXCEPT leaves.
LEMMA SameJob ==
  ASSUME TypeOK, NEW r \in Slots
  PROVE  /\ \A c, n, pc : LET f == [call[r] EXCEPT !.code = c, !.n = n, !.pc = pc]
                          IN  f.pc = pc /\ f.job = call[r].job
         /\ \A c, n, pc : LET f == [call[r] EXCEPT !.pc = pc, !.code = c, !.n = n]
                          IN  f.pc = pc /\ f.job = call[r].job
         /\ \A o, pc : LET f == [call[r] EXCEPT !.pc = pc, !.ord = o]
                       IN  f.pc = pc /\ f.job = call[r].job
         /\ \A c, pc : LET f == [call[r] EXCEPT !.pc = pc, !.code = c]
                       IN  f.pc = pc /\ f.job = call[r].job
         /\ \A b, pc : LET f == [call[r] EXCEPT !.pc = pc, !.seen = b]
                       IN  f.pc = pc /\ f.job = call[r].job
<1>1. call[r] \in FrameFields
  BY FrameParts
<1> QED BY <1>1 DEF FrameFields

\* With mock payments neither a confirmation nor a webhook can mark a job again.
LEMMA CheckoutStartKeeps ==
  ASSUME TypeOK, CodesAgree, Mock, NEW r \in Slots, CheckoutStart(r)
  PROVE  CodesAgree'
<1>1. PICK j \in Jobs : StartPay(r, j) \/ StartStatus(r, j)
  BY DEF CheckoutStart, StartConfirm, StartCaptured
<1>2. UNCHANGED <<pay, codes>>
  BY <1>1 DEF StartPay, StartStatus, money
<1>3. CASE StartPay(r, j)
  <2>1. SetFrame(r, [Arrive("pay", "savePayment", j) EXCEPT !.n = job[j].price])
    BY <1>3 DEF StartPay
  <2>2. [Arrive("pay", "savePayment", j) EXCEPT !.n = job[j].price].pc \notin Keeping
    BY Arrivals DEF Keeping
  <2> QED BY <1>2, <2>1, <2>2, StepKeeps
<1>4. CASE StartStatus(r, j)
  BY <1>2, <1>4, Arrivals, StepKeeps DEF StartStatus, Keeping
<1> QED BY <1>1, <1>3, <1>4

\* The only way to a code: the pay() whose insert succeeds.
LEMMA PayKeeps ==
  ASSUME TypeOK, CodesAgree, Mock, NEW r \in Slots,
         ReadPayment(r) \/ CreateOrder(r) \/ SavePayment(r) \/ SaveMockPayment(r) \/ Verify(r)
  PROVE  CodesAgree'
<1> DEFINE j == call[r].job
<1>1. CASE ReadPayment(r)
  <2>1. UNCHANGED <<pay, codes>>
    BY <1>1 DEF ReadPayment, money
  <2>2. Finish(r) \/ \E b : SetFrame(r, [call[r] EXCEPT !.pc = "createOrder", !.seen = b])
    BY <1>1 DEF ReadPayment
  <2>3. \A b : [call[r] EXCEPT !.pc = "createOrder", !.seen = b].pc \notin Keeping
    BY SameJob DEF Keeping
  <2>4. ASSUME NEW f, SetFrame(r, f), f.pc \notin Keeping PROVE CodesAgree'
    BY <2>1, <2>4, StepKeeps
  <2>5. Finish(r) => CodesAgree'
    BY <2>1, StepOn
  <2> QED BY <2>2, <2>3, <2>4, <2>5
<1>2. CASE CreateOrder(r)
  <2>1. UNCHANGED <<pay, codes>>
    BY <1>2 DEF CreateOrder
  <2>2. Finish(r) \/ \E o : SetFrame(r, [call[r] EXCEPT !.pc = "savePayment", !.ord = o])
    BY <1>2 DEF CreateOrder
  <2>3. \A o : [call[r] EXCEPT !.pc = "savePayment", !.ord = o].pc \notin Keeping
    BY SameJob DEF Keeping
  <2>4. ASSUME NEW f, SetFrame(r, f), f.pc \notin Keeping PROVE CodesAgree'
    BY <2>1, <2>4, StepKeeps
  <2>5. Finish(r) => CodesAgree'
    BY <2>1, StepOn
  <2> QED BY <2>2, <2>3, <2>4, <2>5
<1>3. CASE SaveMockPayment(r) /\ pay[j].status # "none"
  <2>1. UNCHANGED <<pay, codes>> /\ Finish(r)
    BY <1>3 DEF SaveMockPayment, money
  <2> QED BY <2>1, StepOn
<1>4. CASE SaveMockPayment(r) /\ pay[j].status = "none"
  <2>1. PICK o \in Orders :
          /\ SetFrame(r, [call[r] EXCEPT !.pc = "mark", !.ord = o])
          /\ pay' = [pay EXCEPT ![j].order = o, ![j].amount = call[r].n, ![j].status = "created"]
    BY <1>4 DEF SaveMockPayment
  <2> DEFINE f == [call[r] EXCEPT !.pc = "mark", !.ord = o]
  <2>2. f.pc = "mark" /\ f.job = j
    BY SameJob
  <2>3. j \in Jobs
    BY <1>4, Working DEF SaveMockPayment, At
  <2>4. pay'[j].status = "created" /\ \A i \in Jobs : i # j => pay'[i] = pay[i]
    BY <2>1, <2>3 DEF TypeOK, PaymentRow
  <2>5. UNCHANGED <<pendingOtps, phone>>
    BY <1>4 DEF SaveMockPayment, codes
  <2>6. \A s \in Slots : call'[s] = IF s = r THEN f ELSE call[s]
    BY <2>1, FrameParts
  <2> HIDE DEF f
  <2>7. \A i : i # j => \A s \in Slots : Keeps(call'[s], i) => Keeps(call[s], i)
    BY <2>2, <2>6 DEF Keeps
  <2>8. \A s \in Slots : Keeps(call'[s], j) => s = r
    BY <1>4, <2>3, <2>6 DEF CodesAgree, OnePlace
  <2>9. pendingOtps[j] = NoCode /\ phone[j] = NoCode
    BY <1>4, <2>3 DEF CodesAgree, OnePlace
  <2>10. OnePlace(call', pay'[j].status, pendingOtps'[j], phone'[j], j)
    BY <2>4, <2>5, <2>8, <2>9 DEF OnePlace
  <2>11. \A i \in Jobs : i # j => OnePlace(call', pay'[i].status, pendingOtps'[i], phone'[i], i)
    BY <2>4, <2>5, <2>7 DEF CodesAgree, OnePlace
  <2> QED BY <2>10, <2>11 DEF CodesAgree
<1>5. CASE Verify(r)
  <2>1. UNCHANGED <<pay, codes>> /\ call[r].pc = "verify"
    BY <1>5 DEF Verify, money, At
  <2> QED BY <1>5, <2>1, StepOn DEF Verify, Keeping
<1> QED BY <1>1, <1>2, <1>3, <1>4, <1>5 DEF SavePayment

\* On its way through markPaidAndQueue the code stays in the same hands.
LEMMA MarkKeeps ==
  ASSUME TypeOK, CodesAgree, NEW r \in Slots, Mark(r) \/ Roll(r) \/ Queue(r) \/ RecordCapture(r)
  PROVE  CodesAgree'
<1>0. call[r].pc \in Keeping
  BY DEF Mark, Roll, Queue, RecordCapture, At, Keeping
<1>1. UNCHANGED codes
  BY DEF Mark, Roll, Queue, RecordCapture
<1>2. \A j \in Jobs : pay'[j].status = "none" => pay[j].status = "none"
  <2>1. CASE UNCHANGED pay
    BY <2>1
  <2>2. ASSUME NEW i \in Jobs, NEW o,
               pay' = [pay EXCEPT ![i].status = "captured", ![i].payId = o]
        PROVE  \A j \in Jobs : pay'[j].status = "none" => pay[j].status = "none"
    <3>1. pay \in [Jobs -> PaymentRow]
      BY DEF TypeOK
    <3>2. pay'[i].status = "captured" /\ \A j \in Jobs : j # i => pay'[j] = pay[j]
      BY <2>2, <3>1 DEF PaymentRow
    <3> QED BY <3>2
  <2>3. call[r].job \in Jobs
    BY Working DEF Mark, Roll, Queue, RecordCapture, At
  <2> QED BY <2>1, <2>2, <2>3 DEF Mark, Roll, Queue, RecordCapture, money
<1>3. CASE Mark(r) \/ Roll(r)
  <2>1. \/ Finish(r) \/ Goto(r, "queue")
        \/ \E c, n, pc : SetFrame(r, [call[r] EXCEPT !.code = c, !.n = n, !.pc = pc])
        \/ \E c, n, pc : SetFrame(r, [call[r] EXCEPT !.pc = pc, !.code = c, !.n = n])
    BY <1>3 DEF Mark, Roll
  <2>2. CASE Finish(r) \/ Goto(r, "queue")
    BY <1>0, <1>1, <1>2, <2>2, StepOn
  <2>3. ASSUME NEW f, SetFrame(r, f), f.job = call[r].job PROVE CodesAgree'
    BY <1>0, <1>1, <1>2, <2>3, StepKeeps DEF Keeps
  <2>4. ASSUME NEW c, NEW n, NEW pc
        PROVE  /\ SetFrame(r, [call[r] EXCEPT !.code = c, !.n = n, !.pc = pc]) => CodesAgree'
               /\ SetFrame(r, [call[r] EXCEPT !.pc = pc, !.code = c, !.n = n]) => CodesAgree'
    <3> DEFINE f == [call[r] EXCEPT !.code = c, !.n = n, !.pc = pc]
               g == [call[r] EXCEPT !.pc = pc, !.code = c, !.n = n]
    <3>1. f.job = call[r].job /\ g.job = call[r].job
      BY SameJob
    <3> HIDE DEF f, g
    <3>2. (SetFrame(r, f) => CodesAgree') /\ (SetFrame(r, g) => CodesAgree')
      BY <2>3, <3>1
    <3> QED BY <3>2 DEF f, g
  <2> QED BY <2>1, <2>2, <2>4
<1>4. CASE Queue(r) \/ RecordCapture(r)
  BY <1>0, <1>1, <1>2, <1>4, StepOn DEF Queue, RecordCapture
<1> QED BY <1>3, <1>4

\* From the handler to memory, from memory to a poll, from there to the phone.
LEMMA ShowKeeps ==
  ASSUME TypeOK, CodesAgree, NEW r \in Slots, Publish(r) \/ Reveal(r) \/ SaveShown(r)
  PROVE  CodesAgree'
<1> DEFINE j == call[r].job
<1>0. j \in Jobs /\ UNCHANGED pay /\ pendingOtps \in [Jobs -> Otps \cup {NoCode}]
      /\ phone \in [Jobs -> Otps \cup {NoCode}]
  BY Working DEF Publish, Reveal, SaveShown, At, money, TypeOK
<1>1. CASE Publish(r) \/ SaveShown(r)
  <2>1. Keeps(call[r], j) /\ Finish(r)
    BY <1>1 DEF Publish, SaveShown, At, Keeps, Keeping
  <2>2. \A s \in Slots : call'[s] = IF s = r THEN IdleFrame ELSE call[s]
    BY <2>1, FrameParts DEF Finish
  <2>3. \A i : ~Keeps(IdleFrame, i)
    BY Arrivals DEF Keeps, Keeping
  <2>4. \A i : \A s \in Slots : Keeps(call'[s], i) => Keeps(call[s], i) /\ s # r
    BY <2>2, <2>3
  <2>5. \A s \in Slots : ~Keeps(call'[s], j)
    BY <1>0, <2>1, <2>4 DEF CodesAgree, OnePlace
  <2>6. pendingOtps[j] = NoCode /\ phone[j] = NoCode /\ pay[j].status # "none"
    BY <1>0, <2>1 DEF CodesAgree, OnePlace
  <2>7. \/ \E c : pendingOtps' = [pendingOtps EXCEPT ![j] = c] /\ UNCHANGED phone
        \/ \E c : phone' = [phone EXCEPT ![j] = c] /\ UNCHANGED pendingOtps
    BY <1>1 DEF Publish, SaveShown
  <2>8. pendingOtps'[j] = NoCode \/ phone'[j] = NoCode
    BY <2>6, <2>7
  <2>9. OnePlace(call', pay'[j].status, pendingOtps'[j], phone'[j], j)
    BY <1>0, <2>5, <2>6, <2>8 DEF OnePlace
  <2>10. \A i \in Jobs : i # j => pendingOtps'[i] = pendingOtps[i] /\ phone'[i] = phone[i]
    BY <1>0, <2>7
  <2>11. \A i \in Jobs : i # j => OnePlace(call', pay'[i].status, pendingOtps'[i], phone'[i], i)
    BY <1>0, <2>4, <2>10 DEF CodesAgree, OnePlace
  <2> QED BY <2>9, <2>11 DEF CodesAgree
<1>2. CASE Reveal(r) /\ Finish(r) /\ UNCHANGED pendingOtps
  BY <1>0, <1>2, StepOn DEF Reveal, codes
<1>3. CASE Reveal(r) /\ pendingOtps[j] # NoCode /\ pendingOtps' = [pendingOtps EXCEPT ![j] = NoCode]
           /\ SetFrame(r, [call[r] EXCEPT !.pc = "saveShown", !.code = pendingOtps[j]])
  <2> DEFINE f == [call[r] EXCEPT !.pc = "saveShown", !.code = pendingOtps[j]]
  <2>1. f.job = j
    BY SameJob
  <2>2. \A s \in Slots : call'[s] = IF s = r THEN f ELSE call[s]
    BY <1>3, FrameParts
  <2> HIDE DEF f
  <2>3. phone'[j] = NoCode /\ pay[j].status # "none" /\ \A s \in Slots : ~Keeps(call[s], j)
    BY <1>0, <1>3 DEF CodesAgree, OnePlace, Reveal
  <2>4. \A s \in Slots : Keeps(call'[s], j) => s = r
    BY <2>2, <2>3
  <2>5. pendingOtps'[j] = NoCode /\ UNCHANGED phone
        /\ \A i \in Jobs : i # j => pendingOtps'[i] = pendingOtps[i]
    BY <1>0, <1>3 DEF Reveal
  <2>6. OnePlace(call', pay'[j].status, pendingOtps'[j], phone'[j], j)
    BY <1>0, <2>3, <2>4, <2>5 DEF OnePlace
  <2>7. \A i : i # j => \A s \in Slots : Keeps(call'[s], i) => Keeps(call[s], i)
    BY <2>1, <2>2 DEF Keeps
  <2>8. \A i \in Jobs : i # j => OnePlace(call', pay'[i].status, pendingOtps'[i], phone'[i], i)
    BY <1>0, <2>5, <2>7 DEF CodesAgree, OnePlace
  <2> QED BY <2>6, <2>8 DEF CodesAgree
<1> QED BY <1>1, <1>2, <1>3 DEF Reveal

(***************************************************************************)
(* The environment, restarts, and the theorem.                             *)
(***************************************************************************)

\* A restart loses codes; it never brings one back.
LEMMA RestartKeeps ==
  ASSUME TypeOK, CodesAgree, Restart
  PROVE  CodesAgree'
<1>1. \A r \in Slots : \A j : ~Keeps(call'[r], j)
  BY Arrivals DEF Restart, Keeps, Keeping
<1>2. \A j \in Jobs : pendingOtps'[j] = NoCode
  BY DEF Restart
<1> QED BY <1>1, <1>2 DEF Restart, CodesAgree, OnePlace

\* No code exists at the start.
LEMMA InitKeeps == Init => CodesAgree
  BY Arrivals DEF Init, CodesAgree, OnePlace, Keeps, Keeping

\* With mock payments every step leaves each code in at most one place.
LEMMA NextKeeps == Mock /\ TypeOK /\ CodesAgree /\ [Next]_vars => CodesAgree'
<1> SUFFICES ASSUME Mock, TypeOK, CodesAgree, [Next]_vars PROVE CodesAgree'
  OBVIOUS
<1>1. ASSUME NEW r \in Slots, Start(r) PROVE CodesAgree'
  BY <1>1, IntakeKeeps, CheckoutStartKeeps, ClaimKeeps, RefundKeeps DEF Start
<1>2. ASSUME NEW r \in Slots, Step(r) PROVE CodesAgree'
  <2>1. CASE CheckoutStep(r)
    BY <2>1, PayKeeps, MarkKeeps, ShowKeeps DEF CheckoutStep
  <2> QED BY <1>2, <2>1, IntakeKeeps, ClaimKeeps, RefundKeeps DEF Step
<1>3. CASE Environment
  <2>1. UNCHANGED <<pay, codes, call>>
    BY <1>3 DEF Environment, Create, Elapse, Age, LoseAgent, Download, Capture, ProviderRefunds,
                UNTOUCHED, ELSEWHERE, BEYOND, OUTSIDE, money
  <2> QED BY <2>1 DEF CodesAgree, codes
<1>4. CASE Restart
  BY <1>4, RestartKeeps
<1>5. CASE UNCHANGED vars
  BY <1>5 DEF vars, CodesAgree
<1> QED BY <1>1, <1>2, <1>3, <1>4, <1>5 DEF Next

\* With mock payments, however many pay() calls and polls of a page overlap, the
\* digits of a code are handed out once.
THEOREM CodeIsShownOnce == Mock /\ Spec => []CodeShownOnce
<1>1. Init => CodesAgree
  BY InitKeeps
<1>2. Mock /\ TypeOK /\ CodesAgree /\ [Next]_vars => CodesAgree'
  BY NextKeeps
<1>3. CodesAgree => CodeShownOnce
  <2> SUFFICES ASSUME CodesAgree, NEW j \in Jobs
               PROVE  /\ pendingOtps[j] # NoCode => phone[j] = NoCode /\ Showing(j) = {}
                      /\ Cardinality(Showing(j)) <= 1
    BY DEF CodeShownOnce
  <2>1. \A r \in Showing(j) : r \in Slots /\ Keeps(call[r], j)
    BY DEF Showing, Keeps, Keeping
  <2>2. pendingOtps[j] # NoCode => phone[j] = NoCode /\ Showing(j) = {}
    BY <2>1 DEF CodesAgree, OnePlace
  <2>3. Showing(j) = {} \/ \E r : Showing(j) = {r}
    BY <2>1 DEF CodesAgree, OnePlace
  <2>4. Cardinality(Showing(j)) <= 1
    <3>1. Cardinality({}) = 0 /\ \A r : Cardinality({r}) = 1
      BY FS_EmptySet, FS_Singleton
    <3>2. Cardinality(Showing(j)) \in {0, 1}
      BY <2>3, <3>1
    <3> QED BY <3>2
  <2> QED BY <2>2, <2>4
<1>4. ASSUME Mock PROVE Spec => []CodesAgree
  <2>1. TypeOK /\ CodesAgree /\ [Next]_vars => CodesAgree'
    BY <1>2, <1>4
  <2> QED BY <1>1, <2>1, TypeCorrectness, PTL DEF Spec
<1>5. ASSUME Mock PROVE Spec => []CodeShownOnce
  BY <1>3, <1>4, <1>5, PTL
<1> QED BY <1>5

------------------------------------------------------------------------------
(***************************************************************************)
(* What one step may do to handlers and to rows, for any requests in       *)
(* flight, restarts and payment mode.                                      *)
(***************************************************************************)

\* A handler whose frame was g comes to one of the places pcs with frame f only
\* if it was there already, for the same job, or the row is open to it.
Comes(pcs, open, g, f) == f.pc \in pcs => open \/ (g.pc \in pcs /\ g.job = f.job)

FrameOn(g, f) ==
  /\ Comes(Preparing, job[f.job].state \notin AfterPayment, g, f)
  /\ Comes(Rolling, job[f.job].state \notin AfterPayment, g, f)
  /\ Comes(Paying, job[f.job].state \notin AfterPayment, g, f)
  /\ Comes(Taking, job[f.job].state = "QUEUED", g, f)
  /\ Comes(Publishing, g.pc \in Rolling /\ g.job = f.job, g, f)

FramesOn == \A s \in Slots : call'[s] = call[s] \/ FrameOn(call[s], call'[s])

Served == {"PRINTING", "COMPLETED", "FAILED", "EXPIRED", "REFUNDED"}

\* A paid row, unless a handler of before the payment is in flight, keeps its
\* settings, and is only moved on, or queued by a handler that issues its code.
RowOn(j) ==
  \/ job[j].state \notin AfterPayment
  \/ InFlight(Preparing, j)
  \/ /\ job'[j].price = job[j].price /\ job'[j].keys \subseteq job[j].keys
     /\ \/ /\ job'[j].state \in {job[j].state} \cup Served
           /\ job'[j].otp \in {job[j].otp, NoCode}
        \/ InFlight(Rolling, j) /\ job'[j].state \in AfterPayment
RowsOn == \A j \in Jobs : RowOn(j)

DisksOn == \A j \in Jobs : disk'[j] \subseteq disk[j] \/ InFlight(Preparing, j)

BooksOn ==
  \A j \in Jobs :
    \/ pay[j].status \notin BookedAs
    \/ InFlight(Paying, j)
    \/ /\ pay'[j].status \in BookedAs
       /\ \A x \in {"order", "amount", "payId"} : pay'[j][x] = pay[j][x]

CodesOn == \A j \in Jobs : \/ pendingOtps'[j] \in {pendingOtps[j], NoCode}
                           \/ InFlight(Publishing, j)

RunsOn == \A j \in Jobs : Runs(j)' <= Runs(j) \/ InFlight(Taking, j)

InTime == FramesOn /\ RowsOn /\ DisksOn /\ BooksOn /\ CodesOn /\ RunsOn

\* A place that no handler of job j is at stays empty while the row keeps them out.
LEMMA StaysEmpty ==
  ASSUME TypeOK, FramesOn, NEW j \in Jobs
  PROVE  /\ job[j].state \in AfterPayment =>
              /\ ~InFlight(Preparing, j) => ~InFlight(Preparing, j)'
              /\ ~InFlight(Rolling, j) => ~InFlight(Rolling, j)'
              /\ ~InFlight(Paying, j) => ~InFlight(Paying, j)'
         /\ job[j].state # "QUEUED" => (~InFlight(Taking, j) => ~InFlight(Taking, j)')
         /\ ~InFlight(Rolling, j) => (~InFlight(Publishing, j) => ~InFlight(Publishing, j)')
<1>1. ASSUME job[j].state \in AfterPayment
      PROVE  /\ ~InFlight(Preparing, j) => ~InFlight(Preparing, j)'
             /\ ~InFlight(Rolling, j) => ~InFlight(Rolling, j)'
             /\ ~InFlight(Paying, j) => ~InFlight(Paying, j)'
  BY <1>1 DEF FramesOn, FrameOn, Comes, InFlight
<1>2. ASSUME job[j].state # "QUEUED", ~InFlight(Taking, j) PROVE ~InFlight(Taking, j)'
  BY <1>2 DEF FramesOn, FrameOn, Comes, InFlight
<1>3. ASSUME ~InFlight(Rolling, j), ~InFlight(Publishing, j) PROVE ~InFlight(Publishing, j)'
  BY <1>3 DEF FramesOn, FrameOn, Comes, InFlight
<1> QED BY <1>1, <1>2, <1>3

\* The four promises follow from these facts about a step.
LEMMA PromisesKept ==
  ASSUME TypeOK, InTime, NEW j \in Jobs
  PROVE  StaysLocked(j) /\ StaysCoded(j) /\ StaysTaken(j) /\ StaysBooked(j)
<1>0. Served \subseteq AfterPayment /\ Served = AfterPayment \ {"QUEUED"}
  BY DEF Served, AfterPayment
<1>1. ASSUME Locked(j)
      PROVE  /\ Locked(j)' /\ job'[j].price = job[j].price
             /\ job'[j].keys \subseteq job[j].keys /\ disk'[j] \subseteq disk[j]
  <2>1. job[j].state \in AfterPayment /\ ~InFlight(Preparing, j)
    BY <1>1 DEF Locked
  <2>2. ~InFlight(Preparing, j)' /\ RowOn(j) /\ disk'[j] \subseteq disk[j]
    BY <2>1, StaysEmpty DEF InTime, RowsOn, DisksOn
  <2> QED BY <1>0, <2>1, <2>2 DEF RowOn, Locked
<1>2. ASSUME Coded(j)
      PROVE  /\ Coded(j)' /\ job'[j].otp \in {job[j].otp, NoCode}
             /\ job'[j].state \in {job[j].state} \cup Served
  <2>1. job[j].state \in AfterPayment /\ ~InFlight(Preparing, j) /\ ~InFlight(Rolling, j)
    BY <1>2 DEF Coded, Locked
  <2>2. ~InFlight(Rolling, j)' /\ RowOn(j) /\ Locked(j)'
    BY <1>1, <1>2, <2>1, StaysEmpty DEF InTime, RowsOn, Coded
  <2> QED BY <2>1, <2>2 DEF RowOn, Coded
<1>3. StaysCoded(j)
  <2>1. ASSUME Coded(j), ~InFlight(Publishing, j)
        PROVE  ~InFlight(Publishing, j)' /\ pendingOtps'[j] \in {pendingOtps[j], NoCode}
    BY <2>1, StaysEmpty DEF InTime, CodesOn, Coded
  <2> QED BY <1>2, <2>1 DEF StaysCoded
<1>4. ASSUME Taken(j) PROVE Taken(j)' /\ Runs(j)' <= Runs(j)
  <2>1. Coded(j) /\ job[j].state \in Served /\ ~InFlight(Taking, j)
    BY <1>0, <1>4 DEF Taken
  <2>2. ~InFlight(Taking, j)' /\ Runs(j)' <= Runs(j)
    BY <2>1, StaysEmpty DEF InTime, RunsOn, Served
  <2> QED BY <1>0, <1>2, <2>1, <2>2 DEF Taken
<1>5. ASSUME Booked(j)
      PROVE  Booked(j)' /\ \A x \in {"order", "amount", "payId"} : pay'[j][x] = pay[j][x]
  <2>1. Locked(j) /\ job[j].state \in AfterPayment /\ pay[j].status \in BookedAs /\ ~InFlight(Paying, j)
    BY <1>5 DEF Booked, Locked
  <2>2. /\ ~InFlight(Paying, j)' /\ pay'[j].status \in BookedAs
        /\ \A x \in {"order", "amount", "payId"} : pay'[j][x] = pay[j][x]
    BY <2>1, StaysEmpty DEF InTime, BooksOn
  <2> QED BY <1>1, <2>1, <2>2 DEF Booked
<1> QED BY <1>1, <1>3, <1>4, <1>5 DEF StaysLocked, StaysTaken, StaysBooked

\* Tables that a step leaves alone.
LEMMA Untouched ==
  ASSUME TypeOK
  PROVE  /\ UNCHANGED call => FramesOn
         /\ UNCHANGED job => RowsOn
         /\ UNCHANGED disk => DisksOn
         /\ UNCHANGED pay => BooksOn
         /\ UNCHANGED pendingOtps => CodesOn
         /\ UNCHANGED agent => RunsOn
<1>1. UNCHANGED agent => \A j \in Jobs : Runs(j)' = Runs(j) /\ Runs(j) \in Nat
  BY DEF agent, Runs, TypeOK, Files
<1>2. UNCHANGED agent => RunsOn
  <2>1. \A x \in Nat : x <= x
    OBVIOUS
  <2> QED BY <1>1, <2>1 DEF RunsOn
<1> QED BY <1>2 DEF FramesOn, RowsOn, RowOn, DisksOn, BooksOn, CodesOn

\* Any place that a frame may come to only in time.
Watched == Preparing \cup Rolling \cup Paying \cup Publishing \cup Taking

\* A handler goes on with frame f.
LEMMA GoesOn ==
  ASSUME TypeOK, NEW r \in Slots, NEW f, SetFrame(r, f), f.pc \in Watched => FrameOn(call[r], f)
  PROVE  FramesOn
<1>1. f.pc \notin Watched => FrameOn(call[r], f)
  BY DEF Watched, FrameOn, Comes
<1>2. \A s \in Slots : call'[s] = IF s = r THEN f ELSE call[s]
  BY FrameParts
<1> QED BY <1>1, <1>2 DEF FramesOn

\* It stays with its job, and at the places where it was.
LEMMA StaysThere ==
  ASSUME TypeOK, NEW r \in Slots, NEW f, SetFrame(r, f), f.job = call[r].job,
         f.pc \in Preparing => call[r].pc \in Preparing,
         f.pc \in Rolling => call[r].pc \in Rolling \/ job[f.job].state \notin AfterPayment,
         f.pc \in Paying => call[r].pc \in Paying,
         f.pc \in Taking => call[r].pc \in Taking,
         f.pc \in Publishing => call[r].pc \in Rolling \cup Publishing
  PROVE  FramesOn
<1>1. FrameOn(call[r], f)
  BY DEF FrameOn, Comes
<1> QED BY <1>1, GoesOn

\* It ends, or goes on at pc.
LEMMA EndsOrGoes ==
  ASSUME TypeOK, NEW r \in Slots
  PROVE  /\ Finish(r) => FramesOn
         /\ \A pc : /\ Goto(r, pc)
                    /\ pc \in Preparing => call[r].pc \in Preparing
                    /\ pc \in Rolling => call[r].pc \in Rolling
                    /\ pc \in Paying => call[r].pc \in Paying
                    /\ pc \in Taking => call[r].pc \in Taking
                    /\ pc \in Publishing => call[r].pc \in Rolling \cup Publishing
                    => FramesOn
<1>1. IdleFrame.pc \notin Watched
  BY Arrivals DEF Watched, Preparing, Rolling, Paying, Publishing, Taking
<1>2. Finish(r) => FramesOn
  BY <1>1, GoesOn DEF Finish
<1>3. ASSUME NEW pc, Goto(r, pc),
             pc \in Preparing => call[r].pc \in Preparing,
             pc \in Rolling => call[r].pc \in Rolling,
             pc \in Paying => call[r].pc \in Paying,
             pc \in Taking => call[r].pc \in Taking,
             pc \in Publishing => call[r].pc \in Rolling \cup Publishing
      PROVE  FramesOn
  <2> DEFINE f == [call[r] EXCEPT !.pc = pc]
  <2>1. f.pc = pc /\ f.job = call[r].job
    BY FrameParts
  <2>2. SetFrame(r, f)
    BY <1>3 DEF Goto
  <2> HIDE DEF f
  <2> QED BY <1>3, <2>1, <2>2, StaysThere
<1> QED BY <1>2, <1>3

\* The writes to one row that leave its settings and its code alone.
LEMMA RowWrites ==
  ASSUME TypeOK, NEW i \in Jobs
  PROVE  /\ \A K \in SUBSET job[i].keys : job' = [job EXCEPT ![i].keys = K] => RowsOn
         /\ \A n : job' = [job EXCEPT ![i].tries = n] => RowsOn
         /\ \A b : job' = [job EXCEPT ![i].shown = b] => RowsOn
         /\ \A s \in Served : job' = [job EXCEPT ![i].state = s] => RowsOn
         /\ \A s \in Served : job' = [job EXCEPT ![i].state = s, ![i].otp = NoCode] => RowsOn
<1>0. job \in [Jobs -> JobRow]
  BY JobRows
<1>1. ASSUME job'[i].price = job[i].price, job'[i].keys \subseteq job[i].keys,
             job'[i].state \in {job[i].state} \cup Served, job'[i].otp \in {job[i].otp, NoCode},
             \A j \in Jobs : j # i => job'[j] = job[j]
      PROVE  RowsOn
  BY <1>1 DEF RowsOn, RowOn
<1>2. ASSUME NEW K \in SUBSET job[i].keys, job' = [job EXCEPT ![i].keys = K] PROVE RowsOn
  BY <1>0, <1>1, <1>2 DEF JobRow
<1>3. ASSUME NEW n, job' = [job EXCEPT ![i].tries = n] PROVE RowsOn
  BY <1>0, <1>1, <1>3 DEF JobRow
<1>4. ASSUME NEW b, job' = [job EXCEPT ![i].shown = b] PROVE RowsOn
  BY <1>0, <1>1, <1>4 DEF JobRow
<1>5. ASSUME NEW s \in Served, job' = [job EXCEPT ![i].state = s] PROVE RowsOn
  BY <1>0, <1>1, <1>5 DEF JobRow
<1>6. ASSUME NEW s \in Served, job' = [job EXCEPT ![i].state = s, ![i].otp = NoCode] PROVE RowsOn
  BY <1>0, <1>1, <1>6 DEF JobRow
<1> QED BY <1>2, <1>3, <1>4, <1>5, <1>6

\* Uploads, conversions and prices: each looks at the row when it arrives.
LEMMA IntakeInTime ==
  ASSUME TypeOK, NEW r \in Slots, IntakeStart(r) \/ IntakeStep(r)
  PROVE  InTime
<1> DEFINE i == call[r].job
<1> USE DEF UNTOUCHED
<1>0. UNCHANGED <<pay, pendingOtps, agent>>
  BY DEF IntakeStart, IntakeStep, StartUpload, StartProcess, StartPrice, StoreUpload, SaveUpload,
         Inspect, FailJob, StoreArtifact, SavePages, Compose, SavePrice, money, codes
<1>1. RowsOn /\ DisksOn /\ FramesOn => InTime
  BY <1>0, Untouched DEF InTime
<1>2. ASSUME NEW f, SetFrame(r, f), f.pc \in Preparing, job[f.job].state \notin AfterPayment
      PROVE  FramesOn
  <2>1. FrameOn(call[r], f)
    BY <1>2 DEF FrameOn, Comes, Preparing, Rolling, Paying, Publishing, Taking
  <2> QED BY <1>2, <2>1, GoesOn
<1>3. ASSUME IntakeStart(r) PROVE InTime
  <2>1. UNCHANGED <<job, disk>>
    BY <1>3 DEF IntakeStart, StartUpload, StartProcess, StartPrice
  <2>2. ASSUME NEW j \in Jobs, StartUpload(r, j) \/ StartProcess(r, j) PROVE FramesOn
    <3>1. \A op, pc : Arrive(op, pc, j).pc = pc /\ Arrive(op, pc, j).job = j
      BY ArriveFacts
    <3>2. job[j].state \notin AfterPayment
      BY <2>2 DEF StartUpload, StartProcess, AfterPayment
    <3> QED BY <1>2, <2>2, <3>1, <3>2 DEF StartUpload, StartProcess, Preparing
  <2>3. ASSUME NEW j \in Jobs, NEW p \in Prices, NEW photo \in BOOLEAN, StartPrice(r, j, p, photo)
        PROVE  FramesOn
    <3> DEFINE f == [Arrive("price", "savePrice", j) EXCEPT
                       !.n = p, !.held = [NoFiles EXCEPT ![j] = job[j].keys \cap {"print"}]]
               g == [f EXCEPT !.pc = "compose"]
    <3>1. f.pc = "savePrice" /\ f.job = j /\ g.pc = "compose" /\ g.job = j
      BY DEF Arrive, IdleFrame
    <3>2. SetFrame(r, f) \/ SetFrame(r, g)
      BY <2>3 DEF StartPrice
    <3>3. job[j].state \notin AfterPayment
      BY <2>3 DEF StartPrice, AfterPayment
    <3> HIDE DEF f, g
    <3> QED BY <1>2, <3>1, <3>2, <3>3 DEF Preparing
  <2> QED BY <1>1, <1>3, <2>1, <2>2, <2>3, Untouched DEF IntakeStart
<1>4. ASSUME IntakeStep(r) PROVE InTime
  <2>1. i \in Jobs /\ call[r].pc \in Preparing \cup {"failJob"}
    BY <1>4, Working DEF IntakeStep, StoreUpload, SaveUpload, Inspect, FailJob, StoreArtifact,
          SavePages, Compose, SavePrice, At, Preparing
  <2>2. FramesOn
    <3>1. CASE StoreArtifact(r)
      <4>1. PICK pc \in {"savePages", "savePrice"} :
              SetFrame(r, [call[r] EXCEPT !.held[i] = @ \cup {"print"}, !.pc = pc])
        BY <3>1 DEF StoreArtifact
      <4>2. \A h : LET f == [call[r] EXCEPT !.held = h, !.pc = pc] IN f.pc = pc /\ f.job = i
        BY FrameParts DEF FrameFields
      <4>3. call[r].pc \in Preparing
        BY <3>1 DEF StoreArtifact, At, Preparing
      <4>4. ASSUME NEW f, SetFrame(r, f), f.pc = pc, f.job = i PROVE FramesOn
        BY <4>3, <4>4, StaysThere DEF Rolling, Paying, Publishing, Taking
      <4> QED BY <4>1, <4>2, <4>4
    <3>2. CASE ~StoreArtifact(r)
      <4>1. \/ Finish(r)
            \/ /\ call[r].pc \in Preparing
               /\ \E pc \in {"saveUpload", "failJob", "storeArtifact", "savePages"} : Goto(r, pc)
        BY <1>4, <3>2 DEF IntakeStep, StoreUpload, SaveUpload, Inspect, FailJob, SavePages, Compose,
                          SavePrice, At, Preparing
      <4> QED BY <4>1, EndsOrGoes DEF Preparing, Rolling, Paying, Publishing, Taking
    <3> QED BY <3>1, <3>2
  <2>3. RowsOn
    <3>1. CASE FailJob(r)
      BY <2>1, <3>1, RowWrites DEF FailJob, Served
    <3>2. ASSUME ~FailJob(r) PROVE RowsOn
      <4>1. InFlight(Preparing, i)
        BY <1>4, <3>2 DEF IntakeStep, StoreUpload, SaveUpload, Inspect, StoreArtifact, SavePages,
              Compose, SavePrice, At, Preparing, InFlight
      <4>2. \A j \in Jobs : j # i => job'[j] = job[j]
        BY <1>4, <2>1, <3>2, JobRows DEF IntakeStep, StoreUpload, SaveUpload, Inspect, StoreArtifact,
              SavePages, Compose, SavePrice
      <4> QED BY <4>1, <4>2 DEF RowsOn, RowOn
    <3> QED BY <3>1, <3>2
  <2>4. DisksOn
    <3>1. CASE StoreUpload(r) \/ StoreArtifact(r)
      <4>1. InFlight(Preparing, i)
        BY <3>1 DEF StoreUpload, StoreArtifact, At, Preparing, InFlight
      <4>2. \A j \in Jobs : j # i => disk'[j] = disk[j]
        BY <2>1, <3>1 DEF StoreUpload, StoreArtifact, TypeOK
      <4> QED BY <4>1, <4>2 DEF DisksOn
    <3>2. CASE ~(StoreUpload(r) \/ StoreArtifact(r))
      <4>1. UNCHANGED disk
        BY <1>4, <3>2 DEF IntakeStep, SaveUpload, Inspect, FailJob, SavePages, Compose, SavePrice
      <4> QED BY <4>1, Untouched
    <3> QED BY <3>1, <3>2
  <2> QED BY <1>1, <2>2, <2>3, <2>4
<1> QED BY <1>3, <1>4

\* pay() looks at the row when it arrives, and so does markPaidAndQueue.
LEMMA CheckoutArrives ==
  ASSUME TypeOK, NEW r \in Slots, CheckoutStart(r)
  PROVE  InTime
<1> USE DEF ELSEWHERE
<1>0. UNCHANGED <<job, pay, disk, pendingOtps, agent>>
  BY DEF CheckoutStart, StartPay, StartCaptured, StartStatus, StartConfirm, money, codes
<1>1. FramesOn => InTime
  BY <1>0, Untouched DEF InTime
<1>2. ASSUME NEW j \in Jobs, StartPay(r, j) PROVE FramesOn
  <2>1. PICK pc \in {"savePayment", "readPayment"} :
          SetFrame(r, [Arrive("pay", pc, j) EXCEPT !.n = job[j].price])
    BY <1>2 DEF StartPay
  <2> DEFINE f == [Arrive("pay", pc, j) EXCEPT !.n = job[j].price]
  <2>2. f.pc = pc /\ f.job = j
    BY ArriveFacts
  <2>3. SetFrame(r, f)
    BY <2>1
  <2> HIDE DEF f
  <2>4. job[j].state \notin AfterPayment
    BY <1>2 DEF StartPay, AfterPayment
  <2>5. FrameOn(call[r], f)
    BY <2>2, <2>4 DEF FrameOn, Comes, Preparing, Rolling, Paying, Publishing, Taking
  <2> QED BY <2>3, <2>5, GoesOn
<1>3. ASSUME NEW f, SetFrame(r, f), f.pc \in {"verify", "mark", "reveal"} PROVE FramesOn
  <2>1. f.pc \notin Watched
    BY <1>3 DEF Watched, Preparing, Rolling, Paying, Publishing, Taking
  <2> QED BY <1>3, <2>1, GoesOn
<1>4. ASSUME NEW j \in Jobs, StartCaptured(r, j) PROVE FramesOn
  <2> DEFINE f == [Arrive("captured", "mark", j) EXCEPT !.ord = pay[j].order]
  <2>1. f.pc = "mark" /\ SetFrame(r, f)
    BY <1>4, ArriveFacts DEF StartCaptured
  <2> HIDE DEF f
  <2> QED BY <1>3, <2>1
<1>5. ASSUME NEW j \in Jobs, StartStatus(r, j) PROVE FramesOn
  BY <1>3, <1>5, ArriveFacts DEF StartStatus
<1>6. ASSUME NEW j \in Jobs, NEW o \in Orders, StartConfirm(r, j, o) PROVE FramesOn
  <2> DEFINE f == [Arrive("confirm", "verify", j) EXCEPT !.ord = o]
  <2>1. f.pc = "verify" /\ SetFrame(r, f)
    BY <1>6, ArriveFacts DEF StartConfirm
  <2> HIDE DEF f
  <2> QED BY <1>3, <2>1
<1> QED BY <1>1, <1>2, <1>4, <1>5, <1>6 DEF CheckoutStart

\* Where the handlers of a payment go.
LEMMA CheckoutFrames ==
  ASSUME TypeOK, NEW r \in Slots, CheckoutStep(r)
  PROVE  FramesOn
<1> DEFINE i == call[r].job
<1>1. ASSUME NEW f, SetFrame(r, f), f.job = i,
             \/ f.pc \in {"mark", "saveShown"}
             \/ f.pc \in Paying /\ call[r].pc \in Paying
             \/ f.pc \in Rolling /\ (call[r].pc \in Rolling \/ job[i].state \notin AfterPayment)
             \/ f.pc \in Publishing /\ call[r].pc \in Rolling \cup Publishing
      PROVE  FramesOn
  BY <1>1, StaysThere DEF Preparing, Rolling, Paying, Publishing, Taking
<1>2. Finish(r) => FramesOn
  BY EndsOrGoes
<1>3. CASE ReadPayment(r)
  <2>1. Finish(r) \/ \E b : SetFrame(r, [call[r] EXCEPT !.pc = "createOrder", !.seen = b])
    BY <1>3 DEF ReadPayment
  <2>2. \A b : LET f == [call[r] EXCEPT !.pc = "createOrder", !.seen = b]
               IN  f.pc = "createOrder" /\ f.job = i
    BY SameJob
  <2>3. "createOrder" \in Paying /\ call[r].pc \in Paying
    BY <1>3 DEF ReadPayment, At, Paying
  <2> QED BY <1>1, <1>2, <2>1, <2>2, <2>3
<1>4. CASE CreateOrder(r)
  <2>1. Finish(r) \/ \E o : SetFrame(r, [call[r] EXCEPT !.pc = "savePayment", !.ord = o])
    BY <1>4 DEF CreateOrder
  <2>2. \A o : LET f == [call[r] EXCEPT !.pc = "savePayment", !.ord = o]
               IN  f.pc = "savePayment" /\ f.job = i
    BY SameJob
  <2>3. "savePayment" \in Paying /\ call[r].pc \in Paying
    BY <1>4 DEF CreateOrder, At, Paying
  <2> QED BY <1>1, <1>2, <2>1, <2>2, <2>3
<1>5. CASE SaveMockPayment(r)
  <2>1. Finish(r) \/ \E o : SetFrame(r, [call[r] EXCEPT !.pc = "mark", !.ord = o])
    BY <1>5 DEF SaveMockPayment
  <2>2. \A o : LET f == [call[r] EXCEPT !.pc = "mark", !.ord = o] IN f.pc = "mark" /\ f.job = i
    BY SameJob
  <2> QED BY <1>1, <1>2, <2>1, <2>2
<1>6. CASE Mark(r)
  <2>1. \/ Finish(r)
        \/ /\ job[i].state = "AWAITING_PAYMENT"
           /\ \E c : SetFrame(r, [call[r] EXCEPT !.pc = "roll", !.code = c, !.n = 0])
    BY <1>6 DEF Mark
  <2>2. \A c : LET f == [call[r] EXCEPT !.pc = "roll", !.code = c, !.n = 0]
               IN  f.pc = "roll" /\ f.job = i
    BY SameJob
  <2>3. "roll" \in Rolling /\ "AWAITING_PAYMENT" \notin AfterPayment
    BY DEF Rolling, AfterPayment
  <2> QED BY <1>1, <1>2, <2>1, <2>2, <2>3
<1>7. CASE Roll(r)
  <2>1. \/ Goto(r, "queue")
        \/ \E c, n : \E pc \in Rolling : SetFrame(r, [call[r] EXCEPT !.code = c, !.n = n, !.pc = pc])
    BY <1>7 DEF Roll, Rolling
  <2>2. call[r].pc \in Rolling
    BY <1>7 DEF Roll, At, Rolling
  <2>3. ASSUME NEW c, NEW n, NEW pc \in Rolling,
               SetFrame(r, [call[r] EXCEPT !.code = c, !.n = n, !.pc = pc])
        PROVE  FramesOn
    <3> DEFINE f == [call[r] EXCEPT !.code = c, !.n = n, !.pc = pc]
    <3>1. f.pc = pc /\ f.job = i
      BY SameJob
    <3>2. SetFrame(r, f)
      BY <2>3
    <3> HIDE DEF f
    <3> QED BY <1>1, <2>2, <3>1, <3>2
  <2>4. Goto(r, "queue") => FramesOn
    BY <2>2, EndsOrGoes DEF Preparing, Rolling, Paying, Publishing, Taking
  <2> QED BY <2>1, <2>3, <2>4
<1>8. CASE Queue(r) \/ RecordCapture(r)
  <2>1. call[r].pc \in Rolling \cup Publishing /\ \E pc \in Publishing : Goto(r, pc)
    BY <1>8 DEF Queue, RecordCapture, At, Rolling, Publishing
  <2> QED BY <2>1, EndsOrGoes DEF Preparing, Rolling, Paying, Publishing, Taking
<1>9. CASE Reveal(r)
  <2>1. Finish(r) \/ \E c : SetFrame(r, [call[r] EXCEPT !.pc = "saveShown", !.code = c])
    BY <1>9 DEF Reveal
  <2>2. \A c : LET f == [call[r] EXCEPT !.pc = "saveShown", !.code = c]
               IN  f.pc = "saveShown" /\ f.job = i
    BY SameJob
  <2> QED BY <1>1, <1>2, <2>1, <2>2
<1>10. CASE SavePayment(r) \/ Verify(r) \/ Publish(r) \/ SaveShown(r)
  <2>1. Finish(r) \/ Goto(r, "mark")
    BY <1>10 DEF SavePayment, Verify, Publish, SaveShown
  <2> QED BY <2>1, EndsOrGoes DEF Preparing, Rolling, Paying, Publishing, Taking
<1> QED BY <1>3, <1>4, <1>5, <1>6, <1>7, <1>8, <1>9, <1>10 DEF CheckoutStep

\* What they write: a code from where codes are issued, a payment row from pay().
LEMMA CheckoutInTime ==
  ASSUME TypeOK, NEW r \in Slots, CheckoutStep(r)
  PROVE  InTime
<1> DEFINE i == call[r].job
<1> USE DEF ELSEWHERE
<1>0. i \in Jobs
  BY Working DEF CheckoutStep, ReadPayment, CreateOrder, SavePayment, SaveMockPayment, Verify, Mark,
        Roll, Queue, RecordCapture, Publish, Reveal, SaveShown, At
<1>1. UNCHANGED <<disk, agent>>
  BY DEF CheckoutStep, ReadPayment, CreateOrder, SavePayment, SaveMockPayment, Verify, Mark,
        Roll, Queue, RecordCapture, Publish, Reveal, SaveShown
<1>2. RowsOn
  <2>1. CASE Queue(r)
    <3>1. InFlight(Rolling, i)
      BY <2>1 DEF Queue, At, Rolling, InFlight
    <3>2. /\ \A j \in Jobs : j # i => job'[j] = job[j]
          /\ job'[i].state = "QUEUED" /\ job'[i].price = job[i].price /\ job'[i].keys = job[i].keys
      BY <1>0, <2>1, JobRows DEF Queue, JobRow
    <3> QED BY <3>1, <3>2 DEF RowsOn, RowOn, AfterPayment
  <2>2. CASE SaveShown(r)
    BY <1>0, <2>2, RowWrites DEF SaveShown
  <2>3. ASSUME ~Queue(r), ~SaveShown(r) PROVE RowsOn
    <3>1. UNCHANGED job
      BY <2>3 DEF CheckoutStep, ReadPayment, CreateOrder, SavePayment, SaveMockPayment, Verify, Mark,
            Roll, RecordCapture, Publish, Reveal
    <3> QED BY <3>1, Untouched
  <2> QED BY <2>1, <2>2, <2>3
<1>3. BooksOn
  <2>1. CASE SavePayment(r) \/ SaveMockPayment(r)
    <3>1. InFlight(Paying, i)
      BY <2>1 DEF SavePayment, SaveMockPayment, At, Paying, InFlight
    <3>2. \A j \in Jobs : j # i => pay'[j] = pay[j]
      BY <1>0, <2>1 DEF SavePayment, SaveMockPayment, TypeOK, money
    <3> QED BY <3>1, <3>2 DEF BooksOn
  <2>2. CASE RecordCapture(r)
    <3>1. pay[i].status \in BookedAs => UNCHANGED pay
      BY <2>2 DEF RecordCapture, BookedAs
    <3>2. \A j \in Jobs : j # i => pay'[j] = pay[j]
      BY <1>0, <2>2 DEF RecordCapture, TypeOK
    <3> QED BY <3>1, <3>2 DEF BooksOn
  <2>3. ASSUME ~SavePayment(r), ~SaveMockPayment(r), ~RecordCapture(r) PROVE BooksOn
    <3>1. UNCHANGED pay
      BY <2>3 DEF CheckoutStep, ReadPayment, CreateOrder, Verify, Mark, Roll, Queue, Publish, Reveal,
            SaveShown, money
    <3> QED BY <3>1, Untouched
  <2> QED BY <2>1, <2>2, <2>3
<1>4. CodesOn
  <2>1. pendingOtps \in [Jobs -> Otps \cup {NoCode}]
    BY DEF TypeOK
  <2>2. CASE Publish(r)
    <3>1. InFlight(Publishing, i)
      BY <2>2 DEF Publish, At, Publishing, InFlight
    <3>2. \A j \in Jobs : j # i => pendingOtps'[j] = pendingOtps[j]
      BY <1>0, <2>1, <2>2 DEF Publish
    <3> QED BY <3>1, <3>2 DEF CodesOn
  <2>3. CASE Reveal(r)
    BY <1>0, <2>1, <2>3 DEF Reveal, CodesOn
  <2>4. ASSUME ~Publish(r), ~Reveal(r) PROVE CodesOn
    <3>1. UNCHANGED pendingOtps
      BY <2>4 DEF CheckoutStep, ReadPayment, CreateOrder, SavePayment, SaveMockPayment, Verify, Mark,
            Roll, Queue, RecordCapture, SaveShown, codes
    <3> QED BY <3>1, Untouched
  <2> QED BY <2>2, <2>3, <2>4
<1> QED BY <1>1, <1>2, <1>3, <1>4, CheckoutFrames, Untouched DEF InTime

\* A claim is answered by the row that it found waiting; an agent's run that
\* ends, or goes from its link to the printer, is no new one.
LEMMA ClaimInTime ==
  ASSUME TypeOK, NEW r \in Slots, ClaimStart(r) \/ ClaimStep(r)
  PROVE  InTime
<1> DEFINE i == call[r].job
<1> USE DEF BEYOND
<1>0. UNCHANGED <<pay, disk, pendingOtps>>
  BY DEF ClaimStart, ClaimStep, StartClaimJob, StartClaimCode, StartCompleted, StartFailed, ReportTo,
         Charge, Take, HandOver, Complete, SaveFailed, money, codes
<1>1. FramesOn /\ RowsOn /\ RunsOn => InTime
  BY <1>0, Untouched DEF InTime
<1>2. ASSUME NEW j \in Jobs, Waiting(j), UNCHANGED <<job, agent>>,
             SetFrame(r, TakeFrame(j)) \/ SetFrame(r, ChargeFrame(j))
      PROVE  InTime
  <2>1. /\ TakeFrame(j).pc = "take" /\ TakeFrame(j).job = j
        /\ ChargeFrame(j).pc = "charge" /\ ChargeFrame(j).job = j
    BY ArriveFacts DEF TakeFrame, ChargeFrame
  <2>2. job[j].state = "QUEUED"
    BY <1>2 DEF Waiting
  <2>3. FrameOn(call[r], TakeFrame(j)) /\ ChargeFrame(j).pc \notin Watched
    BY <2>1, <2>2 DEF FrameOn, Comes, Watched, Preparing, Rolling, Paying, Publishing, Taking
  <2> QED BY <1>1, <1>2, <2>3, GoesOn, Untouched
<1>3. ASSUME NEW j \in Jobs, NEW c \in Otps, StartClaimJob(r, j, c) PROVE InTime
  BY <1>2, <1>3 DEF StartClaimJob
<1>4. ASSUME NEW k \in Kiosks, NEW c \in Otps, StartClaimCode(r, k, c) PROVE InTime
  <2> DEFINE matches == {j \in Candidates(k) : job[j].otp = c}
  <2>1. \A S \in SUBSET Candidates(k) : S # {} => Oldest(S) \in Jobs /\ Waiting(Oldest(S))
    BY OldestType DEF Candidates
  <2>2. \E j \in Jobs : Waiting(j) /\ (SetFrame(r, TakeFrame(j)) \/ SetFrame(r, ChargeFrame(j)))
    BY <1>4, <2>1 DEF StartClaimCode
  <2> QED BY <1>2, <1>4, <2>2 DEF StartClaimCode
<1>5. ASSUME NEW j \in Jobs, NEW op, NEW pc \in {"complete", "refundRead"}, ReportTo(r, j, op, pc)
      PROVE  InTime
  <2>1. UNCHANGED <<job, links>> /\ printing' = [printing EXCEPT ![j] = @ - 1] /\ printing[j] > 0
    BY <1>5 DEF ReportTo
  <2>2. RunsOn
    <3>1. \A k \in Jobs : Runs(k)' <= Runs(k)
      <4> TAKE k \in Jobs
      <4>1. /\ links[k]["file"] \in Nat /\ links[k]["print"] \in Nat /\ printing[k] \in Nat
            /\ printing'[k] = IF k = j THEN printing[k] - 1 ELSE printing[k]
        BY <2>1 DEF TypeOK, Files
      <4> QED BY <2>1, <4>1 DEF Runs
    <3> QED BY <3>1 DEF RunsOn
  <2>3. CASE UNCHANGED call
    BY <1>1, <2>1, <2>2, <2>3, Untouched
  <2>4. CASE SetFrame(r, [Arrive(op, pc, j) EXCEPT !.held = Holding(j)])
    <3> DEFINE f == [Arrive(op, pc, j) EXCEPT !.held = Holding(j)]
    <3>1. f.pc = pc /\ SetFrame(r, f)
      BY <2>4, ArriveFacts
    <3> HIDE DEF f
    <3>2. f.pc \notin Watched
      BY <3>1 DEF Watched, Preparing, Rolling, Paying, Publishing, Taking
    <3> QED BY <1>1, <2>1, <2>2, <3>1, <3>2, GoesOn, Untouched
  <2> QED BY <1>5, <2>3, <2>4 DEF ReportTo
<1>6. CASE HandOver(r)
  <2>1. i \in Jobs /\ InFlight(Taking, i) /\ UNCHANGED <<job, printing>> /\ Finish(r)
    BY <1>6, Working DEF HandOver, At, Taking, InFlight
  <2>2. \A j \in Jobs : j # i => links'[j] = links[j]
    <3>1. UNCHANGED links \/ \E w : links' = [links EXCEPT ![i][w] = @ + 1]
      BY <1>6 DEF HandOver
    <3> QED BY <2>1, <3>1 DEF TypeOK
  <2>3. \A j \in Jobs : j # i => Runs(j)' = Runs(j) /\ Runs(j) \in Nat
    BY <2>1, <2>2 DEF Runs, TypeOK, Files
  <2>4. RunsOn
    <3>1. \A x \in Nat : x <= x
      OBVIOUS
    <3> QED BY <2>1, <2>3, <3>1 DEF RunsOn
  <2> QED BY <1>1, <2>1, <2>4, EndsOrGoes, Untouched
<1>7. CASE Take(r) \/ Charge(r) \/ Complete(r) \/ SaveFailed(r)
  <2>1. i \in Jobs /\ UNCHANGED agent
    BY <1>7, Working DEF Take, Charge, Complete, SaveFailed, At
  <2>2. RowsOn
    <3>1. \/ \E n : job' = [job EXCEPT ![i].tries = n]
          \/ \E s \in Served : job' = [job EXCEPT ![i].state = s]
          \/ \E s \in Served : job' = [job EXCEPT ![i].state = s, ![i].otp = NoCode]
      BY <1>7 DEF Take, Charge, Complete, SaveFailed, Served
    <3> QED BY <2>1, <3>1, RowWrites
  <2>3. FramesOn
    <3>1. \/ Finish(r) \/ Goto(r, "delete")
          \/ Goto(r, "handOver") /\ call[r].pc = "take"
      BY <1>7 DEF Take, Charge, Complete, SaveFailed, At
    <3> QED BY <3>1, EndsOrGoes DEF Preparing, Rolling, Paying, Publishing, Taking
  <2> QED BY <1>1, <2>1, <2>2, <2>3, Untouched
<1> QED BY <1>3, <1>4, <1>5, <1>6, <1>7 DEF ClaimStart, ClaimStep, StartCompleted, StartFailed

\* Refunds, purges and sweeps end jobs, take files away, and book what follows
\* a capture.
LEMMA RefundInTime ==
  ASSUME TypeOK, NEW r \in Slots, RefundStart(r) \/ RefundStep(r)
  PROVE  InTime
<1> DEFINE i == call[r].job
<1>1. FramesOn
  <2>1. PICK f : SetFrame(r, f) /\ f.pc \in Refunding
    BY RefundGoes
  <2>2. f.pc \notin Watched
    BY <2>1 DEF Refunding, Watched, Preparing, Rolling, Paying, Publishing, Taking
  <2> QED BY <2>1, <2>2, GoesOn
<1>2. UNCHANGED <<pendingOtps, agent>>
  BY DEF RefundStart, RefundStep, StartManualRefund, StartRefunded, StartSweep, RefundRead, RefundCall,
         RefundSave, RefundFinal, RefundPending, SettleRead, SettlePayment, SettleJob, Delete, Forget,
         SweepJob, Expire, ReadKeys, FindLeftovers, SweepFile, OUTSIDE, codes
<1>3. RowsOn
  <2>1. CASE RefundFinal(r) \/ RefundPending(r) \/ SettleJob(r) \/ Expire(r) \/ Forget(r)
    <3>1. i \in Jobs
      BY <2>1, Working DEF RefundFinal, RefundPending, SettleJob, Expire, Forget, At
    <3>2. \/ \E s \in Served : job' = [job EXCEPT ![i].state = s]
          \/ job' = [job EXCEPT ![i].keys = {}]
      BY <2>1 DEF RefundFinal, RefundPending, SettleJob, Expire, Forget, Served
    <3>3. {} \in SUBSET job[i].keys
      OBVIOUS
    <3> QED BY <3>1, <3>2, <3>3, RowWrites
  <2>2. CASE ~(RefundFinal(r) \/ RefundPending(r) \/ SettleJob(r) \/ Expire(r) \/ Forget(r))
    <3>1. UNCHANGED job
      BY <2>2 DEF RefundStart, RefundStep, StartManualRefund, StartRefunded, StartSweep, RefundRead,
            RefundCall, RefundSave, SettleRead, SettlePayment, Delete, SweepJob, ReadKeys, FindLeftovers,
            SweepFile
    <3> QED BY <3>1, Untouched
  <2> QED BY <2>1, <2>2
<1>4. DisksOn
  <2>1. CASE Delete(r)
    <3>1. i \in Jobs
      BY <2>1, Working DEF Delete, At
    <3>2. PICK kept \in SUBSET disk[i] : disk' = [disk EXCEPT ![i] = (@ \ call[r].held[i]) \cup kept]
      <4>1. \A kept : kept \in (IF DeleteFails THEN SUBSET (call[r].held[i] \cap disk[i]) ELSE {{}})
                        => kept \in SUBSET disk[i]
        OBVIOUS
      <4> QED BY <2>1, <4>1 DEF Delete
    <3> QED BY <3>1, <3>2 DEF DisksOn, TypeOK
  <2>2. CASE ~Delete(r)
    <3>1. UNCHANGED disk
      BY <2>2 DEF RefundStart, RefundStep, StartManualRefund, StartRefunded, StartSweep, RefundRead,
            RefundCall, RefundSave, RefundFinal, RefundPending, SettleRead, SettlePayment, SettleJob,
            Forget, SweepJob, Expire, ReadKeys, FindLeftovers, SweepFile
    <3> QED BY <3>1, Untouched
  <2> QED BY <2>1, <2>2
<1>5. BooksOn
  <2>1. UNCHANGED pay \/ \E s \in {"refunded", "refund_initiated"} : pay' = [pay EXCEPT ![i].status = s]
    BY DEF RefundStart, RefundStep, StartManualRefund, StartRefunded, StartSweep, RefundRead,
           RefundCall, RefundSave, RefundFinal, RefundPending, SettleRead, SettlePayment, SettleJob,
           Delete, Forget, SweepJob, Expire, ReadKeys, FindLeftovers, SweepFile
  <2>2. pay \in [Jobs -> PaymentRow]
    BY DEF TypeOK
  <2>3. ASSUME NEW s \in {"refunded", "refund_initiated"}, pay' = [pay EXCEPT ![i].status = s]
        PROVE  BooksOn
    <3>1. \A j \in Jobs : /\ pay'[j].status \in {s, pay[j].status}
                          /\ pay'[j].order = pay[j].order /\ pay'[j].amount = pay[j].amount
                          /\ pay'[j].payId = pay[j].payId
      BY <2>2, <2>3 DEF PaymentRow
    <3> QED BY <3>1 DEF BooksOn, BookedAs
  <2> QED BY <2>1, <2>3, Untouched
<1> QED BY <1>1, <1>2, <1>3, <1>4, <1>5, Untouched DEF InTime

\* Customers, agents, the provider and the clock write no row of a paid job.
LEMMA EnvironmentInTime ==
  ASSUME TypeOK, Environment
  PROVE  InTime
<1> USE DEF UNTOUCHED, ELSEWHERE, BEYOND, OUTSIDE, money, codes
<1>0. UNCHANGED <<call, pay, disk, pendingOtps>>
  BY DEF Environment, Create, Elapse, Age, LoseAgent, Download, Capture, ProviderRefunds
<1>1. RowsOn /\ RunsOn => InTime
  BY <1>0, Untouched DEF InTime
<1>2. \A j \in Jobs : /\ links[j]["file"] \in Nat /\ links[j]["print"] \in Nat
                      /\ printing[j] \in Nat /\ links[j] \in [Files -> Nat]
  BY DEF TypeOK, Files
<1>3. ASSUME NEW j \in Jobs, Create(j) PROVE InTime
  <2>1. job[j].state = "NONE" /\ UNCHANGED agent /\ job' = [job EXCEPT ![j].state = "UPLOADED"]
    BY <1>3 DEF Create
  <2>2. \A i \in Jobs : i # j => job'[i] = job[i]
    BY <2>1, JobRows
  <2>3. RowsOn
    BY <2>1, <2>2 DEF RowsOn, RowOn, AfterPayment
  <2> QED BY <1>1, <2>1, <2>3, Untouched
<1>4. CASE UNCHANGED <<job, agent>>
  BY <1>1, <1>4, Untouched
<1>5. ASSUME NEW j \in Jobs, LoseAgent(j) PROVE InTime
  <2>1. UNCHANGED <<job, links>> /\ printing[j] > 0 /\ printing' = [printing EXCEPT ![j] = @ - 1]
    BY <1>5 DEF LoseAgent
  <2>2. \A i \in Jobs : printing'[i] = IF i = j THEN printing[i] - 1 ELSE printing[i]
    BY <2>1 DEF TypeOK
  <2>3. RunsOn
    BY <1>2, <2>1, <2>2 DEF Runs, RunsOn
  <2> QED BY <1>1, <2>1, <2>3, Untouched
<1>6. ASSUME NEW j \in Jobs, NEW w \in Files, Download(j, w) PROVE InTime
  <2>1. /\ UNCHANGED job /\ links[j][w] > 0 /\ links' = [links EXCEPT ![j][w] = @ - 1]
        /\ UNCHANGED printing \/ printing' = [printing EXCEPT ![j] = @ + 1]
    BY <1>6 DEF Download
  <2>2. /\ \A i \in Jobs : i # j => links'[i] = links[i] /\ printing'[i] = printing[i]
        /\ links'[j] = [links[j] EXCEPT ![w] = @ - 1]
        /\ printing'[j] = printing[j] \/ printing'[j] = printing[j] + 1
    BY <2>1 DEF TypeOK
  <2>3. Runs(j)' <= Runs(j)
    <3>1. CASE w = "file"
      BY <1>2, <2>1, <2>2, <3>1 DEF Runs, Files
    <3>2. CASE w = "print"
      BY <1>2, <2>1, <2>2, <3>2 DEF Runs, Files
    <3> QED BY <3>1, <3>2 DEF Files
  <2>4. \A i \in Jobs : i # j => Runs(i)' <= Runs(i)
    BY <1>2, <2>2 DEF Runs
  <2>5. RunsOn
    BY <2>3, <2>4 DEF RunsOn
  <2> QED BY <1>1, <2>1, <2>5, Untouched
<1> QED BY <1>3, <1>4, <1>5, <1>6 DEF Environment, Elapse, Age, Capture, ProviderRefunds

\* A restart ends every handler and forgets the codes in memory.
LEMMA RestartInTime ==
  ASSUME TypeOK, Restart
  PROVE  InTime
<1>1. FramesOn
  <2>1. \A s \in Slots : call'[s].pc = "idle"
    BY Arrivals DEF Restart
  <2> QED BY <2>1 DEF FramesOn, FrameOn, Comes, Preparing, Rolling, Paying, Publishing, Taking
<1>2. CodesOn
  BY DEF Restart, CodesOn
<1>3. UNCHANGED <<job, disk, pay, agent>>
  BY DEF Restart
<1> QED BY <1>1, <1>2, <1>3, Untouched DEF InTime

\* Every step comes in time, and so keeps the four promises.
LEMMA NextInTime ==
  ASSUME TypeOK, [Next]_vars, NEW j \in Jobs
  PROVE  StaysLocked(j) /\ StaysCoded(j) /\ StaysTaken(j) /\ StaysBooked(j)
<1>1. ASSUME NEW r \in Slots, Start(r) \/ Step(r) PROVE InTime
  BY <1>1, IntakeInTime, CheckoutArrives, CheckoutInTime, ClaimInTime, RefundInTime DEF Start, Step
<1>2. CASE UNCHANGED vars
  <2>1. UNCHANGED <<call, job, disk, pay, pendingOtps, agent>>
    BY <1>2 DEF vars, agent
  <2> QED BY <2>1, Untouched, PromisesKept DEF InTime
<1>3. ASSUME Next PROVE InTime
  BY <1>1, <1>3, EnvironmentInTime, RestartInTime DEF Next
<1> QED BY <1>2, <1>3, PromisesKept

\* "Re-priceable until payment locks the job": price(), process() and uploads
\* that began before the payment may still write; once they are gone the job is
\* locked for ever, whatever else is in flight.
THEOREM PaidJobsAreLocked == Spec => PaymentLocks
<1>1. TypeOK /\ [Next]_vars => [\A j \in Jobs : StaysLocked(j)]_vars
  BY NextInTime
<1> QED BY <1>1, TypeCorrectness, PTL DEF Spec, PaymentLocks

\* markPaidAndQueue is idempotent as soon as no other call of it is past its
\* check: no confirmation or webhook ever gives the job another code.
THEOREM OneCodePerJob == Spec => CodeIsFinal
<1>1. TypeOK /\ [Next]_vars => [\A j \in Jobs : StaysCoded(j)]_vars
  BY NextInTime
<1> QED BY <1>1, TypeCorrectness, PTL DEF Spec, CodeIsFinal

\* "Single-use": when the claims that found a job waiting are answered, the taken
\* job gives nobody another link, whatever is typed and however often.
THEOREM NoClaimComesLate == Spec => NoLateClaim
<1>1. TypeOK /\ [Next]_vars => [\A j \in Jobs : StaysTaken(j)]_vars
  BY NextInTime
<1> QED BY <1>1, TypeCorrectness, PTL DEF Spec, NoLateClaim

\* A booked capture keeps its order, amount and payment id through every refund,
\* webhook and restart, once the pay() calls of before are gone.
THEOREM BookingsLast == Spec => CaptureIsKept
<1>1. TypeOK /\ [Next]_vars => [\A j \in Jobs : StaysBooked(j)]_vars
  BY NextInTime
<1> QED BY <1>1, TypeCorrectness, PTL DEF Spec, CaptureIsKept
==============================================================================
