------------------------------- MODULE Refunds -------------------------------
(***************************************************************************)
(* RefundsService (refundFailedJob and markRefundProcessed), the           *)
(* refund.processed webhook, the administrator's refund, the provider's    *)
(* side of a refund, FileCleanupService.purge, and the sweeps of           *)
(* SweepsService that call them.                                           *)
(***************************************************************************)
EXTENDS KioskData

OUTSIDE == <<codes, late, aged, agent, restarts>>

FinalRefund == PayMode = "mock"

\* Mutant: the sweep forgets which job it was refunding.
AfterRefundUnnamed(f, refunded) ==
  CASE f.op = "failed" /\ ~refunded ->
         [f EXCEPT !.pc = "saveFailed", !.ord = NoOrder]
    [] f.op = "expirySweep" ->
         [IdleFrame EXCEPT !.op = f.op, !.todo = f.todo,
                           !.pc = IF refunded THEN "next" ELSE "expire"]
    [] OTHER -> IdleFrame

(***************************************************************************)
(* Where a caller goes on: refundFailedJob has answered, or purge is done. *)
(***************************************************************************)
AfterRefund(f, refunded) ==
  CASE f.op = "failed" /\ ~refunded ->
         [f EXCEPT !.pc = "saveFailed", !.ord = NoOrder]
    [] f.op = "expirySweep" ->
         [IdleFrame EXCEPT !.op = f.op, !.todo = f.todo,
                           !.job = IF refunded THEN NoJob ELSE f.job,
                           !.pc = IF refunded THEN "next" ELSE "expire"]
    [] OTHER -> IdleFrame

AfterPurge(f) ==
  IF f.op \in {"expirySweep", "fileSweep"}
  THEN [f EXCEPT !.pc = "next", !.job = NoJob, !.ord = NoOrder,
                 !.held[f.job] = {}]
  ELSE IdleFrame

(***************************************************************************)
(* refundFailedJob, entered with the frame f of its caller: it reads the   *)
(* job and its payment, and only a captured payment is sent to the         *)
(* provider.                                                               *)
(***************************************************************************)
ReadForRefund(r, f) ==
  LET j == f.job IN
  SetFrame(r,
    IF job[j].state = "REFUNDED" THEN AfterRefund(f, TRUE)
    ELSE IF pay[j].status # "captured" THEN AfterRefund(f, FALSE)
    ELSE [f EXCEPT !.pc = "refundCall", !.ord = pay[j].payId,
                   !.held = IF FinalRefund THEN Holding(j) ELSE @])

RefundRead(r) ==
  /\ At(r, "refundRead")
  /\ ReadForRefund(r, call[r])
  /\ UNCHANGED <<job, pay, disk, ledger, OUTSIDE>>

\* The provider accepts the refund of a captured payment once.  The call may
\* fail before it arrives ("error") or after it was accepted ("lost").
Accept(o) == ledger' = [ledger EXCEPT ![o].status =
                          IF FinalRefund THEN "refunded" ELSE "refund_pending"]

RefundCall(r) ==
  LET o == call[r].ord
      Answered == SetFrame(r, [call[r] EXCEPT !.pc = "refundSave"])
      Failed == SetFrame(r, AfterRefund(call[r], FALSE))
  IN
  /\ At(r, "refundCall")
  /\ \/ FinalRefund /\ Accept(o) /\ Answered
     \/ /\ ~FinalRefund /\ ledger[o].status = "captured"
        /\ \/ "ok" \in RefundOutcomes /\ Accept(o) /\ Answered
           \/ "lost" \in RefundOutcomes /\ Accept(o) /\ Failed
           \/ "error" \in RefundOutcomes /\ UNCHANGED ledger /\ Failed
     \/ /\ ~FinalRefund /\ ledger[o].status # "captured"
        /\ UNCHANGED ledger /\ Failed
  /\ UNCHANGED <<job, pay, disk, OUTSIDE>>

RefundSave(r) ==
  /\ At(r, "refundSave")
  /\ pay' = [pay EXCEPT ![call[r].job].status =
               IF FinalRefund THEN "refunded" ELSE "refund_initiated"]
  /\ Goto(r, IF FinalRefund THEN "refundFinal" ELSE "refundPending")
  /\ UNCHANGED <<job, disk, ledger, OUTSIDE>>

RefundFinal(r) ==
  /\ At(r, "refundFinal")
  /\ job' = [job EXCEPT ![call[r].job].state = "REFUNDED"]
  /\ Goto(r, "delete")
  /\ UNCHANGED <<pay, disk, ledger, OUTSIDE>>

\* Mutant: an accepted refund counts as a finished one.
RefundPendingFinal(r) ==
  /\ At(r, "refundPending")
  /\ job' = [job EXCEPT ![call[r].job].state = "REFUNDED"]
  /\ SetFrame(r, AfterRefund(call[r], FALSE))
  /\ UNCHANGED <<pay, disk, ledger, OUTSIDE>>

\* The job stays FAILED until refund.processed arrives.
RefundPending(r) ==
  /\ At(r, "refundPending")
  /\ job' = [job EXCEPT ![call[r].job].state = "FAILED"]
  /\ SetFrame(r, AfterRefund(call[r], FALSE))
  /\ UNCHANGED <<pay, disk, ledger, OUTSIDE>>

(* POST /admin/jobs/:id/refund. *)
StartManualRefund(r, j) ==
  /\ "manualRefund" \in Ops /\ Idle(r)
  /\ job[j].state # "NONE"
  /\ ReadForRefund(r, Arrive("manualRefund", "refundRead", j))
  /\ UNCHANGED <<job, pay, disk, ledger, OUTSIDE>>

(***************************************************************************)
(* The provider pays the money back and sends refund.processed (at least   *)
(* once), which markRefundProcessed handles.                               *)
(***************************************************************************)
ProviderRefunds(o) ==
  /\ ledger[o].status = "refund_pending"
  /\ ledger' = [ledger EXCEPT ![o].status = "refunded"]
  /\ UNCHANGED <<job, pay, disk, call, OUTSIDE>>

\* Mutant: the notice that a refund was created counts as refund.processed.
StartRefundedEarly(r, j) ==
  LET o == pay[j].payId IN
  /\ "refunded" \in Ops /\ Idle(r) /\ ~FinalRefund
  /\ o # NoOrder /\ ledger[o].status \in {"refund_pending", "refunded"}
  /\ SetFrame(r, Arrive("refunded", "settleRead", j))
  /\ UNCHANGED <<job, pay, disk, ledger, OUTSIDE>>

StartRefunded(r, j) ==
  LET o == pay[j].payId IN
  /\ "refunded" \in Ops /\ Idle(r) /\ ~FinalRefund
  /\ o # NoOrder /\ ledger[o].status = "refunded"
  /\ SetFrame(r, Arrive("refunded", "settleRead", j))
  /\ UNCHANGED <<job, pay, disk, ledger, OUTSIDE>>

SettleRead(r) ==
  LET j == call[r].job IN
  /\ At(r, "settleRead")
  /\ IF pay[j].status = "refunded" THEN Finish(r)
     ELSE SetFrame(r, [call[r] EXCEPT !.pc = "settlePayment",
                         !.seen = job[j].state \in {"FAILED", "REFUNDED"},
                         !.held = Holding(j)])
  /\ UNCHANGED <<job, pay, disk, ledger, OUTSIDE>>

SettlePayment(r) ==
  /\ At(r, "settlePayment")
  /\ pay' = [pay EXCEPT ![call[r].job].status = "refunded"]
  /\ IF call[r].seen THEN Goto(r, "settleJob") ELSE Finish(r)
  /\ UNCHANGED <<job, disk, ledger, OUTSIDE>>

SettleJob(r) ==
  /\ At(r, "settleJob")
  /\ job' = [job EXCEPT ![call[r].job].state = "REFUNDED"]
  /\ Goto(r, "delete")
  /\ UNCHANGED <<pay, disk, ledger, OUTSIDE>>

(***************************************************************************)
(* purge: delete the objects named by the keys the caller holds; an error  *)
(* is only logged; then null both key columns.                             *)
(***************************************************************************)
Delete(r) ==
  LET j == call[r].job IN
  /\ At(r, "delete")
  /\ \E kept \in IF DeleteFails THEN SUBSET (call[r].held[j] \cap disk[j])
                                ELSE {{}} :
       disk' = [disk EXCEPT ![j] = (@ \ call[r].held[j]) \cup kept]
  /\ Goto(r, "forget")
  /\ UNCHANGED <<job, pay, ledger, OUTSIDE>>

Forget(r) ==
  /\ At(r, "forget")
  /\ job' = [job EXCEPT ![call[r].job].keys = {}]
  /\ SetFrame(r, AfterPurge(call[r]))
  /\ UNCHANGED <<pay, disk, ledger, OUTSIDE>>

(***************************************************************************)
(* SweepsService.run: the expiry sweep, then the leftover-file sweep.      *)
(* Bound: a run has ended before the interval starts the next one.         *)
(***************************************************************************)
Sweeping == \E r \in Slots : call[r].op \in {"expirySweep", "fileSweep"}

\* Mutant: the expiry sweep looks for jobs in PAID, a state nobody writes.
StartSweepPaidOnly(r) ==
  /\ "sweep" \in Ops /\ Idle(r) /\ ~Sweeping
  /\ SetFrame(r, [IdleFrame EXCEPT
       !.op = "expirySweep", !.pc = "next",
       !.todo = {j \in Jobs : job[j].state = "PAID" /\ late[j]}])
  /\ UNCHANGED <<job, pay, disk, ledger, OUTSIDE>>

StartSweep(r) ==
  /\ "sweep" \in Ops /\ Idle(r) /\ ~Sweeping
  /\ SetFrame(r, [IdleFrame EXCEPT
       !.op = "expirySweep", !.pc = "next",
       !.todo = {j \in Jobs : job[j].state \in {"PAID", "QUEUED"} /\ late[j]}])
  /\ UNCHANGED <<job, pay, disk, ledger, OUTSIDE>>

\* Mutant: the sweep does not move on to the next job.
SweepJobAgain(r) ==
  /\ At(r, "next") /\ call[r].op = "expirySweep"
  /\ \E j \in call[r].todo : ReadForRefund(r, [call[r] EXCEPT !.job = j])
  /\ UNCHANGED <<job, pay, disk, ledger, OUTSIDE>>

\* The next unclaimed job goes through refundFailedJob.
SweepJob(r) ==
  /\ At(r, "next") /\ call[r].op = "expirySweep"
  /\ \E j \in call[r].todo :
       ReadForRefund(r, [call[r] EXCEPT !.job = j, !.todo = @ \ {j}])
  /\ UNCHANGED <<job, pay, disk, ledger, OUTSIDE>>

Expire(r) ==
  /\ At(r, "expire")
  /\ job' = [job EXCEPT ![call[r].job].state = "EXPIRED"]
  /\ Goto(r, "readKeys")
  /\ UNCHANGED <<pay, disk, ledger, OUTSIDE>>

ReadKeys(r) ==
  /\ At(r, "readKeys")
  /\ SetFrame(r, [call[r] EXCEPT !.held = Holding(call[r].job), !.pc = "delete"])
  /\ UNCHANGED <<job, pay, disk, ledger, OUTSIDE>>

Terminal == {"COMPLETED", "FAILED", "EXPIRED", "REFUNDED"}

\* Mutant: only the files of jobs that are over are swept.
FindLeftoversOver(r) ==
  LET stale == {j \in Jobs : "file" \in job[j].keys /\ job[j].state \in Terminal}
  IN
  /\ At(r, "next") /\ call[r].op = "expirySweep" /\ call[r].todo = {}
  /\ SetFrame(r, IF stale = {} THEN IdleFrame
                 ELSE [IdleFrame EXCEPT
                         !.op = "fileSweep", !.pc = "next", !.todo = stale,
                         !.held = [j \in Jobs |-> IF j \in stale THEN job[j].keys
                                                                 ELSE {}]])
  /\ UNCHANGED <<job, pay, disk, ledger, OUTSIDE>>

\* Rows that still name an upload and are terminal or past the window.
FindLeftovers(r) ==
  LET stale == {j \in Jobs : "file" \in job[j].keys
                             /\ (job[j].state \in Terminal \/ aged[j])}
  IN
  /\ At(r, "next") /\ call[r].op = "expirySweep" /\ call[r].todo = {}
  /\ SetFrame(r, IF stale = {} THEN IdleFrame
                 ELSE [IdleFrame EXCEPT
                         !.op = "fileSweep", !.pc = "next", !.todo = stale,
                         !.held = [j \in Jobs |-> IF j \in stale THEN job[j].keys
                                                                 ELSE {}]])
  /\ UNCHANGED <<job, pay, disk, ledger, OUTSIDE>>

\* No await separates the loop from the first deletion of purge.
SweepFile(r) ==
  /\ At(r, "next") /\ call[r].op = "fileSweep"
  /\ IF call[r].todo = {} THEN Finish(r)
     ELSE \E j \in call[r].todo :
            SetFrame(r, [call[r] EXCEPT !.job = j, !.todo = @ \ {j},
                           !.pc = "delete"])
  /\ UNCHANGED <<job, pay, disk, ledger, OUTSIDE>>

\* The upload window of UPLOAD_WINDOW_MIN passes.
Age(j) ==
  /\ "age" \in Ops
  /\ ~aged[j] /\ job[j].state # "NONE"
  /\ aged' = [aged EXCEPT ![j] = TRUE]
  /\ UNCHANGED <<job, pay, disk, ledger, codes, late, agent, call, restarts>>

RefundStart(r) ==
  \/ \E j \in Jobs : StartManualRefund(r, j) \/ StartRefunded(r, j)
  \/ StartSweep(r)

RefundStep(r) ==
  \/ RefundRead(r) \/ RefundCall(r) \/ RefundSave(r) \/ RefundFinal(r)
  \/ RefundPending(r)
  \/ SettleRead(r) \/ SettlePayment(r) \/ SettleJob(r)
  \/ Delete(r) \/ Forget(r)
  \/ SweepJob(r) \/ Expire(r) \/ ReadKeys(r) \/ FindLeftovers(r) \/ SweepFile(r)
==============================================================================
