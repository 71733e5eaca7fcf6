----------------------------- MODULE MoneyProofs -----------------------------
(***************************************************************************)
(* Types, and promises about money, for any jobs, orders, codes, requests  *)
(* in flight and mix of operations, restarts and failing refunds included. *)
(* TypeOK is inductive as it stands: a started frame names its job, so     *)
(* that every write goes to a row that exists.  That nothing is released   *)
(* unpaid, and that REFUNDED means that money went back, is not: a handler *)
(* acts on what it read before other handlers ran.  BooksAgree says what   *)
(* each handler in flight and each row may rely on; what the provider's    *)
(* books record only ever grows, so that what a handler read of them stays *)
(* true.                                                                   *)
(***************************************************************************)
EXTENDS PrintKiosk, WellFoundedInduction, TLAPS

(***************************************************************************)
(* Frames.                                                                 *)
(***************************************************************************)

\* The frame of a free slot.
LEMMA IdleFrameType == IdleFrame \in Frame /\ IdleFrame \in FrameFields
<1>1. IdleFrame \in FrameFields /\ IdleFrame.pc = "idle"
  BY DEF IdleFrame, NoFiles, FrameFields, OpNames, PcNames
<1> QED BY <1>1 DEF Frame

\* The frame of a request that arrives on job j.
LEMMA ArriveType ==
  ASSUME NEW op \in OpNames, NEW pc \in PcNames, NEW j \in Jobs
  PROVE  /\ Arrive(op, pc, j) \in Frame
         /\ Arrive(op, pc, j).job = j
<1>1. /\ Arrive(op, pc, j) \in FrameFields
      /\ Arrive(op, pc, j).job = j
  BY IdleFrameType DEF Arrive, IdleFrame, FrameFields
<1> QED BY <1>1 DEF Frame

\* A request that is neither finished nor between two jobs names its job.
LEMMA Working ==
  ASSUME TypeOK, NEW r \in Slots
  PROVE  /\ call[r] \in Frame
         /\ call[r].pc \notin {"idle", "next"} => call[r].job \in Jobs
  BY DEF TypeOK, Frame

\* The three ways to change the requests in flight.
LEMMA FramesKept ==
  ASSUME TypeOK, NEW r \in Slots
  PROVE  /\ \A f \in Frame : SetFrame(r, f) => call' \in [Slots -> Frame]
         /\ Finish(r) => call' \in [Slots -> Frame]
         /\ \A pc \in PcNames :
              Goto(r, pc) /\ call[r].job \in Jobs => call' \in [Slots -> Frame]
<1>1. \A f \in Frame : SetFrame(r, f) => call' \in [Slots -> Frame]
  BY DEF SetFrame, TypeOK
<1>2. \A pc \in PcNames : call[r].job \in Jobs => [call[r] EXCEPT !.pc = pc] \in Frame
  BY Working DEF Frame, FrameFields
<1> QED BY <1>1, <1>2, IdleFrameType DEF Finish, Goto

\* What a handler keeps of the key columns.
LEMMA HoldingType ==
  ASSUME TypeOK, NEW j \in Jobs
  PROVE  /\ job[j].keys \in SUBSET Files
         /\ Holding(j) \in [Jobs -> SUBSET Files]
         /\ NoFiles \in [Jobs -> SUBSET Files]
<1>1. job[j].keys \in SUBSET Files BY DEF TypeOK, JobRow
<1> QED BY <1>1 DEF Holding, NoFiles

\* The frame with which the caller of refundFailedJob goes on.
LEMMA AfterRefundType ==
  ASSUME NEW f \in Frame, f.job \in Jobs, NEW refunded \in BOOLEAN
  PROVE  AfterRefund(f, refunded) \in Frame
<1>1. CASE f.op = "failed" /\ ~refunded
  <2>1. AfterRefund(f, refunded) = [f EXCEPT !.pc = "saveFailed", !.ord = NoOrder]
    BY <1>1 DEF AfterRefund
  <2>2. "saveFailed" \in PcNames BY DEF PcNames
  <2> QED BY <2>1, <2>2 DEF Frame, FrameFields
<1>2. CASE f.op = "expirySweep"
  <2>1. AfterRefund(f, refunded) =
          [IdleFrame EXCEPT !.op = f.op, !.todo = f.todo,
                           !.job = IF refunded THEN NoJob ELSE f.job,
                           !.pc = IF refunded THEN "next" ELSE "expire"]
    BY <1>2 DEF AfterRefund
  <2>2. CASE refunded
    BY <2>1, <2>2, IdleFrameType DEF PcNames, Frame, FrameFields
  <2>3. CASE ~refunded
    BY <2>1, <2>3, IdleFrameType DEF PcNames, Frame, FrameFields
  <2> QED BY <2>2, <2>3
<1>3. CASE f.op # "expirySweep" /\ ~(f.op = "failed" /\ ~refunded)
  <2>1. AfterRefund(f, refunded) = IdleFrame BY <1>3 DEF AfterRefund
  <2> QED BY <2>1, IdleFrameType
<1> QED BY <1>1, <1>2, <1>3

\* The frame with which the caller of purge goes on.
LEMMA AfterPurgeType ==
  ASSUME NEW f \in Frame, f.job \in Jobs
  PROVE  AfterPurge(f) \in Frame
<1>1. CASE f.op \in {"expirySweep", "fileSweep"}
  <2>1. [f EXCEPT !.pc = "next", !.job = NoJob, !.ord = NoOrder,
                  !.held[f.job] = {}] \in Frame
    BY DEF PcNames, Frame, FrameFields
  <2> QED BY <1>1, <2>1 DEF AfterPurge
<1>2. CASE f.op \notin {"expirySweep", "fileSweep"}
  BY <1>2, IdleFrameType DEF AfterPurge
<1> QED BY <1>1, <1>2

\* The frame in which refundFailedJob leaves its caller after its first read.
LEMMA ReadForRefundType ==
  ASSUME TypeOK, NEW r \in Slots, NEW f \in Frame, f.job \in Jobs,
         ReadForRefund(r, f)
  PROVE  call' \in [Slots -> Frame]
<1>1. AfterRefund(f, TRUE) \in Frame /\ AfterRefund(f, FALSE) \in Frame
  BY AfterRefundType
<1>2. pay[f.job].payId \in Orders \cup {NoOrder}
  BY DEF TypeOK, PaymentRow
<1>3. f.held \in [Jobs -> SUBSET Files] /\ Holding(f.job) \in [Jobs -> SUBSET Files]
  BY HoldingType DEF Frame, FrameFields
<1>4. [f EXCEPT !.pc = "refundCall", !.ord = pay[f.job].payId,
                !.held = IF FinalRefund THEN Holding(f.job) ELSE f.held] \in Frame
  <2>1. "refundCall" \in PcNames BY DEF PcNames
  <2> QED BY <1>2, <1>3, <2>1 DEF Frame, FrameFields
<1> QED BY <1>1, <1>4, FramesKept DEF ReadForRefund

(***************************************************************************)
(* Intake.                                                                 *)
(***************************************************************************)

\* Every request of the intake starts with a frame that names its job.
LEMMA IntakeStartType ==
  ASSUME TypeOK, NEW r \in Slots, IntakeStart(r)
  PROVE  TypeOK'
<1> USE DEF UNTOUCHED, money, codes, time, agent
<1>1. ASSUME NEW j \in Jobs, StartUpload(r, j) PROVE TypeOK'
  <2>1. Arrive("saveUpload", "storeUpload", j) \in Frame
    BY ArriveType DEF OpNames, PcNames
  <2>2. call' \in [Slots -> Frame]
    BY <1>1, <2>1, FramesKept DEF StartUpload
  <2> QED BY <1>1, <2>2 DEF StartUpload, TypeOK
<1>2. ASSUME NEW j \in Jobs, StartProcess(r, j) PROVE TypeOK'
  <2>1. Arrive("process", "inspect", j) \in Frame
    BY ArriveType DEF OpNames, PcNames
  <2>2. call' \in [Slots -> Frame]
    BY <1>2, <2>1, FramesKept DEF StartProcess
  <2> QED BY <1>2, <2>2 DEF StartProcess, TypeOK
<1>3. ASSUME NEW j \in Jobs, NEW p \in Prices, NEW photo \in BOOLEAN,
             StartPrice(r, j, p, photo)
      PROVE  TypeOK'
  <2> DEFINE held == [NoFiles EXCEPT ![j] = job[j].keys \cap {"print"}]
             f == [Arrive("price", "savePrice", j) EXCEPT !.n = p, !.held = held]
  <2>1. held \in [Jobs -> SUBSET Files]
    BY HoldingType
  <2>2. p \in Nat
    BY ConstantsAssumption
  <2>3. Arrive("price", "savePrice", j) \in Frame /\ Arrive("price", "savePrice", j).job = j
    BY ArriveType DEF OpNames, PcNames
  <2>4. f \in Frame /\ f.job = j
    BY <2>1, <2>2, <2>3 DEF Frame, FrameFields
  <2>5. [f EXCEPT !.pc = "compose"] \in Frame
    <3>1. "compose" \in PcNames
      BY DEF PcNames
    <3> HIDE DEF f
    <3> QED BY <2>4, <3>1 DEF Frame, FrameFields
  <2>6. call' \in [Slots -> Frame]
    BY <1>3, <2>4, <2>5, FramesKept DEF StartPrice
  <2> QED BY <1>3, <2>6 DEF StartPrice, TypeOK
<1> QED BY <1>1, <1>2, <1>3 DEF IntakeStart

\* Every step of upload, processing and pricing keeps the types.
LEMMA IntakeStepType ==
  ASSUME TypeOK, NEW r \in Slots, IntakeStep(r)
  PROVE  TypeOK'
<1> DEFINE j == call[r].job
<1> USE DEF UNTOUCHED, money, codes, time, agent
<1>0. j \in Jobs /\ job[j] \in JobRow /\ call[r] \in Frame
  BY Working DEF TypeOK, IntakeStep, StoreUpload, SaveUpload, Inspect, FailJob,
     StoreArtifact, SavePages, Compose, SavePrice, At
<1>1. CASE StoreUpload(r)
  <2>1. call' \in [Slots -> Frame]
    BY <1>0, <1>1, FramesKept DEF StoreUpload, PcNames
  <2> QED BY <1>0, <1>1, <2>1 DEF StoreUpload, TypeOK, Files
<1>2. CASE SaveUpload(r)
  <2>1. call' \in [Slots -> Frame]
    BY <1>2, FramesKept DEF SaveUpload
  <2>2. job[j].keys \cup {"file"} \in SUBSET Files
    BY <1>0, HoldingType DEF Files
  <2>3. [job[j] EXCEPT !.keys = job[j].keys \cup {"file"}] \in JobRow
    BY <1>0, <2>2 DEF JobRow
  <2> QED BY <1>0, <1>2, <2>1, <2>3 DEF SaveUpload, TypeOK
<1>3. CASE Inspect(r)
  <2>1. call' \in [Slots -> Frame]
    BY <1>0, <1>3, FramesKept DEF Inspect, PcNames
  <2> QED BY <1>3, <2>1 DEF Inspect, TypeOK
<1>4. CASE FailJob(r)
  <2>1. call' \in [Slots -> Frame]
    BY <1>4, FramesKept DEF FailJob
  <2>2. [job[j] EXCEPT !.state = "FAILED"] \in JobRow
    BY <1>0 DEF JobRow, JobStates
  <2> QED BY <1>0, <1>4, <2>1, <2>2 DEF FailJob, TypeOK
<1>5. CASE StoreArtifact(r)
  <2>1. "savePages" \in PcNames /\ "savePrice" \in PcNames
    BY DEF PcNames
  <2>2. \A h \in [Jobs -> SUBSET Files], pc \in PcNames :
          [call[r] EXCEPT !.held = h, !.pc = pc] \in Frame
    BY <1>0 DEF Frame, FrameFields
  <2>3. [call[r].held EXCEPT ![j] = @ \cup {"print"}] \in [Jobs -> SUBSET Files]
    BY <1>0 DEF Frame, FrameFields, Files
  <2>4. call' \in [Slots -> Frame]
    <3>1. CASE call[r].op = "process"
      BY <1>5, <2>1, <2>2, <2>3, <3>1, FramesKept DEF StoreArtifact
    <3>2. CASE call[r].op # "process"
      BY <1>5, <2>1, <2>2, <2>3, <3>2, FramesKept DEF StoreArtifact
    <3> QED BY <3>1, <3>2
  <2> QED BY <1>0, <1>5, <2>4 DEF StoreArtifact, TypeOK, Files
<1>6. CASE SavePages(r)
  <2>1. call' \in [Slots -> Frame]
    BY <1>6, FramesKept DEF SavePages
  <2>2. job[j].keys \cup (call[r].held[j] \cap {"print"}) \in SUBSET Files
    BY <1>0, HoldingType DEF Files
  <2>3. [job[j] EXCEPT !.state = "PRICED",
                       !.keys = job[j].keys \cup (call[r].held[j] \cap {"print"})] \in JobRow
    BY <1>0, <2>2 DEF JobRow, JobStates
  <2> QED BY <1>0, <1>6, <2>1, <2>3 DEF SavePages, TypeOK
<1>7. CASE Compose(r)
  <2>1. call' \in [Slots -> Frame]
    BY <1>0, <1>7, FramesKept DEF Compose, PcNames
  <2> QED BY <1>7, <2>1 DEF Compose, TypeOK
<1>8. CASE SavePrice(r)
  <2> DEFINE keys == (job[j].keys \ {"print"}) \cup call[r].held[j]
  <2>1. call' \in [Slots -> Frame]
    BY <1>8, FramesKept DEF SavePrice
  <2>2. keys \in SUBSET Files /\ call[r].n \in Nat
    BY <1>0, HoldingType DEF Frame, FrameFields
  <2>3. [job[j] EXCEPT !.state = "AWAITING_PAYMENT", !.price = call[r].n,
                       !.keys = keys] \in JobRow
    BY <1>0, <2>2 DEF JobRow, JobStates
  <2> QED BY <1>0, <1>8, <2>1, <2>3 DEF SavePrice, TypeOK
<1> QED BY <1>1, <1>2, <1>3, <1>4, <1>5, <1>6, <1>7, <1>8 DEF IntakeStep

(***************************************************************************)
(* Checkout.                                                               *)
(***************************************************************************)

\* A payment, a confirmation, a webhook or a status poll that arrives keeps the types.
LEMMA CheckoutStartType ==
  ASSUME TypeOK, NEW r \in Slots, CheckoutStart(r)
  PROVE  TypeOK'
<1> USE DEF ELSEWHERE, money, codes, time, agent
<1>1. ASSUME NEW j \in Jobs, StartPay(r, j) PROVE TypeOK'
  <2>1. "pay" \in OpNames /\ {"savePayment", "readPayment"} \subseteq PcNames
    BY DEF OpNames, PcNames
  <2>2. job[j].price \in Nat
    BY DEF TypeOK, JobRow
  <2>3. \A pc \in PcNames : [Arrive("pay", pc, j) EXCEPT !.n = job[j].price] \in Frame
    <3>1. \A pc \in PcNames : Arrive("pay", pc, j) \in Frame /\ Arrive("pay", pc, j).job = j
      BY <2>1, ArriveType
    <3> QED BY <2>2, <3>1 DEF Frame, FrameFields
  <2>4. call' \in [Slots -> Frame]
    BY <1>1, <2>1, <2>3, FramesKept DEF StartPay
  <2> QED BY <1>1, <2>4 DEF StartPay, TypeOK
<1>2. ASSUME NEW j \in Jobs, StartCaptured(r, j) PROVE TypeOK'
  <2>1. Arrive("captured", "mark", j) \in Frame /\ Arrive("captured", "mark", j).job = j
    BY ArriveType DEF OpNames, PcNames
  <2>2. pay[j].order \in Orders \cup {NoOrder}
    BY DEF TypeOK, PaymentRow
  <2>3. [Arrive("captured", "mark", j) EXCEPT !.ord = pay[j].order] \in Frame
    BY <2>1, <2>2 DEF Frame, FrameFields
  <2>4. call' \in [Slots -> Frame]
    BY <1>2, <2>3, FramesKept DEF StartCaptured
  <2> QED BY <1>2, <2>4 DEF StartCaptured, TypeOK
<1>3. ASSUME NEW j \in Jobs, StartStatus(r, j) PROVE TypeOK'
  <2>1. Arrive("status", "reveal", j) \in Frame
    BY ArriveType DEF OpNames, PcNames
  <2>2. call' \in [Slots -> Frame]
    BY <1>3, <2>1, FramesKept DEF StartStatus
  <2> QED BY <1>3, <2>2 DEF StartStatus, TypeOK
<1>4. ASSUME NEW j \in Jobs, NEW o \in Orders, StartConfirm(r, j, o) PROVE TypeOK'
  <2>1. Arrive("confirm", "verify", j) \in Frame /\ Arrive("confirm", "verify", j).job = j
    BY ArriveType DEF OpNames, PcNames
  <2>2. [Arrive("confirm", "verify", j) EXCEPT !.ord = o] \in Frame
    BY <2>1 DEF Frame, FrameFields
  <2>3. call' \in [Slots -> Frame]
    BY <1>4, <2>2, FramesKept DEF StartConfirm
  <2> QED BY <1>4, <2>3 DEF StartConfirm, TypeOK
<1> QED BY <1>1, <1>2, <1>3, <1>4 DEF CheckoutStart

\* Every step from POST /pay to the shown code keeps the types.
LEMMA CheckoutStepType ==
  ASSUME TypeOK, NEW r \in Slots, CheckoutStep(r)
  PROVE  TypeOK'
<1> DEFINE j == call[r].job
<1> USE DEF ELSEWHERE, money, codes, time, agent
<1>0. j \in Jobs /\ call[r] \in Frame
  BY Working DEF CheckoutStep, ReadPayment, CreateOrder, SavePayment,
     SaveMockPayment, Verify, Mark, Roll, Queue, RecordCapture, Publish, Reveal,
     SaveShown, At
<1>a. /\ job[j] \in JobRow /\ pay[j] \in PaymentRow
      /\ call[r].n \in Nat /\ call[r].ord \in Orders \cup {NoOrder}
      /\ call[r].code \in Otps \cup {NoCode}
  BY <1>0 DEF TypeOK, Frame, FrameFields
<1>1. CASE ReadPayment(r)
  <2>1. "createOrder" \in PcNames
    BY DEF PcNames
  <2>2. [call[r] EXCEPT !.pc = "createOrder", !.seen = pay[j].status # "none"] \in Frame
    BY <1>0, <2>1 DEF Frame, FrameFields
  <2>3. call' \in [Slots -> Frame]
    BY <1>1, <2>2, FramesKept DEF ReadPayment
  <2> QED BY <1>1, <2>3 DEF ReadPayment, TypeOK
<1>2. CASE CreateOrder(r)
  <2>1. CASE Finish(r) /\ UNCHANGED ledger
    <3>1. call' \in [Slots -> Frame]
      BY <2>1, FramesKept
    <3> QED BY <1>2, <2>1, <3>1 DEF CreateOrder, TypeOK
  <2>2. ASSUME NEW o \in Orders,
               ledger' = [ledger EXCEPT ![o] = [job |-> j, amount |-> call[r].n,
                                                status |-> "created"]],
               SetFrame(r, [call[r] EXCEPT !.pc = "savePayment", !.ord = o])
        PROVE  TypeOK'
    <3>1. "savePayment" \in PcNames
      BY DEF PcNames
    <3>2. [call[r] EXCEPT !.pc = "savePayment", !.ord = o] \in Frame
      BY <1>0, <3>1 DEF Frame, FrameFields
    <3>3. call' \in [Slots -> Frame]
      BY <2>2, <3>2, FramesKept
    <3>4. [job |-> j, amount |-> call[r].n, status |-> "created"] \in LedgerRow
      BY <1>0, <1>a DEF LedgerRow, LedgerStatus
    <3> QED BY <1>2, <2>2, <3>3, <3>4 DEF CreateOrder, TypeOK
  <2> QED BY <1>2, <2>1, <2>2 DEF CreateOrder
<1>3. CASE SavePayment(r)
  <2>1. call' \in [Slots -> Frame]
    BY <1>3, FramesKept DEF SavePayment
  <2>2. CASE UNCHANGED money
    BY <1>3, <2>1, <2>2 DEF SavePayment, TypeOK
  <2>3. CASE /\ pay' = [pay EXCEPT ![j].order = call[r].ord, ![j].amount = call[r].n,
                                   ![j].status = "created"]
             /\ ledger' = [ledger EXCEPT ![call[r].ord].status = "offered"]
    <3>1. [pay[j] EXCEPT !.order = call[r].ord, !.amount = call[r].n,
                         !.status = "created"] \in PaymentRow
      BY <1>a DEF PaymentRow, PaymentStatus
    <3>2. pay' \in [Jobs -> PaymentRow]
      BY <1>0, <2>3, <3>1 DEF TypeOK
    <3>3. \A row \in LedgerRow : [row EXCEPT !.status = "offered"] \in LedgerRow
      BY DEF LedgerRow, LedgerStatus
    <3>4. ledger' \in [Orders -> LedgerRow]
      BY <2>3, <3>3 DEF TypeOK
    <3> QED BY <1>3, <2>1, <3>2, <3>4 DEF SavePayment, TypeOK
  <2> QED BY <1>3, <2>2, <2>3 DEF SavePayment
<1>4. CASE SaveMockPayment(r)
  <2>1. CASE Finish(r) /\ UNCHANGED money
    <3>1. call' \in [Slots -> Frame]
      BY <2>1, FramesKept
    <3> QED BY <1>4, <2>1, <3>1 DEF SaveMockPayment, TypeOK
  <2>2. ASSUME NEW o \in Orders,
               ledger' = [ledger EXCEPT ![o] = [job |-> j, amount |-> call[r].n,
                                                status |-> "captured"]],
               pay' = [pay EXCEPT ![j].order = o, ![j].amount = call[r].n,
                                  ![j].status = "created"],
               SetFrame(r, [call[r] EXCEPT !.pc = "mark", !.ord = o])
        PROVE  TypeOK'
    <3>1. "mark" \in PcNames
      BY DEF PcNames
    <3>2. [call[r] EXCEPT !.pc = "mark", !.ord = o] \in Frame
      BY <1>0, <3>1 DEF Frame, FrameFields
    <3>3. call' \in [Slots -> Frame]
      BY <2>2, <3>2, FramesKept
    <3>4. [job |-> j, amount |-> call[r].n, status |-> "captured"] \in LedgerRow
      BY <1>0, <1>a DEF LedgerRow, LedgerStatus
    <3>5. [pay[j] EXCEPT !.order = o, !.amount = call[r].n,
                         !.status = "created"] \in PaymentRow
      BY <1>a DEF PaymentRow, PaymentStatus
    <3> QED BY <1>0, <1>4, <2>2, <3>3, <3>4, <3>5 DEF SaveMockPayment, TypeOK
  <2> QED BY <1>4, <2>1, <2>2 DEF SaveMockPayment
<1>5. CASE Verify(r)
  <2>1. call' \in [Slots -> Frame]
    BY <1>0, <1>5, FramesKept DEF Verify, PcNames
  <2> QED BY <1>5, <2>1 DEF Verify, TypeOK
<1>6. CASE Mark(r)
  <2>1. "roll" \in PcNames
    BY DEF PcNames
  <2>2. \A c \in Otps : [call[r] EXCEPT !.pc = "roll", !.code = c, !.n = 0] \in Frame
    BY <1>0, <2>1 DEF Frame, FrameFields
  <2>3. call' \in [Slots -> Frame]
    BY <1>6, <2>2, FramesKept DEF Mark
  <2> QED BY <1>6, <2>3 DEF Mark, TypeOK
<1>7. CASE Roll(r)
  <2>1. "roll" \in PcNames /\ "queue" \in PcNames
    BY DEF PcNames
  <2>2. \A c \in Otps, n \in Nat, pc \in PcNames :
          [call[r] EXCEPT !.code = c, !.n = n, !.pc = pc] \in Frame
    BY <1>0 DEF Frame, FrameFields
  <2>3. call' \in [Slots -> Frame]
    <3>1. CASE call[r].code \notin SiblingCodes(j)
      BY <1>0, <1>7, <2>1, <3>1, FramesKept DEF Roll
    <3>2. CASE call[r].code \in SiblingCodes(j)
      <4>1. PICK c \in Otps :
              SetFrame(r, [call[r] EXCEPT !.code = c, !.n = call[r].n + 1,
                 !.pc = IF call[r].n + 1 < RerollTries THEN "roll" ELSE "queue"])
        BY <1>7, <3>2 DEF Roll
      <4>2. call[r].n + 1 \in Nat
        BY <1>a
      <4>3. CASE call[r].n + 1 < RerollTries
        BY <2>1, <2>2, <4>1, <4>2, <4>3, FramesKept
      <4>4. CASE ~(call[r].n + 1 < RerollTries)
        BY <2>1, <2>2, <4>1, <4>2, <4>4, FramesKept
      <4> QED BY <4>3, <4>4
    <3> QED BY <3>1, <3>2
  <2> QED BY <1>7, <2>3 DEF Roll, TypeOK
<1>8. CASE Queue(r)
  <2>1. call' \in [Slots -> Frame]
    BY <1>0, <1>8, FramesKept DEF Queue, PcNames
  <2>2. [job[j] EXCEPT !.state = "QUEUED", !.otp = call[r].code, !.tries = 0,
                       !.shown = FALSE] \in JobRow
    BY <1>a DEF JobRow, JobStates
  <2> QED BY <1>0, <1>8, <2>1, <2>2 DEF Queue, TypeOK
<1>9. CASE RecordCapture(r)
  <2>1. call' \in [Slots -> Frame]
    BY <1>0, <1>9, FramesKept DEF RecordCapture, PcNames
  <2>2. [pay[j] EXCEPT !.status = "captured", !.payId = call[r].ord] \in PaymentRow
    BY <1>a DEF PaymentRow, PaymentStatus
  <2> QED BY <1>0, <1>9, <2>1, <2>2 DEF RecordCapture, TypeOK
<1>10. CASE Publish(r)
  <2>1. call' \in [Slots -> Frame]
    BY <1>10, FramesKept DEF Publish
  <2> QED BY <1>a, <1>10, <2>1 DEF Publish, TypeOK
<1>11. CASE Reveal(r)
  <2>1. "saveShown" \in PcNames /\ pendingOtps[j] \in Otps \cup {NoCode}
    BY <1>0 DEF PcNames, TypeOK
  <2>2. [call[r] EXCEPT !.pc = "saveShown", !.code = pendingOtps[j]] \in Frame
    BY <1>0, <2>1 DEF Frame, FrameFields
  <2>3. call' \in [Slots -> Frame]
    BY <1>11, <2>2, FramesKept DEF Reveal
  <2> QED BY <1>11, <2>3 DEF Reveal, TypeOK
<1>12. CASE SaveShown(r)
  <2>1. call' \in [Slots -> Frame]
    BY <1>12, FramesKept DEF SaveShown
  <2>2. [job[j] EXCEPT !.shown = TRUE] \in JobRow
    BY <1>a DEF JobRow
  <2> QED BY <1>0, <1>a, <1>12, <2>1, <2>2 DEF SaveShown, TypeOK
<1> QED BY <1>1, <1>2, <1>3, <1>4, <1>5, <1>6, <1>7, <1>8, <1>9, <1>10, <1>11, <1>12
        DEF CheckoutStep

\* "orderBy createdAt": the oldest of some jobs is one of them.
LEMMA OldestType ==
  ASSUME NEW S \in SUBSET Jobs, S # {}
  PROVE  Oldest(S) \in S /\ \A i \in S : Oldest(S) <= i
<1> DEFINE less == {p \in Nat \X Nat : p[1] < p[2]}
<1>1. IsWellFoundedOn(less, Nat)
  BY NatLessThanWellFounded, Zenon DEF OpToRel
<1>2. S \subseteq Nat
  BY ConstantsAssumption
<1>3. PICK j \in S : \A i \in S : ~ (<<i, j>> \in less)
  <2> HIDE DEF less
  <2> QED BY <1>1, <1>2, WFMin
<1>4. ASSUME NEW i \in S PROVE j <= i
  <2>1. i \in Nat /\ j \in Nat /\ <<i, j>> \in Nat \X Nat
    BY <1>2
  <2>2. ~ (i < j)
    BY <1>3, <2>1
  <2> QED BY <2>1, <2>2
<1> QED BY <1>4 DEF Oldest

(***************************************************************************)
(* Claims.                                                                 *)
(***************************************************************************)

\* The frames with which a claim goes on: it takes the job or charges it.
LEMMA ClaimFrameType ==
  ASSUME TypeOK, NEW j \in Jobs
  PROVE  TakeFrame(j) \in Frame /\ ChargeFrame(j) \in Frame
<1>1. "claim" \in OpNames /\ "take" \in PcNames /\ "charge" \in PcNames
  BY DEF OpNames, PcNames
<1>2. /\ Arrive("claim", "take", j) \in Frame /\ Arrive("claim", "take", j).job = j
      /\ Arrive("claim", "charge", j) \in Frame /\ Arrive("claim", "charge", j).job = j
  BY <1>1, ArriveType
<1>3. job[j].tries + 1 \in Nat
  BY DEF TypeOK, JobRow
<1>4. TakeFrame(j) \in Frame
  BY <1>2, HoldingType DEF TakeFrame, Frame, FrameFields
<1>5. ChargeFrame(j) \in Frame
  BY <1>2, <1>3 DEF ChargeFrame, Frame, FrameFields
<1> QED BY <1>4, <1>5

\* The agent's reports, with the operation and the first await they lead to.
LEMMA ReportType ==
  ASSUME TypeOK, NEW r \in Slots, NEW j \in Jobs, NEW op \in OpNames,
         NEW pc \in PcNames, ReportTo(r, j, op, pc)
  PROVE  TypeOK'
<1> USE DEF BEYOND, money, codes, time, agent
<1>1. Arrive(op, pc, j) \in Frame /\ Arrive(op, pc, j).job = j
  BY ArriveType
<1>2. [Arrive(op, pc, j) EXCEPT !.held = Holding(j)] \in Frame
  BY <1>1, HoldingType DEF Frame, FrameFields
<1>3. call' \in [Slots -> Frame]
  BY <1>2, FramesKept DEF ReportTo, TypeOK
<1>4. printing[j] - 1 \in Nat
  BY DEF ReportTo, TypeOK
<1> QED BY <1>3, <1>4 DEF ReportTo, TypeOK

\* A claim or a report of the agent that arrives keeps the types.
LEMMA ClaimStartType ==
  ASSUME TypeOK, NEW r \in Slots, ClaimStart(r)
  PROVE  TypeOK'
<1> USE DEF BEYOND, money, codes, time, agent
<1>1. ASSUME NEW j \in Jobs, NEW c \in Otps, StartClaimJob(r, j, c)
      PROVE  TypeOK'
  <2>1. call' \in [Slots -> Frame]
    BY <1>1, ClaimFrameType, FramesKept DEF StartClaimJob
  <2> QED BY <1>1, <2>1 DEF StartClaimJob, TypeOK
<1>2. ASSUME NEW k \in Kiosks, NEW c \in Otps, StartClaimCode(r, k, c)
      PROVE  TypeOK'
  <2>1. \A S \in SUBSET Jobs : S # {} => Oldest(S) \in Jobs
    BY OldestType
  <2>2. call' \in [Slots -> Frame]
    BY <1>2, <2>1, ClaimFrameType, FramesKept DEF StartClaimCode, Candidates
  <2> QED BY <1>2, <2>2 DEF StartClaimCode, TypeOK
<1>3. ASSUME NEW j \in Jobs, StartCompleted(r, j) PROVE TypeOK'
  <2>1. "completed" \in OpNames /\ "complete" \in PcNames
    BY DEF OpNames, PcNames
  <2> QED BY <1>3, <2>1, ReportType DEF StartCompleted
<1>4. ASSUME NEW j \in Jobs, StartFailed(r, j) PROVE TypeOK'
  <2>1. "failed" \in OpNames /\ "refundRead" \in PcNames
    BY DEF OpNames, PcNames
  <2> QED BY <1>4, <2>1, ReportType DEF StartFailed
<1> QED BY <1>1, <1>2, <1>3, <1>4 DEF ClaimStart

\* Every step of a claim and of a report keeps the types.
LEMMA ClaimStepType ==
  ASSUME TypeOK, NEW r \in Slots, ClaimStep(r)
  PROVE  TypeOK'
<1> DEFINE j == call[r].job
<1> USE DEF BEYOND, money, codes, time, agent
<1>0. j \in Jobs /\ call[r] \in Frame
  BY Working DEF ClaimStep, Charge, Take, HandOver, Complete, SaveFailed, At
<1>a. job[j] \in JobRow /\ call[r].n \in Nat
  BY <1>0 DEF TypeOK, Frame, FrameFields
<1>1. CASE Charge(r)
  <2>1. call' \in [Slots -> Frame]
    BY <1>1, FramesKept DEF Charge
  <2>2. [job[j] EXCEPT !.tries = call[r].n] \in JobRow
    BY <1>a DEF JobRow
  <2> QED BY <1>0, <1>1, <2>1, <2>2 DEF Charge, TypeOK
<1>2. CASE Take(r)
  <2>1. call' \in [Slots -> Frame]
    BY <1>0, <1>2, FramesKept DEF Take, PcNames
  <2>2. [job[j] EXCEPT !.state = "PRINTING", !.otp = NoCode] \in JobRow
    BY <1>a DEF JobRow, JobStates
  <2> QED BY <1>0, <1>2, <2>1, <2>2 DEF Take, TypeOK
<1>3. CASE HandOver(r)
  <2>1. call' \in [Slots -> Frame]
    BY <1>3, FramesKept DEF HandOver
  <2>2. \A w \in Files : [links[j] EXCEPT ![w] = links[j][w] + 1] \in [Files -> Nat]
    BY <1>0 DEF TypeOK
  <2>3. links' \in [Jobs -> [Files -> Nat]]
    BY <1>0, <1>3, <2>2 DEF HandOver, TypeOK, Files
  <2> QED BY <1>3, <2>1, <2>3 DEF HandOver, TypeOK
<1>4. CASE Complete(r)
  <2>1. call' \in [Slots -> Frame]
    BY <1>0, <1>4, FramesKept DEF Complete, PcNames
  <2>2. [job[j] EXCEPT !.state = "COMPLETED", !.otp = NoCode] \in JobRow
    BY <1>a DEF JobRow, JobStates
  <2> QED BY <1>0, <1>4, <2>1, <2>2 DEF Complete, TypeOK
<1>5. CASE SaveFailed(r)
  <2>1. call' \in [Slots -> Frame]
    BY <1>0, <1>5, FramesKept DEF SaveFailed, PcNames
  <2>2. [job[j] EXCEPT !.state = "FAILED"] \in JobRow
    BY <1>a DEF JobRow, JobStates
  <2> QED BY <1>0, <1>5, <2>1, <2>2 DEF SaveFailed, TypeOK
<1> QED BY <1>1, <1>2, <1>3, <1>4, <1>5 DEF ClaimStep

(***************************************************************************)
(* Refunds, purge and sweeps.                                              *)
(***************************************************************************)

\* A manual refund, a refund webhook or a sweep that starts keeps the types.
LEMMA RefundStartType ==
  ASSUME TypeOK, NEW r \in Slots, RefundStart(r)
  PROVE  TypeOK'
<1> USE DEF OUTSIDE, codes, agent
<1>1. ASSUME NEW j \in Jobs, StartManualRefund(r, j) PROVE TypeOK'
  <2>1. "manualRefund" \in OpNames /\ "refundRead" \in PcNames
    BY DEF OpNames, PcNames
  <2>2. /\ Arrive("manualRefund", "refundRead", j) \in Frame
        /\ Arrive("manualRefund", "refundRead", j).job = j
    BY <2>1, ArriveType
  <2>3. call' \in [Slots -> Frame]
    BY <1>1, <2>2, ReadForRefundType DEF StartManualRefund
  <2> QED BY <1>1, <2>3 DEF StartManualRefund, TypeOK
<1>2. ASSUME NEW j \in Jobs, StartRefunded(r, j) PROVE TypeOK'
  <2>1. "refunded" \in OpNames /\ "settleRead" \in PcNames
    BY DEF OpNames, PcNames
  <2>2. call' \in [Slots -> Frame]
    BY <1>2, <2>1, ArriveType, FramesKept DEF StartRefunded
  <2> QED BY <1>2, <2>2 DEF StartRefunded, TypeOK
<1>3. CASE StartSweep(r)
  <2>1. "expirySweep" \in OpNames /\ "next" \in PcNames
    BY DEF OpNames, PcNames
  <2>2. \A S \in SUBSET Jobs :
          [IdleFrame EXCEPT !.op = "expirySweep", !.pc = "next", !.todo = S] \in Frame
    BY <2>1, IdleFrameType DEF Frame, FrameFields
  <2>3. call' \in [Slots -> Frame]
    BY <1>3, <2>2, FramesKept DEF StartSweep
  <2> QED BY <1>3, <2>3 DEF StartSweep, TypeOK
<1> QED BY <1>1, <1>2, <1>3 DEF RefundStart

\* The steps of refundFailedJob and of markRefundProcessed.
LEMMA RefundMoneyType ==
  ASSUME TypeOK, NEW r \in Slots,
         \/ RefundRead(r) \/ RefundCall(r) \/ RefundSave(r) \/ RefundFinal(r)
         \/ RefundPending(r) \/ SettleRead(r) \/ SettlePayment(r) \/ SettleJob(r)
  PROVE  TypeOK'
<1> DEFINE j == call[r].job
<1> USE DEF OUTSIDE, codes, agent
<1>0. j \in Jobs /\ call[r] \in Frame
  BY Working DEF RefundRead, RefundCall, RefundSave, RefundFinal, RefundPending,
     SettleRead, SettlePayment, SettleJob, At
<1>a. job[j] \in JobRow /\ pay[j] \in PaymentRow
  BY <1>0 DEF TypeOK
<1>b. \A s \in JobStates : [job[j] EXCEPT !.state = s] \in JobRow
  BY <1>a DEF JobRow
<1>c. \A s \in PaymentStatus : [pay[j] EXCEPT !.status = s] \in PaymentRow
  BY <1>a DEF PaymentRow
<1>1. CASE RefundRead(r)
  <2>1. call' \in [Slots -> Frame]
    BY <1>0, <1>1, ReadForRefundType DEF RefundRead
  <2> QED BY <1>1, <2>1 DEF RefundRead, TypeOK
<1>2. CASE RefundCall(r)
  <2>1. AfterRefund(call[r], FALSE) \in Frame
    BY <1>0, AfterRefundType
  <2>2. [call[r] EXCEPT !.pc = "refundSave"] \in Frame
    <3>1. "refundSave" \in PcNames
      BY DEF PcNames
    <3> QED BY <1>0, <3>1 DEF Frame, FrameFields
  <2>3. call' \in [Slots -> Frame]
    BY <1>2, <2>1, <2>2, FramesKept DEF RefundCall
  <2>4. \A row \in LedgerRow, s \in {"refunded", "refund_pending"} :
          [row EXCEPT !.status = s] \in LedgerRow
    BY DEF LedgerRow, LedgerStatus
  <2>5. CASE UNCHANGED ledger
    BY <1>2, <2>3, <2>5 DEF RefundCall, TypeOK
  <2>6. CASE Accept(call[r].ord)
    <3>1. ledger' \in [Orders -> LedgerRow]
      BY <2>4, <2>6 DEF Accept, TypeOK
    <3> QED BY <1>2, <2>3, <3>1 DEF RefundCall, TypeOK
  <2> QED BY <1>2, <2>5, <2>6 DEF RefundCall
<1>3. CASE RefundSave(r)
  <2>1. "refundFinal" \in PcNames /\ "refundPending" \in PcNames
    BY DEF PcNames
  <2>2. call' \in [Slots -> Frame]
    BY <1>0, <1>3, <2>1, FramesKept DEF RefundSave
  <2>3. pay' \in [Jobs -> PaymentRow]
    BY <1>0, <1>3, <1>c DEF RefundSave, TypeOK, PaymentStatus
  <2> QED BY <1>3, <2>2, <2>3 DEF RefundSave, TypeOK
<1>4. CASE RefundFinal(r)
  <2>1. call' \in [Slots -> Frame]
    BY <1>0, <1>4, FramesKept DEF RefundFinal, PcNames
  <2>2. [job[j] EXCEPT !.state = "REFUNDED"] \in JobRow
    BY <1>b DEF JobStates
  <2> QED BY <1>0, <1>4, <2>1, <2>2 DEF RefundFinal, TypeOK
<1>5. CASE RefundPending(r)
  <2>1. call' \in [Slots -> Frame]
    BY <1>0, <1>5, AfterRefundType, FramesKept DEF RefundPending
  <2>2. [job[j] EXCEPT !.state = "FAILED"] \in JobRow
    BY <1>b DEF JobStates
  <2> QED BY <1>0, <1>5, <2>1, <2>2 DEF RefundPending, TypeOK
<1>6. CASE SettleRead(r)
  <2>1. "settlePayment" \in PcNames
    BY DEF PcNames
  <2>2. Holding(j) \in [Jobs -> SUBSET Files]
    BY <1>0, HoldingType
  <2> DEFINE over == job[j].state \in {"FAILED", "REFUNDED"}
             f == [call[r] EXCEPT !.pc = "settlePayment", !.seen = over,
                                  !.held = Holding(j)]
  <2>3. over \in BOOLEAN
    OBVIOUS
  <2>4. f \in Frame
    <3> HIDE DEF over
    <3> QED BY <1>0, <2>1, <2>2, <2>3 DEF Frame, FrameFields
  <2>5. Finish(r) \/ SetFrame(r, f)
    BY <1>6 DEF SettleRead
  <2>6. call' \in [Slots -> Frame]
    <3> HIDE DEF f
    <3> QED BY <2>4, <2>5, FramesKept
  <2> QED BY <1>6, <2>6 DEF SettleRead, TypeOK
<1>7. CASE SettlePayment(r)
  <2>1. call' \in [Slots -> Frame]
    BY <1>0, <1>7, FramesKept DEF SettlePayment, PcNames
  <2>2. [pay[j] EXCEPT !.status = "refunded"] \in PaymentRow
    BY <1>c DEF PaymentStatus
  <2> QED BY <1>0, <1>7, <2>1, <2>2 DEF SettlePayment, TypeOK
<1>8. CASE SettleJob(r)
  <2>1. call' \in [Slots -> Frame]
    BY <1>0, <1>8, FramesKept DEF SettleJob, PcNames
  <2>2. [job[j] EXCEPT !.state = "REFUNDED"] \in JobRow
    BY <1>b DEF JobStates
  <2> QED BY <1>0, <1>8, <2>1, <2>2 DEF SettleJob, TypeOK
<1> QED BY <1>1, <1>2, <1>3, <1>4, <1>5, <1>6, <1>7, <1>8

\* The steps of purge and of the sweeps.
LEMMA SweepType ==
  ASSUME TypeOK, NEW r \in Slots,
         \/ Delete(r) \/ Forget(r) \/ SweepJob(r) \/ Expire(r) \/ ReadKeys(r)
         \/ FindLeftovers(r) \/ SweepFile(r)
  PROVE  TypeOK'
<1> DEFINE j == call[r].job
<1> USE DEF OUTSIDE, codes, agent
<1>0. call[r] \in Frame /\ (call[r].pc \notin {"idle", "next"} => j \in Jobs)
  BY Working
<1>1. CASE Delete(r)
  <2>1. j \in Jobs
    BY <1>0, <1>1 DEF Delete, At
  <2>2. call' \in [Slots -> Frame]
    BY <1>1, <2>1, FramesKept DEF Delete, PcNames
  <2>3. disk[j] \in SUBSET Files
    BY <2>1 DEF TypeOK
  <2>4. disk' \in [Jobs -> SUBSET Files]
    BY <1>1, <2>1, <2>3 DEF Delete, TypeOK
  <2> QED BY <1>1, <2>2, <2>4 DEF Delete, TypeOK
<1>2. CASE Forget(r)
  <2>1. j \in Jobs /\ job[j] \in JobRow
    BY <1>0, <1>2 DEF Forget, At, TypeOK
  <2>2. call' \in [Slots -> Frame]
    BY <1>0, <1>2, <2>1, AfterPurgeType, FramesKept DEF Forget
  <2>3. [job[j] EXCEPT !.keys = {}] \in JobRow
    BY <2>1 DEF JobRow
  <2> QED BY <1>2, <2>1, <2>2, <2>3 DEF Forget, TypeOK
<1>3. CASE SweepJob(r)
  <2>1. PICK i \in call[r].todo :
          ReadForRefund(r, [call[r] EXCEPT !.job = i, !.todo = @ \ {i}])
    BY <1>3 DEF SweepJob
  <2> DEFINE f == [call[r] EXCEPT !.job = i, !.todo = @ \ {i}]
  <2>2. i \in Jobs
    BY <1>0 DEF Frame, FrameFields
  <2>3. f \in Frame /\ f.job \in Jobs
    BY <1>0, <2>2 DEF Frame, FrameFields
  <2>4. call' \in [Slots -> Frame]
    BY <2>1, <2>3, ReadForRefundType
  <2> QED BY <1>3, <2>4 DEF SweepJob, TypeOK
<1>4. CASE Expire(r)
  <2>1. j \in Jobs /\ job[j] \in JobRow
    BY <1>0, <1>4 DEF Expire, At, TypeOK
  <2>2. call' \in [Slots -> Frame]
    BY <1>4, <2>1, FramesKept DEF Expire, PcNames
  <2>3. [job[j] EXCEPT !.state = "EXPIRED"] \in JobRow
    BY <2>1 DEF JobRow, JobStates
  <2> QED BY <1>4, <2>1, <2>2, <2>3 DEF Expire, TypeOK
<1>5. CASE ReadKeys(r)
  <2>1. j \in Jobs /\ "delete" \in PcNames
    BY <1>0, <1>5 DEF ReadKeys, At, PcNames
  <2>2. [call[r] EXCEPT !.held = Holding(j), !.pc = "delete"] \in Frame
    BY <1>0, <2>1, HoldingType DEF Frame, FrameFields
  <2>3. call' \in [Slots -> Frame]
    BY <1>5, <2>2, FramesKept DEF ReadKeys
  <2> QED BY <1>5, <2>3 DEF ReadKeys, TypeOK
<1>6. CASE FindLeftovers(r)
  <2>1. "fileSweep" \in OpNames /\ "next" \in PcNames
    BY DEF OpNames, PcNames
  <2>2. \A S \in SUBSET Jobs :
          [i \in Jobs |-> IF i \in S THEN job[i].keys ELSE {}] \in [Jobs -> SUBSET Files]
    BY HoldingType
  <2>3. \A S \in SUBSET Jobs, h \in [Jobs -> SUBSET Files] :
          [IdleFrame EXCEPT !.op = "fileSweep", !.pc = "next", !.todo = S,
                            !.held = h] \in Frame
    BY <2>1, IdleFrameType DEF Frame, FrameFields
  <2>4. call' \in [Slots -> Frame]
    BY <1>6, <2>2, <2>3, IdleFrameType, FramesKept DEF FindLeftovers
  <2> QED BY <1>6, <2>4 DEF FindLeftovers, TypeOK
<1>7. CASE SweepFile(r)
  <2>1. "delete" \in PcNames
    BY DEF PcNames
  <2>2. \A i \in call[r].todo :
          [call[r] EXCEPT !.job = i, !.todo = @ \ {i}, !.pc = "delete"] \in Frame
    BY <1>0, <2>1 DEF Frame, FrameFields
  <2>3. call' \in [Slots -> Frame]
    BY <1>7, <2>2, FramesKept DEF SweepFile
  <2> QED BY <1>7, <2>3 DEF SweepFile, TypeOK
<1> QED BY <1>1, <1>2, <1>3, <1>4, <1>5, <1>6, <1>7

(***************************************************************************)
(* The environment, and the theorem.                                       *)
(***************************************************************************)

\* Customers, provider, agents and clocks keep the types.
LEMMA EnvironmentType ==
  ASSUME TypeOK, Environment PROVE TypeOK'
<1> USE DEF UNTOUCHED, ELSEWHERE, BEYOND, OUTSIDE, money, codes, time, agent
<1>1. ASSUME NEW j \in Jobs, Create(j) PROVE TypeOK'
  <2>1. "UPLOADED" \in JobStates /\ job[j] \in JobRow
    BY DEF TypeOK, JobStates
  <2>2. [job[j] EXCEPT !.state = "UPLOADED"] \in JobRow
    BY <2>1 DEF JobRow
  <2> QED BY <1>1, <2>2 DEF Create, TypeOK
<1>2. ASSUME NEW j \in Jobs, Elapse(j) PROVE TypeOK'
  BY <1>2 DEF Elapse, TypeOK
<1>3. ASSUME NEW j \in Jobs, Age(j) PROVE TypeOK'
  BY <1>3 DEF Age, TypeOK
<1>4. ASSUME NEW j \in Jobs, LoseAgent(j) PROVE TypeOK'
  <2>1. printing[j] - 1 \in Nat
    BY <1>4 DEF LoseAgent, TypeOK
  <2> QED BY <1>4, <2>1 DEF LoseAgent, TypeOK
<1>5. ASSUME NEW j \in Jobs, NEW w \in Files, Download(j, w) PROVE TypeOK'
  <2>1. links[j][w] - 1 \in Nat /\ printing[j] + 1 \in Nat
    BY <1>5 DEF Download, TypeOK
  <2>2. [links[j] EXCEPT ![w] = links[j][w] - 1] \in [Files -> Nat]
    BY <2>1 DEF TypeOK
  <2>3. links' \in [Jobs -> [Files -> Nat]]
    BY <1>5, <2>2 DEF Download, TypeOK
  <2>4. printing' \in [Jobs -> Nat] /\ released' \in [Jobs -> BOOLEAN]
    BY <1>5, <2>1 DEF Download, TypeOK
  <2> QED BY <1>5, <2>3, <2>4 DEF Download, TypeOK
<1>6. ASSUME NEW o \in Orders, Capture(o) \/ ProviderRefunds(o) PROVE TypeOK'
  <2>1. \A s \in {"captured", "refunded"} :
          [ledger[o] EXCEPT !.status = s] \in LedgerRow
    BY DEF TypeOK, LedgerRow, LedgerStatus
  <2> QED BY <1>6, <2>1 DEF Capture, ProviderRefunds, TypeOK
<1> QED BY <1>1, <1>2, <1>3, <1>4, <1>5, <1>6 DEF Environment

\* A restart of the process keeps the types.
LEMMA RestartType ==
  ASSUME TypeOK, Restart PROVE TypeOK'
<1>1. restarts' \in 0..MaxRestarts
  BY ConstantsAssumption DEF Restart, TypeOK
<1> QED BY <1>1, IdleFrameType DEF Restart, TypeOK, agent

\* The types hold of the empty tables and of the later starting points.
LEMMA InitType == Init => TypeOK
<1> SUFFICES ASSUME Init PROVE TypeOK
  OBVIOUS
<1>1. PICK first \in [Jobs -> Prices] : job = [j \in Jobs |-> FirstRow(j, first[j])]
  BY DEF Init
<1>2. \A j \in Jobs, p \in Prices : FirstRow(j, p) \in JobRow
  <2> TAKE j \in Jobs, p \in Prices
  <2>1. p \in Nat
    BY ConstantsAssumption
  <2>2. BlankJob \in JobRow
    BY DEF BlankJob, JobRow, JobStates
  <2>3. \A K \in SUBSET Files : [BlankJob EXCEPT !.state = "PRICED", !.keys = K] \in JobRow
    BY <2>2 DEF JobRow, JobStates
  <2>4. \A K \in SUBSET Files :
          [BlankJob EXCEPT !.state = "AWAITING_PAYMENT", !.price = p, !.keys = K] \in JobRow
    BY <2>1, <2>2 DEF JobRow, JobStates
  <2>5. {"file"} \in SUBSET Files
    BY DEF Files
  <2> QED BY <2>2, <2>3, <2>4, <2>5 DEF FirstRow
<1>3. job \in [Jobs -> JobRow]
  BY <1>1, <1>2
<1>4. disk \in [Jobs -> SUBSET Files]
  BY <1>3 DEF Init, JobRow
<1>5. NoPayment \in PaymentRow /\ UnusedOrder \in LedgerRow
  BY DEF NoPayment, UnusedOrder, PaymentRow, LedgerRow, PaymentStatus, LedgerStatus
<1>6. 0 \in 0..MaxRestarts
  BY ConstantsAssumption
<1> QED BY <1>3, <1>4, <1>5, <1>6, IdleFrameType DEF Init, TypeOK

\* Every step keeps the types.
LEMMA NextType == TypeOK /\ [Next]_vars => TypeOK'
<1> SUFFICES ASSUME TypeOK, [Next]_vars PROVE TypeOK'
  OBVIOUS
<1>1. ASSUME NEW r \in Slots, Start(r) PROVE TypeOK'
  BY <1>1, IntakeStartType, CheckoutStartType, ClaimStartType, RefundStartType DEF Start
<1>2. ASSUME NEW r \in Slots, Step(r) PROVE TypeOK'
  BY <1>2, IntakeStepType, CheckoutStepType, ClaimStepType, RefundMoneyType, SweepType
     DEF Step, RefundStep
<1>3. CASE Environment
  BY <1>3, EnvironmentType
<1>4. CASE Restart
  BY <1>4, RestartType
<1>5. CASE UNCHANGED vars
  BY <1>5 DEF vars, TypeOK
<1> QED BY <1>1, <1>2, <1>3, <1>4, <1>5 DEF Next

\* In every state of every run, each row, frame and counter has its type:
\* a handler never works on a job, an order or a code that does not exist.
THEOREM TypeCorrectness == Spec => []TypeOK
<1>1. Init => TypeOK
  BY InitType
<1>2. TypeOK /\ [Next]_vars => TypeOK'
  BY NextType
<1> QED BY <1>1, <1>2, PTL DEF Spec

\* How the provider's books change from L to M: a registered order keeps its
\* job and stays registered, settled money stays settled, a refund is final.
Grows(L, M) ==
  \A o \in Orders :
    /\ L[o].status # "unused" => M[o].job = L[o].job /\ M[o].status # "unused"
    /\ L[o].status \in Settled => M[o].status \in Settled
    /\ L[o].status = "refunded" => M[o].status = "refunded"

\* Growing books keep what they say of a job.
LEMMA SettledStays ==
  ASSUME NEW L, NEW M, Grows(L, M), NEW j
  PROVE  /\ \A o : SettledIn(L, j, o) => SettledIn(M, j, o)
         /\ PaidIn(L, j) => PaidIn(M, j)
         /\ MoneyBackIn(L, j) => MoneyBackIn(M, j)
<1>1. \A o : SettledIn(L, j, o) => SettledIn(M, j, o)
  BY DEF Grows, SettledIn, Settled
<1>2. MoneyBackIn(L, j) => MoneyBackIn(M, j)
  BY DEF Grows, MoneyBackIn
<1> QED BY <1>1, <1>2 DEF PaidIn

\* What a handler or a row relies on stays true while the books grow.
LEMMA FrameStays ==
  ASSUME NEW L, NEW M, Grows(L, M), NEW f, FrameSafe(L, f)
  PROVE  FrameSafe(M, f)
<1>1. \A j : /\ \A o : SettledIn(L, j, o) => SettledIn(M, j, o)
             /\ PaidIn(L, j) => PaidIn(M, j)
             /\ MoneyBackIn(L, j) => MoneyBackIn(M, j)
  BY SettledStays
<1>2. \A o \in Orders : L[o].status \in Settled => M[o].status \in Settled
  BY DEF Grows
<1> QED BY <1>1, <1>2 DEF FrameSafe

\* What the payment row says of the books stays true while they grow.
LEMMA PaymentStays ==
  ASSUME NEW L, NEW M, Grows(L, M), NEW j, NEW p \in PaymentRow, PaymentSafe(L, p, j)
  PROVE  PaymentSafe(M, p, j)
<1>1. \A o : SettledIn(L, j, o) => SettledIn(M, j, o)
  BY SettledStays
<1>2. p.order # NoOrder => p.order \in Orders
  BY DEF PaymentRow
<1> QED BY <1>1, <1>2 DEF PaymentSafe, Grows

\* What a job row and the agents' links rely on stays true while the books grow.
LEMMA JobStays ==
  ASSUME NEW L, NEW M, Grows(L, M), NEW j, NEW s, NEW k, NEW out,
         JobSafe(L, j, s, k, out)
  PROVE  JobSafe(M, j, s, k, out)
  BY SettledStays DEF JobSafe

\* An order in registration is not disturbed while it stays as it was created.
LEMMA RegisterStays ==
  ASSUME NEW L, NEW C, RegisterSafe(L, C), NEW M,
         \A o \in Orders : L[o].status = "created" => M[o] = L[o]
  PROVE  RegisterSafe(M, C)
  BY DEF RegisterSafe

\* No change at all is a growth.
LEMMA GrowsSame == \A L : Grows(L, L)
  BY DEF Grows
(***************************************************************************)
(* Steps that leave the provider's books alone.                            *)
(***************************************************************************)

\* What BooksAgree says of the request in slot r, and of its variables.
LEMMA FrameFacts ==
  ASSUME TypeOK, BooksAgree, NEW r \in Slots
  PROVE  /\ FrameSafe(ledger, call[r])
         /\ call[r] \in FrameFields
         /\ call[r].ord \in Orders \/ call[r].ord = NoOrder
         /\ \A pc : /\ [call[r] EXCEPT !.pc = pc].pc = pc
                    /\ [call[r] EXCEPT !.pc = pc].job = call[r].job
                    /\ [call[r] EXCEPT !.pc = pc].ord = call[r].ord
  BY DEF TypeOK, BooksAgree, Frame, FrameFields

\* A row keeps its promise when what the promise is about does not change.
LEMMA RowFacts ==
  ASSUME TypeOK, BooksAgree, NEW j \in Jobs
  PROVE  /\ PaymentSafe(ledger, pay[j], j)
         /\ JobSafe(ledger, j, job[j].state, links[j], released[j])
  BY DEF BooksAgree

\* The request in slot r goes on with frame f and may rely on it.
LEMMA StepSafe ==
  ASSUME TypeOK, BooksAgree, NEW r \in Slots, NEW f, SetFrame(r, f),
         UNCHANGED ledger, FrameSafe(ledger, f),
         f.pc = "savePayment" => f.ord \notin Orders,
         \A j \in Jobs : PaymentSafe(ledger, pay'[j], j),
         \A j \in Jobs : JobSafe(ledger, j, job'[j].state, links'[j], released'[j])
  PROVE  BooksAgree'
<1>1. \A s \in Slots : call'[s] = IF s = r THEN f ELSE call[s]
  BY DEF SetFrame, TypeOK
<1>2. \A s \in Slots : FrameSafe(ledger, call'[s])
  BY <1>1 DEF BooksAgree
<1>3. RegisterSafe(ledger, call')
  BY <1>1 DEF BooksAgree, RegisterSafe, Registers
<1> QED BY <1>2, <1>3 DEF BooksAgree

\* Where a request relies on the provider.
Relying == {"savePayment", "verify", "mark", "roll", "queue", "capture", "take",
            "handOver", "refundCall", "refundSave", "refundFinal", "settleRead",
            "settlePayment", "settleJob"}

\* A step to a place where nothing is relied on, that queues and refunds nothing.
LEMMA QuietStep ==
  ASSUME TypeOK, BooksAgree, NEW r \in Slots, NEW f, SetFrame(r, f),
         f.pc \notin Relying, UNCHANGED <<pay, ledger, links, released>>,
         \A j \in Jobs : \/ job'[j].state = job[j].state
                         \/ job'[j].state \notin {"QUEUED", "REFUNDED"}
  PROVE  BooksAgree'
<1>1. FrameSafe(ledger, f) /\ f.pc # "savePayment"
  BY DEF FrameSafe, Relying
<1>2. \A j \in Jobs : JobSafe(ledger, j, job'[j].state, links'[j], released'[j])
  BY RowFacts DEF JobSafe
<1>3. \A j \in Jobs : PaymentSafe(ledger, pay'[j], j)
  BY RowFacts
<1> QED BY <1>1, <1>2, <1>3, StepSafe

\* A step that touches nothing but the requests in flight.
LEMMA FrameStep ==
  ASSUME TypeOK, BooksAgree, NEW r \in Slots, NEW f, SetFrame(r, f),
         FrameSafe(ledger, f), f.pc = "savePayment" => f.ord \notin Orders,
         UNCHANGED <<job, pay, ledger, links, released>>
  PROVE  BooksAgree'
<1>1. \A j \in Jobs : /\ PaymentSafe(ledger, pay'[j], j)
                      /\ JobSafe(ledger, j, job'[j].state, links'[j], released'[j])
  BY RowFacts
<1> QED BY <1>1, StepSafe

\* The frame of a free slot and those of arriving requests.
LEMMA ArriveFacts ==
  /\ IdleFrame.pc = "idle"
  /\ \A op, pc, j : LET f == Arrive(op, pc, j)
                    IN  /\ f.pc = pc /\ f.job = j /\ f.ord = NoOrder
                        /\ \A o : LET g == [f EXCEPT !.ord = o]
                                  IN  g.pc = pc /\ g.job = j /\ g.ord = o
                        /\ \A n : LET g == [f EXCEPT !.n = n]
                                  IN  g.pc = pc /\ g.job = j /\ g.ord = NoOrder
                        /\ \A h : LET g == [f EXCEPT !.held = h]
                                  IN  g.pc = pc /\ g.job = j /\ g.ord = NoOrder
  BY DEF Arrive, IdleFrame

\* QuietStep for a handler that ends, and for one that goes on at pc.
LEMMA QuietFinish ==
  ASSUME TypeOK, BooksAgree, NEW r \in Slots, Finish(r),
         UNCHANGED <<pay, ledger, links, released>>,
         \A j \in Jobs : \/ job'[j].state = job[j].state
                         \/ job'[j].state \notin {"QUEUED", "REFUNDED"}
  PROVE  BooksAgree'
<1>1. IdleFrame.pc \notin Relying
  BY ArriveFacts DEF Relying
<1> QED BY <1>1, QuietStep DEF Finish

\* Moving a handler to a point where it relies on nothing keeps the agreement.
LEMMA QuietGoto ==
  ASSUME TypeOK, BooksAgree, NEW r \in Slots, NEW pc, pc \notin Relying, Goto(r, pc),
         UNCHANGED <<pay, ledger, links, released>>,
         \A j \in Jobs : \/ job'[j].state = job[j].state
                         \/ job'[j].state \notin {"QUEUED", "REFUNDED"}
  PROVE  BooksAgree'
<1>1. [call[r] EXCEPT !.pc = pc].pc \notin Relying
  BY FrameFacts
<1> QED BY <1>1, QuietStep DEF Goto

\* The state column after a write to another column, or to it alone.
LEMMA JobRows == ASSUME TypeOK PROVE job \in [Jobs -> JobRow]
  BY DEF TypeOK

\* Writing another column of a job row leaves its state column alone.
LEMMA StateColumn ==
  ASSUME TypeOK, NEW i
  PROVE  /\ \A K : \A j \in Jobs : [job EXCEPT ![i].keys = K][j].state = job[j].state
         /\ \A n : \A j \in Jobs : [job EXCEPT ![i].tries = n][j].state = job[j].state
         /\ \A b : \A j \in Jobs : [job EXCEPT ![i].shown = b][j].state = job[j].state
         /\ \A s : \A j \in Jobs :
              [job EXCEPT ![i].state = s][j].state = IF j = i THEN s ELSE job[j].state
  BY JobRows DEF JobRow

(***************************************************************************)
(* Intake: nothing here relies on the provider.                            *)
(***************************************************************************)
LEMMA IntakeSafe ==
  ASSUME TypeOK, BooksAgree, NEW r \in Slots, IntakeStart(r) \/ IntakeStep(r)
  PROVE  BooksAgree'
<1> USE DEF UNTOUCHED, money, agent
<1>1. ASSUME NEW j \in Jobs, StartUpload(r, j) PROVE BooksAgree'
  BY <1>1, ArriveFacts, QuietStep DEF StartUpload, Relying
<1>2. ASSUME NEW j \in Jobs, StartProcess(r, j) PROVE BooksAgree'
  BY <1>2, ArriveFacts, QuietStep DEF StartProcess, Relying
<1>3. ASSUME NEW j \in Jobs, NEW p \in Prices, NEW photo \in BOOLEAN,
             StartPrice(r, j, p, photo)
      PROVE  BooksAgree'
  <2> DEFINE f == [Arrive("price", "savePrice", j) EXCEPT
                     !.n = p, !.held = [NoFiles EXCEPT ![j] = job[j].keys \cap {"print"}]]
             g == [f EXCEPT !.pc = "compose"]
  <2>1. f.pc \notin Relying /\ g.pc \notin Relying
    BY DEF Relying, Arrive, IdleFrame
  <2>2. SetFrame(r, f) \/ SetFrame(r, g)
    BY <1>3 DEF StartPrice
  <2>3. UNCHANGED <<job, pay, ledger, links, released>>
    BY <1>3 DEF StartPrice
  <2> HIDE DEF f, g
  <2> QED BY <2>1, <2>2, <2>3, QuietStep
<1>4. CASE StoreUpload(r)
  BY <1>4, QuietGoto DEF StoreUpload, Relying
<1>5. CASE SaveUpload(r)
  <2>1. \A j \in Jobs : job'[j].state = job[j].state
    BY <1>5, StateColumn DEF SaveUpload
  <2> QED BY <1>5, <2>1, QuietFinish DEF SaveUpload
<1>6. CASE Inspect(r)
  BY <1>6, QuietFinish, QuietGoto DEF Inspect, Relying
<1>7. CASE FailJob(r)
  <2>1. \A j \in Jobs : job'[j].state \in {job[j].state, "FAILED"}
    BY <1>7, StateColumn DEF FailJob
  <2> QED BY <1>7, <2>1, QuietFinish DEF FailJob
<1>8. CASE StoreArtifact(r)
  <2>1. PICK pc \in {"savePages", "savePrice"} :
          SetFrame(r, [call[r] EXCEPT !.held[call[r].job] = @ \cup {"print"}, !.pc = pc])
    BY <1>8 DEF StoreArtifact
  <2>2. \A h : [call[r] EXCEPT !.held = h, !.pc = pc].pc = pc
    BY FrameFacts DEF FrameFields
  <2>3. pc \notin Relying
    BY DEF Relying
  <2> QED BY <1>8, <2>1, <2>2, <2>3, QuietStep DEF StoreArtifact
<1>9. CASE SavePages(r)
  <2>1. \A j \in Jobs : job'[j].state \in {job[j].state, "PRICED"}
    <3>1. \E K : job' = [job EXCEPT ![call[r].job].state = "PRICED",
                                    ![call[r].job].keys = K]
      BY <1>9 DEF SavePages
    <3> QED BY <3>1, JobRows DEF JobRow
  <2> QED BY <1>9, <2>1, QuietFinish DEF SavePages
<1>10. CASE Compose(r)
  BY <1>10, QuietFinish, QuietGoto DEF Compose, Relying
<1>11. CASE SavePrice(r)
  <2>1. \A j \in Jobs : job'[j].state \in {job[j].state, "AWAITING_PAYMENT"}
    <3>1. \E p, K : job' = [job EXCEPT ![call[r].job].state = "AWAITING_PAYMENT",
                                       ![call[r].job].price = p,
                                       ![call[r].job].keys = K]
      BY <1>11 DEF SavePrice
    <3> QED BY <3>1, JobRows DEF JobRow
  <2> QED BY <1>11, <2>1, QuietFinish DEF SavePrice
<1> QED BY <1>1, <1>2, <1>3, <1>4, <1>5, <1>6, <1>7, <1>8, <1>9, <1>10, <1>11
        DEF IntakeStart, IntakeStep

(***************************************************************************)
(* Checkout.                                                               *)
(***************************************************************************)

\* An order that is not yet registered, and one registered for a payment row.
LEMMA NewOrderGrows ==
  ASSUME TypeOK, NEW o \in Orders, ledger[o].status = "unused", NEW row
  PROVE  Grows(ledger, [ledger EXCEPT ![o] = row])
<1>1. ledger \in [Orders -> LedgerRow]
  BY DEF TypeOK
<1> QED BY <1>1 DEF Grows, Settled

\* A change of one order's status alone, to a later one.
LEMMA StatusGrows ==
  ASSUME TypeOK, NEW o \in Orders, NEW s,
         s # "unused",
         ledger[o].status \in Settled => s \in Settled,
         ledger[o].status = "refunded" => s = "refunded"
  PROVE  /\ Grows(ledger, [ledger EXCEPT ![o].status = s])
         /\ [ledger EXCEPT ![o].status = s][o].job = ledger[o].job
         /\ [ledger EXCEPT ![o].status = s][o].status = s
         /\ \A p \in Orders : p # o => [ledger EXCEPT ![o].status = s][p] = ledger[p]
<1>1. ledger \in [Orders -> LedgerRow]
  BY DEF TypeOK
<1> QED BY <1>1 DEF Grows, LedgerRow

\* Growing books keep every promise but that of the orders in registration.
LEMMA GrowStep ==
  ASSUME TypeOK, BooksAgree, Grows(ledger, ledger')
  PROVE  /\ \A r \in Slots : FrameSafe(ledger', call[r])
         /\ \A j \in Jobs : /\ PaymentSafe(ledger', pay[j], j)
                            /\ JobSafe(ledger', j, job[j].state, links[j], released[j])
<1>1. \A r \in Slots : FrameSafe(ledger', call[r])
  BY FrameStays DEF BooksAgree
<1>2. \A j \in Jobs : PaymentSafe(ledger', pay[j], j)
  BY PaymentStays DEF BooksAgree, TypeOK
<1>3. \A j \in Jobs : JobSafe(ledger', j, job[j].state, links[j], released[j])
  BY JobStays DEF BooksAgree
<1> QED BY <1>1, <1>2, <1>3

\* A payment, a confirmation, a webhook or a status poll that arrives keeps the
\* agreement: a confirmation is signed, and a webhook names a settled order.
LEMMA CheckoutStartSafe ==
  ASSUME TypeOK, BooksAgree, NEW r \in Slots, CheckoutStart(r)
  PROVE  BooksAgree'
<1> USE DEF ELSEWHERE, money, agent
<1>1. ASSUME NEW j \in Jobs, StartPay(r, j) PROVE BooksAgree'
  <2>1. PICK pc \in {"savePayment", "readPayment"} :
          SetFrame(r, [Arrive("pay", pc, j) EXCEPT !.n = job[j].price])
    BY <1>1 DEF StartPay
  <2> DEFINE f == [Arrive("pay", pc, j) EXCEPT !.n = job[j].price]
  <2>2. f.pc = pc /\ f.ord \notin Orders
    BY ArriveFacts, ConstantsAssumption
  <2> HIDE DEF f
  <2>3. FrameSafe(ledger, f)
    BY <2>2 DEF FrameSafe
  <2>4. UNCHANGED <<job, pay, ledger, links, released>> /\ SetFrame(r, f)
    BY <1>1, <2>1 DEF StartPay, f
  <2> QED BY <2>2, <2>3, <2>4, FrameStep
<1>2. ASSUME NEW j \in Jobs, StartCaptured(r, j) PROVE BooksAgree'
  <2> DEFINE f == [Arrive("captured", "mark", j) EXCEPT !.ord = pay[j].order]
  <2>1. pay[j].order \in Orders
    BY <1>2 DEF StartCaptured, TypeOK, PaymentRow
  <2>2. SettledIn(ledger, j, pay[j].order)
    BY <1>2, <2>1, RowFacts DEF StartCaptured, PaymentSafe, SettledIn
  <2>3. f.pc = "mark" /\ f.job = j /\ f.ord = pay[j].order
    BY ArriveFacts
  <2>4. UNCHANGED <<job, pay, ledger, links, released>> /\ SetFrame(r, f)
    BY <1>2 DEF StartCaptured
  <2> HIDE DEF f
  <2>5. FrameSafe(ledger, f)
    BY <2>2, <2>3 DEF FrameSafe
  <2> QED BY <2>3, <2>4, <2>5, FrameStep
<1>3. ASSUME NEW j \in Jobs, StartStatus(r, j) PROVE BooksAgree'
  BY <1>3, ArriveFacts, QuietStep DEF StartStatus, Relying
<1>4. ASSUME NEW j \in Jobs, NEW o \in Orders, StartConfirm(r, j, o) PROVE BooksAgree'
  <2> DEFINE f == [Arrive("confirm", "verify", j) EXCEPT !.ord = o]
  <2>1. f.pc = "verify" /\ f.ord = o
    BY ArriveFacts
  <2>2. UNCHANGED <<job, pay, ledger, links, released>> /\ SetFrame(r, f)
    BY <1>4 DEF StartConfirm
  <2> HIDE DEF f
  <2>3. FrameSafe(ledger, f)
    BY <1>4, <2>1 DEF FrameSafe, StartConfirm
  <2> QED BY <2>1, <2>2, <2>3, FrameStep
<1> QED BY <1>1, <1>2, <1>3, <1>4 DEF CheckoutStart

\* pay() and the provider's answer: an order is registered and recorded.
LEMMA PaySafe ==
  ASSUME TypeOK, BooksAgree, NEW r \in Slots,
         \/ ReadPayment(r) \/ CreateOrder(r) \/ SavePayment(r) \/ SaveMockPayment(r)
  PROVE  BooksAgree'
<1> DEFINE j == call[r].job
           o == call[r].ord
<1> USE DEF ELSEWHERE, money, agent
<1>0. j \in Jobs /\ call[r] \in FrameFields
  BY Working, FrameFacts DEF ReadPayment, CreateOrder, SavePayment, SaveMockPayment, At
<1>1. CASE ReadPayment(r)
  <2>1. \A b : [call[r] EXCEPT !.pc = "createOrder", !.seen = b].pc \notin Relying
    BY <1>0 DEF FrameFields, Relying
  <2>2. Finish(r) \/ \E b : SetFrame(r, [call[r] EXCEPT !.pc = "createOrder", !.seen = b])
    BY <1>1 DEF ReadPayment
  <2>3. UNCHANGED <<job, pay, ledger, links, released>>
    BY <1>1 DEF ReadPayment
  <2> QED BY <2>1, <2>2, <2>3, QuietFinish, QuietStep
<1>2. CASE CreateOrder(r)
  <2>1. CASE Finish(r) /\ UNCHANGED ledger
    BY <1>2, <2>1, QuietFinish DEF CreateOrder
  <2>2. ASSUME NEW q \in Orders, ledger[q].status = "unused",
               ledger' = [ledger EXCEPT ![q] = [job |-> j, amount |-> call[r].n,
                                                status |-> "created"]],
               SetFrame(r, [call[r] EXCEPT !.pc = "savePayment", !.ord = q])
        PROVE  BooksAgree'
    <3> DEFINE f == [call[r] EXCEPT !.pc = "savePayment", !.ord = q]
    <3>1. f.pc = "savePayment" /\ f.ord = q /\ f.job = j
      BY <1>0 DEF FrameFields
    <3> HIDE DEF f
    <3>2. Grows(ledger, ledger')
      BY <2>2, NewOrderGrows
    <3>3. \A s \in Slots : call'[s] = IF s = r THEN f ELSE call[s]
      BY <2>2 DEF SetFrame, TypeOK, f
    <3>4. FrameSafe(ledger', f)
      BY <3>1 DEF FrameSafe
    <3>5. \A s \in Slots : FrameSafe(ledger', call'[s])
      BY <3>2, <3>3, <3>4, GrowStep
    <3>6. ledger'[q].job = j /\ ledger'[q].status = "created"
      BY <2>2 DEF TypeOK
    <3>7. \A p \in Orders : p # q => ledger'[p] = ledger[p]
      BY <2>2 DEF TypeOK
    <3>8. \A s \in Slots : ~ Registers(call[s], q)
      BY <2>2 DEF BooksAgree, RegisterSafe
    <3>9. RegisterSafe(ledger', call')
      BY <3>1, <3>3, <3>6, <3>7, <3>8 DEF BooksAgree, RegisterSafe, Registers
    <3> QED BY <1>2, <3>2, <3>5, <3>9, GrowStep DEF BooksAgree, CreateOrder
  <2> QED BY <1>2, <2>1, <2>2 DEF CreateOrder
<1>3. CASE SavePayment(r)
  <2>1. CASE UNCHANGED money
    BY <1>3, <2>1, QuietFinish DEF SavePayment
  <2>2. CASE /\ pay' = [pay EXCEPT ![j].order = o, ![j].amount = call[r].n,
                                   ![j].status = "created"]
             /\ ledger' = [ledger EXCEPT ![o].status = "offered"]
    <3>1. \A s \in Slots : call'[s] = IF s = r THEN IdleFrame ELSE call[s]
      BY <1>3 DEF SavePayment, Finish, SetFrame, TypeOK
    <3>2. Grows(ledger, ledger')
      <4>1. CASE o \in Orders
        <5>1. ledger[o].status = "created"
          BY <1>3, <4>1 DEF SavePayment, At, BooksAgree, RegisterSafe, Registers
        <5> QED BY <2>2, <4>1, <5>1, StatusGrows DEF Settled
      <4>2. CASE o \notin Orders
        <5>1. ledger' = ledger
          BY <2>2, <4>2 DEF TypeOK
        <5> QED BY <5>1, GrowsSame
      <4> QED BY <4>1, <4>2
    <3>3. \A s \in Slots : FrameSafe(ledger', call'[s])
      <4>1. FrameSafe(ledger', IdleFrame)
        BY ArriveFacts DEF FrameSafe
      <4> QED BY <3>1, <3>2, <4>1, GrowStep
    <3>4. \A p \in Orders : p # o => ledger'[p] = ledger[p]
      BY <2>2 DEF TypeOK
    <3>5. RegisterSafe(ledger', call')
      <4> SUFFICES ASSUME NEW p \in Orders, NEW s \in Slots, Registers(call'[s], p)
                   PROVE  /\ ledger'[p].job = call'[s].job /\ ledger'[p].status = "created"
                          /\ \A t \in Slots : Registers(call'[t], p) => t = s
        BY DEF RegisterSafe
      <4>1. s # r /\ call'[s] = call[s]
        BY <3>1, ArriveFacts DEF Registers
      <4>2. p # o
        BY <1>3, <4>1 DEF SavePayment, At, BooksAgree, RegisterSafe, Registers
      <4> QED BY <3>1, <3>4, <4>1, <4>2, ArriveFacts
              DEF BooksAgree, RegisterSafe, Registers
    <3>6. PaymentSafe(ledger', pay'[j], j)
      <4>1. /\ pay'[j].order = o /\ pay'[j].payId = pay[j].payId
            /\ pay'[j].status = "created"
        BY <1>0, <2>2 DEF TypeOK, PaymentRow
      <4>2. o # NoOrder => ledger'[o].job = j /\ ledger'[o].status # "unused"
        <5>1. ASSUME o \in Orders PROVE ledger[o].job = j /\ ledger[o].status = "created"
          BY <1>3, <5>1 DEF SavePayment, At, BooksAgree, RegisterSafe, Registers
        <5>2. o \in Orders \/ o = NoOrder
          BY <1>0 DEF FrameFields
        <5> QED BY <3>2, <5>1, <5>2 DEF Grows
      <4>3. PaymentSafe(ledger', pay[j], j)
        BY <1>0, <3>2, GrowStep
      <4> QED BY <4>1, <4>2, <4>3 DEF PaymentSafe
    <3>7. \A i \in Jobs : PaymentSafe(ledger', pay'[i], i)
      <4>1. \A i \in Jobs : i # j => pay'[i] = pay[i]
        BY <2>2 DEF TypeOK
      <4> QED BY <3>2, <3>6, <4>1, GrowStep
    <3> QED BY <1>3, <3>2, <3>3, <3>5, <3>7, GrowStep DEF BooksAgree, SavePayment
  <2> QED BY <1>3, <2>1, <2>2 DEF SavePayment
<1>4. CASE SaveMockPayment(r)
  <2>1. CASE Finish(r) /\ UNCHANGED money
    BY <1>4, <2>1, QuietFinish DEF SaveMockPayment
  <2>2. ASSUME NEW q \in Orders, ledger[q].status = "unused",
               ledger' = [ledger EXCEPT ![q] = [job |-> j, amount |-> call[r].n,
                                                status |-> "captured"]],
               pay' = [pay EXCEPT ![j].order = q, ![j].amount = call[r].n,
                                  ![j].status = "created"],
               SetFrame(r, [call[r] EXCEPT !.pc = "mark", !.ord = q])
        PROVE  BooksAgree'
    <3> DEFINE f == [call[r] EXCEPT !.pc = "mark", !.ord = q]
    <3>1. f.pc = "mark" /\ f.ord = q /\ f.job = j
      BY <1>0 DEF FrameFields
    <3> HIDE DEF f
    <3>2. Grows(ledger, ledger')
      BY <2>2, NewOrderGrows
    <3>3. \A s \in Slots : call'[s] = IF s = r THEN f ELSE call[s]
      BY <2>2 DEF SetFrame, TypeOK, f
    <3>4. ledger'[q].job = j /\ ledger'[q].status = "captured"
      BY <2>2 DEF TypeOK
    <3>5. \A p \in Orders : p # q => ledger'[p] = ledger[p]
      BY <2>2 DEF TypeOK
    <3>6. FrameSafe(ledger', f)
      BY <3>1, <3>4 DEF FrameSafe, SettledIn, Settled
    <3>7. \A s \in Slots : FrameSafe(ledger', call'[s])
      BY <3>2, <3>3, <3>6, GrowStep
    <3>8. \A s \in Slots : ~ Registers(call[s], q)
      BY <2>2 DEF BooksAgree, RegisterSafe
    <3>9. RegisterSafe(ledger', call')
      BY <3>1, <3>3, <3>5, <3>8 DEF BooksAgree, RegisterSafe, Registers
    <3>10. PaymentSafe(ledger', pay'[j], j)
      <4>1. /\ pay'[j].order = q /\ pay'[j].payId = pay[j].payId
            /\ pay'[j].status = "created"
        BY <1>0, <2>2 DEF TypeOK, PaymentRow
      <4>2. PaymentSafe(ledger', pay[j], j)
        BY <1>0, <3>2, GrowStep
      <4> QED BY <3>4, <4>1, <4>2 DEF PaymentSafe
    <3>11. \A i \in Jobs : PaymentSafe(ledger', pay'[i], i)
      <4>1. \A i \in Jobs : i # j => pay'[i] = pay[i]
        BY <2>2 DEF TypeOK
      <4> QED BY <3>2, <3>10, <4>1, GrowStep
    <3> QED BY <1>4, <3>2, <3>7, <3>9, <3>11, GrowStep DEF BooksAgree, SaveMockPayment
  <2> QED BY <1>4, <2>1, <2>2 DEF SaveMockPayment
<1> QED BY <1>1, <1>2, <1>3, <1>4

\* confirmPayment, markPaidAndQueue and status.
LEMMA MarkSafe ==
  ASSUME TypeOK, BooksAgree, NEW r \in Slots,
         \/ Verify(r) \/ Mark(r) \/ Roll(r) \/ Queue(r) \/ RecordCapture(r)
         \/ Publish(r) \/ Reveal(r) \/ SaveShown(r)
  PROVE  BooksAgree'
<1> DEFINE j == call[r].job
           o == call[r].ord
<1> USE DEF ELSEWHERE, money, agent
<1>0. j \in Jobs /\ call[r] \in FrameFields /\ FrameSafe(ledger, call[r])
  BY Working, FrameFacts DEF Verify, Mark, Roll, Queue, RecordCapture, Publish,
     Reveal, SaveShown, At
<1>a. \A pc : LET f == [call[r] EXCEPT !.pc = pc]
              IN  f.pc = pc /\ f.job = j /\ f.ord = o
  BY FrameFacts
<1>b. \A pc, c, n : LET f == [call[r] EXCEPT !.pc = pc, !.code = c, !.n = n]
                    IN  f.pc = pc /\ f.job = j /\ f.ord = o
  BY <1>0 DEF FrameFields
<1>c. ASSUME NEW f, f.pc \in {"mark", "roll", "queue", "capture"}, f.job = j, f.ord = o,
             SettledIn(ledger, j, o)
      PROVE  FrameSafe(ledger, f) /\ f.pc # "savePayment"
  BY <1>c DEF FrameSafe
<1>1. CASE Verify(r)
  <2>1. CASE Finish(r)
    BY <1>1, <2>1, QuietFinish DEF Verify
  <2>2. CASE pay[j].order = o /\ Goto(r, "mark")
    <3>1. o \in Orders /\ ledger[o].status \in Settled
      BY <1>0, <1>1 DEF Verify, At, FrameSafe
    <3>2. SettledIn(ledger, j, o)
      BY <1>0, <2>2, <3>1, RowFacts, ConstantsAssumption DEF PaymentSafe, SettledIn
    <3> DEFINE f == [call[r] EXCEPT !.pc = "mark"]
    <3>3. f.pc = "mark" /\ f.job = j /\ f.ord = o
      BY <1>a
    <3> HIDE DEF f
    <3>4. FrameSafe(ledger, f)
      BY <1>c, <3>2, <3>3
    <3> QED BY <1>1, <2>2, <3>3, <3>4, FrameStep DEF Verify, Goto, f
  <2> QED BY <1>1, <2>1, <2>2 DEF Verify
<1>2. CASE Mark(r)
  <2>1. CASE Finish(r)
    BY <1>2, <2>1, QuietFinish DEF Mark
  <2>2. ASSUME NEW c \in Otps,
               SetFrame(r, [call[r] EXCEPT !.pc = "roll", !.code = c, !.n = 0])
        PROVE  BooksAgree'
    <3>1. SettledIn(ledger, j, o)
      BY <1>0, <1>2 DEF Mark, At, FrameSafe
    <3> DEFINE f == [call[r] EXCEPT !.pc = "roll", !.code = c, !.n = 0]
    <3>2. f.pc = "roll" /\ f.job = j /\ f.ord = o
      BY <1>b
    <3> HIDE DEF f
    <3>3. FrameSafe(ledger, f)
      BY <1>c, <3>1, <3>2
    <3> QED BY <1>2, <2>2, <3>2, <3>3, FrameStep DEF Mark, f
  <2> QED BY <1>2, <2>1, <2>2 DEF Mark
<1>3. CASE Roll(r)
  <2>1. SettledIn(ledger, j, o)
    BY <1>0, <1>3 DEF Roll, At, FrameSafe
  <2>2. PICK f : SetFrame(r, f) /\ f.pc \in {"roll", "queue"} /\ f.job = j /\ f.ord = o
    <3>1. CASE Goto(r, "queue")
      BY <1>a, <3>1 DEF Goto
    <3>2. CASE \E c \in Otps :
                 SetFrame(r, [call[r] EXCEPT !.code = c, !.n = call[r].n + 1,
                    !.pc = IF call[r].n + 1 < RerollTries THEN "roll" ELSE "queue"])
      <4>1. PICK c \in Otps :
              SetFrame(r, [call[r] EXCEPT !.code = c, !.n = call[r].n + 1,
                 !.pc = IF call[r].n + 1 < RerollTries THEN "roll" ELSE "queue"])
        BY <3>2
      <4> DEFINE f == [call[r] EXCEPT !.code = c, !.n = call[r].n + 1,
                 !.pc = IF call[r].n + 1 < RerollTries THEN "roll" ELSE "queue"]
      <4>2. f.pc \in {"roll", "queue"} /\ f.job = j /\ f.ord = o
        BY <1>0 DEF FrameFields
      <4>3. SetFrame(r, f)
        BY <4>1
      <4> HIDE DEF f
      <4> QED BY <4>2, <4>3
    <3> QED BY <1>3, <3>1, <3>2 DEF Roll
  <2>3. FrameSafe(ledger, f) /\ f.pc # "savePayment"
    BY <1>c, <2>1, <2>2
  <2> QED BY <1>3, <2>2, <2>3, FrameStep DEF Roll
<1>4. CASE Queue(r)
  <2>1. SettledIn(ledger, j, o)
    BY <1>0, <1>4 DEF Queue, At, FrameSafe
  <2>2. PaidIn(ledger, j)
    BY <2>1 DEF PaidIn, SettledIn
  <2> DEFINE f == [call[r] EXCEPT !.pc = "capture"]
  <2>7. f.pc = "capture" /\ f.job = j /\ f.ord = o
    BY <1>a
  <2>8. FrameSafe(ledger, f)
    <3> HIDE DEF f
    <3> QED BY <1>c, <2>1, <2>7
  <2>3. \A i \in Jobs : i # j => job'[i] = job[i]
    BY <1>4 DEF Queue, TypeOK
  <2>4. job'[j].state = "QUEUED"
    BY <1>0, <1>4 DEF Queue, TypeOK, JobRow
  <2>5. \A i \in Jobs : JobSafe(ledger, i, job'[i].state, links'[i], released'[i])
    BY <1>4, <2>2, <2>3, <2>4, RowFacts DEF Queue, JobSafe
  <2>6. \A i \in Jobs : PaymentSafe(ledger, pay'[i], i)
    BY <1>4, RowFacts DEF Queue
  <2>9. SetFrame(r, f) /\ UNCHANGED ledger
    BY <1>4 DEF Queue, Goto
  <2> HIDE DEF f
  <2> QED BY <2>5, <2>6, <2>7, <2>8, <2>9, StepSafe
<1>5. CASE RecordCapture(r)
  <2>1. SettledIn(ledger, j, o)
    BY <1>0, <1>5 DEF RecordCapture, At, FrameSafe
  <2>3. FrameSafe(ledger, [call[r] EXCEPT !.pc = "publish"])
    BY <1>a DEF FrameSafe
  <2>4. ASSUME NEW i \in Jobs PROVE PaymentSafe(ledger, pay'[i], i)
    <3>1. CASE pay'[i] = pay[i]
      BY <3>1, RowFacts
    <3>2. CASE i = j /\ pay' = [pay EXCEPT ![j].status = "captured", ![j].payId = o]
      <4>1. pay'[i].order = pay[i].order /\ pay'[i].payId = o
        BY <1>0, <3>2 DEF TypeOK, PaymentRow
      <4>2. o # NoOrder
        BY <2>1, ConstantsAssumption DEF SettledIn
      <4> QED BY <2>1, <3>2, <4>1, <4>2, RowFacts DEF PaymentSafe
    <3> QED BY <1>5, <3>1, <3>2 DEF RecordCapture, TypeOK
  <2>5. \A i \in Jobs : JobSafe(ledger, i, job'[i].state, links'[i], released'[i])
    BY <1>5, RowFacts DEF RecordCapture
  <2> QED BY <1>5, <1>a, <2>3, <2>4, <2>5, StepSafe DEF RecordCapture, Goto
<1>6. CASE Publish(r)
  BY <1>6, QuietFinish DEF Publish
<1>7. CASE Reveal(r)
  <2>1. \A c : [call[r] EXCEPT !.pc = "saveShown", !.code = c].pc \notin Relying
    BY <1>0 DEF FrameFields, Relying
  <2>2. Finish(r) \/ \E c : SetFrame(r, [call[r] EXCEPT !.pc = "saveShown", !.code = c])
    BY <1>7 DEF Reveal
  <2>3. UNCHANGED <<job, pay, ledger, links, released>>
    BY <1>7 DEF Reveal
  <2> QED BY <2>1, <2>2, <2>3, QuietFinish, QuietStep
<1>8. CASE SaveShown(r)
  <2>1. \A i \in Jobs : job'[i].state = job[i].state
    BY <1>8, StateColumn DEF SaveShown
  <2> QED BY <1>8, <2>1, QuietFinish DEF SaveShown
<1> QED BY <1>1, <1>2, <1>3, <1>4, <1>5, <1>6, <1>7, <1>8

(***************************************************************************)
(* Claims.                                                                 *)
(***************************************************************************)
LEMMA ReportSafe ==
  ASSUME TypeOK, BooksAgree, NEW r \in Slots, NEW j \in Jobs, NEW op, NEW pc,
         pc \notin Relying, ReportTo(r, j, op, pc)
  PROVE  BooksAgree'
<1> USE DEF BEYOND, money
<1>1. [Arrive(op, pc, j) EXCEPT !.held = Holding(j)].pc \notin Relying
  BY ArriveFacts
<1>2. UNCHANGED <<job, pay, ledger, links, released>>
  BY DEF ReportTo
<1>3. CASE SetFrame(r, [Arrive(op, pc, j) EXCEPT !.held = Holding(j)])
  BY <1>1, <1>2, <1>3, QuietStep
<1>4. CASE UNCHANGED call
  BY <1>2, <1>4 DEF BooksAgree
<1> QED BY <1>3, <1>4 DEF ReportTo

\* A claim selects a job that waits, so one that is paid for.
LEMMA ClaimStartSafe ==
  ASSUME TypeOK, BooksAgree, NEW r \in Slots, ClaimStart(r)
  PROVE  BooksAgree'
<1> USE DEF BEYOND, money, agent
<1>1. ASSUME NEW j \in Jobs, Waiting(j)
      PROVE  FrameSafe(ledger, TakeFrame(j)) /\ TakeFrame(j).pc = "take"
  <2>1. TakeFrame(j).pc = "take" /\ TakeFrame(j).job = j
    BY ArriveFacts DEF TakeFrame
  <2>2. PaidIn(ledger, j)
    BY <1>1, RowFacts DEF Waiting, JobSafe
  <2> QED BY <2>1, <2>2 DEF FrameSafe
<1>2. \A j : ChargeFrame(j).pc = "charge"
  BY ArriveFacts DEF ChargeFrame
<1>3. \A j : FrameSafe(ledger, ChargeFrame(j))
  BY <1>2 DEF FrameSafe
<1>4. ASSUME NEW j \in Jobs, NEW c \in Otps, StartClaimJob(r, j, c)
      PROVE  BooksAgree'
  <2>1. Waiting(j) /\ UNCHANGED <<job, pay, ledger, links, released>>
    BY <1>4 DEF StartClaimJob
  <2>2. SetFrame(r, TakeFrame(j)) \/ SetFrame(r, ChargeFrame(j))
    BY <1>4 DEF StartClaimJob
  <2> QED BY <1>1, <1>2, <1>3, <2>1, <2>2, FrameStep
<1>5. ASSUME NEW k \in Kiosks, NEW c \in Otps, StartClaimCode(r, k, c)
      PROVE  BooksAgree'
  <2> DEFINE matches == {j \in Candidates(k) : job[j].otp = c}
  <2>1. UNCHANGED <<job, pay, ledger, links, released>>
    BY <1>5 DEF StartClaimCode
  <2>2. CASE matches # {} /\ SetFrame(r, TakeFrame(Oldest(matches)))
    <3>1. Oldest(matches) \in matches
      BY <2>2, OldestType DEF Candidates
    <3>2. Oldest(matches) \in Jobs /\ Waiting(Oldest(matches))
      BY <3>1 DEF Candidates
    <3> HIDE DEF matches
    <3> QED BY <1>1, <2>1, <2>2, <3>2, FrameStep
  <2>3. CASE SetFrame(r, ChargeFrame(Oldest(Candidates(k))))
    BY <1>2, <1>3, <2>1, <2>3, FrameStep
  <2> QED BY <1>5, <2>2, <2>3 DEF StartClaimCode
<1>6. ASSUME NEW j \in Jobs, StartCompleted(r, j) PROVE BooksAgree'
  BY <1>6, ReportSafe DEF StartCompleted, Relying
<1>7. ASSUME NEW j \in Jobs, StartFailed(r, j) PROVE BooksAgree'
  BY <1>7, ReportSafe DEF StartFailed, Relying
<1> QED BY <1>4, <1>5, <1>6, <1>7 DEF ClaimStart

\* The steps of a claim hand out links for paid jobs only.
LEMMA ClaimStepSafe ==
  ASSUME TypeOK, BooksAgree, NEW r \in Slots, ClaimStep(r)
  PROVE  BooksAgree'
<1> DEFINE j == call[r].job
<1> USE DEF BEYOND, money, agent
<1>0. j \in Jobs /\ FrameSafe(ledger, call[r])
  BY Working, FrameFacts DEF ClaimStep, Charge, Take, HandOver, Complete, SaveFailed, At
<1>1. CASE Charge(r)
  <2>1. \A i \in Jobs : job'[i].state = job[i].state
    BY <1>1, StateColumn DEF Charge
  <2> QED BY <1>1, <2>1, QuietFinish DEF Charge
<1>2. CASE Take(r)
  <2> DEFINE f == [call[r] EXCEPT !.pc = "handOver"]
  <2>1. f.pc = "handOver" /\ f.job = j
    BY FrameFacts
  <2>2. PaidIn(ledger, j)
    BY <1>0, <1>2 DEF Take, At, FrameSafe
  <2>3. \A i \in Jobs : job'[i].state \in {job[i].state, "PRINTING"}
    BY <1>2, JobRows DEF Take, JobRow
  <2>4. \A i \in Jobs : JobSafe(ledger, i, job'[i].state, links'[i], released'[i])
    BY <1>2, <2>3, RowFacts DEF Take, JobSafe
  <2>5. \A i \in Jobs : PaymentSafe(ledger, pay'[i], i)
    BY <1>2, RowFacts DEF Take
  <2>6. SetFrame(r, f) /\ UNCHANGED ledger
    BY <1>2 DEF Take, Goto
  <2> HIDE DEF f
  <2>7. FrameSafe(ledger, f)
    BY <2>1, <2>2 DEF FrameSafe
  <2> QED BY <2>1, <2>4, <2>5, <2>6, <2>7, StepSafe
<1>3. CASE HandOver(r)
  <2>1. PaidIn(ledger, j)
    BY <1>0, <1>3 DEF HandOver, At, FrameSafe
  <2>2. \A i \in Jobs : i # j => links'[i] = links[i]
    BY <1>3 DEF HandOver, TypeOK
  <2>3. \A i \in Jobs : JobSafe(ledger, i, job'[i].state, links'[i], released'[i])
    BY <1>3, <2>1, <2>2, RowFacts DEF HandOver, JobSafe
  <2>4. \A i \in Jobs : PaymentSafe(ledger, pay'[i], i)
    BY <1>3, RowFacts DEF HandOver
  <2>5. FrameSafe(ledger, IdleFrame) /\ IdleFrame.pc # "savePayment"
    BY ArriveFacts DEF FrameSafe
  <2> QED BY <1>3, <2>3, <2>4, <2>5, StepSafe DEF HandOver, Finish
<1>4. CASE Complete(r)
  <2>1. \A i \in Jobs : job'[i].state \in {job[i].state, "COMPLETED"}
    BY <1>4, JobRows DEF Complete, JobRow
  <2> QED BY <1>4, <2>1, QuietGoto DEF Complete, Relying
<1>5. CASE SaveFailed(r)
  <2>1. \A i \in Jobs : job'[i].state \in {job[i].state, "FAILED"}
    BY <1>5, StateColumn DEF SaveFailed
  <2> QED BY <1>5, <2>1, QuietGoto DEF SaveFailed, Relying
<1> QED BY <1>1, <1>2, <1>3, <1>4, <1>5 DEF ClaimStep

(***************************************************************************)
(* Refunds, purge and sweeps.                                              *)
(***************************************************************************)

\* After refundFailedJob or purge the caller relies on nothing.
LEMMA AfterFacts ==
  ASSUME NEW f \in FrameFields
  PROVE  /\ \A refunded \in BOOLEAN : AfterRefund(f, refunded).pc \notin Relying
         /\ AfterPurge(f).pc \notin Relying
<1>1. AfterRefund(f, TRUE).pc \notin Relying
  BY DEF AfterRefund, IdleFrame, Relying, FrameFields
<1>2. AfterRefund(f, FALSE).pc \notin Relying
  BY DEF AfterRefund, IdleFrame, Relying, FrameFields
<1>3. AfterPurge(f).pc \notin Relying
  BY DEF AfterPurge, IdleFrame, Relying, FrameFields
<1> QED BY <1>1, <1>2, <1>3

\* refundFailedJob calls the provider only for a payment that was captured.
LEMMA ReadForRefundSafe ==
  ASSUME TypeOK, BooksAgree, NEW r \in Slots, NEW f \in FrameFields, f.job \in Jobs,
         ReadForRefund(r, f), UNCHANGED <<job, pay, ledger, links, released>>
  PROVE  BooksAgree'
<1> DEFINE j == f.job
           h == IF FinalRefund THEN Holding(j) ELSE f.held
           g == [f EXCEPT !.pc = "refundCall", !.ord = pay[j].payId, !.held = h]
<1>1. ASSUME NEW b \in BOOLEAN, SetFrame(r, AfterRefund(f, b)) PROVE BooksAgree'
  BY <1>1, AfterFacts, QuietStep
<1>2. CASE pay[j].status = "captured" /\ SetFrame(r, g)
  <2>1. SettledIn(ledger, j, pay[j].payId)
    BY <1>2, RowFacts DEF PaymentSafe
  <2>2. g.pc = "refundCall" /\ g.job = j /\ g.ord = pay[j].payId
    BY DEF FrameFields
  <2> HIDE DEF g
  <2>3. FrameSafe(ledger, g)
    BY <2>1, <2>2 DEF FrameSafe
  <2> QED BY <1>2, <2>2, <2>3, FrameStep
<1> QED BY <1>1, <1>2 DEF ReadForRefund

\* A manual refund, a refund webhook or a sweep that starts keeps the agreement.
LEMMA RefundStartSafe ==
  ASSUME TypeOK, BooksAgree, NEW r \in Slots, RefundStart(r)
  PROVE  BooksAgree'
<1> USE DEF OUTSIDE, agent
<1>1. ASSUME NEW j \in Jobs, StartManualRefund(r, j) PROVE BooksAgree'
  <2>1. "manualRefund" \in OpNames /\ "refundRead" \in PcNames
    BY DEF OpNames, PcNames
  <2> DEFINE f == Arrive("manualRefund", "refundRead", j)
  <2>2. f \in FrameFields /\ f.job = j
    BY <2>1, ArriveType DEF Frame
  <2>3. ReadForRefund(r, f) /\ UNCHANGED <<job, pay, ledger, links, released>>
    BY <1>1 DEF StartManualRefund
  <2> HIDE DEF f
  <2> QED BY <2>2, <2>3, ReadForRefundSafe
<1>2. ASSUME NEW j \in Jobs, StartRefunded(r, j) PROVE BooksAgree'
  <2> DEFINE f == Arrive("refunded", "settleRead", j)
  <2>1. f.pc = "settleRead" /\ f.job = j
    BY ArriveFacts
  <2>2. MoneyBackIn(ledger, j)
    BY <1>2, RowFacts DEF StartRefunded, PaymentSafe, SettledIn, MoneyBackIn
  <2>3. SetFrame(r, f) /\ UNCHANGED <<job, pay, ledger, links, released>>
    BY <1>2 DEF StartRefunded
  <2> HIDE DEF f
  <2>4. FrameSafe(ledger, f)
    BY <2>1, <2>2 DEF FrameSafe
  <2> QED BY <2>1, <2>3, <2>4, FrameStep
<1>3. CASE StartSweep(r)
  <2>1. \A S : [IdleFrame EXCEPT !.op = "expirySweep", !.pc = "next",
                                 !.todo = S].pc \notin Relying
    BY DEF IdleFrame, Relying
  <2> QED BY <1>3, <2>1, QuietStep DEF StartSweep
<1> QED BY <1>1, <1>2, <1>3 DEF RefundStart

\* The provider accepts a refund of settled money.
LEMMA AcceptSafe ==
  ASSUME TypeOK, BooksAgree, NEW r \in Slots, NEW f, At(r, "refundCall"),
         Accept(call[r].ord), FinalRefund \/ ledger[call[r].ord].status = "captured",
         SetFrame(r, f), f.pc # "savePayment",
         \/ f.pc \notin Relying
         \/ f.pc = "refundSave" /\ f.job = call[r].job,
         UNCHANGED <<job, pay, links, released>>
  PROVE  BooksAgree'
<1> DEFINE o == call[r].ord
           s == IF FinalRefund THEN "refunded" ELSE "refund_pending"
<1>1. SettledIn(ledger, call[r].job, o)
  BY FrameFacts DEF At, FrameSafe
<1>2. ledger' = [ledger EXCEPT ![o].status = s]
  BY DEF Accept
<1>3. /\ Grows(ledger, ledger')
      /\ ledger'[o].job = ledger[o].job /\ ledger'[o].status = s
      /\ \A p \in Orders : p # o => ledger'[p] = ledger[p]
  <2>1. o \in Orders /\ ledger[o].status \in Settled
    BY <1>1 DEF SettledIn
  <2>2. /\ s # "unused" /\ s \in Settled
        /\ ledger[o].status = "refunded" => s = "refunded"
    BY DEF Settled
  <2> HIDE DEF o, s
  <2>3. /\ Grows(ledger, [ledger EXCEPT ![o].status = s])
        /\ [ledger EXCEPT ![o].status = s][o].job = ledger[o].job
        /\ [ledger EXCEPT ![o].status = s][o].status = s
        /\ \A p \in Orders : p # o => [ledger EXCEPT ![o].status = s][p] = ledger[p]
    BY <2>1, <2>2, StatusGrows
  <2> QED BY <1>2, <2>3
<1>4. \A q \in Slots : call'[q] = IF q = r THEN f ELSE call[q]
  BY DEF SetFrame, TypeOK
<1>5. FrameSafe(ledger', f)
  <2>1. FinalRefund => MoneyBackIn(ledger', call[r].job)
    BY <1>1, <1>3 DEF MoneyBackIn, SettledIn
  <2> QED BY <2>1 DEF FrameSafe, Relying
<1>6. \A q \in Slots : FrameSafe(ledger', call'[q])
  BY <1>3, <1>4, <1>5, GrowStep
<1>7. RegisterSafe(ledger', call')
  <2>1. ledger[o].status # "created"
    BY <1>1 DEF SettledIn, Settled
  <2>2. RegisterSafe(ledger', call)
    BY <1>3, <2>1 DEF BooksAgree, RegisterSafe
  <2> QED BY <1>4, <2>2 DEF RegisterSafe, Registers
<1> QED BY <1>3, <1>6, <1>7, GrowStep DEF BooksAgree

\* refundFailedJob and markRefundProcessed write REFUNDED only after the provider
\* has paid back.
LEMMA RefundMoneySafe ==
  ASSUME TypeOK, BooksAgree, NEW r \in Slots,
         \/ RefundRead(r) \/ RefundCall(r) \/ RefundSave(r) \/ RefundFinal(r)
         \/ RefundPending(r) \/ SettleRead(r) \/ SettlePayment(r) \/ SettleJob(r)
  PROVE  BooksAgree'
<1> DEFINE j == call[r].job
<1> USE DEF OUTSIDE, agent
<1>0. j \in Jobs /\ call[r] \in FrameFields /\ FrameSafe(ledger, call[r])
  BY Working, FrameFacts DEF RefundRead, RefundCall, RefundSave, RefundFinal,
     RefundPending, SettleRead, SettlePayment, SettleJob, At
<1>a. \A pc : LET f == [call[r] EXCEPT !.pc = pc] IN f.pc = pc /\ f.job = j
  BY FrameFacts
<1>b. ASSUME pay' \in [Jobs -> PaymentRow],
             \E s \in {"refunded", "refund_initiated"} :
               pay' = [pay EXCEPT ![j].status = s]
      PROVE  \A i \in Jobs : PaymentSafe(ledger, pay'[i], i)
  <2>1. PICK s \in {"refunded", "refund_initiated"} :
          pay' = [pay EXCEPT ![j].status = s]
    BY <1>b
  <2>2. \A i \in Jobs : i # j => pay'[i] = pay[i]
    BY <2>1 DEF TypeOK
  <2>3. /\ pay'[j].order = pay[j].order /\ pay'[j].payId = pay[j].payId
        /\ pay'[j].status # "captured"
    BY <1>0, <2>1 DEF TypeOK, PaymentRow
  <2> QED BY <1>0, <2>2, <2>3, RowFacts DEF PaymentSafe
<1>c. ASSUME MoneyBackIn(ledger, j), job' = [job EXCEPT ![j].state = "REFUNDED"],
             UNCHANGED <<links, released>>
      PROVE  \A i \in Jobs : JobSafe(ledger, i, job'[i].state, links'[i], released'[i])
  <2>1. \A i \in Jobs : job'[i].state = IF i = j THEN "REFUNDED" ELSE job[i].state
    <3> HIDE DEF j
    <3> QED BY <1>0, <1>c DEF TypeOK, JobRow
  <2> QED BY <1>c, <2>1, RowFacts DEF JobSafe
<1>d. TypeOK'
  BY RefundMoneyType
<1>1. CASE RefundRead(r)
  BY <1>0, <1>1, ReadForRefundSafe DEF RefundRead
<1>2. CASE RefundCall(r)
  <2> DEFINE f == AfterRefund(call[r], FALSE)
             g == [call[r] EXCEPT !.pc = "refundSave"]
  <2>1. f.pc \notin Relying /\ f.pc # "savePayment"
    BY <1>0, AfterFacts DEF Relying
  <2>2. g.pc = "refundSave" /\ g.job = j
    BY <1>a
  <2>3. UNCHANGED <<job, pay, links, released>> /\ At(r, "refundCall")
    BY <1>2 DEF RefundCall
  <2>4. \/ UNCHANGED ledger /\ SetFrame(r, f)
        \/ /\ FinalRefund \/ ledger[call[r].ord].status = "captured"
           /\ Accept(call[r].ord)
           /\ SetFrame(r, f) \/ SetFrame(r, g)
    BY <1>2 DEF RefundCall
  <2> HIDE DEF f, g
  <2>5. CASE UNCHANGED ledger /\ SetFrame(r, f)
    BY <2>1, <2>3, <2>5, QuietStep
  <2>6. CASE /\ FinalRefund \/ ledger[call[r].ord].status = "captured"
             /\ Accept(call[r].ord)
             /\ SetFrame(r, f) \/ SetFrame(r, g)
    BY <2>1, <2>2, <2>3, <2>6, AcceptSafe
  <2> QED BY <2>4, <2>5, <2>6
<1>3. CASE RefundSave(r)
  <2>1. PICK pc : /\ Goto(r, pc)
                  /\ pc = IF FinalRefund THEN "refundFinal" ELSE "refundPending"
    BY <1>3 DEF RefundSave
  <2> DEFINE f == [call[r] EXCEPT !.pc = pc]
  <2>2. f.pc = pc /\ f.job = j
    BY <1>a
  <2>3. SetFrame(r, f) /\ UNCHANGED <<job, ledger, links, released>>
    BY <1>3, <2>1 DEF RefundSave, Goto
  <2> HIDE DEF f
  <2>4. FrameSafe(ledger, f) /\ f.pc # "savePayment"
    BY <1>0, <1>3, <2>1, <2>2 DEF FrameSafe, RefundSave, At
  <2>5. \A i \in Jobs : PaymentSafe(ledger, pay'[i], i)
    BY <1>3, <1>b, <1>d DEF RefundSave, TypeOK
  <2>6. \A i \in Jobs : JobSafe(ledger, i, job'[i].state, links'[i], released'[i])
    BY <2>3, RowFacts
  <2> QED BY <2>3, <2>4, <2>5, <2>6, StepSafe
<1>4. CASE RefundFinal(r)
  <2>1. MoneyBackIn(ledger, j)
    BY <1>0, <1>4 DEF RefundFinal, At, FrameSafe
  <2>2. \A i \in Jobs : JobSafe(ledger, i, job'[i].state, links'[i], released'[i])
    BY <1>4, <1>c, <2>1 DEF RefundFinal
  <2>3. \A i \in Jobs : PaymentSafe(ledger, pay'[i], i)
    BY <1>4, RowFacts DEF RefundFinal
  <2> DEFINE f == [call[r] EXCEPT !.pc = "delete"]
  <2>4. f.pc = "delete" /\ SetFrame(r, f) /\ UNCHANGED ledger
    BY <1>4, <1>a DEF RefundFinal, Goto
  <2> HIDE DEF f
  <2>5. FrameSafe(ledger, f)
    BY <2>4 DEF FrameSafe
  <2> QED BY <2>2, <2>3, <2>4, <2>5, StepSafe
<1>5. CASE RefundPending(r)
  <2>1. \A i \in Jobs : job'[i].state \in {job[i].state, "FAILED"}
    BY <1>5, StateColumn DEF RefundPending
  <2>2. AfterRefund(call[r], FALSE).pc \notin Relying
    BY <1>0, AfterFacts
  <2> QED BY <1>5, <2>1, <2>2, QuietStep DEF RefundPending
<1>6. CASE SettleRead(r)
  <2>1. MoneyBackIn(ledger, j)
    BY <1>0, <1>6 DEF SettleRead, At, FrameSafe
  <2> DEFINE f == [call[r] EXCEPT !.pc = "settlePayment",
                     !.seen = job[j].state \in {"FAILED", "REFUNDED"},
                     !.held = Holding(j)]
  <2>2. f.pc = "settlePayment" /\ f.job = j
    BY <1>0 DEF FrameFields
  <2>3. /\ Finish(r) \/ SetFrame(r, f)
        /\ UNCHANGED <<job, pay, ledger, links, released>>
    BY <1>6 DEF SettleRead
  <2> HIDE DEF f
  <2>4. FrameSafe(ledger, f)
    BY <2>1, <2>2 DEF FrameSafe
  <2> QED BY <2>2, <2>3, <2>4, FrameStep, QuietFinish
<1>7. CASE SettlePayment(r)
  <2>1. MoneyBackIn(ledger, j)
    BY <1>0, <1>7 DEF SettlePayment, At, FrameSafe
  <2>2. \A i \in Jobs : PaymentSafe(ledger, pay'[i], i)
    BY <1>7, <1>b, <1>d DEF SettlePayment, TypeOK
  <2>3. \A i \in Jobs : JobSafe(ledger, i, job'[i].state, links'[i], released'[i])
    BY <1>7, RowFacts DEF SettlePayment
  <2> DEFINE f == [call[r] EXCEPT !.pc = "settleJob"]
  <2>4. f.pc = "settleJob" /\ f.job = j
    BY <1>a
  <2>5. (SetFrame(r, f) \/ SetFrame(r, IdleFrame)) /\ UNCHANGED ledger
    BY <1>7 DEF SettlePayment, Goto, Finish
  <2> HIDE DEF f
  <2>6. FrameSafe(ledger, f) /\ FrameSafe(ledger, IdleFrame)
    BY <2>1, <2>4, ArriveFacts DEF FrameSafe
  <2> QED BY <2>2, <2>3, <2>4, <2>5, <2>6, ArriveFacts, StepSafe
<1>8. CASE SettleJob(r)
  <2>1. MoneyBackIn(ledger, j)
    BY <1>0, <1>8 DEF SettleJob, At, FrameSafe
  <2>2. \A i \in Jobs : JobSafe(ledger, i, job'[i].state, links'[i], released'[i])
    BY <1>8, <1>c, <2>1 DEF SettleJob
  <2>3. \A i \in Jobs : PaymentSafe(ledger, pay'[i], i)
    BY <1>8, RowFacts DEF SettleJob
  <2> DEFINE f == [call[r] EXCEPT !.pc = "delete"]
  <2>4. f.pc = "delete" /\ SetFrame(r, f) /\ UNCHANGED ledger
    BY <1>8, <1>a DEF SettleJob, Goto
  <2> HIDE DEF f
  <2>5. FrameSafe(ledger, f)
    BY <2>4 DEF FrameSafe
  <2> QED BY <2>2, <2>3, <2>4, <2>5, StepSafe
<1> QED BY <1>1, <1>2, <1>3, <1>4, <1>5, <1>6, <1>7, <1>8

\* Purging and the sweeps write no state that depends on money.
LEMMA SweepSafe ==
  ASSUME TypeOK, BooksAgree, NEW r \in Slots,
         \/ Delete(r) \/ Forget(r) \/ SweepJob(r) \/ Expire(r) \/ ReadKeys(r)
         \/ FindLeftovers(r) \/ SweepFile(r)
  PROVE  BooksAgree'
<1> DEFINE j == call[r].job
<1> USE DEF OUTSIDE, agent
<1>0. call[r] \in FrameFields
  BY FrameFacts
<1>1. CASE Delete(r)
  BY <1>1, QuietGoto DEF Delete, Relying
<1>2. CASE Forget(r)
  <2>1. \A i \in Jobs : job'[i].state = job[i].state
    BY <1>2, StateColumn DEF Forget
  <2>2. AfterPurge(call[r]).pc \notin Relying
    BY <1>0, AfterFacts
  <2> QED BY <1>2, <2>1, <2>2, QuietStep DEF Forget
<1>3. CASE SweepJob(r)
  <2>1. PICK i \in call[r].todo :
          ReadForRefund(r, [call[r] EXCEPT !.job = i, !.todo = @ \ {i}])
    BY <1>3 DEF SweepJob
  <2> DEFINE f == [call[r] EXCEPT !.job = i, !.todo = @ \ {i}]
  <2>2. i \in Jobs
    BY <1>0 DEF FrameFields
  <2>3. f \in FrameFields /\ f.job \in Jobs
    BY <1>0, <2>2 DEF FrameFields
  <2>4. ReadForRefund(r, f) /\ UNCHANGED <<job, pay, ledger, links, released>>
    BY <1>3, <2>1 DEF SweepJob
  <2> HIDE DEF f
  <2> QED BY <2>3, <2>4, ReadForRefundSafe
<1>4. CASE Expire(r)
  <2>1. \A i \in Jobs : job'[i].state \in {job[i].state, "EXPIRED"}
    BY <1>4, StateColumn DEF Expire
  <2> QED BY <1>4, <2>1, QuietGoto DEF Expire, Relying
<1>5. CASE ReadKeys(r)
  <2>1. \A h : [call[r] EXCEPT !.held = h, !.pc = "delete"].pc \notin Relying
    BY <1>0 DEF FrameFields, Relying
  <2> QED BY <1>5, <2>1, QuietStep DEF ReadKeys
<1>6. CASE FindLeftovers(r)
  <2>1. \A S, h : [IdleFrame EXCEPT !.op = "fileSweep", !.pc = "next", !.todo = S,
                                    !.held = h].pc \notin Relying
    BY DEF IdleFrame, Relying
  <2>2. PICK f : SetFrame(r, f) /\ f.pc \notin Relying
    <3>1. IdleFrame.pc \notin Relying
      BY ArriveFacts DEF Relying
    <3> QED BY <1>6, <2>1, <3>1 DEF FindLeftovers
  <2> QED BY <1>6, <2>2, QuietStep DEF FindLeftovers
<1>7. CASE SweepFile(r)
  <2>1. \A i, S : [call[r] EXCEPT !.job = i, !.todo = S, !.pc = "delete"].pc \notin Relying
    BY <1>0 DEF FrameFields, Relying
  <2>2. \/ Finish(r)
        \/ \E i, S : SetFrame(r, [call[r] EXCEPT !.job = i, !.todo = S, !.pc = "delete"])
    BY <1>7 DEF SweepFile
  <2>3. UNCHANGED <<job, pay, ledger, links, released>>
    BY <1>7 DEF SweepFile
  <2> QED BY <2>1, <2>2, <2>3, QuietFinish, QuietStep
<1> QED BY <1>1, <1>2, <1>3, <1>4, <1>5, <1>6, <1>7

(***************************************************************************)
(* The environment, restarts, and the theorems.                            *)
(***************************************************************************)
LEMMA EnvironmentSafe ==
  ASSUME TypeOK, BooksAgree, Environment
  PROVE  BooksAgree'
<1> USE DEF UNTOUCHED, ELSEWHERE, BEYOND, OUTSIDE, money, codes, time, agent
<1>1. ASSUME NEW j \in Jobs, Create(j) PROVE BooksAgree'
  <2>1. \A i \in Jobs : job'[i].state \in {job[i].state, "UPLOADED"}
    BY <1>1, StateColumn DEF Create
  <2>2. \A i \in Jobs : JobSafe(ledger, i, job'[i].state, links[i], released[i])
    BY <2>1, RowFacts DEF JobSafe
  <2> QED BY <1>1, <2>2 DEF Create, BooksAgree
<1>2. ASSUME NEW j \in Jobs, Elapse(j) \/ Age(j) \/ LoseAgent(j) PROVE BooksAgree'
  BY <1>2 DEF Elapse, Age, LoseAgent, BooksAgree
<1>3. ASSUME NEW j \in Jobs, NEW w \in Files, Download(j, w) PROVE BooksAgree'
  <2>1. links[j][w] > 0 /\ PaidIn(ledger, j)
    BY <1>3, RowFacts DEF Download, JobSafe
  <2>2. \A i \in Jobs : i # j => links'[i] = links[i] /\ released'[i] = released[i]
    BY <1>3 DEF Download, TypeOK
  <2>3. \A i \in Jobs : JobSafe(ledger, i, job[i].state, links'[i], released'[i])
    BY <2>1, <2>2, RowFacts DEF JobSafe
  <2> QED BY <1>3, <2>3 DEF Download, BooksAgree
<1>4. ASSUME NEW o \in Orders, Capture(o) \/ ProviderRefunds(o) PROVE BooksAgree'
  <2>1. PICK s \in {"captured", "refunded"} :
          /\ ledger' = [ledger EXCEPT ![o].status = s]
          /\ s = "captured" => ledger[o].status = "offered"
          /\ s = "refunded" => ledger[o].status = "refund_pending"
    BY <1>4 DEF Capture, ProviderRefunds
  <2>2. /\ Grows(ledger, ledger')
        /\ \A p \in Orders : p # o => ledger'[p] = ledger[p]
    <3>1. /\ s # "unused"
          /\ ledger[o].status \in Settled => s \in Settled
          /\ ledger[o].status = "refunded" => s = "refunded"
      BY <2>1 DEF Settled
    <3> QED BY <1>4, <2>1, <3>1, StatusGrows
  <2>3. RegisterSafe(ledger', call)
    <3>1. \A p \in Orders : ledger[p].status = "created" => ledger'[p] = ledger[p]
      BY <2>1, <2>2
    <3> QED BY <3>1, RegisterStays DEF BooksAgree
  <2>4. UNCHANGED <<job, pay, links, released, call>>
    BY <1>4 DEF Capture, ProviderRefunds
  <2> QED BY <2>2, <2>3, <2>4, GrowStep DEF BooksAgree
<1> QED BY <1>1, <1>2, <1>3, <1>4 DEF Environment

\* A restart forgets handlers and codes, and with them what they relied on.
LEMMA RestartSafe ==
  ASSUME TypeOK, BooksAgree, Restart
  PROVE  BooksAgree'
<1>1. FrameSafe(ledger, IdleFrame)
  BY ArriveFacts DEF FrameSafe
<1>2. \A o : ~ Registers(IdleFrame, o)
  BY ArriveFacts DEF Registers
<1>3. \A r \in Slots : call'[r] = IdleFrame
  BY DEF Restart
<1>4. RegisterSafe(ledger, call')
  BY <1>2, <1>3 DEF RegisterSafe
<1> QED BY <1>1, <1>3, <1>4 DEF Restart, BooksAgree, agent

\* Nothing is paid, released or in flight at the start.
LEMMA InitSafe == Init => BooksAgree
<1> SUFFICES ASSUME Init PROVE BooksAgree
  OBVIOUS
<1>1. \A j \in Jobs : job[j].state \notin {"QUEUED", "REFUNDED"}
  <2>1. PICK first \in [Jobs -> Prices] : job = [j \in Jobs |-> FirstRow(j, first[j])]
    BY DEF Init
  <2>2. \A j, p : FirstRow(j, p).state \in {"NONE", "PRICED", "AWAITING_PAYMENT"}
    BY DEF FirstRow, BlankJob
  <2> QED BY <2>1, <2>2
<1>2. \A r \in Slots : FrameSafe(ledger, call[r])
  BY ArriveFacts DEF Init, FrameSafe
<1>3. RegisterSafe(ledger, call)
  BY ArriveFacts DEF Init, RegisterSafe, Registers
<1>4. \A j \in Jobs : PaymentSafe(ledger, pay[j], j)
  BY DEF Init, NoPayment, PaymentSafe
<1>5. \A j \in Jobs : JobSafe(ledger, j, job[j].state, links[j], released[j])
  BY <1>1 DEF Init, JobSafe
<1> QED BY <1>2, <1>3, <1>4, <1>5 DEF BooksAgree

\* Every step of every handler keeps tables, books and handlers in agreement.
LEMMA NextSafe == TypeOK /\ BooksAgree /\ [Next]_vars => BooksAgree'
<1> SUFFICES ASSUME TypeOK, BooksAgree, [Next]_vars PROVE BooksAgree'
  OBVIOUS
<1>1. ASSUME NEW r \in Slots, Start(r) PROVE BooksAgree'
  BY <1>1, IntakeSafe, CheckoutStartSafe, ClaimStartSafe, RefundStartSafe DEF Start
<1>2. ASSUME NEW r \in Slots, Step(r) PROVE BooksAgree'
  <2>1. CASE IntakeStep(r)
    BY <2>1, IntakeSafe
  <2>2. CASE CheckoutStep(r)
    BY <2>2, PaySafe, MarkSafe DEF CheckoutStep
  <2>3. CASE ClaimStep(r)
    BY <2>3, ClaimStepSafe
  <2>4. CASE RefundStep(r)
    BY <2>4, RefundMoneySafe, SweepSafe DEF RefundStep
  <2> QED BY <1>2, <2>1, <2>2, <2>3, <2>4 DEF Step
<1>3. CASE Environment
  BY <1>3, EnvironmentSafe
<1>4. CASE Restart
  BY <1>4, RestartSafe
<1>5. CASE UNCHANGED vars
  BY <1>5 DEF vars, BooksAgree
<1> QED BY <1>1, <1>2, <1>3, <1>4, <1>5 DEF Next

\* At every await, in every interleaving, no handler and no row is ahead of the
\* payment provider.
THEOREM BooksAlwaysAgree == Spec => []BooksAgree
<1>1. Init => BooksAgree
  BY InitSafe
<1>2. TypeOK /\ BooksAgree /\ [Next]_vars => BooksAgree'
  BY NextSafe
<1> QED BY <1>1, <1>2, TypeCorrectness, PTL DEF Spec

\* No agent obtains the file of a job that nobody has paid for, whatever
\* confirmations, claims, sweeps, refunds and restarts overlap.
THEOREM ReleaseIsPaid == Spec => []NothingReleasedUnpaid
<1>1. BooksAgree => NothingReleasedUnpaid
  BY DEF BooksAgree, JobSafe, NothingReleasedUnpaid, Paid
<1> QED BY <1>1, BooksAlwaysAgree, PTL

\* A job that says REFUNDED has had its money paid back, also when refund calls
\* fail, when their answers are lost and when webhooks come early or twice.
THEOREM RefundIsReal == Spec => []RefundedMeansMoneyBack
<1>1. BooksAgree => RefundedMeansMoneyBack
  BY DEF BooksAgree, JobSafe, RefundedMeansMoneyBack, MoneyBack
<1> QED BY <1>1, BooksAlwaysAgree, PTL

------------------------------------------------------------------------------
(***************************************************************************)
(* PrintKiosk implements PrintContract, for any jobs, orders, failures and *)
(* requests in flight.  The contract moves in three places only: when the  *)
(* provider's books change (one order at a time), when an agent downloads  *)
(* a file, and when a handler writes a job row.  The first is a matter of  *)
(* the books alone; for the other two, BooksAgree says that the money the  *)
(* contract asks for is there.                                             *)
(***************************************************************************)
Held     == {"captured", "refund_pending"}
Returned == {"refunded"}

ContractStep == [Contract!Next]_(Contract!contractVars)

\* What the contract sees of the books stays the same while, for each job, the
\* same orders are held and the same are returned.
BooksLookAlike ==
  \A j \in Jobs : /\ OrdersOf(ledger', j, Held) = OrdersOf(ledger, j, Held)
                  /\ OrdersOf(ledger', j, Returned) = OrdersOf(ledger, j, Returned)

\* A write to the row of one job, with the books and the agents left alone, is a
\* Tell, a Hide or nothing to the contract.
LEMMA RowStep ==
  ASSUME TypeOK, BooksAgree', BooksLookAlike, UNCHANGED released,
         NEW j \in Jobs, \A i \in Jobs : i # j => job'[i].state = job[i].state
  PROVE  ContractStep
<1> DEFINE told == {i \in Jobs : job[i].state = "REFUNDED"}
<1>1. /\ UNCHANGED [i \in Jobs |-> OrdersOf(ledger, i, Held)]
      /\ UNCHANGED [i \in Jobs |-> OrdersOf(ledger, i, Returned)]
      /\ UNCHANGED {i \in Jobs : released[i]}
  BY DEF BooksLookAlike
<1>2. CASE job'[j].state = job[j].state
  <2>1. UNCHANGED told
    BY <1>2
  <2> QED BY <1>1, <2>1 DEF ContractStep, Contract!contractVars, Held, Returned
<1>3. CASE job'[j].state = "REFUNDED" /\ job[j].state # "REFUNDED"
  <2>1. told' = told \cup {j}
    BY <1>3
  <2>2. OrdersOf(ledger, j, Returned) # {}
    <3>1. MoneyBackIn(ledger', j)
      BY <1>3 DEF BooksAgree, JobSafe
    <3> QED BY <3>1 DEF MoneyBackIn, OrdersOf, Returned, BooksLookAlike
  <2>3. Contract!Tell(j)
    BY <1>1, <2>1, <2>2 DEF Contract!Tell, Held, Returned
  <2> QED BY <2>3 DEF ContractStep, Contract!Next
<1>4. CASE job'[j].state # "REFUNDED"
  <2>1. told' = told \ {j}
    BY <1>4
  <2>2. Contract!Hide(j)
    BY <1>1, <2>1 DEF Contract!Hide, Held, Returned
  <2> QED BY <2>2 DEF ContractStep, Contract!Next
<1> QED BY <1>2, <1>3, <1>4

\* Nothing that the contract sees has changed.
LEMMA StillStep ==
  ASSUME BooksLookAlike, UNCHANGED <<job, released>>
  PROVE  ContractStep
<1>1. /\ UNCHANGED [i \in Jobs |-> OrdersOf(ledger, i, Held)]
      /\ UNCHANGED [i \in Jobs |-> OrdersOf(ledger, i, Returned)]
      /\ UNCHANGED {i \in Jobs : released[i]}
      /\ UNCHANGED {i \in Jobs : job[i].state = "REFUNDED"}
  BY DEF BooksLookAlike
<1> QED BY <1>1 DEF ContractStep, Contract!contractVars, Held, Returned

\* Books that are left alone look alike.
LEMMA SameBooks == ASSUME UNCHANGED ledger PROVE BooksLookAlike
  BY DEF BooksLookAlike

(***************************************************************************)
(* Where the provider's books change, one order changes.                   *)
(***************************************************************************)
OnlyOrder(o) == \A p \in Orders : p # o => ledger'[p] = ledger[p]

\* The change of an order that the contract does not see: it was and is not
\* settled, or a refund of it begins.
LEMMA QuietOrder ==
  ASSUME NEW o \in Orders, OnlyOrder(o),
         \/ ledger[o].status \notin Settled /\ ledger'[o].status \notin Settled
         \/ /\ ledger[o].status \in Held /\ ledger'[o].status \in Held
            /\ ledger'[o].job = ledger[o].job
         \/ ledger'[o] = ledger[o]
  PROVE  BooksLookAlike
<1> SUFFICES ASSUME NEW j \in Jobs
             PROVE  /\ OrdersOf(ledger', j, Held) = OrdersOf(ledger, j, Held)
                    /\ OrdersOf(ledger', j, Returned) = OrdersOf(ledger, j, Returned)
  BY DEF BooksLookAlike
<1>1. ASSUME NEW p \in Orders
      PROVE  /\ (ledger'[p].job = j /\ ledger'[p].status \in Held)
                   <=> (ledger[p].job = j /\ ledger[p].status \in Held)
             /\ (ledger'[p].job = j /\ ledger'[p].status \in Returned)
                   <=> (ledger[p].job = j /\ ledger[p].status \in Returned)
  BY DEF OnlyOrder, Settled, Held, Returned
<1> QED BY <1>1 DEF OrdersOf

\* An order is captured that was not settled: the contract takes it for its job.
LEMMA TakeStep ==
  ASSUME NEW o \in Orders, OnlyOrder(o), UNCHANGED <<job, released>>,
         ledger[o].status \notin Settled, ledger'[o].status = "captured"
  PROVE  ContractStep
<1> DEFINE held == [j \in Jobs |-> OrdersOf(ledger, j, Held)]
           returned == [j \in Jobs |-> OrdersOf(ledger, j, Returned)]
           k == ledger'[o].job
<1>1. \A j \in Jobs : o \notin held[j] \cup returned[j]
  BY DEF OrdersOf, Settled, Held, Returned
<1>2. \A j \in Jobs : OrdersOf(ledger', j, Returned) = OrdersOf(ledger, j, Returned)
  BY DEF OrdersOf, OnlyOrder, Settled, Returned
<1>3. \A j \in Jobs : OrdersOf(ledger', j, Held) =
        IF j = k THEN OrdersOf(ledger, j, Held) \cup {o} ELSE OrdersOf(ledger, j, Held)
  BY DEF OrdersOf, OnlyOrder, Settled, Held
<1>4. CASE k \in Jobs
  <2>1. held' = [held EXCEPT ![k] = @ \cup {o}]
    BY <1>3
  <2>2. returned' = returned
    BY <1>2
  <2>3. Contract!Take(k, o)
    BY <1>1, <2>1, <2>2 DEF Contract!Take, Held, Returned
  <2> QED BY <1>4, <2>3 DEF ContractStep, Contract!Next
<1>5. CASE k \notin Jobs
  BY <1>2, <1>3, <1>5, StillStep DEF BooksLookAlike
<1> QED BY <1>4, <1>5

\* The provider pays an order back: the contract gives it back, if it held it.
LEMMA GiveBackStep ==
  ASSUME NEW o \in Orders, OnlyOrder(o), UNCHANGED <<job, released>>,
         ledger[o].status \in Held, ledger'[o].status = "refunded",
         ledger'[o].job = ledger[o].job
  PROVE  ContractStep
<1> DEFINE held == [j \in Jobs |-> OrdersOf(ledger, j, Held)]
           returned == [j \in Jobs |-> OrdersOf(ledger, j, Returned)]
           k == ledger[o].job
<1>1. \A j \in Jobs : OrdersOf(ledger', j, Returned) =
        IF j = k THEN OrdersOf(ledger, j, Returned) \cup {o}
                 ELSE OrdersOf(ledger, j, Returned)
  BY DEF OrdersOf, OnlyOrder, Held, Returned
<1>2. \A j \in Jobs : OrdersOf(ledger', j, Held) =
        IF j = k THEN OrdersOf(ledger, j, Held) \ {o} ELSE OrdersOf(ledger, j, Held)
  BY DEF OrdersOf, OnlyOrder, Held
<1>3. CASE k \in Jobs
  <2>1. o \in held[k]
    BY <1>3 DEF OrdersOf
  <2>2. held' = [held EXCEPT ![k] = @ \ {o}]
    BY <1>2
  <2>3. returned' = [returned EXCEPT ![k] = @ \cup {o}]
    BY <1>1
  <2>4. Contract!GiveBack(k, o)
    BY <2>1, <2>2, <2>3 DEF Contract!GiveBack, Held, Returned
  <2> QED BY <1>3, <2>4 DEF ContractStep, Contract!Next
<1>4. CASE k \notin Jobs
  BY <1>1, <1>2, <1>4, StillStep DEF BooksLookAlike
<1> QED BY <1>3, <1>4

(***************************************************************************)
(* Handlers.                                                               *)
(***************************************************************************)

\* A step that leaves the books and the agents alone writes one row at most.
OneRow == \/ UNCHANGED job
          \/ \E j \in Jobs : \A i \in Jobs : i # j => job'[i].state = job[i].state

\* So it is a Tell, a Hide or nothing.
LEMMA OneRowStep ==
  ASSUME TypeOK, BooksAgree', OneRow, UNCHANGED <<ledger, released>>
  PROVE  ContractStep
  BY RowStep, StillStep, SameBooks DEF OneRow

\* Requests that arrive change no row, no order and no release.
LEMMA StartContract ==
  ASSUME NEW r \in Slots, Start(r)
  PROVE  ContractStep
<1> USE DEF UNTOUCHED, ELSEWHERE, BEYOND, OUTSIDE, money, codes, agent
<1>1. UNCHANGED <<job, ledger, released>>
  <2>1. CASE IntakeStart(r)
    BY <2>1 DEF IntakeStart, StartUpload, StartProcess, StartPrice
  <2>2. CASE CheckoutStart(r)
    BY <2>2 DEF CheckoutStart, StartPay, StartCaptured, StartStatus, StartConfirm
  <2>3. CASE ClaimStart(r)
    BY <2>3 DEF ClaimStart, StartClaimJob, StartClaimCode, StartCompleted,
                StartFailed, ReportTo
  <2>4. CASE RefundStart(r)
    BY <2>4 DEF RefundStart, StartManualRefund, StartRefunded, StartSweep
  <2> QED BY <2>1, <2>2, <2>3, <2>4 DEF Start
<1> QED BY <1>1, SameBooks, StillStep

\* The steps of handlers that do not speak to the provider.
Local(r) ==
  \/ IntakeStep(r) \/ ClaimStep(r)
  \/ ReadPayment(r) \/ Verify(r) \/ Mark(r) \/ Roll(r) \/ Queue(r)
  \/ RecordCapture(r) \/ Publish(r) \/ Reveal(r) \/ SaveShown(r)
  \/ RefundRead(r) \/ RefundSave(r) \/ RefundFinal(r) \/ RefundPending(r)
  \/ SettleRead(r) \/ SettlePayment(r) \/ SettleJob(r) \/ Delete(r) \/ Forget(r)
  \/ SweepJob(r) \/ Expire(r) \/ ReadKeys(r) \/ FindLeftovers(r) \/ SweepFile(r)

LEMMA LocalOneRow ==
  ASSUME TypeOK, NEW r \in Slots, Local(r)
  PROVE  OneRow /\ UNCHANGED <<ledger, released>>
<1> DEFINE j == call[r].job
<1> USE DEF UNTOUCHED, ELSEWHERE, BEYOND, OUTSIDE, money, codes, agent
<1>1. CASE IntakeStep(r)
  <2>1. CASE SaveUpload(r) \/ FailJob(r) \/ SavePages(r) \/ SavePrice(r)
    <3>1. j \in Jobs
      BY <2>1, Working DEF SaveUpload, FailJob, SavePages, SavePrice, At
    <3>2. \A i \in Jobs : i # j => job'[i] = job[i]
      BY <2>1, JobRows DEF SaveUpload, FailJob, SavePages, SavePrice
    <3> QED BY <2>1, <3>1, <3>2 DEF OneRow, SaveUpload, FailJob, SavePages, SavePrice
  <2>2. CASE StoreUpload(r) \/ Inspect(r) \/ StoreArtifact(r) \/ Compose(r)
    BY <2>2 DEF OneRow, StoreUpload, Inspect, StoreArtifact, Compose
  <2> QED BY <1>1, <2>1, <2>2 DEF IntakeStep
<1>2. CASE ClaimStep(r)
  <2>1. CASE Charge(r) \/ Take(r) \/ Complete(r) \/ SaveFailed(r)
    <3>1. j \in Jobs
      BY <2>1, Working DEF Charge, Take, Complete, SaveFailed, At
    <3>2. \A i \in Jobs : i # j => job'[i] = job[i]
      BY <2>1, JobRows DEF Charge, Take, Complete, SaveFailed
    <3> QED BY <2>1, <3>1, <3>2 DEF OneRow, Charge, Take, Complete, SaveFailed
  <2>2. CASE HandOver(r)
    BY <2>2 DEF OneRow, HandOver
  <2> QED BY <1>2, <2>1, <2>2 DEF ClaimStep
<1>3. CASE Queue(r) \/ SaveShown(r)
  <2>1. j \in Jobs
    BY <1>3, Working DEF Queue, SaveShown, At
  <2>2. \A i \in Jobs : i # j => job'[i] = job[i]
    BY <1>3, JobRows DEF Queue, SaveShown
  <2> QED BY <1>3, <2>1, <2>2 DEF OneRow, Queue, SaveShown
<1>4. CASE RefundFinal(r) \/ RefundPending(r) \/ SettleJob(r) \/ Forget(r) \/ Expire(r)
  <2>1. j \in Jobs
    BY <1>4, Working DEF RefundFinal, RefundPending, SettleJob, Forget, Expire, At
  <2>2. \A i \in Jobs : i # j => job'[i] = job[i]
    BY <1>4, JobRows DEF RefundFinal, RefundPending, SettleJob, Forget, Expire
  <2> QED BY <1>4, <2>1, <2>2 DEF OneRow, RefundFinal, RefundPending, SettleJob,
                                  Forget, Expire
<1>5. CASE \/ ReadPayment(r) \/ Verify(r) \/ Mark(r) \/ Roll(r) \/ RecordCapture(r)
           \/ Publish(r) \/ Reveal(r)
  BY <1>5 DEF OneRow, ReadPayment, Verify, Mark, Roll, RecordCapture, Publish, Reveal
<1>6. CASE \/ RefundRead(r) \/ RefundSave(r) \/ SettleRead(r) \/ SettlePayment(r)
           \/ Delete(r) \/ SweepJob(r) \/ ReadKeys(r) \/ FindLeftovers(r)
           \/ SweepFile(r)
  BY <1>6 DEF OneRow, RefundRead, RefundSave, SettleRead, SettlePayment, Delete,
     SweepJob, ReadKeys, FindLeftovers, SweepFile
<1> QED BY <1>1, <1>2, <1>3, <1>4, <1>5, <1>6 DEF Local

\* pay() registers and offers an order, or, in mock mode, captures it.
LEMMA PayContract ==
  ASSUME TypeOK, BooksAgree, NEW r \in Slots,
         CreateOrder(r) \/ SavePayment(r) \/ SaveMockPayment(r)
  PROVE  ContractStep
<1> USE DEF ELSEWHERE, money, agent
<1>0. ledger \in [Orders -> LedgerRow] /\ UNCHANGED <<job, released>>
  BY DEF TypeOK, CreateOrder, SavePayment, SaveMockPayment
<1>1. CASE UNCHANGED ledger
  BY <1>0, <1>1, SameBooks, StillStep
<1>2. ASSUME NEW o \in Orders, NEW s \in {"created", "captured"},
             ledger[o].status = "unused",
             ledger' = [ledger EXCEPT ![o] = [job |-> call[r].job, amount |-> call[r].n,
                                              status |-> s]]
      PROVE  ContractStep
  <2>1. OnlyOrder(o) /\ ledger'[o].status = s
    BY <1>0, <1>2 DEF OnlyOrder
  <2>2. ledger[o].status \notin Settled
    BY <1>2 DEF Settled
  <2>3. CASE s = "created"
    BY <1>0, <2>1, <2>2, <2>3, QuietOrder, StillStep DEF Settled
  <2>4. CASE s = "captured"
    BY <1>0, <2>1, <2>2, <2>4, TakeStep
  <2> QED BY <2>3, <2>4
<1>3. ASSUME SavePayment(r), ledger' = [ledger EXCEPT ![call[r].ord].status = "offered"]
      PROVE  ContractStep
  <2> DEFINE o == call[r].ord
  <2>1. CASE o \notin Orders
    <3>1. ledger' = ledger
      BY <1>0, <1>3, <2>1
    <3> QED BY <1>0, <3>1, SameBooks, StillStep
  <2>2. CASE o \in Orders
    <3>1. ledger[o].status = "created"
      BY <1>3, <2>2 DEF SavePayment, At, BooksAgree, RegisterSafe, Registers
    <3>2. OnlyOrder(o) /\ ledger'[o].status = "offered"
      <4> HIDE DEF o
      <4> QED BY <1>0, <1>3, <2>2 DEF OnlyOrder, LedgerRow, o
    <3> QED BY <1>0, <2>2, <3>1, <3>2, QuietOrder, StillStep DEF Settled
  <2> QED BY <2>1, <2>2
<1>4. CASE CreateOrder(r)
  BY <1>1, <1>2, <1>4 DEF CreateOrder
<1>5. CASE SavePayment(r)
  BY <1>1, <1>3, <1>5 DEF SavePayment
<1>6. CASE SaveMockPayment(r)
  BY <1>1, <1>2, <1>6 DEF SaveMockPayment
<1> QED BY <1>4, <1>5, <1>6

\* The refund call is made for a settled order of the job it is made for.
LEMMA RefundContract ==
  ASSUME TypeOK, BooksAgree, NEW r \in Slots, RefundCall(r)
  PROVE  ContractStep
<1> DEFINE o == call[r].ord
<1> USE DEF OUTSIDE, agent
<1>0. ledger \in [Orders -> LedgerRow] /\ UNCHANGED <<job, released>>
  BY DEF TypeOK, RefundCall
<1>1. o \in Orders /\ ledger[o].status \in Settled
  BY FrameFacts DEF RefundCall, At, FrameSafe, SettledIn
<1>2. CASE UNCHANGED ledger
  BY <1>0, <1>2, SameBooks, StillStep
<1>3. CASE Accept(o) /\ (FinalRefund \/ ledger[o].status = "captured")
  <2> HIDE DEF o
  <2>1. PICK s : /\ ledger' = [ledger EXCEPT ![o].status = s]
                 /\ s = IF FinalRefund THEN "refunded" ELSE "refund_pending"
    BY <1>3 DEF Accept
  <2>2. OnlyOrder(o) /\ ledger'[o].status = s /\ ledger'[o].job = ledger[o].job
    BY <1>0, <1>1, <2>1 DEF OnlyOrder, LedgerRow
  <2>3. CASE ledger[o].status = "refunded"
    <3>1. ledger'[o] = ledger[o]
      BY <1>0, <1>1, <1>3, <2>1, <2>3 DEF LedgerRow
    <3> QED BY <1>0, <1>1, <2>2, <3>1, QuietOrder, StillStep
  <2>4. CASE ledger[o].status \in Held /\ s = "refunded"
    BY <1>0, <1>1, <2>2, <2>4, GiveBackStep
  <2>5. CASE ledger[o].status \in Held /\ s = "refund_pending"
    BY <1>0, <1>1, <2>2, <2>5, QuietOrder, StillStep DEF Held
  <2> QED BY <1>1, <2>1, <2>3, <2>4, <2>5 DEF Settled, Held
<1> QED BY <1>2, <1>3 DEF RefundCall

(***************************************************************************)
(* The environment, and the theorem.                                       *)
(***************************************************************************)

\* A download is the contract's Release: an agent holds a link only to a job
\* with an order that was taken for it.
LEMMA DownloadContract ==
  ASSUME TypeOK, BooksAgree, NEW j \in Jobs, NEW w \in Files, Download(j, w)
  PROVE  ContractStep
<1> USE DEF BEYOND, money
<1>1. UNCHANGED <<job, ledger>> /\ released \in [Jobs -> BOOLEAN]
  BY DEF Download, TypeOK
<1>2. CASE UNCHANGED released
  BY <1>1, <1>2, SameBooks, StillStep
<1>3. CASE released' = [released EXCEPT ![j] = TRUE]
  <2> DEFINE out == {i \in Jobs : released[i]}
  <2>1. PaidIn(ledger, j)
    BY RowFacts DEF Download, JobSafe
  <2>2. OrdersOf(ledger, j, Held) \cup OrdersOf(ledger, j, Returned) # {}
    BY <2>1 DEF PaidIn, SettledIn, Settled, OrdersOf, Held, Returned
  <2>3. out' = out \cup {j}
    BY <1>1, <1>3
  <2>4. Contract!Release(j)
    BY <1>1, <2>2, <2>3 DEF Contract!Release, Held, Returned
  <2> QED BY <2>4 DEF ContractStep, Contract!Next
<1> QED BY <1>2, <1>3 DEF Download

\* Customers, agents, the clock and the provider keep the contract.
LEMMA EnvironmentContract ==
  ASSUME TypeOK, BooksAgree, BooksAgree', Environment
  PROVE  ContractStep
<1> USE DEF UNTOUCHED, ELSEWHERE, BEYOND, OUTSIDE, money, codes, time, agent
<1>1. ASSUME NEW j \in Jobs, Create(j) PROVE ContractStep
  <2>1. \A i \in Jobs : i # j => job'[i] = job[i]
    BY <1>1, JobRows DEF Create
  <2> QED BY <1>1, <2>1, OneRowStep DEF Create, OneRow
<1>2. ASSUME NEW j \in Jobs, Elapse(j) \/ Age(j) \/ LoseAgent(j) PROVE ContractStep
  <2>1. UNCHANGED <<job, ledger, released>>
    BY <1>2 DEF Elapse, Age, LoseAgent
  <2> QED BY <2>1, SameBooks, StillStep
<1>3. ASSUME NEW o \in Orders, Capture(o) \/ ProviderRefunds(o) PROVE ContractStep
  <2>1. PICK s \in {"captured", "refunded"} :
          /\ ledger' = [ledger EXCEPT ![o].status = s]
          /\ s = "captured" => ledger[o].status = "offered"
          /\ s = "refunded" => ledger[o].status = "refund_pending"
    BY <1>3 DEF Capture, ProviderRefunds
  <2>2. UNCHANGED <<job, released>>
    BY <1>3 DEF Capture, ProviderRefunds
  <2>3. OnlyOrder(o) /\ ledger'[o].status = s /\ ledger'[o].job = ledger[o].job
    BY <1>3, <2>1 DEF TypeOK, OnlyOrder, LedgerRow
  <2>4. CASE s = "captured"
    BY <1>3, <2>1, <2>2, <2>3, <2>4, TakeStep DEF Settled
  <2>5. CASE s = "refunded"
    BY <1>3, <2>1, <2>2, <2>3, <2>5, GiveBackStep DEF Held
  <2> QED BY <2>1, <2>4, <2>5
<1> QED BY <1>1, <1>2, <1>3, DownloadContract DEF Environment

\* At the start nothing is held, returned, released or announced.
LEMMA InitContract == Init => Contract!Init
<1> SUFFICES ASSUME Init PROVE Contract!Init
  OBVIOUS
<1>1. \A j \in Jobs : /\ OrdersOf(ledger, j, Held) = {}
                      /\ OrdersOf(ledger, j, Returned) = {}
  BY DEF Init, UnusedOrder, OrdersOf, Held, Returned
<1>2. {j \in Jobs : released[j]} = {}
  BY DEF Init
<1>3. {j \in Jobs : job[j].state = "REFUNDED"} = {}
  <2>1. PICK first \in [Jobs -> Prices] : job = [j \in Jobs |-> FirstRow(j, first[j])]
    BY DEF Init
  <2>2. \A j, p : FirstRow(j, p).state \in {"NONE", "PRICED", "AWAITING_PAYMENT"}
    BY DEF FirstRow, BlankJob
  <2> QED BY <2>1, <2>2
<1> QED BY <1>1, <1>2, <1>3 DEF Contract!Init, Held, Returned

\* Every step is a step of the contract or does not touch it.
LEMMA NextContract ==
  TypeOK /\ BooksAgree /\ BooksAgree' /\ [Next]_vars => ContractStep
<1> SUFFICES ASSUME TypeOK, BooksAgree, BooksAgree', [Next]_vars PROVE ContractStep
  OBVIOUS
<1>1. ASSUME NEW r \in Slots, Start(r) PROVE ContractStep
  BY <1>1, StartContract
<1>2. ASSUME NEW r \in Slots, Step(r) PROVE ContractStep
  <2>1. CASE Local(r)
    BY <2>1, LocalOneRow, OneRowStep
  <2>2. CASE CreateOrder(r) \/ SavePayment(r) \/ SaveMockPayment(r)
    BY <2>2, PayContract
  <2>3. CASE RefundCall(r)
    BY <2>3, RefundContract
  <2> QED BY <1>2, <2>1, <2>2, <2>3 DEF Step, CheckoutStep, RefundStep, Local
<1>3. CASE Environment
  BY <1>3, EnvironmentContract
<1>4. CASE Restart \/ UNCHANGED vars
  <2>1. UNCHANGED <<job, ledger, released>>
    BY <1>4 DEF Restart, vars, agent
  <2> QED BY <2>1, SameBooks, StillStep
<1> QED BY <1>1, <1>2, <1>3, <1>4 DEF Next

\* The API and its environment implement the contract: an order is taken for one
\* job and given back at most once, and no file is released and no refund
\* announced for a job without an order of its own, however handlers overlap.
THEOREM ContractIsKept == Spec => KeepsContract
<1>1. Init => Contract!Init
  BY InitContract
<1>2. TypeOK /\ BooksAgree /\ BooksAgree' /\ [Next]_vars
        => [Contract!Next]_(Contract!contractVars)
  BY NextContract DEF ContractStep
<1> QED BY <1>1, <1>2, TypeCorrectness, BooksAlwaysAgree, PTL
        DEF Spec, KeepsContract, Contract!Spec
===============================================================================
