------------------------------ MODULE KioskData ------------------------------
(***************************************************************************)
(* The state that every request handler of the API shares: the Job and     *)
(* Payment tables, the stored files, the in-memory one-time codes, the     *)
(* payment provider's own books, and one frame per request in flight.      *)
(*                                                                         *)
(* A handler of the API (NestJS on one Node event loop) runs from one      *)
(* await to the next without interruption, and every await (a Prisma call, *)
(* a provider call, a disk operation) lets other handlers run.  So a       *)
(* handler is a frame: its program counter and the local variables it      *)
(* still needs, and each of its steps is one awaited operation together    *)
(* with the synchronous code up to the next one.                           *)
(***************************************************************************)
EXTENDS Integers, FiniteSets

CONSTANTS
  Jobs,            \* job ids, numbered in the order of createdAt
  Kiosks,
  KioskOf,         \* [Jobs -> Kiosks]: Job.kioskId
  TypeOf,          \* [Jobs -> FileTypes]: Job.fileType
  Prices,          \* the totals (in paise) that the settings on offer can give
  Otps, NoCode,    \* four-digit codes; NoCode is a null otpHash
  Orders, NoOrder, \* provider orders; a captured payment is named by its order
  NoJob,
  Slots,           \* requests that may be in flight at once
  MaxAttempts,     \* OTP_MAX_ATTEMPTS
  RerollTries,     \* collision checks before a code is taken as it is
  PayMode,         \* PAY_PROVIDER: "mock" or "razorpay"
  RefundOutcomes,  \* what a refund call may do: "ok", "error", "lost"
  DeleteFails,     \* may storage.delete throw?
  MaxRuns,         \* bound: claims are typed while agents hold fewer runs of a job
  MaxRestarts,     \* bound: restarts of the API process
  StartState,      \* how far each job has come: see FirstRow
  Ops              \* the requests and events the environment makes

FileTypes == {"pdf", "docx", "image"}

ASSUME ConstantsAssumption ==
  /\ Jobs \subseteq Nat
  /\ KioskOf \in [Jobs -> Kiosks]
  /\ TypeOf \in [Jobs -> FileTypes]
  /\ Prices \subseteq Nat
  /\ NoCode \notin Otps
  /\ NoOrder \notin Orders
  /\ NoJob \notin Jobs
  /\ MaxAttempts \in Nat \ {0}
  /\ RerollTries \in Nat \ {0}
  /\ PayMode \in {"mock", "razorpay"}
  /\ RefundOutcomes \subseteq {"ok", "error", "lost"}
  /\ DeleteFails \in BOOLEAN
  /\ MaxRuns \in Nat
  /\ MaxRestarts \in Nat
  /\ StartState \in {"NONE", "PRICED", "AWAITING_PAYMENT"}

VARIABLES
  job,         \* [Jobs -> JobRow]: the Job table
  pay,         \* [Jobs -> PaymentRow]: the Payment table, jobId is unique
  disk,        \* [Jobs -> SUBSET Files]: the objects in storage
  ledger,      \* [Orders -> LedgerRow]: the provider's books (external)
  pendingOtps, \* [Jobs -> code]: JobsService.pendingOtps, in memory only
  phone,       \* [Jobs -> code]: the code the customer has been shown
  late,        \* [Jobs -> BOOLEAN]: otpExpiresAt has passed
  aged,        \* [Jobs -> BOOLEAN]: createdAt is older than the upload window
  links,       \* [Jobs -> [Files -> Nat]]: signed URLs an agent has not used
  printing,    \* [Jobs -> Nat]: print runs in progress on an agent
  released,    \* [Jobs -> BOOLEAN]: an agent has downloaded the file
  call,        \* [Slots -> Frame]: the requests in flight
  restarts

tables   == <<job, pay>>
money    == <<pay, ledger>>
codes    == <<pendingOtps, phone>>
time     == <<late, aged>>
agent    == <<links, printing, released>>
vars     == <<job, pay, disk, ledger, pendingOtps, phone, late, aged,
              links, printing, released, call, restarts>>

(***************************************************************************)
(* Rows.                                                                   *)
(***************************************************************************)
Files == {"file", "print"}        \* Job.fileKey, Job.printKey

JobStates ==
  {"NONE", "UPLOADED", "PRICED", "AWAITING_PAYMENT", "PAID", "QUEUED",
   "PRINTING", "COMPLETED", "FAILED", "EXPIRED", "REFUNDED"}

\* keys: which of the two key columns are not null; price: the settings and
\* the priceTotal that goes with them; shown: otpShownAt is not null.
JobRow == [state : JobStates, price : Nat, keys : SUBSET Files,
           otp : Otps \cup {NoCode}, tries : Nat, shown : BOOLEAN]

PaymentStatus == {"none", "created", "captured", "refund_initiated", "refunded"}

PaymentRow == [status : PaymentStatus, order : Orders \cup {NoOrder},
               amount : Nat, payId : Orders \cup {NoOrder}]

\* "created" at the provider, "offered" to the customer in an open checkout.
LedgerStatus == {"unused", "created", "offered", "captured",
                 "refund_pending", "refunded"}

LedgerRow == [job : Jobs \cup {NoJob}, amount : Nat, status : LedgerStatus]

BlankJob     == [state |-> "NONE", price |-> 0, keys |-> {},
                 otp |-> NoCode, tries |-> 0, shown |-> FALSE]
NoPayment    == [status |-> "none", order |-> NoOrder, amount |-> 0,
                 payId |-> NoOrder]
UnusedOrder  == [job |-> NoJob, amount |-> 0, status |-> "unused"]

(***************************************************************************)
(* Frames.  op is the request or timer, pc the awaited operation that it   *)
(* performs next; the rest are the local variables it read earlier.        *)
(***************************************************************************)
OpNames ==
  {"idle", "saveUpload", "process", "price", "pay", "confirm", "captured",
   "status", "claim", "completed", "failed", "manualRefund", "refunded",
   "expirySweep", "fileSweep"}

PcNames ==
  {"idle", "storeUpload", "saveUpload", "inspect", "failJob", "storeArtifact", "savePages",
   "compose", "savePrice", "readPayment", "createOrder", "savePayment",
   "verify", "mark", "roll", "queue", "capture", "publish", "reveal",
   "saveShown", "charge", "take", "handOver", "complete", "saveFailed",
   "refundRead", "refundCall", "refundSave", "refundFinal", "refundPending",
   "settleRead", "settlePayment", "settleJob", "next", "expire", "readKeys",
   "delete", "forget"}

FrameFields ==
  [op : OpNames, pc : PcNames, job : Jobs \cup {NoJob},
   ord : Orders \cup {NoOrder}, code : Otps \cup {NoCode},
   n : Nat,                       \* a price or an attempt count
   seen : BOOLEAN,                \* what a later step depends on
   held : [Jobs -> SUBSET Files], \* file keys read from the rows
   todo : SUBSET Jobs]            \* the rest of a sweep

\* Only between two jobs of a sweep does a request in flight name no job.
Frame == {f \in FrameFields : f.pc \notin {"idle", "next"} => f.job \in Jobs}

NoFiles == [j \in Jobs |-> {}]

IdleFrame == [op |-> "idle", pc |-> "idle", job |-> NoJob, ord |-> NoOrder,
              code |-> NoCode, n |-> 0, seen |-> FALSE, held |-> NoFiles,
              todo |-> {}]

Idle(r)   == call[r].op = "idle"
At(r, pc) == call[r].pc = pc

SetFrame(r, f) == call' = [call EXCEPT ![r] = f]
Finish(r)      == SetFrame(r, IdleFrame)
Goto(r, pc)    == SetFrame(r, [call[r] EXCEPT !.pc = pc])

\* A request on job j arrives and its first awaited operation leads to pc.
Arrive(op, pc, j) == [IdleFrame EXCEPT !.op = op, !.pc = pc, !.job = j]

\* The file keys a handler keeps of the row it has read.
Holding(j) == [NoFiles EXCEPT ![j] = job[j].keys]

(***************************************************************************)
(* The initial state: no job exists yet, or each job has its file stored   *)
(* and its pages counted (where POST /process leaves it), or it has been   *)
(* priced as well and waits for its payment.                               *)
(***************************************************************************)
FirstRow(j, p) ==
  CASE StartState = "NONE" -> BlankJob
    [] StartState = "PRICED" ->
         [BlankJob EXCEPT !.state = "PRICED",
            !.keys = IF TypeOf[j] = "docx" THEN Files ELSE {"file"}]
    [] OTHER ->
         [BlankJob EXCEPT !.state = "AWAITING_PAYMENT", !.price = p,
            !.keys = IF TypeOf[j] = "pdf" THEN {"file"} ELSE Files]

Init ==
  /\ \E first \in [Jobs -> Prices] : job = [j \in Jobs |-> FirstRow(j, first[j])]
  /\ disk = [j \in Jobs |-> job[j].keys]
  /\ pay = [j \in Jobs |-> NoPayment]
  /\ ledger = [o \in Orders |-> UnusedOrder]
  /\ pendingOtps = [j \in Jobs |-> NoCode]
  /\ phone = [j \in Jobs |-> NoCode]
  /\ late = [j \in Jobs |-> FALSE]
  /\ aged = [j \in Jobs |-> FALSE]
  /\ links = [j \in Jobs |-> [w \in Files |-> 0]]
  /\ printing = [j \in Jobs |-> 0]
  /\ released = [j \in Jobs |-> FALSE]
  /\ call = [r \in Slots |-> IdleFrame]
  /\ restarts = 0

TypeOK ==
  /\ job \in [Jobs -> JobRow]
  /\ pay \in [Jobs -> PaymentRow]
  /\ disk \in [Jobs -> SUBSET Files]
  /\ ledger \in [Orders -> LedgerRow]
  /\ pendingOtps \in [Jobs -> Otps \cup {NoCode}]
  /\ phone \in [Jobs -> Otps \cup {NoCode}]
  /\ late \in [Jobs -> BOOLEAN]
  /\ aged \in [Jobs -> BOOLEAN]
  /\ links \in [Jobs -> [Files -> Nat]]
  /\ printing \in [Jobs -> Nat]
  /\ released \in [Jobs -> BOOLEAN]
  /\ call \in [Slots -> Frame]
  /\ restarts \in 0..MaxRestarts

(***************************************************************************)
(* What the provider's books L say of a job: it holds, or has held, the    *)
(* customer's money for order o of job j; it has paid that money back.     *)
(***************************************************************************)
Settled == {"captured", "refund_pending", "refunded"}
SettledIn(L, j, o) == o \in Orders /\ L[o].job = j /\ L[o].status \in Settled
PaidIn(L, j)       == \E o \in Orders : SettledIn(L, j, o)
MoneyBackIn(L, j)  == \E o \in Orders : L[o].job = j /\ L[o].status = "refunded"

Paid(j)      == PaidIn(ledger, j)
MoneyBack(j) == MoneyBackIn(ledger, j)
==============================================================================
