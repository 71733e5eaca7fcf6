\* A PDF job, priced, paid, printed, refunded, expired or abandoned, with a
\* restart at any await and refund calls that fail or whose answer is lost:
\* storage is emptied of its file in the end, and REFUNDED means that money
\* went back.
SPECIFICATION FairSpec

CONSTANTS
  Jobs <- OneJob
  TypeOf <- Pdf
  Kiosks = {k1}
  KioskOf <- AtK1
  Prices = {1}
  Otps = {c1}
  Orders = {o1}
  Slots = {s1}
  PayMode = "razorpay"
  MaxAttempts = 2
  RerollTries = 1
  StartState = "PRICED"
  Ops = {"price", "pay", "capture", "confirm", "captured", "elapse", "age", "claimCode",
         "completed", "failed", "manualRefund", "refunded", "sweep"}

\* What may go wrong, and the bounds.
CONSTANTS
  RefundOutcomes = {"ok", "error", "lost"}
  DeleteFails = FALSE
  MaxRuns = 1
  MaxRestarts = 1

\* Model values.
CONSTANTS
  c1 = c1
  c2 = c2
  k1 = k1
  o1 = o1
  o2 = o2
  s1 = s1
  s2 = s2
  NoCode = NoCode
  NoOrder = NoOrder
  NoJob = NoJob

INVARIANTS
  RefundedMeansMoneyBack
PROPERTIES
  FilesDeleted
