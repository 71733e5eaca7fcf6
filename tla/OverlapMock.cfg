\* Mock payments of a DOCX with two requests in flight, from the empty table,
\* and a restart: the digits of a code are shown at most once, and the payment
\* locks the job once uploads, conversions and prices of before are gone.
SPECIFICATION Spec

CONSTANTS
  Jobs <- OneJob
  TypeOf <- Docx
  Kiosks = {k1}
  KioskOf <- AtK1
  Prices = {1}
  Otps = {c1}
  Orders = {o1}
  Slots = {s1, s2}
  PayMode = "mock"
  MaxAttempts = 2
  RerollTries = 1
  StartState = "NONE"
  Ops = {"create", "saveUpload", "process", "price", "pay", "status",
         "elapse", "claimCode", "completed", "failed", "manualRefund", "sweep"}

\* What may go wrong, and the bounds.
CONSTANTS
  RefundOutcomes = {"ok"}
  DeleteFails = FALSE
  MaxRuns = 1
  MaxRestarts = 1

\* Model values.
CONSTANTS
  c1 = c1
  c2 = c2
  k1 = k1
  o1 = o1
  o2 = o2
  s1 = s1
  s2 = s2
  NoCode = NoCode
  NoOrder = NoOrder
  NoJob = NoJob

INVARIANTS
  CodeShownOnce
PROPERTIES
  PaymentLocks
SYMMETRY SlotSymmetry
