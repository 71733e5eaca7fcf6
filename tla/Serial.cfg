\* One request at a time, every operation and every failure: the types, and that
\* the capture of a waiting job is booked.
SPECIFICATION Spec

CONSTANTS
  Jobs <- OneJob
  TypeOf <- Image
  Kiosks = {k1}
  KioskOf <- AtK1
  Prices = {1, 2}
  Otps = {c1, c2}
  Orders = {o1, o2}
  Slots = {s1}
  PayMode = "razorpay"
  MaxAttempts = 2
  RerollTries = 1
  StartState = "NONE"
  Ops = {"create", "saveUpload", "process", "price", "pay", "capture",
         "confirm", "captured", "status", "elapse", "age", "claimJob",
         "claimCode", "completed", "failed", "loseAgent", "manualRefund",
         "refunded", "sweep"}

\* What may go wrong, and the bounds.
CONSTANTS
  RefundOutcomes = {"ok", "error"}
  DeleteFails = TRUE
  MaxRuns = 2
  MaxRestarts = 0

\* Model values.
CONSTANTS
  c1 = c1
  c2 = c2
  k1 = k1
  o1 = o1
  o2 = o2
  s1 = s1
  s2 = s2
  NoCode = NoCode
  NoOrder = NoOrder
  NoJob = NoJob

INVARIANTS
  TypeOK
  WaitingIsBooked
