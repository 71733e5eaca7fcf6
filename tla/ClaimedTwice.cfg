\* Two claims read the QUEUED row before either has written PRINTING: both get
\* the file.
SPECIFICATION Spec

CONSTANTS
  Jobs <- OneJob
  TypeOf <- Pdf
  Kiosks = {k1}
  KioskOf <- AtK1
  Prices = {1}
  Otps = {c1}
  Orders = {o1}
  Slots = {s1, s2}
  PayMode = "razorpay"
  MaxAttempts = 2
  RerollTries = 1
  StartState = "AWAITING_PAYMENT"
  Ops = {"pay", "capture", "confirm", "claimCode"}

\* What may go wrong, and the bounds.
CONSTANTS
  RefundOutcomes = {"ok"}
  DeleteFails = FALSE
  MaxRuns = 2
  MaxRestarts = 0

\* Model values.
CONSTANTS
  c1 = c1
  c2 = c2
  k1 = k1
  o1 = o1
  o2 = o2
  s1 = s1
  s2 = s2
  NoCode = NoCode
  NoOrder = NoOrder
  NoJob = NoJob

INVARIANTS
  SingleUse

\* Without sweeps the system stops when nobody makes another request.
CHECK_DEADLOCK FALSE
