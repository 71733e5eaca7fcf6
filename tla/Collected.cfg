\* Two requests in flight and agents that work: only who has paid gets a file
\* printed, and whoever has paid gets that or the money back, although claims,
\* confirmations, refunds and sweeps overlap; tables, provider's books and
\* handlers agree at every await; and when the handlers that overlapped are gone,
\* the code is final, no claim comes late and the capture stays booked.
SPECIFICATION AgentFairSpec

CONSTANTS
  Jobs <- OneJob
  TypeOf <- Pdf
  Kiosks = {k1}
  KioskOf <- AtK1
  Prices = {1}
  Otps = {c1}
  Orders = {o1}
  Slots = {s1, s2}
  PayMode = "razorpay"
  MaxAttempts = 2
  RerollTries = 1
  StartState = "AWAITING_PAYMENT"
  Ops = {"pay", "capture", "confirm", "captured", "elapse", "claimCode",
         "completed", "failed", "manualRefund", "refunded", "sweep"}

\* What may go wrong, and the bounds.
CONSTANTS
  RefundOutcomes = {"ok"}
  DeleteFails = FALSE
  MaxRuns = 1
  MaxRestarts = 0

\* Model values.
CONSTANTS
  c1 = c1
  c2 = c2
  k1 = k1
  o1 = o1
  o2 = o2
  s1 = s1
  s2 = s2
  NoCode = NoCode
  NoOrder = NoOrder
  NoJob = NoJob

INVARIANTS
  NothingReleasedUnpaid
  BooksAgree
PROPERTIES
  CollectedOrRefunded
  CodeIsFinal
  NoLateClaim
  CaptureIsKept
