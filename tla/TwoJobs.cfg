\* Two jobs with an order each at one kiosk, one code for both and a provider
\* that accepts refund calls: every job leaves the queue, prints end, captured money
\* is spent on a print or sent back, and the handlers implement PrintContract.
SPECIFICATION FairSpec

CONSTANTS
  Jobs <- TwoJobs
  TypeOf <- Pdf
  Kiosks = {k1}
  KioskOf <- AtK1
  Prices = {1}
  Otps = {c1}
  Orders = {o1, o2}
  Slots = {s1}
  PayMode = "razorpay"
  MaxAttempts = 2
  RerollTries = 1
  StartState = "AWAITING_PAYMENT"
  Ops = {"pay", "capture", "captured", "elapse", "claimCode", "completed",
         "failed", "sweep", "confirm", "refunded", "claimJob"}

\* What may go wrong, and the bounds.
CONSTANTS
  RefundOutcomes = {"ok"}
  DeleteFails = FALSE
  MaxRuns = 1
  MaxRestarts = 0

\* Model values.
CONSTANTS
  c1 = c1
  c2 = c2
  k1 = k1
  o1 = o1
  o2 = o2
  s1 = s1
  s2 = s2
  NoCode = NoCode
  NoOrder = NoOrder
  NoJob = NoJob

PROPERTIES
  NobodyWaitsForEver
  PrintingEnds
  KeepsContract
  CapturedMoneyIsAccountedFor
