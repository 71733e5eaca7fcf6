\* Two jobs of one customer, settings that are refused among them, with
\* Razorpay: replies in any order.
SPECIFICATION FairSpec

CONSTANTS
  Jobs = {1, 2}
  KindOf <- DocumentThenPhoto
  Unreadable = {2}
  Docs = {d1, d2}
  NewDoc = d1
  BadDocs = {d2}
  PayMode = "razorpay"
  Lossy = {"info", "price", "pay", "status"}

\* Bounds.
CONSTANTS
  MaxCalls = 2
  MaxOrders = 1
  MaxChanges = 1
  MaxReloads = 1

\* Model values.
CONSTANTS
  d1 = d1
  d2 = d2
  NoJob = NoJob

INVARIANTS
  PriceIsForTheseSettings
  ScreenIsOwn
  PaidIsNotIgnored

CHECK_DEADLOCK FALSE

PROPERTIES
  CodeStaysOnScreen
  CodeArrives
  OutcomeArrives
