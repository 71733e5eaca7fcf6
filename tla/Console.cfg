\* A press, and a page gone to or a failure, among two loads under way; the
\* provider is Razorpay.
SPECIFICATION FairConsole

CONSTANTS
  Inks = {"none"}
  MaxSheets = 0
  Final = FALSE
  MaxLoads = 2
  MaxClicks = 1
  MaxEvents = 1

PROPERTIES
  EndsWithLook
  EndsTrue
  ConsoleComesBack
