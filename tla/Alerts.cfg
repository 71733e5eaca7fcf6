\* Two overlapping evaluations of the three alerts about a kiosk.
SPECIFICATION AlertsSpec

CONSTANTS
  Evals = {e1, e2}
  Checks <- KioskChecks
  Inks = {"full", "low"}
  MaxSheets = 1
  LowSheets = 0
  MaxRestarts = 1

CONSTANTS
  e1 = e1
  e2 = e2

INVARIANTS
  OncePerCooldown
PROPERTIES
  TroubleIsTold
