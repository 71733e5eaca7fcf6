\* Two jobs at a kiosk, with cuts, restarts, failed downloads, late answers and CUPS down.
SPECIFICATION AgentSpec

CONSTANTS
  Jobs = {j1, j2}
  NoJob = NoJob
  WrongCode = WrongCode
  MaxTroubles = 2
  MaxCommands = 1

CONSTANTS
  j1 = j1
  j2 = j2

INVARIANTS
  FilesAreShredded
  WaitingIsAsked
PROPERTIES
  PrintingIsReported
  KeypadComesBack

\* An exception may end the keypad's thread, after which nothing is left to do.
CHECK_DEADLOCK FALSE
