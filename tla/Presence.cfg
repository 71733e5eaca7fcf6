\* One agent with two connections and a job; a restart of the API and a command.
SPECIFICATION FairPresence

CONSTANTS
  Jobs = {j1}
  MaxConns = 2
  MaxRestarts = 1
  MaxCommands = 1
  Inks = {"none"}
  MaxSheets = 0

CONSTANTS
  j1 = j1
  j2 = j2

INVARIANTS
  NoJobIsMissed
PROPERTIES
  QueuedIsHeard
  ConnectedEndsOnline
  GoneEndsOffline

\* A kiosk that is switched off does nothing more.
CHECK_DEADLOCK FALSE
