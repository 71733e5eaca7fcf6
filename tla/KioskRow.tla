------------------------------- MODULE KioskRow -------------------------------
(***************************************************************************)
(* The row that the API keeps of the kiosk (schema.prisma, model Kiosk)    *)
(* and what each writer of it stores.                                      *)
(***************************************************************************)
EXTENDS Integers

CONSTANTS
  Inks,       \* what agents read of the ink; "low" is a colour under INK_THRESHOLD
  MaxSheets   \* bound: sheets that an agent counts

ASSUME RowAssumption == Inks \subseteq {"none", "full", "low"} /\ MaxSheets \in Nat

Commands  == {"test_print", "reboot_agent", "maintenance_on", "maintenance_off"}

\* seen: lastSeenAt, as far as the alerts tell times apart.
Rows == [status : {"ONLINE", "OFFLINE", "MAINTENANCE"}, seen : {"never", "lately", "past"},
         ink : Inks \cup {"none"}, sheets : 0 .. MaxSheets]

NewRow == [status |-> "OFFLINE", seen |-> "never", ink |-> "none", sheets |-> 0]

\* A heartbeat: the ink levels, if the agent could read them, and its own
\* count of sheets.
Beats == [ink : Inks, sheets : 0 .. MaxSheets]

Connected(row) == [row EXCEPT !.status = "ONLINE", !.seen = "lately"]
Gone(row)      == [row EXCEPT !.status = "OFFLINE"]
Refilled(row)  == [row EXCEPT !.sheets = 0]

\* Mutant: a heartbeat stores what it brings and leaves the status alone.
HeardStatusKept(row, beat) ==
  [row EXCEPT !.seen = "lately", !.ink = IF beat.ink = "none" THEN @ ELSE beat.ink,
              !.sheets = beat.sheets]

Heard(row, beat) ==
  [Connected(row) EXCEPT !.ink = IF beat.ink = "none" THEN @ ELSE beat.ink,
                         !.sheets = beat.sheets]

Commanded(row, cmd) ==
  CASE cmd = "maintenance_on"  -> [row EXCEPT !.status = "MAINTENANCE"]
    [] cmd = "maintenance_off" -> Gone(row)
    [] OTHER -> row
===============================================================================
