------------------------------ MODULE KioskAgent ------------------------------
(***************************************************************************)
(* The agent at a kiosk (src/agent/kiosk): the keypad's thread, which       *)
(* claims, downloads, prints, reports and shreds one job after the other,   *)
(* and the events of its connection, which run beside it.  The API is what  *)
(* the agent sees of it; Claims and KioskPresence have its inside.          *)
(***************************************************************************)
EXTENDS Integers

CONSTANTS
  Jobs, NoJob,   \* jobs of this kiosk; each stands for its code, too
  WrongCode,     \* any other digits
  MaxTroubles,   \* bound: cuts, restarts, late answers, failed downloads, CUPS down
  MaxCommands    \* bound: commands of administrators

ASSUME AgentAssumption ==
  NoJob \notin Jobs /\ WrongCode \notin Jobs /\ MaxTroubles \in Nat /\ MaxCommands \in Nat

VARIABLES
  kp,       \* the keypad's thread
  waiting,  \* current_jobs
  screen,   \* the phase that the display shows
  offline,  \* DisplayState.offline
  link,     \* the connection is up
  file,     \* jobs with a file in tmpfs
  cups,     \* the printer's queue: none, active, stuck, over
  claims,   \* job:claim requests that are not answered yet, and the answers
  reports,  \* job:completed and job:failed, on their way
  news,     \* job:queued, on their way
  job,      \* the API's rows
  troubles, commands
agentVars == <<kp, waiting, screen, offline, link, file, cups, claims, reports, news, job,
               troubles, commands>>
api    == <<claims, reports, news, job>>
shown  == <<waiting, screen, offline>>
bounds == <<troubles, commands>>

\* dead: an exception has ended the thread; end: how run_claim will return.
Working == {"download", "submit", "print", "printed", "failed", "shred", "pause"}
Phases  == {"idle", "asked", "dead"} \cup Working
Ends    == {"none", "success", "failure", "raised"}
Rest    == [pc |-> "idle", job |-> NoJob, end |-> "none"]
Dead    == [Rest EXCEPT !.pc = "dead"]
Broken  == [Dead EXCEPT !.end = "failure"]   \* it died in a download

Claims == [code : Jobs \cup {WrongCode}, live : BOOLEAN, reply : {"none", "granted", "refused"}]

AgentInit ==
  /\ kp = Rest /\ waiting = {} /\ screen = "idle" /\ offline = FALSE /\ link = FALSE
  /\ file = {} /\ cups = "none" /\ claims = {} /\ reports = {} /\ news = {}
  /\ job = [j \in Jobs |-> "new"] /\ troubles = 0 /\ commands = 0

Trouble == troubles < MaxTroubles /\ troubles' = troubles + 1 /\ UNCHANGED commands

(***************************************************************************)
(* Keys.  While a job is claimed or printed they wait in the device.       *)
(***************************************************************************)
TypeDigit ==
  /\ kp = Rest /\ screen' = "enter-otp"
  /\ UNCHANGED <<kp, waiting, offline, link, file, cups, api, bounds>>

\* on_keypad_submit: digits are ignored while no job is known.  emit raises
\* when the connection is down, which ends the thread.
Submit(code) ==
  /\ kp = Rest /\ screen' = "enter-otp"
  /\ IF waiting = {} THEN UNCHANGED <<kp, claims>>
     ELSE IF ~link THEN kp' = Dead /\ UNCHANGED claims
     ELSE /\ kp' = [kp EXCEPT !.pc = "asked"]
          /\ claims' = claims \cup {[code |-> code, live |-> TRUE, reply |-> "none"]}
  /\ UNCHANGED <<waiting, offline, link, file, cups, reports, news, job, bounds>>

\* claim_code returns: with a job that is now this agent's, or for an error.
Granted(c) ==
  /\ c \in claims /\ c.live /\ c.reply = "granted" /\ claims' = claims \ {c}
  /\ kp' = [kp EXCEPT !.pc = "download", !.job = c.code] /\ file' = file \cup {c.code}
  /\ UNCHANGED <<shown, link, cups, reports, news, job, bounds>>

Refused(c) ==
  /\ c \in claims /\ c.live /\ c.reply = "refused" /\ claims' = claims \ {c}
  /\ kp' = Rest /\ screen' = "error"
  /\ UNCHANGED <<waiting, offline, link, file, cups, reports, news, job, bounds>>

\* No answer for ten seconds.  A claim that the API then grants after all
\* leaves its job in PRINTING.
LiveClaims == {c \in claims : c.live}
GiveUp ==
  /\ kp.pc = "asked" /\ kp' = Rest /\ screen' = "error"
  /\ IF LiveClaims = {} THEN UNCHANGED bounds ELSE Trouble
  /\ claims' = (claims \ LiveClaims)
                 \cup {[c EXCEPT !.live = FALSE] : c \in {d \in LiveClaims : d.reply = "none"}}
  /\ UNCHANGED <<waiting, offline, link, file, cups, reports, news, job>>

(***************************************************************************)
(* run_claim.  What it raises, PrintFailure apart, ends the thread, after   *)
(* the finally clause if the download was over.                             *)
(***************************************************************************)
\* urlretrieve has no time-out: a connection that goes silent keeps the thread
\* here for ever.
Downloaded ==
  /\ kp.pc = "download" /\ kp' = [kp EXCEPT !.pc = "submit"]
  /\ UNCHANGED <<shown, link, file, cups, api, bounds>>

\* What was received stays in tmpfs until the agent starts again.
DownloadFails ==
  /\ kp.pc = "download" /\ kp' = Broken /\ Trouble
  /\ UNCHANGED <<shown, link, file, cups, api>>

\* print_file connects to CUPS before its try: what that raises is no
\* PrintFailure, so nothing is reported, though the connection may be up.
CupsIsDown ==
  /\ kp.pc = "submit" /\ kp' = [kp EXCEPT !.pc = "shred", !.end = "raised"] /\ Trouble
  /\ UNCHANGED <<shown, link, file, cups, api>>

SubmitToCups ==
  /\ kp.pc = "submit"
  /\ \/ kp' = [kp EXCEPT !.pc = "print"] /\ cups' = "active"
     \/ kp' = [kp EXCEPT !.pc = "failed"] /\ UNCHANGED cups
  /\ UNCHANGED <<shown, link, file, api, bounds>>

\* A page is out: the screen tells, then emit tells the API or raises.
Emitted(pc) == kp' = IF link THEN [kp EXCEPT !.pc = pc]
                     ELSE [kp EXCEPT !.pc = "shred", !.end = "raised"]
Progress ==
  /\ kp.pc = "print" /\ cups = "active"
  /\ screen' = "printing" /\ Emitted("print")
  /\ UNCHANGED <<waiting, offline, link, file, cups, api, bounds>>

\* The printer's job has left the queue, aborted ones (whose state is not
\* recognised) included.
PrintEnds ==
  /\ kp.pc = "print" /\ cups = "over"
  /\ cups' = "none" /\ screen' = "printing" /\ Emitted("printed")
  /\ UNCHANGED <<waiting, offline, link, file, api, bounds>>

\* Mutant: no time-out for pages.
StallUnnoticed ==
  /\ kp.pc = "print" /\ cups = "stuck"
  /\ UNCHANGED agentVars

\* No page for print_progress_timeout: the printer's job is cancelled.
Stall ==
  /\ kp.pc = "print" /\ cups = "stuck"
  /\ cups' = "none" /\ kp' = [kp EXCEPT !.pc = "failed"]
  /\ UNCHANGED <<shown, link, file, api, bounds>>

\* A fatal state of the printer, or CUPS does not answer.
PrinterFails ==
  /\ kp.pc = "print" /\ cups' = "none" /\ kp' = [kp EXCEPT !.pc = "failed"]
  /\ UNCHANGED <<shown, link, file, api, bounds>>

ReportCompleted ==
  /\ kp.pc = "printed"
  /\ IF link THEN /\ reports' = reports \cup {<<kp.job, "completed">>}
                  /\ screen' = "collect"
                  /\ kp' = [kp EXCEPT !.pc = "shred", !.end = "success"]
     ELSE kp' = [kp EXCEPT !.pc = "shred", !.end = "raised"] /\ UNCHANGED <<reports, screen>>
  /\ UNCHANGED <<waiting, offline, link, file, cups, claims, news, job, bounds>>

\* Mutant: the customer is told, the API is not.
ReportFailedHere ==
  /\ kp.pc = "failed"
  /\ screen' = "error" /\ kp' = [kp EXCEPT !.pc = "shred", !.end = "failure"]
  /\ UNCHANGED <<waiting, offline, link, file, cups, api, bounds>>

ReportFailed ==
  /\ kp.pc = "failed"
  /\ IF link THEN /\ reports' = reports \cup {<<kp.job, "failed">>}
                  /\ screen' = "error"
                  /\ kp' = [kp EXCEPT !.pc = "shred", !.end = "failure"]
     ELSE kp' = [kp EXCEPT !.pc = "shred", !.end = "raised"] /\ UNCHANGED <<reports, screen>>
  /\ UNCHANGED <<waiting, offline, link, file, cups, claims, news, job, bounds>>

\* Mutant: not in a finally clause.
ShredUnlessRaised ==
  /\ kp.pc = "shred" /\ kp' = [kp EXCEPT !.pc = "pause"]
  /\ file' = IF kp.end = "raised" THEN file ELSE file \ {kp.job}
  /\ UNCHANGED <<shown, link, cups, api, bounds>>

Shred ==
  /\ kp.pc = "shred" /\ kp' = [kp EXCEPT !.pc = "pause"]
  /\ file' = file \ {kp.job}
  /\ UNCHANGED <<shown, link, cups, api, bounds>>

\* Eight seconds later: the screen, for which the job of this claim still
\* counts as waiting; then on_keypad_submit drops it if it was printed.
AfterRun == IF kp.end = "success" THEN waiting \ {kp.job} ELSE waiting

\* Mutant: the screen goes back to the QR code.
ReturnIdle ==
  /\ kp.pc = "pause" /\ kp' = IF kp.end = "raised" THEN Dead ELSE Rest
  /\ screen' = "idle" /\ waiting' = AfterRun
  /\ UNCHANGED <<offline, link, file, cups, api, bounds>>

Return ==
  /\ kp.pc = "pause" /\ kp' = IF kp.end = "raised" THEN Dead ELSE Rest
  /\ screen' = IF waiting # {} THEN "enter-otp" ELSE "idle"
  /\ waiting' = AfterRun
  /\ UNCHANGED <<offline, link, file, cups, api, bounds>>

(***************************************************************************)
(* The connection's events, commands and restarts.                         *)
(***************************************************************************)
\* _mark_online; the API then announces again what is queued.
Connect ==
  /\ ~link /\ link' = TRUE /\ offline' = FALSE /\ screen' = "idle"
  /\ news' = {j \in Jobs : job[j] = "queued"}
  /\ UNCHANGED <<kp, waiting, file, cups, claims, reports, job, bounds>>

\* _mark_offline.  Requests may have arrived before; answers have not.
Cut ==
  /\ link /\ link' = FALSE /\ offline' = TRUE /\ screen' = "error" /\ Trouble
  /\ \E lost \in SUBSET {c \in claims : c.reply = "none"} :
       claims' = {c \in claims \ lost : c.reply = "none"}
  /\ reports' \in SUBSET reports /\ news' = {}
  /\ UNCHANGED <<kp, waiting, file, cups, job>>

\* on_job_queued.
NewsArrives(j) ==
  /\ j \in news /\ news' = news \ {j}
  /\ waiting' = waiting \cup {j} /\ screen' = "enter-otp"
  /\ UNCHANGED <<kp, offline, link, file, cups, claims, reports, job, bounds>>

\* on_command (test_print has no part in this state).
Maintenance(on) ==
  /\ link /\ commands < MaxCommands /\ commands' = commands + 1
  /\ screen' = IF on THEN "error" ELSE "idle"
  /\ UNCHANGED <<kp, waiting, offline, link, file, cups, api, troubles>>

\* reboot_agent, an update or a crash; systemd starts the agent again.  The
\* list is lost, cleanup_tmp empties tmpfs, and the printer goes on alone.
Restart ==
  /\ Trouble
  /\ kp' = Rest /\ waiting' = {} /\ screen' = "idle" /\ offline' = FALSE /\ link' = FALSE
  /\ file' = {} /\ cups' = "none" /\ news' = {}
  /\ \E lost \in SUBSET claims :
       claims' = {[c EXCEPT !.live = FALSE] : c \in {d \in claims \ lost : d.reply = "none"}}
  /\ reports' \in SUBSET reports
  /\ UNCHANGED job

(***************************************************************************)
(* The API and the printer.                                                *)
(***************************************************************************)
Queue(j) ==
  /\ job[j] = "new" /\ job' = [job EXCEPT ![j] = "queued"]
  /\ news' = IF link THEN news \cup {j} ELSE news
  /\ UNCHANGED <<kp, shown, link, file, cups, claims, reports, bounds>>

Expire(j) ==
  /\ job[j] = "queued" /\ job' = [job EXCEPT ![j] = "left"]
  /\ UNCHANGED <<kp, shown, link, file, cups, claims, reports, news, bounds>>

\* onClaim: the code of a job that is queued, or any other.
Answer(c) ==
  /\ c \in claims /\ c.reply = "none"
  /\ LET granted == c.code \in Jobs /\ job[c.code] = "queued"
         answer  == [c EXCEPT !.reply = IF granted THEN "granted" ELSE "refused"]
     IN  /\ job' = IF granted THEN [job EXCEPT ![c.code] = "printing"] ELSE job
         /\ claims' = (claims \ {c}) \cup (IF c.live /\ link THEN {answer} ELSE {})
  /\ UNCHANGED <<kp, shown, link, file, cups, reports, news, bounds>>

\* claimOwnedPrintingJob: only a job that prints takes a report.
ReportArrives(r) ==
  /\ r \in reports /\ reports' = reports \ {r}
  /\ job' = IF job[r[1]] = "printing" THEN [job EXCEPT ![r[1]] = r[2]] ELSE job
  /\ UNCHANGED <<kp, shown, link, file, cups, claims, news, bounds>>

Printer ==
  /\ cups = "active" /\ cups' \in {"stuck", "over"}
  /\ UNCHANGED <<kp, shown, link, file, api, bounds>>

------------------------------------------------------------------------------
\* What the thread does by itself.
Keypad == SubmitToCups \/ PrintEnds \/ Stall \/ ReportCompleted \/ ReportFailed \/ Shred \/ Return

AgentNext ==
  \/ TypeDigit \/ \E code \in Jobs \cup {WrongCode} : Submit(code)
  \/ \E c \in claims : Granted(c) \/ Refused(c) \/ Answer(c)
  \/ GiveUp \/ Downloaded \/ DownloadFails \/ CupsIsDown \/ Progress \/ PrinterFails \/ Keypad
  \/ Connect \/ Cut \/ Restart \/ \E on \in BOOLEAN : Maintenance(on)
  \/ \E j \in Jobs : NewsArrives(j) \/ Queue(j) \/ Expire(j)
  \/ \E r \in reports : ReportArrives(r)
  \/ Printer

\* The thread runs and the calls to CUPS return, messages arrive, the printer
\* ends its jobs or gets stuck, and the client reconnects.  Nothing is assumed
\* of downloads, which may last for ever, of customers and of administrators.
Fairness ==
  /\ WF_agentVars(Keypad) /\ WF_agentVars(Printer) /\ WF_agentVars(Connect)
  /\ WF_agentVars(\E c \in claims : Granted(c) \/ Refused(c) \/ Answer(c))
  /\ WF_agentVars(LiveClaims = {} /\ GiveUp)
  /\ WF_agentVars(\E j \in Jobs : NewsArrives(j))
  /\ WF_agentVars(\E r \in reports : ReportArrives(r))

AgentSpec == AgentInit /\ [][AgentNext]_agentVars /\ Fairness

------------------------------------------------------------------------------
(***************************************************************************)
(* Properties.                                                             *)
(***************************************************************************)

\* Types; the thread has a job exactly while it works on one.
TypeOK ==
  /\ kp \in [pc : Phases, job : Jobs \cup {NoJob}, end : Ends]
  /\ (kp.job # NoJob) <=> (kp.pc \in Working)
  /\ waiting \subseteq Jobs /\ screen \in {"idle", "enter-otp", "printing", "collect", "error"}
  /\ offline \in BOOLEAN /\ link \in BOOLEAN /\ file \subseteq Jobs
  /\ cups \in {"none", "active", "stuck", "over"} /\ claims \subseteq Claims
  /\ reports \subseteq Jobs \X {"completed", "failed"} /\ news \subseteq Jobs
  /\ job \in [Jobs -> {"new", "queued", "printing", "completed", "failed", "left"}]
  /\ troubles \in 0 .. MaxTroubles /\ commands \in 0 .. MaxCommands

\* "User files never linger": once a run is over, however it ended, its file
\* is gone; only a download that breaks off leaves something behind.
FilesAreShredded ==
  \A j \in file : kp = Broken \/ (kp.job = j /\ kp.pc # "pause")

\* While nobody is at the keypad, the screen asks for a code if a job that the
\* API has announced on this connection waits for one.
Asking == screen \in {"enter-otp", "error", "collect", "printing"}
WaitingIsAsked ==
  \A j \in Jobs : j \in waiting /\ job[j] = "queued" /\ j \notin news
                    /\ kp = Rest /\ link /\ commands = 0 => Asking

\* Once its file is there, what a claim has taken is reported, unless something
\* goes wrong from then on: a cut, a restart, CUPS down.  Earlier troubles are
\* no excuse, nor is a printer that fails, stalls or rejects the file.
Printing(j) == kp.job = j /\ kp.pc \in {"submit", "print", "printed", "failed"} /\ link
PrintingIsReported ==
  \A j \in Jobs, n \in 0 .. MaxTroubles :
    (Printing(j) /\ job[j] = "printing" /\ troubles = n)
      ~> (job[j] # "printing" \/ troubles > n)

\* However the printer behaves, whatever is lost, a claim and a run end: the
\* keypad is served again, unless an exception has ended its thread.  Only a
\* download, which has no time-out, may hold the thread.
Unattended == {"idle", "dead", "download"}
KeypadComesBack == (kp.pc \notin Unattended) ~> (kp.pc \in Unattended)
===============================================================================
