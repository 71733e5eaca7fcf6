------------------------------ MODULE AgentProofs ------------------------------
(***************************************************************************)
(* Two promises of the agent, for any jobs, troubles and commands: what it *)
(* has downloaded is shredded, and a screen in front of a waiting job asks *)
(* for its code.  The first one needs to know who may start a run: only a  *)
(* claim that the keypad's thread still waits for (ClaimsAgree), of which  *)
(* there is one at most, so that no run begins while a file is left.       *)
(***************************************************************************)
EXTENDS KioskAgent, TLAPS

\* A claim that is waited for, is the one that the thread waits for; and what the
\* API grants is a job.
ClaimsAgree ==
  /\ \A c \in claims : c.live => kp.pc = "asked"
  /\ \A c, d \in claims : c.live /\ d.live => c = d
  /\ \A c \in claims : c.reply = "granted" => c.code \in Jobs

\* While the thread is between two runs, tmpfs is empty; during a run it holds
\* the job of that run only.
FilesAgree ==
  \/ kp = Broken
  \/ IF kp.pc \in Working \ {"pause"} THEN file \subseteq {kp.job} ELSE file = {}

AgentInv == TypeOK /\ ClaimsAgree /\ FilesAgree

Threads == [pc : Phases, job : Jobs \cup {NoJob}, end : Ends]

\* The records that end a run, and the one that a break leaves.
LEMMA Constructed ==
  /\ Rest.pc = "idle" /\ Rest.job = NoJob /\ Rest.end = "none"
  /\ Dead.pc = "dead" /\ Dead.job = NoJob /\ Dead.end = "none"
  /\ Broken.pc = "dead" /\ Broken.job = NoJob /\ Broken.end = "failure"
  /\ Rest \in Threads /\ Dead \in Threads /\ Broken \in Threads
  BY DEF Rest, Dead, Broken, Threads, Phases, Ends

\* What the type invariant says of the thread.
LEMMA ThreadFacts ==
  ASSUME TypeOK
  PROVE  /\ kp \in Threads
         /\ kp.pc \in Phases /\ kp.end \in Ends
         /\ kp.pc \in Working => kp.job \in Jobs
         /\ kp.pc \notin Working => kp.job = NoJob
<1>1. kp \in Threads /\ ((kp.job # NoJob) <=> (kp.pc \in Working))
  BY DEF TypeOK, Threads
<1> QED BY <1>1 DEF Threads

\* The agent starts with an empty tmpfs and no claim.
LEMMA InitAgent == AgentInit => AgentInv
<1> SUFFICES ASSUME AgentInit PROVE AgentInv
  OBVIOUS
<1>1. kp \in Threads /\ ((kp.job # NoJob) <=> (kp.pc \in Working))
  BY Constructed DEF AgentInit, Working
<1>2. TypeOK
  <2>1. job \in [Jobs -> {"new", "queued", "printing", "completed", "failed", "left"}]
    BY DEF AgentInit
  <2>2. troubles \in 0 .. MaxTroubles /\ commands \in 0 .. MaxCommands
    BY AgentAssumption DEF AgentInit
  <2>3. /\ waiting \subseteq Jobs /\ screen \in {"idle", "enter-otp"}
        /\ offline \in BOOLEAN /\ link \in BOOLEAN /\ file \subseteq Jobs
        /\ cups = "none" /\ claims \subseteq Claims
        /\ reports \subseteq Jobs \X {"completed", "failed"} /\ news \subseteq Jobs
    BY DEF AgentInit
  <2> QED BY <1>1, <2>1, <2>2, <2>3 DEF TypeOK, Threads
<1>3. ClaimsAgree
  BY DEF AgentInit, ClaimsAgree
<1>4. FilesAgree
  BY Constructed DEF AgentInit, FilesAgree, Working
<1> QED BY <1>2, <1>3, <1>4 DEF AgentInv

(***************************************************************************)
(* The keypad's thread during a run.                                       *)
(***************************************************************************)

\* What does not change keeps its type.
LEMMA RestOfTypes ==
  ASSUME TypeOK, kp' \in Threads, (kp'.job # NoJob) <=> (kp'.pc \in Working),
         UNCHANGED <<waiting, offline, link, claims, news, job, commands>>,
         screen' \in {screen, "idle", "enter-otp", "printing", "collect", "error"},
         file' \subseteq Jobs, cups' \in {"none", "active", "stuck", "over"},
         reports' \subseteq Jobs \X {"completed", "failed"},
         troubles' \in 0 .. MaxTroubles
  PROVE  TypeOK'
  BY DEF TypeOK, Threads

\* A step of a run that goes on: the file stays that of the thread's job.
LEMMA RunGoesOn ==
  ASSUME AgentInv, kp.pc \in Working, kp' \in Threads,
         kp'.pc \in Working \ {"pause"}, kp'.job = kp.job,
         UNCHANGED <<waiting, offline, link, claims, file, news, job, commands>>,
         troubles' \in 0 .. MaxTroubles,
         screen' \in {screen, "idle", "enter-otp", "printing", "collect", "error"},
         cups' \in {"none", "active", "stuck", "over"},
         reports' \subseteq reports \cup {<<kp.job, "completed">>, <<kp.job, "failed">>}
  PROVE  AgentInv'
<1>1. TypeOK /\ kp.job \in Jobs
  BY ThreadFacts DEF AgentInv
<1>2. TypeOK'
  <2>1. kp'.job # NoJob
    BY <1>1, AgentAssumption
  <2>2. reports' \subseteq Jobs \X {"completed", "failed"}
    BY <1>1 DEF TypeOK
  <2>3. file' \subseteq Jobs
    BY <1>1 DEF TypeOK
  <2> QED BY <1>1, <2>1, <2>2, <2>3, RestOfTypes
<1>3. ClaimsAgree'
  BY DEF AgentInv, ClaimsAgree, Working
<1>4. FilesAgree'
  <2>1. kp # Broken
    BY Constructed DEF Working
  <2> QED BY <2>1 DEF AgentInv, FilesAgree
<1> QED BY <1>2, <1>3, <1>4 DEF AgentInv

\* The steps of a run move the thread on, with the job that it has.
LEMMA RunThread ==
  ASSUME TypeOK,
         \/ Downloaded \/ CupsIsDown \/ SubmitToCups \/ Progress \/ PrintEnds \/ Stall \/ PrinterFails
         \/ ReportCompleted \/ ReportFailed
  PROVE  kp' \in Threads /\ kp'.job = kp.job /\ kp'.pc \in Working \ {"pause"}
<1>1. \A pc \in Phases, end \in Ends :
        /\ [kp EXCEPT !.pc = pc] \in Threads
        /\ [kp EXCEPT !.pc = pc].pc = pc /\ [kp EXCEPT !.pc = pc].job = kp.job
        /\ [kp EXCEPT !.pc = pc, !.end = end] \in Threads
        /\ [kp EXCEPT !.pc = pc, !.end = end].pc = pc
        /\ [kp EXCEPT !.pc = pc, !.end = end].job = kp.job
  BY ThreadFacts DEF Threads
<1>2. \/ \E pc \in {"submit", "print", "printed", "failed"} : kp' = [kp EXCEPT !.pc = pc]
      \/ \E end \in {"success", "failure", "raised"} :
           kp' = [kp EXCEPT !.pc = "shred", !.end = end]
  BY DEF Downloaded, CupsIsDown, SubmitToCups, Progress, PrintEnds, Stall, PrinterFails,
     ReportCompleted, ReportFailed, Emitted
<1>3. CASE \E pc \in {"submit", "print", "printed", "failed"} : kp' = [kp EXCEPT !.pc = pc]
  <2>1. PICK pc \in {"submit", "print", "printed", "failed"} : kp' = [kp EXCEPT !.pc = pc]
    BY <1>3
  <2>2. pc \in Phases /\ pc \in Working \ {"pause"} /\ "none" \in Ends
    BY DEF Phases, Working, Ends
  <2> QED BY <1>1, <2>1, <2>2
<1>4. CASE \E end \in {"success", "failure", "raised"} :
             kp' = [kp EXCEPT !.pc = "shred", !.end = end]
  <2>1. PICK end \in {"success", "failure", "raised"} :
          kp' = [kp EXCEPT !.pc = "shred", !.end = end]
    BY <1>4
  <2>2. "shred" \in Phases /\ "shred" \in Working \ {"pause"} /\ end \in Ends
    BY DEF Phases, Working, Ends
  <2> QED BY <1>1, <2>1, <2>2
<1> QED BY <1>2, <1>3, <1>4

\* The steps between download and report.
LEMMA RunAgent ==
  ASSUME AgentInv,
         \/ Downloaded \/ CupsIsDown \/ SubmitToCups \/ Progress \/ PrintEnds \/ Stall \/ PrinterFails
         \/ ReportCompleted \/ ReportFailed
  PROVE  AgentInv'
<1> USE DEF shown, api
<1>0. TypeOK /\ kp \in Threads
  BY ThreadFacts DEF AgentInv
<1>1. kp.pc \in Working
  BY DEF Downloaded, CupsIsDown, SubmitToCups, Progress, PrintEnds, Stall, PrinterFails,
     ReportCompleted, ReportFailed, Working
<1>2. kp' \in Threads /\ kp'.job = kp.job /\ kp'.pc \in Working \ {"pause"}
  BY <1>0, RunThread
<1>3. /\ UNCHANGED <<waiting, offline, link, claims, file, news, job, commands>>
      /\ troubles' \in 0 .. MaxTroubles
  <2>1. CASE CupsIsDown
    BY <1>0, <2>1, AgentAssumption DEF CupsIsDown, Trouble, TypeOK
  <2>2. CASE ~CupsIsDown
    BY <1>0, <2>2 DEF Downloaded, SubmitToCups, Progress, PrintEnds, Stall, PrinterFails,
       ReportCompleted, ReportFailed, bounds, TypeOK
  <2> QED BY <2>1, <2>2
<1>4. /\ screen' \in {screen, "idle", "enter-otp", "printing", "collect", "error"}
      /\ cups' \in {"none", "active", "stuck", "over"}
      /\ reports' \subseteq reports \cup {<<kp.job, "completed">>, <<kp.job, "failed">>}
  BY <1>0 DEF TypeOK, Downloaded, CupsIsDown, SubmitToCups, Progress, PrintEnds, Stall, PrinterFails,
     ReportCompleted, ReportFailed
<1> QED BY <1>1, <1>2, <1>3, <1>4, RunGoesOn

\* A run ends: the file is shredded before the thread pauses, and only then is
\* the keypad served again.
LEMMA EndAgent ==
  ASSUME AgentInv, Shred \/ Return \/ DownloadFails
  PROVE  AgentInv'
<1> USE DEF shown, api, bounds
<1>0. TypeOK /\ kp \in Threads
  BY ThreadFacts DEF AgentInv
<1>1. kp.pc \in Working /\ kp.job \in Jobs /\ kp # Broken
  BY <1>0, ThreadFacts, Constructed DEF Shred, Return, DownloadFails, Working
<1>2. ClaimsAgree'
  <2>1. claims' = claims
    BY DEF Shred, Return, DownloadFails
  <2>2. \A c \in claims : ~c.live
    BY <1>1 DEF AgentInv, ClaimsAgree, Working
  <2> QED BY <2>1, <2>2 DEF AgentInv, ClaimsAgree
<1>3. CASE Shred
  <2>1. [kp EXCEPT !.pc = "pause"] \in Threads
    BY <1>0 DEF Threads, Phases, Working
  <2>2. kp'.pc = "pause" /\ kp'.job = kp.job /\ kp' \in Threads
    BY <1>0, <1>3, <2>1 DEF Shred, Threads
  <2>3. file \subseteq {kp.job}
    BY <1>1, <1>3 DEF AgentInv, FilesAgree, Shred, Working
  <2>4. file' = {}
    BY <1>3, <2>3 DEF Shred
  <2>5. TypeOK'
    <3>1. (kp'.job # NoJob) <=> (kp'.pc \in Working)
      BY <1>1, <2>2, AgentAssumption DEF Working
    <3> QED BY <1>0, <1>3, <2>2, <2>4, <3>1 DEF TypeOK, Shred, Threads
  <2>6. FilesAgree'
    BY <2>2, <2>4 DEF FilesAgree
  <2> QED BY <1>2, <2>5, <2>6 DEF AgentInv
<1>4. CASE Return
  <2>1. kp' = Dead \/ kp' = Rest
    BY <1>4 DEF Return
  <2>2. file' = {}
    BY <1>1, <1>4 DEF AgentInv, FilesAgree, Return
  <2>3. TypeOK'
    <3>1. kp' \in Threads /\ kp'.job = NoJob /\ kp'.pc \notin Working
      BY <2>1, Constructed DEF Working
    <3>2. waiting' \subseteq Jobs /\ screen' \in {"idle", "enter-otp"}
      BY <1>0, <1>4 DEF Return, AfterRun, TypeOK
    <3> QED BY <1>0, <1>4, <2>2, <3>1, <3>2 DEF TypeOK, Return, Threads
  <2>4. FilesAgree'
    BY <2>1, <2>2, Constructed DEF FilesAgree, Working
  <2> QED BY <1>2, <2>3, <2>4 DEF AgentInv
<1>5. CASE DownloadFails
  <2>1. kp' = Broken
    BY <1>5 DEF DownloadFails
  <2>2. TypeOK'
    <3>1. kp' \in Threads /\ kp'.job = NoJob /\ kp'.pc \notin Working
      BY <2>1, Constructed DEF Working
    <3>2. troubles' \in 0 .. MaxTroubles /\ commands' = commands
      BY <1>0, <1>5, AgentAssumption DEF DownloadFails, Trouble, TypeOK
    <3> QED BY <1>0, <1>5, <3>1, <3>2 DEF TypeOK, DownloadFails, Threads
  <2> QED BY <1>2, <2>1, <2>2 DEF AgentInv, FilesAgree, Broken, Dead, Rest
<1> QED BY <1>3, <1>4, <1>5

(***************************************************************************)
(* Keys and claims.                                                        *)
(***************************************************************************)

\* Typing, and a claim that is made when the thread is at rest.
LEMMA KeysAgent ==
  ASSUME AgentInv, TypeDigit \/ \E code \in Jobs \cup {WrongCode} : Submit(code)
  PROVE  AgentInv'
<1> USE DEF api, bounds
<1>0. TypeOK /\ kp \in Threads /\ kp = Rest
  BY ThreadFacts DEF AgentInv, TypeDigit, Submit
<1>1. kp # Broken /\ file = {} /\ \A c \in claims : ~c.live
  BY <1>0, Constructed DEF AgentInv, FilesAgree, ClaimsAgree, Working
<1>2. file' = {} /\ UNCHANGED <<waiting, offline, link, cups, reports, news, job,
                                troubles, commands>> /\ screen' = "enter-otp"
  BY <1>1 DEF TypeDigit, Submit
<1>3. CASE UNCHANGED <<kp, claims>>
  <2>1. TypeOK'
    BY <1>0, <1>2, <1>3 DEF TypeOK
  <2>2. ClaimsAgree' /\ FilesAgree'
    BY <1>0, <1>1, <1>2, <1>3, Constructed DEF AgentInv, ClaimsAgree, FilesAgree, Working
  <2> QED BY <2>1, <2>2 DEF AgentInv
<1>4. CASE kp' = Dead /\ UNCHANGED claims
  <2>1. kp' \in Threads /\ kp'.job = NoJob /\ kp'.pc \notin Working
    BY <1>4, Constructed DEF Working
  <2>2. TypeOK'
    BY <1>0, <1>2, <1>4, <2>1 DEF TypeOK, Threads
  <2>3. ClaimsAgree' /\ FilesAgree'
    BY <1>1, <1>2, <1>4, <2>1 DEF AgentInv, ClaimsAgree, FilesAgree
  <2> QED BY <2>2, <2>3 DEF AgentInv
<1>5. ASSUME NEW code \in Jobs \cup {WrongCode}, kp' = [kp EXCEPT !.pc = "asked"],
             claims' = claims \cup {[code |-> code, live |-> TRUE, reply |-> "none"]}
      PROVE  AgentInv'
  <2> DEFINE new == [code |-> code, live |-> TRUE, reply |-> "none"]
  <2>1. kp' \in Threads /\ kp'.job = NoJob /\ kp'.pc = "asked"
    BY <1>0, <1>5, Constructed DEF Threads, Phases
  <2>2. new \in Claims
    BY DEF Claims
  <2>3. TypeOK'
    <3>1. claims' \subseteq Claims
      BY <1>0, <1>5, <2>2 DEF TypeOK
    <3>2. (kp'.job # NoJob) <=> (kp'.pc \in Working)
      BY <2>1 DEF Working
    <3> QED BY <1>0, <1>2, <2>1, <3>1, <3>2 DEF TypeOK, Threads
  <2>4. ClaimsAgree'
    <3>1. \A c \in claims' : c = new \/ (c \in claims /\ ~c.live)
      BY <1>1, <1>5
    <3>2. new.reply # "granted"
      OBVIOUS
    <3> HIDE DEF new
    <3> QED BY <2>1, <3>1, <3>2 DEF AgentInv, ClaimsAgree
  <2>5. FilesAgree'
    BY <1>2, <2>1 DEF FilesAgree, Working
  <2> QED BY <2>3, <2>4, <2>5 DEF AgentInv
<1> QED BY <1>3, <1>4, <1>5 DEF TypeDigit, Submit

\* The end of a claim: a run begins with its file, or the thread is at rest.
LEMMA AnsweredAgent ==
  ASSUME AgentInv, NEW c \in claims, Granted(c) \/ Refused(c)
  PROVE  AgentInv'
<1> USE DEF shown, api, bounds
<1>0. TypeOK /\ kp \in Threads /\ kp.pc = "asked" /\ kp.job = NoJob
  BY ThreadFacts DEF AgentInv, ClaimsAgree, Granted, Refused, Working
<1>1. file = {}
  BY <1>0, Constructed DEF AgentInv, FilesAgree, Working
<1>2. claims' = claims \ {c} /\ \A d \in claims' : ~d.live
  BY DEF AgentInv, ClaimsAgree, Granted, Refused
<1>3. ClaimsAgree'
  BY <1>2 DEF AgentInv, ClaimsAgree
<1>4. CASE Granted(c)
  <2>1. c.code \in Jobs
    BY <1>4 DEF Granted, AgentInv, ClaimsAgree
  <2>2. kp' \in Threads /\ kp'.pc = "download" /\ kp'.job = c.code
    BY <1>0, <1>4, <2>1 DEF Granted, Threads, Phases, Working
  <2>3. file' = {c.code}
    BY <1>1, <1>4 DEF Granted
  <2>4. TypeOK'
    <3>1. (kp'.job # NoJob) <=> (kp'.pc \in Working)
      BY <2>1, <2>2, AgentAssumption DEF Working
    <3>2. claims' \subseteq Claims /\ file' \subseteq Jobs
      BY <1>0, <1>2, <2>1, <2>3 DEF TypeOK
    <3> QED BY <1>0, <1>4, <2>2, <3>1, <3>2 DEF TypeOK, Granted, Threads
  <2>5. FilesAgree'
    BY <2>2, <2>3 DEF FilesAgree, Working
  <2> QED BY <1>3, <2>4, <2>5 DEF AgentInv
<1>5. CASE Refused(c)
  <2>1. kp' \in Threads /\ kp'.pc = "idle" /\ kp'.job = NoJob /\ file' = {}
    BY <1>1, <1>5, Constructed DEF Refused
  <2>2. TypeOK'
    <3>1. (kp'.job # NoJob) <=> (kp'.pc \in Working)
      BY <2>1 DEF Working
    <3>2. claims' \subseteq Claims
      BY <1>0, <1>2 DEF TypeOK
    <3> QED BY <1>0, <1>5, <2>1, <3>1, <3>2 DEF TypeOK, Refused, Threads
  <2>3. FilesAgree'
    BY <2>1 DEF FilesAgree, Working
  <2> QED BY <1>3, <2>2, <2>3 DEF AgentInv
<1> QED BY <1>4, <1>5

\* Waiting for an answer ends: no claim is waited for any more.
LEMMA GiveUpAgent ==
  ASSUME AgentInv, GiveUp
  PROVE  AgentInv'
<1> USE DEF bounds
<1>0. TypeOK /\ kp.pc = "asked"
  BY DEF AgentInv, GiveUp
<1>1. file = {}
  BY <1>0, Constructed DEF AgentInv, FilesAgree, Working
<1>2. \A c \in claims' : /\ c \in Claims /\ ~c.live
                         /\ c.reply = "granted" => c.code \in Jobs
  <2>1. ASSUME NEW c \in claims'
        PROVE  \/ c \in claims \ LiveClaims
               \/ \E d \in claims : d.reply = "none" /\ c = [d EXCEPT !.live = FALSE]
    BY <2>1 DEF GiveUp, LiveClaims
  <2>2. ASSUME NEW d \in claims, d.reply = "none"
        PROVE  LET c == [d EXCEPT !.live = FALSE]
               IN  c \in Claims /\ ~c.live /\ c.reply = "none"
    BY <1>0, <2>2 DEF TypeOK, Claims
  <2>3. ASSUME NEW c \in claims \ LiveClaims
        PROVE  c \in Claims /\ ~c.live /\ (c.reply = "granted" => c.code \in Jobs)
    BY <1>0 DEF AgentInv, ClaimsAgree, LiveClaims, TypeOK
  <2> QED BY <2>1, <2>2, <2>3
<1>3. kp' \in Threads /\ kp'.pc = "idle" /\ kp'.job = NoJob /\ file' = {}
  BY <1>1, Constructed DEF GiveUp
<1>4. TypeOK'
  <2>1. troubles' \in 0 .. MaxTroubles /\ commands' = commands
    BY <1>0, AgentAssumption DEF GiveUp, Trouble, TypeOK
  <2>2. (kp'.job # NoJob) <=> (kp'.pc \in Working)
    BY <1>3 DEF Working
  <2> QED BY <1>0, <1>2, <1>3, <2>1, <2>2 DEF TypeOK, GiveUp, Threads
<1>5. ClaimsAgree'
  BY <1>2 DEF ClaimsAgree
<1>6. FilesAgree'
  BY <1>3 DEF FilesAgree, Working
<1> QED BY <1>4, <1>5, <1>6 DEF AgentInv

(***************************************************************************)
(* The connection, restarts, and the API.                                  *)
(***************************************************************************)

\* Events that leave the thread and tmpfs alone, and add no claim.
LEMMA Beside ==
  ASSUME AgentInv, UNCHANGED <<kp, file>>, TypeOK',
         \A c \in claims' : c \in claims \/ (~c.live /\ c.reply = "none")
  PROVE  AgentInv'
<1>1. ClaimsAgree'
  BY DEF AgentInv, ClaimsAgree
<1>2. FilesAgree'
  BY DEF AgentInv, FilesAgree, Broken, Dead, Rest
<1> QED BY <1>1, <1>2 DEF AgentInv

\* Connections come and go; news, commands, reports and the printer move.
LEMMA EventsAgent ==
  ASSUME AgentInv,
         \/ Connect \/ Cut \/ Printer
         \/ \E on \in BOOLEAN : Maintenance(on)
         \/ \E j \in Jobs : NewsArrives(j) \/ Queue(j) \/ Expire(j)
         \/ \E r \in reports : ReportArrives(r)
  PROVE  AgentInv'
<1> USE DEF shown, api, bounds
<1>0. TypeOK
  BY DEF AgentInv
<1>1. CASE Connect
  <2>1. TypeOK'
    BY <1>0, <1>1 DEF TypeOK, Connect
  <2> QED BY <1>1, <2>1, Beside DEF Connect
<1>2. CASE Cut
  <2>1. claims' \subseteq claims
    BY <1>2 DEF Cut
  <2>2. troubles' \in 0 .. MaxTroubles /\ commands' = commands
    BY <1>0, <1>2, AgentAssumption DEF Cut, Trouble, TypeOK
  <2>3. reports' \subseteq reports
    BY <1>2 DEF Cut
  <2>4. TypeOK'
    BY <1>0, <1>2, <2>1, <2>2, <2>3 DEF TypeOK, Cut
  <2> QED BY <1>2, <2>1, <2>4, Beside DEF Cut
<1>3. CASE Printer
  <2>1. TypeOK'
    BY <1>0, <1>3 DEF TypeOK, Printer
  <2> QED BY <1>3, <2>1, Beside DEF Printer
<1>4. ASSUME NEW on \in BOOLEAN, Maintenance(on) PROVE AgentInv'
  <2>1. commands' \in 0 .. MaxCommands
    BY <1>0, <1>4, AgentAssumption DEF Maintenance, TypeOK
  <2>2. TypeOK'
    BY <1>0, <1>4, <2>1 DEF TypeOK, Maintenance
  <2> QED BY <1>4, <2>2, Beside DEF Maintenance
<1>5. ASSUME NEW j \in Jobs, NewsArrives(j) \/ Queue(j) \/ Expire(j) PROVE AgentInv'
  <2>1. job' \in [Jobs -> {"new", "queued", "printing", "completed", "failed", "left"}]
    BY <1>0, <1>5 DEF TypeOK, NewsArrives, Queue, Expire
  <2>2. TypeOK'
    BY <1>0, <1>5, <2>1 DEF TypeOK, NewsArrives, Queue, Expire
  <2> QED BY <1>5, <2>2, Beside DEF NewsArrives, Queue, Expire
<1>6. ASSUME NEW r \in reports, ReportArrives(r) PROVE AgentInv'
  <2>1. job' \in [Jobs -> {"new", "queued", "printing", "completed", "failed", "left"}]
    BY <1>0, <1>6 DEF TypeOK, ReportArrives
  <2>2. TypeOK'
    BY <1>0, <1>6, <2>1 DEF TypeOK, ReportArrives
  <2> QED BY <1>6, <2>2, Beside DEF ReportArrives
<1> QED BY <1>1, <1>2, <1>3, <1>4, <1>5, <1>6

\* The API answers: what it grants is a job, and the claim stays the only one.
LEMMA AnswerAgent ==
  ASSUME AgentInv, NEW c \in claims, Answer(c)
  PROVE  AgentInv'
<1> USE DEF shown, bounds
<1> DEFINE granted == c.code \in Jobs /\ job[c.code] = "queued"
           answer  == [c EXCEPT !.reply = IF granted THEN "granted" ELSE "refused"]
<1>0. TypeOK /\ c \in Claims
  BY DEF AgentInv, TypeOK
<1>1. /\ answer \in Claims /\ answer.live = c.live
      /\ answer.reply = "granted" => answer.code \in Jobs
  BY <1>0 DEF Claims
<1>2. /\ UNCHANGED <<kp, waiting, screen, offline, link, file, cups, reports, news,
                     troubles, commands>>
      /\ job' = IF granted THEN [job EXCEPT ![c.code] = "printing"] ELSE job
      /\ claims' = (claims \ {c}) \cup (IF c.live /\ link THEN {answer} ELSE {})
  BY DEF Answer
<1> HIDE DEF granted, answer
<1>3. \A d \in claims' : (d \in claims /\ d # c) \/ (d = answer /\ c.live)
  BY <1>2
<1>4. TypeOK'
  <2>1. claims' \subseteq Claims
    BY <1>0, <1>1, <1>2 DEF TypeOK
  <2>2. job' \in [Jobs -> {"new", "queued", "printing", "completed", "failed", "left"}]
    BY <1>0, <1>2 DEF TypeOK
  <2> QED BY <1>0, <1>2, <2>1, <2>2 DEF TypeOK
<1>5. ClaimsAgree'
  BY <1>1, <1>2, <1>3 DEF AgentInv, ClaimsAgree
<1>6. FilesAgree'
  BY <1>2 DEF AgentInv, FilesAgree, Broken, Dead, Rest
<1> QED BY <1>4, <1>5, <1>6 DEF AgentInv

\* The agent starts again: cleanup_tmp empties tmpfs, nobody waits for a claim.
LEMMA RestartAgent ==
  ASSUME AgentInv, Restart
  PROVE  AgentInv'
<1>0. TypeOK
  BY DEF AgentInv
<1>1. PICK lost \in SUBSET claims :
        claims' = {[c EXCEPT !.live = FALSE] : c \in {d \in claims \ lost : d.reply = "none"}}
  BY DEF Restart
<1>2. \A c \in claims' : c \in Claims /\ ~c.live /\ c.reply = "none"
  <2>1. \A d \in claims : d.reply = "none" =>
          LET c == [d EXCEPT !.live = FALSE]
          IN  c \in Claims /\ ~c.live /\ c.reply = "none"
    BY <1>0 DEF TypeOK, Claims
  <2> QED BY <1>1, <2>1
<1>3. kp' \in Threads /\ kp'.pc = "idle" /\ kp'.job = NoJob /\ file' = {}
  BY Constructed DEF Restart
<1>4. TypeOK'
  <2>1. troubles' \in 0 .. MaxTroubles /\ commands' = commands
    BY <1>0, AgentAssumption DEF Restart, Trouble, TypeOK
  <2>2. (kp'.job # NoJob) <=> (kp'.pc \in Working)
    BY <1>3 DEF Working
  <2>3. claims' \subseteq Claims /\ reports' \subseteq reports
    BY <1>2 DEF Restart
  <2> QED BY <1>0, <1>3, <2>1, <2>2, <2>3 DEF TypeOK, Restart, Threads
<1>5. ClaimsAgree'
  BY <1>2 DEF ClaimsAgree
<1>6. FilesAgree'
  BY <1>3 DEF FilesAgree, Working
<1> QED BY <1>4, <1>5, <1>6 DEF AgentInv

(***************************************************************************)
(* The theorems.                                                           *)
(***************************************************************************)

\* Every step of the agent, the API and the printer keeps the invariant.
LEMMA NextAgent == AgentInv /\ [AgentNext]_agentVars => AgentInv'
<1> SUFFICES ASSUME AgentInv, [AgentNext]_agentVars PROVE AgentInv'
  OBVIOUS
<1>1. CASE UNCHANGED agentVars
  BY <1>1 DEF agentVars, AgentInv, TypeOK, ClaimsAgree, FilesAgree, Broken, Dead, Rest
<1>2. CASE AgentNext
  BY <1>2, RunAgent, EndAgent, KeysAgent, AnsweredAgent, GiveUpAgent, EventsAgent,
     AnswerAgent, RestartAgent DEF AgentNext, Keypad
<1> QED BY <1>1, <1>2

\* At every moment of every run the invariant holds.
THEOREM AgentIsSound == AgentSpec => []AgentInv
<1>1. AgentInit => AgentInv
  BY InitAgent
<1>2. AgentInv /\ [AgentNext]_agentVars => AgentInv'
  BY NextAgent
<1> QED BY <1>1, <1>2, PTL DEF AgentSpec

\* A customer's file is gone from tmpfs when its run is over, however it ended,
\* for any jobs and any number of troubles; only a broken download leaves one.
THEOREM NoFileIsLeft == AgentSpec => []FilesAreShredded
<1>1. AgentInv => FilesAreShredded
  BY Constructed DEF AgentInv, FilesAgree, FilesAreShredded, Working
<1> QED BY <1>1, AgentIsSound, PTL

\* A screen that asks keeps asking while the job waits, and whenever the thread
\* comes to rest the screen is chosen anew.
LEMMA AskingStays ==
  ASSUME AgentInv, WaitingIsAsked, [AgentNext]_agentVars
  PROVE  WaitingIsAsked'
<1> USE DEF shown, api, bounds, Asking
<1>0. TypeOK /\ Rest.pc = "idle" /\ Dead # Rest
  BY Constructed DEF AgentInv
<1>1. CASE UNCHANGED agentVars
  BY <1>1 DEF agentVars, WaitingIsAsked
<1>2. CASE \/ Downloaded \/ CupsIsDown \/ SubmitToCups \/ Progress \/ PrintEnds \/ Stall \/ PrinterFails
           \/ ReportCompleted \/ ReportFailed \/ Shred \/ DownloadFails
  <2>1. kp'.pc # "idle"
    <3>1. CASE Shred
      <4>1. kp \in Threads
        BY <1>0, ThreadFacts
      <4> QED BY <3>1, <4>1 DEF Shred, Threads
    <3>2. CASE DownloadFails
      BY <3>2, Constructed DEF DownloadFails
    <3> QED BY <1>0, <1>2, <3>1, <3>2, RunThread DEF Working
  <2> QED BY <1>0, <2>1 DEF WaitingIsAsked
<1>3. CASE Return
  BY <1>3 DEF Return, AfterRun, WaitingIsAsked
<1>4. CASE TypeDigit \/ \E code \in Jobs \cup {WrongCode} : Submit(code)
  BY <1>4 DEF TypeDigit, Submit, WaitingIsAsked
<1>5. ASSUME NEW c \in claims, Granted(c) PROVE WaitingIsAsked'
  <2>1. kp'.pc = "download"
    BY <1>0, <1>5, ThreadFacts DEF Granted, Threads
  <2> QED BY <1>0, <2>1 DEF WaitingIsAsked
<1>6. ASSUME NEW c \in claims, Refused(c) PROVE WaitingIsAsked'
  BY <1>6 DEF Refused, WaitingIsAsked
<1>7. CASE GiveUp \/ Cut
  BY <1>7 DEF GiveUp, Cut, WaitingIsAsked
<1>8. CASE Connect
  BY <1>8 DEF Connect, WaitingIsAsked
<1>9. CASE Restart
  BY <1>9 DEF Restart, WaitingIsAsked
<1>10. ASSUME NEW j \in Jobs, NewsArrives(j) \/ Queue(j) \/ Expire(j) PROVE WaitingIsAsked'
  <2>1. CASE NewsArrives(j)
    BY <2>1 DEF NewsArrives, WaitingIsAsked
  <2>2. CASE Queue(j) \/ Expire(j)
    <3>1. \A i \in Jobs : i # j => job'[i] = job[i]
      BY <1>0, <2>2 DEF Queue, Expire, TypeOK
    <3>2. Expire(j) => job'[j] = "left"
      BY <1>0 DEF Expire, TypeOK
    <3> QED BY <2>2, <3>1, <3>2 DEF Queue, Expire, WaitingIsAsked
  <2> QED BY <1>10, <2>1, <2>2
<1>11. ASSUME NEW c \in claims, Answer(c) PROVE WaitingIsAsked'
  <2>1. \A i \in Jobs : job'[i] = "queued" => job[i] = "queued"
    BY <1>0, <1>11 DEF Answer, TypeOK
  <2>2. UNCHANGED <<kp, waiting, screen, link, news, commands>>
    BY <1>11 DEF Answer
  <2> QED BY <2>1, <2>2 DEF WaitingIsAsked
<1>12. ASSUME NEW r \in reports, ReportArrives(r) PROVE WaitingIsAsked'
  <2>1. \A i \in Jobs : job'[i] = "queued" => job[i] = "queued"
    BY <1>0, <1>12 DEF ReportArrives, TypeOK
  <2>2. UNCHANGED <<kp, waiting, screen, link, news, commands>>
    BY <1>12 DEF ReportArrives
  <2> QED BY <2>1, <2>2 DEF WaitingIsAsked
<1>13. ASSUME NEW on \in BOOLEAN, Maintenance(on) PROVE WaitingIsAsked'
  <2>1. commands' # 0
    BY <1>0, <1>13, AgentAssumption DEF Maintenance, TypeOK
  <2> QED BY <2>1 DEF WaitingIsAsked
<1>14. CASE Printer
  BY <1>14 DEF Printer, WaitingIsAsked
<1> QED BY <1>1, <1>2, <1>3, <1>4, <1>5, <1>6, <1>7, <1>8, <1>9, <1>10, <1>11, <1>12,
           <1>13, <1>14 DEF AgentNext, Keypad

\* While the keypad is free and the kiosk is connected, a job that waits and has
\* been announced is never behind the idle screen, for any number of jobs.
THEOREM CodeIsAskedFor == AgentSpec => []WaitingIsAsked
<1>1. AgentInit => WaitingIsAsked
  BY DEF AgentInit, WaitingIsAsked
<1>2. AgentInv /\ WaitingIsAsked /\ [AgentNext]_agentVars => WaitingIsAsked'
  BY AskingStays
<1> QED BY <1>1, <1>2, AgentIsSound, PTL DEF AgentSpec

\* Types are kept, for any jobs and any number of troubles and commands.
THEOREM AgentTypes == AgentSpec => []TypeOK
<1>1. AgentInv => TypeOK
  BY DEF AgentInv
<1> QED BY <1>1, AgentIsSound, PTL
===============================================================================
