-------------------------------- MODULE Claims --------------------------------
(***************************************************************************)
(* The kiosk's side of a job: job:claim, job:completed and job:failed of   *)
(* KioskGateway, and the agent that claims a job and prints it.            *)
(***************************************************************************)
EXTENDS KioskData

BEYOND == <<money, disk, codes, time, restarts>>

(***************************************************************************)
(* job:claim.                                                              *)
(***************************************************************************)
\* Mutant: a code on the row is enough.
WaitingAnyState(j) ==
  /\ ~late[j]
  /\ job[j].otp # NoCode /\ job[j].tries < MaxAttempts

Waiting(j) ==
  /\ job[j].state = "QUEUED" /\ ~late[j]
  /\ job[j].otp # NoCode /\ job[j].tries < MaxAttempts

Candidates(k) == {j \in Jobs : KioskOf[j] = k /\ Waiting(j)}

\* Bound on the print runs that agents hold at once.
Runs(j) == links[j]["file"] + links[j]["print"] + printing[j]
FewRuns == \A j \in Jobs : Runs(j) < MaxRuns

Oldest(S) == CHOOSE j \in S : \A i \in S : j <= i

\* The row as it was read decides; take and charge write what follows.
TakeFrame(j)   == [Arrive("claim", "take", j) EXCEPT !.held = Holding(j)]
ChargeFrame(j) == [Arrive("claim", "charge", j) EXCEPT !.n = job[j].tries + 1]

\* With a jobId: only that job, and only at its own kiosk.
StartClaimJob(r, j, c) ==
  /\ "claimJob" \in Ops /\ Idle(r) /\ FewRuns
  /\ Waiting(j)
  /\ SetFrame(r, IF c = job[j].otp THEN TakeFrame(j) ELSE ChargeFrame(j))
  /\ UNCHANGED <<job, agent, BEYOND>>

\* By code alone: the digits select the job; wrong digits cost the oldest
\* waiting job an attempt.
StartClaimCode(r, k, c) ==
  LET matches == {j \in Candidates(k) : job[j].otp = c} IN
  /\ "claimCode" \in Ops /\ Idle(r) /\ FewRuns
  /\ Candidates(k) # {}
  /\ SetFrame(r, IF matches # {} THEN TakeFrame(Oldest(matches))
                 ELSE ChargeFrame(Oldest(Candidates(k))))
  /\ UNCHANGED <<job, agent, BEYOND>>

Charge(r) ==
  /\ At(r, "charge")
  /\ job' = [job EXCEPT ![call[r].job].tries = call[r].n]
  /\ Finish(r)
  /\ UNCHANGED <<agent, BEYOND>>

Take(r) ==
  /\ At(r, "take")
  /\ job' = [job EXCEPT ![call[r].job].state = "PRINTING",
                        ![call[r].job].otp = NoCode]
  /\ Goto(r, "handOver")
  /\ UNCHANGED <<agent, BEYOND>>

\* The acknowledgement carries a URL for the print artifact, or else for the
\* upload; with neither it says FILE_GONE.
HandOver(r) ==
  LET j == call[r].job
      w == IF "print" \in call[r].held[j] THEN "print" ELSE "file"
  IN
  /\ At(r, "handOver")
  /\ links' = IF call[r].held[j] = {} THEN links
              ELSE [links EXCEPT ![j][w] = @ + 1]
  /\ Finish(r)
  /\ UNCHANGED <<job, printing, released, BEYOND>>

(***************************************************************************)
(* The agent downloads with the URL (GET /files/:jobId needs the key on    *)
(* the row and the object) and prints, or its run ends there; it reports   *)
(* each print run once: completed, failed, or, when it is killed or the    *)
(* message is lost, not at all.                                            *)
(***************************************************************************)
Download(j, w) ==
  /\ links[j][w] > 0
  /\ links' = [links EXCEPT ![j][w] = @ - 1]
  /\ IF w \in job[j].keys \cap disk[j]
     THEN /\ printing' = [printing EXCEPT ![j] = @ + 1]
          /\ released' = [released EXCEPT ![j] = TRUE]
     ELSE UNCHANGED <<printing, released>>
  /\ UNCHANGED <<job, call, BEYOND>>

ReportTo(r, j, op, pc) ==
  /\ op \in Ops /\ Idle(r)
  /\ printing[j] > 0
  /\ printing' = [printing EXCEPT ![j] = @ - 1]
  /\ IF job[j].state = "PRINTING"
     THEN SetFrame(r, [Arrive(op, pc, j) EXCEPT !.held = Holding(j)])
     ELSE UNCHANGED call
  /\ UNCHANGED <<job, links, released, BEYOND>>

StartCompleted(r, j) == ReportTo(r, j, "completed", "complete")
\* Mutant: a failed print is recorded without asking for a refund.
StartFailedUnrefunded(r, j) == ReportTo(r, j, "failed", "saveFailed")

StartFailed(r, j)    == ReportTo(r, j, "failed", "refundRead")

LoseAgent(j) ==
  /\ "loseAgent" \in Ops
  /\ printing[j] > 0
  /\ printing' = [printing EXCEPT ![j] = @ - 1]
  /\ UNCHANGED <<job, links, released, call, BEYOND>>

\* Mutant: the report of a finished print is logged and no more.
CompleteNothing(r) ==
  /\ At(r, "complete")
  /\ Goto(r, "delete")
  /\ UNCHANGED <<job, agent, BEYOND>>

Complete(r) ==
  /\ At(r, "complete")
  /\ job' = [job EXCEPT ![call[r].job].state = "COMPLETED",
                        ![call[r].job].otp = NoCode]
  /\ Goto(r, "delete")
  /\ UNCHANGED <<agent, BEYOND>>

\* The refund did not finish (or there was none to make).
SaveFailed(r) ==
  /\ At(r, "saveFailed")
  /\ job' = [job EXCEPT ![call[r].job].state = "FAILED"]
  /\ Goto(r, "delete")
  /\ UNCHANGED <<agent, BEYOND>>

ClaimStart(r) ==
  \/ \E j \in Jobs, c \in Otps : StartClaimJob(r, j, c)
  \/ \E k \in Kiosks, c \in Otps : StartClaimCode(r, k, c)
  \/ \E j \in Jobs : StartCompleted(r, j) \/ StartFailed(r, j)

ClaimStep(r) ==
  \/ Charge(r) \/ Take(r) \/ HandOver(r) \/ Complete(r) \/ SaveFailed(r)
==============================================================================
