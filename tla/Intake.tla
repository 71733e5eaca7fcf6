-------------------------------- MODULE Intake --------------------------------
(***************************************************************************)
(* From an empty table to a priced document: POST /jobs, PUT /jobs/:id/    *)
(* file, POST /jobs/:id/process and POST /jobs/:id/price of JobsService.   *)
(***************************************************************************)
EXTENDS KioskData

UNTOUCHED == <<money, codes, time, agent, restarts>>

(* POST /jobs: the row is created without a file. *)
Create(j) ==
  /\ "create" \in Ops
  /\ job[j].state = "NONE"
  /\ job' = [job EXCEPT ![j].state = "UPLOADED"]
  /\ UNCHANGED <<disk, call, UNTOUCHED>>

(* PUT /jobs/:id/file: the guard reads the row, then the body is stored,
   then fileKey is written. *)
StartUpload(r, j) ==
  /\ "saveUpload" \in Ops /\ Idle(r)
  /\ job[j].state = "UPLOADED"
  /\ SetFrame(r, Arrive("saveUpload", "storeUpload", j))
  /\ UNCHANGED <<job, disk, UNTOUCHED>>

StoreUpload(r) ==
  /\ At(r, "storeUpload")
  /\ disk' = [disk EXCEPT ![call[r].job] = @ \cup {"file"}]
  /\ Goto(r, "saveUpload")
  /\ UNCHANGED <<job, UNTOUCHED>>

SaveUpload(r) ==
  /\ At(r, "saveUpload")
  /\ job' = [job EXCEPT ![call[r].job].keys = @ \cup {"file"}]
  /\ Finish(r)
  /\ UNCHANGED <<disk, UNTOUCHED>>

(* POST /jobs/:id/process: read the file, convert a DOCX, count the pages. *)
StartProcess(r, j) ==
  /\ "process" \in Ops /\ Idle(r)
  /\ job[j].state = "UPLOADED" /\ "file" \in job[j].keys
  /\ SetFrame(r, Arrive("process", "inspect", j))
  /\ UNCHANGED <<job, disk, UNTOUCHED>>

\* The file may be gone, a document whose inspection fails for a reason of its
\* own (the error goes on) or that cannot be printed (an image is not looked at
\* here), or ready for conversion or for its page count.
Inspect(r) ==
  LET j == call[r].job IN
  /\ At(r, "inspect")
  /\ \/ ("file" \notin disk[j] \/ TypeOf[j] # "image") /\ Finish(r)
     \/ "file" \in disk[j] /\ TypeOf[j] # "image" /\ Goto(r, "failJob")
     \/ "file" \in disk[j] /\ TypeOf[j] = "docx" /\ Goto(r, "storeArtifact")
     \/ "file" \in disk[j] /\ TypeOf[j] # "docx" /\ Goto(r, "savePages")
  /\ UNCHANGED <<job, disk, UNTOUCHED>>

\* fail(): the document cannot be printed.
FailJob(r) ==
  /\ At(r, "failJob")
  /\ job' = [job EXCEPT ![call[r].job].state = "FAILED"]
  /\ Finish(r)
  /\ UNCHANGED <<disk, UNTOUCHED>>

\* saveArtifact(): the converted document, or the composed photo sheet.
StoreArtifact(r) ==
  LET j == call[r].job IN
  /\ At(r, "storeArtifact")
  /\ disk' = [disk EXCEPT ![j] = @ \cup {"print"}]
  /\ SetFrame(r, [call[r] EXCEPT
                    !.held[j] = @ \cup {"print"},
                    !.pc = IF call[r].op = "process" THEN "savePages"
                                                     ELSE "savePrice"])
  /\ UNCHANGED <<job, UNTOUCHED>>

SavePages(r) ==
  LET j == call[r].job IN
  /\ At(r, "savePages")
  /\ job' = [job EXCEPT ![j].state = "PRICED",
                        ![j].keys = @ \cup (call[r].held[j] \cap {"print"})]
  /\ Finish(r)
  /\ UNCHANGED <<disk, UNTOUCHED>>

\* Mutant: POST /price looks only for a document that has been processed.
StartPriceAnyTime(r, j, p, photo) ==
  /\ "price" \in Ops /\ Idle(r)
  /\ job[j].state \notin {"NONE", "UPLOADED"}
  /\ SetFrame(r, [Arrive("price", "savePrice", j) EXCEPT !.n = p])
  /\ UNCHANGED <<job, disk, UNTOUCHED>>

(* POST /jobs/:id/price.  A photo mode composes the print sheet from the
   stored file first; document mode needs a PDF or an artifact to print. *)
StartPrice(r, j, p, photo) ==
  LET f == [Arrive("price", "savePrice", j) EXCEPT
              !.n = p,
              !.held = [NoFiles EXCEPT ![j] = job[j].keys \cap {"print"}]]
  IN
  /\ "price" \in Ops /\ Idle(r)
  /\ job[j].state \in {"PRICED", "AWAITING_PAYMENT"}
  /\ photo => TypeOf[j] # "pdf"
  /\ ~photo => TypeOf[j] = "pdf" \/ "print" \in job[j].keys
  /\ SetFrame(r, IF photo /\ "file" \in job[j].keys
                 THEN [f EXCEPT !.pc = "compose"] ELSE f)
  /\ UNCHANGED <<job, disk, UNTOUCHED>>

\* Reading or composing the photo may fail; the price is then not saved.
Compose(r) ==
  /\ At(r, "compose")
  /\ \/ Finish(r)
     \/ "file" \in disk[call[r].job] /\ Goto(r, "storeArtifact")
  /\ UNCHANGED <<job, disk, UNTOUCHED>>

SavePrice(r) ==
  LET j == call[r].job IN
  /\ At(r, "savePrice")
  /\ job' = [job EXCEPT ![j].state = "AWAITING_PAYMENT",
                        ![j].price = call[r].n,
                        ![j].keys = (@ \ {"print"}) \cup call[r].held[j]]
  /\ Finish(r)
  /\ UNCHANGED <<disk, UNTOUCHED>>

IntakeStart(r) ==
  \E j \in Jobs :
    \/ StartUpload(r, j)
    \/ StartProcess(r, j)
    \/ \E p \in Prices, photo \in BOOLEAN : StartPrice(r, j, p, photo)

IntakeStep(r) ==
  \/ StoreUpload(r) \/ SaveUpload(r)
  \/ Inspect(r) \/ FailJob(r) \/ StoreArtifact(r) \/ SavePages(r)
  \/ Compose(r) \/ SavePrice(r)
==============================================================================
