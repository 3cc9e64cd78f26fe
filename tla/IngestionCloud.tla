---- MODULE IngestionCloud ----
(***************************************************************************)
(* The ingestion-service in production: the upload API publishes to an SQS *)
(* standard queue, and an EventBridge pipe starts a Step Functions         *)
(* execution for each delivery, fire and forget. Deliveries are at least   *)
(* once; messages and executions outlive the API process.                  *)
(***************************************************************************)
EXTENDS UploadApi, StepFunctions

vars == <<storeVars, apiVars, cloudVars>>

(* Tables, requests, tasks and executions have the shapes the code gives   *)
(* them: whole-file rejections apart from row rejections.                  *)
TypeOK == StoreTypeOK /\ ApiTypeOK /\ CloudTypeOK

Init == StoreInit /\ ApiInit /\ CloudInit

Readable == Files \subseteq stored

(* The queue may deliver a message again after it has been delivered.      *)
StartExecution(r) ==
  /\ ExecAt(r, "idle")
  /\ pending > 0
  /\ pending' \in {pending - 1, pending}
  /\ ExecGoto(r, "markProcessing")
  /\ UNCHANGED <<storeVars, req, route, hasZip, stored, chunkVars>>

ApiCrash ==
  /\ "crash" \in Faults
  /\ KillRequests
  /\ UNCHANGED <<storeVars, route, hasZip, stored, pending, cloudVars>>

Execute(r) == ExecStep(r, Readable) /\ UNCHANGED apiVars

Environment ==
  \/ OtherJobs /\ UNCHANGED <<apiVars, cloudVars>>
  \/ \E r \in Runs : ExecFault(r) /\ UNCHANGED apiVars
  \/ ApiCrash

Serve(q) == RequestStep(q) /\ UNCHANGED cloudVars
Deliver  == \E r \in Runs : StartExecution(r)

Next ==
  \/ \E q \in Requests : Serve(q)
  \/ (\E f \in Files : BrowserPut(f)) /\ UNCHANGED cloudVars
  \/ Deliver
  \/ \E r \in Runs : Execute(r)
  \/ Environment

Spec == Init /\ [][Next]_vars

(* The queue delivers, the state machine goes on, a handler resumes.       *)
Fairness ==
  /\ \A q \in Requests : WF_vars(Serve(q) /\ req[q] # "idle")
  /\ WF_vars(Deliver)
  /\ \A r \in Runs : WF_vars(Execute(r))

FairSpec == Spec /\ Fairness

----
(* A job whose message was published is decided, also when its API process *)
(* has died since.                                                         *)
PublishedIsDecided == (pending > 0) ~> (job.status \in Terminal)

(* An execution whose Map succeeded accounts for the whole file: no orphan *)
(* or redelivered Lambda loses a row of a chunk that was reported loaded.  *)
MapResultAccountsForFile ==
  \A r \in Runs : exec[r].chunks = "list" =>
    \A row \in Rows : Listed(row) \/ Refused(row)

----
(* Statements of the state machine that it does not keep.                  *)

(* ProcessChunks: "the Catch inside the iterator is what produces PARTIAL  *)
(* instead of FAILED. A dealer whose 400th row breaks the writer must      *)
(* still get 399 vehicles."                                                *)
FailedChunkGivesPartial ==
  \A r \in Runs :
    (ExecAt(r, "failed") /\ exec[r].chunks = "error" /\ VehicleCount > 0)
      => job.status = "PARTIAL"

(* HasChunks: "lets Aggregate record COMPLETED with zero counts".          *)
HeaderOnlyCompletes ==
  (file = "headerOnly" /\ \E r \in Runs : exec[r].pc \in {"failed", "aborted", "succeeded"})
    => job.status = "COMPLETED"
====
