---- MODULE IngestionLocal ----
(***************************************************************************)
(* The ingestion-service with the in-process queue: the upload API, the    *)
(* pipeline executions its messages start, and those an operator starts    *)
(* with tools/run-pipeline.ts --job. The API and its executions share one  *)
(* process; each operator execution is a process of its own.               *)
(***************************************************************************)
EXTENDS UploadApi, LocalOrchestrator

CONSTANTS
  ServiceRuns,  \* executions the queue's handler starts
  ToolRuns,     \* executions an operator starts
  Overlap       \* may an execution start while another is under way?

ASSUME CompositionAssumption ==
  /\ Runs = ServiceRuns \cup ToolRuns
  /\ ServiceRuns \cap ToolRuns = {}
  /\ Overlap \in BOOLEAN

vars == <<storeVars, apiVars, localVars>>

(* Tables, requests, tasks and executions have the shapes the code gives   *)
(* them: whole-file rejections apart from row rejections, and counts never *)
(* negative.                                                               *)
TypeOK == StoreTypeOK /\ ApiTypeOK /\ LocalTypeOK

Init == StoreInit /\ ApiInit /\ LocalInit

(* What validateFile needs is in storage, at the paths of the job row.     *)
Readable == Files \subseteq stored

MayStart(r) ==
  /\ RunAt(r, "idle")
  /\ Overlap \/ \A other \in Runs : run[other].pc \in {"idle", "done", "dead"}

(* setImmediate runs the handler on a published message.                   *)
TakeMessage(r) ==
  /\ r \in ServiceRuns
  /\ MayStart(r)
  /\ pending > 0
  /\ pending' = pending - 1
  /\ RunBecomes(r, [run[r] EXCEPT !.pc = "started"])
  /\ UNCHANGED <<storeVars, req, route, hasZip, stored, chunkVars>>

(* main: orchestrator.run(jobId) on a job that exists, whatever its status.*)
StartTool(r) ==
  /\ r \in ToolRuns
  /\ MayStart(r)
  /\ job.status # "NONE"
  /\ RunBecomes(r, [run[r] EXCEPT !.pc = "started"])
  /\ UNCHANGED <<storeVars, apiVars, chunkVars>>

(* The service process dies with its requests, its queue and its runs;     *)
(* nothing picks the job up when it is back.                               *)
ServiceCrash ==
  /\ "crash" \in Faults
  /\ KillRequests
  /\ pending' = 0
  /\ Kill(ServiceRuns)
  /\ UNCHANGED <<storeVars, route, hasZip, stored, artifact>>

ToolCrash(r) ==
  /\ "crash" \in Faults
  /\ ~RunAt(r, "idle")
  /\ Kill({r})
  /\ UNCHANGED <<storeVars, apiVars, artifact>>

Execute(r) == RunStep(r, Readable) /\ UNCHANGED apiVars

Environment ==
  \/ OtherJobs /\ UNCHANGED <<apiVars, localVars>>
  \/ \E r \in Runs : RunFault(r) /\ UNCHANGED apiVars
  \/ ServiceCrash
  \/ \E r \in ToolRuns : ToolCrash(r)

(* What the program does by itself: handlers, the queue, executions.       *)
Serve(q)  == RequestStep(q) /\ UNCHANGED localVars
Deliver   == \E r \in ServiceRuns : TakeMessage(r)

Next ==
  \/ \E q \in Requests : Serve(q)
  \/ (\E f \in Files : BrowserPut(f)) /\ UNCHANGED localVars
  \/ Deliver
  \/ \E r \in ToolRuns : StartTool(r)
  \/ \E r \in Runs : Execute(r)
  \/ Environment

Spec == Init /\ [][Next]_vars

(* Node.js resumes a handler that can go on, and setImmediate runs a taken *)
(* message; no dealer, operator, other job or fault is obliged to act. A   *)
(* request is idle until a dealer sends it.                                *)
Fairness ==
  /\ \A q \in Requests : WF_vars(Serve(q) /\ req[q] # "idle")
  /\ WF_vars(Deliver)
  /\ \A r \in Runs : WF_vars(Execute(r))

FairSpec == Spec /\ Fairness

----
(* An execution never inserts rows of a chunk it found loaded: the guard   *)
(* that keeps a rerun from doubling rows without a registration.           *)
ResumeSkipsLoadedChunks ==
  \A v \in bare : ChunkOf[v.row] \notin run[v.run].skip

(* The dealer sees the counts of what is there: once an execution has      *)
(* concluded COMPLETED or PARTIAL and none is under way, the job's counts  *)
(* are the listings and rejections in the database. (A header-only file is *)
(* reported as 0 and 0 without counting.)                                  *)
Quiescent == \A r \in Runs : run[r].pc \in {"idle", "done", "dead"}

CountsMatchDatabase ==
  (Quiescent /\ file = "rows" /\ job.status \in {"COMPLETED", "PARTIAL"}) =>
     /\ job.valid = VehicleCount
     /\ job.invalid = Cardinality(rejected)

(* A published message is not forgotten: it is taken and the job decided.  *)
PublishedIsDecided == (pending > 0) ~> (pending = 0 /\ job.status \in Terminal)
====
