---- MODULE IngestionLocalProofs ----
(***************************************************************************)
(* Proofs about IngestionLocal, for every inventory, number of chunks,     *)
(* executions, requests and faults: TypeCorrect; LoadedAreAccounted;       *)
(* CompletedIsComplete; Refinement of UploadLifecycle; ResumeSkips; and,   *)
(* where executions do not overlap and the database does not fail,         *)
(* CountsAreTrue.                                                          *)
(*                                                                         *)
(* The invariant LocalInv has one part per place the truth travels         *)
(* through: the tables (AccountInv), a task between two stages             *)
(* (TaskAccounts, in ChunkProofs), an execution between two awaits         *)
(* (RunAccounts). Progress, in ChunkProofs too, says what one step may do  *)
(* to the tables and the status; that every step is Progress gives both    *)
(* CompletedIsComplete and the refinement. CountsInv adds when the numbers *)
(* an execution carries are those of the tables.                           *)
(***************************************************************************)
EXTENDS IngestionLocal, ChunkProofs

(* Counting needs finite tables: TLC's states have no others.              *)
TypeInv == TypeOK /\ IsFiniteSet(bare)

(* RunBecomes leaves executions of the right shape.                        *)
LEMMA RunTyped ==
  ASSUME LocalTypeOK, NEW r \in Runs, NEW state \in RunState, RunBecomes(r, state)
  PROVE  run' \in [Runs -> RunState]
BY DEF LocalTypeOK, RunBecomes

(* So does RunEnds.                                                        *)
LEMMA RunEndsTyped ==
  ASSUME LocalTypeOK, NEW r \in Runs, RunEnds(r)
  PROVE  run' \in [Runs -> RunState]
<1>1. [IdleRun EXCEPT !.pc = "done", !.skip = run[r].skip] \in RunState
  BY DEF LocalTypeOK, RunState, IdleRun, RunPc, Terminal
<1>. QED
  BY <1>1, RunTyped DEF RunEnds

(* The initial states have their types.                                    *)
LEMMA InitTyped == Init => TypeInv
<1> SUFFICES ASSUME Init PROVE TypeInv
  OBVIOUS
<1>1. StoreTypeOK
  BY StoreAssumption DEF Init, StoreInit, StoreTypeOK, Status, Terminal
<1>2. ApiTypeOK
  BY ApiAssumption DEF Init, ApiInit, ApiTypeOK, ReqPc
<1>3. ChunkTypeOK
  BY DEF Init, LocalInit, ChunkInit, ChunkTypeOK, IdleTask, TaskState, TaskPc
<1>4. run \in [Runs -> RunState]
  BY DEF Init, LocalInit, IdleRun, RunState, RunPc, Terminal
<1>5. IsFiniteSet(bare)
  BY FS_EmptySet DEF Init, StoreInit
<1>. QED
  BY <1>1, <1>2, <1>3, <1>4, <1>5 DEF TypeInv, TypeOK, LocalTypeOK

(* Neither does a load that is retried or a chunk that fails ...           *)
LEMMA TaskFaultTyped ==
  ASSUME ChunkTypeOK, NEW r \in Runs, NEW c \in Chunks,
         RetryLoad(r, c) \/ FailChunk(r, c)
  PROVE  ChunkTypeOK' /\ UNCHANGED <<storeVars, artifact>>
<1>0. task[r][c] \in TaskState
  BY DEF ChunkTypeOK
<1>1. CASE RetryLoad(r, c)
  <2>1. [task[r][c] EXCEPT !.pc = "load", !.attempt = @ + 1, !.left = {}, !.refused = {}]
          \in TaskState
    <3>1. task[r][c].attempt + 1 \in Nat
      BY <1>0 DEF TaskState
    <3>. QED
      BY <1>0, <3>1 DEF TaskState, TaskPc
  <2>. QED
    BY <1>1, <2>1, TaskTyped DEF RetryLoad, ChunkTypeOK
<1>2. CASE FailChunk(r, c)
  BY <1>2, TaskEndsTyped DEF FailChunk, ChunkTypeOK, TaskPc
<1>. QED
  BY <1>1, <1>2

(* ... nor a worker that claims a chunk ...                                *)
LEMMA ClaimTyped ==
  ASSUME ChunkTypeOK, NEW r \in Runs, NEW c \in Chunks, ClaimChunk(r, c)
  PROVE  ChunkTypeOK' /\ UNCHANGED <<storeVars, artifact>>
<1>0. task[r][c] \in TaskState
  BY DEF ChunkTypeOK
<1>1. [task[r][c] EXCEPT !.pc = "rows"] \in TaskState
  BY <1>0 DEF TaskState, TaskPc
<1>. QED
  BY <1>1, TaskTyped, TaskEndsTyped DEF ClaimChunk, ChunkTypeOK, TaskPc

(* ... nor any step or failure of an execution ...                         *)
LEMMA RunStepTyped ==
  ASSUME TypeInv, NEW r \in Runs, NEW readable \in BOOLEAN,
         RunStep(r, readable) \/ RunFault(r)
  PROVE  StoreTypeOK' /\ LocalTypeOK' /\ IsFiniteSet(bare')
<1> USE DEF RunState, RunPc, Terminal
<1>0. /\ StoreTypeOK /\ ChunkTypeOK /\ LocalTypeOK /\ IsFiniteSet(bare)
      /\ run[r] \in RunState
  BY DEF TypeInv, TypeOK, LocalTypeOK
<1>1. ASSUME UNCHANGED <<listing, bare, taken, rejected, loadedLog, notices, file>>,
             job' \in [status : Status, total : Nat, valid : Nat, invalid : Nat]
      PROVE  StoreTypeOK' /\ IsFiniteSet(bare')
  BY <1>0, <1>1 DEF StoreTypeOK
<1>2. ASSUME UNCHANGED storeVars PROVE StoreTypeOK' /\ IsFiniteSet(bare')
  BY <1>0, <1>2 DEF StoreTypeOK, storeVars
<1>3. ASSUME UNCHANGED chunkVars PROVE ChunkTypeOK'
  BY <1>0, <1>3 DEF ChunkTypeOK, chunkVars
<1>4. Terminal \cup {"PROCESSING"} \subseteq Status
  BY DEF Status
<1>5. CASE MarkProcessing(r)
  <2>1. [run[r] EXCEPT !.pc = "prepare"] \in RunState
    BY <1>0
  <2>. QED
    BY <1>0, <1>1, <1>3, <1>4, <1>5, <2>1, StatusTyped, RunTyped DEF MarkProcessing, LocalTypeOK
<1>6. CASE RejectFile(r, readable)
  <2>1. [run[r] EXCEPT !.pc = "failing"] \in RunState
    BY <1>0
  <2>2. rejected' \subseteq Rejection
    BY <1>0, <1>6 DEF RejectFile, StoreTypeOK, Rejection, Rejections
  <2>. QED
    BY <1>0, <1>3, <1>6, <2>1, <2>2, RunTyped DEF RejectFile, LocalTypeOK, StoreTypeOK
<1>7. CASE EmptyInventory(r, readable)
  <2>1. [run[r] EXCEPT !.pc = "writeCounts", !.verdict = "COMPLETED"] \in RunState
    BY <1>0
  <2>2. job' \in [status : Status, total : Nat, valid : Nat, invalid : Nat]
    BY <1>0, <1>7 DEF EmptyInventory, StoreTypeOK
  <2>. QED
    BY <1>0, <1>1, <1>3, <1>7, <2>1, <2>2, RunTyped DEF EmptyInventory, LocalTypeOK
<1>8. CASE FanOut(r, readable)
  <2>1. [run[r] EXCEPT !.pc = "fanOut", !.skip = loadedLog, !.images = "busy"] \in RunState
    BY <1>0 DEF StoreTypeOK
  <2>2. job' \in [status : Status, total : Nat, valid : Nat, invalid : Nat]
    BY <1>0, <1>8, StoreAssumption, FS_CardinalityType DEF FanOut, StoreTypeOK
  <2>3. ChunkTypeOK'
    BY <1>0, <1>8 DEF FanOut, TasksBegin, IdleTask, TaskState, TaskPc, ChunkTypeOK
  <2>. QED
    BY <1>0, <1>1, <1>8, <2>1, <2>2, <2>3, RunTyped DEF FanOut, LocalTypeOK
<1>9. CASE ImagesEnd(r)
  <2>1. [run[r] EXCEPT !.images = "done"] \in RunState
    BY <1>0
  <2>. QED
    BY <1>0, <1>2, <1>3, <1>9, <2>1, RunTyped DEF ImagesEnd, LocalTypeOK
<1>10. CASE CountLoaded(r)
  <2>1. [run[r] EXCEPT !.pc = "countRejected", !.loaded = VehicleCount] \in RunState
    BY <1>0, VehicleCountIsNat
  <2>. QED
    BY <1>0, <1>2, <1>3, <1>10, <2>1, RunTyped DEF CountLoaded, LocalTypeOK
<1>11. CASE CountRejected(r)
  <2> DEFINE refused == Cardinality(rejected)
             verdict == FinalStatus(run[r].loaded, refused, AnyFailed(r))
  <2>1. refused \in Nat
    BY <1>0, RejectedFinite, FS_CardinalityType
  <2>2. verdict \in Terminal
    BY DEF FinalStatus
  <2>3. [run[r] EXCEPT !.pc = "writeCounts", !.rejected = refused, !.verdict = verdict]
          \in RunState
    BY <1>0, <2>1, <2>2
  <2>4. RunBecomes(r, [run[r] EXCEPT !.pc = "writeCounts", !.rejected = refused,
                                     !.verdict = verdict])
    BY <1>11 DEF CountRejected
  <2>. QED
    BY <1>0, <1>2, <1>3, <1>11, <2>3, <2>4, RunTyped DEF CountRejected, LocalTypeOK
<1>12. CASE WriteCounts(r)
  <2>1. [run[r] EXCEPT !.pc = "writeStatus"] \in RunState
    BY <1>0
  <2>2. job' \in [status : Status, total : Nat, valid : Nat, invalid : Nat]
    BY <1>0, <1>12 DEF WriteCounts, StoreTypeOK
  <2>. QED
    BY <1>0, <1>1, <1>3, <1>12, <2>1, <2>2, RunTyped DEF WriteCounts, LocalTypeOK
<1>13. CASE WriteStatus(r)
  <2>1. [run[r] EXCEPT !.pc = "notify"] \in RunState
    BY <1>0
  <2>2. run' \in [Runs -> RunState]
    BY <1>0, <1>13, <2>1, RunTyped, RunEndsTyped DEF WriteStatus
  <2>3. run[r].verdict \in Status
    BY <1>0, <1>4
  <2>. QED
    BY <1>0, <1>1, <1>3, <1>13, <2>2, <2>3, StatusTyped DEF WriteStatus, LocalTypeOK
<1>14. CASE Notify(r)
  <2>1. notices' \subseteq Terminal
    BY <1>0, <1>14 DEF Notify, StoreTypeOK
  <2>. QED
    BY <1>0, <1>3, <1>14, <2>1, RunEndsTyped DEF Notify, LocalTypeOK, StoreTypeOK
<1>15. CASE FailRun(r)
  <2>1. job' \in [status : Status, total : Nat, valid : Nat, invalid : Nat]
    BY <1>0, <1>4, <1>15, StatusTyped DEF FailRun, StoreTypeOK
  <2>. QED
    BY <1>0, <1>1, <1>3, <1>15, <2>1, RunEndsTyped DEF FailRun, LocalTypeOK
<1>16. CASE RunThrows(r)
  <2>1. [IdleRun EXCEPT !.pc = "failing", !.skip = run[r].skip] \in RunState
    BY <1>0 DEF IdleRun
  <2>. QED
    BY <1>0, <1>2, <1>3, <1>16, <2>1, RunTyped DEF RunThrows, LocalTypeOK
<1>17. ASSUME NEW c \in Chunks, TaskStep(r, c) \/ TaskFault(r, c)
       PROVE  StoreTypeOK' /\ LocalTypeOK' /\ IsFiniteSet(bare')
  <2>1. CASE ClaimChunk(r, c)
    BY <1>0, <1>2, <1>17, <2>1, ClaimTyped DEF TaskStep, TaskFault, LocalTypeOK, storeVars
  <2>2. CASE ChunkStep(r, c)
    BY <1>0, <1>17, <2>2, ChunkStepTyped DEF TaskStep, TaskFault, LocalTypeOK
  <2>3. CASE RetryLoad(r, c) \/ FailChunk(r, c)
    BY <1>0, <1>2, <1>17, <2>3, TaskFaultTyped DEF TaskStep, TaskFault, LocalTypeOK, storeVars
  <2>. QED
    BY <1>17, <2>1, <2>2, <2>3 DEF TaskStep, TaskFault
<1>. QED
  BY <1>5, <1>6, <1>7, <1>8, <1>9, <1>10, <1>11, <1>12, <1>13, <1>14, <1>15, <1>16, <1>17
  DEF RunStep, RunFault

(* ... nor the death of a process ...                                      *)
LEMMA KillTyped ==
  ASSUME LocalTypeOK, NEW R, Kill(R), UNCHANGED artifact
  PROVE  LocalTypeOK'
<1>1. task' \in [Runs -> [Chunks -> TaskState]]
  BY DEF LocalTypeOK, ChunkTypeOK, Kill, TasksVanish, IdleTask, TaskState, TaskPc
<1>2. run' \in [Runs -> RunState]
  BY DEF LocalTypeOK, Kill, IdleRun, RunState, RunPc, Terminal
<1>. QED
  BY <1>1, <1>2 DEF LocalTypeOK, ChunkTypeOK

(* ... nor the start of an execution ...                                   *)
LEMMA StartTyped ==
  ASSUME LocalTypeOK, NEW r \in Runs, RunBecomes(r, [run[r] EXCEPT !.pc = "started"]),
         UNCHANGED chunkVars
  PROVE  LocalTypeOK'
<1>1. run[r] \in RunState
  BY DEF LocalTypeOK
<1>2. [run[r] EXCEPT !.pc = "started"] \in RunState
  BY <1>1 DEF RunState, RunPc
<1>. QED
  BY <1>2, RunTyped DEF LocalTypeOK, ChunkTypeOK, chunkVars

(* Types are inductive.                                                    *)
LEMMA StepTyped == TypeInv /\ [Next]_vars => TypeInv'
<1> SUFFICES ASSUME TypeInv, [Next]_vars PROVE TypeInv'
  OBVIOUS
<1>0. StoreTypeOK /\ ApiTypeOK /\ LocalTypeOK /\ ChunkTypeOK /\ IsFiniteSet(bare)
  BY DEF TypeInv, TypeOK, LocalTypeOK
<1>1. ASSUME UNCHANGED storeVars PROVE StoreTypeOK' /\ IsFiniteSet(bare')
  BY <1>0, <1>1 DEF StoreTypeOK, storeVars
<1>2. ASSUME UNCHANGED apiVars PROVE ApiTypeOK'
  BY <1>0, <1>2 DEF ApiTypeOK, apiVars
<1>3. ASSUME UNCHANGED localVars PROVE LocalTypeOK'
  BY <1>0, <1>3 DEF LocalTypeOK, ChunkTypeOK, localVars, chunkVars
<1>4. ASSUME NEW q \in Requests, Serve(q) PROVE TypeInv'
  BY <1>0, <1>3, <1>4, RequestTyped DEF Serve, TypeInv, TypeOK
<1>5. ASSUME NEW f \in Files, BrowserPut(f), UNCHANGED localVars PROVE TypeInv'
  <2>1. ApiTypeOK'
    BY <1>0, <1>5 DEF BrowserPut, ApiTypeOK, Files
  <2>. QED
    BY <1>1, <1>3, <1>5, <2>1 DEF BrowserPut, TypeInv, TypeOK
<1>6. CASE Deliver
  <2>1. PICK r \in ServiceRuns : TakeMessage(r)
    BY <1>6 DEF Deliver
  <2>2. r \in Runs
    BY CompositionAssumption
  <2>3. ApiTypeOK'
    BY <1>0, <2>1 DEF TakeMessage, ApiTypeOK
  <2>. QED
    BY <1>0, <1>1, <2>1, <2>2, <2>3, StartTyped DEF TakeMessage, TypeInv, TypeOK
<1>7. ASSUME NEW r \in ToolRuns, StartTool(r) PROVE TypeInv'
  <2>1. r \in Runs
    BY CompositionAssumption
  <2>. QED
    BY <1>0, <1>1, <1>2, <1>7, <2>1, StartTyped DEF StartTool, TypeInv, TypeOK
<1>8. ASSUME NEW r \in Runs, Execute(r) \/ (RunFault(r) /\ UNCHANGED apiVars) PROVE TypeInv'
  <2>1. Readable \in BOOLEAN
    BY DEF Readable
  <2>. QED
    BY <1>2, <1>8, <2>1, RunStepTyped DEF Execute, TypeInv, TypeOK
<1>9. CASE OtherJobs /\ UNCHANGED <<apiVars, localVars>>
  BY <1>0, <1>2, <1>3, <1>9, OtherJobsTyped DEF TypeInv, TypeOK
<1>10. CASE ServiceCrash
  <2>1. ApiTypeOK'
    BY <1>0, <1>10 DEF ServiceCrash, KillRequests, ApiTypeOK, ReqPc
  <2>. QED
    BY <1>0, <1>1, <1>10, <2>1, KillTyped DEF ServiceCrash, TypeInv, TypeOK
<1>11. ASSUME NEW r \in ToolRuns, ToolCrash(r) PROVE TypeInv'
  BY <1>0, <1>1, <1>2, <1>11, KillTyped DEF ToolCrash, TypeInv, TypeOK
<1>12. CASE UNCHANGED vars
  BY <1>1, <1>2, <1>3, <1>12 DEF vars, TypeInv, TypeOK, storeVars, apiVars, localVars, chunkVars
<1>. QED
  BY <1>4, <1>5, <1>6, <1>7, <1>8, <1>9, <1>10, <1>11, <1>12 DEF Next, Environment

(* The state keeps its types, and every count is of a finite table: the    *)
(* shape of the rows the repositories write.                               *)
THEOREM TypeCorrect == Spec => []TypeOK
<1>1. TypeInv => TypeOK
  BY DEF TypeInv
<1>. QED
  BY InitTyped, StepTyped, <1>1, PTL DEF Spec

----
(* What each execution knows of the rows, and when the job exists.         *)

RunAccounts(r) ==
  /\ run[r].skip \subseteq loadedLog
  /\ run[r].pc \in {"fanOut", "countRejected"} => file = "rows"
  /\ run[r].pc = "countRejected" =>
       AllSettled(r) /\ (run[r].loaded # 0 => SomethingListed)
  /\ run[r].pc \in {"writeCounts", "writeStatus"} =>
       /\ run[r].verdict = "COMPLETED" => WholeFileListed
       /\ run[r].verdict = "PARTIAL" => SomethingListed

Started ==
  job.status = "NONE" =>
    /\ route = "none"
    /\ pending = 0
    /\ \A q \in Requests : req[q] = "idle"
    /\ \A r \in Runs : run[r].pc = "idle"
    /\ \A r \in Runs, c \in Chunks : task[r][c].pc = "idle"

LocalInv ==
  /\ TypeInv
  /\ AccountInv
  /\ \A r \in Runs : RunAccounts(r)
  /\ Started
  /\ CompletedListsEveryRow

(* The invariant holds before anything has happened.                       *)
LEMMA InitInv == Init => LocalInv
<1> SUFFICES ASSUME Init PROVE LocalInv
  OBVIOUS
<1>1. AccountInv
  BY DEF Init, StoreInit, LocalInit, ChunkInit, AccountInv, VehiclesSound,
         LoadedChunksAreAccounted, TaskAccounts, IdleTask
<1>2. \A r \in Runs : RunAccounts(r)
  BY DEF Init, LocalInit, IdleRun, RunAccounts
<1>3. Started
  BY DEF Init, ApiInit, LocalInit, ChunkInit, IdleTask, IdleRun, Started
<1>4. CompletedListsEveryRow
  BY DEF Init, StoreInit, CompletedListsEveryRow
<1>. QED
  BY <1>1, <1>2, <1>3, <1>4, InitTyped DEF LocalInv

(* The tasks of a chunk make Progress: they add listings and rejections.   *)
LEMMA TaskProgress ==
  ASSUME LocalInv, NEW r \in Runs, NEW c \in Chunks, TaskStep(r, c) \/ TaskFault(r, c)
  PROVE  Progress
<1>0. /\ StoreTypeOK /\ ChunkTypeOK /\ AccountInv
      /\ job.status = "NONE" => task[r][c].pc = "idle"
  BY DEF LocalInv, TypeInv, TypeOK, LocalTypeOK, Started
<1>1. CASE ChunkStep(r, c)
  <2>1. StoreGrows /\ VehiclesSound'
    BY <1>0, <1>1, ChunkStepAccounts DEF AccountInv
  <2>2. task[r][c].pc # "idle" /\ UNCHANGED <<file, job>>
    BY <1>1 DEF ChunkStep, TaskAt, storeVars, JudgeRows, StageRows, FetchRows, InsertBatch,
                BatchConflict, InsertOne, RecordRefused, LogLoaded
  <2>. QED
    BY <1>0, <2>1, <2>2 DEF Progress
<1>2. CASE ClaimChunk(r, c) \/ RetryLoad(r, c) \/ FailChunk(r, c)
  BY <1>2 DEF ClaimChunk, RetryLoad, FailChunk, storeVars, Progress, Untouched
<1>. QED
  BY <1>1, <1>2 DEF TaskStep, TaskFault

(* An execution makes Progress. The one hard case is WriteStatus, where    *)
(* the verdict was reached some awaits ago: RunAccounts keeps it true.     *)
LEMMA RunProgress ==
  ASSUME LocalInv, NEW r \in Runs, NEW readable \in BOOLEAN,
         RunStep(r, readable) \/ RunFault(r)
  PROVE  Progress
<1> USE DEF Progress, Untouched, Concludes, SetStatus, storeVars, RunAt
<1>0. /\ job \in [status : Status, total : Nat, valid : Nat, invalid : Nat]
      /\ run[r].pc # "idle" => job.status # "NONE"
      /\ run[r] \in RunState
      /\ RunAccounts(r)
      /\ VehiclesSound
  BY DEF LocalInv, TypeInv, TypeOK, StoreTypeOK, LocalTypeOK, Started, AccountInv
<1>1. CASE MarkProcessing(r)
  BY <1>0, <1>1 DEF MarkProcessing
<1>2. CASE RejectFile(r, readable)
  <2>1. \A row \in Rows : Refused(row) => Refused(row)'
    BY <1>2 DEF RejectFile, Refused
  <2>2. UNCHANGED <<listing, bare, loadedLog, file, job>> /\ run[r].pc = "prepare"
    BY <1>2 DEF RejectFile
  <2>3. StoreGrows /\ VehiclesSound'
    BY <1>0, <2>1, <2>2 DEF StoreGrows, Listed, VehiclesSound
  <2>. QED
    BY <1>0, <2>2, <2>3
<1>3. CASE EmptyInventory(r, readable) \/ FanOut(r, readable) \/ WriteCounts(r)
  BY <1>0, <1>3 DEF EmptyInventory, FanOut, WriteCounts
<1>4. CASE ImagesEnd(r) \/ CountLoaded(r) \/ CountRejected(r) \/ RunThrows(r)
  BY <1>4 DEF ImagesEnd, CountLoaded, CountRejected, RunThrows
<1>5. CASE WriteStatus(r)
  <2>1. /\ run[r].pc = "writeStatus" /\ run[r].verdict \in Terminal
        /\ job'.status = run[r].verdict
        /\ Untouched
    BY <1>0, <1>5 DEF WriteStatus, RunState
  <2>. QED
    BY <1>0, <2>1 DEF RunAccounts, Terminal
<1>6. CASE Notify(r)
  BY <1>6 DEF Notify
<1>7. CASE FailRun(r)
  BY <1>0, <1>7 DEF FailRun
<1>8. ASSUME NEW c \in Chunks, TaskStep(r, c) \/ TaskFault(r, c)
      PROVE  Progress
  BY <1>8, TaskProgress
<1>. QED
  BY <1>1, <1>2, <1>3, <1>4, <1>5, <1>6, <1>7, <1>8 DEF RunStep, RunFault

(* Every step makes Progress.                                              *)
LEMMA StepProgress == LocalInv /\ [Next]_vars => Progress
<1> SUFFICES ASSUME LocalInv, [Next]_vars PROVE Progress
  OBVIOUS
<1>1. ASSUME UNCHANGED storeVars PROVE Progress
  BY <1>1 DEF Progress, Untouched, storeVars
<1>2. ASSUME NEW q \in Requests, Serve(q) PROVE Progress
  BY <1>2, RequestProgress DEF Serve, LocalInv, TypeInv, TypeOK, Started
<1>3. ASSUME NEW f \in Files, BrowserPut(f) PROVE Progress
  BY <1>1, <1>3 DEF BrowserPut
<1>4. CASE Deliver
  BY <1>1, <1>4 DEF Deliver, TakeMessage
<1>5. ASSUME NEW r \in ToolRuns, StartTool(r) \/ ToolCrash(r) PROVE Progress
  BY <1>1, <1>5 DEF StartTool, ToolCrash
<1>6. ASSUME NEW r \in Runs, Execute(r) \/ RunFault(r) PROVE Progress
  <2>1. Readable \in BOOLEAN
    BY DEF Readable
  <2>. QED
    BY <1>6, <2>1, RunProgress DEF Execute
<1>7. CASE OtherJobs
  BY <1>7 DEF OtherJobs, OtherJobLists, OtherJobWithdraws, Progress, Untouched
<1>8. CASE ServiceCrash
  BY <1>1, <1>8 DEF ServiceCrash
<1>9. CASE UNCHANGED vars
  BY <1>1, <1>9 DEF vars, storeVars
<1>. QED
  BY <1>2, <1>3, <1>4, <1>5, <1>6, <1>7, <1>8, <1>9 DEF Next, Environment

----
(* Each part of the invariant is kept.                                     *)

(* The steps of a task, its retries and its failures keep the accounts.    *)
LEMMA TaskStepAccounts ==
  ASSUME LocalInv, NEW r \in Runs, NEW c \in Chunks, TaskStep(r, c) \/ TaskFault(r, c)
  PROVE  AccountInv'
<1> DEFINE t == task[r][c]
<1>0. /\ StoreTypeOK /\ ChunkTypeOK /\ AccountInv /\ RunAccounts(r)
      /\ t \in TaskState /\ TaskAccounts(r, c)
  BY DEF LocalInv, TypeInv, TypeOK, LocalTypeOK, ChunkTypeOK, AccountInv
<1>1. CASE ChunkStep(r, c)
  BY <1>0, <1>1, ChunkStepAccounts
<1>2. CASE ClaimChunk(r, c)
  <2>1. UNCHANGED <<storeVars, artifact>>
    BY <1>2 DEF ClaimChunk
  <2>2. CASE c \in run[r].skip /\ TaskEnds(r, c, "skipped")
    <3>1. c \in loadedLog'
      BY <1>0, <2>1, <2>2 DEF RunAccounts, storeVars
    <3>2. ASSUME task'[r][c] = [IdleTask EXCEPT !.pc = "skipped"]
          PROVE  TaskAccounts(r, c)'
      <4>1. task'[r][c].pc = "skipped"
        BY <3>2 DEF IdleTask
      <4>. QED
        BY <3>1, <4>1 DEF TaskAccounts
    <3>. QED
      BY <1>0, <2>1, <2>2, <3>2, OneTaskKept DEF TaskEnds
  <2>3. CASE TaskBecomes(r, c, [t EXCEPT !.pc = "rows"])
    <3>1. [t EXCEPT !.pc = "rows"].pc = "rows"
      BY <1>0 DEF TaskState
    <3>2. ASSUME task'[r][c] = [t EXCEPT !.pc = "rows"]
          PROVE  TaskAccounts(r, c)'
      <4>1. task'[r][c].pc = "rows"
        BY <3>1, <3>2
      <4>. QED
        BY <4>1, FreshAccounts
    <3>. QED
      BY <1>0, <2>1, <2>3, <3>2, OneTaskKept
  <2>. QED
    BY <1>2, <2>2, <2>3 DEF ClaimChunk
<1>3. CASE RetryLoad(r, c)
  <2> DEFINE state == [t EXCEPT !.pc = "load", !.attempt = @ + 1, !.left = {}, !.refused = {}]
  <2>1. /\ UNCHANGED <<storeVars, artifact>>
        /\ TaskBecomes(r, c, state)
        /\ Carries(c, t.batch) /\ Carries(c, artifact[c])
    BY <1>0, <1>3 DEF RetryLoad, InLoad, TaskAccounts
  <2>2. state.pc = "load" /\ state.batch = t.batch
    BY <1>0 DEF TaskState
  <2>3. \A row : Refused(row) <=> Refused(row)'
    BY <2>1 DEF Refused, storeVars
  <2>4. ASSUME task'[r][c] = state PROVE TaskAccounts(r, c)'
    BY <2>1, <2>2, <2>3, <2>4 DEF TaskAccounts, Carries
  <2>. QED
    BY <1>0, <2>1, <2>4, OneTaskKept
<1>4. CASE FailChunk(r, c)
  <2>1. [IdleTask EXCEPT !.pc = "failed"].pc = "failed"
    BY DEF IdleTask
  <2>2. ASSUME task'[r][c] = [IdleTask EXCEPT !.pc = "failed"]
        PROVE  TaskAccounts(r, c)'
    <3>1. task'[r][c].pc = "failed"
      BY <2>1, <2>2
    <3>. QED
      BY <3>1, FreshAccounts
  <2>3. /\ UNCHANGED <<storeVars, artifact>>
        /\ TaskBecomes(r, c, [IdleTask EXCEPT !.pc = "failed"])
    BY <1>4 DEF FailChunk, TaskEnds
  <2>. QED
    BY <1>0, <2>2, <2>3, OneTaskKept
<1>. QED
  BY <1>1, <1>2, <1>3, <1>4 DEF TaskStep, TaskFault

(* The accounts are kept by every step.                                    *)
LEMMA StepAccounts == LocalInv /\ [Next]_vars => AccountInv'
<1> SUFFICES ASSUME LocalInv, [Next]_vars PROVE AccountInv'
  OBVIOUS
<1>0. StoreGrows /\ VehiclesSound' /\ ChunkTypeOK /\ AccountInv
  BY StepProgress, ProgressGrows DEF LocalInv, AccountInv, TypeInv, TypeOK, LocalTypeOK
<1>1. ASSUME UNCHANGED <<loadedLog, artifact, task>> PROVE AccountInv'
  BY <1>0, <1>1, RestAccounts
<1>2. ASSUME NEW q \in Requests, Serve(q) PROVE AccountInv'
  <2>1. UNCHANGED loadedLog
    BY <1>2 DEF Serve, RequestStep, UploadCreate, UploadStore, UploadPublish, UploadFail,
                PresignUpload, CompleteRead, CompleteCheckCsv, CompleteCheckZip,
                CompleteFail, CompletePublish, storeVars
  <2>. QED
    BY <1>1, <1>2, <2>1 DEF Serve, localVars, chunkVars
<1>3. ASSUME NEW f \in Files, BrowserPut(f), UNCHANGED localVars PROVE AccountInv'
  BY <1>1, <1>3 DEF BrowserPut, storeVars, localVars, chunkVars
<1>4. CASE Deliver
  BY <1>1, <1>4 DEF Deliver, TakeMessage, storeVars, chunkVars
<1>5. ASSUME NEW r \in ToolRuns, StartTool(r) PROVE AccountInv'
  BY <1>1, <1>5 DEF StartTool, storeVars, chunkVars
<1>6. ASSUME NEW r \in Runs, Execute(r) \/ RunFault(r) PROVE AccountInv'
  <2>1. CASE FanOut(r, Readable)
    BY <1>0, <2>1, RestAccounts DEF FanOut
  <2>2. ASSUME NEW c \in Chunks, TaskStep(r, c) \/ TaskFault(r, c) PROVE AccountInv'
    BY <2>2, TaskStepAccounts
  <2>3. CASE \/ MarkProcessing(r) \/ RejectFile(r, Readable) \/ EmptyInventory(r, Readable)
             \/ ImagesEnd(r) \/ CountLoaded(r) \/ CountRejected(r) \/ WriteCounts(r)
             \/ WriteStatus(r) \/ Notify(r) \/ FailRun(r) \/ RunThrows(r)
    BY <1>1, <2>3 DEF MarkProcessing, RejectFile, EmptyInventory, ImagesEnd, CountLoaded,
         CountRejected, WriteCounts, WriteStatus, Notify, FailRun, RunThrows,
         storeVars, chunkVars
  <2>. QED
    BY <1>6, <2>1, <2>2, <2>3 DEF Execute, RunStep, RunFault
<1>7. CASE OtherJobs /\ UNCHANGED <<apiVars, localVars>>
  BY <1>1, <1>7 DEF OtherJobs, OtherJobLists, OtherJobWithdraws, localVars, chunkVars
<1>8. CASE ServiceCrash
  BY <1>0, <1>8, RestAccounts DEF ServiceCrash, Kill, storeVars
<1>9. ASSUME NEW r \in ToolRuns, ToolCrash(r) PROVE AccountInv'
  BY <1>0, <1>9, RestAccounts DEF ToolCrash, Kill, storeVars
<1>10. CASE UNCHANGED vars
  BY <1>1, <1>10 DEF vars, storeVars, localVars, chunkVars
<1>. QED
  BY <1>2, <1>3, <1>4, <1>5, <1>6, <1>7, <1>8, <1>9, <1>10 DEF Next, Environment

(* When every chunk ended without failing and there is no rejection, every *)
(* row is listed: what finish relies on to say COMPLETED.                  *)
LEMMA UnrejectedIsListed ==
  ASSUME LocalInv, NEW r \in Runs, AllSettled(r), ~AnyFailed(r), rejected = {}
  PROVE  \A row \in Rows : Listed(row)
<1> SUFFICES ASSUME NEW row \in Rows PROVE Listed(row)
  OBVIOUS
<1> DEFINE c == ChunkOf[row]
<1>1. c \in Chunks /\ row \in ChunkRows(c)
  BY StoreAssumption DEF ChunkRows
<1>2. task[r][c].pc \in {"ok", "skipped"}
  BY <1>1 DEF AllSettled, AnyFailed, Settled
<1>3. TaskAccounts(r, c) /\ LoadedChunksAreAccounted
  BY <1>1 DEF LocalInv, AccountInv
<1>4. c \in loadedLog
  BY <1>2, <1>3 DEF TaskAccounts
<1>5. Listed(row) \/ Refused(row)
  BY <1>1, <1>3, <1>4 DEF LoadedChunksAreAccounted
<1>. QED
  BY <1>5 DEF Refused

(* What an execution knows stays true while others work.                   *)
LEMMA RunsKept ==
  ASSUME LocalInv, Progress,
         \A r \in Runs : \/ run'[r] = run[r] /\ (AllSettled(r) => AllSettled(r)')
                         \/ RunAccounts(r)'
  PROVE  \A r \in Runs : RunAccounts(r)'
<1> SUFFICES ASSUME NEW r \in Runs, run'[r] = run[r], AllSettled(r) => AllSettled(r)'
             PROVE  RunAccounts(r)'
  OBVIOUS
<1>1. RunAccounts(r)
  BY DEF LocalInv
<1>2. /\ loadedLog \subseteq loadedLog' /\ file' = file
      /\ WholeFileListed => WholeFileListed'
      /\ SomethingListed => SomethingListed'
  BY ProgressGrows DEF StoreGrows
<1>. QED
  BY <1>1, <1>2 DEF RunAccounts

(* One execution moves.                                                    *)
LEMMA OneRunKept ==
  ASSUME LocalInv, Progress, NEW r \in Runs, NEW state, RunBecomes(r, state),
         \A q \in Runs : q # r => task'[q] = task[q],
         run'[r] = state => RunAccounts(r)'
  PROVE  \A q \in Runs : RunAccounts(q)'
<1>1. /\ run'[r] = state
      /\ \A q \in Runs : q # r => run'[q] = run[q]
  BY DEF LocalInv, TypeInv, TypeOK, LocalTypeOK, RunBecomes
<1>2. \A q \in Runs : q # r => (AllSettled(q) => AllSettled(q)')
  BY DEF AllSettled
<1>. QED
  BY <1>1, <1>2, RunsKept

(* What an execution knows after a step of its own: in particular, the     *)
(* counts and the verdict it carries between its awaits are still covered  *)
(* by what is listed.                                                      *)
LEMMA RunStepKeepsRuns ==
  ASSUME LocalInv, Progress, NEW r \in Runs, NEW readable \in BOOLEAN,
         RunStep(r, readable) \/ RunFault(r)
  PROVE  \A q \in Runs : RunAccounts(q)'
<1> USE DEF RunAt
<1>0. /\ run[r] \in RunState /\ ChunkTypeOK /\ TypeInv /\ StoreTypeOK
      /\ RunAccounts(r) /\ VehiclesSound
  BY DEF LocalInv, TypeInv, TypeOK, LocalTypeOK, AccountInv
<1>1. /\ loadedLog \subseteq loadedLog' /\ file' = file
      /\ WholeFileListed => WholeFileListed'
      /\ SomethingListed => SomethingListed'
  BY ProgressGrows DEF StoreGrows
<1>2. run[r].skip \subseteq loadedLog'
  BY <1>0, <1>1 DEF RunAccounts

(* An execution that is nowhere between the fan-out and its verdict.       *)
<1>3. ASSUME NEW state, RunBecomes(r, state), UNCHANGED task,
             state.skip \subseteq loadedLog',
             state.pc \notin {"fanOut", "countRejected", "writeCounts", "writeStatus"}
      PROVE  \A q \in Runs : RunAccounts(q)'
  <2>1. ASSUME run'[r] = state PROVE RunAccounts(r)'
    BY <1>3, <2>1 DEF RunAccounts
  <2>. QED
    BY <1>3, <2>1, OneRunKept
<1>4. ASSUME RunEnds(r), UNCHANGED task
      PROVE  \A q \in Runs : RunAccounts(q)'
  <2> DEFINE state == [IdleRun EXCEPT !.pc = "done", !.skip = run[r].skip]
  <2>1. RunBecomes(r, state) /\ state.pc = "done" /\ state.skip = run[r].skip
    BY <1>4 DEF RunEnds, IdleRun
  <2>. HIDE DEF state
  <2>. QED
    BY <1>2, <1>3, <1>4, <2>1
<1>5. CASE MarkProcessing(r)
  <2> DEFINE state == [run[r] EXCEPT !.pc = "prepare"]
  <2>1. RunBecomes(r, state) /\ UNCHANGED task /\ state.pc = "prepare" /\ state.skip = run[r].skip
    BY <1>0, <1>5 DEF MarkProcessing, RunState, chunkVars
  <2>. HIDE DEF state
  <2>. QED
    BY <1>2, <1>3, <2>1
<1>6. CASE RejectFile(r, readable)
  <2> DEFINE state == [run[r] EXCEPT !.pc = "failing"]
  <2>1. RunBecomes(r, state) /\ UNCHANGED task /\ state.pc = "failing" /\ state.skip = run[r].skip
    BY <1>0, <1>6 DEF RejectFile, RunState, chunkVars
  <2>. HIDE DEF state
  <2>. QED
    BY <1>2, <1>3, <2>1
<1>7. CASE EmptyInventory(r, readable)
  <2> DEFINE state == [run[r] EXCEPT !.pc = "writeCounts", !.verdict = "COMPLETED"]
  <2>1. /\ RunBecomes(r, state) /\ UNCHANGED task
        /\ state.pc = "writeCounts" /\ state.verdict = "COMPLETED" /\ state.skip = run[r].skip
    BY <1>0, <1>7 DEF EmptyInventory, RunState, chunkVars
  <2>2. WholeFileListed'
    BY <1>1, <1>7 DEF EmptyInventory, WholeFileListed, FileRows
  <2>3. ASSUME run'[r] = state PROVE RunAccounts(r)'
    BY <1>2, <2>1, <2>2, <2>3 DEF RunAccounts
  <2>. QED
    BY <2>1, <2>3, OneRunKept
<1>8. CASE FanOut(r, readable)
  <2> DEFINE state == [run[r] EXCEPT !.pc = "fanOut", !.skip = loadedLog, !.images = "busy"]
  <2>1. /\ RunBecomes(r, state) /\ TasksBegin(r) /\ file = "rows"
        /\ state.pc = "fanOut" /\ state.skip = loadedLog
    BY <1>0, <1>8 DEF FanOut, RunState
  <2>2. \A q \in Runs : q # r => task'[q] = task[q]
    BY <1>0, <2>1 DEF TasksBegin, ChunkTypeOK
  <2>3. ASSUME run'[r] = state PROVE RunAccounts(r)'
    BY <1>1, <2>1, <2>3 DEF RunAccounts
  <2>. QED
    BY <2>1, <2>2, <2>3, OneRunKept
<1>9. CASE ImagesEnd(r)
  <2> DEFINE state == [run[r] EXCEPT !.images = "done"]
  <2>1. /\ RunBecomes(r, state) /\ UNCHANGED task /\ file = "rows"
        /\ state.pc = "fanOut" /\ state.skip = run[r].skip
    BY <1>0, <1>9 DEF ImagesEnd, RunState, chunkVars, RunAccounts
  <2>2. ASSUME run'[r] = state PROVE RunAccounts(r)'
    BY <1>1, <1>2, <2>1, <2>2 DEF RunAccounts
  <2>. QED
    BY <2>1, <2>2, OneRunKept
<1>10. CASE CountLoaded(r)
  <2> DEFINE state == [run[r] EXCEPT !.pc = "countRejected", !.loaded = VehicleCount]
  <2>1. /\ RunBecomes(r, state) /\ UNCHANGED task /\ file = "rows" /\ AllSettled(r)
        /\ state.pc = "countRejected" /\ state.skip = run[r].skip
        /\ state.loaded = VehicleCount
    BY <1>0, <1>10 DEF CountLoaded, RunState, chunkVars, RunAccounts
  <2>2. state.loaded # 0 => SomethingListed'
    BY <1>0, <1>1, <2>1, CountedIsListed
  <2>3. AllSettled(r)'
    BY <2>1 DEF AllSettled
  <2>4. ASSUME run'[r] = state PROVE RunAccounts(r)'
    BY <1>1, <1>2, <2>1, <2>2, <2>3, <2>4 DEF RunAccounts
  <2>. QED
    BY <2>1, <2>4, OneRunKept
<1>11. CASE CountRejected(r)
  <2> DEFINE refused == Cardinality(rejected)
             verdict == FinalStatus(run[r].loaded, refused, AnyFailed(r))
             state == [run[r] EXCEPT !.pc = "writeCounts", !.rejected = refused,
                                     !.verdict = verdict]
  <2>1. /\ RunBecomes(r, state) /\ UNCHANGED task /\ run[r].pc = "countRejected"
    BY <1>11 DEF CountRejected, chunkVars
  <2>2. state.pc = "writeCounts" /\ state.verdict = verdict /\ state.skip = run[r].skip
    BY <1>0 DEF RunState
  <2>3. AllSettled(r) /\ file = "rows" /\ (run[r].loaded # 0 => SomethingListed)
    BY <1>0, <2>1 DEF RunAccounts
  <2>4. verdict = "PARTIAL" => SomethingListed'
    BY <1>1, <2>3 DEF FinalStatus
  <2>5. ASSUME verdict = "COMPLETED" PROVE WholeFileListed'
    <3>1. ~AnyFailed(r) /\ ~(refused > 0)
      BY <2>5 DEF FinalStatus
    <3>2. IsFiniteSet(rejected) /\ refused \in Nat
      BY <1>0, RejectedFinite, FS_CardinalityType
    <3>3. refused = 0
      BY <3>1, <3>2
    <3>4. rejected = {}
      BY <3>2, <3>3, FS_EmptySet
    <3>5. WholeFileListed
      BY <2>3, <3>1, <3>4, UnrejectedIsListed DEF WholeFileListed, FileRows
    <3>. QED
      BY <1>1, <3>5
  <2>6. ASSUME run'[r] = state PROVE RunAccounts(r)'
    <3>. HIDE DEF verdict, state
    <3>. QED
      BY <1>2, <2>2, <2>4, <2>5, <2>6 DEF RunAccounts
  <2>. QED
    BY <2>1, <2>6, OneRunKept
<1>12. CASE WriteCounts(r)
  <2> DEFINE state == [run[r] EXCEPT !.pc = "writeStatus"]
  <2>1. /\ RunBecomes(r, state) /\ UNCHANGED task
        /\ state.pc = "writeStatus" /\ state.verdict = run[r].verdict
        /\ state.skip = run[r].skip /\ run[r].pc = "writeCounts"
    BY <1>0, <1>12 DEF WriteCounts, RunState, chunkVars
  <2>2. ASSUME run'[r] = state PROVE RunAccounts(r)'
    BY <1>0, <1>1, <1>2, <2>1, <2>2 DEF RunAccounts
  <2>. QED
    BY <2>1, <2>2, OneRunKept
<1>13. CASE WriteStatus(r)
  <2> DEFINE state == [run[r] EXCEPT !.pc = "notify"]
  <2>1. state.pc = "notify" /\ state.skip = run[r].skip
    BY <1>0 DEF RunState
  <2>2. UNCHANGED task /\ (RunBecomes(r, state) \/ RunEnds(r))
    BY <1>13 DEF WriteStatus, chunkVars
  <2>. HIDE DEF state
  <2>. QED
    BY <1>2, <1>3, <1>4, <2>1, <2>2
<1>14. CASE Notify(r) \/ FailRun(r)
  BY <1>4, <1>14 DEF Notify, FailRun, chunkVars
<1>15. CASE RunThrows(r)
  <2> DEFINE state == [IdleRun EXCEPT !.pc = "failing", !.skip = run[r].skip]
  <2>1. RunBecomes(r, state) /\ UNCHANGED task /\ state.pc = "failing" /\ state.skip = run[r].skip
    BY <1>15 DEF RunThrows, IdleRun, chunkVars
  <2>. HIDE DEF state
  <2>. QED
    BY <1>2, <1>3, <2>1
<1>16. ASSUME NEW c \in Chunks, TaskStep(r, c) \/ TaskFault(r, c)
       PROVE  \A q \in Runs : RunAccounts(q)'
  <2>1. ~AllSettled(r)
    BY <1>16 DEF TaskStep, TaskFault, AllSettled, Settled, TaskAt, ClaimChunk, ChunkStep,
         JudgeRows, StageRows, FetchRows, InsertBatch, BatchConflict, InsertOne,
         RecordRefused, LogLoaded, RetryLoad, FailChunk, InLoad, InRowStages
  <2>2. \A q \in Runs : q # r => task'[q] = task[q]
    BY <1>0, <1>16 DEF TaskStep, TaskFault, TaskEnds, TaskBecomes, ChunkTypeOK, ClaimChunk,
         ChunkStep, JudgeRows, StageRows, FetchRows, InsertBatch, BatchConflict, InsertOne,
         RecordRefused, LogLoaded, RetryLoad, FailChunk
  <2>3. \A q \in Runs : AllSettled(q) => AllSettled(q)'
    BY <2>1, <2>2 DEF AllSettled
  <2>. QED
    BY <1>16, <2>3, RunsKept DEF TaskStep, TaskFault
<1>. QED
  BY <1>5, <1>6, <1>7, <1>8, <1>9, <1>10, <1>11, <1>12, <1>13, <1>14, <1>15, <1>16
  DEF RunStep, RunFault

(* A process starts an execution, or dies with those it had under way.     *)
LEMMA StartKeepsRuns ==
  ASSUME LocalInv, Progress, NEW r \in Runs, UNCHANGED task, RunAt(r, "idle"),
         RunBecomes(r, [run[r] EXCEPT !.pc = "started"])
  PROVE  \A q \in Runs : RunAccounts(q)'
<1> DEFINE state == [run[r] EXCEPT !.pc = "started"]
<1>0. run[r] \in RunState /\ RunAccounts(r) /\ loadedLog \subseteq loadedLog'
  BY ProgressGrows DEF LocalInv, TypeInv, TypeOK, LocalTypeOK, StoreGrows
<1>1. state.pc = "started" /\ state.skip = run[r].skip
  BY <1>0 DEF RunState
<1>2. ASSUME run'[r] = state PROVE RunAccounts(r)'
  BY <1>0, <1>1, <1>2 DEF RunAccounts
<1>. QED
  BY <1>2, OneRunKept

(* An execution that is dead knows nothing; the others are untouched.      *)
LEMMA KillKeepsRuns ==
  ASSUME LocalInv, Progress, NEW R, Kill(R)
  PROVE  \A q \in Runs : RunAccounts(q)'
<1>1. ASSUME NEW q \in Runs
      PROVE  \/ run'[q] = run[q] /\ (AllSettled(q) => AllSettled(q)')
             \/ RunAccounts(q)'
  <2>1. CASE q \notin R
    BY <2>1 DEF LocalInv, TypeInv, TypeOK, LocalTypeOK, ChunkTypeOK, Kill, TasksVanish, AllSettled
  <2>2. CASE q \in R /\ run[q].pc # "idle"
    <3>1. run'[q] = [IdleRun EXCEPT !.pc = "dead"]
      BY <2>2 DEF Kill
    <3>2. run'[q].pc = "dead" /\ run'[q].skip = {}
      BY <3>1 DEF IdleRun
    <3>. QED
      BY <3>2 DEF RunAccounts
  <2>3. CASE q \in R /\ run[q].pc = "idle"
    <3>1. run'[q] = run[q]
      BY <2>3 DEF Kill
    <3>2. RunAccounts(q) /\ loadedLog \subseteq loadedLog'
      BY ProgressGrows DEF LocalInv, StoreGrows
    <3>. QED
      BY <2>3, <3>1, <3>2 DEF RunAccounts
  <2>. QED
    BY <2>1, <2>2, <2>3
<1>. QED
  BY <1>1, RunsKept

(* What executions know is kept by every step.                             *)
LEMMA StepKeepsRuns == LocalInv /\ [Next]_vars => \A r \in Runs : RunAccounts(r)'
<1> SUFFICES ASSUME LocalInv, [Next]_vars PROVE \A r \in Runs : RunAccounts(r)'
  OBVIOUS
<1>0. Progress
  BY StepProgress
<1>1. ASSUME UNCHANGED localVars PROVE \A r \in Runs : RunAccounts(r)'
  BY <1>0, <1>1, RunsKept DEF localVars, chunkVars, AllSettled
<1>2. CASE \E q \in Requests : Serve(q)
  BY <1>1, <1>2 DEF Serve
<1>3. CASE Deliver
  <2>1. PICK r \in ServiceRuns : TakeMessage(r)
    BY <1>3 DEF Deliver
  <2>2. r \in Runs
    BY CompositionAssumption
  <2>. QED
    BY <1>0, <2>1, <2>2, StartKeepsRuns DEF TakeMessage, MayStart, chunkVars
<1>4. ASSUME NEW r \in ToolRuns, StartTool(r) PROVE \A q \in Runs : RunAccounts(q)'
  <2>1. r \in Runs
    BY CompositionAssumption
  <2>. QED
    BY <1>0, <1>4, <2>1, StartKeepsRuns DEF StartTool, MayStart, chunkVars
<1>5. ASSUME NEW r \in Runs, Execute(r) \/ RunFault(r) PROVE \A q \in Runs : RunAccounts(q)'
  <2>1. Readable \in BOOLEAN
    BY DEF Readable
  <2>. QED
    BY <1>0, <1>5, <2>1, RunStepKeepsRuns DEF Execute
<1>6. CASE ServiceCrash
  BY <1>0, <1>6, KillKeepsRuns DEF ServiceCrash
<1>7. ASSUME NEW r \in ToolRuns, ToolCrash(r) PROVE \A q \in Runs : RunAccounts(q)'
  BY <1>0, <1>7, KillKeepsRuns DEF ToolCrash
<1>8. CASE UNCHANGED vars
  BY <1>1, <1>8 DEF vars
<1>. QED
  BY <1>1, <1>2, <1>3, <1>4, <1>5, <1>6, <1>7, <1>8 DEF Next, Environment

(* Nothing happens to a job before its row is created.                     *)
LEMMA StepStarted == LocalInv /\ [Next]_vars => Started'
<1> SUFFICES ASSUME LocalInv, [Next]_vars, job'.status = "NONE" PROVE Started'
  BY DEF Started
<1> USE DEF Started
<1>0. Progress
  BY StepProgress
<1>1. job.status = "NONE"
  BY <1>0, ProgressGrows
<1>2. /\ Started /\ ApiTypeOK /\ ChunkTypeOK /\ run \in [Runs -> RunState]
      /\ job \in [status : Status, total : Nat, valid : Nat, invalid : Nat]
  BY DEF LocalInv, TypeInv, TypeOK, LocalTypeOK, StoreTypeOK
<1>3. ASSUME UNCHANGED <<apiVars, localVars>> PROVE Started'
  BY <1>1, <1>2, <1>3 DEF apiVars, localVars, chunkVars
<1>4. ASSUME NEW q \in Requests, Serve(q) PROVE Started'
  <2>1. job' = [job EXCEPT !.status = "PENDING"]
    BY <1>1, <1>2, <1>4 DEF Serve, RequestStep, UploadCreate, UploadStore, UploadPublish,
         UploadFail, PresignUpload, CompleteRead, CompleteCheckCsv, CompleteCheckZip,
         CompleteFail, CompletePublish, SetStatus
  <2>. QED
    BY <1>2, <2>1
<1>5. ASSUME NEW f \in Files, BrowserPut(f) PROVE Started'
  BY <1>1, <1>2, <1>5 DEF BrowserPut
<1>6. CASE Deliver \/ \E r \in ToolRuns : StartTool(r)
  BY <1>1, <1>2, <1>6 DEF Deliver, TakeMessage, StartTool
<1>7. ASSUME NEW r \in Runs, Execute(r) \/ RunFault(r) PROVE Started'
  <2>1. run[r].pc = "idle" /\ \A c \in Chunks : task[r][c].pc = "idle"
    BY <1>1, <1>2
  <2>. QED
    BY <1>7, <2>1 DEF Execute, RunStep, RunFault, RunAt, MarkProcessing, RejectFile,
         EmptyInventory, FanOut, ImagesEnd, CountLoaded, CountRejected, WriteCounts,
         WriteStatus, Notify, FailRun, RunThrows, TaskStep, TaskFault, TaskAt, ClaimChunk,
         ChunkStep, JudgeRows, StageRows, FetchRows, InsertBatch, BatchConflict, InsertOne,
         RecordRefused, LogLoaded, RetryLoad, FailChunk, InLoad, InRowStages
<1>8. ASSUME NEW R, Kill(R), pending' = pending \/ pending' = 0, UNCHANGED route,
             UNCHANGED req \/ KillRequests
      PROVE  Started'
  <2>1. \A r \in Runs : run'[r].pc = "idle"
    BY <1>1, <1>2, <1>8 DEF Kill
  <2>2. \A r \in Runs, c \in Chunks : task'[r][c].pc = "idle"
    BY <1>1, <1>2, <1>8 DEF Kill, TasksVanish, IdleTask
  <2>3. \A q \in Requests : req'[q] = "idle"
    BY <1>1, <1>2, <1>8 DEF KillRequests, InFlight
  <2>. QED
    BY <1>1, <1>2, <1>8, <2>1, <2>2, <2>3
<1>9. CASE ServiceCrash
  BY <1>8, <1>9 DEF ServiceCrash
<1>10. ASSUME NEW r \in ToolRuns, ToolCrash(r) PROVE Started'
  BY <1>8, <1>10 DEF ToolCrash, apiVars
<1>11. CASE UNCHANGED vars
  BY <1>3, <1>11 DEF vars
<1>. QED
  BY <1>3, <1>4, <1>5, <1>6, <1>7, <1>9, <1>10, <1>11 DEF Next, Environment

(* LocalInv is inductive.                                                  *)
LEMMA StepInv == LocalInv /\ [Next]_vars => LocalInv'
<1> SUFFICES ASSUME LocalInv, [Next]_vars PROVE LocalInv'
  OBVIOUS
<1>1. TypeInv'
  BY StepTyped DEF LocalInv
<1>2. CompletedListsEveryRow'
  BY StepProgress, ProgressCompletes DEF LocalInv
<1>. QED
  BY <1>1, <1>2, StepAccounts, StepKeepsRuns, StepStarted DEF LocalInv

(* The inductive invariant: types, the accounts of every task, what every  *)
(* execution knows of the rows it counted, that nothing happens before the *)
(* job is created, and CompletedListsEveryRow.                             *)
THEOREM InvariantHolds == Spec => []LocalInv
BY InitInv, StepInv, PTL DEF Spec

(* The skip of loaded chunks loses no row: whatever the executions of a    *)
(* job do to each other, a chunk in succeededChunks has each of its rows   *)
(* listed or rejected.                                                     *)
THEOREM LoadedAreAccounted == Spec => []LoadedChunksAreAccounted
<1>1. LocalInv => LoadedChunksAreAccounted
  BY DEF LocalInv, AccountInv
<1>. QED
  BY InvariantHolds, <1>1, PTL

(* finish and WriteStatus: COMPLETED is never written, nor does it stand,  *)
(* while a row of the file is not listed.                                  *)
THEOREM CompletedIsComplete == Spec => []CompletedListsEveryRow
<1>1. LocalInv => CompletedListsEveryRow
  BY DEF LocalInv
<1>. QED
  BY InvariantHolds, <1>1, PTL

----
(* The refinement of UploadLifecycle.                                      *)

(* The job keeps the promises of UploadLifecycle: what has landed or was   *)
(* rejected is never taken back, COMPLETED is said only of a readable file *)
(* whose every row is listed, PARTIAL only when something is - whatever    *)
(* requests, executions, crashes and database errors do.                   *)
THEOREM Refinement == Spec => ImplementsLifecycle
<1>1. LocalInv /\ [Next]_vars => [Lifecycle!Next]_(Lifecycle!vars)
  BY StepProgress, ProgressRefines
<1>2. Init => Lifecycle!Init
  BY InitLifecycle DEF Init
<1>. QED
  BY InvariantHolds, <1>1, <1>2, PTL DEF Spec, ImplementsLifecycle, Lifecycle!Spec

----
(* ResumeSkipsLoadedChunks: what is inserted comes from a batch, a batch   *)
(* from the artifact of the chunk, and the artifact from the chunk's own   *)
(* rows, whoever staged them; and no chunk of the skip set is ever         *)
(* claimed. An execution takes its skip set before it has inserted         *)
(* anything (FreshRun).                                                    *)

TaskInChunk(r, c) ==
  /\ task[r][c].batch \subseteq ChunkRows(c)
  /\ task[r][c].left \subseteq ChunkRows(c)
  /\ Busy(r, c) => c \notin run[r].skip

BeforeFanOut(r) == run[r].pc \in {"idle", "started", "prepare"}

FreshRun(r) ==
  BeforeFanOut(r) =>
    /\ \A c \in Chunks : task[r][c].pc = "idle"
    /\ \A v \in bare : v.run # r

ResumeInv ==
  /\ \A c \in Chunks : artifact[c] \subseteq ChunkRows(c)
  /\ \A r \in Runs, c \in Chunks : TaskInChunk(r, c)
  /\ \A r \in Runs : FreshRun(r)
  /\ ResumeSkipsLoadedChunks

(* The invariant holds before anything has happened.                       *)
LEMMA InitResume == Init => ResumeInv
BY DEF Init, StoreInit, LocalInit, ChunkInit, IdleTask, IdleRun, ResumeInv, TaskInChunk,
       FreshRun, Busy, ResumeSkipsLoadedChunks

----
(* The three ways a step can bear on the invariant.                        *)

(* Nothing is inserted, no skip set grows, no task moves but to vanish.    *)
LEMMA NothingInserted ==
  ASSUME TypeInv, ResumeInv, UNCHANGED <<bare, artifact>>,
         \A r \in Runs :
           /\ run'[r].skip \subseteq run[r].skip
           /\ BeforeFanOut(r)' => BeforeFanOut(r)
           /\ \A c \in Chunks : task'[r][c] = task[r][c] \/ task'[r][c] = IdleTask
  PROVE  ResumeInv'
<1>1. ASSUME NEW r \in Runs, NEW c \in Chunks PROVE TaskInChunk(r, c)'
  <2>1. TaskInChunk(r, c)
    BY DEF ResumeInv
  <2>2. CASE task'[r][c] = task[r][c]
    BY <2>1, <2>2 DEF TaskInChunk, Busy
  <2>3. CASE task'[r][c] = IdleTask
    BY <2>3 DEF TaskInChunk, Busy, IdleTask
  <2>. QED
    BY <2>2, <2>3
<1>2. ASSUME NEW r \in Runs PROVE FreshRun(r)'
  <2>1. FreshRun(r)
    BY DEF ResumeInv
  <2>. QED
    BY <2>1 DEF FreshRun, IdleTask
<1>3. bare \subseteq BareVehicle
  BY DEF TypeInv, TypeOK, StoreTypeOK
<1>4. ResumeSkipsLoadedChunks'
  BY <1>3 DEF ResumeInv, ResumeSkipsLoadedChunks, BareVehicle
<1>. QED
  BY <1>1, <1>2, <1>4 DEF ResumeInv

(* An execution fans out: it skips what it finds, having inserted nothing. *)
LEMMA FanOutResumes ==
  ASSUME TypeInv, ResumeInv, NEW r \in Runs, FanOut(r, Readable)
  PROVE  ResumeInv'
<1>0. /\ run \in [Runs -> RunState]
      /\ task \in [Runs -> [Chunks -> TaskState]]
      /\ bare \subseteq BareVehicle
  BY DEF TypeInv, TypeOK, StoreTypeOK, LocalTypeOK, ChunkTypeOK
<1>1. /\ UNCHANGED <<bare, artifact>>
      /\ run'[r].pc = "fanOut"
      /\ \A q \in Runs \ {r} : run'[q] = run[q] /\ task'[q] = task[q]
      /\ \A c \in Chunks : task'[r][c] = [IdleTask EXCEPT !.pc = "todo"]
  BY <1>0 DEF FanOut, RunBecomes, TasksBegin, RunState
<1>2. \A v \in bare : v.run # r
  BY DEF ResumeInv, FreshRun, BeforeFanOut, FanOut, RunAt
<1>3. ASSUME NEW q \in Runs, NEW c \in Chunks PROVE TaskInChunk(q, c)'
  <2>1. CASE q = r
    BY <1>1, <2>1 DEF TaskInChunk, Busy, IdleTask
  <2>2. CASE q # r
    BY <1>1, <2>2 DEF ResumeInv, TaskInChunk, Busy
  <2>. QED
    BY <2>1, <2>2
<1>4. ASSUME NEW q \in Runs PROVE FreshRun(q)'
  <2>1. CASE q = r
    BY <1>1, <2>1 DEF FreshRun, BeforeFanOut
  <2>2. CASE q # r
    BY <1>1, <2>2 DEF ResumeInv, FreshRun, BeforeFanOut
  <2>. QED
    BY <2>1, <2>2
<1>5. ResumeSkipsLoadedChunks'
  BY <1>0, <1>1, <1>2 DEF ResumeInv, ResumeSkipsLoadedChunks, BareVehicle
<1>. QED
  BY <1>1, <1>3, <1>4, <1>5 DEF ResumeInv

(* A task under way moves on within its chunk, and inserts its own rows.   *)
LEMMA TaskStaysInChunk ==
  ASSUME TypeInv, ResumeInv, UNCHANGED run,
         NEW r \in Runs, NEW c \in Chunks, task[r][c].pc # "idle",
         NEW state, TaskBecomes(r, c, state),
         state.batch \subseteq ChunkRows(c),
         state.left \subseteq ChunkRows(c),
         state.pc \in Settled \cup {"todo"} \/ c \notin run[r].skip,
         artifact' = artifact \/
           (artifact' = [artifact EXCEPT ![c] = task[r][c].batch]),
         \A v \in bare' : v \in bare \/
           (v.run = r /\ v.row \in ChunkRows(c) /\ c \notin run[r].skip)
  PROVE  ResumeInv'
<1>0. /\ task \in [Runs -> [Chunks -> TaskState]]
      /\ artifact \in [Chunks -> SUBSET Rows]
      /\ TaskInChunk(r, c) /\ FreshRun(r)
  BY DEF TypeInv, TypeOK, LocalTypeOK, ChunkTypeOK, ResumeInv
<1>1. /\ task'[r][c] = state
      /\ \A q \in Runs, d \in Chunks : <<q, d>> # <<r, c>> => task'[q][d] = task[q][d]
  BY <1>0 DEF TaskBecomes
<1>2. \A d \in Chunks : artifact'[d] \subseteq ChunkRows(d)
  BY <1>0 DEF ResumeInv, TaskInChunk
<1>3. ASSUME NEW q \in Runs, NEW d \in Chunks PROVE TaskInChunk(q, d)'
  <2>1. CASE <<q, d>> = <<r, c>>
    <3>1. q = r /\ d = c
      BY <2>1
    <3>. QED
      BY <1>1, <3>1 DEF TaskInChunk, Busy, Settled
  <2>2. CASE <<q, d>> # <<r, c>>
    BY <1>1, <2>2 DEF ResumeInv, TaskInChunk, Busy
  <2>. QED
    BY <2>1, <2>2
<1>4. ~BeforeFanOut(r)
  BY <1>0 DEF FreshRun
<1>5. ASSUME NEW q \in Runs, BeforeFanOut(q)' PROVE FreshRun(q)'
  <2>1. q # r /\ BeforeFanOut(q)
    BY <1>4, <1>5 DEF BeforeFanOut
  <2>2. \A d \in Chunks : task'[q][d] = task[q][d]
    BY <1>1, <2>1
  <2>. QED
    BY <2>1, <2>2 DEF ResumeInv, FreshRun
<1>6. \A q \in Runs : FreshRun(q)'
  BY <1>5 DEF FreshRun
<1>7. ASSUME NEW v \in bare' PROVE ChunkOf[v.row] \notin run'[v.run].skip
  BY DEF ResumeInv, ResumeSkipsLoadedChunks, ChunkRows
<1>8. ResumeSkipsLoadedChunks'
  BY <1>7 DEF ResumeSkipsLoadedChunks
<1>. QED
  BY <1>2, <1>3, <1>6, <1>8 DEF ResumeInv

----
(* Every step of a task stays in its chunk.                                *)

(* Neither claiming, nor a retry, nor a failure inserts anything.          *)
LEMMA TaskControlResumes ==
  ASSUME TypeInv, ResumeInv, NEW r \in Runs, NEW c \in Chunks, UNCHANGED run,
         ClaimChunk(r, c) \/ RetryLoad(r, c) \/ FailChunk(r, c)
  PROVE  ResumeInv'
<1> DEFINE t == task[r][c]
<1>0. t \in TaskState /\ TaskInChunk(r, c)
  BY DEF TypeInv, TypeOK, LocalTypeOK, ChunkTypeOK, ResumeInv
<1>1. UNCHANGED <<bare, artifact>>
  BY DEF ClaimChunk, RetryLoad, FailChunk, storeVars
<1>2. t.pc # "idle"
  BY DEF ClaimChunk, RetryLoad, FailChunk, TaskAt, InLoad, InRowStages
<1>3. ASSUME NEW pc \in Settled, TaskEnds(r, c, pc) PROVE ResumeInv'
  <2> DEFINE state == [IdleTask EXCEPT !.pc = pc]
  <2>1. state.pc = pc /\ state.batch = {} /\ state.left = {}
    BY DEF IdleTask
  <2>2. TaskBecomes(r, c, state)
    BY <1>3 DEF TaskEnds
  <2> HIDE DEF state
  <2>. QED
    BY <1>1, <1>2, <1>3, <2>1, <2>2, TaskStaysInChunk
<1>4. ASSUME c \notin run[r].skip, TaskBecomes(r, c, [t EXCEPT !.pc = "rows"])
      PROVE  ResumeInv'
  <2> DEFINE state == [t EXCEPT !.pc = "rows"]
  <2>1. state.batch = t.batch /\ state.left = t.left
    BY <1>0 DEF TaskState
  <2>2. TaskBecomes(r, c, state)
    BY <1>4
  <2> HIDE DEF state
  <2>. QED
    BY <1>0, <1>1, <1>2, <1>4, <2>1, <2>2, TaskStaysInChunk DEF TaskInChunk
<1>5. CASE RetryLoad(r, c)
  <2> DEFINE state == [t EXCEPT !.pc = "load", !.attempt = @ + 1, !.left = {}, !.refused = {}]
  <2>1. state.batch = t.batch /\ state.left = {}
    BY <1>0 DEF TaskState
  <2>2. TaskBecomes(r, c, state) /\ c \notin run[r].skip
    BY <1>0, <1>5 DEF RetryLoad, InLoad, TaskInChunk, Busy, Settled
  <2> HIDE DEF state
  <2>. QED
    BY <1>0, <1>1, <1>2, <2>1, <2>2, TaskStaysInChunk DEF TaskInChunk
<1>6. CASE ClaimChunk(r, c)
  BY <1>3, <1>4, <1>6 DEF ClaimChunk, Settled
<1>7. CASE FailChunk(r, c)
  BY <1>3, <1>7 DEF FailChunk, Settled
<1>. QED
  BY <1>5, <1>6, <1>7

(* The stages of the chunk: only the two inserts insert, and only rows of  *)
(* the batch.                                                              *)
LEMMA ChunkStepResumes ==
  ASSUME TypeInv, ResumeInv, NEW r \in Runs, NEW c \in Chunks, UNCHANGED run,
         ChunkStep(r, c)
  PROVE  ResumeInv'
<1> DEFINE t == task[r][c]
<1>0. /\ t \in TaskState /\ TaskInChunk(r, c)
      /\ artifact[c] \subseteq ChunkRows(c)
  BY DEF TypeInv, TypeOK, LocalTypeOK, ChunkTypeOK, ResumeInv
<1>1. t.pc # "idle" /\ c \notin run[r].skip
  BY <1>0 DEF ChunkStep, JudgeRows, StageRows, FetchRows, InsertBatch, BatchConflict,
       InsertOne, RecordRefused, LogLoaded, TaskAt, TaskInChunk, Busy, Settled
<1>2. ASSUME NEW S, S \subseteq ChunkRows(c), bare' = BareWith(S, r, t.attempt)
      PROVE  \A v \in bare' : v \in bare \/
               (v.run = r /\ v.row \in ChunkRows(c) /\ c \notin run[r].skip)
  BY <1>1, <1>2 DEF BareWith
<1>3. CASE JudgeRows(r, c)
  <2>1. PICK passing \in PassingRows(c) :
          TaskBecomes(r, c, [t EXCEPT !.pc = "stage", !.batch = ValidRows(passing)])
    BY <1>3 DEF JudgeRows
  <2> DEFINE state == [t EXCEPT !.pc = "stage", !.batch = ValidRows(passing)]
  <2>2. state.batch \subseteq ChunkRows(c) /\ state.left = t.left
    BY <1>0, ValidRowsTyped DEF TaskState
  <2>3. TaskBecomes(r, c, state) /\ UNCHANGED <<bare, artifact>>
    BY <1>3, <2>1 DEF JudgeRows
  <2> HIDE DEF state
  <2>. QED
    BY <1>0, <1>1, <2>2, <2>3, TaskStaysInChunk DEF TaskInChunk
<1>4. CASE StageRows(r, c)
  <2> DEFINE state == [t EXCEPT !.pc = "fetch"]
  <2>1. state.batch = t.batch /\ state.left = t.left
    BY <1>0 DEF TaskState
  <2>2. /\ TaskBecomes(r, c, state) /\ UNCHANGED bare
        /\ artifact' = [artifact EXCEPT ![c] = t.batch]
    BY <1>4 DEF StageRows, storeVars
  <2> HIDE DEF state
  <2>. QED
    BY <1>0, <1>1, <2>1, <2>2, TaskStaysInChunk DEF TaskInChunk
<1>5. CASE FetchRows(r, c)
  <2> DEFINE state == [t EXCEPT !.pc = "load", !.batch = artifact[c]]
  <2>1. state.batch = artifact[c] /\ state.left = t.left
    BY <1>0 DEF TaskState
  <2>2. TaskBecomes(r, c, state) /\ UNCHANGED <<bare, artifact>>
    BY <1>5 DEF FetchRows, storeVars
  <2> HIDE DEF state
  <2>. QED
    BY <1>0, <1>1, <2>1, <2>2, TaskStaysInChunk DEF TaskInChunk
<1>6. CASE InsertBatch(r, c)
  <2> DEFINE state == [t EXCEPT !.pc = "log", !.refused = {}]
  <2>1. state.batch = t.batch /\ state.left = t.left
    BY <1>0 DEF TaskState
  <2>2. /\ TaskBecomes(r, c, state) /\ UNCHANGED artifact
        /\ bare' = BareWith(t.batch, r, t.attempt)
    BY <1>6 DEF InsertBatch
  <2> HIDE DEF state
  <2>. QED
    BY <1>0, <1>1, <1>2, <2>1, <2>2, TaskStaysInChunk DEF TaskInChunk
<1>7. CASE BatchConflict(r, c)
  <2> DEFINE state == [t EXCEPT !.pc = "isolate", !.left = t.batch, !.refused = {}]
  <2>1. state.batch = t.batch /\ state.left = t.batch
    BY <1>0 DEF TaskState
  <2>2. TaskBecomes(r, c, state) /\ UNCHANGED <<bare, artifact>>
    BY <1>7 DEF BatchConflict, storeVars
  <2> HIDE DEF state
  <2>. QED
    BY <1>0, <1>1, <2>1, <2>2, TaskStaysInChunk DEF TaskInChunk
<1>8. CASE InsertOne(r, c)
  <2>1. PICK row \in t.left :
          LET left == t.left \ {row}
              next == IF left = {} THEN "record" ELSE "isolate"
          IN  \/ /\ TaskBecomes(r, c, [t EXCEPT !.pc = next, !.left = left,
                                                !.refused = t.refused \cup {row}])
                 /\ UNCHANGED bare
              \/ /\ bare' = BareWith({row}, r, t.attempt)
                 /\ TaskBecomes(r, c, [t EXCEPT !.pc = next, !.left = left])
    BY <1>8 DEF InsertOne
  <2> DEFINE left == t.left \ {row}
             next == IF left = {} THEN "record" ELSE "isolate"
             refused == [t EXCEPT !.pc = next, !.left = left,
                                  !.refused = t.refused \cup {row}]
             inserted == [t EXCEPT !.pc = next, !.left = left]
  <2>2. /\ refused.batch = t.batch /\ refused.left \subseteq t.left
        /\ inserted.batch = t.batch /\ inserted.left \subseteq t.left
    BY <1>0 DEF TaskState
  <2>3. UNCHANGED artifact
    BY <1>8 DEF InsertOne
  <2>4. {row} \subseteq ChunkRows(c)
    BY <1>0, <2>1 DEF TaskInChunk
  <2>5. \/ TaskBecomes(r, c, refused) /\ UNCHANGED bare
        \/ TaskBecomes(r, c, inserted) /\ bare' = BareWith({row}, r, t.attempt)
    BY <2>1
  <2> HIDE DEF refused, inserted
  <2>6. CASE TaskBecomes(r, c, refused) /\ UNCHANGED bare
    BY <1>0, <1>1, <2>2, <2>3, <2>6, TaskStaysInChunk DEF TaskInChunk
  <2>7. CASE TaskBecomes(r, c, inserted) /\ bare' = BareWith({row}, r, t.attempt)
    BY <1>0, <1>1, <1>2, <2>2, <2>3, <2>4, <2>7, TaskStaysInChunk DEF TaskInChunk
  <2>. QED
    BY <2>5, <2>6, <2>7
<1>9. CASE RecordRefused(r, c)
  <2> DEFINE state == [t EXCEPT !.pc = "log", !.refused = {}]
  <2>1. state.batch = t.batch /\ state.left = t.left
    BY <1>0 DEF TaskState
  <2>2. TaskBecomes(r, c, state) /\ UNCHANGED <<bare, artifact>>
    BY <1>9 DEF RecordRefused
  <2> HIDE DEF state
  <2>. QED
    BY <1>0, <1>1, <2>1, <2>2, TaskStaysInChunk DEF TaskInChunk
<1>10. CASE LogLoaded(r, c)
  <2> DEFINE state == [IdleTask EXCEPT !.pc = "ok"]
  <2>1. state.batch = {} /\ state.left = {}
    BY DEF IdleTask
  <2>2. TaskBecomes(r, c, state) /\ UNCHANGED <<bare, artifact>>
    BY <1>10 DEF LogLoaded, TaskEnds
  <2> HIDE DEF state
  <2>. QED
    BY <1>1, <2>1, <2>2, TaskStaysInChunk
<1>. QED
  BY <1>3, <1>4, <1>5, <1>6, <1>7, <1>8, <1>9, <1>10 DEF ChunkStep

----
(* Every step of the system.                                               *)

(* An execution's own awaits insert nothing, and widen no skip set but in  *)
(* FanOut.                                                                 *)
LEMMA RunStepResumes ==
  ASSUME TypeInv, ResumeInv, NEW r \in Runs,
         RunStep(r, Readable) \/ RunFault(r)
  PROVE  ResumeInv'
<1>0. run \in [Runs -> RunState] /\ run[r] \in RunState
  BY DEF TypeInv, TypeOK, LocalTypeOK
<1>1. ASSUME NEW c \in Chunks, TaskStep(r, c) \/ TaskFault(r, c) PROVE ResumeInv'
  BY <1>1, ChunkStepResumes, TaskControlResumes DEF TaskStep, TaskFault
<1>2. CASE FanOut(r, Readable)
  BY <1>2, FanOutResumes
<1>3. ASSUME UNCHANGED <<bare, artifact, task>>, run'[r].skip = run[r].skip,
             \A q \in Runs \ {r} : run'[q] = run[q],
             BeforeFanOut(r)' => BeforeFanOut(r)
      PROVE  ResumeInv'
  <2>1. ASSUME NEW q \in Runs
        PROVE  /\ run'[q].skip \subseteq run[q].skip
               /\ BeforeFanOut(q)' => BeforeFanOut(q)
               /\ \A c \in Chunks : task'[q][c] = task[q][c] \/ task'[q][c] = IdleTask
    BY <1>3 DEF BeforeFanOut
  <2>. QED
    BY <1>3, <2>1, NothingInserted
<1>4. CASE MarkProcessing(r)
  <2>1. run'[r].skip = run[r].skip /\ (BeforeFanOut(r)' => BeforeFanOut(r))
    BY <1>0, <1>4 DEF MarkProcessing, RunBecomes, RunEnds, RunAt, RunState, IdleRun, BeforeFanOut
  <2>. QED
    BY <1>0, <1>3, <1>4, <2>1 DEF MarkProcessing, RunBecomes, RunEnds, storeVars, chunkVars
<1>5. CASE RejectFile(r, Readable)
  <2>1. run'[r].skip = run[r].skip /\ (BeforeFanOut(r)' => BeforeFanOut(r))
    BY <1>0, <1>5 DEF RejectFile, RunBecomes, RunEnds, RunAt, RunState, IdleRun, BeforeFanOut
  <2>. QED
    BY <1>0, <1>3, <1>5, <2>1 DEF RejectFile, RunBecomes, RunEnds, storeVars, chunkVars
<1>6. CASE EmptyInventory(r, Readable)
  <2>1. run'[r].skip = run[r].skip /\ (BeforeFanOut(r)' => BeforeFanOut(r))
    BY <1>0, <1>6 DEF EmptyInventory, RunBecomes, RunEnds, RunAt, RunState, IdleRun, BeforeFanOut
  <2>. QED
    BY <1>0, <1>3, <1>6, <2>1 DEF EmptyInventory, RunBecomes, RunEnds, storeVars, chunkVars
<1>7. CASE ImagesEnd(r)
  <2>1. run'[r].skip = run[r].skip /\ (BeforeFanOut(r)' => BeforeFanOut(r))
    BY <1>0, <1>7 DEF ImagesEnd, RunBecomes, RunEnds, RunAt, RunState, IdleRun, BeforeFanOut
  <2>. QED
    BY <1>0, <1>3, <1>7, <2>1 DEF ImagesEnd, RunBecomes, RunEnds, storeVars, chunkVars
<1>8. CASE CountLoaded(r)
  <2>1. run'[r].skip = run[r].skip /\ (BeforeFanOut(r)' => BeforeFanOut(r))
    BY <1>0, <1>8 DEF CountLoaded, RunBecomes, RunEnds, RunAt, RunState, IdleRun, BeforeFanOut
  <2>. QED
    BY <1>0, <1>3, <1>8, <2>1 DEF CountLoaded, RunBecomes, RunEnds, storeVars, chunkVars
<1>9. CASE CountRejected(r)
  <2>1. run'[r].skip = run[r].skip /\ (BeforeFanOut(r)' => BeforeFanOut(r))
    BY <1>0, <1>9 DEF CountRejected, RunBecomes, RunEnds, RunAt, RunState, IdleRun, BeforeFanOut
  <2>. QED
    BY <1>0, <1>3, <1>9, <2>1 DEF CountRejected, RunBecomes, RunEnds, storeVars, chunkVars
<1>10. CASE WriteCounts(r)
  <2>1. run'[r].skip = run[r].skip /\ (BeforeFanOut(r)' => BeforeFanOut(r))
    BY <1>0, <1>10 DEF WriteCounts, RunBecomes, RunEnds, RunAt, RunState, IdleRun, BeforeFanOut
  <2>. QED
    BY <1>0, <1>3, <1>10, <2>1 DEF WriteCounts, RunBecomes, RunEnds, storeVars, chunkVars
<1>11. CASE WriteStatus(r)
  <2>1. run'[r].skip = run[r].skip /\ (BeforeFanOut(r)' => BeforeFanOut(r))
    BY <1>0, <1>11 DEF WriteStatus, RunBecomes, RunEnds, RunAt, RunState, IdleRun, BeforeFanOut
  <2>. QED
    BY <1>0, <1>3, <1>11, <2>1 DEF WriteStatus, RunBecomes, RunEnds, storeVars, chunkVars
<1>12. CASE Notify(r)
  <2>1. run'[r].skip = run[r].skip /\ (BeforeFanOut(r)' => BeforeFanOut(r))
    BY <1>0, <1>12 DEF Notify, RunBecomes, RunEnds, RunAt, RunState, IdleRun, BeforeFanOut
  <2>. QED
    BY <1>0, <1>3, <1>12, <2>1 DEF Notify, RunBecomes, RunEnds, storeVars, chunkVars
<1>13. CASE FailRun(r)
  <2>1. run'[r].skip = run[r].skip /\ (BeforeFanOut(r)' => BeforeFanOut(r))
    BY <1>0, <1>13 DEF FailRun, RunBecomes, RunEnds, RunAt, RunState, IdleRun, BeforeFanOut
  <2>. QED
    BY <1>0, <1>3, <1>13, <2>1 DEF FailRun, RunBecomes, RunEnds, storeVars, chunkVars
<1>14. CASE RunThrows(r)
  <2>1. run'[r].skip = run[r].skip /\ (BeforeFanOut(r)' => BeforeFanOut(r))
    BY <1>0, <1>14 DEF RunThrows, RunBecomes, RunEnds, RunAt, RunState, IdleRun, BeforeFanOut
  <2>. QED
    BY <1>0, <1>3, <1>14, <2>1 DEF RunThrows, RunBecomes, RunEnds, storeVars, chunkVars
<1>. QED
  BY <1>1, <1>2, <1>4, <1>5, <1>6, <1>7, <1>8, <1>9, <1>10, <1>11, <1>12, <1>13, <1>14
     DEF RunStep, RunFault

(* A process that dies takes its skip sets and tasks with it.              *)
LEMMA KillResumes ==
  ASSUME TypeInv, ResumeInv, NEW R, Kill(R), UNCHANGED <<bare, artifact>>
  PROVE  ResumeInv'
<1>0. /\ run \in [Runs -> RunState]
      /\ task \in [Runs -> [Chunks -> TaskState]]
  BY DEF TypeInv, TypeOK, LocalTypeOK, ChunkTypeOK
<1>1. ASSUME NEW q \in Runs
      PROVE  /\ run'[q].skip \subseteq run[q].skip
             /\ BeforeFanOut(q)' => BeforeFanOut(q)
             /\ \A c \in Chunks : task'[q][c] = task[q][c] \/ task'[q][c] = IdleTask
  BY <1>0 DEF Kill, TasksVanish, IdleRun, BeforeFanOut
<1>. QED
  BY <1>1, NothingInserted

(* The invariant is kept by every step.                                    *)
LEMMA StepResumes == TypeInv /\ ResumeInv /\ [Next]_vars => ResumeInv'
<1> SUFFICES ASSUME TypeInv, ResumeInv, [Next]_vars PROVE ResumeInv'
  OBVIOUS
<1>0. run \in [Runs -> RunState]
  BY DEF TypeInv, TypeOK, LocalTypeOK
<1>1. ASSUME UNCHANGED <<bare, localVars>> PROVE ResumeInv'
  <2>1. UNCHANGED <<bare, artifact, task, run>>
    BY <1>1 DEF localVars, chunkVars
  <2>. QED
    BY <2>1, NothingInserted DEF BeforeFanOut
<1>2. ASSUME NEW q \in Requests, Serve(q) PROVE ResumeInv'
  <2>1. UNCHANGED bare
    BY <1>2, RequestTyped DEF Serve, TypeInv, TypeOK
  <2>. QED
    BY <1>1, <1>2, <2>1 DEF Serve
<1>3. ASSUME NEW f \in Files, BrowserPut(f), UNCHANGED localVars PROVE ResumeInv'
  BY <1>1, <1>3 DEF BrowserPut, storeVars
<1>4. ASSUME NEW r \in Runs, RunAt(r, "idle"),
             RunBecomes(r, [run[r] EXCEPT !.pc = "started"]),
             UNCHANGED <<storeVars, chunkVars>>
      PROVE  ResumeInv'
  <2>1. UNCHANGED <<bare, artifact, task>> /\ BeforeFanOut(r)
    BY <1>4 DEF storeVars, chunkVars, RunAt, BeforeFanOut
  <2>2. /\ run'[r].skip = run[r].skip
        /\ \A q \in Runs \ {r} : run'[q] = run[q]
    BY <1>0, <1>4 DEF RunBecomes, RunState
  <2>3. ASSUME NEW q \in Runs
        PROVE  /\ run'[q].skip \subseteq run[q].skip
               /\ BeforeFanOut(q)' => BeforeFanOut(q)
               /\ \A c \in Chunks : task'[q][c] = task[q][c] \/ task'[q][c] = IdleTask
    BY <2>1, <2>2 DEF BeforeFanOut
  <2>. QED
    BY <2>1, <2>3, NothingInserted
<1>5. CASE Deliver
  BY <1>4, <1>5, CompositionAssumption DEF Deliver, TakeMessage, MayStart
<1>6. ASSUME NEW r \in ToolRuns, StartTool(r) PROVE ResumeInv'
  BY <1>4, <1>6, CompositionAssumption DEF StartTool, MayStart
<1>7. ASSUME NEW r \in Runs, Execute(r) \/ (RunFault(r) /\ UNCHANGED apiVars) PROVE ResumeInv'
  BY <1>7, RunStepResumes DEF Execute
<1>8. CASE OtherJobs /\ UNCHANGED <<apiVars, localVars>>
  BY <1>1, <1>8 DEF OtherJobs, OtherJobLists, OtherJobWithdraws
<1>9. CASE ServiceCrash
  BY <1>9, KillResumes DEF ServiceCrash, storeVars
<1>10. ASSUME NEW r \in ToolRuns, ToolCrash(r) PROVE ResumeInv'
  BY <1>10, KillResumes DEF ToolCrash, storeVars
<1>11. CASE UNCHANGED vars
  BY <1>1, <1>11 DEF vars, storeVars
<1>. QED
  BY <1>2, <1>3, <1>5, <1>6, <1>7, <1>8, <1>9, <1>10, <1>11 DEF Next, Environment

(* The skip in runChunk works: an execution has inserted no row of a chunk *)
(* it found in succeededChunks, so that a rerun does not double the rows   *)
(* that no unique index covers.                                            *)
THEOREM ResumeSkips == Spec => []ResumeSkipsLoadedChunks
<1>1. Spec => [](TypeInv /\ ResumeInv)
  <2>1. TypeInv /\ ResumeInv /\ [Next]_vars => (TypeInv /\ ResumeInv)'
    BY StepTyped, StepResumes
  <2>. QED
    BY InitTyped, InitResume, <2>1, PTL DEF Spec
<1>2. ResumeInv => ResumeSkipsLoadedChunks
  BY DEF ResumeInv
<1>. QED
  BY <1>1, <1>2, PTL

----
(* CountsMatchDatabase, where executions do not overlap and no statement   *)
(* of the database fails: with either, an execution that is over may leave *)
(* tasks behind that go on inserting.                                      *)

Active(r) == run[r].pc \notin {"idle", "done", "dead"}

Counted == job.valid = VehicleCount /\ job.invalid = Cardinality(rejected)

RunCounts(r) ==
  /\ run[r].pc # "fanOut" => \A c \in Chunks : task[r][c].pc \in Settled \cup {"idle"}
  /\ run[r].pc \in {"countRejected", "writeCounts"} /\ file = "rows" =>
       run[r].loaded = VehicleCount
  /\ run[r].pc = "writeCounts" /\ file = "rows" => run[r].rejected = Cardinality(rejected)
  /\ run[r].pc = "writeStatus" /\ file = "rows" => Counted

Concluded == job.status \in {"COMPLETED", "PARTIAL"}

CountsInv ==
  /\ \A r, q \in Runs : Active(r) /\ Active(q) => r = q
  /\ \A r \in Runs : RunCounts(r)
  /\ Concluded =>
       /\ \A r \in Runs : run[r].pc \in {"idle", "started", "notify", "done", "dead"}
       /\ file = "rows" => Counted

SameRows == UNCHANGED <<listing, bare, rejected, file>>

(* What is counted is what the tables hold.                                *)
LEMMA SameRowsCount ==
  ASSUME SameRows
  PROVE  UNCHANGED <<VehicleCount, Cardinality(rejected)>>
BY DEF SameRows, VehicleCount

(* A step that leaves executions, tasks and rows alone, and may take the   *)
(* verdict back but not make one.                                          *)
LEMMA BystanderCounts ==
  ASSUME CountsInv, SameRows, UNCHANGED <<run, task>>, UNCHANGED <<job.valid, job.invalid>>,
         Concluded' => Concluded
  PROVE  CountsInv'
BY SameRowsCount DEF CountsInv, RunCounts, Counted, Active, SameRows

(* One execution moves on its own, the only active one.                    *)
LEMMA LoneRunCounts ==
  ASSUME TypeInv, CountsInv, NEW r \in Runs, NEW state, RunBecomes(r, state),
         \A q \in Runs : Active(q) => q = r,
         \A q \in Runs : q # r => task'[q] = task[q],
         run'[r] = state => RunCounts(r)',
         Concluded' =>
           /\ state.pc \in {"idle", "started", "notify", "done", "dead"}
           /\ file' = "rows" => Counted'
  PROVE  CountsInv'
<1>1. run'[r] = state /\ \A q \in Runs : q # r => run'[q] = run[q]
  BY DEF TypeInv, TypeOK, LocalTypeOK, RunBecomes
<1>2. ASSUME NEW q \in Runs, q # r
      PROVE  ~Active(q)' /\ RunCounts(q)' /\ run'[q].pc \in {"idle", "done", "dead"}
  BY <1>1, <1>2 DEF Active, RunCounts, CountsInv
<1>. QED
  BY <1>1, <1>2 DEF CountsInv, Active

(* While a chunk is at work its execution is in its fan-out, and nothing   *)
(* is concluded or counted.                                                *)
LEMMA FanOutCounts ==
  ASSUME TypeInv, CountsInv, NEW r \in Runs, run[r].pc = "fanOut", UNCHANGED <<run, job>>,
         \A q \in Runs : q # r => task'[q] = task[q]
  PROVE  CountsInv'
<1>1. \A q \in Runs : q # r => run[q].pc \in {"idle", "done", "dead"}
  BY DEF CountsInv, Active
<1>2. ~Concluded'
  BY DEF CountsInv, Concluded
<1>3. \A q \in Runs : RunCounts(q)'
  BY <1>1 DEF CountsInv, RunCounts
<1>. QED
  BY <1>2, <1>3 DEF CountsInv, Active

(* The requests of the API count nothing and conclude nothing.             *)
LEMMA RequestCounts ==
  ASSUME TypeInv, CountsInv, NEW q \in Requests, Serve(q)
  PROVE  CountsInv'
<1> USE DEF SetStatus, SameRows, storeVars, Concluded
<1>0. /\ job \in [status : Status, total : Nat, valid : Nat, invalid : Nat]
      /\ UNCHANGED <<run, task>>
  BY DEF TypeInv, TypeOK, StoreTypeOK, Serve, localVars, chunkVars
<1>1. SameRows /\ UNCHANGED <<job.valid, job.invalid>> /\ (Concluded' => Concluded)
  <2>1. CASE UploadCreate(q) \/ PresignUpload(q)
    BY <1>0, <2>1 DEF UploadCreate, PresignUpload
  <2>2. CASE UploadFail(q) \/ CompleteFail(q)
    BY <1>0, <2>2 DEF UploadFail, CompleteFail
  <2>3. CASE \/ UploadStore(q) \/ UploadPublish(q) \/ CompleteRead(q) \/ CompleteCheckCsv(q)
             \/ CompleteCheckZip(q) \/ CompletePublish(q)
    BY <2>3 DEF UploadStore, UploadPublish, CompleteRead, CompleteCheckCsv, CompleteCheckZip,
                CompletePublish
  <2>. QED
    BY <2>1, <2>2, <2>3 DEF Serve, RequestStep
<1>. QED
  BY <1>0, <1>1, BystanderCounts

(* An execution that starts finds no other under way.                      *)
LEMMA StartCounts ==
  ASSUME TypeInv, CountsInv, ~Overlap, NEW r \in Runs, MayStart(r),
         RunBecomes(r, [run[r] EXCEPT !.pc = "started"]), UNCHANGED <<storeVars, chunkVars>>
  PROVE  CountsInv'
<1> DEFINE state == [run[r] EXCEPT !.pc = "started"]
<1>1. state.pc = "started" /\ run[r].pc = "idle" /\ \A q \in Runs : ~Active(q)
  BY DEF TypeInv, TypeOK, LocalTypeOK, RunState, MayStart, RunAt, Active
<1>2. RunBecomes(r, state)
  OBVIOUS
<1>. HIDE DEF state
<1>3. ASSUME run'[r] = state PROVE RunCounts(r)'
  BY <1>1, <1>3 DEF RunCounts, CountsInv, chunkVars
<1>4. Concluded' => (file' = "rows" => Counted')
  BY SameRowsCount DEF CountsInv, Counted, Concluded, SameRows, storeVars
<1>. QED
  BY <1>1, <1>2, <1>3, <1>4, LoneRunCounts DEF chunkVars

(* What an execution does keeps the counts it carries those of the tables, *)
(* and it concludes only on what it has counted.                           *)
LEMMA RunStepCounts ==
  ASSUME TypeInv, CountsInv, "db" \notin Faults, NEW r \in Runs, NEW readable \in BOOLEAN,
         RunStep(r, readable) \/ RunFault(r)
  PROVE  CountsInv'
<1> USE DEF RunAt, Active
<1>0. /\ run[r] \in RunState /\ StoreTypeOK /\ ChunkTypeOK /\ RunCounts(r)
      /\ job \in [status : Status, total : Nat, valid : Nat, invalid : Nat]
  BY DEF TypeInv, TypeOK, LocalTypeOK, CountsInv, StoreTypeOK
<1>1. ASSUME Active(r) PROVE \A q \in Runs : Active(q) => q = r
  BY <1>1 DEF CountsInv
<1>2. ASSUME run[r].pc \notin {"idle", "started", "notify", "done", "dead"} PROVE ~Concluded
  BY <1>2 DEF CountsInv

(* A move to a place where nothing is counted and nothing concluded.       *)
<1>3. ASSUME NEW state, RunBecomes(r, state), UNCHANGED task, Active(r), run[r].pc # "fanOut",
             state.pc \notin {"countRejected", "writeCounts", "writeStatus"}, ~Concluded'
      PROVE  CountsInv'
  <2>1. ASSUME run'[r] = state PROVE RunCounts(r)'
    BY <1>0, <1>3, <2>1 DEF RunCounts
  <2>. QED
    BY <1>1, <1>3, <2>1, LoneRunCounts
<1>4. CASE MarkProcessing(r)
  <2> DEFINE state == [run[r] EXCEPT !.pc = "prepare"]
  <2>1. /\ RunBecomes(r, state) /\ state.pc = "prepare" /\ UNCHANGED task
        /\ run[r].pc = "started" /\ job'.status = "PROCESSING"
    BY <1>0, <1>4 DEF MarkProcessing, RunState, chunkVars, SetStatus
  <2>. HIDE DEF state
  <2>. QED
    BY <1>3, <2>1 DEF Concluded
<1>5. CASE RejectFile(r, readable)
  <2> DEFINE state == [run[r] EXCEPT !.pc = "failing"]
  <2>1. /\ RunBecomes(r, state) /\ state.pc = "failing" /\ UNCHANGED <<task, job>>
        /\ run[r].pc = "prepare"
    BY <1>0, <1>5 DEF RejectFile, RunState, chunkVars
  <2>. HIDE DEF state
  <2>. QED
    BY <1>2, <1>3, <2>1 DEF Concluded
<1>6. CASE EmptyInventory(r, readable)
  <2> DEFINE state == [run[r] EXCEPT !.pc = "writeCounts", !.verdict = "COMPLETED"]
  <2>1. /\ RunBecomes(r, state) /\ state.pc = "writeCounts" /\ UNCHANGED task
        /\ run[r].pc = "prepare" /\ file' # "rows" /\ job'.status = job.status
    BY <1>0, <1>6 DEF EmptyInventory, RunState, chunkVars
  <2>. HIDE DEF state
  <2>2. ASSUME run'[r] = state PROVE RunCounts(r)'
    BY <1>0, <2>1, <2>2 DEF RunCounts
  <2>. QED
    BY <1>1, <1>2, <2>1, <2>2, LoneRunCounts DEF Concluded
<1>7. CASE FanOut(r, readable)
  <2> DEFINE state == [run[r] EXCEPT !.pc = "fanOut", !.skip = loadedLog, !.images = "busy"]
  <2>1. /\ RunBecomes(r, state) /\ state.pc = "fanOut"
        /\ run[r].pc = "prepare" /\ job'.status = job.status
    BY <1>0, <1>7 DEF FanOut, RunState
  <2>2. \A q \in Runs : q # r => task'[q] = task[q]
    BY <1>0, <1>7 DEF FanOut, TasksBegin, ChunkTypeOK
  <2>. HIDE DEF state
  <2>3. ASSUME run'[r] = state PROVE RunCounts(r)'
    BY <2>1, <2>3 DEF RunCounts
  <2>. QED
    BY <1>1, <1>2, <2>1, <2>2, <2>3, LoneRunCounts DEF Concluded
<1>8. CASE ImagesEnd(r)
  <2> DEFINE state == [run[r] EXCEPT !.images = "done"]
  <2>1. /\ RunBecomes(r, state) /\ state.pc = "fanOut" /\ UNCHANGED <<task, job>>
        /\ run[r].pc = "fanOut"
    BY <1>0, <1>8 DEF ImagesEnd, RunState, chunkVars, storeVars
  <2>. HIDE DEF state
  <2>2. ASSUME run'[r] = state PROVE RunCounts(r)'
    BY <2>1, <2>2 DEF RunCounts
  <2>. QED
    BY <1>1, <1>2, <2>1, <2>2, LoneRunCounts DEF Concluded
<1>9. CASE CountLoaded(r)
  <2> DEFINE state == [run[r] EXCEPT !.pc = "countRejected", !.loaded = VehicleCount]
  <2>1. /\ RunBecomes(r, state) /\ state.pc = "countRejected" /\ state.loaded = VehicleCount
        /\ run[r].pc = "fanOut" /\ AllSettled(r) /\ UNCHANGED <<task, job>> /\ SameRows
    BY <1>0, <1>9 DEF CountLoaded, RunState, chunkVars, storeVars, SameRows
  <2>. HIDE DEF state
  <2>2. ASSUME run'[r] = state PROVE RunCounts(r)'
    BY <2>1, <2>2, SameRowsCount DEF RunCounts, AllSettled
  <2>. QED
    BY <1>1, <1>2, <2>1, <2>2, LoneRunCounts DEF Concluded
<1>10. CASE CountRejected(r)
  <2> DEFINE state == [run[r] EXCEPT !.pc = "writeCounts", !.rejected = Cardinality(rejected),
                !.verdict = FinalStatus(run[r].loaded, Cardinality(rejected), AnyFailed(r))]
  <2>1. /\ state.pc = "writeCounts" /\ state.rejected = Cardinality(rejected)
        /\ state.loaded = run[r].loaded
    BY <1>0 DEF RunState
  <2>2. /\ RunBecomes(r, state) /\ run[r].pc = "countRejected" /\ UNCHANGED <<task, job>>
        /\ SameRows
    BY <1>10 DEF CountRejected, chunkVars, storeVars, SameRows
  <2>. HIDE DEF state
  <2>3. ASSUME run'[r] = state PROVE RunCounts(r)'
    BY <1>0, <2>1, <2>2, <2>3, SameRowsCount DEF RunCounts, SameRows
  <2>. QED
    BY <1>1, <1>2, <2>1, <2>2, <2>3, LoneRunCounts DEF Concluded
<1>11. CASE WriteCounts(r)
  <2> DEFINE state == [run[r] EXCEPT !.pc = "writeStatus"]
  <2>1. /\ RunBecomes(r, state) /\ state.pc = "writeStatus" /\ run[r].pc = "writeCounts"
        /\ UNCHANGED task /\ SameRows /\ job'.status = job.status
        /\ job'.valid = run[r].loaded /\ job'.invalid = run[r].rejected
    BY <1>0, <1>11 DEF WriteCounts, RunState, chunkVars, SameRows
  <2>. HIDE DEF state
  <2>2. ASSUME run'[r] = state PROVE RunCounts(r)'
    BY <1>0, <2>1, <2>2, SameRowsCount DEF RunCounts, SameRows, Counted
  <2>. QED
    BY <1>1, <1>2, <2>1, <2>2, LoneRunCounts DEF Concluded
<1>12. CASE WriteStatus(r)
  <2>1. PICK state : /\ RunBecomes(r, state) /\ state.pc \in {"notify", "done"}
    <3> DEFINE notifies == [run[r] EXCEPT !.pc = "notify"]
               ends     == [IdleRun EXCEPT !.pc = "done", !.skip = run[r].skip]
    <3>1. notifies.pc = "notify"
      BY <1>0 DEF RunState
    <3>2. ends.pc = "done"
      BY DEF IdleRun
    <3>3. RunBecomes(r, notifies) \/ RunBecomes(r, ends)
      BY <1>12 DEF WriteStatus, RunEnds
    <3>. HIDE DEF notifies, ends
    <3>. QED
      BY <3>1, <3>2, <3>3
  <2>2. /\ run[r].pc = "writeStatus" /\ UNCHANGED task /\ SameRows
        /\ UNCHANGED <<job.valid, job.invalid>>
    BY <1>0, <1>12 DEF WriteStatus, SetStatus, chunkVars, SameRows
  <2>3. file' = "rows" => Counted'
    BY <1>0, <2>2, SameRowsCount DEF RunCounts, SameRows, Counted
  <2>4. ASSUME run'[r] = state PROVE RunCounts(r)'
    BY <1>0, <2>1, <2>2, <2>4 DEF RunCounts
  <2>. QED
    BY <1>1, <2>1, <2>2, <2>3, <2>4, LoneRunCounts
<1>13. CASE Notify(r)
  <2> DEFINE state == [IdleRun EXCEPT !.pc = "done", !.skip = run[r].skip]
  <2>1. /\ RunBecomes(r, state) /\ state.pc = "done" /\ run[r].pc = "notify"
        /\ UNCHANGED <<task, job>> /\ SameRows
    BY <1>13 DEF Notify, RunEnds, IdleRun, chunkVars, SameRows
  <2>. HIDE DEF state
  <2>2. ASSUME run'[r] = state PROVE RunCounts(r)'
    BY <1>0, <2>1, <2>2 DEF RunCounts
  <2>3. Concluded' => (file' = "rows" => Counted')
    BY <2>1, SameRowsCount DEF CountsInv, Counted, Concluded, SameRows
  <2>. QED
    BY <1>1, <2>1, <2>2, <2>3, LoneRunCounts
<1>14. CASE FailRun(r)
  <2> DEFINE state == [IdleRun EXCEPT !.pc = "done", !.skip = run[r].skip]
  <2>1. /\ RunBecomes(r, state) /\ state.pc = "done" /\ run[r].pc = "failing"
        /\ UNCHANGED task /\ job'.status = "FAILED"
    BY <1>0, <1>14 DEF FailRun, RunEnds, IdleRun, chunkVars, SetStatus
  <2>. HIDE DEF state
  <2>. QED
    BY <1>3, <2>1 DEF Concluded
<1>15. CASE RunThrows(r)
  <2> DEFINE state == [IdleRun EXCEPT !.pc = "failing", !.skip = run[r].skip]
  <2>1. /\ RunBecomes(r, state) /\ state.pc = "failing" /\ run[r].pc = "prepare"
        /\ UNCHANGED <<task, job>>
    BY <1>15 DEF RunThrows, IdleRun, chunkVars, storeVars
  <2>. HIDE DEF state
  <2>. QED
    BY <1>2, <1>3, <2>1 DEF Concluded
<1>16. ASSUME NEW c \in Chunks, TaskStep(r, c) \/ TaskFault(r, c) PROVE CountsInv'
  <2>1. task[r][c].pc \notin Settled \cup {"idle"}
    BY <1>16 DEF TaskStep, TaskFault, TaskAt, Settled, ClaimChunk, ChunkStep, JudgeRows,
         StageRows, FetchRows, InsertBatch, BatchConflict, InsertOne, RecordRefused,
         LogLoaded, RetryLoad, FailChunk, InLoad, InRowStages
  <2>2. run[r].pc = "fanOut"
    BY <1>0, <2>1 DEF RunCounts
  <2>3. UNCHANGED <<run, job>>
    BY <1>16 DEF TaskStep, TaskFault, ClaimChunk, ChunkStep, JudgeRows, StageRows, FetchRows,
         InsertBatch, BatchConflict, InsertOne, RecordRefused, LogLoaded, RetryLoad,
         FailChunk, storeVars
  <2>4. PICK state : TaskBecomes(r, c, state)
    BY <1>16 DEF TaskStep, TaskFault, ClaimChunk, ChunkStep, JudgeRows, StageRows, FetchRows,
         InsertBatch, BatchConflict, InsertOne, RecordRefused, LogLoaded, RetryLoad,
         FailChunk, TaskEnds
  <2>5. \A q \in Runs : q # r => task'[q] = task[q]
    BY <1>0, <2>4 DEF TaskBecomes, ChunkTypeOK
  <2>. QED
    BY <2>2, <2>3, <2>5, FanOutCounts
<1>. QED
  BY <1>4, <1>5, <1>6, <1>7, <1>8, <1>9, <1>10, <1>11, <1>12, <1>13, <1>14, <1>15, <1>16
  DEF RunStep, RunFault

(* A process that dies takes its executions' tasks with it.                *)
LEMMA KillCounts ==
  ASSUME TypeInv, CountsInv, NEW R, Kill(R), UNCHANGED <<storeVars>>
  PROVE  CountsInv'
<1>0. run \in [Runs -> RunState] /\ ChunkTypeOK
  BY DEF TypeInv, TypeOK, LocalTypeOK
<1>1. ASSUME NEW r \in Runs
      PROVE  \/ run'[r] = run[r] /\ (r \notin R => task'[r] = task[r])
             \/ run'[r].pc = "dead" /\ r \in R
  <2> DEFINE dead == [IdleRun EXCEPT !.pc = "dead"]
  <2>1. dead.pc = "dead"
    BY DEF IdleRun
  <2>2. run' = [q \in Runs |-> IF q \in R /\ run[q].pc # "idle" THEN dead ELSE run[q]]
    BY DEF Kill
  <2>3. r \notin R => task'[r] = task[r]
    BY <1>0 DEF Kill, TasksVanish, ChunkTypeOK
  <2>. HIDE DEF dead
  <2>. QED
    BY <2>1, <2>2, <2>3
<1>2. \A r \in R \cap Runs, c \in Chunks : task'[r][c].pc = "idle"
  BY DEF Kill, TasksVanish, IdleTask
<1>3. SameRows /\ UNCHANGED <<job, VehicleCount, Cardinality(rejected)>>
  BY SameRowsCount DEF SameRows, storeVars
<1>4. \A r \in R \cap Runs : run'[r].pc \in {"idle", "dead"}
  <2> DEFINE dead == [IdleRun EXCEPT !.pc = "dead"]
  <2>1. dead.pc = "dead"
    BY DEF IdleRun
  <2>2. run' = [r \in Runs |-> IF r \in R /\ run[r].pc # "idle" THEN dead ELSE run[r]]
    BY DEF Kill
  <2>. HIDE DEF dead
  <2>. QED
    BY <2>1, <2>2
<1>5. ASSUME NEW r \in Runs PROVE RunCounts(r)'
  <2>1. CASE r \in R
    BY <1>2, <1>4, <2>1 DEF RunCounts
  <2>2. CASE r \notin R
    BY <1>1, <1>3, <2>2 DEF RunCounts, CountsInv, Counted, SameRows
  <2>. QED
    BY <2>1, <2>2
<1>6. \A r \in Runs : Active(r)' => Active(r)
  BY <1>1 DEF Active
<1>7. Concluded' =>
        /\ \A r \in Runs : run'[r].pc \in {"idle", "started", "notify", "done", "dead"}
        /\ file' = "rows" => Counted'
  BY <1>1, <1>3 DEF Concluded, CountsInv, Counted, SameRows
<1>. QED
  BY <1>5, <1>6, <1>7 DEF CountsInv

(* CountsInv is inductive.                                                 *)
LEMMA StepCounts ==
  ASSUME ~Overlap, "db" \notin Faults
  PROVE  TypeInv /\ CountsInv /\ [Next]_vars => CountsInv'
<1> SUFFICES ASSUME TypeInv, CountsInv, [Next]_vars PROVE CountsInv'
  OBVIOUS
<1>1. ASSUME UNCHANGED <<job, listing, bare, rejected, file, run, task>> PROVE CountsInv'
  BY <1>1, BystanderCounts DEF SameRows, Concluded
<1>2. ASSUME NEW q \in Requests, Serve(q) PROVE CountsInv'
  BY <1>2, RequestCounts
<1>3. ASSUME NEW f \in Files, BrowserPut(f), UNCHANGED localVars PROVE CountsInv'
  BY <1>1, <1>3 DEF BrowserPut, storeVars, localVars, chunkVars
<1>4. CASE Deliver
  <2>1. PICK r \in ServiceRuns : TakeMessage(r)
    BY <1>4 DEF Deliver
  <2>2. r \in Runs
    BY CompositionAssumption
  <2>. QED
    BY <2>1, <2>2, StartCounts DEF TakeMessage
<1>5. ASSUME NEW r \in ToolRuns, StartTool(r) PROVE CountsInv'
  <2>1. r \in Runs
    BY CompositionAssumption
  <2>. QED
    BY <1>5, <2>1, StartCounts DEF StartTool
<1>6. ASSUME NEW r \in Runs, Execute(r) \/ RunFault(r) PROVE CountsInv'
  <2>1. Readable \in BOOLEAN
    BY DEF Readable
  <2>. QED
    BY <1>6, <2>1, RunStepCounts DEF Execute
<1>7. CASE OtherJobs /\ UNCHANGED <<apiVars, localVars>>
  BY <1>1, <1>7 DEF OtherJobs, OtherJobLists, OtherJobWithdraws, localVars, chunkVars
<1>8. CASE ServiceCrash
  BY <1>8, KillCounts DEF ServiceCrash
<1>9. ASSUME NEW r \in ToolRuns, ToolCrash(r) PROVE CountsInv'
  BY <1>9, KillCounts DEF ToolCrash
<1>10. CASE UNCHANGED vars
  BY <1>1, <1>10 DEF vars, storeVars, localVars, chunkVars
<1>. QED
  BY <1>2, <1>3, <1>4, <1>5, <1>6, <1>7, <1>8, <1>9, <1>10 DEF Next, Environment

(* The counts the dealer sees are those of the database, whatever crashes  *)
(* between two awaits and whatever a later execution resumes; executions   *)
(* that overlap, or a database that rejects statements, are excluded.      *)
THEOREM CountsAreTrue ==
  ASSUME ~Overlap, "db" \notin Faults
  PROVE  Spec => []CountsMatchDatabase
<1>1. Init => CountsInv
  BY DEF Init, StoreInit, LocalInit, ChunkInit, IdleTask, IdleRun, CountsInv, RunCounts, Active,
         Settled, Concluded
<1>2. TypeInv /\ CountsInv /\ [Next]_vars => CountsInv'
  BY StepCounts
<1>3. CountsInv => CountsMatchDatabase
  BY DEF CountsInv, CountsMatchDatabase, Concluded, Counted
<1>4. Init => TypeInv
  BY InitTyped
<1>5. TypeInv /\ [Next]_vars => TypeInv'
  BY StepTyped
<1>. QED
  BY <1>1, <1>2, <1>3, <1>4, <1>5, PTL DEF Spec

----
(* FailedNoticeIsTrue, under the same two hypotheses: the verdict "FAILED" *)
(* of an execution that has counted no vehicle stays true until it is      *)
(* told, because nobody else inserts in the meantime.                      *)

RunNotice(r) ==
  /\ run[r].pc \in {"fanOut", "countRejected"} => file = "rows"
  /\ run[r].pc \in {"writeCounts", "writeStatus", "notify"} /\ run[r].verdict = "FAILED" =>
       VehicleCount = 0

NoticeInv == \A r \in Runs : RunNotice(r)

(* A verdict is "FAILED" without an error only if nothing was loaded.      *)
LEMMA FailedLoadsNothing ==
  ASSUME NEW loaded, NEW refused, NEW failed \in BOOLEAN,
         FinalStatus(loaded, refused, failed) = "FAILED"
  PROVE  loaded = 0
BY DEF FinalStatus

LEMMA BystanderNotice ==
  ASSUME NoticeInv, SameRows, UNCHANGED run
  PROVE  NoticeInv'
BY SameRowsCount DEF NoticeInv, RunNotice, SameRows

(* One execution moves, the only active one.                               *)
LEMMA LoneRunNotice ==
  ASSUME TypeInv, NEW r \in Runs, NEW state, RunBecomes(r, state),
         \A q \in Runs : Active(q) => q = r,
         run'[r] = state => RunNotice(r)'
  PROVE  NoticeInv'
<1>1. run'[r] = state /\ \A q \in Runs : q # r => run'[q] = run[q]
  BY DEF TypeInv, TypeOK, LocalTypeOK, RunBecomes
<1>2. ASSUME NEW q \in Runs, q # r PROVE RunNotice(q)'
  BY <1>1, <1>2 DEF Active, RunNotice
<1>. QED
  BY <1>1, <1>2 DEF NoticeInv

LEMMA StartNotice ==
  ASSUME TypeInv, ~Overlap, NEW r \in Runs, MayStart(r),
         RunBecomes(r, [run[r] EXCEPT !.pc = "started"])
  PROVE  NoticeInv'
<1> DEFINE state == [run[r] EXCEPT !.pc = "started"]
<1>1. state.pc = "started" /\ \A q \in Runs : ~Active(q)
  BY DEF TypeInv, TypeOK, LocalTypeOK, RunState, MayStart, RunAt, Active
<1>2. RunBecomes(r, state)
  OBVIOUS
<1>. HIDE DEF state
<1>3. run'[r] = state => RunNotice(r)'
  BY <1>1 DEF RunNotice
<1>. QED
  BY <1>1, <1>2, <1>3, LoneRunNotice

LEMMA KillNotice ==
  ASSUME TypeInv, NoticeInv, NEW R, Kill(R), UNCHANGED storeVars
  PROVE  NoticeInv'
<1>1. ASSUME NEW r \in Runs PROVE run'[r] = run[r] \/ run'[r].pc = "dead"
  <2> DEFINE dead == [IdleRun EXCEPT !.pc = "dead"]
  <2>1. dead.pc = "dead"
    BY DEF IdleRun
  <2>2. run' = [q \in Runs |-> IF q \in R /\ run[q].pc # "idle" THEN dead ELSE run[q]]
    BY DEF Kill
  <2>. HIDE DEF dead
  <2>. QED
    BY <2>1, <2>2
<1>2. UNCHANGED <<VehicleCount, file>>
  BY SameRowsCount DEF SameRows, storeVars
<1>. QED
  BY <1>1, <1>2 DEF NoticeInv, RunNotice

(* An execution settles on "FAILED" over an empty table, and rows land     *)
(* only in a fan-out, which no execution with a verdict is in.             *)
LEMMA RunStepNotice ==
  ASSUME TypeInv, CountsInv, NoticeInv, NEW r \in Runs, NEW readable \in BOOLEAN,
         RunStep(r, readable) \/ RunFault(r)
  PROVE  NoticeInv'
<1> USE DEF RunAt, Active
<1>0. /\ run[r] \in RunState /\ ChunkTypeOK /\ RunCounts(r) /\ RunNotice(r)
  BY DEF TypeInv, TypeOK, LocalTypeOK, CountsInv, NoticeInv
<1>1. ASSUME Active(r) PROVE \A q \in Runs : Active(q) => q = r
  BY <1>1 DEF CountsInv
(* A move to a place where there is no verdict yet, or no longer one.      *)
<1>2. ASSUME NEW state, RunBecomes(r, state), Active(r),
             state.pc \in {"prepare", "failing", "done"}
      PROVE  NoticeInv'
  BY <1>1, <1>2, LoneRunNotice DEF RunNotice
(* A move that keeps the verdict, and the rows.                            *)
<1>3. ASSUME NEW state, RunBecomes(r, state), SameRows, state.verdict = run[r].verdict,
             run[r].pc \in {"writeCounts", "writeStatus"},
             state.pc \in {"writeStatus", "notify"}
      PROVE  NoticeInv'
  <2>1. ASSUME run'[r] = state PROVE RunNotice(r)'
    BY <1>0, <1>3, <2>1, SameRowsCount DEF RunNotice
  <2>. QED
    BY <1>1, <1>3, <2>1, LoneRunNotice
<1>4. CASE MarkProcessing(r)
  <2> DEFINE state == [run[r] EXCEPT !.pc = "prepare"]
  <2>1. RunBecomes(r, state) /\ state.pc = "prepare" /\ run[r].pc = "started"
    BY <1>0, <1>4 DEF MarkProcessing, RunState
  <2>. HIDE DEF state
  <2>. QED
    BY <1>2, <2>1
<1>5. CASE RejectFile(r, readable)
  <2> DEFINE state == [run[r] EXCEPT !.pc = "failing"]
  <2>1. RunBecomes(r, state) /\ state.pc = "failing" /\ run[r].pc = "prepare"
    BY <1>0, <1>5 DEF RejectFile, RunState
  <2>. HIDE DEF state
  <2>. QED
    BY <1>2, <2>1
<1>6. CASE EmptyInventory(r, readable)
  <2> DEFINE state == [run[r] EXCEPT !.pc = "writeCounts", !.verdict = "COMPLETED"]
  <2>1. /\ RunBecomes(r, state) /\ state.pc = "writeCounts" /\ state.verdict = "COMPLETED"
        /\ run[r].pc = "prepare"
    BY <1>0, <1>6 DEF EmptyInventory, RunState
  <2>. HIDE DEF state
  <2>2. ASSUME run'[r] = state PROVE RunNotice(r)'
    BY <2>1, <2>2 DEF RunNotice
  <2>. QED
    BY <1>1, <2>1, <2>2, LoneRunNotice
<1>7. CASE FanOut(r, readable)
  <2> DEFINE state == [run[r] EXCEPT !.pc = "fanOut", !.skip = loadedLog, !.images = "busy"]
  <2>1. RunBecomes(r, state) /\ state.pc = "fanOut" /\ run[r].pc = "prepare" /\ file' = "rows"
    BY <1>0, <1>7 DEF FanOut, RunState
  <2>. HIDE DEF state
  <2>2. ASSUME run'[r] = state PROVE RunNotice(r)'
    BY <2>1, <2>2 DEF RunNotice
  <2>. QED
    BY <1>1, <2>1, <2>2, LoneRunNotice
<1>8. CASE ImagesEnd(r)
  <2> DEFINE state == [run[r] EXCEPT !.images = "done"]
  <2>1. RunBecomes(r, state) /\ state.pc = "fanOut" /\ run[r].pc = "fanOut" /\ file' = file
    BY <1>0, <1>8 DEF ImagesEnd, RunState, storeVars
  <2>. HIDE DEF state
  <2>2. ASSUME run'[r] = state PROVE RunNotice(r)'
    BY <1>0, <2>1, <2>2 DEF RunNotice
  <2>. QED
    BY <1>1, <2>1, <2>2, LoneRunNotice
<1>9. CASE CountLoaded(r)
  <2> DEFINE state == [run[r] EXCEPT !.pc = "countRejected", !.loaded = VehicleCount]
  <2>1. /\ RunBecomes(r, state) /\ state.pc = "countRejected"
        /\ run[r].pc = "fanOut" /\ file' = file
    BY <1>0, <1>9 DEF CountLoaded, RunState, storeVars
  <2>. HIDE DEF state
  <2>2. ASSUME run'[r] = state PROVE RunNotice(r)'
    BY <1>0, <2>1, <2>2 DEF RunNotice
  <2>. QED
    BY <1>1, <2>1, <2>2, LoneRunNotice
<1>10. CASE CountRejected(r)
  <2> DEFINE state == [run[r] EXCEPT !.pc = "writeCounts", !.rejected = Cardinality(rejected),
                !.verdict = FinalStatus(run[r].loaded, Cardinality(rejected), AnyFailed(r))]
  <2>1. /\ state.pc = "writeCounts"
        /\ state.verdict = FinalStatus(run[r].loaded, Cardinality(rejected), AnyFailed(r))
    BY <1>0 DEF RunState
  <2>2. RunBecomes(r, state) /\ run[r].pc = "countRejected" /\ SameRows
    BY <1>10 DEF CountRejected, storeVars, SameRows
  <2>. HIDE DEF state
  <2>3. run[r].loaded = VehicleCount
    BY <1>0, <2>2 DEF RunNotice, RunCounts
  <2>4. ASSUME state.verdict = "FAILED" PROVE VehicleCount' = 0
    <3>1. AnyFailed(r) \in BOOLEAN
      BY DEF AnyFailed
    <3>. QED
      BY <2>1, <2>2, <2>3, <2>4, <3>1, FailedLoadsNothing, SameRowsCount
  <2>5. ASSUME run'[r] = state PROVE RunNotice(r)'
    BY <2>1, <2>4, <2>5 DEF RunNotice
  <2>. QED
    BY <1>1, <2>2, <2>5, LoneRunNotice
<1>11. CASE WriteCounts(r)
  <2> DEFINE state == [run[r] EXCEPT !.pc = "writeStatus"]
  <2>1. /\ RunBecomes(r, state) /\ state.pc = "writeStatus" /\ run[r].pc = "writeCounts"
        /\ state.verdict = run[r].verdict /\ SameRows
    BY <1>0, <1>11 DEF WriteCounts, RunState, SameRows
  <2>. HIDE DEF state
  <2>. QED
    BY <1>3, <2>1
<1>12. CASE WriteStatus(r)
  <2>0. run[r].pc = "writeStatus" /\ SameRows
    BY <1>12 DEF WriteStatus, SameRows
  <2> DEFINE notifies == [run[r] EXCEPT !.pc = "notify"]
             ends     == [IdleRun EXCEPT !.pc = "done", !.skip = run[r].skip]
  <2>1. notifies.pc = "notify" /\ notifies.verdict = run[r].verdict
    BY <1>0 DEF RunState
  <2>2. ends.pc = "done"
    BY DEF IdleRun
  <2>3. RunBecomes(r, notifies) \/ RunBecomes(r, ends)
    BY <1>12 DEF WriteStatus, RunEnds
  <2>. HIDE DEF notifies, ends
  <2>4. CASE RunBecomes(r, notifies)
    BY <1>3, <2>0, <2>1, <2>4
  <2>5. CASE RunBecomes(r, ends)
    BY <1>2, <2>0, <2>2, <2>5
  <2>. QED
    BY <2>3, <2>4, <2>5
<1>13. CASE Notify(r) \/ FailRun(r)
  <2> DEFINE state == [IdleRun EXCEPT !.pc = "done", !.skip = run[r].skip]
  <2>1. RunBecomes(r, state) /\ state.pc = "done" /\ run[r].pc \in {"notify", "failing"}
    BY <1>13 DEF Notify, FailRun, RunEnds, IdleRun
  <2>. HIDE DEF state
  <2>. QED
    BY <1>2, <2>1
<1>14. CASE RunThrows(r)
  <2> DEFINE state == [IdleRun EXCEPT !.pc = "failing", !.skip = run[r].skip]
  <2>1. RunBecomes(r, state) /\ state.pc = "failing" /\ Active(r)
    BY <1>14 DEF RunThrows, IdleRun
  <2>. HIDE DEF state
  <2>. QED
    BY <1>2, <2>1
<1>15. ASSUME NEW c \in Chunks, TaskStep(r, c) \/ TaskFault(r, c) PROVE NoticeInv'
  <2>1. task[r][c].pc \notin Settled \cup {"idle"}
    BY <1>15 DEF TaskStep, TaskFault, TaskAt, Settled, ClaimChunk, ChunkStep, JudgeRows,
         StageRows, FetchRows, InsertBatch, BatchConflict, InsertOne, RecordRefused,
         LogLoaded, RetryLoad, FailChunk, InLoad, InRowStages
  <2>2. run[r].pc = "fanOut"
    BY <1>0, <2>1 DEF RunCounts
  <2>3. UNCHANGED <<run, file>>
    BY <1>15 DEF TaskStep, TaskFault, ClaimChunk, ChunkStep, JudgeRows, StageRows, FetchRows,
         InsertBatch, BatchConflict, InsertOne, RecordRefused, LogLoaded, RetryLoad,
         FailChunk, storeVars
  <2>4. ASSUME NEW q \in Runs PROVE RunNotice(q)'
    <3>1. CASE q = r
      BY <1>0, <2>2, <2>3, <3>1 DEF RunNotice
    <3>2. CASE q # r
      BY <1>1, <2>2, <2>3, <3>2 DEF RunNotice
    <3>. QED
      BY <3>1, <3>2
  <2>. QED
    BY <2>4 DEF NoticeInv
<1>. QED
  BY <1>4, <1>5, <1>6, <1>7, <1>8, <1>9, <1>10, <1>11, <1>12, <1>13, <1>14, <1>15
  DEF RunStep, RunFault

(* The requests of the API leave rows, executions and notices alone.       *)
LEMMA RequestTellsNobody ==
  ASSUME NEW q \in Requests, Serve(q)
  PROVE  SameRows /\ UNCHANGED <<run, notices>>
<1> USE DEF SameRows, storeVars
<1>1. UNCHANGED run
  BY DEF Serve, localVars
<1>2. CASE UploadCreate(q) \/ PresignUpload(q) \/ UploadFail(q) \/ CompleteFail(q)
  BY <1>1, <1>2 DEF UploadCreate, PresignUpload, UploadFail, CompleteFail
<1>3. CASE \/ UploadStore(q) \/ UploadPublish(q) \/ CompleteRead(q) \/ CompleteCheckCsv(q)
           \/ CompleteCheckZip(q) \/ CompletePublish(q)
  BY <1>1, <1>3 DEF UploadStore, UploadPublish, CompleteRead, CompleteCheckCsv,
       CompleteCheckZip, CompletePublish
<1>. QED
  BY <1>2, <1>3 DEF Serve, RequestStep

(* NoticeInv is kept by every step.                                        *)
LEMMA StepNotice ==
  ASSUME ~Overlap
  PROVE  TypeInv /\ CountsInv /\ NoticeInv /\ [Next]_vars => NoticeInv'
<1> SUFFICES ASSUME TypeInv, CountsInv, NoticeInv, [Next]_vars PROVE NoticeInv'
  OBVIOUS
<1>1. ASSUME UNCHANGED <<listing, bare, rejected, file, run>> PROVE NoticeInv'
  BY <1>1, BystanderNotice DEF SameRows
<1>2. ASSUME NEW q \in Requests, Serve(q) PROVE NoticeInv'
  BY <1>2, RequestTellsNobody, BystanderNotice
<1>3. ASSUME NEW f \in Files, BrowserPut(f), UNCHANGED localVars PROVE NoticeInv'
  BY <1>1, <1>3 DEF BrowserPut, storeVars, localVars
<1>4. CASE Deliver
  <2>1. PICK r \in ServiceRuns : TakeMessage(r)
    BY <1>4 DEF Deliver
  <2>2. r \in Runs
    BY CompositionAssumption
  <2>. QED
    BY <2>1, <2>2, StartNotice DEF TakeMessage
<1>5. ASSUME NEW r \in ToolRuns, StartTool(r) PROVE NoticeInv'
  <2>1. r \in Runs
    BY CompositionAssumption
  <2>. QED
    BY <1>5, <2>1, StartNotice DEF StartTool
<1>6. ASSUME NEW r \in Runs, Execute(r) \/ RunFault(r) PROVE NoticeInv'
  <2>1. Readable \in BOOLEAN
    BY DEF Readable
  <2>. QED
    BY <1>6, <2>1, RunStepNotice DEF Execute
<1>7. CASE OtherJobs /\ UNCHANGED <<apiVars, localVars>>
  BY <1>1, <1>7 DEF OtherJobs, OtherJobLists, OtherJobWithdraws, localVars
<1>8. CASE ServiceCrash
  BY <1>8, KillNotice DEF ServiceCrash
<1>9. ASSUME NEW r \in ToolRuns, ToolCrash(r) PROVE NoticeInv'
  BY <1>9, KillNotice DEF ToolCrash
<1>10. CASE UNCHANGED vars
  BY <1>1, <1>10 DEF vars, storeVars, localVars
<1>. QED
  BY <1>2, <1>3, <1>4, <1>5, <1>6, <1>7, <1>8, <1>9, <1>10 DEF Next, Environment

(* Only Notify tells anybody anything.                                     *)
LEMMA OnlyNotifyTells ==
  ASSUME TypeInv, [Next]_vars, notices' # notices
  PROVE  \E r \in Runs : Notify(r)
<1>1. ASSUME NEW q \in Requests, Serve(q) PROVE FALSE
  BY <1>1, RequestTellsNobody
<1>2. ASSUME NEW f \in Files, BrowserPut(f), UNCHANGED localVars PROVE FALSE
  BY <1>2 DEF BrowserPut, storeVars
<1>3. CASE Deliver
  BY <1>3 DEF Deliver, TakeMessage, storeVars
<1>4. ASSUME NEW r \in ToolRuns, StartTool(r) PROVE FALSE
  BY <1>4 DEF StartTool, storeVars
<1>5. ASSUME NEW r \in Runs, Execute(r) \/ RunFault(r) PROVE Notify(r)
  <2>1. RunStep(r, Readable) \/ RunFault(r)
    BY <1>5 DEF Execute
  <2>2. CASE \/ MarkProcessing(r) \/ RejectFile(r, Readable) \/ EmptyInventory(r, Readable)
             \/ FanOut(r, Readable) \/ WriteCounts(r) \/ WriteStatus(r) \/ FailRun(r)
    BY <2>2 DEF MarkProcessing, RejectFile, EmptyInventory, FanOut, WriteCounts, WriteStatus,
         FailRun
  <2>3. CASE ImagesEnd(r) \/ CountLoaded(r) \/ CountRejected(r) \/ RunThrows(r)
    BY <2>3 DEF ImagesEnd, CountLoaded, CountRejected, RunThrows, storeVars
  <2>4. ASSUME NEW c \in Chunks, TaskStep(r, c) \/ TaskFault(r, c) PROVE FALSE
    BY <2>4 DEF TaskStep, TaskFault, ClaimChunk, ChunkStep, JudgeRows, StageRows, FetchRows,
         InsertBatch, BatchConflict, InsertOne, RecordRefused, LogLoaded, RetryLoad,
         FailChunk, storeVars
  <2>. QED
    BY <2>1, <2>2, <2>3, <2>4 DEF RunStep, RunFault
<1>6. CASE OtherJobs /\ UNCHANGED <<apiVars, localVars>>
  BY <1>6 DEF OtherJobs, OtherJobLists, OtherJobWithdraws
<1>7. CASE ServiceCrash
  BY <1>7 DEF ServiceCrash, storeVars
<1>8. ASSUME NEW r \in ToolRuns, ToolCrash(r) PROVE FALSE
  BY <1>8 DEF ToolCrash, storeVars
<1>9. CASE UNCHANGED vars
  BY <1>9 DEF vars, storeVars
<1>. QED
  BY <1>1, <1>2, <1>3, <1>4, <1>5, <1>6, <1>7, <1>8, <1>9 DEF Next, Environment

(* A dealer who is told that no listings were created has none of this     *)
(* job, whatever crashed before and whatever was resumed, where executions *)
(* do not overlap and the database rejects no statement.                   *)
THEOREM FailedNoticesAreTrue ==
  ASSUME ~Overlap, "db" \notin Faults
  PROVE  Spec => FailedNoticeIsTrue
<1>1. Init => TypeInv /\ CountsInv /\ NoticeInv
  <2>1. Init => CountsInv /\ NoticeInv
    BY DEF Init, StoreInit, LocalInit, ChunkInit, IdleTask, IdleRun, CountsInv, RunCounts,
           Active, Settled, Concluded, NoticeInv, RunNotice
  <2>. QED
    BY <2>1, InitTyped
<1>2. TypeInv /\ CountsInv /\ NoticeInv /\ [Next]_vars => (TypeInv /\ CountsInv /\ NoticeInv)'
  BY StepTyped, StepCounts, StepNotice
<1>3. ASSUME TypeInv, NoticeInv, [Next]_vars
      PROVE  [("FAILED" \in notices' \ notices) => VehicleCount = 0]_storeVars
  <2> SUFFICES ASSUME "FAILED" \in notices' \ notices PROVE VehicleCount = 0
    OBVIOUS
  <2>1. PICK r \in Runs : Notify(r)
    BY <1>3, OnlyNotifyTells
  <2>2. run[r].pc = "notify" /\ run[r].verdict = "FAILED"
    BY <2>1 DEF Notify, RunAt
  <2>. QED
    BY <1>3, <2>2 DEF NoticeInv, RunNotice
<1>. QED
  BY <1>1, <1>2, <1>3, PTL DEF Spec, FailedNoticeIsTrue
====
