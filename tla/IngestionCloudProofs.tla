---- MODULE IngestionCloudProofs ----
(***************************************************************************)
(* Proofs about IngestionCloud, for every inventory, number of chunks,     *)
(* executions, requests, retry budget and fault class: TypeCorrect;        *)
(* MapAccountsForFile; CloudCompletedIsComplete; CloudRefinement of        *)
(* UploadLifecycle, the abstract job the in-process queue implements too.  *)
(*                                                                         *)
(* The chunk accounts are those of ChunkProofs. ExecAccounts says what an  *)
(* execution of the state machine may rely on: an envelope list means that *)
(* every chunk was logged loaded, and that stays so while orphaned Lambdas *)
(* and redelivered executions go on.                                       *)
(***************************************************************************)
EXTENDS IngestionCloud, ChunkProofs

(* Counting needs finite tables: TLC's states have no others.              *)
TypeInv == TypeOK /\ IsFiniteSet(bare)

(* ExecBecomes leaves executions of the right shape.                       *)
LEMMA ExecTyped ==
  ASSUME CloudTypeOK, NEW r \in Runs, NEW state \in ExecState, ExecBecomes(r, state)
  PROVE  exec' \in [Runs -> ExecState]
BY DEF CloudTypeOK, ExecBecomes

(* So does a move to another state of the machine ...                      *)
LEMMA ExecGotoTyped ==
  ASSUME CloudTypeOK, NEW r \in Runs, NEW pc \in ExecPc, ExecGoto(r, pc)
  PROVE  exec' \in [Runs -> ExecState]
<1>1. [exec[r] EXCEPT !.pc = pc] \in ExecState
  BY DEF CloudTypeOK, ExecState
<1>. QED
  BY <1>1, ExecTyped DEF ExecGoto

(* ... a Catch ...                                                         *)
LEMMA CaughtTyped ==
  ASSUME CloudTypeOK, NEW r \in Runs, Caught(r)
  PROVE  exec' \in [Runs -> ExecState]
<1>1. [exec[r] EXCEPT !.pc = "markFailed", !.attempt = 0] \in ExecState
  BY DEF CloudTypeOK, ExecState, ExecPc
<1>. QED
  BY <1>1, ExecTyped DEF Caught

(* ... and an attempt of Aggregate that throws.                            *)
LEMMA ThrowsTyped ==
  ASSUME CloudTypeOK, NEW r \in Runs, AggregateThrows(r)
  PROVE  exec' \in [Runs -> ExecState]
<1>1. exec[r] \in ExecState /\ exec[r].attempt + 1 \in Nat
  BY DEF CloudTypeOK, ExecState
<1>2. [exec[r] EXCEPT !.pc = "countLoaded", !.attempt = @ + 1] \in ExecState
  BY <1>1 DEF ExecState, ExecPc
<1>. QED
  BY <1>2, ExecTyped, CaughtTyped DEF AggregateThrows

(* The initial states have their types.                                    *)
LEMMA InitTyped == Init => TypeInv
<1> SUFFICES ASSUME Init PROVE TypeInv
  OBVIOUS
<1>1. StoreTypeOK
  BY StoreAssumption DEF Init, StoreInit, StoreTypeOK, Status, Terminal
<1>2. ApiTypeOK
  BY ApiAssumption DEF Init, ApiInit, ApiTypeOK, ReqPc
<1>3. ChunkTypeOK
  BY DEF Init, CloudInit, ChunkInit, ChunkTypeOK, IdleTask, TaskState, TaskPc
<1>4. exec \in [Runs -> ExecState]
  BY DEF Init, CloudInit, IdleExec, ExecState, ExecPc
<1>5. IsFiniteSet(bare)
  BY FS_EmptySet DEF Init, StoreInit
<1>. QED
  BY <1>1, <1>2, <1>3, <1>4, <1>5 DEF TypeInv, TypeOK, CloudTypeOK

(* What the Map does with a chunk besides running its stages: start it,    *)
(* retry its Load, give it up.                                             *)
LEMMA MapTaskTyped ==
  ASSUME ChunkTypeOK, NEW r \in Runs, NEW c \in Chunks,
         StartIteration(r, c) \/ RetryLoad(r, c) \/ FailIteration(r, c)
  PROVE  ChunkTypeOK' /\ UNCHANGED <<storeVars, exec>>
<1>0. task[r][c] \in TaskState
  BY DEF ChunkTypeOK
<1>1. CASE StartIteration(r, c)
  <2>1. [task[r][c] EXCEPT !.pc = "rows"] \in TaskState
    BY <1>0 DEF TaskState, TaskPc
  <2>. QED
    BY <1>1, <2>1, TaskTyped DEF StartIteration, ChunkTypeOK
<1>2. CASE RetryLoad(r, c)
  <2>1. task[r][c].attempt + 1 \in Nat
    BY <1>0 DEF TaskState
  <2>2. [IdleTask EXCEPT !.pc = "fetch", !.attempt = task[r][c].attempt + 1] \in TaskState
    BY <2>1 DEF IdleTask, TaskState, TaskPc
  <2>. QED
    BY <1>2, <2>2, TaskTyped DEF RetryLoad, ChunkTypeOK
<1>3. CASE FailIteration(r, c)
  BY <1>3, TaskEndsTyped DEF FailIteration, ChunkTypeOK, TaskPc
<1>. QED
  BY <1>1, <1>2, <1>3

(* No state of an execution, and no fault in one, leaves the tables        *)
(* ill-typed.                                                              *)
LEMMA ExecStepTyped ==
  ASSUME TypeInv, NEW r \in Runs, NEW readable \in BOOLEAN,
         ExecStep(r, readable) \/ ExecFault(r)
  PROVE  StoreTypeOK' /\ CloudTypeOK' /\ IsFiniteSet(bare')
<1>0. /\ StoreTypeOK /\ ChunkTypeOK /\ CloudTypeOK /\ IsFiniteSet(bare)
      /\ exec[r] \in ExecState
  BY DEF TypeInv, TypeOK, CloudTypeOK
<1>1. ASSUME UNCHANGED <<listing, bare, taken, rejected, loadedLog, notices, file>>,
             job' \in [status : Status, total : Nat, valid : Nat, invalid : Nat]
      PROVE  StoreTypeOK' /\ IsFiniteSet(bare')
  BY <1>0, <1>1 DEF StoreTypeOK
<1>2. ASSUME UNCHANGED storeVars PROVE StoreTypeOK' /\ IsFiniteSet(bare')
  BY <1>0, <1>2 DEF StoreTypeOK, storeVars
<1>3. ASSUME UNCHANGED chunkVars, exec' \in [Runs -> ExecState] PROVE CloudTypeOK'
  BY <1>0, <1>3 DEF ChunkTypeOK, chunkVars, CloudTypeOK
<1>4. Terminal \cup {"PROCESSING"} \subseteq Status
  BY DEF Status
<1>5. CASE MarkProcessing(r) \/ MarkJobFailed(r)
  <2>1. exec' \in [Runs -> ExecState]
    BY <1>0, <1>5, ExecGotoTyped DEF MarkProcessing, MarkJobFailed, ExecPc
  <2>2. job' \in [status : Status, total : Nat, valid : Nat, invalid : Nat]
    BY <1>0, <1>4, <1>5, StatusTyped DEF MarkProcessing, MarkJobFailed, Terminal
  <2>. QED
    BY <1>1, <1>3, <1>5, <2>1, <2>2 DEF MarkProcessing, MarkJobFailed
<1>6. CASE ValidateFile(r, readable) \/ ProcessRowsEnds(r) \/ LogAggregate(r)
           \/ MarkJobFailedFails(r)
  <2>1. exec' \in [Runs -> ExecState]
    BY <1>0, <1>6, ExecGotoTyped
    DEF ValidateFile, ProcessRowsEnds, LogAggregate, MarkJobFailedFails, ExecPc
  <2>. QED
    BY <1>2, <1>3, <1>6, <2>1
    DEF ValidateFile, ProcessRowsEnds, LogAggregate, MarkJobFailedFails
<1>7. CASE RejectFile(r, readable)
  <2>1. rejected' \subseteq Rejection
    BY <1>0, <1>7 DEF RejectFile, StoreTypeOK, Rejection, Rejections
  <2>. QED
    BY <1>0, <1>3, <1>7, <2>1, CaughtTyped DEF RejectFile, StoreTypeOK
<1>8. CASE SplitChunks(r)
  <2>1. [exec[r] EXCEPT !.pc = "processRows", !.images = "busy"] \in ExecState
    BY <1>0 DEF ExecState, ExecPc
  <2>2. job' \in [status : Status, total : Nat, valid : Nat, invalid : Nat]
    BY <1>0, <1>8, StoreAssumption, FS_CardinalityType DEF SplitChunks, StoreTypeOK
  <2>3. ChunkTypeOK'
    BY <1>0, <1>8 DEF SplitChunks, TasksBegin, IdleTask, TaskState, TaskPc, ChunkTypeOK
  <2>. QED
    BY <1>0, <1>1, <1>8, <2>1, <2>2, <2>3, ExecTyped DEF SplitChunks, CloudTypeOK
<1>9. CASE SplitNothing(r)
  <2>1. exec' \in [Runs -> ExecState]
    BY <1>0, <1>9, ExecGotoTyped, CaughtTyped DEF SplitNothing, ExecPc
  <2>2. job' \in [status : Status, total : Nat, valid : Nat, invalid : Nat]
    BY <1>0, <1>9 DEF SplitNothing, StoreTypeOK
  <2>. QED
    BY <1>1, <1>3, <1>9, <2>1, <2>2 DEF SplitNothing
<1>10. CASE FileStateFails(r)
  BY <1>0, <1>2, <1>3, <1>10, CaughtTyped DEF FileStateFails
<1>11. CASE ChunksAreNoList(r) \/ AggregateFails(r)
  BY <1>0, <1>2, <1>3, <1>11, ThrowsTyped DEF ChunksAreNoList, AggregateFails
<1>12. CASE MapSucceeds(r) \/ MapCatches(r) \/ ImagesDone(r)
  <2>1. /\ [exec[r] EXCEPT !.chunks = "list"] \in ExecState
        /\ [exec[r] EXCEPT !.chunks = "error"] \in ExecState
        /\ [exec[r] EXCEPT !.images = "done"] \in ExecState
    BY <1>0 DEF ExecState
  <2>2. exec' \in [Runs -> ExecState]
    BY <1>0, <1>12, <2>1, ExecTyped DEF MapSucceeds, MapCatches, ImagesDone
  <2>. QED
    BY <1>2, <1>3, <1>12, <2>2 DEF MapSucceeds, MapCatches, ImagesDone
<1>13. CASE CountLoaded(r)
  <2>1. [exec[r] EXCEPT !.pc = "countRejected", !.loaded = VehicleCount] \in ExecState
    BY <1>0, VehicleCountIsNat DEF ExecState, ExecPc
  <2>. QED
    BY <1>0, <1>2, <1>3, <1>13, <2>1, ExecTyped DEF CountLoaded
<1>14. CASE CountRejected(r)
  <2>1. Cardinality(rejected) \in Nat
    BY <1>0, RejectedFinite, FS_CardinalityType
  <2>2. [exec[r] EXCEPT !.pc = "writeCounts", !.rejected = Cardinality(rejected)] \in ExecState
    BY <1>0, <2>1 DEF ExecState, ExecPc
  <2>. QED
    BY <1>0, <1>2, <1>3, <1>14, <2>2, ExecTyped DEF CountRejected
<1>15. CASE WriteCounts(r)
  <2>1. exec' \in [Runs -> ExecState]
    BY <1>0, <1>15, ExecGotoTyped DEF WriteCounts, ExecPc
  <2>2. job' \in [status : Status, total : Nat, valid : Nat, invalid : Nat]
    BY <1>0, <1>15 DEF WriteCounts, StoreTypeOK, ExecState
  <2>. QED
    BY <1>1, <1>3, <1>15, <2>1, <2>2 DEF WriteCounts
<1>16. CASE WriteStatus(r)
  <2>1. Verdict(r) \in Status
    BY <1>4 DEF Verdict, FinalStatus, Terminal
  <2>2. exec' \in [Runs -> ExecState]
    BY <1>0, <1>16, ExecGotoTyped DEF WriteStatus, ExecPc
  <2>3. job' \in [status : Status, total : Nat, valid : Nat, invalid : Nat]
    BY <1>0, <1>16, <2>1, StatusTyped DEF WriteStatus
  <2>. QED
    BY <1>1, <1>3, <1>16, <2>2, <2>3 DEF WriteStatus
<1>17. CASE Notify(r)
  <2>1. Verdict(r) \in Terminal
    BY DEF Verdict, FinalStatus, Terminal
  <2>2. notices' \subseteq Terminal
    BY <1>0, <1>17, <2>1 DEF Notify, StoreTypeOK
  <2>3. [IdleExec EXCEPT !.pc = "succeeded"] \in ExecState
    BY DEF IdleExec, ExecState, ExecPc
  <2>. QED
    BY <1>0, <1>3, <1>17, <2>2, <2>3, ExecTyped DEF Notify, StoreTypeOK
<1>18. ASSUME NEW c \in Chunks,
              StartIteration(r, c) \/ RetryLoad(r, c) \/ FailIteration(r, c)
       PROVE  StoreTypeOK' /\ CloudTypeOK' /\ IsFiniteSet(bare')
  BY <1>0, <1>2, <1>18, MapTaskTyped DEF CloudTypeOK
<1>19. ASSUME NEW c \in Chunks, IterationStep(r, c)
       PROVE  StoreTypeOK' /\ CloudTypeOK' /\ IsFiniteSet(bare')
  BY <1>0, <1>19, ChunkStepTyped DEF IterationStep, CloudTypeOK
<1>. QED
  BY <1>5, <1>6, <1>7, <1>8, <1>9, <1>10, <1>11, <1>12, <1>13, <1>14, <1>15, <1>16, <1>17,
     <1>18, <1>19
  DEF ExecStep, ExecFault

(* Types are inductive.                                                    *)
LEMMA StepTyped == TypeInv /\ [Next]_vars => TypeInv'
<1> SUFFICES ASSUME TypeInv, [Next]_vars PROVE TypeInv'
  OBVIOUS
<1>0. StoreTypeOK /\ ApiTypeOK /\ CloudTypeOK /\ ChunkTypeOK /\ IsFiniteSet(bare)
  BY DEF TypeInv, TypeOK, CloudTypeOK
<1>1. ASSUME UNCHANGED storeVars PROVE StoreTypeOK' /\ IsFiniteSet(bare')
  BY <1>0, <1>1 DEF StoreTypeOK, storeVars
<1>2. ASSUME UNCHANGED apiVars PROVE ApiTypeOK'
  BY <1>0, <1>2 DEF ApiTypeOK, apiVars
<1>3. ASSUME UNCHANGED cloudVars PROVE CloudTypeOK'
  BY <1>0, <1>3 DEF CloudTypeOK, ChunkTypeOK, cloudVars, chunkVars
<1>4. ASSUME NEW q \in Requests, Serve(q) PROVE TypeInv'
  BY <1>0, <1>3, <1>4, RequestTyped DEF Serve, TypeInv, TypeOK
<1>5. ASSUME NEW f \in Files, BrowserPut(f), UNCHANGED cloudVars PROVE TypeInv'
  <2>1. ApiTypeOK'
    BY <1>0, <1>5 DEF BrowserPut, ApiTypeOK, Files
  <2>. QED
    BY <1>1, <1>3, <1>5, <2>1 DEF BrowserPut, TypeInv, TypeOK
<1>6. ASSUME NEW r \in Runs, StartExecution(r) PROVE TypeInv'
  <2>1. ApiTypeOK'
    BY <1>0, <1>6 DEF StartExecution, ApiTypeOK
  <2>2. exec' \in [Runs -> ExecState]
    BY <1>0, <1>6, ExecGotoTyped DEF StartExecution, ExecPc
  <2>3. CloudTypeOK'
    BY <1>0, <1>6, <2>2 DEF StartExecution, CloudTypeOK, ChunkTypeOK, chunkVars
  <2>. QED
    BY <1>1, <1>6, <2>1, <2>3 DEF StartExecution, TypeInv, TypeOK
<1>7. ASSUME NEW r \in Runs, Execute(r) \/ (ExecFault(r) /\ UNCHANGED apiVars) PROVE TypeInv'
  <2>1. Readable \in BOOLEAN
    BY DEF Readable
  <2>. QED
    BY <1>2, <1>7, <2>1, ExecStepTyped DEF Execute, TypeInv, TypeOK
<1>8. CASE OtherJobs /\ UNCHANGED <<apiVars, cloudVars>>
  BY <1>0, <1>2, <1>3, <1>8, OtherJobsTyped DEF TypeInv, TypeOK
<1>9. CASE ApiCrash
  <2>1. ApiTypeOK'
    BY <1>0, <1>9 DEF ApiCrash, KillRequests, ApiTypeOK, ReqPc
  <2>. QED
    BY <1>1, <1>3, <1>9, <2>1 DEF ApiCrash, TypeInv, TypeOK
<1>10. CASE UNCHANGED vars
  BY <1>1, <1>2, <1>3, <1>10 DEF vars, TypeInv, TypeOK, storeVars, apiVars, cloudVars, chunkVars
<1>. QED
  BY <1>4, <1>5, <1>6, <1>7, <1>8, <1>9, <1>10 DEF Next, Environment, Deliver

(* Tables, requests, tasks and executions keep their shapes, and every     *)
(* count Aggregate writes is one of a finite table.                        *)
THEOREM TypeCorrect == Spec => []TypeOK
<1>1. TypeInv => TypeOK
  BY DEF TypeInv
<1>. QED
  BY InitTyped, StepTyped, <1>1, PTL DEF Spec

----
(* What each execution knows of the rows, and when the job exists.         *)

Aggregating == {"processRows", "countLoaded", "countRejected", "writeCounts",
                "writeStatus", "logAggregate"}

ExecAccounts(r) ==
  /\ exec[r].chunks = "list" => Chunks \subseteq loadedLog
  /\ exec[r].pc \in Aggregating => file = "rows"
  /\ exec[r].pc \in {"countRejected", "writeCounts", "writeStatus"} =>
       (exec[r].loaded # 0 => SomethingListed)
  /\ exec[r].pc \in {"writeCounts", "writeStatus"} =>
       exec[r].chunks = "list" /\ (exec[r].rejected = 0 => WholeFileListed)

Started ==
  job.status = "NONE" =>
    /\ route = "none"
    /\ pending = 0
    /\ \A q \in Requests : req[q] = "idle"
    /\ \A r \in Runs : exec[r].pc = "idle"
    /\ \A r \in Runs, c \in Chunks : task[r][c].pc = "idle"

CloudInv ==
  /\ TypeInv
  /\ AccountInv
  /\ \A r \in Runs : ExecAccounts(r)
  /\ Started
  /\ CompletedListsEveryRow

(* The invariant holds before anything has happened.                       *)
LEMMA InitInv == Init => CloudInv
<1> SUFFICES ASSUME Init PROVE CloudInv
  OBVIOUS
<1>1. AccountInv
  BY DEF Init, StoreInit, CloudInit, ChunkInit, AccountInv, VehiclesSound,
         LoadedChunksAreAccounted, TaskAccounts, IdleTask
<1>2. \A r \in Runs : ExecAccounts(r)
  BY DEF Init, CloudInit, IdleExec, ExecAccounts, Aggregating
<1>3. Started
  BY DEF Init, ApiInit, CloudInit, ChunkInit, IdleTask, IdleExec, Started
<1>4. CompletedListsEveryRow
  BY DEF Init, StoreInit, CompletedListsEveryRow
<1>. QED
  BY <1>1, <1>2, <1>3, <1>4, InitTyped DEF CloudInv

(* What the Map does with a chunk makes Progress: its stages add listings  *)
(* and rejections, the rest touches no table.                              *)
LEMMA MapTaskProgress ==
  ASSUME CloudInv, NEW r \in Runs, NEW c \in Chunks,
         \/ StartIteration(r, c) \/ IterationStep(r, c)
         \/ RetryLoad(r, c) \/ FailIteration(r, c)
  PROVE  Progress
<1>0. /\ StoreTypeOK /\ ChunkTypeOK /\ AccountInv
      /\ job.status = "NONE" => task[r][c].pc = "idle"
  BY DEF CloudInv, TypeInv, TypeOK, CloudTypeOK, Started
<1>1. CASE IterationStep(r, c)
  <2>1. ChunkStep(r, c)
    BY <1>1 DEF IterationStep
  <2>2. StoreGrows /\ VehiclesSound'
    BY <1>0, <2>1, ChunkStepAccounts DEF AccountInv
  <2>3. task[r][c].pc # "idle" /\ UNCHANGED <<file, job>>
    BY <2>1 DEF ChunkStep, TaskAt, storeVars, JudgeRows, StageRows, FetchRows, InsertBatch,
                BatchConflict, InsertOne, RecordRefused, LogLoaded
  <2>. QED
    BY <1>0, <2>2, <2>3 DEF Progress
<1>2. CASE StartIteration(r, c) \/ RetryLoad(r, c) \/ FailIteration(r, c)
  BY <1>2 DEF StartIteration, RetryLoad, FailIteration, storeVars, Progress, Untouched
<1>. QED
  BY <1>1, <1>2

(* An execution makes Progress. The hard case is WriteStatus again: the    *)
(* verdict rests on counts taken some attempts ago.                        *)
LEMMA ExecProgress ==
  ASSUME CloudInv, NEW r \in Runs, NEW readable \in BOOLEAN,
         ExecStep(r, readable) \/ ExecFault(r)
  PROVE  Progress
<1> USE DEF Progress, Untouched, Concludes, SetStatus, storeVars, ExecAt
<1>0. /\ job \in [status : Status, total : Nat, valid : Nat, invalid : Nat]
      /\ exec[r].pc # "idle" => job.status # "NONE"
      /\ exec[r] \in ExecState
      /\ ExecAccounts(r)
      /\ VehiclesSound
  BY DEF CloudInv, TypeInv, TypeOK, StoreTypeOK, CloudTypeOK, Started, AccountInv
<1>1. CASE MarkProcessing(r)
  BY <1>0, <1>1 DEF MarkProcessing
<1>2. CASE RejectFile(r, readable)
  <2>1. \A row \in Rows : Refused(row) => Refused(row)'
    BY <1>2 DEF RejectFile, Refused
  <2>2. UNCHANGED <<listing, bare, loadedLog, file, job>> /\ exec[r].pc = "validateFile"
    BY <1>2 DEF RejectFile
  <2>3. StoreGrows /\ VehiclesSound'
    BY <1>0, <2>1, <2>2 DEF StoreGrows, Listed, VehiclesSound
  <2>. QED
    BY <1>0, <2>2, <2>3
<1>3. CASE SplitChunks(r) \/ SplitNothing(r) \/ WriteCounts(r)
  BY <1>0, <1>3 DEF SplitChunks, SplitNothing, WriteCounts
<1>4. CASE \/ ValidateFile(r, readable) \/ FileStateFails(r) \/ MapSucceeds(r) \/ MapCatches(r)
           \/ ImagesDone(r) \/ ProcessRowsEnds(r) \/ CountLoaded(r) \/ CountRejected(r)
           \/ ChunksAreNoList(r) \/ AggregateFails(r) \/ LogAggregate(r) \/ MarkJobFailedFails(r)
  BY <1>4 DEF ValidateFile, FileStateFails, MapSucceeds, MapCatches, ImagesDone,
       ProcessRowsEnds, CountLoaded, CountRejected, ChunksAreNoList, AggregateFails,
       LogAggregate, MarkJobFailedFails
<1>5. CASE WriteStatus(r)
  <2>1. /\ exec[r].pc = "writeStatus" /\ job.status # "NONE"
        /\ job'.status = Verdict(r)
        /\ Untouched
    BY <1>0, <1>5 DEF WriteStatus
  <2>2. /\ exec[r].loaded # 0 => SomethingListed
        /\ exec[r].rejected = 0 => WholeFileListed
        /\ exec[r].loaded \in Nat /\ exec[r].rejected \in Nat
        /\ exec[r].chunks = "list"
    BY <1>0, <2>1 DEF ExecAccounts, ExecState
  <2>3. \/ Verdict(r) = "FAILED"
        \/ Verdict(r) = "PARTIAL" /\ SomethingListed
        \/ Verdict(r) = "COMPLETED" /\ WholeFileListed
    BY <2>2 DEF Verdict, FinalStatus
  <2>. QED
    BY <2>1, <2>3
<1>6. CASE Notify(r)
  BY <1>6 DEF Notify
<1>7. CASE MarkJobFailed(r)
  BY <1>0, <1>7 DEF MarkJobFailed
<1>8. ASSUME NEW c \in Chunks,
             \/ StartIteration(r, c) \/ IterationStep(r, c)
             \/ RetryLoad(r, c) \/ FailIteration(r, c)
      PROVE  Progress
  BY <1>8, MapTaskProgress
<1>. QED
  BY <1>1, <1>2, <1>3, <1>4, <1>5, <1>6, <1>7, <1>8 DEF ExecStep, ExecFault

(* Every step makes Progress.                                              *)
LEMMA StepProgress == CloudInv /\ [Next]_vars => Progress
<1> SUFFICES ASSUME CloudInv, [Next]_vars PROVE Progress
  OBVIOUS
<1>1. ASSUME UNCHANGED storeVars PROVE Progress
  BY <1>1 DEF Progress, Untouched, storeVars
<1>2. ASSUME NEW q \in Requests, Serve(q) PROVE Progress
  BY <1>2, RequestProgress DEF Serve, CloudInv, TypeInv, TypeOK, Started
<1>3. ASSUME NEW f \in Files, BrowserPut(f) PROVE Progress
  BY <1>1, <1>3 DEF BrowserPut
<1>4. CASE Deliver
  BY <1>1, <1>4 DEF Deliver, StartExecution
<1>5. ASSUME NEW r \in Runs, Execute(r) \/ ExecFault(r) PROVE Progress
  <2>1. Readable \in BOOLEAN
    BY DEF Readable
  <2>. QED
    BY <1>5, <2>1, ExecProgress DEF Execute
<1>6. CASE OtherJobs
  BY <1>6 DEF OtherJobs, OtherJobLists, OtherJobWithdraws, Progress, Untouched
<1>7. CASE ApiCrash
  BY <1>1, <1>7 DEF ApiCrash
<1>8. CASE UNCHANGED vars
  BY <1>1, <1>8 DEF vars, storeVars
<1>. QED
  BY <1>2, <1>3, <1>4, <1>5, <1>6, <1>7, <1>8 DEF Next, Environment

----
(* Each part of the invariant is kept.                                     *)

(* What the Map does with a chunk keeps the accounts; a Load that is       *)
(* retried starts over from the staged rows of the chunk.                  *)
LEMMA MapTaskAccounts ==
  ASSUME CloudInv, NEW r \in Runs, NEW c \in Chunks,
         \/ StartIteration(r, c) \/ IterationStep(r, c)
         \/ RetryLoad(r, c) \/ FailIteration(r, c)
  PROVE  AccountInv'
<1> DEFINE t == task[r][c]
<1>0. /\ StoreTypeOK /\ ChunkTypeOK /\ AccountInv
      /\ t \in TaskState /\ TaskAccounts(r, c)
  BY DEF CloudInv, TypeInv, TypeOK, CloudTypeOK, ChunkTypeOK, AccountInv
<1>1. CASE IterationStep(r, c)
  BY <1>0, <1>1, ChunkStepAccounts DEF IterationStep
<1>2. CASE StartIteration(r, c)
  <2> DEFINE state == [t EXCEPT !.pc = "rows"]
  <2>1. state.pc = "rows"
    BY <1>0 DEF TaskState
  <2>2. UNCHANGED <<storeVars, artifact>> /\ TaskBecomes(r, c, state)
    BY <1>2 DEF StartIteration
  <2>. HIDE DEF state
  <2>3. ASSUME task'[r][c] = state PROVE TaskAccounts(r, c)'
    BY <2>1, <2>3, FreshAccounts
  <2>. QED
    BY <1>0, <2>2, <2>3, OneTaskKept
<1>3. CASE RetryLoad(r, c)
  <2> DEFINE state == [IdleTask EXCEPT !.pc = "fetch", !.attempt = t.attempt + 1]
  <2>1. /\ UNCHANGED <<storeVars, artifact>>
        /\ TaskBecomes(r, c, state)
        /\ Carries(c, artifact[c])
    BY <1>0, <1>3 DEF RetryLoad, InLoad, TaskAccounts
  <2>2. state.pc = "fetch"
    BY DEF IdleTask
  <2>. HIDE DEF state
  <2>3. Carries(c, artifact[c])'
    BY <2>1 DEF Carries, Refused, storeVars
  <2>4. ASSUME task'[r][c] = state PROVE TaskAccounts(r, c)'
    BY <2>2, <2>3, <2>4 DEF TaskAccounts
  <2>. QED
    BY <1>0, <2>1, <2>4, OneTaskKept
<1>4. CASE FailIteration(r, c)
  <2> DEFINE state == [IdleTask EXCEPT !.pc = "failed"]
  <2>1. state.pc = "failed"
    BY DEF IdleTask
  <2>2. UNCHANGED <<storeVars, artifact>> /\ TaskBecomes(r, c, state)
    BY <1>4 DEF FailIteration, TaskEnds
  <2>. HIDE DEF state
  <2>3. ASSUME task'[r][c] = state PROVE TaskAccounts(r, c)'
    BY <2>1, <2>3, FreshAccounts
  <2>. QED
    BY <1>0, <2>2, <2>3, OneTaskKept
<1>. QED
  BY <1>1, <1>2, <1>3, <1>4

(* The accounts are kept by every step.                                    *)
LEMMA StepAccounts == CloudInv /\ [Next]_vars => AccountInv'
<1> SUFFICES ASSUME CloudInv, [Next]_vars PROVE AccountInv'
  OBVIOUS
<1>0. StoreGrows /\ VehiclesSound' /\ ChunkTypeOK /\ AccountInv
  BY StepProgress, ProgressGrows DEF CloudInv, AccountInv, TypeInv, TypeOK, CloudTypeOK
<1>1. ASSUME UNCHANGED <<loadedLog, artifact, task>> PROVE AccountInv'
  BY <1>0, <1>1, RestAccounts
<1>2. ASSUME NEW q \in Requests, Serve(q) PROVE AccountInv'
  <2>1. UNCHANGED loadedLog
    BY <1>2 DEF Serve, RequestStep, UploadCreate, UploadStore, UploadPublish, UploadFail,
                PresignUpload, CompleteRead, CompleteCheckCsv, CompleteCheckZip,
                CompleteFail, CompletePublish, storeVars
  <2>. QED
    BY <1>1, <1>2, <2>1 DEF Serve, cloudVars, chunkVars
<1>3. ASSUME NEW f \in Files, BrowserPut(f), UNCHANGED cloudVars PROVE AccountInv'
  BY <1>1, <1>3 DEF BrowserPut, storeVars, cloudVars, chunkVars
<1>4. CASE Deliver
  BY <1>1, <1>4 DEF Deliver, StartExecution, storeVars, chunkVars
<1>5. ASSUME NEW r \in Runs, Execute(r) \/ ExecFault(r) PROVE AccountInv'
  <2>1. CASE SplitChunks(r)
    BY <1>0, <2>1, RestAccounts DEF SplitChunks
  <2>2. ASSUME NEW c \in Chunks,
               \/ StartIteration(r, c) \/ IterationStep(r, c)
               \/ RetryLoad(r, c) \/ FailIteration(r, c)
        PROVE  AccountInv'
    BY <2>2, MapTaskAccounts
  <2>3. CASE \/ MarkProcessing(r) \/ ValidateFile(r, Readable) \/ RejectFile(r, Readable)
             \/ SplitNothing(r) \/ FileStateFails(r) \/ MapSucceeds(r) \/ MapCatches(r)
             \/ ImagesDone(r) \/ ProcessRowsEnds(r) \/ CountLoaded(r) \/ CountRejected(r)
             \/ ChunksAreNoList(r) \/ AggregateFails(r) \/ WriteCounts(r) \/ WriteStatus(r)
             \/ LogAggregate(r) \/ Notify(r) \/ MarkJobFailed(r) \/ MarkJobFailedFails(r)
    BY <1>1, <2>3 DEF MarkProcessing, ValidateFile, RejectFile, SplitNothing, FileStateFails,
         MapSucceeds, MapCatches, ImagesDone, ProcessRowsEnds, CountLoaded, CountRejected,
         ChunksAreNoList, AggregateFails, WriteCounts, WriteStatus, LogAggregate, Notify,
         MarkJobFailed, MarkJobFailedFails, storeVars, chunkVars
  <2>. QED
    BY <1>5, <2>1, <2>2, <2>3 DEF Execute, ExecStep, ExecFault
<1>6. CASE OtherJobs /\ UNCHANGED <<apiVars, cloudVars>>
  BY <1>1, <1>6 DEF OtherJobs, OtherJobLists, OtherJobWithdraws, cloudVars, chunkVars
<1>7. CASE ApiCrash
  BY <1>1, <1>7 DEF ApiCrash, storeVars, cloudVars, chunkVars
<1>8. CASE UNCHANGED vars
  BY <1>1, <1>8 DEF vars, storeVars, cloudVars, chunkVars
<1>. QED
  BY <1>2, <1>3, <1>4, <1>5, <1>6, <1>7, <1>8 DEF Next, Environment

(* What an execution knows stays true while the tables grow: a move that   *)
(* changes neither the envelopes nor, unless it says so, the counts.       *)
LEMMA ExecsKept ==
  ASSUME CloudInv, Progress,
         \A r \in Runs : exec'[r] = exec[r] \/ ExecAccounts(r)'
  PROVE  \A r \in Runs : ExecAccounts(r)'
<1> SUFFICES ASSUME NEW r \in Runs, exec'[r] = exec[r] PROVE ExecAccounts(r)'
  OBVIOUS
<1>1. ExecAccounts(r)
  BY DEF CloudInv
<1>2. /\ loadedLog \subseteq loadedLog' /\ file' = file
      /\ WholeFileListed => WholeFileListed'
      /\ SomethingListed => SomethingListed'
  BY ProgressGrows DEF StoreGrows
<1>. QED
  BY <1>1, <1>2 DEF ExecAccounts

(* One execution moves.                                                    *)
LEMMA OneExecKept ==
  ASSUME CloudInv, Progress, NEW r \in Runs, NEW state, ExecBecomes(r, state),
         exec'[r] = state => ExecAccounts(r)'
  PROVE  \A q \in Runs : ExecAccounts(q)'
<1>1. exec'[r] = state /\ \A q \in Runs : q # r => exec'[q] = exec[q]
  BY DEF CloudInv, TypeInv, TypeOK, CloudTypeOK, ExecBecomes
<1>. QED
  BY <1>1, ExecsKept

(* It moves to a state that relies on no count.                            *)
LEMMA PlainMove ==
  ASSUME CloudInv, Progress, NEW r \in Runs, NEW state, ExecBecomes(r, state),
         state.chunks = "list" => exec[r].chunks = "list",
         state.pc \notin {"countRejected", "writeCounts", "writeStatus"},
         state.pc \in Aggregating => exec[r].pc \in Aggregating \/ file = "rows"
  PROVE  \A q \in Runs : ExecAccounts(q)'
<1>1. ExecAccounts(r)
  BY DEF CloudInv
<1>2. loadedLog \subseteq loadedLog' /\ file' = file
  BY ProgressGrows DEF StoreGrows
<1>3. ASSUME exec'[r] = state PROVE ExecAccounts(r)'
  BY <1>1, <1>2, <1>3 DEF ExecAccounts
<1>. QED
  BY <1>3, OneExecKept

(* A Catch, or a plain ExecGoto, is such a move.                           *)
LEMMA PlainGoto ==
  ASSUME CloudInv, Progress, NEW r \in Runs, NEW pc,
         ExecGoto(r, pc) \/ (Caught(r) /\ pc = "markFailed"),
         pc \notin {"countRejected", "writeCounts", "writeStatus"},
         pc \in Aggregating => exec[r].pc \in Aggregating
  PROVE  \A q \in Runs : ExecAccounts(q)'
<1> DEFINE going  == [exec[r] EXCEPT !.pc = pc]
           caught == [exec[r] EXCEPT !.pc = "markFailed", !.attempt = 0]
<1>1. /\ going.pc = pc /\ going.chunks = exec[r].chunks
      /\ caught.pc = "markFailed" /\ caught.chunks = exec[r].chunks
  BY DEF CloudInv, TypeInv, TypeOK, CloudTypeOK, ExecState
<1>2. ExecBecomes(r, going) \/ (ExecBecomes(r, caught) /\ pc = "markFailed")
  BY DEF ExecGoto, Caught
<1>. HIDE DEF going, caught
<1>. QED
  BY <1>1, <1>2, PlainMove

(* An attempt of Aggregate that throws keeps nothing it counted.           *)
LEMMA ThrowKeepsExecs ==
  ASSUME CloudInv, Progress, NEW r \in Runs, AggregateThrows(r), exec[r].pc \in Aggregating
  PROVE  \A q \in Runs : ExecAccounts(q)'
<1> DEFINE again == [exec[r] EXCEPT !.pc = "countLoaded", !.attempt = @ + 1]
<1>1. again.pc = "countLoaded" /\ again.chunks = exec[r].chunks
  BY DEF CloudInv, TypeInv, TypeOK, CloudTypeOK, ExecState
<1>2. ExecBecomes(r, again) \/ Caught(r)
  BY DEF AggregateThrows
<1>. HIDE DEF again
<1>3. CASE ExecBecomes(r, again)
  BY <1>1, <1>3, PlainMove
<1>4. CASE Caught(r)
  BY <1>4, PlainGoto DEF Aggregating
<1>. QED
  BY <1>2, <1>3, <1>4

(* If every chunk of the Map succeeded, every chunk is logged loaded.      *)
LEMMA MapListsLoaded ==
  ASSUME CloudInv, NEW r \in Runs, \A c \in Chunks : TaskAt(r, c, "ok")
  PROVE  Chunks \subseteq loadedLog
BY DEF CloudInv, AccountInv, TaskAccounts, TaskAt

(* If every chunk is logged loaded, every row is listed or rejected.       *)
LEMMA LoadedFileAccounted ==
  ASSUME LoadedChunksAreAccounted, Chunks \subseteq loadedLog
  PROVE  \A row \in Rows : Listed(row) \/ Refused(row)
<1> SUFFICES ASSUME NEW row \in Rows PROVE Listed(row) \/ Refused(row)
  OBVIOUS
<1>1. ChunkOf[row] \in Chunks /\ row \in ChunkRows(ChunkOf[row])
  BY StoreAssumption DEF ChunkRows
<1>. QED
  BY <1>1 DEF LoadedChunksAreAccounted

(* What an execution knows after a state of its own.                       *)
LEMMA ExecStepKeepsExecs ==
  ASSUME CloudInv, Progress, NEW r \in Runs, NEW readable \in BOOLEAN,
         ExecStep(r, readable) \/ ExecFault(r)
  PROVE  \A q \in Runs : ExecAccounts(q)'
<1> USE DEF ExecAt
<1>0. /\ exec[r] \in ExecState /\ StoreTypeOK /\ TypeInv
      /\ ExecAccounts(r) /\ VehiclesSound /\ LoadedChunksAreAccounted
  BY DEF CloudInv, TypeInv, TypeOK, CloudTypeOK, AccountInv
<1>1. /\ loadedLog \subseteq loadedLog' /\ file' = file
      /\ WholeFileListed => WholeFileListed'
      /\ SomethingListed => SomethingListed'
  BY ProgressGrows DEF StoreGrows
<1>2. CASE \/ MarkProcessing(r) \/ ValidateFile(r, readable) \/ RejectFile(r, readable)
           \/ SplitNothing(r) \/ FileStateFails(r) \/ MarkJobFailed(r)
           \/ MarkJobFailedFails(r)
  <2>1. \E pc \in {"validateFile", "splitChunks", "markFailed", "aborted", "failed"} :
          ExecGoto(r, pc) \/ (Caught(r) /\ pc = "markFailed")
    BY <1>2 DEF MarkProcessing, ValidateFile, RejectFile, SplitNothing, FileStateFails,
         MarkJobFailed, MarkJobFailedFails
  <2>. QED
    BY <2>1, PlainGoto DEF Aggregating
<1>3. CASE ProcessRowsEnds(r) \/ LogAggregate(r)
  <2>1. /\ exec[r].pc \in Aggregating
        /\ ExecGoto(r, "countLoaded") \/ ExecGoto(r, "notify")
    BY <1>3 DEF ProcessRowsEnds, LogAggregate, Aggregating
  <2>. QED
    BY <2>1, PlainGoto DEF Aggregating
<1>4. CASE ChunksAreNoList(r) \/ AggregateFails(r)
  BY <1>4, ThrowKeepsExecs DEF ChunksAreNoList, AggregateFails, Aggregating
<1>5. CASE SplitChunks(r)
  <2> DEFINE state == [exec[r] EXCEPT !.pc = "processRows", !.images = "busy"]
  <2>1. state.pc = "processRows" /\ state.chunks = exec[r].chunks
    BY <1>0 DEF ExecState
  <2>2. ExecBecomes(r, state) /\ file = "rows"
    BY <1>5 DEF SplitChunks
  <2>. HIDE DEF state
  <2>. QED
    BY <2>1, <2>2, PlainMove
<1>6. CASE MapCatches(r) \/ ImagesDone(r)
  <2>1. PICK state : /\ ExecBecomes(r, state) /\ state.pc = "processRows"
                     /\ state.chunks = "list" => exec[r].chunks = "list"
    BY <1>0, <1>6 DEF MapCatches, MapRuns, ImagesDone, ExecState
  <2>2. exec[r].pc \in Aggregating
    BY <1>6 DEF MapCatches, MapRuns, ImagesDone, Aggregating
  <2>. QED
    BY <2>1, <2>2, PlainMove
<1>7. CASE MapSucceeds(r)
  <2> DEFINE state == [exec[r] EXCEPT !.chunks = "list"]
  <2>1. state.pc = "processRows" /\ file = "rows"
    BY <1>0, <1>7 DEF MapSucceeds, MapRuns, ExecState, ExecAccounts, Aggregating
  <2>2. ExecBecomes(r, state) /\ Chunks \subseteq loadedLog'
    BY <1>1, <1>7, MapListsLoaded DEF MapSucceeds
  <2>. HIDE DEF state
  <2>3. ASSUME exec'[r] = state PROVE ExecAccounts(r)'
    BY <1>1, <2>1, <2>2, <2>3 DEF ExecAccounts
  <2>. QED
    BY <2>2, <2>3, OneExecKept
<1>8. CASE CountLoaded(r)
  <2> DEFINE state == [exec[r] EXCEPT !.pc = "countRejected", !.loaded = VehicleCount]
  <2>1. /\ state.pc = "countRejected" /\ state.chunks = exec[r].chunks
        /\ state.loaded = VehicleCount /\ file = "rows"
    BY <1>0, <1>8 DEF CountLoaded, ExecState, ExecAccounts, Aggregating
  <2>2. VehicleCount # 0 => SomethingListed'
    BY <1>0, <1>1, CountedIsListed
  <2>3. ExecBecomes(r, state)
    BY <1>8 DEF CountLoaded
  <2>. HIDE DEF state
  <2>4. ASSUME exec'[r] = state PROVE ExecAccounts(r)'
    BY <1>0, <1>1, <2>1, <2>2, <2>4 DEF ExecAccounts
  <2>. QED
    BY <2>3, <2>4, OneExecKept
<1>9. CASE CountRejected(r)
  <2> DEFINE state == [exec[r] EXCEPT !.pc = "writeCounts", !.rejected = Cardinality(rejected)]
  <2>1. /\ state.pc = "writeCounts" /\ state.chunks = "list"
        /\ state.loaded = exec[r].loaded /\ state.rejected = Cardinality(rejected)
        /\ exec[r].pc = "countRejected" /\ exec[r].chunks = "list" /\ file = "rows"
    BY <1>0, <1>9 DEF CountRejected, ExecState, ExecAccounts, Aggregating
  <2>2. ASSUME Cardinality(rejected) = 0 PROVE WholeFileListed'
    <3>1. rejected = {}
      BY <1>0, <2>2, RejectedFinite, FS_EmptySet
    <3>2. \A row \in Rows : Listed(row)
      BY <1>0, <2>1, <3>1, LoadedFileAccounted DEF ExecAccounts, Refused
    <3>. QED
      BY <1>1, <2>1, <3>2 DEF WholeFileListed, FileRows
  <2>3. ExecBecomes(r, state)
    BY <1>9 DEF CountRejected
  <2>. HIDE DEF state
  <2>4. ASSUME exec'[r] = state PROVE ExecAccounts(r)'
    BY <1>0, <1>1, <2>1, <2>2, <2>4 DEF ExecAccounts
  <2>. QED
    BY <2>3, <2>4, OneExecKept
<1>10. CASE WriteCounts(r) \/ WriteStatus(r)
  <2> DEFINE state(pc) == [exec[r] EXCEPT !.pc = pc]
  <2>1. \A pc : /\ state(pc).pc = pc /\ state(pc).chunks = exec[r].chunks
                /\ state(pc).loaded = exec[r].loaded /\ state(pc).rejected = exec[r].rejected
    BY <1>0 DEF ExecState
  <2>2. /\ exec[r].pc \in {"writeCounts", "writeStatus"}
        /\ ExecBecomes(r, state("writeStatus")) \/ ExecBecomes(r, state("logAggregate"))
    BY <1>10 DEF WriteCounts, WriteStatus, ExecGoto
  <2>. HIDE DEF state
  <2>3. ASSUME NEW pc \in {"writeStatus", "logAggregate"}, exec'[r] = state(pc)
        PROVE  ExecAccounts(r)'
    BY <1>0, <1>1, <2>1, <2>2, <2>3 DEF ExecAccounts, Aggregating
  <2>. QED
    BY <2>2, <2>3, OneExecKept
<1>11. CASE Notify(r)
  <2> DEFINE state == [IdleExec EXCEPT !.pc = "succeeded"]
  <2>1. state.pc = "succeeded" /\ state.chunks = "none"
    BY DEF IdleExec
  <2>2. ExecBecomes(r, state)
    BY <1>11 DEF Notify
  <2>. HIDE DEF state
  <2>. QED
    BY <2>1, <2>2, PlainMove DEF Aggregating
<1>12. ASSUME NEW c \in Chunks,
              \/ StartIteration(r, c) \/ IterationStep(r, c)
              \/ RetryLoad(r, c) \/ FailIteration(r, c)
       PROVE  \A q \in Runs : ExecAccounts(q)'
  BY <1>12, ExecsKept DEF StartIteration, IterationStep, RetryLoad, FailIteration
<1>. QED
  BY <1>2, <1>3, <1>4, <1>5, <1>6, <1>7, <1>8, <1>9, <1>10, <1>11, <1>12
  DEF ExecStep, ExecFault

(* What executions know is kept by every step.                             *)
LEMMA StepKeepsExecs == CloudInv /\ [Next]_vars => \A r \in Runs : ExecAccounts(r)'
<1> SUFFICES ASSUME CloudInv, [Next]_vars PROVE \A r \in Runs : ExecAccounts(r)'
  OBVIOUS
<1>0. Progress
  BY StepProgress
<1>1. ASSUME UNCHANGED exec PROVE \A r \in Runs : ExecAccounts(r)'
  BY <1>0, <1>1, ExecsKept
<1>2. CASE \E q \in Requests : Serve(q)
  BY <1>1, <1>2 DEF Serve, cloudVars
<1>3. ASSUME NEW r \in Runs, StartExecution(r) PROVE \A q \in Runs : ExecAccounts(q)'
  <2>1. ExecGoto(r, "markProcessing")
    BY <1>3 DEF StartExecution
  <2>. QED
    BY <1>0, <2>1, PlainGoto DEF Aggregating
<1>4. ASSUME NEW r \in Runs, Execute(r) \/ ExecFault(r) PROVE \A q \in Runs : ExecAccounts(q)'
  <2>1. Readable \in BOOLEAN
    BY DEF Readable
  <2>. QED
    BY <1>0, <1>4, <2>1, ExecStepKeepsExecs DEF Execute
<1>5. CASE ApiCrash
  BY <1>1, <1>5 DEF ApiCrash, cloudVars
<1>6. CASE UNCHANGED vars
  BY <1>1, <1>6 DEF vars, cloudVars
<1>. QED
  BY <1>1, <1>2, <1>3, <1>4, <1>5, <1>6 DEF Next, Environment, Deliver, cloudVars

(* Nothing happens to a job before its row is created.                     *)
LEMMA StepStarted == CloudInv /\ [Next]_vars => Started'
<1> SUFFICES ASSUME CloudInv, [Next]_vars, job'.status = "NONE" PROVE Started'
  BY DEF Started
<1> USE DEF Started
<1>1. job.status = "NONE"
  BY StepProgress, ProgressGrows
<1>2. /\ Started /\ ApiTypeOK /\ ChunkTypeOK /\ exec \in [Runs -> ExecState]
      /\ job \in [status : Status, total : Nat, valid : Nat, invalid : Nat]
  BY DEF CloudInv, TypeInv, TypeOK, CloudTypeOK, StoreTypeOK
<1>3. ASSUME UNCHANGED <<apiVars, cloudVars>> PROVE Started'
  BY <1>1, <1>2, <1>3 DEF apiVars, cloudVars, chunkVars
<1>4. ASSUME NEW q \in Requests, Serve(q) PROVE Started'
  <2>1. job' = [job EXCEPT !.status = "PENDING"]
    BY <1>1, <1>2, <1>4 DEF Serve, RequestStep, UploadCreate, UploadStore, UploadPublish,
         UploadFail, PresignUpload, CompleteRead, CompleteCheckCsv, CompleteCheckZip,
         CompleteFail, CompletePublish, SetStatus
  <2>. QED
    BY <1>2, <2>1
<1>5. ASSUME NEW f \in Files, BrowserPut(f) PROVE Started'
  BY <1>1, <1>2, <1>5 DEF BrowserPut
<1>6. CASE Deliver
  BY <1>1, <1>2, <1>6 DEF Deliver, StartExecution
<1>7. ASSUME NEW r \in Runs, Execute(r) \/ ExecFault(r) PROVE Started'
  <2>1. exec[r].pc = "idle" /\ \A c \in Chunks : task[r][c].pc = "idle"
    BY <1>1, <1>2
  <2>. QED
    BY <1>7, <2>1 DEF Execute, ExecStep, ExecFault, ExecAt, MapRuns, MarkProcessing,
         ValidateFile, RejectFile, SplitChunks, SplitNothing, FileStateFails, StartIteration,
         IterationStep, MapSucceeds, MapCatches, ImagesDone, ProcessRowsEnds, CountLoaded,
         CountRejected, ChunksAreNoList, AggregateFails, WriteCounts, WriteStatus,
         LogAggregate, Notify, MarkJobFailed, MarkJobFailedFails, TaskAt, ChunkStep,
         JudgeRows, StageRows, FetchRows, InsertBatch, BatchConflict, InsertOne,
         RecordRefused, LogLoaded, RetryLoad, FailIteration, InLoad, InRowStages
<1>8. CASE ApiCrash
  <2>1. \A q \in Requests : req'[q] = "idle"
    BY <1>1, <1>2, <1>8 DEF ApiCrash, KillRequests, InFlight
  <2>. QED
    BY <1>1, <1>2, <1>8, <2>1 DEF ApiCrash, cloudVars, chunkVars
<1>9. CASE UNCHANGED vars
  BY <1>3, <1>9 DEF vars
<1>. QED
  BY <1>3, <1>4, <1>5, <1>6, <1>7, <1>8, <1>9 DEF Next, Environment

(* CloudInv is inductive.                                                  *)
LEMMA StepInv == CloudInv /\ [Next]_vars => CloudInv'
<1> SUFFICES ASSUME CloudInv, [Next]_vars PROVE CloudInv'
  OBVIOUS
<1>1. TypeInv'
  BY StepTyped DEF CloudInv
<1>2. CompletedListsEveryRow'
  BY StepProgress, ProgressCompletes DEF CloudInv
<1>. QED
  BY <1>1, <1>2, StepAccounts, StepKeepsExecs, StepStarted DEF CloudInv

(* The inductive invariant: types, the accounts of every task, what every  *)
(* execution knows of the rows it counted, that nothing happens before the *)
(* job is created, and CompletedListsEveryRow.                             *)
THEOREM InvariantHolds == Spec => []CloudInv
BY InitInv, StepInv, PTL DEF Spec

(* An execution whose Map succeeded has accounted for the whole file, also *)
(* while redelivered executions and orphaned Lambdas work on its chunks.   *)
THEOREM MapAccountsForFile == Spec => []MapResultAccountsForFile
<1>1. CloudInv => MapResultAccountsForFile
  BY LoadedFileAccounted DEF CloudInv, AccountInv, ExecAccounts, MapResultAccountsForFile
<1>. QED
  BY InvariantHolds, <1>1, PTL

(* The Aggregate Lambda: COMPLETED is never written, nor does it stand,    *)
(* while a row of the file is not listed.                                  *)
THEOREM CloudCompletedIsComplete == Spec => []CompletedListsEveryRow
<1>1. CloudInv => CompletedListsEveryRow
  BY DEF CloudInv
<1>. QED
  BY InvariantHolds, <1>1, PTL

(* In production the job keeps the promises of UploadLifecycle as well,    *)
(* whatever the queue redelivers and whichever Lambda fails or is retried. *)
THEOREM CloudRefinement == Spec => ImplementsLifecycle
<1>1. CloudInv /\ [Next]_vars => [Lifecycle!Next]_(Lifecycle!vars)
  BY StepProgress, ProgressRefines
<1>2. Init => Lifecycle!Init
  BY InitLifecycle DEF Init
<1>. QED
  BY InvariantHolds, <1>1, <1>2, PTL DEF Spec, ImplementsLifecycle, Lifecycle!Spec
====
