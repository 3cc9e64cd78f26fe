---- MODULE LocalOrchestrator ----
(***************************************************************************)
(* LocalOrchestrator.run: one execution of the ETL pipeline for the job.   *)
(* Executions of one job may overlap: nothing in run() excludes it.        *)
(*                                                                         *)
(*   run[r]   where execution r stands, the chunks it will skip, its       *)
(*            image branch, and what it counted before the counts and the  *)
(*            terminal status are written                                  *)
(***************************************************************************)
EXTENDS ChunkPipeline

CONSTANTS
  LOAD_ATTEMPTS,   \* attempts of the LOAD stage
  MaxConcurrency   \* chunks of one execution under way at a time

ASSUME OrchestratorAssumption ==
  /\ LOAD_ATTEMPTS \in Nat \ {0}
  /\ MaxConcurrency \in Nat \ {0}

VARIABLE run

localVars == <<run, chunkVars>>

RunPc == {"idle", "started", "prepare", "fanOut", "countRejected",
          "writeCounts", "writeStatus", "notify", "failing", "done", "dead"}

RunState ==
  [pc : RunPc, skip : SUBSET Chunks, images : {"off", "busy", "done"},
   loaded : Nat, rejected : Nat, verdict : Terminal]

LocalTypeOK == ChunkTypeOK /\ run \in [Runs -> RunState]

IdleRun ==
  [pc |-> "idle", skip |-> {}, images |-> "off", loaded |-> 0,
   rejected |-> 0, verdict |-> "FAILED"]

LocalInit == ChunkInit /\ run = [r \in Runs |-> IdleRun]

RunBecomes(r, state) == run' = [run EXCEPT ![r] = state]

(* What an execution that is over carried is of no more use.               *)
RunEnds(r) == RunBecomes(r, [IdleRun EXCEPT !.pc = "done", !.skip = run[r].skip])

RunAt(r, pc) == run[r].pc = pc

(* Chunks work on as long as their process lives, also when run() has      *)
(* already given up on them.                                               *)
Alive(r) == run[r].pc # "dead"

----
(* run: the whole-file stages.                                             *)

MarkProcessing(r) ==
  /\ RunAt(r, "started")
  /\ SetStatus("PROCESSING")
  /\ RunBecomes(r, [run[r] EXCEPT !.pc = "prepare"])
  /\ UNCHANGED <<listing, bare, taken, rejected, loadedLog, notices, file, chunkVars>>

(* Mutant of RejectFile: the rejection of the file filed as one of a row.  *)
RejectRowZero(r, readable) ==
  /\ RunAt(r, "prepare")
  /\ file = "invalid" \/ ~readable
  /\ rejected' = rejected \cup Rejections("VALIDATE_ROWS", {0})
  /\ RunBecomes(r, [run[r] EXCEPT !.pc = "failing"])
  /\ UNCHANGED <<job, listing, bare, taken, loadedLog, notices, file, chunkVars>>

(* validateFile throws: one whole-file rejection, then FAILED.             *)
RejectFile(r, readable) ==
  /\ RunAt(r, "prepare")
  /\ file = "invalid" \/ ~readable
  /\ rejected' = rejected \cup Rejections("VALIDATE_FILE", {0})
  /\ RunBecomes(r, [run[r] EXCEPT !.pc = "failing"])
  /\ UNCHANGED <<job, listing, bare, taken, loadedLog, notices, file, chunkVars>>

(* Mutant of EmptyInventory: the early return forgets the terminal status. *)
EmptyInventoryUndecided(r, readable) ==
  /\ RunAt(r, "prepare")
  /\ readable
  /\ file = "headerOnly"
  /\ job' = [job EXCEPT !.total = 0]
  /\ RunEnds(r)
  /\ UNCHANGED <<listing, bare, taken, rejected, loadedLog, notices, file, chunkVars>>

(* A header-only file: updateTotal(0), then zero counts and COMPLETED.     *)
EmptyInventory(r, readable) ==
  /\ RunAt(r, "prepare")
  /\ readable
  /\ file = "headerOnly"
  /\ job' = [job EXCEPT !.total = 0]
  /\ RunBecomes(r, [run[r] EXCEPT !.pc = "writeCounts", !.verdict = "COMPLETED"])
  /\ UNCHANGED <<listing, bare, taken, rejected, loadedLog, notices, file, chunkVars>>

(* splitChunks, updateTotal, succeededChunks, and both branches start.     *)
FanOut(r, readable) ==
  /\ RunAt(r, "prepare")
  /\ readable
  /\ file = "rows"
  /\ job' = [job EXCEPT !.total = Cardinality(Rows)]
  /\ RunBecomes(r, [run[r] EXCEPT !.pc = "fanOut", !.skip = loadedLog,
                                  !.images = "busy"])
  /\ TasksBegin(r)
  /\ UNCHANGED <<listing, bare, taken, rejected, loadedLog, notices, file, artifact>>

----
(* mapWithConcurrency and runChunk.                                        *)

(* Mutant of ClaimChunk: succeededChunks is not consulted.                 *)
ClaimAnyChunk(r, c) ==
  /\ TaskAt(r, c, "todo")
  /\ \A d \in Chunks : d < c => ~TaskAt(r, d, "todo")
  /\ Cardinality({d \in Chunks : Busy(r, d)}) < MaxConcurrency
  /\ TaskBecomes(r, c, [task[r][c] EXCEPT !.pc = "rows"])
  /\ UNCHANGED <<storeVars, artifact>>

(* A worker claims the next index, and a chunk that was loaded is skipped. *)
ClaimChunk(r, c) ==
  /\ TaskAt(r, c, "todo")
  /\ \A d \in Chunks : d < c => ~TaskAt(r, d, "todo")
  /\ Cardinality({d \in Chunks : Busy(r, d)}) < MaxConcurrency
  /\ IF c \in run[r].skip
     THEN TaskEnds(r, c, "skipped")
     ELSE TaskBecomes(r, c, [task[r][c] EXCEPT !.pc = "rows"])
  /\ UNCHANGED <<storeVars, artifact>>

(* load: a failed attempt is made again with the rows already read ...     *)
RetryLoad(r, c) ==
  /\ "db" \in Faults
  /\ InLoad(r, c)
  /\ task[r][c].attempt + 1 < LOAD_ATTEMPTS
  /\ TaskBecomes(r, c, [task[r][c] EXCEPT !.pc = "load", !.attempt = @ + 1,
                                          !.left = {}, !.refused = {}])
  /\ UNCHANGED <<storeVars, artifact>>

(* ... or, like any failure of a row stage, fails the chunk. The log calls *)
(* around an attempt are not guarded, so the first failure may do it too.  *)
FailChunk(r, c) ==
  /\ \/ /\ Faults \cap {"db", "store"} # {}
        /\ InRowStages(r, c) \/ TaskAt(r, c, "fetch")
     \/ "db" \in Faults /\ InLoad(r, c)
  /\ TaskEnds(r, c, "failed")
  /\ UNCHANGED <<storeVars, artifact>>

TaskStep(r, c) ==
  /\ Alive(r)
  /\ ClaimChunk(r, c) \/ ChunkStep(r, c)
  /\ UNCHANGED run

TaskFault(r, c) ==
  /\ Alive(r)
  /\ RetryLoad(r, c) \/ FailChunk(r, c)
  /\ UNCHANGED run

----
(* The image branch, and what follows Promise.all.                         *)

ImagesEnd(r) ==
  /\ RunAt(r, "fanOut")
  /\ run[r].images = "busy"
  /\ RunBecomes(r, [run[r] EXCEPT !.images = "done"])
  /\ UNCHANGED <<storeVars, chunkVars>>

(* Mutants of CountLoaded: it does not await the chunks; it tallies what   *)
(* this execution's own LOADs report, so that a resumed one counts nothing.*)
CountLoadedEarly(r) ==
  /\ RunAt(r, "fanOut")
  /\ run[r].images = "done"
  /\ RunBecomes(r, [run[r] EXCEPT !.pc = "countRejected", !.loaded = VehicleCount])
  /\ UNCHANGED <<storeVars, chunkVars>>

CountOwnLoads(r) ==
  LET own == IF \E c \in Chunks : TaskAt(r, c, "ok") THEN VehicleCount ELSE 0 IN
  /\ RunAt(r, "fanOut")
  /\ run[r].images = "done"
  /\ AllSettled(r)
  /\ RunBecomes(r, [run[r] EXCEPT !.pc = "countRejected", !.loaded = own])
  /\ UNCHANGED <<storeVars, chunkVars>>

(* finish: countForJob of the vehicles once both branches are through ...  *)
CountLoaded(r) ==
  /\ RunAt(r, "fanOut")
  /\ run[r].images = "done"
  /\ AllSettled(r)
  /\ RunBecomes(r, [run[r] EXCEPT !.pc = "countRejected", !.loaded = VehicleCount])
  /\ UNCHANGED <<storeVars, chunkVars>>

(* ... then of the rejections, which settles the verdict.                  *)
CountRejected(r) ==
  LET refused == Cardinality(rejected) IN
  /\ RunAt(r, "countRejected")
  /\ RunBecomes(r, [run[r] EXCEPT !.pc = "writeCounts", !.rejected = refused,
       !.verdict = FinalStatus(run[r].loaded, refused, AnyFailed(r))])
  /\ UNCHANGED <<storeVars, chunkVars>>

WriteCounts(r) ==
  /\ RunAt(r, "writeCounts")
  /\ job' = [job EXCEPT !.valid = run[r].loaded, !.invalid = run[r].rejected]
  /\ RunBecomes(r, [run[r] EXCEPT !.pc = "writeStatus"])
  /\ UNCHANGED <<listing, bare, taken, rejected, loadedLog, notices, file, chunkVars>>

WriteStatus(r) ==
  /\ RunAt(r, "writeStatus")
  /\ SetStatus(run[r].verdict)
  /\ IF file = "rows"
     THEN RunBecomes(r, [run[r] EXCEPT !.pc = "notify"])
     ELSE RunEnds(r)
  /\ UNCHANGED <<listing, bare, taken, rejected, loadedLog, notices, file, chunkVars>>

(* notify, its log row opened: the dealer is told, or it is DEGRADED.      *)
Notify(r) ==
  /\ RunAt(r, "notify")
  /\ notices' \in {notices, notices \cup {run[r].verdict}}
  /\ RunEnds(r)
  /\ UNCHANGED <<job, listing, bare, taken, rejected, loadedLog, file, chunkVars>>

(* Anything run() itself awaits may reject: the file stages, the image     *)
(* branch, the counts, the status, and the log.start that opens notify.    *)
RunThrows(r) ==
  /\ \/ RunAt(r, "prepare") /\ Faults \cap {"db", "store"} # {}
     \/ /\ "db" \in Faults
        /\ \E pc \in {"started", "fanOut", "countRejected", "writeCounts",
                      "writeStatus", "notify"} : RunAt(r, pc)
  /\ RunBecomes(r, [IdleRun EXCEPT !.pc = "failing", !.skip = run[r].skip])
  /\ UNCHANGED <<storeVars, chunkVars>>

(* Mutant of FailRun: the error is rethrown, and nobody writes FAILED.     *)
FailRunSilently(r) ==
  /\ RunAt(r, "failing")
  /\ RunEnds(r)
  /\ UNCHANGED <<storeVars, chunkVars>>

(* The catch block of run(), or of the queue handler around it: FAILED,    *)
(* whatever has landed and whatever tasks are still at work.               *)
FailRun(r) ==
  /\ RunAt(r, "failing")
  /\ \/ SetStatus("FAILED")
     \/ "db" \in Faults /\ UNCHANGED job
  /\ RunEnds(r)
  /\ UNCHANGED <<listing, bare, taken, rejected, loadedLog, notices, file, chunkVars>>

RunStep(r, readable) ==
  \/ MarkProcessing(r)
  \/ RejectFile(r, readable) \/ EmptyInventory(r, readable) \/ FanOut(r, readable)
  \/ ImagesEnd(r) \/ CountLoaded(r) \/ CountRejected(r)
  \/ WriteCounts(r) \/ WriteStatus(r) \/ Notify(r) \/ FailRun(r)
  \/ \E c \in Chunks : TaskStep(r, c)

RunFault(r) == RunThrows(r) \/ \E c \in Chunks : TaskFault(r, c)

----
(* The process of the executions in R dies; so do their tasks.             *)
Kill(R) ==
  /\ run' = [r \in Runs |->
       IF r \in R /\ run[r].pc # "idle" THEN [IdleRun EXCEPT !.pc = "dead"] ELSE run[r]]
  /\ TasksVanish(R)
====
