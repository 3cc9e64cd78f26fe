---- MODULE StepFunctions ----
(***************************************************************************)
(* The production executor: one execution of etl-state-machine.asl.json    *)
(* over the stage Lambdas. It skips no chunk that an earlier execution     *)
(* loaded, and the Map has one Catch for all its chunks.                   *)
(*                                                                         *)
(*   exec[r]  the state execution r is in; what $.parallelResult.chunks    *)
(*            holds ("none" while the Map runs, then the "list" of its     *)
(*            envelopes or the "error" its Catch put there); the image     *)
(*            branch; the attempt of Aggregate and what it counted         *)
(*                                                                         *)
(* Retries of a Lambda fault before the handler ran, or of a row stage     *)
(* whose effects are upserts of the same rows, are not told apart from the *)
(* first attempt.                                                          *)
(***************************************************************************)
EXTENDS ChunkPipeline

CONSTANTS
  LoadAttempts,       \* 1 + MaxAttempts of Load
  AggregateAttempts,  \* 1 + MaxAttempts of Aggregate
  MapConcurrency      \* MaxConcurrency of ProcessChunks

ASSUME StepFunctionsAssumption ==
  /\ LoadAttempts \in Nat \ {0}
  /\ AggregateAttempts \in Nat \ {0}
  /\ MapConcurrency \in Nat \ {0}

VARIABLE exec

cloudVars == <<exec, chunkVars>>

ExecPc == {"idle", "markProcessing", "validateFile", "splitChunks", "processRows",
           "countLoaded", "countRejected", "writeCounts", "writeStatus",
           "logAggregate", "notify", "markFailed", "succeeded", "failed", "aborted"}

ExecState ==
  [pc : ExecPc, chunks : {"none", "list", "error"}, images : {"off", "busy", "done"},
   attempt : Nat, loaded : Nat, rejected : Nat]

CloudTypeOK == ChunkTypeOK /\ exec \in [Runs -> ExecState]

IdleExec ==
  [pc |-> "idle", chunks |-> "none", images |-> "off", attempt |-> 0,
   loaded |-> 0, rejected |-> 0]

CloudInit == ChunkInit /\ exec = [r \in Runs |-> IdleExec]

ExecAt(r, pc)         == exec[r].pc = pc
ExecBecomes(r, state) == exec' = [exec EXCEPT ![r] = state]
ExecGoto(r, pc)       == ExecBecomes(r, [exec[r] EXCEPT !.pc = pc])

(* Catch ... Next MarkJobFailed.                                           *)
Caught(r) == ExecBecomes(r, [exec[r] EXCEPT !.pc = "markFailed", !.attempt = 0])

----
(* The whole-file states.                                                  *)

MarkProcessing(r) ==
  /\ ExecAt(r, "markProcessing")
  /\ SetStatus("PROCESSING")
  /\ ExecGoto(r, "validateFile")
  /\ UNCHANGED <<listing, bare, taken, rejected, loadedLog, notices, file, chunkVars>>

ValidateFile(r, readable) ==
  /\ ExecAt(r, "validateFile")
  /\ readable /\ file # "invalid"
  /\ ExecGoto(r, "splitChunks")
  /\ UNCHANGED <<storeVars, chunkVars>>

(* Mutants of RejectFile: a rejection without its stage; no Catch.         *)
RejectRowZero(r, readable) ==
  /\ ExecAt(r, "validateFile")
  /\ ~readable \/ file = "invalid"
  /\ rejected' = rejected \cup Rejections("VALIDATE_ROWS", {0})
  /\ Caught(r)
  /\ UNCHANGED <<job, listing, bare, taken, loadedLog, notices, file, chunkVars>>

RejectFileUncaught(r, readable) ==
  /\ ExecAt(r, "validateFile")
  /\ ~readable \/ file = "invalid"
  /\ rejected' = rejected \cup Rejections("VALIDATE_FILE", {0})
  /\ ExecGoto(r, "aborted")
  /\ UNCHANGED <<job, listing, bare, taken, loadedLog, notices, file, chunkVars>>

(* validateFile throws: one whole-file rejection, and Catch.               *)
RejectFile(r, readable) ==
  /\ ExecAt(r, "validateFile")
  /\ ~readable \/ file = "invalid"
  /\ rejected' = rejected \cup Rejections("VALIDATE_FILE", {0})
  /\ Caught(r)
  /\ UNCHANGED <<job, listing, bare, taken, loadedLog, notices, file, chunkVars>>

(* SplitChunks, HasChunks, and both branches of ProcessRows start.         *)
SplitChunks(r) ==
  /\ ExecAt(r, "splitChunks")
  /\ file = "rows"
  /\ job' = [job EXCEPT !.total = Cardinality(Rows)]
  /\ ExecBecomes(r, [exec[r] EXCEPT !.pc = "processRows", !.images = "busy"])
  /\ TasksBegin(r)
  /\ UNCHANGED <<listing, bare, taken, rejected, loadedLog, notices, file, artifact>>

(* HasChunks goes straight to Aggregate, whose Parameters read             *)
(* $.parallelResult.chunks: the path does not exist. Whether Catch gets to *)
(* see that error is the service's affair.                                 *)
SplitNothing(r) ==
  /\ ExecAt(r, "splitChunks")
  /\ file = "headerOnly"
  /\ job' = [job EXCEPT !.total = 0]
  /\ Caught(r) \/ ExecGoto(r, "aborted")
  /\ UNCHANGED <<listing, bare, taken, rejected, loadedLog, notices, file, chunkVars>>

(* A Lambda of a whole-file state throws.                                  *)
FileStateFails(r) ==
  /\ \E pc \in {"markProcessing", "validateFile", "splitChunks"} : ExecAt(r, pc)
  /\ Faults \cap {"db", "store"} # {}
  /\ Caught(r)
  /\ UNCHANGED <<storeVars, chunkVars>>

----
(* ProcessChunks: the Map.                                                 *)

MapRuns(r) == ExecAt(r, "processRows") /\ exec[r].chunks = "none"

StartIteration(r, c) ==
  /\ MapRuns(r)
  /\ TaskAt(r, c, "todo")
  /\ \A d \in Chunks : d < c => ~TaskAt(r, d, "todo")
  /\ Cardinality({d \in Chunks : Busy(r, d)}) < MapConcurrency
  /\ TaskBecomes(r, c, [task[r][c] EXCEPT !.pc = "rows"])
  /\ UNCHANGED <<storeVars, exec, artifact>>

(* A Lambda under way when the Map fails runs to its end; the next one of  *)
(* its chunk, here Load, is not started.                                   *)
IterationStep(r, c) ==
  /\ MapRuns(r) \/ ~TaskAt(r, c, "fetch")
  /\ ChunkStep(r, c)
  /\ UNCHANGED exec

(* Load is retried on any error, from reading its rows on.                 *)
RetryLoad(r, c) ==
  /\ "db" \in Faults
  /\ MapRuns(r)
  /\ InLoad(r, c)
  /\ task[r][c].attempt + 1 < LoadAttempts
  /\ TaskBecomes(r, c, [IdleTask EXCEPT !.pc = "fetch", !.attempt = task[r][c].attempt + 1])
  /\ UNCHANGED <<storeVars, exec, artifact>>

(* An iteration is out of retries: a row stage has none for its own errors.*)
FailIteration(r, c) ==
  /\ \/ /\ Faults \cap {"db", "store"} # {}
        /\ InRowStages(r, c) \/ TaskAt(r, c, "fetch")
     \/ /\ "db" \in Faults
        /\ InLoad(r, c)
        /\ task[r][c].attempt + 1 >= LoadAttempts \/ ~MapRuns(r)
  /\ TaskEnds(r, c, "failed")
  /\ UNCHANGED <<storeVars, exec, artifact>>

(* Mutant of MapSucceeds: a failed iteration is tolerated.                 *)
MapTolerates(r) ==
  /\ MapRuns(r)
  /\ AllSettled(r)
  /\ ExecBecomes(r, [exec[r] EXCEPT !.chunks = "list"])
  /\ UNCHANGED <<storeVars, chunkVars>>

MapSucceeds(r) ==
  /\ MapRuns(r)
  /\ \A c \in Chunks : TaskAt(r, c, "ok")
  /\ ExecBecomes(r, [exec[r] EXCEPT !.chunks = "list"])
  /\ UNCHANGED <<storeVars, chunkVars>>

(* Mutant of MapCatches: the Map has no Catch.                             *)
MapAborts(r) ==
  /\ MapRuns(r)
  /\ AnyFailed(r)
  /\ ExecGoto(r, "aborted")
  /\ UNCHANGED <<storeVars, chunkVars>>

(* The Map's Catch: the iterations still to run are given up, and the      *)
(* error object takes the place of the envelopes in $.chunks.              *)
MapCatches(r) ==
  /\ MapRuns(r)
  /\ AnyFailed(r)
  /\ ExecBecomes(r, [exec[r] EXCEPT !.chunks = "error"])
  /\ UNCHANGED <<storeVars, chunkVars>>

(* The image branch catches everything.                                    *)
ImagesDone(r) ==
  /\ ExecAt(r, "processRows")
  /\ exec[r].images = "busy"
  /\ ExecBecomes(r, [exec[r] EXCEPT !.images = "done"])
  /\ UNCHANGED <<storeVars, chunkVars>>

ProcessRowsEnds(r) ==
  /\ ExecAt(r, "processRows")
  /\ exec[r].chunks # "none"
  /\ exec[r].images = "done"
  /\ ExecGoto(r, "countLoaded")
  /\ UNCHANGED <<storeVars, chunkVars>>

----
(* Aggregate, Notify, MarkJobFailed.                                       *)

CountLoaded(r) ==
  /\ ExecAt(r, "countLoaded")
  /\ ExecBecomes(r, [exec[r] EXCEPT !.pc = "countRejected", !.loaded = VehicleCount])
  /\ UNCHANGED <<storeVars, chunkVars>>

(* countForJob of the rejections, then input.chunks.some: a list only here.*)
CountRejected(r) ==
  /\ ExecAt(r, "countRejected")
  /\ exec[r].chunks = "list"
  /\ ExecBecomes(r, [exec[r] EXCEPT !.pc = "writeCounts",
                                    !.rejected = Cardinality(rejected)])
  /\ UNCHANGED <<storeVars, chunkVars>>

(* An attempt that throws is made again, and at last caught.               *)
AggregateThrows(r) ==
  IF exec[r].attempt + 1 < AggregateAttempts
  THEN ExecBecomes(r, [exec[r] EXCEPT !.pc = "countLoaded", !.attempt = @ + 1])
  ELSE Caught(r)

(* The error object has no method some.                                    *)
ChunksAreNoList(r) ==
  /\ ExecAt(r, "countRejected")
  /\ exec[r].chunks # "list"
  /\ AggregateThrows(r)
  /\ UNCHANGED <<storeVars, chunkVars>>

AggregateFails(r) ==
  /\ "db" \in Faults
  /\ \E pc \in {"countLoaded", "countRejected", "writeCounts", "writeStatus",
                "logAggregate"} : ExecAt(r, pc)
  /\ AggregateThrows(r)
  /\ UNCHANGED <<storeVars, chunkVars>>

WriteCounts(r) ==
  /\ ExecAt(r, "writeCounts")
  /\ job' = [job EXCEPT !.valid = exec[r].loaded, !.invalid = exec[r].rejected]
  /\ ExecGoto(r, "writeStatus")
  /\ UNCHANGED <<listing, bare, taken, rejected, loadedLog, notices, file, chunkVars>>

Verdict(r) == FinalStatus(exec[r].loaded, exec[r].rejected, exec[r].chunks # "list")

WriteStatus(r) ==
  /\ ExecAt(r, "writeStatus")
  /\ SetStatus(Verdict(r))
  /\ ExecGoto(r, "logAggregate")
  /\ UNCHANGED <<listing, bare, taken, rejected, loadedLog, notices, file, chunkVars>>

LogAggregate(r) ==
  /\ ExecAt(r, "logAggregate")
  /\ ExecGoto(r, "notify")
  /\ UNCHANGED <<storeVars, chunkVars>>

Notify(r) ==
  /\ ExecAt(r, "notify")
  /\ notices' \in {notices, notices \cup {Verdict(r)}}
  /\ ExecBecomes(r, [IdleExec EXCEPT !.pc = "succeeded"])
  /\ UNCHANGED <<job, listing, bare, taken, rejected, loadedLog, file, chunkVars>>

(* The job row first, the stage log after it, then state JobFailed.        *)
MarkJobFailed(r) ==
  /\ ExecAt(r, "markFailed")
  /\ SetStatus("FAILED")
  /\ ExecGoto(r, "failed")
  /\ UNCHANGED <<listing, bare, taken, rejected, loadedLog, notices, file, chunkVars>>

(* Out of retries, and nothing catches it.                                 *)
MarkJobFailedFails(r) ==
  /\ "db" \in Faults
  /\ ExecAt(r, "markFailed")
  /\ ExecGoto(r, "aborted")
  /\ UNCHANGED <<storeVars, chunkVars>>

ExecStep(r, readable) ==
  \/ MarkProcessing(r) \/ ValidateFile(r, readable) \/ RejectFile(r, readable)
  \/ SplitChunks(r) \/ SplitNothing(r)
  \/ \E c \in Chunks : StartIteration(r, c) \/ IterationStep(r, c)
  \/ MapSucceeds(r) \/ MapCatches(r) \/ ImagesDone(r) \/ ProcessRowsEnds(r)
  \/ CountLoaded(r) \/ CountRejected(r) \/ ChunksAreNoList(r)
  \/ WriteCounts(r) \/ WriteStatus(r) \/ LogAggregate(r)
  \/ Notify(r) \/ MarkJobFailed(r)

ExecFault(r) ==
  \/ FileStateFails(r) \/ AggregateFails(r) \/ MarkJobFailedFails(r)
  \/ \E c \in Chunks : RetryLoad(r, c) \/ FailIteration(r, c)
====
