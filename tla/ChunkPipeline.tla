---- MODULE ChunkPipeline ----
(***************************************************************************)
(* One chunk through the row stages and LOAD, as both executors run it:    *)
(* the stages of pipeline/ wrapped by asChunkStage, then the load stage    *)
(* over MarketplaceVehiclesWriteAdapter.                                   *)
(*                                                                         *)
(*   task[r][c]  chunk c in execution r: its place, the load attempt, the  *)
(*               rows it carries, the rows the per-row isolation still has *)
(*               to insert, and those it refused                           *)
(*   artifact    the staged rows of each chunk in the object store: the    *)
(*               key holds job, stage and chunk, so executions share it    *)
(*                                                                         *)
(* A statement that fails leaves no effect; one that succeeds and whose    *)
(* answer is lost is a failure of the step after it.                       *)
(***************************************************************************)
EXTENDS IngestionStore

VARIABLES task, artifact

chunkVars == <<task, artifact>>

TaskPc == {"idle", "todo", "rows", "stage", "fetch", "load", "isolate",
           "record", "log", "ok", "skipped", "failed"}

TaskState ==
  [pc : TaskPc, attempt : Nat, batch : SUBSET Rows, left : SUBSET Rows,
   refused : SUBSET Rows]

ChunkTypeOK ==
  /\ task \in [Runs -> [Chunks -> TaskState]]
  /\ artifact \in [Chunks -> SUBSET Rows]

IdleTask ==
  [pc |-> "idle", attempt |-> 0, batch |-> {}, left |-> {}, refused |-> {}]

ChunkInit ==
  /\ task = [r \in Runs |-> [c \in Chunks |-> IdleTask]]
  /\ artifact = [c \in Chunks |-> {}]

TaskBecomes(r, c, state) == task' = [task EXCEPT ![r][c] = state]

(* What a task that is over carried is of no more use.                     *)
TaskEnds(r, c, pc) == TaskBecomes(r, c, [IdleTask EXCEPT !.pc = pc])

TaskAt(r, c, pc) == task[r][c].pc = pc

InRowStages(r, c) == task[r][c].pc \in {"rows", "stage"}
InLoad(r, c)      == task[r][c].pc \in {"load", "isolate", "record", "log"}

Settled == {"ok", "skipped", "failed"}
Busy(r, c) == task[r][c].pc \notin Settled \cup {"idle", "todo"}

AnyFailed(r)  == \E c \in Chunks : task[r][c].pc = "failed"
AllSettled(r) == \A c \in Chunks : task[r][c].pc \in Settled

(* Both branches of the fan-out begin: every chunk waits for its turn.     *)
TasksBegin(r) ==
  task' = [task EXCEPT ![r] = [c \in Chunks |-> [IdleTask EXCEPT !.pc = "todo"]]]

TasksVanish(R) ==
  task' = [r \in Runs |->
             IF r \in R THEN [c \in Chunks |-> IdleTask] ELSE task[r]]

----
(* PARSE_NORMALIZE to VALIDATE_ROWS: every row that is not carried on is   *)
(* written to rejected_records.                                            *)
JudgeRows(r, c) ==
  /\ TaskAt(r, c, "rows")
  /\ \E passing \in PassingRows(c) :
       LET valid == ValidRows(passing) IN
       /\ rejected' = rejected \cup Rejections("VALIDATE_ROWS", ChunkRows(c) \ valid)
       /\ TaskBecomes(r, c, [task[r][c] EXCEPT !.pc = "stage", !.batch = valid])
  /\ UNCHANGED <<job, listing, bare, taken, loadedLog, notices, file, artifact>>

(* The surviving rows go to the object store: the puts of VALIDATE_ROWS,   *)
(* ENRICH and EMBED.                                                       *)
StageRows(r, c) ==
  /\ TaskAt(r, c, "stage")
  /\ artifact' = [artifact EXCEPT ![c] = task[r][c].batch]
  /\ TaskBecomes(r, c, [task[r][c] EXCEPT !.pc = "fetch"])
  /\ UNCHANGED storeVars

(* load reads them back, whoever wrote them last.                          *)
FetchRows(r, c) ==
  /\ TaskAt(r, c, "fetch")
  /\ TaskBecomes(r, c, [task[r][c] EXCEPT !.pc = "load", !.batch = artifact[c]])
  /\ UNCHANGED <<storeVars, artifact>>

(* One INSERT .. ON CONFLICT for the batch.                                *)
InsertBatch(r, c) ==
  LET t == task[r][c] IN
  /\ TaskAt(r, c, "load")
  /\ \A row \in t.batch : ~AlreadyListed(row)
  /\ listing' = ListingWith(t.batch)
  /\ bare' = BareWith(t.batch, r, t.attempt)
  /\ TaskBecomes(r, c, [t EXCEPT !.pc = "log", !.refused = {}])
  /\ UNCHANGED <<job, taken, rejected, loadedLog, notices, file, artifact>>

(* A unique violation aborts the whole statement: isolate the rows.        *)
BatchConflict(r, c) ==
  LET t == task[r][c] IN
  /\ TaskAt(r, c, "load")
  /\ \E row \in t.batch : AlreadyListed(row)
  /\ TaskBecomes(r, c, [t EXCEPT !.pc = "isolate", !.left = t.batch, !.refused = {}])
  /\ UNCHANGED <<storeVars, artifact>>

(* Mutant of RecordRefused: the rows the index refused are only logged.    *)
RecordNothing(r, c) ==
  /\ TaskAt(r, c, "record")
  /\ TaskBecomes(r, c, [task[r][c] EXCEPT !.pc = "log", !.refused = {}])
  /\ UNCHANGED <<storeVars, artifact>>

(* insertIndividually: the next row is inserted, or refused if another job *)
(* lists its registration at that moment.                                  *)
InsertOne(r, c) ==
  LET t == task[r][c] IN
  /\ TaskAt(r, c, "isolate")
  /\ \E row \in t.left :
       LET left == t.left \ {row}
           next == IF left = {} THEN "record" ELSE "isolate"
       IN
       /\ \A other \in left : row < other
       /\ \/ /\ AlreadyListed(row)
             /\ TaskBecomes(r, c, [t EXCEPT !.pc = next, !.left = left,
                                            !.refused = t.refused \cup {row}])
             /\ UNCHANGED <<listing, bare>>
          \/ /\ ~AlreadyListed(row)
             /\ listing' = ListingWith({row})
             /\ bare' = BareWith({row}, r, t.attempt)
             /\ TaskBecomes(r, c, [t EXCEPT !.pc = next, !.left = left])
  /\ UNCHANGED <<job, taken, rejected, loadedLog, notices, file, artifact>>

RecordRefused(r, c) ==
  /\ TaskAt(r, c, "record")
  /\ rejected' = rejected \cup Rejections("LOAD", task[r][c].refused)
  /\ TaskBecomes(r, c, [task[r][c] EXCEPT !.pc = "log", !.refused = {}])
  /\ UNCHANGED <<job, listing, bare, taken, loadedLog, notices, file, artifact>>

(* The LOAD stage log is finished SUCCEEDED: later runs skip the chunk.    *)
LogLoaded(r, c) ==
  /\ TaskAt(r, c, "log")
  /\ loadedLog' = loadedLog \cup {c}
  /\ TaskEnds(r, c, "ok")
  /\ UNCHANGED <<job, listing, bare, taken, rejected, notices, file, artifact>>

(* What a chunk does by itself once an executor has started it.            *)
ChunkStep(r, c) ==
  \/ JudgeRows(r, c) \/ StageRows(r, c) \/ FetchRows(r, c)
  \/ InsertBatch(r, c) \/ BatchConflict(r, c) \/ InsertOne(r, c)
  \/ RecordRefused(r, c) \/ LogLoaded(r, c)
====
