---- MODULE IngestionStore ----
(***************************************************************************)
(* What the ingestion-service keeps for ONE upload job, and the repository *)
(* operations the API and both executors apply to it:                      *)
(*                                                                         *)
(*   job       the row of ingestion.upload_jobs                            *)
(*   listing   the job's vehicles that carry a registration number: the    *)
(*             index (upload_job_id, registration_number) makes them a     *)
(*             function of the registration                                *)
(*   bare      the job's vehicles without one: no index covers them, so    *)
(*             every INSERT makes a new row                                *)
(*   taken     registrations listed under another job (the global unique   *)
(*             index on registration_number)                               *)
(*   rejected  ingestion.rejected_records of the job                       *)
(*   loadedLog chunks with a LOAD row SUCCEEDED in etl_stage_logs          *)
(*   notices   outcomes the dealer has been told, by idempotency key       *)
(*   file      what the dealer's inventory file turns out to be            *)
(*                                                                         *)
(* A row is its number in the file; what tells rows apart is their chunk,  *)
(* their registration and how the row stages judge them.                   *)
(***************************************************************************)
EXTENDS Naturals, FiniteSets

CONSTANTS
  Rows,       \* row numbers of the file's data rows
  Chunks,     \* chunk indexes
  Regs,       \* registration numbers
  NoReg,      \* the registration of a row that has none
  NoRow,      \* the content of a registration the job has not listed
  ChunkOf,    \* [Rows -> Chunks]: splitChunks' partition
  RegOf,      \* [Rows -> Regs \cup {NoReg}]
  Quality,    \* [Rows -> {"good", "bad", "vague"}]
  FileKinds,  \* subset of {"rows", "headerOnly", "invalid"} to explore
  Contested,  \* registrations other jobs list and withdraw
  Runs,       \* pipeline executions of the job
  Faults      \* fault classes to explore, subset of FaultClasses

FaultClasses == {"db", "store", "publish", "crash"}

ASSUME StoreAssumption ==
  /\ Rows \subseteq Nat \ {0}
  /\ IsFiniteSet(Rows)
  /\ IsFiniteSet(Regs)
  /\ Chunks \subseteq Nat
  /\ NoReg \notin Regs
  /\ NoRow \notin Rows
  /\ ChunkOf \in [Rows -> Chunks]
  /\ RegOf \in [Rows -> Regs \cup {NoReg}]
  /\ Quality \in [Rows -> {"good", "bad", "vague"}]
  /\ FileKinds \subseteq {"rows", "headerOnly", "invalid"}
  /\ Contested \subseteq Regs
  /\ Faults \subseteq FaultClasses

VARIABLES job, listing, bare, taken, rejected, loadedLog, notices, file

storeVars == <<job, listing, bare, taken, rejected, loadedLog, notices, file>>

Terminal == {"COMPLETED", "PARTIAL", "FAILED"}
Status   == {"NONE", "PENDING", "PROCESSING"} \cup Terminal

(* Rejections carry the stage that made them; row 0 is the whole file.     *)
Rejection ==
  [stage : {"VALIDATE_ROWS", "LOAD"}, row : Rows]
    \cup [stage : {"VALIDATE_FILE"}, row : {0}]

BareVehicle == [row : Rows, run : Runs, attempt : Nat]

StoreTypeOK ==
  /\ job \in [status : Status, total : Nat, valid : Nat, invalid : Nat]
  /\ listing \in [Regs -> Rows \cup {NoRow}]
  /\ bare \subseteq BareVehicle
  /\ taken \subseteq Regs
  /\ rejected \subseteq Rejection
  /\ loadedLog \subseteq Chunks
  /\ notices \subseteq Terminal
  /\ file \in FileKinds

(* "NONE": the row does not exist yet.                                     *)
StoreInit ==
  /\ job = [status |-> "NONE", total |-> 0, valid |-> 0, invalid |-> 0]
  /\ listing = [g \in Regs |-> NoRow]
  /\ bare = {}
  /\ taken \in SUBSET Contested
  /\ rejected = {}
  /\ loadedLog = {}
  /\ notices = {}
  /\ file \in FileKinds

----
(* Reading the file.                                                       *)

FileRows == IF file = "rows" THEN Rows ELSE {}

ChunkRows(c) == {row \in Rows : ChunkOf[row] = c}

SameRegistration(a, b) == RegOf[a] # NoReg /\ RegOf[a] = RegOf[b]

(* The rows of chunk c that pass checkRow in one execution: a "vague" row  *)
(* is one whose required field only the LLM repair can fill, and that call *)
(* may be skipped, degrade or answer differently every time.               *)
PassingRows(c) ==
  {{row \in ChunkRows(c) : Quality[row] = "good"} \cup repaired :
     repaired \in SUBSET {row \in ChunkRows(c) : Quality[row] = "vague"}}

(* validateRows keeps the first passing row of each registration it meets  *)
(* in the batch it is given, which is one chunk.                           *)
ValidRows(passing) ==
  {row \in passing :
     \A other \in passing : other < row => ~SameRegistration(other, row)}

----
(* Repository operations, as the values they leave behind.                 *)

Rejections(stage, rows) == {[stage |-> stage, row |-> row] : row \in rows}

(* listing after an upsert of rows: a registration of the batch now holds  *)
(* the row of the batch that carries it.                                   *)
ListingWith(rows) ==
  [g \in Regs |->
     IF \E row \in rows : RegOf[row] = g
     THEN CHOOSE row \in rows : RegOf[row] = g
     ELSE listing[g]]

(* bare after run r's attempt a inserted rows.                             *)
BareWith(rows, r, a) ==
  bare \cup {[row |-> row, run |-> r, attempt |-> a] :
               row \in {x \in rows : RegOf[x] = NoReg}}

(* The row would violate the global index: listed, but not by this job.    *)
AlreadyListed(row) == RegOf[row] \in taken

VehicleCount ==
  Cardinality({g \in Regs : listing[g] # NoRow}) + Cardinality(bare)

SetStatus(s) == job' = [job EXCEPT !.status = s]

(* Mutants of FinalStatus: rejections forgotten; nothing landed forgotten. *)
FinalStatusIgnoringRefused(loaded, refused, anyFailed) ==
  IF loaded = 0 THEN "FAILED" ELSE IF anyFailed THEN "PARTIAL" ELSE "COMPLETED"

FinalStatusOfNothing(loaded, refused, anyFailed) ==
  IF anyFailed \/ refused > 0 THEN "PARTIAL" ELSE "COMPLETED"

(* finish and the AGGREGATE handler derive the terminal status alike.      *)
FinalStatus(loaded, refused, anyFailed) ==
  IF loaded = 0 THEN "FAILED"
  ELSE IF anyFailed \/ refused > 0 THEN "PARTIAL" ELSE "COMPLETED"

----
(* Other jobs of the platform, seen through the global unique index.       *)

OtherJobLists(g) ==
  /\ g \in Contested \ taken
  /\ listing[g] = NoRow
  /\ taken' = taken \cup {g}
  /\ UNCHANGED <<job, listing, bare, rejected, loadedLog, notices, file>>

OtherJobWithdraws(g) ==
  /\ g \in taken
  /\ taken' = taken \ {g}
  /\ UNCHANGED <<job, listing, bare, rejected, loadedLog, notices, file>>

OtherJobs == \E g \in Contested : OtherJobLists(g) \/ OtherJobWithdraws(g)

----
(* What became of a row, as the dealer can see it.                         *)

Listed(row) ==
  IF RegOf[row] = NoReg
  THEN \E v \in bare : v.row = row
  ELSE listing[RegOf[row]] # NoRow

Refused(row) == \E x \in rejected : x.row = row

Copies(row) == {v \in bare : v.row = row}

----
(* What the executors promise about the store.                             *)

(* Every row of a chunk whose LOAD was logged SUCCEEDED, which later local *)
(* executions skip, is a listing or a rejection the dealer can read:       *)
(* succeededChunks drops no row.                                           *)
LoadedChunksAreAccounted ==
  \A c \in loadedLog : \A row \in ChunkRows(c) : Listed(row) \/ Refused(row)

(* COMPLETED means the registration (or the vehicle) of every row of the   *)
(* file is listed, however executions overlapped, failed and resumed.      *)
CompletedListsEveryRow ==
  job.status = "COMPLETED" => \A row \in FileRows : Listed(row)

(* When the dealer is told that "No listings were created" (notify.stage), *)
(* none were.                                                              *)
FailedNoticeIsTrue ==
  [][("FAILED" \in notices' \ notices) => VehicleCount = 0]_storeVars

(* The job as the dealer sees it keeps the promises of UploadLifecycle.    *)
Lifecycle == INSTANCE UploadLifecycle WITH
  status    <- job.status,
  inventory <- FileRows,
  sound     <- file # "invalid",
  landed    <- {row \in Rows : Listed(row)},
  refused   <- {row \in Rows : Refused(row)}

ImplementsLifecycle == Lifecycle!Spec

(* A job taken up always reaches a terminal status.                        *)
ProcessingEnds == (job.status = "PROCESSING") ~> (job.status \in Terminal)

----
(* Statements of the repository that the program does not keep.            *)

(* "Skipping the chunk is what makes retry idempotent" (runChunk) and      *)
(* "idempotency is handled by the pipeline's succeededChunks skip"         *)
(* (SqsJobQueue): a row without a registration becomes one vehicle at most.*)
RetryIsIdempotent == \A row \in Rows : Cardinality(Copies(row)) <= 1

(* "Intra-job duplicates must die here" (validateRows): no row of a        *)
(* COMPLETED job has lost its vehicle to another with its registration.    *)
NoRowOverwritten ==
  job.status = "COMPLETED" =>
    \A row \in FileRows : RegOf[row] # NoReg => listing[RegOf[row]] = row
====
