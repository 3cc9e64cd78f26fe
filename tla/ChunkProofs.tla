---- MODULE ChunkProofs ----
(***************************************************************************)
(* Proofs that hold for both executors. About ChunkPipeline: what every    *)
(* stage of a chunk leaves well-typed, and that a chunk accounts for its   *)
(* rows from validateRows to the LOAD log, whatever other executions of    *)
(* the same chunk do in between. About UploadApi: what a request may do to *)
(* the job. And the steps of an executor seen from UploadLifecycle:        *)
(* WholeFileListed to ProgressRefines. Counting needs finite tables, which *)
(* StoreAssumption (finite files, finitely many registration numbers)      *)
(* gives.                                                                  *)
(***************************************************************************)
EXTENDS ChunkPipeline, UploadApi, FiniteSetTheorems, TLAPS

(* The rejections of finitely many rows are finitely many.                 *)
LEMMA RejectionsFinite ==
  ASSUME NEW stage, NEW S, IsFiniteSet(S)
  PROVE  IsFiniteSet(Rejections(stage, S))
<1> DEFINE f == [row \in S |-> [stage |-> stage, row |-> row]]
<1>1. f \in Surjection(S, Rejections(stage, S))
  BY DEF Rejections, Surjection
<1>. QED
  BY <1>1, FS_Surjection

(* rejected_records of a job is a finite table: countForJob counts it.     *)
LEMMA RejectedFinite ==
  ASSUME StoreTypeOK
  PROVE  IsFiniteSet(rejected)
<1> DEFINE All == (Rejections("VALIDATE_ROWS", Rows) \cup Rejections("LOAD", Rows))
                    \cup Rejections("VALIDATE_FILE", {0})
<1>1. IsFiniteSet(All)
  BY RejectionsFinite, FS_Union, FS_Singleton, StoreAssumption
<1>2. ASSUME NEW x \in rejected
      PROVE  x \in All
  <2>1. CASE x \in [stage : {"VALIDATE_ROWS", "LOAD"}, row : Rows]
    <3>1. /\ x = [stage |-> x.stage, row |-> x.row]
          /\ x.stage = "VALIDATE_ROWS" \/ x.stage = "LOAD"
          /\ x.row \in Rows
      BY <2>1
    <3>. QED
      BY <3>1, Zenon DEF Rejections
  <2>2. CASE x \in [stage : {"VALIDATE_FILE"}, row : {0}]
    <3>1. x = [stage |-> "VALIDATE_FILE", row |-> 0]
      BY <2>2
    <3>. QED
      BY <3>1, Zenon DEF Rejections
  <2>. QED
    BY <2>1, <2>2 DEF StoreTypeOK, Rejection
<1>. QED
  BY <1>1, <1>2, FS_Subset

(* countForJob of the vehicles returns a natural number.                   *)
LEMMA VehicleCountIsNat ==
  ASSUME StoreTypeOK, IsFiniteSet(bare)
  PROVE  VehicleCount \in Nat
<1>1. IsFiniteSet({g \in Regs : listing[g] # NoRow})
  BY StoreAssumption, FS_Subset
<1>. QED
  BY <1>1, FS_CardinalityType DEF VehicleCount

(* An INSERT of finitely many rows leaves a finite table.                  *)
LEMMA InsertsAreFinite ==
  ASSUME NEW S, IsFiniteSet(S), NEW r, NEW a, IsFiniteSet(bare)
  PROVE  IsFiniteSet(BareWith(S, r, a))
<1> DEFINE T == {x \in S : RegOf[x] = NoReg}
           New == {[row |-> row, run |-> r, attempt |-> a] : row \in T}
           f == [row \in T |-> [row |-> row, run |-> r, attempt |-> a]]
<1>1. IsFiniteSet(T)
  BY FS_Subset
<1>2. f \in Surjection(T, New)
  BY DEF Surjection
<1>3. IsFiniteSet(New)
  BY <1>1, <1>2, FS_Surjection
<1>. QED
  BY <1>3, FS_Union DEF BareWith

----
(* What the pieces of an action leave well-typed.                          *)

(* TaskBecomes leaves tasks of the right shape.                            *)
LEMMA TaskTyped ==
  ASSUME ChunkTypeOK, NEW r \in Runs, NEW c \in Chunks, NEW state \in TaskState,
         TaskBecomes(r, c, state)
  PROVE  task' \in [Runs -> [Chunks -> TaskState]]
BY DEF ChunkTypeOK, TaskBecomes

(* So does TaskEnds.                                                       *)
LEMMA TaskEndsTyped ==
  ASSUME ChunkTypeOK, NEW r \in Runs, NEW c \in Chunks,
         NEW pc \in TaskPc, TaskEnds(r, c, pc)
  PROVE  task' \in [Runs -> [Chunks -> TaskState]]
BY TaskTyped DEF TaskEnds, IdleTask, TaskState

(* validateRows keeps rows of the chunk it was given, and no others.       *)
LEMMA ValidRowsTyped ==
  ASSUME NEW c \in Chunks, NEW passing \in PassingRows(c)
  PROVE  ValidRows(passing) \subseteq ChunkRows(c)
BY DEF PassingRows, ValidRows, ChunkRows

(* insertMany and upsert of rejections write rejections of rows.           *)
LEMMA RejectionsTyped ==
  ASSUME StoreTypeOK, NEW stage \in {"VALIDATE_ROWS", "LOAD"}, NEW S \in SUBSET Rows,
         rejected' = rejected \cup Rejections(stage, S)
  PROVE  rejected' \subseteq Rejection
BY DEF StoreTypeOK, Rejections, Rejection

(* upsertBatch and insertIndividually write vehicles of the right shape.   *)
LEMMA InsertsTyped ==
  ASSUME StoreTypeOK, NEW S \in SUBSET Rows, NEW r \in Runs, NEW a \in Nat
  PROVE  /\ ListingWith(S) \in [Regs -> Rows \cup {NoRow}]
         /\ BareWith(S, r, a) \subseteq BareVehicle
BY DEF StoreTypeOK, ListingWith, BareWith, BareVehicle

(* No stage of a chunk leaves the tables ill-typed, or infinite.           *)
LEMMA ChunkStepTyped ==
  ASSUME StoreTypeOK, ChunkTypeOK, IsFiniteSet(bare),
         NEW r \in Runs, NEW c \in Chunks, ChunkStep(r, c)
  PROVE  StoreTypeOK' /\ ChunkTypeOK' /\ IsFiniteSet(bare')
<1> DEFINE t == task[r][c]
<1>0. t \in TaskState
  BY DEF ChunkTypeOK
<1>1. CASE JudgeRows(r, c)
  <2>1. PICK passing \in PassingRows(c) :
          /\ rejected' = rejected \cup
               Rejections("VALIDATE_ROWS", ChunkRows(c) \ ValidRows(passing))
          /\ TaskBecomes(r, c, [t EXCEPT !.pc = "stage", !.batch = ValidRows(passing)])
    BY <1>1 DEF JudgeRows
  <2>2. ValidRows(passing) \subseteq Rows
    BY ValidRowsTyped DEF ChunkRows
  <2>3. [t EXCEPT !.pc = "stage", !.batch = ValidRows(passing)] \in TaskState
    BY <1>0, <2>2 DEF TaskState, TaskPc
  <2>4. rejected' \subseteq Rejection
    BY <2>1, RejectionsTyped DEF ChunkRows
  <2>. QED
    BY <1>1, <2>1, <2>3, <2>4, TaskTyped DEF JudgeRows, StoreTypeOK, ChunkTypeOK
<1>2. CASE StageRows(r, c)
  <2>1. [t EXCEPT !.pc = "fetch"] \in TaskState
    BY <1>0 DEF TaskState, TaskPc
  <2>2. artifact' \in [Chunks -> SUBSET Rows]
    BY <1>0, <1>2 DEF StageRows, ChunkTypeOK, TaskState
  <2>. QED
    BY <1>2, <2>1, <2>2, TaskTyped DEF StageRows, StoreTypeOK, ChunkTypeOK, storeVars
<1>3. CASE FetchRows(r, c)
  <2>1. [t EXCEPT !.pc = "load", !.batch = artifact[c]] \in TaskState
    BY <1>0 DEF TaskState, TaskPc, ChunkTypeOK
  <2>. QED
    BY <1>3, <2>1, TaskTyped DEF FetchRows, StoreTypeOK, ChunkTypeOK, storeVars
<1>4. CASE InsertBatch(r, c)
  <2>1. [t EXCEPT !.pc = "log", !.refused = {}] \in TaskState
    BY <1>0 DEF TaskState, TaskPc
  <2>2. t.batch \in SUBSET Rows /\ t.attempt \in Nat
    BY <1>0 DEF TaskState
  <2>3. IsFiniteSet(t.batch)
    BY <2>2, FS_Subset, StoreAssumption
  <2>4. IsFiniteSet(bare')
    BY <1>4, <2>3, InsertsAreFinite DEF InsertBatch
  <2>. QED
    BY <1>4, <2>1, <2>2, <2>4, TaskTyped, InsertsTyped
    DEF InsertBatch, StoreTypeOK, ChunkTypeOK
<1>5. CASE BatchConflict(r, c)
  <2>1. [t EXCEPT !.pc = "isolate", !.left = t.batch, !.refused = {}] \in TaskState
    BY <1>0 DEF TaskState, TaskPc
  <2>. QED
    BY <1>5, <2>1, TaskTyped DEF BatchConflict, StoreTypeOK, ChunkTypeOK, storeVars
<1>6. CASE InsertOne(r, c)
  <2>1. PICK row \in t.left :
          LET left == t.left \ {row}
              next == IF left = {} THEN "record" ELSE "isolate"
          IN
          \/ /\ TaskBecomes(r, c, [t EXCEPT !.pc = next, !.left = left,
                                            !.refused = t.refused \cup {row}])
             /\ UNCHANGED <<listing, bare>>
          \/ /\ listing' = ListingWith({row})
             /\ bare' = BareWith({row}, r, t.attempt)
             /\ TaskBecomes(r, c, [t EXCEPT !.pc = next, !.left = left])
    BY <1>6 DEF InsertOne
  <2> DEFINE left == t.left \ {row}
             next == IF left = {} THEN "record" ELSE "isolate"
  <2>2. /\ [t EXCEPT !.pc = next, !.left = left, !.refused = t.refused \cup {row}]
             \in TaskState
        /\ [t EXCEPT !.pc = next, !.left = left] \in TaskState
    BY <1>0 DEF TaskState, TaskPc
  <2>3. {row} \in SUBSET Rows /\ t.attempt \in Nat
    BY <1>0 DEF TaskState
  <2>4. task' \in [Runs -> [Chunks -> TaskState]]
    BY <2>1, <2>2, TaskTyped
  <2>5. IsFiniteSet({row})
    BY FS_Singleton
  <2>6. IsFiniteSet(bare')
    BY <2>1, <2>5, InsertsAreFinite
  <2>7. listing' \in [Regs -> Rows \cup {NoRow}] /\ bare' \subseteq BareVehicle
    BY <2>1, <2>3, InsertsTyped DEF StoreTypeOK
  <2>. QED
    BY <1>6, <2>4, <2>6, <2>7 DEF InsertOne, StoreTypeOK, ChunkTypeOK
<1>7. CASE RecordRefused(r, c)
  <2>1. [t EXCEPT !.pc = "log", !.refused = {}] \in TaskState /\ t.refused \in SUBSET Rows
    BY <1>0 DEF TaskState, TaskPc
  <2>2. rejected' \subseteq Rejection
    BY <1>7, <2>1, RejectionsTyped DEF RecordRefused
  <2>. QED
    BY <1>7, <2>1, <2>2, TaskTyped DEF RecordRefused, StoreTypeOK, ChunkTypeOK
<1>8. CASE LogLoaded(r, c)
  <2>1. task' \in [Runs -> [Chunks -> TaskState]]
    BY <1>8, TaskEndsTyped DEF LogLoaded, TaskPc
  <2>. QED
    BY <1>8, <2>1 DEF LogLoaded, StoreTypeOK, ChunkTypeOK
<1>. QED
  BY <1>1, <1>2, <1>3, <1>4, <1>5, <1>6, <1>7, <1>8 DEF ChunkStep

----
(* What a chunk accounts for on its way.                                   *)

(* Every row of chunk c is among S or has a rejection.                     *)
Carries(c, S) == \A row \in ChunkRows(c) : row \in S \/ Refused(row)

TaskAccounts(r, c) ==
  LET t == task[r][c] IN
  /\ t.pc \in {"stage", "load", "isolate", "record", "log"} => Carries(c, t.batch)
  /\ t.pc \in {"fetch", "load", "isolate", "record", "log"} => Carries(c, artifact[c])
  /\ t.pc = "isolate" =>
       \A row \in t.batch : row \in t.left \/ row \in t.refused \/ Listed(row)
  /\ t.pc = "record" => \A row \in t.batch : row \in t.refused \/ Listed(row)
  /\ t.pc = "log" => \A row \in t.batch : Listed(row) \/ Refused(row)
  /\ t.pc \in {"ok", "skipped"} => c \in loadedLog

(* A listing holds a row of its registration, a bare vehicle one of none.  *)
VehiclesSound ==
  /\ \A g \in Regs : listing[g] # NoRow => RegOf[listing[g]] = g
  /\ \A v \in bare : RegOf[v.row] = NoReg

AccountInv ==
  /\ VehiclesSound
  /\ LoadedChunksAreAccounted
  /\ \A r \in Runs, c \in Chunks : TaskAccounts(r, c)

(* Nothing that accounts for a row is ever taken back.                     *)
StoreGrows ==
  /\ \A row \in Rows : Listed(row) => Listed(row)'
  /\ \A row \in Rows : Refused(row) => Refused(row)'
  /\ loadedLog \subseteq loadedLog'

(* After an INSERT .. ON CONFLICT of the rows S all of them are listed,    *)
(* nothing listed before is lost, and every vehicle still fits its         *)
(* registration.                                                           *)
LEMMA InsertLists ==
  ASSUME StoreTypeOK, VehiclesSound,
         NEW S \in SUBSET Rows, NEW r \in Runs, NEW a \in Nat,
         listing' = ListingWith(S), bare' = BareWith(S, r, a)
  PROVE  /\ VehiclesSound'
         /\ \A row \in Rows : Listed(row) => Listed(row)'
         /\ \A row \in S : Listed(row)'
<1>1. ASSUME NEW g \in Regs
      PROVE  \/ /\ listing'[g] \in S
                /\ RegOf[listing'[g]] = g
             \/ /\ \A row \in S : RegOf[row] # g
                /\ listing'[g] = listing[g]
  BY DEF ListingWith
<1>2. NoRow \notin S
  BY StoreAssumption
<1>3. \A g \in Regs : listing[g] # NoRow => listing'[g] # NoRow
  BY <1>1, <1>2
<1>4. bare \subseteq bare'
  BY DEF BareWith
<1>5. \A v \in bare' : v \in bare \/ RegOf[v.row] = NoReg
  BY DEF BareWith
<1>6. VehiclesSound'
  BY <1>1, <1>5 DEF VehiclesSound
<1>7. ASSUME NEW row \in Rows, Listed(row)
      PROVE  Listed(row)'
  BY <1>3, <1>4, <1>7, StoreAssumption DEF Listed
<1>8. ASSUME NEW row \in S
      PROVE  Listed(row)'
  <2>1. CASE RegOf[row] = NoReg
    <3>1. [row |-> row, run |-> r, attempt |-> a] \in bare'
      BY <2>1 DEF BareWith
    <3>. QED
      BY <2>1, <3>1 DEF Listed
  <2>2. CASE RegOf[row] # NoReg
    <3>1. RegOf[row] \in Regs
      BY <2>2, StoreAssumption
    <3>. QED
      BY <1>1, <1>2, <2>2, <3>1 DEF Listed
  <2>. QED
    BY <2>1, <2>2
<1>. QED
  BY <1>6, <1>7, <1>8

(* After insertMany of rejections the rows S are refused, and so are those *)
(* that were.                                                              *)
LEMMA RejectRefuses ==
  ASSUME NEW stage, NEW S \in SUBSET Rows,
         rejected' = rejected \cup Rejections(stage, S)
  PROVE  /\ \A row \in Rows : Refused(row) => Refused(row)'
         /\ \A row \in S : Refused(row)'
<1>1. ASSUME NEW row \in S
      PROVE  Refused(row)'
  <2>1. [stage |-> stage, row |-> row] \in rejected'
    BY DEF Rejections
  <2>. QED
    BY <2>1 DEF Refused
<1>. QED
  BY <1>1 DEF Refused

(* Tasks a step does not touch go on accounting for their rows.            *)
LEMMA OthersAccount ==
  ASSUME ChunkTypeOK, NEW r \in Runs, NEW c \in Chunks, TaskAccounts(r, c),
         StoreGrows, task'[r][c] = task[r][c],
         artifact'[c] = artifact[c] \/ Carries(c, artifact[c])'
  PROVE  TaskAccounts(r, c)'
<1> DEFINE t == task[r][c]
<1>1. t.batch \subseteq Rows
  BY DEF ChunkTypeOK, TaskState
<1>2. ASSUME NEW S, Carries(c, S)
      PROVE  \A row \in ChunkRows(c) : row \in S \/ Refused(row)'
  BY <1>2 DEF Carries, StoreGrows, ChunkRows
<1>3. Carries(c, t.batch) => Carries(c, t.batch)'
  BY <1>2 DEF Carries
<1>4. Carries(c, artifact[c]) => Carries(c, artifact[c])'
  BY <1>2 DEF Carries
<1>5. \A row \in t.batch : Listed(row) => Listed(row)'
  BY <1>1 DEF StoreGrows
<1>6. \A row \in t.batch : Refused(row) => Refused(row)'
  BY <1>1 DEF StoreGrows
<1>. QED
  BY <1>3, <1>4, <1>5, <1>6 DEF TaskAccounts, StoreGrows

(* One task moves to state, and nothing is taken back.                     *)
LEMMA OneTaskAccounts ==
  ASSUME ChunkTypeOK, NEW r \in Runs, NEW c \in Chunks, NEW state,
         TaskBecomes(r, c, state), StoreGrows, AccountInv,
         \A d \in Chunks : d # c => artifact'[d] = artifact[d],
         artifact'[c] = artifact[c] \/ Carries(c, artifact[c])',
         task'[r][c] = state => TaskAccounts(r, c)'
  PROVE  \A q \in Runs, d \in Chunks : TaskAccounts(q, d)'
<1>1. /\ task'[r][c] = state
      /\ \A q \in Runs, d \in Chunks : <<q, d>> # <<r, c>> => task'[q][d] = task[q][d]
  BY DEF ChunkTypeOK, TaskBecomes
<1>. SUFFICES ASSUME NEW q \in Runs, NEW d \in Chunks
              PROVE  TaskAccounts(q, d)'
  OBVIOUS
<1>2. CASE q = r /\ d = c
  BY <1>1, <1>2
<1>3. CASE ~(q = r /\ d = c)
  <2>1. task'[q][d] = task[q][d]
    BY <1>1, <1>3
  <2>2. artifact'[d] = artifact[d] \/ Carries(d, artifact[d])'
    BY DEF Carries
  <2>3. TaskAccounts(q, d)
    BY DEF AccountInv
  <2>. QED
    BY <2>1, <2>2, <2>3, OthersAccount
<1>. QED
  BY <1>2, <1>3

(* While nothing is taken back, a loaded chunk stays accounted for.        *)
LEMMA LoadedStayAccounted ==
  ASSUME StoreGrows, LoadedChunksAreAccounted, loadedLog' = loadedLog
  PROVE  LoadedChunksAreAccounted'
BY DEF StoreGrows, LoadedChunksAreAccounted, ChunkRows

(* A step that writes nothing takes nothing back.                          *)
LEMMA NothingChanges ==
  ASSUME UNCHANGED storeVars
  PROVE  StoreGrows /\ (VehiclesSound => VehiclesSound')
BY DEF storeVars, StoreGrows, Listed, Refused, VehiclesSound

(* What a task carries, it goes on carrying.                               *)
LEMMA CarryOn ==
  ASSUME StoreGrows, NEW c, NEW S, Carries(c, S)
  PROVE  \A row \in ChunkRows(c) : row \in S \/ Refused(row)'
BY DEF Carries, StoreGrows, ChunkRows

(* The chunk pipeline accounts for its rows: whatever stage a chunk goes   *)
(* through, in whichever execution, no row drops out, and its LOAD is      *)
(* logged SUCCEEDED only when every row is listed or rejected. Both        *)
(* executors rest on this lemma.                                           *)
LEMMA ChunkStepAccounts ==
  ASSUME StoreTypeOK, ChunkTypeOK, AccountInv,
         NEW r \in Runs, NEW c \in Chunks, ChunkStep(r, c)
  PROVE  AccountInv' /\ StoreGrows
<1> DEFINE t == task[r][c]
           CarriedOn(S) == \A row \in ChunkRows(c) : row \in S \/ Refused(row)'
<1>0. /\ t \in TaskState
      /\ t.batch \in SUBSET Rows /\ t.left \in SUBSET Rows /\ t.refused \in SUBSET Rows
      /\ t.attempt \in Nat
      /\ TaskAccounts(r, c)
      /\ VehiclesSound /\ LoadedChunksAreAccounted
  BY DEF ChunkTypeOK, TaskState, AccountInv
<1>1. CASE JudgeRows(r, c)
  <2>1. PICK passing \in PassingRows(c) :
          /\ rejected' = rejected \cup
               Rejections("VALIDATE_ROWS", ChunkRows(c) \ ValidRows(passing))
          /\ TaskBecomes(r, c, [t EXCEPT !.pc = "stage", !.batch = ValidRows(passing)])
    BY <1>1 DEF JudgeRows
  <2> DEFINE state == [t EXCEPT !.pc = "stage", !.batch = ValidRows(passing)]
  <2>2. ChunkRows(c) \ ValidRows(passing) \in SUBSET Rows
    BY DEF ChunkRows
  <2>3. /\ \A row \in Rows : Refused(row) => Refused(row)'
        /\ \A row \in ChunkRows(c) \ ValidRows(passing) : Refused(row)'
    BY <2>1, <2>2, RejectRefuses
  <2>4. UNCHANGED <<listing, bare, loadedLog, artifact>>
    BY <1>1 DEF JudgeRows
  <2>5. StoreGrows
    BY <2>3, <2>4 DEF StoreGrows, Listed
  <2>6. ASSUME task'[r][c] = state
        PROVE  TaskAccounts(r, c)'
    <3>1. state.pc = "stage" /\ state.batch = ValidRows(passing)
      BY <1>0 DEF TaskState
    <3>2. Carries(c, state.batch)'
      BY <2>3, <3>1 DEF Carries
    <3>. QED
      BY <2>6, <3>1, <3>2 DEF TaskAccounts, Carries
  <2>7. \A q \in Runs, d \in Chunks : TaskAccounts(q, d)'
    BY <2>1, <2>4, <2>5, <2>6, OneTaskAccounts
  <2>8. VehiclesSound' /\ LoadedChunksAreAccounted'
    BY <1>0, <2>4, <2>5, LoadedStayAccounted DEF VehiclesSound
  <2>. QED
    BY <2>5, <2>7, <2>8 DEF AccountInv
<1>2. CASE StageRows(r, c)
  <2> DEFINE state == [t EXCEPT !.pc = "fetch"]
  <2>1. /\ TaskAt(r, c, "stage")
        /\ artifact' = [artifact EXCEPT ![c] = t.batch]
        /\ TaskBecomes(r, c, state)
        /\ UNCHANGED storeVars
    BY <1>2 DEF StageRows
  <2>2. StoreGrows /\ VehiclesSound' /\ LoadedChunksAreAccounted'
    BY <1>0, <2>1, NothingChanges, LoadedStayAccounted DEF storeVars
  <2>3. /\ artifact'[c] = t.batch
        /\ \A d \in Chunks : d # c => artifact'[d] = artifact[d]
    BY <2>1 DEF ChunkTypeOK
  <2>4. Carries(c, t.batch)
    BY <1>0, <2>1 DEF TaskAccounts, TaskAt
  <2>5. Carries(c, artifact[c])'
    BY <2>1, <2>3, <2>4 DEF Carries, Refused, storeVars
  <2>6. ASSUME task'[r][c] = state
        PROVE  TaskAccounts(r, c)'
    <3>1. state.pc = "fetch"
      BY <1>0 DEF TaskState
    <3>. QED
      BY <2>5, <2>6, <3>1 DEF TaskAccounts
  <2>7. \A q \in Runs, d \in Chunks : TaskAccounts(q, d)'
    BY <2>1, <2>2, <2>3, <2>5, <2>6, OneTaskAccounts
  <2>. QED
    BY <2>2, <2>7 DEF AccountInv
<1>3. CASE FetchRows(r, c)
  <2> DEFINE state == [t EXCEPT !.pc = "load", !.batch = artifact[c]]
  <2>1. /\ TaskAt(r, c, "fetch")
        /\ TaskBecomes(r, c, state)
        /\ UNCHANGED <<storeVars, artifact>>
    BY <1>3 DEF FetchRows
  <2>2. StoreGrows /\ VehiclesSound' /\ LoadedChunksAreAccounted'
    BY <1>0, <2>1, NothingChanges, LoadedStayAccounted DEF storeVars
  <2>3. Carries(c, artifact[c])
    BY <1>0, <2>1 DEF TaskAccounts, TaskAt
  <2>4. Carries(c, artifact[c])'
    BY <2>1, <2>3 DEF Carries, Refused, storeVars
  <2>5. ASSUME task'[r][c] = state
        PROVE  TaskAccounts(r, c)'
    <3>1. state.pc = "load" /\ state.batch = artifact'[c]
      BY <1>0, <2>1 DEF TaskState
    <3>. QED
      BY <2>4, <2>5, <3>1 DEF TaskAccounts, Carries
  <2>6. \A q \in Runs, d \in Chunks : TaskAccounts(q, d)'
    BY <2>1, <2>2, <2>5, OneTaskAccounts
  <2>. QED
    BY <2>2, <2>6 DEF AccountInv
<1>4. CASE InsertBatch(r, c)
  <2> DEFINE state == [t EXCEPT !.pc = "log", !.refused = {}]
  <2>1. /\ TaskAt(r, c, "load")
        /\ listing' = ListingWith(t.batch)
        /\ bare' = BareWith(t.batch, r, t.attempt)
        /\ TaskBecomes(r, c, state)
        /\ UNCHANGED <<rejected, loadedLog, artifact>>
    BY <1>4 DEF InsertBatch
  <2>2. /\ VehiclesSound'
        /\ \A row \in Rows : Listed(row) => Listed(row)'
        /\ \A row \in t.batch : Listed(row)'
    BY <1>0, <2>1, InsertLists
  <2>3. StoreGrows
    BY <2>1, <2>2 DEF StoreGrows, Refused
  <2>4. CarriedOn(t.batch) /\ Carries(c, artifact[c])'
    BY <1>0, <2>1, <2>3, CarryOn DEF TaskAccounts, TaskAt, Carries
  <2>5. ASSUME task'[r][c] = state
        PROVE  TaskAccounts(r, c)'
    <3>1. state.pc = "log" /\ state.batch = t.batch
      BY <1>0 DEF TaskState
    <3>. QED
      BY <2>2, <2>4, <2>5, <3>1 DEF TaskAccounts, Carries
  <2>6. \A q \in Runs, d \in Chunks : TaskAccounts(q, d)'
    BY <2>1, <2>3, <2>5, OneTaskAccounts
  <2>. QED
    BY <1>0, <2>1, <2>2, <2>3, <2>6, LoadedStayAccounted DEF AccountInv
<1>5. CASE BatchConflict(r, c)
  <2> DEFINE state == [t EXCEPT !.pc = "isolate", !.left = t.batch, !.refused = {}]
  <2>1. /\ TaskAt(r, c, "load")
        /\ TaskBecomes(r, c, state)
        /\ UNCHANGED <<storeVars, artifact>>
    BY <1>5 DEF BatchConflict
  <2>2. StoreGrows /\ VehiclesSound' /\ LoadedChunksAreAccounted'
    BY <1>0, <2>1, NothingChanges, LoadedStayAccounted DEF storeVars
  <2>3. CarriedOn(t.batch) /\ Carries(c, artifact[c])'
    BY <1>0, <2>1, <2>2, CarryOn DEF TaskAccounts, TaskAt, Carries
  <2>4. ASSUME task'[r][c] = state
        PROVE  TaskAccounts(r, c)'
    <3>1. state.pc = "isolate" /\ state.batch = t.batch /\ state.left = t.batch
      BY <1>0 DEF TaskState
    <3>. QED
      BY <2>3, <2>4, <3>1 DEF TaskAccounts, Carries
  <2>5. \A q \in Runs, d \in Chunks : TaskAccounts(q, d)'
    BY <2>1, <2>2, <2>4, OneTaskAccounts
  <2>. QED
    BY <2>2, <2>5 DEF AccountInv
<1>6. CASE InsertOne(r, c)
  <2>1. PICK row \in t.left :
          LET left == t.left \ {row}
              next == IF left = {} THEN "record" ELSE "isolate"
          IN
          \/ /\ TaskBecomes(r, c, [t EXCEPT !.pc = next, !.left = left,
                                            !.refused = t.refused \cup {row}])
             /\ UNCHANGED <<listing, bare>>
          \/ /\ listing' = ListingWith({row})
             /\ bare' = BareWith({row}, r, t.attempt)
             /\ TaskBecomes(r, c, [t EXCEPT !.pc = next, !.left = left])
    BY <1>6 DEF InsertOne
  <2> DEFINE left == t.left \ {row}
             next == IF left = {} THEN "record" ELSE "isolate"
             refusing  == [t EXCEPT !.pc = next, !.left = left,
                                    !.refused = t.refused \cup {row}]
             inserting == [t EXCEPT !.pc = next, !.left = left]
  <2>2. TaskAt(r, c, "isolate") /\ UNCHANGED <<rejected, loadedLog, artifact>>
    BY <1>6 DEF InsertOne
  <2>3. \A x \in t.batch : x \in t.left \/ x \in t.refused \/ Listed(x)
    BY <1>0, <2>2 DEF TaskAccounts, TaskAt
  <2>4. CASE TaskBecomes(r, c, refusing) /\ UNCHANGED <<listing, bare>>
    <3>1. \A x : Listed(x) <=> Listed(x)'
      BY <2>4 DEF Listed
    <3>2. StoreGrows /\ VehiclesSound'
      BY <1>0, <2>2, <2>4, <3>1 DEF StoreGrows, Refused, VehiclesSound
    <3>3. CarriedOn(t.batch) /\ Carries(c, artifact[c])'
      BY <1>0, <2>2, <3>2, CarryOn DEF TaskAccounts, TaskAt, Carries
    <3>4. ASSUME task'[r][c] = refusing
          PROVE  TaskAccounts(r, c)'
      <4>1. /\ refusing.pc = next /\ refusing.batch = t.batch /\ refusing.left = left
            /\ refusing.refused = t.refused \cup {row}
        BY <1>0 DEF TaskState
      <4>2. \A x \in t.batch : x \in left \/ x \in t.refused \cup {row} \/ Listed(x)'
        BY <2>3, <3>1
      <4>. QED
        BY <3>3, <3>4, <4>1, <4>2 DEF TaskAccounts, Carries
    <3>5. \A q \in Runs, d \in Chunks : TaskAccounts(q, d)'
      BY <2>2, <2>4, <3>2, <3>4, OneTaskAccounts
    <3>. QED
      BY <1>0, <2>2, <3>2, <3>5, LoadedStayAccounted DEF AccountInv
  <2>5. CASE /\ listing' = ListingWith({row})
             /\ bare' = BareWith({row}, r, t.attempt)
             /\ TaskBecomes(r, c, inserting)
    <3>1. /\ VehiclesSound'
          /\ \A x \in Rows : Listed(x) => Listed(x)'
          /\ Listed(row)'
      BY <1>0, <2>5, InsertLists
    <3>2. StoreGrows
      BY <2>2, <3>1 DEF StoreGrows, Refused
    <3>3. CarriedOn(t.batch) /\ Carries(c, artifact[c])'
      BY <1>0, <2>2, <3>2, CarryOn DEF TaskAccounts, TaskAt, Carries
    <3>4. ASSUME task'[r][c] = inserting
          PROVE  TaskAccounts(r, c)'
      <4>1. /\ inserting.pc = next /\ inserting.batch = t.batch /\ inserting.left = left
            /\ inserting.refused = t.refused
        BY <1>0 DEF TaskState
      <4>2. \A x \in t.batch : x \in left \/ x \in t.refused \/ Listed(x)'
        BY <1>0, <2>3, <3>1
      <4>. QED
        BY <3>3, <3>4, <4>1, <4>2 DEF TaskAccounts, Carries
    <3>5. \A q \in Runs, d \in Chunks : TaskAccounts(q, d)'
      BY <2>2, <2>5, <3>2, <3>4, OneTaskAccounts
    <3>. QED
      BY <1>0, <2>2, <3>1, <3>2, <3>5, LoadedStayAccounted DEF AccountInv
  <2>. QED
    BY <2>1, <2>4, <2>5
<1>7. CASE RecordRefused(r, c)
  <2> DEFINE state == [t EXCEPT !.pc = "log", !.refused = {}]
  <2>1. /\ TaskAt(r, c, "record")
        /\ rejected' = rejected \cup Rejections("LOAD", t.refused)
        /\ TaskBecomes(r, c, state)
        /\ UNCHANGED <<listing, bare, loadedLog, artifact>>
    BY <1>7 DEF RecordRefused
  <2>2. /\ \A row \in Rows : Refused(row) => Refused(row)'
        /\ \A row \in t.refused : Refused(row)'
    BY <1>0, <2>1, RejectRefuses
  <2>3. \A row : Listed(row) <=> Listed(row)'
    BY <2>1 DEF Listed
  <2>4. StoreGrows /\ VehiclesSound'
    BY <1>0, <2>1, <2>2, <2>3 DEF StoreGrows, VehiclesSound
  <2>5. CarriedOn(t.batch) /\ Carries(c, artifact[c])'
    BY <1>0, <2>1, <2>4, CarryOn DEF TaskAccounts, TaskAt, Carries
  <2>6. \A row \in t.batch : row \in t.refused \/ Listed(row)
    BY <1>0, <2>1 DEF TaskAccounts, TaskAt
  <2>7. ASSUME task'[r][c] = state
        PROVE  TaskAccounts(r, c)'
    <3>1. state.pc = "log" /\ state.batch = t.batch
      BY <1>0 DEF TaskState
    <3>. QED
      BY <2>2, <2>3, <2>5, <2>6, <2>7, <3>1 DEF TaskAccounts, Carries
  <2>8. \A q \in Runs, d \in Chunks : TaskAccounts(q, d)'
    BY <2>1, <2>4, <2>7, OneTaskAccounts
  <2>. QED
    BY <1>0, <2>1, <2>4, <2>8, LoadedStayAccounted DEF AccountInv
<1>8. CASE LogLoaded(r, c)
  <2> DEFINE state == [IdleTask EXCEPT !.pc = "ok"]
  <2>1. /\ TaskAt(r, c, "log")
        /\ loadedLog' = loadedLog \cup {c}
        /\ TaskBecomes(r, c, state)
        /\ UNCHANGED <<listing, bare, rejected, artifact>>
    BY <1>8 DEF LogLoaded, TaskEnds
  <2>2. \A row : (Listed(row) <=> Listed(row)') /\ (Refused(row) <=> Refused(row)')
    BY <2>1 DEF Listed, Refused
  <2>3. StoreGrows /\ VehiclesSound'
    BY <1>0, <2>1, <2>2 DEF StoreGrows, VehiclesSound
  <2>4. \A row \in ChunkRows(c) : Listed(row) \/ Refused(row)
    BY <1>0, <2>1 DEF TaskAccounts, TaskAt, Carries
  <2>5. LoadedChunksAreAccounted'
    BY <1>0, <2>1, <2>2, <2>4 DEF LoadedChunksAreAccounted
  <2>6. ASSUME task'[r][c] = state
        PROVE  TaskAccounts(r, c)'
    <3>1. state.pc = "ok"
      BY DEF IdleTask
    <3>. QED
      BY <2>1, <2>6, <3>1 DEF TaskAccounts
  <2>7. \A q \in Runs, d \in Chunks : TaskAccounts(q, d)'
    BY <2>1, <2>3, <2>6, OneTaskAccounts
  <2>. QED
    BY <2>3, <2>5, <2>7 DEF AccountInv
<1>. QED
  BY <1>1, <1>2, <1>3, <1>4, <1>5, <1>6, <1>7, <1>8 DEF ChunkStep

(* A task that has not been judged yet, or has ended badly, owes nothing.  *)
LEMMA FreshAccounts ==
  ASSUME NEW r, NEW c, task'[r][c].pc \in {"idle", "todo", "rows", "failed"}
  PROVE  TaskAccounts(r, c)'
BY DEF TaskAccounts

(* If each task is as it was or accounts for its rows, all account.        *)
LEMMA TasksKept ==
  ASSUME ChunkTypeOK, AccountInv, StoreGrows, VehiclesSound',
         loadedLog' = loadedLog, artifact' = artifact,
         \A r \in Runs, c \in Chunks :
           task'[r][c] = task[r][c] \/ TaskAccounts(r, c)'
  PROVE  AccountInv'
<1>1. ASSUME NEW r \in Runs, NEW c \in Chunks PROVE TaskAccounts(r, c)'
  BY OthersAccount DEF AccountInv
<1>. QED
  BY <1>1, LoadedStayAccounted DEF AccountInv

(* One task moves, the tables do not.                                      *)
LEMMA OneTaskKept ==
  ASSUME ChunkTypeOK, AccountInv, UNCHANGED <<storeVars, artifact>>,
         NEW r \in Runs, NEW c \in Chunks, NEW state, TaskBecomes(r, c, state),
         task'[r][c] = state => TaskAccounts(r, c)'
  PROVE  AccountInv'
<1>1. StoreGrows /\ VehiclesSound'
  BY NothingChanges DEF AccountInv
<1>2. /\ task'[r][c] = state
      /\ \A q \in Runs, d \in Chunks : <<q, d>> # <<r, c>> => task'[q][d] = task[q][d]
  BY DEF ChunkTypeOK, TaskBecomes
<1>3. \A q \in Runs, d \in Chunks : task'[q][d] = task[q][d] \/ TaskAccounts(q, d)'
  BY <1>2
<1>. QED
  BY <1>1, <1>3, TasksKept DEF storeVars

(* A step that logs no LOAD keeps the accounts also when tasks begin or    *)
(* vanish with their process.                                              *)
LEMMA RestAccounts ==
  ASSUME ChunkTypeOK, AccountInv, StoreGrows, VehiclesSound', UNCHANGED <<loadedLog, artifact>>,
         \/ UNCHANGED task
         \/ \E r \in Runs : TasksBegin(r)
         \/ \E R : TasksVanish(R)
  PROVE  AccountInv'
<1>1. CASE UNCHANGED task
  BY <1>1, TasksKept
<1>2. ASSUME NEW r \in Runs, TasksBegin(r)
      PROVE  AccountInv'
  <2>1. \A q \in Runs, d \in Chunks : task'[q][d] = task[q][d] \/ task'[q][d].pc = "todo"
    BY <1>2 DEF TasksBegin, IdleTask, ChunkTypeOK
  <2>. QED
    BY <2>1, FreshAccounts, TasksKept
<1>3. ASSUME NEW R, TasksVanish(R)
      PROVE  AccountInv'
  <2>1. \A q \in Runs, d \in Chunks : task'[q][d] = task[q][d] \/ task'[q][d].pc = "idle"
    BY <1>3 DEF TasksVanish, IdleTask, ChunkTypeOK
  <2>. QED
    BY <2>1, FreshAccounts, TasksKept
<1>. QED
  BY <1>1, <1>2, <1>3

----
(* What one step may do to the rows and the status, in either deployment.  *)

WholeFileListed == file # "invalid" /\ \A row \in FileRows : Listed(row)
SomethingListed == \E row \in Rows : Listed(row)

(* How one step may change what the dealer can see.                        *)
Untouched == UNCHANGED <<listing, bare, rejected, loadedLog, file>>

Concludes ==
  \/ job'.status = "COMPLETED" /\ WholeFileListed
  \/ job'.status = "PARTIAL" /\ SomethingListed
  \/ job'.status = "FAILED"

Progress ==
  \/ Untouched /\ job'.status = job.status
  \/ /\ StoreGrows /\ VehiclesSound'
     /\ UNCHANGED <<file, job>>
     /\ job.status # "NONE"
  \/ Untouched /\ job.status = "NONE" /\ job'.status = "PENDING"
  \/ Untouched /\ job.status # "NONE" /\ job'.status = "PROCESSING"
  \/ Untouched /\ job.status # "NONE" /\ Concludes

(* A step that does not touch the rows shows the dealer the same rows.     *)
LEMMA UntouchedGrows ==
  ASSUME Untouched
  PROVE  /\ StoreGrows
         /\ VehiclesSound => VehiclesSound'
         /\ WholeFileListed <=> WholeFileListed'
         /\ SomethingListed <=> SomethingListed'
BY DEF Untouched, StoreGrows, Listed, Refused, VehiclesSound, WholeFileListed,
       SomethingListed, FileRows

(* Progress takes nothing back.                                            *)
LEMMA ProgressGrows ==
  ASSUME Progress
  PROVE  /\ StoreGrows
         /\ VehiclesSound => VehiclesSound'
         /\ UNCHANGED file
         /\ WholeFileListed => WholeFileListed'
         /\ SomethingListed => SomethingListed'
         /\ job.status # "NONE" => job'.status # "NONE"
<1>1. CASE Untouched
  BY <1>1, UntouchedGrows DEF Progress, Concludes, Untouched
<1>2. CASE StoreGrows /\ VehiclesSound' /\ UNCHANGED <<file, job>>
  BY <1>2 DEF StoreGrows, WholeFileListed, SomethingListed, FileRows
<1>. QED
  BY <1>1, <1>2 DEF Progress

(* Progress never says COMPLETED of a file that is not listed.             *)
LEMMA ProgressCompletes ==
  ASSUME Progress, CompletedListsEveryRow
  PROVE  CompletedListsEveryRow'
<1>1. CASE job'.status = job.status
  BY <1>1, ProgressGrows DEF CompletedListsEveryRow, StoreGrows, FileRows
<1>2. CASE Untouched /\ Concludes
  BY <1>2, UntouchedGrows DEF Concludes, CompletedListsEveryRow, WholeFileListed
<1>. QED
  BY <1>1, <1>2 DEF Progress, CompletedListsEveryRow

(* If countForJob counts a vehicle, some row is listed.                    *)
LEMMA CountedIsListed ==
  ASSUME StoreTypeOK, VehiclesSound, VehicleCount # 0
  PROVE  SomethingListed
<1> DEFINE Held == {g \in Regs : listing[g] # NoRow}
<1>0. /\ listing \in [Regs -> Rows \cup {NoRow}]
      /\ bare \subseteq BareVehicle
  BY DEF StoreTypeOK
<1>1. Held # {} \/ bare # {}
  <2>1. SUFFICES ASSUME Held = {}, bare = {} PROVE FALSE
    OBVIOUS
  <2>2. Cardinality(Held) = 0 /\ Cardinality(bare) = 0
    BY <2>1, FS_EmptySet
  <2>. QED
    BY <2>2 DEF VehicleCount
<1>2. CASE Held # {}
  <2>1. PICK g \in Regs : listing[g] # NoRow
    BY <1>2
  <2>2. listing[g] \in Rows /\ RegOf[listing[g]] = g /\ g # NoReg
    BY <1>0, <2>1, StoreAssumption DEF VehiclesSound
  <2>3. Listed(listing[g])
    BY <2>1, <2>2 DEF Listed
  <2>. QED
    BY <2>2, <2>3 DEF SomethingListed
<1>3. CASE bare # {}
  <2>1. PICK v \in bare : TRUE
    BY <1>3
  <2>2. v.row \in Rows /\ RegOf[v.row] = NoReg
    BY <1>0, <2>1 DEF BareVehicle, VehiclesSound
  <2>3. Listed(v.row)
    BY <2>1, <2>2 DEF Listed
  <2>. QED
    BY <2>2, <2>3 DEF SomethingListed
<1>. QED
  BY <1>1, <1>2, <1>3

----
(* The upload API, and other jobs.                                         *)

(* updateStatus leaves a job row of the right shape.                       *)
LEMMA StatusTyped ==
  ASSUME StoreTypeOK, NEW s \in Status, SetStatus(s)
  PROVE  job' \in [status : Status, total : Nat, valid : Nat, invalid : Nat]
BY DEF StoreTypeOK, SetStatus

(* No handler of the upload API leaves the state ill-typed.                *)
LEMMA RequestTyped ==
  ASSUME StoreTypeOK, ApiTypeOK, NEW q \in Requests, RequestStep(q)
  PROVE  StoreTypeOK' /\ ApiTypeOK' /\ UNCHANGED bare
<1> USE DEF Goto, ApiTypeOK, ReqPc, storeVars
<1>1. ASSUME NEW s \in {"PENDING", "FAILED"}, SetStatus(s),
             UNCHANGED <<listing, bare, taken, rejected, loadedLog, notices, file>>
      PROVE  StoreTypeOK'
  BY <1>1, StatusTyped DEF StoreTypeOK, Status, Terminal
<1>2. ASSUME UNCHANGED storeVars PROVE StoreTypeOK'
  BY <1>2 DEF StoreTypeOK
<1>3. Files \subseteq {"csv", "zip"}
  BY DEF Files
<1>4. CASE UploadCreate(q)
  BY <1>1, <1>4 DEF UploadCreate
<1>5. CASE UploadStore(q)
  BY <1>2, <1>3, <1>5 DEF UploadStore
<1>6. CASE UploadPublish(q)
  BY <1>2, <1>6 DEF UploadPublish
<1>7. CASE UploadFail(q)
  BY <1>1, <1>2, <1>7 DEF UploadFail
<1>8. CASE PresignUpload(q)
  BY <1>1, <1>8 DEF PresignUpload
<1>9. CASE CompleteRead(q)
  BY <1>2, <1>9 DEF CompleteRead
<1>10. CASE CompleteCheckCsv(q)
  BY <1>2, <1>10 DEF CompleteCheckCsv
<1>11. CASE CompleteCheckZip(q)
  BY <1>2, <1>11 DEF CompleteCheckZip
<1>12. CASE CompleteFail(q)
  BY <1>1, <1>2, <1>12 DEF CompleteFail
<1>13. CASE CompletePublish(q)
  BY <1>2, <1>13 DEF CompletePublish
<1>. QED
  BY <1>4, <1>5, <1>6, <1>7, <1>8, <1>9, <1>10, <1>11, <1>12, <1>13 DEF RequestStep

(* ... nor the listings of other jobs.                                     *)
LEMMA OtherJobsTyped ==
  ASSUME StoreTypeOK, OtherJobs
  PROVE  StoreTypeOK' /\ UNCHANGED bare
BY StoreAssumption DEF OtherJobs, OtherJobLists, OtherJobWithdraws, StoreTypeOK

(* The handlers of the upload API make Progress: all they write is PENDING *)
(* on a job that is not there yet, or FAILED.                              *)
LEMMA RequestProgress ==
  ASSUME StoreTypeOK, NEW q \in Requests, RequestStep(q),
         req[q] # "idle" \/ route # "none" => job.status # "NONE"
  PROVE  Progress
<1> USE DEF Progress, Untouched, Concludes, SetStatus, storeVars
<1>0. /\ job \in [status : Status, total : Nat, valid : Nat, invalid : Nat]
      /\ req[q] # "idle" => job.status # "NONE"
      /\ route # "none" => job.status # "NONE"
  BY DEF StoreTypeOK
<1>1. CASE UploadCreate(q)
  BY <1>0, <1>1 DEF UploadCreate
<1>2. CASE UploadStore(q) \/ UploadPublish(q)
  BY <1>2 DEF UploadStore, UploadPublish
<1>3. CASE UploadFail(q)
  BY <1>0, <1>3 DEF UploadFail
<1>4. CASE PresignUpload(q)
  BY <1>0, <1>4 DEF PresignUpload
<1>5. CASE CompleteRead(q) \/ CompleteCheckCsv(q) \/ CompleteCheckZip(q) \/ CompletePublish(q)
  BY <1>5 DEF CompleteRead, CompleteCheckCsv, CompleteCheckZip, CompletePublish
<1>6. CASE CompleteFail(q)
  BY <1>0, <1>6 DEF CompleteFail
<1>. QED
  BY <1>1, <1>2, <1>3, <1>4, <1>5, <1>6 DEF RequestStep

----
(* The refinement of UploadLifecycle.                                      *)

(* Nothing is listed or rejected before the first step.                    *)
LEMMA InitLifecycle == StoreInit => Lifecycle!Init
<1> SUFFICES ASSUME StoreInit PROVE Lifecycle!Init
  OBVIOUS
<1>1. \A row \in Rows : ~Listed(row) /\ ~Refused(row)
  BY StoreAssumption DEF StoreInit, Listed, Refused
<1>2. FileRows \in SUBSET Rows
  BY DEF FileRows
<1>. QED
  BY <1>1, <1>2 DEF StoreInit, Lifecycle!Init

(* A step that does not touch the rows leaves what is shown of them.       *)
LEMMA UntouchedShown ==
  ASSUME Untouched
  PROVE  /\ UNCHANGED <<FileRows, file>>
         /\ {row \in Rows : Listed(row)}' = {row \in Rows : Listed(row)}
         /\ {row \in Rows : Refused(row)}' = {row \in Rows : Refused(row)}
BY DEF Untouched, FileRows, Listed, Refused

(* Every kind of Progress is an action of UploadLifecycle or a stutter.    *)
LEMMA ProgressRefines == Progress => [Lifecycle!Next]_(Lifecycle!vars)
<1> SUFFICES ASSUME Progress PROVE [Lifecycle!Next]_(Lifecycle!vars)
  OBVIOUS
<1> USE DEF Lifecycle!Next, Lifecycle!vars
<1>1. CASE Untouched /\ job'.status = job.status
  BY <1>1, UntouchedShown
<1>2. CASE StoreGrows /\ UNCHANGED <<file, job>> /\ job.status # "NONE"
  <2>1. Lifecycle!Work
    BY <1>2 DEF StoreGrows, FileRows, Lifecycle!Work
  <2>. QED
    BY <2>1
<1>3. CASE Untouched /\ job.status = "NONE" /\ job'.status = "PENDING"
  BY <1>3, UntouchedShown DEF Lifecycle!Accept
<1>4. CASE Untouched /\ job.status # "NONE" /\ job'.status = "PROCESSING"
  BY <1>4, UntouchedShown DEF Lifecycle!TakeUp
<1>5. CASE Untouched /\ job.status # "NONE" /\ Concludes
  <2>1. Lifecycle!Complete \/ Lifecycle!Part \/ Lifecycle!Fail
    BY <1>5 DEF Concludes, WholeFileListed, SomethingListed, FileRows,
                Lifecycle!Complete, Lifecycle!Part, Lifecycle!Fail
  <2>2. Lifecycle!Conclude
    BY <1>5, <2>1, UntouchedShown DEF Lifecycle!Conclude
  <2>. QED
    BY <2>2
<1>. QED
  BY <1>1, <1>2, <1>3, <1>4, <1>5 DEF Progress
====
