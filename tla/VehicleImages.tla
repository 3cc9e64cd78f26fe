---- MODULE VehicleImages ----
(***************************************************************************)
(* The photos of one vehicle. The image branch of its upload job places the*)
(* photos of the ZIP, once LOAD has listed the vehicle; the dealer replaces*)
(* and deletes photos meanwhile. Steps interleave at every await, and none *)
(* of the handlers holds a transaction over two of its statements.         *)
(*                                                                         *)
(*   loaded, rejected   whether the vehicle is listed, and whether a row   *)
(*             with its registration number was rejected (a duplicate is,  *)
(*             while its twin is listed)                                   *)
(*   imageRows  rows of marketplace.vehicle_images, by s3_path             *)
(*   branch    executions of ProcessJobImagesService: more than one if the *)
(*             job was delivered again                                     *)
(*   edit      the dealer's requests                                       *)
(*   batches   photo sets stored so far                                    *)
(*   overlapped, removed   history variables: two handlers were at work at *)
(*             once, or one died; photos the dealer took down              *)
(***************************************************************************)
EXTENDS Naturals, FiniteSets

CONSTANTS
  Photos,          \* files of the ZIP named after the vehicle
  Branches,        \* executions of the image branch
  Edits,           \* requests of the dealer that may be under way at once
  MaxBatches,      \* bound on photo sets uploaded
  NoPhoto

ASSUME VehicleImagesAssumption ==
  /\ IsFiniteSet(Photos) /\ MaxBatches \in Nat
  /\ Photos \cap (1 .. MaxBatches) \X {0, 1} = {}

VARIABLES loaded, rejected, imageRows, branch, edit, batches, overlapped, removed

imageVars == <<loaded, rejected, imageRows, branch, edit, batches, overlapped, removed>>

ImageKeys  == Photos \cup ((1 .. MaxBatches) \X {0, 1})
Image == [s3Path : ImageKeys \cup {NoPhoto}, isPrimary : BOOLEAN, displayOrder : Nat]

NoImage == [s3Path |-> NoPhoto, isPrimary |-> FALSE, displayOrder |-> 0]

Outcome == {"none", "processed", "unmatched", "duplicates", "failed"}

Branch == [pc : {"next", "match", "missed", "source", "process", "insert", "broken"},
           image : Image, early : SUBSET Photos, outcome : [Photos -> Outcome]]

Edit == [pc : {"idle", "clear", "save", "remove", "next", "promote"},
         image : Image, batch : 0 .. MaxBatches, files : {1, 2}]

NewBranch == [pc |-> "next", image |-> NoImage, early |-> {},
              outcome |-> [p \in Photos |-> "none"]]
IdleEdit  == [pc |-> "idle", image |-> NoImage, batch |-> 0, files |-> 1]

ImagesTypeOK ==
  /\ loaded \in BOOLEAN /\ rejected \in BOOLEAN /\ overlapped \in BOOLEAN
  /\ imageRows \subseteq Image
  /\ branch \in [Branches -> Branch] /\ edit \in [Edits -> Edit]
  /\ batches \in 0 .. MaxBatches /\ removed \subseteq Photos

ImagesInit ==
  /\ loaded = FALSE /\ rejected = FALSE /\ overlapped = FALSE
  /\ imageRows = {} /\ removed = {} /\ batches = 0
  /\ branch = [b \in Branches |-> NewBranch]
  /\ edit = [r \in Edits |-> IdleEdit]

Processing == {b \in Branches : branch[b].pc \in {"source", "process", "insert"}}
          \cup {r \in Edits : edit[r].pc # "idle"}

Races == overlapped' = (overlapped \/ Processing # {})

BranchGoto(b, pc) == branch' = [branch EXCEPT ![b].pc = pc]

PhotoEnds(b, outcome) ==
  branch' = [branch EXCEPT ![b].pc = "next", ![b].image = NoImage,
                           ![b].outcome[branch[b].image.s3Path] = outcome]

(* The indexes of the table: one row per path, one primary.                *)
Insertable(new) ==
  /\ {i.s3Path : i \in new} \cap {i.s3Path : i \in imageRows} = {}
  /\ Cardinality({i \in imageRows \cup new : i.isPrimary}) <= 1

----
(* The row branch of the job: LOAD lists the vehicle, VALIDATE rejects a   *)
(* row with the same registration number.                                  *)
VehicleLoaded ==
  /\ ~loaded /\ loaded' = TRUE
  /\ UNCHANGED <<rejected, imageRows, branch, edit, batches, overlapped, removed>>

RowRejected ==
  /\ ~rejected /\ rejected' = TRUE
  /\ UNCHANGED <<loaded, imageRows, branch, edit, batches, overlapped, removed>>

----
(* processOne takes the photos one after the other.                        *)
TakePhoto(b, p) ==
  /\ branch[b].pc = "next" /\ branch[b].outcome[p] = "none"
  /\ branch' = [branch EXCEPT ![b].pc = "match", ![b].image.s3Path = p,
                              ![b].early = IF loaded THEN @ \cup {p} ELSE @]
  /\ UNCHANGED <<loaded, rejected, imageRows, edit, batches, overlapped, removed>>

(* Mutant of FindVehicle: the rejections are looked up first.              *)
FindRejectionFirst(b) ==
  /\ branch[b].pc = "match"
  /\ IF rejected THEN PhotoEnds(b, "unmatched") /\ UNCHANGED overlapped
     ELSE IF loaded THEN BranchGoto(b, "source") /\ Races
     ELSE BranchGoto(b, "missed") /\ UNCHANGED overlapped
  /\ UNCHANGED <<loaded, rejected, imageRows, edit, batches, removed>>

(* findVehicleWithRetry looks the vehicle up, ...                          *)
FindVehicle(b) ==
  /\ branch[b].pc = "match"
  /\ IF loaded THEN BranchGoto(b, "source") /\ Races
     ELSE BranchGoto(b, "missed") /\ UNCHANGED overlapped
  /\ UNCHANGED <<loaded, rejected, imageRows, edit, batches, removed>>

(* ... gives up if its row was rejected or the deadline has passed, and    *)
(* sleeps otherwise.                                                       *)
WasRejected(b) ==
  /\ branch[b].pc = "missed"
  /\ \/ PhotoEnds(b, "unmatched")
     \/ ~rejected /\ BranchGoto(b, "match")
  /\ UNCHANGED <<loaded, rejected, imageRows, edit, batches, overlapped, removed>>

(* findImageBySource, then countImagesForVehicle, with nothing between that*)
(* changes state.                                                          *)
FindImageBySource(b) ==
  LET p == branch[b].image.s3Path IN
  /\ branch[b].pc = "source"
  /\ IF \E i \in imageRows : i.s3Path = p THEN PhotoEnds(b, "duplicates")
     ELSE branch' = [branch EXCEPT ![b].pc = "process",
            ![b].image = [s3Path |-> p, displayOrder |-> Cardinality(imageRows),
                          isPrimary |-> imageRows = {}]]
  /\ UNCHANGED <<loaded, rejected, imageRows, edit, batches, overlapped, removed>>

(* processVehicleImage: a bad image is skipped, any other error ends the   *)
(* branch.                                                                 *)
ProcessPhoto(b) ==
  /\ branch[b].pc = "process"
  /\ \/ BranchGoto(b, "insert")
     \/ PhotoEnds(b, "failed")
     \/ branch' = [branch EXCEPT ![b] = [NewBranch EXCEPT !.pc = "broken"]]
  /\ UNCHANGED <<loaded, rejected, imageRows, edit, batches, overlapped, removed>>

InsertImage(b) ==
  /\ branch[b].pc = "insert"
  /\ IF Insertable({branch[b].image})
     THEN imageRows' = imageRows \cup {branch[b].image} /\ PhotoEnds(b, "processed")
     ELSE /\ branch' = [branch EXCEPT ![b] = [NewBranch EXCEPT !.pc = "broken"]]
          /\ UNCHANGED imageRows
  /\ UNCHANGED <<loaded, rejected, edit, batches, overlapped, removed>>

----
(* replaceImages: every file is stored, ...                                *)
StoreFiles(r, files) ==
  /\ edit[r].pc = "idle" /\ loaded /\ batches < MaxBatches
  /\ batches' = batches + 1
  /\ edit' = [edit EXCEPT ![r].pc = "clear", ![r].batch = batches + 1, ![r].files = files]
  /\ Races
  /\ UNCHANGED <<loaded, rejected, imageRows, branch, removed>>

(* ... the rows are deleted, ...                                           *)
ClearImages(r) ==
  /\ edit[r].pc = "clear"
  /\ imageRows' = {}
  /\ removed' = removed \cup {p \in Photos : \E i \in imageRows : i.s3Path = p}
  /\ edit' = [edit EXCEPT ![r].pc = "save"]
  /\ UNCHANGED <<loaded, rejected, branch, batches, overlapped>>

(* ... and the new ones are saved in one transaction.                      *)
SaveImages(r) ==
  LET new == {[s3Path |-> <<edit[r].batch, i>>, isPrimary |-> i = 0, displayOrder |-> i] :
                i \in 0 .. edit[r].files - 1} IN
  /\ edit[r].pc = "save"
  /\ imageRows' = IF Insertable(new) THEN imageRows \cup new ELSE imageRows
  /\ edit' = [edit EXCEPT ![r] = IdleEdit]
  /\ UNCHANGED <<loaded, rejected, branch, batches, overlapped, removed>>

(* deleteImage: find, delete, ...                                          *)
FindImage(r, image) ==
  /\ edit[r].pc = "idle" /\ image \in imageRows
  /\ edit' = [edit EXCEPT ![r].pc = "remove", ![r].image = image]
  /\ Races
  /\ UNCHANGED <<loaded, rejected, imageRows, branch, batches, removed>>

RemoveImage(r) ==
  LET path == edit[r].image.s3Path IN
  /\ edit[r].pc = "remove"
  /\ imageRows' = {i \in imageRows : i.s3Path # path}
  /\ removed' = removed \cup ({path} \cap Photos)
  /\ edit' = [edit EXCEPT ![r] = IF edit[r].image.isPrimary
                                 THEN [edit[r] EXCEPT !.pc = "next"] ELSE IdleEdit]
  /\ UNCHANGED <<loaded, rejected, branch, batches, overlapped>>

(* ... and, if it was the primary, the first of the others takes its place.*)
FindNext(r) ==
  /\ edit[r].pc = "next"
  /\ \/ imageRows = {} /\ edit' = [edit EXCEPT ![r] = IdleEdit]
     \/ \E next \in imageRows :
          /\ \A i \in imageRows : next.displayOrder <= i.displayOrder
          /\ edit' = [edit EXCEPT ![r].pc = "promote", ![r].image = next]
  /\ UNCHANGED <<loaded, rejected, imageRows, branch, batches, overlapped, removed>>

Promote(r) ==
  LET path    == edit[r].image.s3Path
      changed == {IF i.s3Path = path THEN [i EXCEPT !.isPrimary = TRUE] ELSE i : i \in imageRows} IN
  /\ edit[r].pc = "promote"
  /\ imageRows' = IF Cardinality({i \in changed : i.isPrimary}) <= 1 THEN changed ELSE imageRows
  /\ edit' = [edit EXCEPT ![r] = IdleEdit]
  /\ UNCHANGED <<loaded, rejected, branch, batches, overlapped, removed>>

EditDies(r) ==
  /\ edit[r].pc # "idle"
  /\ edit' = [edit EXCEPT ![r] = IdleEdit]
  /\ overlapped' = TRUE
  /\ UNCHANGED <<loaded, rejected, imageRows, branch, batches, removed>>

ImagesNext ==
  \/ VehicleLoaded \/ RowRejected
  \/ \E b \in Branches :
       \/ \E p \in Photos : TakePhoto(b, p)
       \/ FindVehicle(b) \/ WasRejected(b) \/ FindImageBySource(b) \/ ProcessPhoto(b)
       \/ InsertImage(b)
  \/ \E r \in Edits :
       \/ \E files \in {1, 2} : StoreFiles(r, files)
       \/ \E image \in imageRows : FindImage(r, image)
       \/ ClearImages(r) \/ SaveImages(r) \/ RemoveImage(r) \/ FindNext(r) \/ Promote(r)
       \/ EditDies(r)

ImagesSpec == ImagesInit /\ [][ImagesNext]_imageVars

----
(* A vehicle with photos has one to show first, whenever no handler is at  *)
(* work and none has crossed another or died between two statements.       *)
OnePrimary ==
  (Processing = {} /\ ~overlapped /\ imageRows # {}) => Cardinality({i \in imageRows : i.isPrimary}) = 1

(* What the branch says of a photo is true. A photo is without a vehicle   *)
(* only if the vehicle was not yet listed when its turn came, whatever     *)
(* duplicate row was rejected; and a photo that was placed, or found in its*)
(* place, is there unless the dealer took it down.                         *)
OutcomesAreTrue ==
  \A b \in Branches, p \in Photos :
    /\ branch[b].outcome[p] = "unmatched" => p \notin branch[b].early
    /\ branch[b].outcome[p] \in {"processed", "duplicates"} =>
         p \in removed \/ \E i \in imageRows : i.s3Path = p
====
