---- MODULE CatalogueProofs ----
(***************************************************************************)
(* Proofs about what uploads and people put into the catalogue: the photos *)
(* of a vehicle (VehicleImages), the rows of a chunk (RowStages), the      *)
(* dictionary (Dictionary), and how a file becomes records and rows        *)
(* (FileReaders); for every set of photos, handlers, makes, spellings and  *)
(* administrators, every file and every cut of it into chunks; and what    *)
(* they are for in the run of MCMarketplace.                               *)
(*                                                                         *)
(* VehicleImages: ImagesTyped; PhotosAreSound. Until two handlers have met *)
(* one is at work at the most (OneAtATime), and each state of a handler    *)
(* says what the table may look like meanwhile (BranchRelies, EditRelies). *)
(*                                                                         *)
(* RowStages: RowsTyped; RowsAreSound. A repair keeps what the rules read  *)
(* and marks what it changes (Repaired); validation goes through the rows  *)
(* in their order.                                                         *)
(*                                                                         *)
(* Dictionary: DictionaryTyped; SpellingsSettle. The dictionary only grows *)
(* (Grows), so that what a decision or a promotion has seen carried still  *)
(* is; two makes that carry a spelling tie for the closest (TwoClaimants). *)
(*                                                                         *)
(* FileReaders: ReadersAreTyped; FilesAreTheDealers. While no two runs     *)
(* have mixed, one of them rewrites the object at the most, and the others *)
(* rely on its encoding (RunRelies, ReadersInv).                           *)
(*                                                                         *)
(* Its iterateJsonArray: StreamsTyped; RecordsAreYielded. What the fields  *)
(* of the scanner say of the text it has seen (Scanning): between values,  *)
(* after one, within one, or that no text that begins like this is an array*)
(* (Hopeless).                                                             *)
(*                                                                         *)
(* The sum: MarketplacePhotos, MarketplaceRows, MarketplaceFiles,          *)
(* MarketplaceSpellings, and the types of all eleven parts,                *)
(* MarketplaceTyped.                                                       *)
(***************************************************************************)
EXTENDS MarketplaceProofs

----
(* The photos of a vehicle.                                                *)

Working(s) == s.pc \in {"source", "process", "insert"}
Busy(s)    == s.pc # "idle"

Primary(rows) == \E i \in rows : i.isPrimary
Settled(rows) == rows = {} \/ Primary(rows)
HasPath(p, rows) == \E i \in rows : i.s3Path = p

(* What holds of the table whoever has crossed whom: its indexes.          *)
RowsSound(rows) ==
  /\ IsFiniteSet(rows) /\ rows \subseteq Image
  /\ \A i, j \in rows : i.s3Path = j.s3Path => i = j
  /\ \A i, j \in rows : i.isPrimary /\ j.isPrimary => i = j

BranchSound(s, listed) ==
  /\ s.pc \notin {"next", "broken"} => s.image.s3Path \in Photos
  /\ s.pc = "missed" => s.image.s3Path \notin s.early
  /\ s.early # {} => listed
  /\ \A p \in Photos : s.outcome[p] = "unmatched" => p \notin s.early

Kept(outcome, rows, gone) ==
  \A p \in Photos : outcome[p] \in {"processed", "duplicates"} => p \in gone \/ HasPath(p, rows)

EditSound(s) == s.pc \in {"clear", "save"} => s.batch >= 1

(* What a handler that has met no other may rely on.                       *)
BranchRelies(s, rows) ==
  /\ Working(s) => Settled(rows)
  /\ s.pc \in {"process", "insert"} => (s.image.isPrimary <=> rows = {})

EditRelies(s, rows) ==
  /\ s.pc = "save" => rows = {}
  /\ s.pc = "remove" => s.image \in rows /\ Settled(rows)
  /\ s.pc \in {"next", "promote"} => ~Primary(rows)
  /\ s.pc = "promote" => s.image \in rows

NobodyAtWork == /\ \A b \in Branches : ~Working(branch[b])
                /\ \A r \in Edits : ~Busy(edit[r])

OneAtATime ==
  /\ \A b, c \in Branches : Working(branch[b]) /\ Working(branch[c]) => b = c
  /\ \A q, r \in Edits : Busy(edit[q]) /\ Busy(edit[r]) => q = r
  /\ \A b \in Branches, r \in Edits : ~(Working(branch[b]) /\ Busy(edit[r]))
  /\ \A b \in Branches : BranchRelies(branch[b], imageRows)
  /\ \A r \in Edits : EditRelies(edit[r], imageRows)
  /\ NobodyAtWork => Settled(imageRows)

ImagesInv ==
  /\ ImagesTypeOK
  /\ RowsSound(imageRows)
  /\ \A b \in Branches : /\ BranchSound(branch[b], loaded)
                         /\ Kept(branch[b].outcome, imageRows, removed)
  /\ \A r \in Edits : EditSound(edit[r])
  /\ ~overlapped => OneAtATime

LEMMA ImagesStart == ImagesInit => ImagesInv
<1> SUFFICES ASSUME ImagesInit PROVE ImagesInv OBVIOUS
<1> USE VehicleImagesAssumption
<1>1. /\ NewBranch \in Branch /\ IdleEdit \in Edit /\ NoImage \in Image
  BY DEF NewBranch, Branch, IdleEdit, Edit, NoImage, Image, Outcome
<1>2. /\ \A b \in Branches : branch[b] = NewBranch
      /\ \A r \in Edits : edit[r] = IdleEdit
  BY DEF ImagesInit
<1>3. ImagesTypeOK
  <2>1. batches \in 0 .. MaxBatches BY DEF ImagesInit
  <2>2. loaded \in BOOLEAN /\ rejected \in BOOLEAN /\ overlapped \in BOOLEAN BY DEF ImagesInit
  <2>3. branch \in [Branches -> Branch] /\ edit \in [Edits -> Edit] BY <1>1 DEF ImagesInit
  <2> QED BY <2>1, <2>2, <2>3 DEF ImagesInit, ImagesTypeOK
<1>4. RowsSound(imageRows) BY FS_EmptySet DEF ImagesInit, RowsSound
<1>5. BranchSound(NewBranch, FALSE) /\ Kept(NewBranch.outcome, {}, {})
  BY DEF BranchSound, Kept, NewBranch
<1>6. EditSound(IdleEdit) BY DEF EditSound, IdleEdit
<1>7. ~Working(NewBranch) /\ ~Busy(IdleEdit) BY DEF Working, Busy, NewBranch, IdleEdit
<1>8. BranchRelies(NewBranch, {}) /\ EditRelies(IdleEdit, {}) /\ Settled({})
  BY DEF BranchRelies, EditRelies, Settled, Working, NewBranch, IdleEdit
<1>9. OneAtATime BY <1>2, <1>7, <1>8 DEF OneAtATime, ImagesInit
<1> QED BY <1>2, <1>3, <1>4, <1>5, <1>6, <1>9 DEF ImagesInv, ImagesInit

(* At most one member, as the indexes count it.                            *)
LEMMA AtMostOne ==
  ASSUME NEW S, IsFiniteSet(S)
  PROVE  Cardinality(S) <= 1 <=> \A x, y \in S : x = y
<1>1. Cardinality(S) \in Nat BY FS_CardinalityType
<1>2. ASSUME Cardinality(S) <= 1, NEW x \in S, NEW y \in S PROVE x = y
  <2>1. S # {} BY <1>2
  <2>2. Cardinality(S) = 1
    <3>1. Cardinality(S) # 0 BY <2>1, FS_EmptySet
    <3> QED BY <1>1, <1>2, <3>1
  <2> QED BY <2>2, <1>2, FS_Singleton
<1>3. ASSUME \A x, y \in S : x = y PROVE Cardinality(S) <= 1
  <2>1. CASE S = {} BY <2>1, FS_EmptySet
  <2>2. CASE S # {}
    <3>1. PICK x \in S : TRUE BY <2>2
    <3>2. S = {x} BY <1>3, <3>1
    <3> QED BY <3>2, FS_Singleton
  <2> QED BY <2>1, <2>2
<1> QED BY <1>2, <1>3

LEMMA Fits ==
  ASSUME RowsSound(imageRows), NEW new \in SUBSET Image, IsFiniteSet(new), Insertable(new),
         \A i, j \in new : i.s3Path = j.s3Path => i = j
  PROVE  RowsSound(imageRows \cup new)
<1>1. IsFiniteSet(imageRows \cup new) BY FS_Union DEF RowsSound
<1> DEFINE first == {i \in imageRows \cup new : i.isPrimary}
<1>2. IsFiniteSet(first) BY <1>1, FS_Subset
<1>3. \A i, j \in first : i = j BY <1>2, AtMostOne DEF Insertable
<1>4. \A i \in imageRows, j \in new : i.s3Path # j.s3Path BY DEF Insertable
<1>5. \A i, j \in imageRows \cup new : i.s3Path = j.s3Path => i = j
  BY <1>4 DEF RowsSound
<1> QED BY <1>1, <1>3, <1>5 DEF RowsSound

LEMMA NobodyProcessing == Processing = {} <=> NobodyAtWork
BY DEF Processing, NobodyAtWork, Working, Busy

(* A step of the branch b to the state s.                                  *)
LEMMA BranchStep ==
  ASSUME ImagesInv, NEW b \in Branches, NEW s \in Branch,
         branch' = [branch EXCEPT ![b] = s],
         UNCHANGED <<loaded, rejected, edit, batches, removed>>, overlapped' \in BOOLEAN,
         RowsSound(imageRows'),
         \A p \in Photos : HasPath(p, imageRows) => HasPath(p, imageRows'),
         BranchSound(s, loaded), Kept(s.outcome, imageRows', removed),
         ~overlapped' => ~overlapped,
         \/ /\ ~Working(branch[b]) /\ ~Working(s) /\ imageRows' = imageRows
         \/ /\ ~Working(branch[b]) /\ imageRows' = imageRows
            /\ ~overlapped' => NobodyAtWork
            /\ Settled(imageRows) => BranchRelies(s, imageRows)
         \/ /\ Working(branch[b])
            /\ ~overlapped => BranchRelies(s, imageRows') /\ Settled(imageRows')
  PROVE  ImagesInv'
<1>1. ImagesTypeOK' BY DEF ImagesInv, ImagesTypeOK, RowsSound
<1>2. branch'[b] = s /\ \A c \in Branches \ {b} : branch'[c] = branch[c]
  BY DEF ImagesInv, ImagesTypeOK
<1>3. \A c \in Branches : Kept(branch[c].outcome, imageRows', removed)
  BY DEF ImagesInv, Kept
<1>4. \A c \in Branches : /\ BranchSound(branch'[c], loaded)
                          /\ Kept(branch'[c].outcome, imageRows', removed)
  BY <1>2, <1>3 DEF ImagesInv
<1>5. ASSUME ~overlapped' PROVE OneAtATime'
  <2> USE <1>5
  <2>0. OneAtATime BY DEF ImagesInv
  <2>1. CASE ~Working(branch[b]) /\ ~Working(s) /\ imageRows' = imageRows
    <3>1. BranchRelies(s, imageRows)
      BY <2>1 DEF BranchRelies, Working
    <3>2. NobodyAtWork' => NobodyAtWork BY <1>2, <2>1 DEF NobodyAtWork
    <3> QED BY <1>2, <2>0, <2>1, <3>1, <3>2 DEF OneAtATime
  <2>2. CASE /\ ~Working(branch[b]) /\ imageRows' = imageRows
             /\ ~overlapped' => NobodyAtWork
             /\ Settled(imageRows) => BranchRelies(s, imageRows)
    <3>1. NobodyAtWork /\ Settled(imageRows) BY <2>0, <2>2 DEF OneAtATime
    <3> QED BY <1>2, <2>0, <2>2, <3>1 DEF OneAtATime, NobodyAtWork
  <2>3. CASE /\ Working(branch[b])
             /\ ~overlapped => BranchRelies(s, imageRows') /\ Settled(imageRows')
    <3>1. \A c \in Branches \ {b} : ~Working(branch[c]) BY <2>0, <2>3 DEF OneAtATime
    <3>2. \A r \in Edits : ~Busy(edit[r]) BY <2>0, <2>3 DEF OneAtATime
    <3>3. \A c \in Branches \ {b} : BranchRelies(branch[c], imageRows')
      BY <3>1 DEF BranchRelies, Working
    <3>4. \A r \in Edits : EditRelies(edit[r], imageRows')
      BY <3>2 DEF EditRelies, Busy
    <3> QED BY <1>2, <2>3, <3>1, <3>2, <3>3, <3>4 DEF OneAtATime
  <2> QED BY <2>1, <2>2, <2>3
<1> QED BY <1>1, <1>4, <1>5 DEF ImagesInv

(* A step of the request r to the state s.                                 *)
LEMMA EditStep ==
  ASSUME ImagesInv, NEW r \in Edits, NEW s \in Edit,
         edit' = [edit EXCEPT ![r] = s],
         UNCHANGED <<loaded, rejected, branch>>, overlapped' \in BOOLEAN,
         batches' \in 0 .. MaxBatches, removed' \in SUBSET Photos,
         RowsSound(imageRows'), EditSound(s), removed \subseteq removed',
         \A p \in Photos : HasPath(p, imageRows) => p \in removed' \/ HasPath(p, imageRows'),
         ~overlapped' => ~overlapped,
         \/ overlapped'
         \/ /\ ~Busy(edit[r]) /\ imageRows' = imageRows
            /\ ~overlapped' => NobodyAtWork
            /\ Settled(imageRows) => EditRelies(s, imageRows)
            /\ Busy(s)
         \/ /\ Busy(edit[r])
            /\ ~overlapped => EditRelies(s, imageRows') /\ (Busy(s) \/ Settled(imageRows'))
  PROVE  ImagesInv'
<1>1. ImagesTypeOK' BY DEF ImagesInv, ImagesTypeOK, RowsSound
<1>2. edit'[r] = s /\ \A q \in Edits \ {r} : edit'[q] = edit[q]
  BY DEF ImagesInv, ImagesTypeOK
<1>3. \A c \in Branches : Kept(branch[c].outcome, imageRows', removed')
  BY DEF ImagesInv, Kept
<1>4. \A q \in Edits : EditSound(edit'[q]) BY <1>2 DEF ImagesInv
<1>5. ASSUME ~overlapped' PROVE OneAtATime'
  <2> USE <1>5
  <2>0. OneAtATime BY DEF ImagesInv
  <2>2. CASE /\ ~Busy(edit[r]) /\ imageRows' = imageRows
             /\ ~overlapped' => NobodyAtWork
             /\ Settled(imageRows) => EditRelies(s, imageRows)
             /\ Busy(s)
    <3>1. NobodyAtWork /\ Settled(imageRows) BY <2>0, <2>2 DEF OneAtATime
    <3> QED BY <1>2, <2>0, <2>2, <3>1 DEF OneAtATime, NobodyAtWork
  <2>3. CASE /\ Busy(edit[r])
             /\ ~overlapped => EditRelies(s, imageRows') /\ (Busy(s) \/ Settled(imageRows'))
    <3>1. \A q \in Edits \ {r} : ~Busy(edit[q]) BY <2>0, <2>3 DEF OneAtATime
    <3>2. \A c \in Branches : ~Working(branch[c]) BY <2>0, <2>3 DEF OneAtATime
    <3>3. \A c \in Branches : BranchRelies(branch[c], imageRows')
      BY <3>2 DEF BranchRelies, Working
    <3>4. \A q \in Edits \ {r} : EditRelies(edit[q], imageRows')
      BY <3>1 DEF EditRelies, Busy
    <3>5. NobodyAtWork' => Settled(imageRows') BY <1>2, <2>3 DEF NobodyAtWork
    <3> QED BY <1>2, <2>3, <3>1, <3>2, <3>3, <3>4, <3>5 DEF OneAtATime
  <2> QED BY <2>2, <2>3
<1> QED BY <1>1, <1>3, <1>4, <1>5 DEF ImagesInv
----
LEMMA ListingKeeps ==
  ASSUME ImagesInv, VehicleLoaded \/ RowRejected
  PROVE  ImagesInv'
<1>1. UNCHANGED <<imageRows, branch, edit, batches, overlapped, removed>>
  BY DEF VehicleLoaded, RowRejected
<1>2. loaded' \in BOOLEAN /\ rejected' \in BOOLEAN /\ (loaded => loaded')
  BY DEF VehicleLoaded, RowRejected, ImagesInv, ImagesTypeOK
<1>3. ImagesTypeOK' BY <1>1, <1>2 DEF ImagesInv, ImagesTypeOK
<1>4. \A b \in Branches : BranchSound(branch[b], loaded')
  BY <1>2 DEF ImagesInv, BranchSound
<1>5. OneAtATime => OneAtATime' BY <1>1 DEF OneAtATime, NobodyAtWork
<1> QED BY <1>1, <1>3, <1>4, <1>5 DEF ImagesInv

LEMMA SameRows ==
  ASSUME ImagesInv, imageRows' = imageRows
  PROVE  /\ RowsSound(imageRows')
         /\ \A p \in Photos : HasPath(p, imageRows) => HasPath(p, imageRows')
         /\ \A b \in Branches : Kept(branch[b].outcome, imageRows', removed)
BY DEF ImagesInv

LEMMA TakeKeeps ==
  ASSUME ImagesInv, NEW b \in Branches, NEW p \in Photos, TakePhoto(b, p)
  PROVE  ImagesInv'
<1> DEFINE old == branch[b]
           s == [old EXCEPT !.pc = "match", !.image.s3Path = p,
                            !.early = IF loaded THEN @ \cup {p} ELSE @]
<1>1. old \in Branch /\ old.image \in Image BY DEF ImagesInv, ImagesTypeOK, Branch
<1>2. s \in Branch BY <1>1 DEF Branch, Image, ImageKeys
<1>3. branch' = [branch EXCEPT ![b] = s]
  BY DEF TakePhoto, ImagesInv, ImagesTypeOK
<1>4. /\ s.pc = "match" /\ s.image.s3Path = p /\ s.outcome = old.outcome
      /\ s.early = IF loaded THEN old.early \cup {p} ELSE old.early
      /\ old.pc = "next" /\ old.outcome[p] = "none"
  BY <1>1 DEF Branch, Image, TakePhoto
<1>5. BranchSound(old, loaded) /\ Kept(old.outcome, imageRows, removed) BY DEF ImagesInv
<1> HIDE DEF s
<1>6. BranchSound(s, loaded) BY <1>4, <1>5 DEF BranchSound
<1>7. ~Working(branch[b]) /\ ~Working(s) BY <1>4 DEF Working
<1>8. UNCHANGED <<loaded, rejected, imageRows, edit, batches, overlapped, removed>>
  BY DEF TakePhoto
<1>9. overlapped \in BOOLEAN BY DEF ImagesInv, ImagesTypeOK
<1>10. Kept(s.outcome, imageRows', removed) BY <1>4, <1>5, <1>8
<1> QED BY <1>2, <1>3, <1>6, <1>7, <1>8, <1>9, <1>10, SameRows, BranchStep

LEMMA Typing ==
  ASSUME ImagesInv
  PROVE  /\ overlapped \in BOOLEAN /\ batches \in 0 .. MaxBatches /\ removed \in SUBSET Photos
         /\ \A b \in Branches : /\ branch[b] \in Branch /\ branch[b].image \in Image
                                /\ branch[b].outcome \in [Photos -> Outcome]
                                /\ BranchSound(branch[b], loaded)
                                /\ Kept(branch[b].outcome, imageRows, removed)
         /\ \A r \in Edits : edit[r] \in Edit /\ edit[r].image \in Image /\ EditSound(edit[r])
BY DEF ImagesInv, ImagesTypeOK, Branch, Edit

(* What is the same in the steps of a branch that only goes on.            *)
LEMMA BranchGoesOn ==
  ASSUME ImagesInv, NEW b \in Branches, branch[b].pc \notin {"next", "broken"},
         NEW pc \in {"match", "missed", "source", "process", "insert"}, BranchGoto(b, pc),
         pc = "missed" => ~loaded
  PROVE  LET s == [branch[b] EXCEPT !.pc = pc]
         IN  /\ s \in Branch /\ branch' = [branch EXCEPT ![b] = s]
             /\ s.pc = pc /\ s.image = branch[b].image /\ s.outcome = branch[b].outcome
             /\ BranchSound(s, loaded) /\ Kept(s.outcome, imageRows, removed)
<1> DEFINE old == branch[b]
           s == [old EXCEPT !.pc = pc]
<1>1. old \in Branch BY Typing
<1>2. s \in Branch BY <1>1 DEF Branch
<1>3. branch' = [branch EXCEPT ![b] = s] BY DEF BranchGoto, ImagesInv, ImagesTypeOK
<1>4. s.pc = pc /\ s.image = old.image /\ s.outcome = old.outcome /\ s.early = old.early
  BY <1>1 DEF Branch
<1> HIDE DEF s
<1>5. BranchSound(s, loaded) BY <1>4, Typing DEF BranchSound
<1>6. Kept(s.outcome, imageRows, removed) BY <1>4, Typing
<1> QED BY <1>2, <1>3, <1>4, <1>5, <1>6 DEF s

(* ... and of one whose photo comes to its end.                            *)
LEMMA PhotoIsOver ==
  ASSUME ImagesInv, NEW b \in Branches, branch[b].pc \notin {"next", "broken"},
         NEW outcome \in Outcome, PhotoEnds(b, outcome), NEW rows,
         outcome = "unmatched" => branch[b].image.s3Path \notin branch[b].early,
         outcome \in {"processed", "duplicates"} => HasPath(branch[b].image.s3Path, rows),
         \A p \in Photos : HasPath(p, imageRows) => HasPath(p, rows)
  PROVE  \E s \in Branch : /\ branch' = [branch EXCEPT ![b] = s] /\ s.pc = "next"
                            /\ BranchSound(s, loaded) /\ Kept(s.outcome, rows, removed)
<1> DEFINE old == branch[b]
           path == old.image.s3Path
           s == [old EXCEPT !.pc = "next", !.image = NoImage, !.outcome[path] = outcome]
<1>1. old \in Branch /\ old.outcome \in [Photos -> Outcome] /\ BranchSound(old, loaded)
      /\ Kept(old.outcome, imageRows, removed)
  BY Typing
<1>2. path \in Photos BY <1>1 DEF BranchSound
<1>3. NoImage \in Image BY DEF NoImage, Image
<1>4. s \in Branch BY <1>1, <1>2, <1>3 DEF Branch
<1>5. branch' = [branch EXCEPT ![b] = s] BY DEF PhotoEnds, ImagesInv, ImagesTypeOK
<1>6. s.pc = "next" /\ s.early = old.early /\ s.outcome = [old.outcome EXCEPT ![path] = outcome]
  BY <1>1 DEF Branch
<1> HIDE DEF s
<1>7. /\ s.outcome[path] = outcome
      /\ \A p \in Photos \ {path} : s.outcome[p] = old.outcome[p]
  BY <1>1, <1>2, <1>6
<1>8. BranchSound(s, loaded) BY <1>1, <1>6, <1>7 DEF BranchSound
<1>9. Kept(s.outcome, rows, removed) BY <1>1, <1>7 DEF Kept
<1> QED BY <1>4, <1>5, <1>6, <1>8, <1>9

LEMMA FindPhotoKeeps ==
  ASSUME ImagesInv, NEW b \in Branches, FindVehicle(b) \/ WasRejected(b)
  PROVE  ImagesInv'
<1>1. /\ branch[b].pc \in {"match", "missed"}
      /\ UNCHANGED <<loaded, rejected, imageRows, edit, batches, removed>>
  BY DEF FindVehicle, WasRejected
<1>2. ~Working(branch[b]) BY <1>1 DEF Working
<1>3. CASE FindVehicle(b) /\ loaded
  <2> DEFINE s == [branch[b] EXCEPT !.pc = "source"]
  <2>1. BranchGoto(b, "source") /\ Races BY <1>3 DEF FindVehicle
  <2>2. /\ s \in Branch /\ branch' = [branch EXCEPT ![b] = s] /\ s.pc = "source"
        /\ BranchSound(s, loaded) /\ Kept(s.outcome, imageRows, removed)
    BY <1>1, <2>1, BranchGoesOn
  <2> HIDE DEF s
  <2>3. overlapped' \in BOOLEAN /\ (~overlapped' => ~overlapped /\ NobodyAtWork)
    BY <2>1, Typing, NobodyProcessing DEF Races
  <2>4. Settled(imageRows) => BranchRelies(s, imageRows) BY <2>2 DEF BranchRelies
  <2>5. Kept(s.outcome, imageRows', removed) BY <1>1, <2>2
  <2> QED BY <1>1, <1>2, <2>2, <2>3, <2>4, <2>5, SameRows, BranchStep
<1>4. ASSUME NEW s \in Branch, branch' = [branch EXCEPT ![b] = s], ~Working(s),
             BranchSound(s, loaded), Kept(s.outcome, imageRows, removed), UNCHANGED overlapped
      PROVE  ImagesInv'
  <2>1. overlapped' \in BOOLEAN BY <1>4, Typing
  <2>2. Kept(s.outcome, imageRows', removed) BY <1>1, <1>4
  <2> QED BY <1>1, <1>2, <1>4, <2>1, <2>2, SameRows, BranchStep
<1>5. CASE FindVehicle(b) /\ ~loaded
  <2> DEFINE s == [branch[b] EXCEPT !.pc = "missed"]
  <2>1. BranchGoto(b, "missed") /\ UNCHANGED overlapped BY <1>5 DEF FindVehicle
  <2>2. /\ s \in Branch /\ branch' = [branch EXCEPT ![b] = s] /\ s.pc = "missed"
        /\ BranchSound(s, loaded) /\ Kept(s.outcome, imageRows, removed)
    BY <1>1, <1>5, <2>1, BranchGoesOn
  <2> HIDE DEF s
  <2>3. ~Working(s) BY <2>2 DEF Working
  <2> QED BY <1>4, <2>1, <2>2, <2>3
<1>6. CASE WasRejected(b) /\ BranchGoto(b, "match")
  <2> DEFINE s == [branch[b] EXCEPT !.pc = "match"]
  <2>1. UNCHANGED overlapped BY <1>6 DEF WasRejected
  <2>2. /\ s \in Branch /\ branch' = [branch EXCEPT ![b] = s] /\ s.pc = "match"
        /\ BranchSound(s, loaded) /\ Kept(s.outcome, imageRows, removed)
    BY <1>1, <1>6, BranchGoesOn
  <2> HIDE DEF s
  <2>3. ~Working(s) BY <2>2 DEF Working
  <2> QED BY <1>4, <2>1, <2>2, <2>3
<1>7. CASE WasRejected(b) /\ PhotoEnds(b, "unmatched")
  <2>1. UNCHANGED overlapped /\ branch[b].pc = "missed" BY <1>7 DEF WasRejected
  <2>2. branch[b].image.s3Path \notin branch[b].early BY <2>1, Typing DEF BranchSound
  <2>3. PICK s \in Branch : /\ branch' = [branch EXCEPT ![b] = s] /\ s.pc = "next"
                            /\ BranchSound(s, loaded) /\ Kept(s.outcome, imageRows, removed)
    BY <1>1, <1>7, <2>2, PhotoIsOver DEF Outcome
  <2>4. ~Working(s) BY <2>3 DEF Working
  <2> QED BY <1>4, <2>1, <2>3, <2>4
<1> QED BY <1>3, <1>5, <1>6, <1>7 DEF WasRejected, FindVehicle
LEMMA SourceKeeps ==
  ASSUME ImagesInv, NEW b \in Branches, FindImageBySource(b)
  PROVE  ImagesInv'
<1> DEFINE p == branch[b].image.s3Path
<1>1. /\ branch[b].pc = "source" /\ overlapped' \in BOOLEAN
      /\ UNCHANGED <<loaded, rejected, imageRows, edit, batches, overlapped, removed>>
  BY Typing DEF FindImageBySource
<1>2. Working(branch[b]) /\ (~overlapped => Settled(imageRows))
  BY <1>1 DEF Working, ImagesInv, OneAtATime, BranchRelies
<1>3. p \in Photos BY <1>1, Typing DEF BranchSound
<1>4. CASE HasPath(p, imageRows)
  <2>1. PhotoEnds(b, "duplicates") BY <1>4 DEF FindImageBySource, HasPath
  <2>2. PICK s \in Branch : /\ branch' = [branch EXCEPT ![b] = s] /\ s.pc = "next"
                            /\ BranchSound(s, loaded) /\ Kept(s.outcome, imageRows, removed)
    BY <1>1, <1>4, <2>1, PhotoIsOver DEF Outcome
  <2>3. Kept(s.outcome, imageRows', removed) BY <1>1, <2>2
  <2>4. ~overlapped => BranchRelies(s, imageRows') /\ Settled(imageRows')
    BY <1>1, <1>2, <2>2 DEF BranchRelies, Working
  <2> QED BY <1>1, <1>2, <2>2, <2>3, <2>4, SameRows, BranchStep
<1>5. CASE ~HasPath(p, imageRows)
  <2> DEFINE new == [s3Path |-> p, displayOrder |-> Cardinality(imageRows),
                     isPrimary |-> imageRows = {}]
             s == [branch[b] EXCEPT !.pc = "process", !.image = new]
  <2>1. branch' = [branch EXCEPT ![b] = s]
    BY <1>5, Typing DEF FindImageBySource, HasPath, ImagesInv, ImagesTypeOK
  <2>2. Cardinality(imageRows) \in Nat BY FS_CardinalityType DEF ImagesInv, RowsSound
  <2>3. new \in Image BY <1>3, <2>2 DEF Image, ImageKeys
  <2>4. s \in Branch BY <2>3, Typing DEF Branch
  <2>5. /\ s.pc = "process" /\ s.image = new /\ s.early = branch[b].early
        /\ s.outcome = branch[b].outcome
    BY Typing DEF Branch
  <2>6. new.s3Path = p /\ (new.isPrimary <=> imageRows = {}) OBVIOUS
  <2> HIDE DEF s, new
  <2>7. BranchSound(s, loaded) BY <1>3, <2>5, <2>6, Typing DEF BranchSound
  <2>8. Kept(s.outcome, imageRows', removed) BY <1>1, <2>5, Typing
  <2>9. ~overlapped => BranchRelies(s, imageRows') /\ Settled(imageRows')
    BY <1>1, <1>2, <2>5, <2>6 DEF BranchRelies
  <2> QED BY <1>1, <1>2, <2>1, <2>4, <2>7, <2>8, <2>9, SameRows, BranchStep
<1> QED BY <1>4, <1>5

(* The branch ends with an error.                                          *)
LEMMA Breaks ==
  ASSUME NEW rows
  PROVE  LET s == [NewBranch EXCEPT !.pc = "broken"]
         IN  /\ s \in Branch /\ s.pc = "broken" /\ BranchSound(s, loaded)
             /\ Kept(s.outcome, rows, removed) /\ (Settled(rows) => BranchRelies(s, rows))
BY DEF NewBranch, NoImage, Branch, Image, Outcome, BranchSound, Kept, BranchRelies, Working

LEMMA ProcessKeeps ==
  ASSUME ImagesInv, NEW b \in Branches, ProcessPhoto(b)
  PROVE  ImagesInv'
<1>1. /\ branch[b].pc = "process" /\ overlapped' \in BOOLEAN
      /\ UNCHANGED <<loaded, rejected, imageRows, edit, batches, overlapped, removed>>
  BY Typing DEF ProcessPhoto
<1>2. /\ Working(branch[b]) /\ (~overlapped => Settled(imageRows))
      /\ ~overlapped => (branch[b].image.isPrimary <=> imageRows = {})
  BY <1>1 DEF Working, ImagesInv, OneAtATime, BranchRelies
<1>3. CASE BranchGoto(b, "insert")
  <2> DEFINE s == [branch[b] EXCEPT !.pc = "insert"]
  <2>1. /\ s \in Branch /\ branch' = [branch EXCEPT ![b] = s] /\ s.pc = "insert"
        /\ s.image = branch[b].image
        /\ BranchSound(s, loaded) /\ Kept(s.outcome, imageRows, removed)
    BY <1>1, <1>3, BranchGoesOn
  <2> HIDE DEF s
  <2>2. ~overlapped => BranchRelies(s, imageRows') /\ Settled(imageRows')
    BY <1>1, <1>2, <2>1 DEF BranchRelies
  <2>3. Kept(s.outcome, imageRows', removed) BY <1>1, <2>1
  <2> QED BY <1>1, <1>2, <2>1, <2>2, <2>3, SameRows, BranchStep
<1>4. CASE PhotoEnds(b, "failed")
  <2>1. PICK s \in Branch : /\ branch' = [branch EXCEPT ![b] = s] /\ s.pc = "next"
                            /\ BranchSound(s, loaded) /\ Kept(s.outcome, imageRows, removed)
    BY <1>1, <1>4, PhotoIsOver DEF Outcome
  <2>2. ~overlapped => BranchRelies(s, imageRows') /\ Settled(imageRows')
    BY <1>1, <1>2, <2>1 DEF BranchRelies, Working
  <2>3. Kept(s.outcome, imageRows', removed) BY <1>1, <2>1
  <2> QED BY <1>1, <1>2, <2>1, <2>2, <2>3, SameRows, BranchStep
<1>5. CASE branch' = [branch EXCEPT ![b] = [NewBranch EXCEPT !.pc = "broken"]]
  <2> DEFINE s == [NewBranch EXCEPT !.pc = "broken"]
  <2>1. /\ s \in Branch /\ BranchSound(s, loaded) /\ Kept(s.outcome, imageRows, removed)
        /\ Settled(imageRows) => BranchRelies(s, imageRows)
    BY Breaks
  <2>2. ~overlapped => BranchRelies(s, imageRows') /\ Settled(imageRows')
    BY <1>1, <1>2, <2>1
  <2>3. Kept(s.outcome, imageRows', removed) BY <1>1, <2>1
  <2>4. branch' = [branch EXCEPT ![b] = s] BY <1>5
  <2> HIDE DEF s
  <2> QED BY <1>1, <1>2, <2>1, <2>2, <2>3, <2>4, SameRows, BranchStep
<1> QED BY <1>3, <1>4, <1>5 DEF ProcessPhoto

LEMMA InsertKeeps ==
  ASSUME ImagesInv, NEW b \in Branches, InsertImage(b)
  PROVE  ImagesInv'
<1> DEFINE new == branch[b].image
           rows == imageRows \cup {new}
<1>1. /\ branch[b].pc = "insert" /\ overlapped' \in BOOLEAN
      /\ UNCHANGED <<loaded, rejected, edit, batches, overlapped, removed>>
  BY Typing DEF InsertImage
<1>2. /\ Working(branch[b]) /\ (~overlapped => Settled(imageRows))
      /\ ~overlapped => (new.isPrimary <=> imageRows = {})
  BY <1>1 DEF Working, ImagesInv, OneAtATime, BranchRelies
<1>3. CASE Insertable({new})
  <2>1. imageRows' = rows /\ PhotoEnds(b, "processed") BY <1>3 DEF InsertImage
  <2>2. RowsSound(rows)
    <3>1. {new} \in SUBSET Image /\ IsFiniteSet({new}) BY Typing, FS_Singleton
    <3>2. RowsSound(imageRows) BY DEF ImagesInv
    <3> QED BY <1>3, <3>1, <3>2, Fits
  <2>3. /\ \A p \in Photos : HasPath(p, imageRows) => HasPath(p, rows)
        /\ HasPath(new.s3Path, rows)
    BY DEF HasPath
  <2>4. PICK s \in Branch : /\ branch' = [branch EXCEPT ![b] = s] /\ s.pc = "next"
                            /\ BranchSound(s, loaded) /\ Kept(s.outcome, rows, removed)
    BY <1>1, <2>1, <2>3, PhotoIsOver DEF Outcome
  <2>5. ~overlapped => Settled(rows) BY <1>2 DEF Settled, Primary
  <2>6. ~overlapped => BranchRelies(s, imageRows') /\ Settled(imageRows')
    BY <2>1, <2>4, <2>5 DEF BranchRelies, Working
  <2>7. /\ RowsSound(imageRows') /\ Kept(s.outcome, imageRows', removed)
        /\ \A p \in Photos : HasPath(p, imageRows) => HasPath(p, imageRows')
    BY <2>1, <2>2, <2>3, <2>4
  <2> QED BY <1>1, <1>2, <2>4, <2>6, <2>7, BranchStep
<1>4. CASE ~Insertable({new})
  <2> DEFINE s == [NewBranch EXCEPT !.pc = "broken"]
  <2>1. /\ s \in Branch /\ BranchSound(s, loaded) /\ Kept(s.outcome, imageRows, removed)
        /\ Settled(imageRows) => BranchRelies(s, imageRows)
    BY Breaks
  <2>2. UNCHANGED imageRows /\ branch' = [branch EXCEPT ![b] = s] BY <1>4 DEF InsertImage
  <2>3. ~overlapped => BranchRelies(s, imageRows') /\ Settled(imageRows')
    BY <1>2, <2>1, <2>2
  <2>4. Kept(s.outcome, imageRows', removed) BY <2>1, <2>2
  <2> HIDE DEF s
  <2> QED BY <1>1, <1>2, <2>1, <2>2, <2>3, <2>4, SameRows, BranchStep
<1> QED BY <1>3, <1>4

----
LEMMA StoreKeeps ==
  ASSUME ImagesInv, NEW r \in Edits, NEW files \in {1, 2}, StoreFiles(r, files)
  PROVE  ImagesInv'
<1> DEFINE s == [edit[r] EXCEPT !.pc = "clear", !.batch = batches + 1, !.files = files]
<1>1. /\ edit[r].pc = "idle" /\ batches < MaxBatches /\ batches' = batches + 1 /\ Races
      /\ UNCHANGED <<loaded, rejected, imageRows, branch, removed>>
  BY DEF StoreFiles
<1>2. edit' = [edit EXCEPT ![r] = s] BY DEF StoreFiles, ImagesInv, ImagesTypeOK
<1>3. MaxBatches \in Nat /\ batches \in 0 .. MaxBatches BY Typing, VehicleImagesAssumption
<1>4. batches + 1 \in 0 .. MaxBatches /\ batches + 1 >= 1 BY <1>1, <1>3
<1>5. s \in Edit BY <1>4, Typing DEF Edit
<1>6. s.pc = "clear" /\ s.batch = batches + 1 BY Typing DEF Edit
<1> HIDE DEF s
<1>7. EditSound(s) BY <1>4, <1>6 DEF EditSound
<1>8. overlapped' \in BOOLEAN /\ (~overlapped' => ~overlapped /\ NobodyAtWork)
  BY <1>1, Typing, NobodyProcessing DEF Races
<1>9. EditRelies(s, imageRows) /\ Busy(s) /\ ~Busy(edit[r]) BY <1>1, <1>6 DEF EditRelies, Busy
<1>10. batches' \in 0 .. MaxBatches /\ removed' \in SUBSET Photos /\ removed \subseteq removed'
  BY <1>1, <1>4, Typing
<1> QED BY <1>1, <1>2, <1>5, <1>7, <1>8, <1>9, <1>10, SameRows, EditStep

LEMMA ClearKeeps ==
  ASSUME ImagesInv, NEW r \in Edits, ClearImages(r)
  PROVE  ImagesInv'
<1> DEFINE s == [edit[r] EXCEPT !.pc = "save"]
<1>1. /\ edit[r].pc = "clear" /\ imageRows' = {}
      /\ removed' = removed \cup {p \in Photos : HasPath(p, imageRows)}
      /\ UNCHANGED <<loaded, rejected, branch, batches, overlapped>>
  BY DEF ClearImages, HasPath
<1>2. edit' = [edit EXCEPT ![r] = s] BY DEF ClearImages, ImagesInv, ImagesTypeOK
<1>3. s \in Edit BY Typing DEF Edit
<1>4. s.pc = "save" /\ s.batch = edit[r].batch BY Typing DEF Edit
<1> HIDE DEF s
<1>5. EditSound(s) BY <1>1, <1>4, Typing DEF EditSound
<1>6. RowsSound(imageRows') BY <1>1, FS_EmptySet DEF RowsSound
<1>7. EditRelies(s, imageRows') /\ Busy(s) /\ Busy(edit[r]) BY <1>1, <1>4 DEF EditRelies, Busy
<1>8. /\ batches' \in 0 .. MaxBatches /\ removed' \in SUBSET Photos /\ removed \subseteq removed'
      /\ overlapped' \in BOOLEAN
  BY <1>1, Typing
<1> QED BY <1>1, <1>2, <1>3, <1>5, <1>6, <1>7, <1>8, EditStep

(* A request is over.                                                      *)
LEMMA IdleIsIdle ==
  /\ IdleEdit \in Edit /\ EditSound(IdleEdit) /\ ~Busy(IdleEdit)
  /\ \A rows : EditRelies(IdleEdit, rows)
<1>1. NoImage \in Image BY DEF NoImage, Image
<1>2. 0 \in 0 .. MaxBatches BY VehicleImagesAssumption
<1> QED BY <1>1, <1>2 DEF IdleEdit, Edit, EditSound, Busy, EditRelies

LEMMA SavePhotoKeeps ==
  ASSUME ImagesInv, NEW r \in Edits, SaveImages(r)
  PROVE  ImagesInv'
<1> DEFINE batch == edit[r].batch
           Photo(i) == [s3Path |-> <<batch, i>>, isPrimary |-> i = 0, displayOrder |-> i]
           new == {Photo(i) : i \in 0 .. edit[r].files - 1}
<1>1. /\ edit[r].pc = "save" /\ edit' = [edit EXCEPT ![r] = IdleEdit]
      /\ imageRows' = IF Insertable(new) THEN imageRows \cup new ELSE imageRows
      /\ UNCHANGED <<loaded, rejected, branch, batches, overlapped, removed>>
  BY DEF SaveImages
<1>2. batch \in 1 .. MaxBatches /\ edit[r].files \in {1, 2}
  BY <1>1, Typing, VehicleImagesAssumption DEF EditSound, Edit
<1>3. 0 .. edit[r].files - 1 \subseteq {0, 1} /\ 0 \in 0 .. edit[r].files - 1 BY <1>2
<1>4. \A i \in {0, 1} : Photo(i) \in Image BY <1>2 DEF Image, ImageKeys
<1>5. new \in SUBSET Image BY <1>3, <1>4
<1>6. IsFiniteSet(new)
  <2>1. PICK first, other : first = Photo(0) /\ other = Photo(1) OBVIOUS
  <2>2. new \subseteq {first} \cup {other} BY <1>3, <2>1
  <2>3. IsFiniteSet({first} \cup {other}) BY FS_Singleton, FS_Union
  <2> HIDE DEF new
  <2> QED BY <2>2, <2>3, FS_Subset
<1>7. \A i, j \in new : i.s3Path = j.s3Path => i = j
  <2> SUFFICES ASSUME NEW x \in 0 .. edit[r].files - 1, NEW y \in 0 .. edit[r].files - 1,
                      Photo(x).s3Path = Photo(y).s3Path
               PROVE  Photo(x) = Photo(y)
    OBVIOUS
  <2> QED OBVIOUS
<1>8. Primary(new)
  <2>1. Photo(0) \in new /\ Photo(0).isPrimary BY <1>3
  <2> QED BY <2>1 DEF Primary
<1> HIDE DEF new
<1>9. RowsSound(imageRows') BY <1>1, <1>5, <1>6, <1>7, Fits DEF ImagesInv
<1>10. \A p \in Photos : HasPath(p, imageRows) => HasPath(p, imageRows') BY <1>1 DEF HasPath
<1>11. Busy(edit[r]) BY <1>1 DEF Busy
<1>12. ~overlapped => Settled(imageRows')
  <2>1. ~overlapped => imageRows = {} BY <1>1 DEF ImagesInv, OneAtATime, EditRelies
  <2> QED BY <1>1, <1>8, <2>1 DEF Settled, Primary
<1>13. /\ batches' \in 0 .. MaxBatches /\ removed' \in SUBSET Photos /\ removed \subseteq removed'
       /\ overlapped' \in BOOLEAN
  BY <1>1, Typing
<1> QED BY <1>1, <1>9, <1>10, <1>11, <1>12, <1>13, IdleIsIdle, EditStep

LEMMA FindImageKeeps ==
  ASSUME ImagesInv, NEW r \in Edits, NEW image \in imageRows, FindImage(r, image)
  PROVE  ImagesInv'
<1> DEFINE s == [edit[r] EXCEPT !.pc = "remove", !.image = image]
<1>1. /\ edit[r].pc = "idle" /\ Races
      /\ UNCHANGED <<loaded, rejected, imageRows, branch, batches, removed>>
  BY DEF FindImage
<1>2. edit' = [edit EXCEPT ![r] = s] BY DEF FindImage, ImagesInv, ImagesTypeOK
<1>3. image \in Image BY DEF ImagesInv, RowsSound
<1>4. s \in Edit BY <1>3, Typing DEF Edit
<1>5. s.pc = "remove" /\ s.image = image BY Typing DEF Edit
<1> HIDE DEF s
<1>6. EditSound(s) BY <1>5 DEF EditSound
<1>7. overlapped' \in BOOLEAN /\ (~overlapped' => ~overlapped /\ NobodyAtWork)
  BY <1>1, Typing, NobodyProcessing DEF Races
<1>8. /\ Settled(imageRows) => EditRelies(s, imageRows)
      /\ Busy(s) /\ ~Busy(edit[r])
  BY <1>1, <1>5 DEF EditRelies, Busy
<1>9. batches' \in 0 .. MaxBatches /\ removed' \in SUBSET Photos /\ removed \subseteq removed'
  BY <1>1, Typing
<1> QED BY <1>1, <1>2, <1>4, <1>6, <1>7, <1>8, <1>9, SameRows, EditStep

LEMMA RemovePhotoKeeps ==
  ASSUME ImagesInv, NEW r \in Edits, RemoveImage(r)
  PROVE  ImagesInv'
<1> DEFINE image == edit[r].image
           path == image.s3Path
           rows == {i \in imageRows : i.s3Path # path}
           s == IF image.isPrimary THEN [edit[r] EXCEPT !.pc = "next"] ELSE IdleEdit
<1>1. /\ edit[r].pc = "remove" /\ imageRows' = rows /\ removed' = removed \cup ({path} \cap Photos)
      /\ UNCHANGED <<loaded, rejected, branch, batches, overlapped>>
  BY DEF RemoveImage
<1>2. edit' = [edit EXCEPT ![r] = s] BY DEF RemoveImage
<1>3. s \in Edit BY Typing, IdleIsIdle DEF Edit
<1>4. /\ image.isPrimary => s.pc = "next"
      /\ ~image.isPrimary => s = IdleEdit
  BY Typing DEF Edit
<1> HIDE DEF s
<1>5. EditSound(s) BY <1>4, IdleIsIdle DEF EditSound
<1>6. RowsSound(rows)
  <2>1. IsFiniteSet(rows) BY FS_Subset DEF ImagesInv, RowsSound
  <2> QED BY <2>1 DEF ImagesInv, RowsSound
<1>7. \A p \in Photos : HasPath(p, imageRows) => p \in removed' \/ HasPath(p, rows)
  BY <1>1 DEF HasPath
<1>8. ASSUME ~overlapped PROVE EditRelies(s, rows) /\ (Busy(s) \/ Settled(rows))
  <2>1. image \in imageRows /\ Settled(imageRows)
    BY <1>1, <1>8 DEF ImagesInv, OneAtATime, EditRelies
  <2>2. CASE image.isPrimary
    <3>1. ~Primary(rows) BY <2>1, <2>2 DEF ImagesInv, RowsSound, Primary
    <3> QED BY <1>4, <2>2, <3>1 DEF EditRelies, Busy
  <2>3. CASE ~image.isPrimary
    <3>1. PICK first \in imageRows : first.isPrimary BY <2>1 DEF Settled, Primary
    <3>2. first.s3Path # path BY <2>1, <2>3, <3>1 DEF ImagesInv, RowsSound
    <3>3. Settled(rows) BY <3>1, <3>2 DEF Settled, Primary
    <3> QED BY <1>4, <2>3, <3>3, IdleIsIdle
  <2> QED BY <2>2, <2>3
<1>9. /\ batches' \in 0 .. MaxBatches /\ removed' \in SUBSET Photos /\ removed \subseteq removed'
      /\ overlapped' \in BOOLEAN /\ Busy(edit[r])
  BY <1>1, Typing DEF Busy
<1> HIDE DEF rows
<1> QED BY <1>1, <1>2, <1>3, <1>5, <1>6, <1>7, <1>8, <1>9, EditStep

LEMMA NextKeeps ==
  ASSUME ImagesInv, NEW r \in Edits, FindNext(r)
  PROVE  ImagesInv'
<1>1. /\ edit[r].pc = "next" /\ Busy(edit[r])
      /\ UNCHANGED <<loaded, rejected, imageRows, branch, batches, overlapped, removed>>
  BY DEF FindNext, Busy
<1>2. /\ batches' \in 0 .. MaxBatches /\ removed' \in SUBSET Photos /\ removed \subseteq removed'
      /\ overlapped' \in BOOLEAN
  BY <1>1, Typing
<1>3. CASE imageRows = {} /\ edit' = [edit EXCEPT ![r] = IdleEdit]
  <2>1. Settled(imageRows') BY <1>1, <1>3 DEF Settled
  <2> QED BY <1>1, <1>2, <1>3, <2>1, SameRows, IdleIsIdle, EditStep
<1>4. ASSUME NEW next \in imageRows,
             edit' = [edit EXCEPT ![r].pc = "promote", ![r].image = next]
      PROVE  ImagesInv'
  <2> DEFINE s == [edit[r] EXCEPT !.pc = "promote", !.image = next]
  <2>1. edit' = [edit EXCEPT ![r] = s] BY <1>4 DEF ImagesInv, ImagesTypeOK
  <2>2. next \in Image BY DEF ImagesInv, RowsSound
  <2>3. s \in Edit BY <2>2, Typing DEF Edit
  <2>4. s.pc = "promote" /\ s.image = next BY Typing DEF Edit
  <2> HIDE DEF s
  <2>5. EditSound(s) /\ Busy(s) BY <2>4 DEF EditSound, Busy
  <2>6. ~overlapped => ~Primary(imageRows) BY <1>1 DEF ImagesInv, OneAtATime, EditRelies
  <2>7. ~overlapped => EditRelies(s, imageRows') BY <1>1, <2>4, <2>6 DEF EditRelies
  <2> QED BY <1>1, <1>2, <2>1, <2>3, <2>5, <2>7, SameRows, EditStep
<1> QED BY <1>3, <1>4 DEF FindNext

LEMMA PromoteKeeps ==
  ASSUME ImagesInv, NEW r \in Edits, Promote(r)
  PROVE  ImagesInv'
<1> DEFINE path == edit[r].image.s3Path
           changes == {IF i.s3Path = path THEN [i EXCEPT !.isPrimary = TRUE] ELSE i : i \in imageRows}
<1>2. RowsSound(imageRows) BY DEF ImagesInv
<1>3. PICK promoted \in [imageRows -> Image] :
        /\ \A x : x \in changes <=> \E i \in imageRows : x = promoted[i]
        /\ \A i \in imageRows : /\ promoted[i].s3Path = i.s3Path
                                /\ i.s3Path = path => promoted[i].isPrimary
                                /\ i.s3Path # path => promoted[i] = i
  <2> DEFINE f == [i \in imageRows |->
                     IF i.s3Path = path THEN [i EXCEPT !.isPrimary = TRUE] ELSE i]
  <2>1. f \in [imageRows -> Image] BY <1>2 DEF RowsSound, Image
  <2>2. \A x : x \in changes <=> \E i \in imageRows : x = f[i] OBVIOUS
  <2>3. \A i \in imageRows : /\ f[i].s3Path = i.s3Path
                             /\ i.s3Path = path => f[i].isPrimary
                             /\ i.s3Path # path => f[i] = i
    BY <1>2 DEF RowsSound, Image
  <2> HIDE DEF f, changes
  <2> WITNESS f \in [imageRows -> Image]
  <2> QED BY <2>2, <2>3
<1> DEFINE changed == changes
           first == {i \in changed : i.isPrimary}
<1>1. /\ edit[r].pc = "promote" /\ Busy(edit[r]) /\ edit' = [edit EXCEPT ![r] = IdleEdit]
      /\ imageRows' = IF Cardinality(first) <= 1 THEN changed ELSE imageRows
      /\ UNCHANGED <<loaded, rejected, branch, batches, overlapped, removed>>
  BY DEF Promote, Busy
<1> HIDE DEF changes
<1>4. IsFiniteSet(changed) /\ IsFiniteSet(first)
  <2>1. IsFiniteSet(imageRows) BY <1>2 DEF RowsSound
  <2>2. promoted \in Surjection(imageRows, changed) BY <1>3 DEF Surjection
  <2>3. IsFiniteSet(changed) BY <2>1, <2>2, FS_Surjection
  <2> QED BY <2>3, FS_Subset
<1>5. \A i, j \in changed : i.s3Path = j.s3Path => i = j BY <1>2, <1>3 DEF RowsSound
<1>6. changed \subseteq Image BY <1>3
<1>7. \A p : HasPath(p, imageRows) => HasPath(p, changed) BY <1>3 DEF HasPath
<1>8. Cardinality(first) <= 1 => \A i, j \in first : i = j BY <1>4, AtMostOne
<1>9. RowsSound(imageRows')
  BY <1>1, <1>2, <1>4, <1>5, <1>6, <1>8 DEF RowsSound
<1>10. ASSUME ~overlapped PROVE Settled(imageRows')
  <2>1. ~Primary(imageRows) /\ edit[r].image \in imageRows
    BY <1>1, <1>10 DEF ImagesInv, OneAtATime, EditRelies
  <2>2. promoted[edit[r].image] \in first BY <1>3, <2>1
  <2>3. \A i \in imageRows : promoted[i].isPrimary => i = edit[r].image
    BY <1>2, <1>3, <2>1 DEF Primary, RowsSound
  <2>4. \A i, j \in first : i = j BY <1>3, <2>3
  <2>5. Cardinality(first) <= 1 BY <1>4, <2>4, AtMostOne
  <2> QED BY <1>1, <2>2, <2>5 DEF Settled, Primary
<1>11. /\ batches' \in 0 .. MaxBatches /\ removed' \in SUBSET Photos /\ removed \subseteq removed'
       /\ overlapped' \in BOOLEAN
  BY <1>1, Typing
<1>12. \A p \in Photos : HasPath(p, imageRows) => HasPath(p, imageRows') BY <1>1, <1>7
<1> HIDE DEF changed
<1> QED BY <1>1, <1>9, <1>10, <1>11, <1>12, IdleIsIdle, EditStep

LEMMA DiesKeeps ==
  ASSUME ImagesInv, NEW r \in Edits, EditDies(r)
  PROVE  ImagesInv'
<1>1. /\ edit' = [edit EXCEPT ![r] = IdleEdit] /\ overlapped' = TRUE
      /\ UNCHANGED <<loaded, rejected, imageRows, branch, batches, removed>>
  BY DEF EditDies
<1>2. /\ batches' \in 0 .. MaxBatches /\ removed' \in SUBSET Photos /\ removed \subseteq removed'
      /\ overlapped' \in BOOLEAN
  BY <1>1, Typing
<1>3. overlapped' BY <1>1
<1> QED BY <1>1, <1>2, <1>3, SameRows, IdleIsIdle, EditStep

LEMMA ImagesStep == ImagesInv /\ [ImagesNext]_imageVars => ImagesInv'
<1> SUFFICES ASSUME ImagesInv, [ImagesNext]_imageVars PROVE ImagesInv' OBVIOUS
<1>1. CASE VehicleLoaded \/ RowRejected BY <1>1, ListingKeeps
<1>2. ASSUME NEW b \in Branches,
             \/ \E p \in Photos : TakePhoto(b, p)
             \/ FindVehicle(b) \/ WasRejected(b) \/ FindImageBySource(b) \/ ProcessPhoto(b)
             \/ InsertImage(b)
      PROVE  ImagesInv'
  BY <1>2, TakeKeeps, FindPhotoKeeps, SourceKeeps, ProcessKeeps, InsertKeeps
<1>3. ASSUME NEW r \in Edits,
             \/ \E files \in {1, 2} : StoreFiles(r, files)
             \/ \E image \in imageRows : FindImage(r, image)
             \/ ClearImages(r) \/ SaveImages(r) \/ RemoveImage(r) \/ FindNext(r) \/ Promote(r)
             \/ EditDies(r)
      PROVE  ImagesInv'
  BY <1>3, StoreKeeps, FindImageKeeps, ClearKeeps, SavePhotoKeeps, RemovePhotoKeeps, NextKeeps,
     PromoteKeeps, DiesKeeps
<1>4. CASE UNCHANGED imageVars
  <2>1. OneAtATime => OneAtATime' BY <1>4 DEF imageVars, OneAtATime, NobodyAtWork
  <2>2. ImagesTypeOK' BY <1>4 DEF imageVars, ImagesInv, ImagesTypeOK
  <2> QED BY <1>4, <2>1, <2>2 DEF imageVars, ImagesInv
<1> QED BY <1>1, <1>2, <1>3, <1>4 DEF ImagesNext

(* The variables of the photos have their types.                           *)
THEOREM ImagesTyped == ImagesSpec => []ImagesTypeOK
<1>1. ImagesInv => ImagesTypeOK BY DEF ImagesInv
<1> QED BY <1>1, ImagesStart, ImagesStep, PTL DEF ImagesSpec

(* One photo is the primary when nobody is at work and nobody met another, *)
(* and what a branch says became of a photo is so.                         *)
THEOREM PhotosAreSound == ImagesSpec => [](OnePrimary /\ OutcomesAreTrue)
<1>1. ASSUME ImagesInv PROVE OnePrimary /\ OutcomesAreTrue
  <2>1. OutcomesAreTrue BY <1>1 DEF ImagesInv, OutcomesAreTrue, BranchSound, Kept, HasPath
  <2>2. OnePrimary
    <3> SUFFICES ASSUME Processing = {}, ~overlapped, imageRows # {}
                 PROVE  Cardinality({i \in imageRows : i.isPrimary}) = 1
      BY DEF OnePrimary
    <3>1. NobodyAtWork /\ OneAtATime BY <1>1, NobodyProcessing DEF ImagesInv
    <3>2. PICK first \in imageRows : first.isPrimary
      BY <3>1 DEF OneAtATime, Settled, Primary
    <3>3. {i \in imageRows : i.isPrimary} = {first} BY <1>1, <3>2 DEF ImagesInv, RowsSound
    <3> QED BY <3>3, FS_Singleton
  <2> QED BY <2>1, <2>2
<1> QED BY <1>1, ImagesStart, ImagesStep, PTL DEF ImagesSpec

----
(* The rows of a chunk.                                                    *)

LEMMA ReadIsRow ==
  ASSUME NEW cells \in Sheet
  PROVE  /\ ReadRow(cells) \in NormalizedRow
         /\ Confidence(cells) \in 0 .. 10
         /\ \A f \in Scored : cells[f].value # "blank" => Confidence(cells) <= Support(cells, f)
<1> USE RowAssumption
<1>1. \A f \in {"make", "model", "type", "fuel"} :
         cells[f].match \in 0 .. 10
  <2>1. /\ cells["make"] \in Cell(Makes) /\ cells["model"] \in Cell(Makes)
        /\ cells["type"] \in Cell({"own"}) /\ cells["fuel"] \in Cell({"own"})
    BY DEF Sheet
  <2>2. \A values : \A c \in Cell(values) : c.match = 0 \/ c.match \in Matches BY DEF Cell
  <2>3. Matches \subseteq 0 .. 10 OBVIOUS
  <2>4. \A f \in {"make", "model", "type", "fuel"} : cells[f].match = 0 \/ cells[f].match \in Matches
    BY <2>1, <2>2
  <2>5. 0 \in 0 .. 10 OBVIOUS
  <2> QED BY <2>3, <2>4, <2>5, Zenon
<1>2. /\ cells.make.match > 0 => cells.make.value \in Makes
      /\ cells.model.match > 0 => cells.model.value \in Makes
      /\ cells.type.match > 0 => cells.type.value = "own"
      /\ cells.fuel.match > 0 => cells.fuel.value = "own"
      /\ cells.engine \in Sizes \cup {Unread}
  BY DEF Sheet, Cell
<1>3. ReadRow(cells) \in NormalizedRow
  <2> DEFINE make == resolveMake(cells.make)
             model == resolveModel(cells.model, make)
             type == deriveVehicleType(cells.type, model, make)
             fuel == IF cells.fuel.match > 0 THEN cells.fuel.value ELSE Unread
  <2>1. make \in Makes \cup {Unread} BY <1>2 DEF resolveMake
  <2> HIDE DEF make
  <2>2. model \in Makes \cup {Unread} BY <2>1 DEF resolveModel
  <2> HIDE DEF model
  <2>3. type \in Makes \cup {"own", Unread}
    <3>1. cells.type.match > 0 \/ cells.type.match = 0 BY <1>1
    <3> QED BY <1>2, <2>1, <2>2, <3>1 DEF deriveVehicleType
  <2> HIDE DEF type
  <2>4. fuel \in {"own", "repaired", Unread} BY <1>2
  <2> HIDE DEF fuel
  <2>5. ReadRow(cells) = [make |-> make, model |-> model, type |-> type, fuel |-> fuel,
                          engine |-> cells.engine]
    BY Zenon DEF ReadRow, make, model, type, fuel
  <2> QED BY <1>2, <2>1, <2>2, <2>3, <2>4, <2>5 DEF NormalizedRow
<1> DEFINE scores == {Support(cells, f) : f \in {f \in Scored : cells[f].value # "blank"}} \cup {10}
<1>4. scores \subseteq 0 .. 10 /\ scores # {}
  <2> SUFFICES ASSUME NEW f \in Scored PROVE Support(cells, f) \in 0 .. 10 BY DEF scores
  <2> DEFINE row == ReadRow(cells)
  <2>1. Support(cells, f) \in {0, cells[f].match, cells["model"].match, cells["make"].match}
    <3>1. Support(cells, f) =
            CASE row[f] = Unread                                          -> 0
              [] row[f] # Unread /\ (f # "type" \/ cells.type.match > 0)   -> cells[f].match
              [] row[f] # Unread /\ f = "type" /\ cells.type.match = 0     ->
                   IF row.model # Unread THEN cells.model.match ELSE cells.make.match
      BY DEF Support
    <3>2. cells.type.match > 0 \/ cells.type.match = 0 BY <1>1
    <3> HIDE DEF row
    <3>3. CASE row[f] = Unread BY <3>1, <3>3
    <3>4. CASE row[f] # Unread /\ (f # "type" \/ cells.type.match > 0) BY <3>1, <3>4
    <3>5. CASE row[f] # Unread /\ f = "type" /\ cells.type.match = 0 BY <3>1, <3>5
    <3> QED BY <3>2, <3>3, <3>4, <3>5
  <2>2. 0 \in 0 .. 10 OBVIOUS
  <2> QED BY <1>1, <2>1, <2>2, Zenon DEF Scored
<1>5. PICK s \in scores : \A t \in scores : s <= t
  <2>1. scores \in SUBSET Nat BY <1>4
  <2> HIDE DEF scores
  <2> QED BY <1>4, <2>1, LeastNatural
<1>6. Confidence(cells) \in scores /\ \A t \in scores : Confidence(cells) <= t
  <2>1. Confidence(cells) = CHOOSE x \in scores : \A t \in scores : x <= t
    BY DEF Confidence
  <2> HIDE DEF scores
  <2> QED BY <1>5, <2>1
<1>7. \A f \in Scored : cells[f].value # "blank" => Support(cells, f) \in scores OBVIOUS
<1> HIDE DEF scores
<1> QED BY <1>3, <1>4, <1>6, <1>7

(* What the rules read where a repair finds nothing is kept.               *)
Repaired(before, now, fields) ==
  /\ \A f \in {"fuel", "engine"} : before[f] # Unread => now[f] = before[f]
  /\ \A f \in {"make", "model", "fuel", "engine"} : now[f] # before[f] => f \in fields

LEMMA RepairFills ==
  ASSUME NEW before \in NormalizedRow, NEW row \in NormalizedRow, NEW reply \in Repair,
         NEW fields, Repaired(before, row, fields)
  PROVE  /\ RepairRow(row, reply) \in NormalizedRow
         /\ Repaired(before, RepairRow(row, reply), fields \cup Touched(row, reply))
         /\ Touched(row, reply) \subseteq {"make", "model", "fuel", "engine"}
<1> DEFINE now == RepairRow(row, reply)
<1>1. RepairRow(row, reply) \in NormalizedRow
  BY DEF RepairRow, NormalizedRow, Repair, Sizes
<1>2. now["fuel"] = IF row["fuel"] = Unread THEN reply["fuel"] ELSE row["fuel"]
  BY DEF RepairRow
<1>3. now["engine"] = IF row["engine"] = Unread THEN reply["engine"] ELSE row["engine"]
  BY DEF RepairRow
<1>4. /\ reply.make = Unread => now["make"] = row["make"]
      /\ ~(reply.make # Unread /\ reply.model = reply.make) => now["model"] = row["model"]
  BY DEF RepairRow
<1> HIDE DEF now
<1>5. Repaired(before, now, fields \cup Touched(row, reply))
  <2>1. \A f \in {"fuel", "engine"} : before[f] # Unread => now[f] = before[f]
    BY <1>2, <1>3 DEF Repaired
  <2>2. ASSUME NEW f \in {"make", "model", "fuel", "engine"}, now[f] # before[f]
        PROVE  f \in fields \cup Touched(row, reply)
    <3>1. CASE row[f] # before[f] BY <3>1 DEF Repaired
    <3>2. CASE row[f] = before[f]
      <4>1. now[f] # row[f] BY <2>2, <3>2
      <4> QED BY <1>2, <1>3, <1>4, <4>1 DEF Touched
    <3> QED BY <3>1, <3>2
  <2> QED BY <2>1, <2>2 DEF Repaired
<1> QED BY <1>1, <1>5 DEF now, Touched

(* The confidence of a row is as the rules gave it, or that of a repair.   *)
Trusted(confidence, cells, fields) ==
  confidence = (IF fields = {} THEN Confidence(cells) ELSE 8)

RowsInv ==
  /\ RowStagesTypeOK
  /\ stage = "PARSE_NORMALIZE" => \A r \in RowNumbers : marks[r] = {}
  /\ stage # "PARSE_NORMALIZE" =>
       \A r \in RowNumbers : /\ Repaired(read[r], got[r], marks[r])
                             /\ Trusted(trust[r], sheet[r], marks[r])
  /\ stage = "done" =>
       accepted = {r \in RowNumbers : Whole(r) /\
         (sheet[r].plate # Unread => \A s \in 1 .. r - 1 : ~Claims(s, sheet[r].plate))}

LEMMA RowsStart == RowStagesInit => RowsInv
<1> SUFFICES ASSUME RowStagesInit PROVE RowsInv OBVIOUS
<1> USE RowAssumption
<1>1. ASSUME NEW make \in Makes, NEW plate \in Plates, NEW price \in {"positive", "zero"}
      PROVE  Good(make, plate, price) \in Sheet
  <2> DEFINE match == CHOOSE m \in Matches : TRUE
  <2>1. match \in Matches OBVIOUS
  <2> HIDE DEF match
  <2>2. Good(make, plate, price) =
          [make |-> [value |-> make, match |-> match], model |-> [value |-> make, match |-> match],
           type |-> [value |-> "own", match |-> match], fuel |-> [value |-> "own", match |-> match],
           engine |-> "within", price |-> price, plate |-> plate]
    BY DEF Good, match
  <2> QED BY <2>1, <2>2 DEF Sheet, Cell, Sizes
<1>2. sheet \in [RowNumbers -> Sheet]
  <2>1. PICK odd \in Sheet, n \in RowNumbers, make \in Makes, plate \in Plates,
             price \in {"positive", "zero"} :
          sheet = [r \in RowNumbers |-> IF r = n THEN odd ELSE Good(make, plate, price)]
    BY DEF RowStagesInit
  <2> QED BY <1>1, <2>1
<1>3. Nothing \in NormalizedRow BY DEF Nothing, NormalizedRow
<1>4. unanswered \in Seq(SUBSET RowNumbers) BY EmptySeq DEF RowStagesInit
<1>5. RowStagesTypeOK BY <1>2, <1>3, <1>4 DEF RowStagesInit, RowStagesTypeOK
<1> QED BY <1>5 DEF RowStagesInit, RowsInv

LEMMA ParseKeeps ==
  ASSUME RowsInv, NEW configured \in BOOLEAN, ParseNormalize(configured)
  PROVE  RowsInv'
<1>1. /\ stage' = "GROQ_NORMALIZE" /\ UNCHANGED <<sheet, marks, accepted>>
      /\ got' = read'
      /\ read' = [r \in RowNumbers |-> ReadRow(sheet[r])]
      /\ trust' = [r \in RowNumbers |-> Confidence(sheet[r])]
  BY DEF ParseNormalize
<1>2. \A r \in RowNumbers : sheet[r] \in Sheet BY DEF RowsInv, RowStagesTypeOK
<1>3. read' \in [RowNumbers -> NormalizedRow] /\ trust' \in [RowNumbers -> 0 .. 10]
  BY <1>1, <1>2, ReadIsRow
<1>4. unanswered' \in Seq(SUBSET RowNumbers)
  <2>1. \A rows \in SUBSET RowNumbers : ChunkInto(rows) \in Seq(SUBSET RowNumbers)
    <3>1. \A rows \in SUBSET RowNumbers : <<rows>> \in Seq(SUBSET RowNumbers) OBVIOUS
    <3>2. <<{1}, {2}>> \in Seq(SUBSET RowNumbers) BY DEF RowNumbers
    <3>3. <<>> \in Seq(SUBSET RowNumbers) OBVIOUS
    <3> QED BY <3>1, <3>2, <3>3 DEF ChunkInto
  <2>2. Candidates(trust') \in SUBSET RowNumbers BY DEF Candidates
  <2>3. <<>> \in Seq(SUBSET RowNumbers) OBVIOUS
  <2> QED BY <2>1, <2>2, <2>3 DEF ParseNormalize
<1>5. RowStagesTypeOK' BY <1>1, <1>3, <1>4 DEF RowsInv, RowStagesTypeOK
<1>6. \A r \in RowNumbers : Repaired(read'[r], got'[r], marks'[r]) BY <1>1 DEF Repaired
<1>7. \A r \in RowNumbers : Trusted(trust'[r], sheet'[r], marks'[r])
  <2>1. stage = "PARSE_NORMALIZE" BY DEF ParseNormalize
  <2>2. \A r \in RowNumbers : marks'[r] = {} /\ trust'[r] = Confidence(sheet'[r])
    BY <1>1, <2>1 DEF RowsInv
  <2> QED BY <2>2 DEF Trusted
<1> QED BY <1>1, <1>5, <1>6, <1>7 DEF RowsInv

LEMMA AnswerKeeps ==
  ASSUME RowsInv, NEW r \in RowNumbers, NEW reply \in Repair, GroqAnswered(r, reply)
  PROVE  RowsInv'
<1> DEFINE touched == Touched(got[r], reply)
<1>1. /\ stage = "GROQ_NORMALIZE" /\ unanswered # <<>>
      /\ got' = [got EXCEPT ![r] = RepairRow(got[r], reply)]
      /\ marks' = [marks EXCEPT ![r] = marks[r] \cup touched]
      /\ trust' = [trust EXCEPT ![r] = IF touched = {} THEN trust[r] ELSE 8]
      /\ UNCHANGED <<sheet, read, accepted, stage>>
  BY DEF GroqAnswered
<1>2. /\ got[r] \in NormalizedRow /\ read[r] \in NormalizedRow /\ Repaired(read[r], got[r], marks[r])
      /\ got \in [RowNumbers -> NormalizedRow]
      /\ marks \in [RowNumbers -> SUBSET {"make", "model", "fuel", "engine"}]
      /\ trust \in [RowNumbers -> 0 .. 10] /\ unanswered \in Seq(SUBSET RowNumbers)
  BY <1>1 DEF RowsInv, RowStagesTypeOK
<1>3. /\ RepairRow(got[r], reply) \in NormalizedRow
      /\ Repaired(read[r], RepairRow(got[r], reply), marks[r] \cup touched)
      /\ touched \subseteq {"make", "model", "fuel", "engine"}
  BY <1>2, RepairFills
<1> HIDE DEF touched
<1>4. unanswered' \in Seq(SUBSET RowNumbers)
  <2>1. Head(unanswered) \in SUBSET RowNumbers /\ Tail(unanswered) \in Seq(SUBSET RowNumbers)
    BY <1>1, <1>2, HeadTailProperties
  <2> DEFINE rest == Head(unanswered) \ {r}
  <2>2. rest \in SUBSET RowNumbers BY <2>1
  <2>3. <<rest>> \in Seq(SUBSET RowNumbers) BY <2>2
  <2>4. <<rest>> \o Tail(unanswered) \in Seq(SUBSET RowNumbers) BY <2>1, <2>3, ConcatProperties
  <2> QED BY <2>1, <2>4 DEF GroqAnswered
<1>5. /\ got' \in [RowNumbers -> NormalizedRow]
      /\ marks' \in [RowNumbers -> SUBSET {"make", "model", "fuel", "engine"}]
      /\ trust' \in [RowNumbers -> 0 .. 10]
  <2>1. got' \in [RowNumbers -> NormalizedRow] BY <1>1, <1>2, <1>3
  <2>2. marks[r] \cup touched \in SUBSET {"make", "model", "fuel", "engine"} BY <1>2, <1>3
  <2>3. marks' \in [RowNumbers -> SUBSET {"make", "model", "fuel", "engine"}] BY <1>1, <1>2, <2>2
  <2>4. (IF touched = {} THEN trust[r] ELSE 8) \in 0 .. 10 BY <1>2
  <2>5. trust' \in [RowNumbers -> 0 .. 10] BY <1>1, <1>2, <2>4
  <2> QED BY <2>1, <2>3, <2>5
<1>6. RowStagesTypeOK' BY <1>1, <1>4, <1>5 DEF RowsInv, RowStagesTypeOK
<1>7. \A s \in RowNumbers : Repaired(read[s], got'[s], marks'[s])
  BY <1>1, <1>2, <1>3 DEF RowsInv
<1>8. \A s \in RowNumbers : Trusted(trust'[s], sheet[s], marks'[s])
  <2>1. \A s \in RowNumbers : Trusted(trust[s], sheet[s], marks[s]) BY <1>1 DEF RowsInv
  <2>2. \A s \in RowNumbers \ {r} : trust'[s] = trust[s] /\ marks'[s] = marks[s] BY <1>1, <1>2
  <2>3. /\ trust'[r] = IF touched = {} THEN trust[r] ELSE 8
        /\ marks'[r] = marks[r] \cup touched
    BY <1>1, <1>2
  <2>4. Trusted(trust'[r], sheet[r], marks'[r])
    <3>1. Trusted(trust[r], sheet[r], marks[r]) BY <2>1
    <3>2. CASE touched = {}
      <4>1. trust'[r] = trust[r] /\ marks'[r] = marks[r] BY <2>3, <3>2
      <4> QED BY <3>1, <4>1
    <3>3. CASE touched # {}
      <4>1. trust'[r] = 8 /\ marks'[r] # {} BY <2>3, <3>3
      <4> QED BY <4>1 DEF Trusted
    <3> QED BY <3>2, <3>3
  <2> QED BY <2>1, <2>2, <2>4
<1> QED BY <1>1, <1>6, <1>7, <1>8 DEF RowsInv

LEMMA RowsStep == RowsInv /\ [RowStagesNext]_rowVars => RowsInv'
<1> SUFFICES ASSUME RowsInv, [RowStagesNext]_rowVars PROVE RowsInv' OBVIOUS
<1>1. CASE GroqDegraded
  <2>1. Tail(unanswered) \in Seq(SUBSET RowNumbers)
    BY <1>1, HeadTailProperties DEF GroqDegraded, RowsInv, RowStagesTypeOK
  <2>2. stage' = stage /\ stage # "done"
    BY <1>1 DEF GroqDegraded
  <2>3. RowStagesTypeOK' BY <1>1, <2>1 DEF GroqDegraded, RowsInv, RowStagesTypeOK
  <2> QED BY <1>1, <2>2, <2>3 DEF GroqDegraded, RowsInv
<1>2. CASE ValidateRows
  <2>1. /\ stage = "GROQ_NORMALIZE" /\ stage' = "done"
        /\ UNCHANGED <<sheet, read, got, marks, trust, unanswered>>
        /\ accepted' = {r \in RowNumbers : Whole(r) /\
             (sheet[r].plate # Unread => \A s \in 1 .. r - 1 : ~Claims(s, sheet[r].plate))}
    BY <1>2 DEF ValidateRows
  <2>2. RowStagesTypeOK' BY <2>1 DEF RowsInv, RowStagesTypeOK
  <2> QED BY <2>1, <2>2 DEF RowsInv, Whole, Claims
<1>3. CASE UNCHANGED rowVars BY <1>3 DEF rowVars, RowsInv, RowStagesTypeOK, Whole, Claims
<1> QED BY <1>1, <1>2, <1>3, ParseKeeps, AnswerKeeps DEF RowStagesNext

LEMMA RowsSettled == RowsInv => RowsComeThrough
<1> SUFFICES ASSUME RowsInv PROVE RepairsFillGaps /\ TrustIsEarned /\ RejectionsHaveReasons
  BY DEF RowsComeThrough
<1>1. RepairsFillGaps BY DEF RowsInv, RepairsFillGaps, Repaired
<1>2. TrustIsEarned
  <2> SUFFICES ASSUME stage # "PARSE_NORMALIZE", NEW r \in RowNumbers
               PROVE  IF marks[r] # {} THEN trust[r] = 8
                      ELSE \A f \in Scored : sheet[r][f].value # "blank" => trust[r] <= Support(sheet[r], f)
    BY DEF TrustIsEarned
  <2>1. sheet[r] \in Sheet /\ Trusted(trust[r], sheet[r], marks[r]) BY DEF RowsInv, RowStagesTypeOK
  <2>2. \A f \in Scored : sheet[r][f].value # "blank" => Confidence(sheet[r]) <= Support(sheet[r], f)
    BY <2>1, ReadIsRow
  <2> QED BY <2>1, <2>2 DEF Trusted
<1>3. RejectionsHaveReasons
  <2> SUFFICES ASSUME stage = "done"
               PROVE  /\ \A plate \in Plates : Cardinality({r \in accepted : sheet[r].plate = plate}) <= 1
                      /\ \A r \in RowNumbers :
                           IF r \in accepted THEN Whole(r)
                           ELSE Whole(r) => \E s \in accepted : s < r /\ sheet[s].plate = sheet[r].plate
    BY DEF RejectionsHaveReasons
  <2>1. accepted \subseteq {1, 2} BY DEF RowsInv, RowStagesTypeOK, RowNumbers
  <2>2. 1 .. 1 - 1 = {} /\ 1 .. 2 - 1 = {1} OBVIOUS
  <2>3. /\ 1 \in accepted <=> Whole(1)
        /\ 2 \in accepted <=> Whole(2) /\ (sheet[2].plate # Unread => ~Claims(1, sheet[2].plate))
    BY <2>2 DEF RowsInv, RowNumbers
  <2>4. ASSUME NEW plate \in Plates
        PROVE  Cardinality({r \in accepted : sheet[r].plate = plate}) <= 1
    <3> DEFINE through == {r \in accepted : sheet[r].plate = plate}
    <3>1. plate # Unread BY RowAssumption
    <3>2. ~(1 \in through /\ 2 \in through) BY <2>3, <3>1 DEF Claims
    <3>3. through \subseteq {1, 2} BY <2>1
    <3>4. through = {} \/ through = {1} \/ through = {2}
      <4> HIDE DEF through
      <4> QED BY <3>2, <3>3
    <3>5. Cardinality({}) = 0 /\ Cardinality({1}) = 1 /\ Cardinality({2}) = 1
      BY FS_EmptySet, FS_Singleton
    <3> HIDE DEF through
    <3>6. Cardinality(through) \in {0, 1} BY <3>4, <3>5
    <3> QED BY <3>6 DEF through
  <2>5. ASSUME NEW r \in RowNumbers
        PROVE  IF r \in accepted THEN Whole(r)
               ELSE Whole(r) => \E s \in accepted : s < r /\ sheet[s].plate = sheet[r].plate
    <3>1. r = 1 \/ r = 2 BY DEF RowNumbers
    <3>2. CASE r = 1 BY <2>3, <3>2
    <3>3. CASE r = 2
      <4>1. Claims(1, sheet[2].plate) => 1 \in accepted /\ sheet[1].plate = sheet[2].plate
        BY <2>3 DEF Claims
      <4>2. 1 < 2 OBVIOUS
      <4> QED BY <2>3, <3>3, <4>1, <4>2
    <3> QED BY <3>1, <3>2, <3>3
  <2> QED BY <2>4, <2>5
<1> QED BY <1>1, <1>2, <1>3

(* The variables of the row stages have their types.                       *)
THEOREM RowsTyped == RowStagesSpec => []RowStagesTypeOK
<1>1. RowsInv => RowStagesTypeOK BY DEF RowsInv
<1> QED BY <1>1, RowsStart, RowsStep, PTL DEF RowStagesSpec

(* The model fills gaps and marks what it changed; a row's confidence is   *)
(* what its fields support, or an alias's once the model repaired some; of *)
(* the rows with one registration one is loaded at the most, and a whole   *)
(* row that is not follows one with its registration that is.              *)
THEOREM RowsAreSound == RowStagesSpec => []RowsComeThrough
BY RowsStart, RowsStep, RowsSettled, PTL DEF RowStagesSpec

----
(* The dictionary.                                                         *)

Carried(s, makes) == \E e \in makes : s \in SpellingsOf(e)
Named(name, makes) == \E e \in makes : e.name = name

Handled(d, makes) ==
  \/ d.kind = "noise"
  \/ d.kind = "make" /\ d.name # d.value
  \/ Carried(d.value, makes)

(* What is decided can be written, what is written can be dismissed.       *)
HandlingSound(h, makes) ==
  /\ h.pc = "write" => /\ h.decision.kind \in {"make", "alias"} /\ h.decision.value \in Typed
                       /\ h.decision.name \in Spellings
                       /\ h.decision.kind = "alias" => Named(h.decision.name, makes)
  /\ h.pc = "dismiss" => h.decision.value \in Typed /\ Handled(h.decision, makes)

PromotionSound ==
  promotion.pc = "promote" /\ promotion.alone =>
    \A s \in promotion.todo : Carried(s, entries) => Carried(s, promotion.entries)

DictionaryInv ==
  /\ DictionaryTypeOK
  /\ IsFiniteSet(entries)
  /\ \A c \in candidates : c.closest # NoMake => Named(c.closest, entries)
  /\ \A a \in Reviewers : HandlingSound(handling[a], entries)
  /\ \A s \in dismissed : \E d \in decisions : d.value = s /\ Handled(d, entries)
  /\ PromotionSound

(* The dictionary only grows.                                              *)
Grows(makes, grown) ==
  /\ \A s : Carried(s, makes) => Carried(s, grown)
  /\ \A n : Named(n, makes) => Named(n, grown)

LEMMA GrowthKeeps ==
  ASSUME NEW makes, NEW grown, Grows(makes, grown)
  PROVE  /\ \A d : Handled(d, makes) => Handled(d, grown)
         /\ \A h : HandlingSound(h, makes) => HandlingSound(h, grown)
BY DEF Grows, Handled, HandlingSound

LEMMA AliasAdded ==
  ASSUME entries \subseteq Entry, IsFiniteSet(entries), NEW name \in Spellings, NEW alias \in Typed
  PROVE  /\ WithAlias(name, alias) \subseteq Entry /\ IsFiniteSet(WithAlias(name, alias))
         /\ Grows(entries, WithAlias(name, alias))
         /\ Named(name, entries) => Carried(alias, WithAlias(name, alias))
         /\ \A s : Carried(s, WithAlias(name, alias)) => s = alias \/ Carried(s, entries)
<1> DEFINE grown == WithAlias(name, alias)
<1>1. PICK new \in [entries -> Entry] :
        /\ \A x : x \in grown <=> \E e \in entries : x = new[e]
        /\ \A e \in entries : /\ new[e].name = e.name
                              /\ new[e].aliases = IF e.name = name THEN e.aliases \cup {alias}
                                                  ELSE e.aliases
  <2> DEFINE f == [e \in entries |->
                     IF e.name = name THEN [e EXCEPT !.aliases = @ \cup {alias}] ELSE e]
  <2>1. f \in [entries -> Entry] BY DEF Entry, Spellings
  <2>2. \A x : x \in grown <=> \E e \in entries : x = f[e] BY DEF WithAlias
  <2>3. \A e \in entries : /\ f[e].name = e.name
                           /\ f[e].aliases = IF e.name = name THEN e.aliases \cup {alias}
                                             ELSE e.aliases
    BY DEF Entry
  <2> HIDE DEF f, grown
  <2> QED BY <2>1, <2>2, <2>3
<1> HIDE DEF grown
<1>2. grown \subseteq Entry BY <1>1
<1>3. IsFiniteSet(grown)
  <2>1. new \in Surjection(entries, grown) BY <1>1 DEF Surjection
  <2> QED BY <2>1, FS_Surjection
<1>4. \A e \in entries : /\ SpellingsOf(e) \subseteq SpellingsOf(new[e])
                         /\ SpellingsOf(new[e]) \subseteq SpellingsOf(e) \cup {alias}
                         /\ e.name = name => alias \in SpellingsOf(new[e])
  BY <1>1 DEF SpellingsOf
<1>5. Grows(entries, grown) BY <1>1, <1>4 DEF Grows, Carried, Named
<1>6. Named(name, entries) => Carried(alias, grown) BY <1>1, <1>4 DEF Carried, Named
<1>7. \A s : Carried(s, grown) => s = alias \/ Carried(s, entries) BY <1>1, <1>4 DEF Carried
<1> QED BY <1>2, <1>3, <1>5, <1>6, <1>7 DEF grown

LEMMA DictionaryStart == DictionaryInit => DictionaryInv
<1> SUFFICES ASSUME DictionaryInit PROVE DictionaryInv OBVIOUS
<1> USE DictionaryAssumption
<1>1. entries \subseteq Entry
  BY DEF DictionaryInit, Entry, Spellings
<1>2. IsFiniteSet(entries)
  <2> DEFINE f == [m \in SeededMakes |-> [name |-> m, aliases |-> Aliases[m]]]
  <2>1. f \in Surjection(SeededMakes, entries) BY DEF Surjection, DictionaryInit
  <2> QED BY <2>1, FS_Surjection
<1>3. MaxOccurrences \in Nat /\ 0 \in 0 .. MaxOccurrences BY DEF MaxOccurrences
<1>4. NoHandling \in Handling BY DEF NoHandling, Handling, Verdict
<1>5. NoPromotion \in [pc : {"idle", "load", "promote"}, todo : SUBSET Typed,
                       entries : SUBSET Entry, alone : BOOLEAN]
  BY DEF NoPromotion
<1>6. DictionaryTypeOK BY <1>1, <1>3, <1>4, <1>5 DEF DictionaryInit, DictionaryTypeOK
<1>7. HandlingSound(NoHandling, entries) BY DEF HandlingSound, NoHandling
<1>8. PromotionSound BY DEF PromotionSound, DictionaryInit, NoPromotion
<1> QED BY <1>2, <1>6, <1>7, <1>8 DEF DictionaryInit, DictionaryInv

LEMMA HandlingTyped ==
  ASSUME DictionaryInv, NEW a \in Reviewers
  PROVE  /\ handling[a] \in Handling /\ handling[a].decision \in Verdict
         /\ HandlingSound(handling[a], entries)
BY DEF DictionaryInv, DictionaryTypeOK, Handling

(* A step of the administrator a to the state h.                           *)
LEMMA ReviewerStep ==
  ASSUME DictionaryInv, NEW a \in Reviewers, NEW h \in Handling,
         handling' = [handling EXCEPT ![a] = h],
         UNCHANGED <<vocabulary, refused, unresolved>>,
         entries' \subseteq Entry, IsFiniteSet(entries'), Grows(entries, entries'),
         HandlingSound(h, entries'), candidates' \subseteq candidates,
         dismissed' \subseteq Typed, decisions' \subseteq Verdict,
         decisions \subseteq decisions',
         \A s \in dismissed' \ dismissed : \E d \in decisions' : d.value = s /\ Handled(d, entries'),
         \/ entries' = entries /\ promotion' = promotion
         \/ promotion' = [promotion EXCEPT !.alone = @ /\ promotion.pc # "promote"]
  PROVE  DictionaryInv'
<1>1. promotion' \in [pc : {"idle", "load", "promote"}, todo : SUBSET Typed,
                      entries : SUBSET Entry, alone : BOOLEAN]
  <2>1. promotion \in [pc : {"idle", "load", "promote"}, todo : SUBSET Typed,
                      entries : SUBSET Entry, alone : BOOLEAN]
    BY DEF DictionaryInv, DictionaryTypeOK
  <2>2. (promotion.alone /\ promotion.pc # "promote") \in BOOLEAN OBVIOUS
  <2> QED BY <2>1, <2>2
<1>2. /\ handling'[a] = h
      /\ \A b \in Reviewers \ {a} : handling'[b] = handling[b]
      /\ handling' \in [Reviewers -> Handling]
  BY DEF DictionaryInv, DictionaryTypeOK
<1>3. DictionaryTypeOK' BY <1>1, <1>2 DEF DictionaryInv, DictionaryTypeOK
<1>4. \A b \in Reviewers : HandlingSound(handling'[b], entries')
  BY <1>2, GrowthKeeps DEF DictionaryInv
<1>5. \A c \in candidates' : c.closest # NoMake => Named(c.closest, entries')
  BY DEF DictionaryInv, Grows
<1>6. \A s \in dismissed' : \E d \in decisions' : d.value = s /\ Handled(d, entries')
  BY GrowthKeeps DEF DictionaryInv
<1>7. PromotionSound'
  <2>1. CASE entries' = entries /\ promotion' = promotion
    BY <2>1 DEF DictionaryInv, PromotionSound
  <2>2. CASE promotion' = [promotion EXCEPT !.alone = @ /\ promotion.pc # "promote"]
    <3>1. promotion'.pc = promotion.pc /\ (promotion'.alone => promotion.pc # "promote")
      BY <2>2 DEF DictionaryInv, DictionaryTypeOK
    <3> QED BY <3>1 DEF PromotionSound
  <2> QED BY <2>1, <2>2
<1> QED BY <1>3, <1>4, <1>5, <1>6, <1>7 DEF DictionaryInv

LEMMA SameEntries == Grows(entries, entries)
BY DEF Grows

LEMMA DecideKeeps ==
  ASSUME DictionaryInv, NEW a \in Reviewers, NEW candidate \in candidates,
         NEW decision \in DecisionsOn(candidate), Decide(a, candidate, decision)
  PROVE  DictionaryInv'
<1> DEFINE h == [pc |-> IF decision.kind = "noise" THEN "dismiss" ELSE "write",
                 decision |-> decision]
<1>1. /\ handling' = [handling EXCEPT ![a] = h]
      /\ UNCHANGED <<entries, vocabulary, refused, unresolved, dismissed, candidates, promotion,
                     decisions>>
  BY DEF Decide
<1>2. /\ candidate.value \in Typed /\ candidate.closest \in Spellings \cup {NoMake}
      /\ candidate.closest # NoMake => Named(candidate.closest, entries)
  BY DEF DictionaryInv, DictionaryTypeOK, Candidate
<1>3. /\ decision.kind \in {"make", "alias", "noise"} /\ decision.value = candidate.value
      /\ decision.name \in Spellings \cup {NoMake}
      /\ decision.kind = "make" => decision.name \in NewMakes
      /\ decision.kind = "alias" => decision.name = candidate.closest /\ decision.name # NoMake
      /\ decision \in Verdict
  <2>1. CASE decision \in [kind : {"noise"}, value : {candidate.value}, name : {NoMake}]
    BY <1>2, <2>1 DEF Verdict
  <2>2. CASE decision \in [kind : {"make"}, value : {candidate.value}, name : NewMakes]
    BY <1>2, <2>2 DEF Verdict, Spellings
  <2>3. CASE decision \in [kind : {"alias"}, value : {candidate.value},
                           name : {candidate.closest} \ {NoMake}]
    BY <1>2, <2>3 DEF Verdict
  <2> QED BY <2>1, <2>2, <2>3 DEF DecisionsOn
<1>4. h \in Handling BY <1>3 DEF Handling
<1>5. HandlingSound(h, entries)
  <2>1. h.pc = "write" => decision.name \in Spellings BY <1>2, <1>3 DEF Spellings
  <2> QED BY <1>2, <1>3, <2>1 DEF HandlingSound, Handled
<1> HIDE DEF h
<1>6. /\ entries' \subseteq Entry /\ IsFiniteSet(entries') /\ Grows(entries, entries')
      /\ HandlingSound(h, entries') /\ candidates' \subseteq candidates
      /\ dismissed' \subseteq Typed /\ decisions' \subseteq Verdict
      /\ decisions \subseteq decisions' /\ dismissed' \ dismissed = {}
  BY <1>1, <1>5, SameEntries DEF DictionaryInv, DictionaryTypeOK
<1> QED BY <1>1, <1>4, <1>6, ReviewerStep

LEMMA NothingHandled ==
  /\ NoHandling \in Handling
  /\ \A makes : HandlingSound(NoHandling, makes)
BY DEF NoHandling, Handling, Verdict, HandlingSound

LEMMA WriteKeeps ==
  ASSUME DictionaryInv, NEW a \in Reviewers, WriteEntry(a)
  PROVE  DictionaryInv'
<1> DEFINE decision == handling[a].decision
           on == [handling[a] EXCEPT !.pc = "dismiss"]
<1>1. /\ handling[a].pc = "write"
      /\ promotion' = [promotion EXCEPT !.alone = @ /\ promotion.pc # "promote"]
      /\ UNCHANGED <<vocabulary, refused, unresolved, dismissed, candidates, decisions>>
  BY DEF WriteEntry
<1>2. /\ decision.kind \in {"make", "alias"} /\ decision.value \in Typed
      /\ decision.name \in Spellings
      /\ decision.kind = "alias" => Named(decision.name, entries)
  BY <1>1, HandlingTyped DEF HandlingSound
<1>3. entries \subseteq Entry /\ IsFiniteSet(entries) BY DEF DictionaryInv, DictionaryTypeOK
<1>4. /\ WriteOf(decision) \subseteq Entry /\ IsFiniteSet(WriteOf(decision))
      /\ Grows(entries, WriteOf(decision)) /\ Handled(decision, WriteOf(decision))
  <2>1. CASE decision.kind = "make"
    <3> DEFINE new == [name |-> decision.name, aliases |-> {}]
    <3>1. WriteOf(decision) = entries \cup {new} BY <2>1 DEF WriteOf
    <3>2. new \in Entry BY <1>2 DEF Entry
    <3>3. IsFiniteSet(entries \cup {new}) BY <1>3, FS_AddElement
    <3>4. Grows(entries, entries \cup {new}) BY DEF Grows, Carried, Named
    <3>5. decision.name \in SpellingsOf(new) BY DEF SpellingsOf
    <3>6. Carried(decision.name, entries \cup {new}) BY <3>5 DEF Carried
    <3> HIDE DEF new
    <3> QED BY <1>3, <2>1, <3>1, <3>2, <3>3, <3>4, <3>6 DEF Handled
  <2>2. CASE decision.kind = "alias"
    <3>1. WriteOf(decision) = WithAlias(decision.name, decision.value) BY <2>2 DEF WriteOf
    <3> QED BY <1>2, <1>3, <2>2, <3>1, AliasAdded DEF Handled
  <2> QED BY <1>2, <2>1, <2>2
<1>5. on \in Handling /\ on.pc = "dismiss" /\ on.decision = decision
  BY HandlingTyped DEF Handling
<1>6. HandlingSound(on, WriteOf(decision)) BY <1>2, <1>4, <1>5 DEF HandlingSound
<1>7. /\ candidates' \subseteq candidates /\ dismissed' \ dismissed = {}
      /\ dismissed' \subseteq Typed /\ decisions' \subseteq Verdict /\ decisions \subseteq decisions'
  BY <1>1 DEF DictionaryInv, DictionaryTypeOK
<1>8. CASE UNCHANGED entries /\ handling' = [handling EXCEPT ![a] = NoHandling]
  <2>1. /\ entries' \subseteq Entry /\ IsFiniteSet(entries') /\ Grows(entries, entries')
        /\ HandlingSound(NoHandling, entries')
    BY <1>3, <1>8, SameEntries, NothingHandled
  <2> QED BY <1>1, <1>7, <1>8, <2>1, NothingHandled, ReviewerStep
<1>9. ASSUME NEW next \in {NoHandling, on}, handling' = [handling EXCEPT ![a] = next],
             entries' = WriteOf(decision)
      PROVE  DictionaryInv'
  <2> HIDE DEF on, decision
  <2>1. next \in Handling /\ HandlingSound(next, entries') BY <1>5, <1>6, <1>9, NothingHandled
  <2>2. entries' \subseteq Entry /\ IsFiniteSet(entries') /\ Grows(entries, entries')
    BY <1>4, <1>9
  <2> QED BY <1>1, <1>7, <1>9, <2>1, <2>2, ReviewerStep
<1> QED BY <1>8, <1>9 DEF WriteEntry

LEMMA DismissKeeps ==
  ASSUME DictionaryInv, NEW a \in Reviewers, Dismiss(a)
  PROVE  DictionaryInv'
<1> DEFINE decision == handling[a].decision
           h == [handling[a] EXCEPT !.pc = "audit"]
<1>1. /\ handling[a].pc = "dismiss"
      /\ dismissed' = dismissed \cup {decision.value} /\ decisions' = decisions \cup {decision}
      /\ UNCHANGED <<entries, vocabulary, refused, unresolved, candidates, promotion>>
  BY DEF Dismiss
<1>2. handling' = [handling EXCEPT ![a] = h] BY DEF Dismiss, DictionaryInv, DictionaryTypeOK
<1>3. h \in Handling /\ h.pc = "audit" BY HandlingTyped DEF Handling
<1>4. decision \in Verdict /\ decision.value \in Typed /\ Handled(decision, entries)
  BY <1>1, HandlingTyped DEF HandlingSound
<1> HIDE DEF h, decision
<1>5. HandlingSound(h, entries') BY <1>3 DEF HandlingSound
<1>6. /\ entries' \subseteq Entry /\ IsFiniteSet(entries') /\ Grows(entries, entries')
      /\ candidates' \subseteq candidates
      /\ dismissed' \subseteq Typed /\ decisions' \subseteq Verdict /\ decisions \subseteq decisions'
  BY <1>1, <1>4, SameEntries DEF DictionaryInv, DictionaryTypeOK
<1>7. \A s \in dismissed' \ dismissed : \E d \in decisions' : d.value = s /\ Handled(d, entries')
  BY <1>1, <1>4
<1> QED BY <1>1, <1>2, <1>3, <1>5, <1>6, <1>7, ReviewerStep

LEMMA AnsweredKeeps ==
  ASSUME DictionaryInv, NEW a \in Reviewers, CandidateAnswered(a) \/ RequestFails(a)
  PROVE  DictionaryInv'
<1>1. /\ handling' = [handling EXCEPT ![a] = NoHandling] /\ candidates' \subseteq candidates
      /\ UNCHANGED <<entries, vocabulary, refused, unresolved, dismissed, promotion, decisions>>
  BY DEF CandidateAnswered, RequestFails
<1>2. /\ entries' \subseteq Entry /\ IsFiniteSet(entries') /\ Grows(entries, entries')
      /\ HandlingSound(NoHandling, entries')
      /\ dismissed' \subseteq Typed /\ decisions' \subseteq Verdict
      /\ decisions \subseteq decisions' /\ dismissed' \ dismissed = {}
  BY <1>1, SameEntries, NothingHandled DEF DictionaryInv, DictionaryTypeOK
<1> QED BY <1>1, <1>2, NothingHandled, ReviewerStep

LEMMA AliasKeeps ==
  ASSUME DictionaryInv, NEW s \in Typed, PromoteAlias(s)
  PROVE  DictionaryInv'
<1> DEFINE left == promotion.todo \ {s}
<1>1. /\ promotion.pc = "promote" /\ s \in promotion.todo
      /\ promotion' = IF left = {} THEN NoPromotion ELSE [promotion EXCEPT !.todo = left]
      /\ UNCHANGED <<vocabulary, refused, unresolved, dismissed, candidates, handling, decisions>>
  BY DEF PromoteAlias
<1>2. /\ entries \subseteq Entry /\ IsFiniteSet(entries)
      /\ promotion \in [pc : {"idle", "load", "promote"}, todo : SUBSET Typed,
                         entries : SUBSET Entry, alone : BOOLEAN]
  BY DEF DictionaryInv, DictionaryTypeOK
<1>3. /\ entries' \subseteq Entry /\ IsFiniteSet(entries') /\ Grows(entries, entries')
      /\ \A t : Carried(t, entries') => t = s \/ Carried(t, entries)
  <2>1. CASE UNCHANGED entries BY <1>2, <2>1, SameEntries
  <2>2. ASSUME NEW best \in FindBestMatch(s), entries' = WithAlias(best.name, s)
        PROVE  /\ entries' \subseteq Entry /\ IsFiniteSet(entries') /\ Grows(entries, entries')
               /\ \A t : Carried(t, entries') => t = s \/ Carried(t, entries)
    <3>1. best.name \in Spellings BY <1>2 DEF FindBestMatch, Entry
    <3> QED BY <1>2, <2>2, <3>1, AliasAdded
  <2> QED BY <2>1, <2>2 DEF PromoteAlias
<1>4. promotion' \in [pc : {"idle", "load", "promote"}, todo : SUBSET Typed,
                      entries : SUBSET Entry, alone : BOOLEAN]
  BY <1>1, <1>2 DEF NoPromotion
<1>5. PromotionSound'
  <2>1. CASE left = {} BY <1>1, <2>1 DEF PromotionSound, NoPromotion
  <2>2. CASE left # {}
    <3>1. /\ promotion'.todo = left /\ promotion'.entries = promotion.entries
          /\ promotion'.alone = promotion.alone /\ promotion'.pc = "promote"
      BY <1>1, <1>2, <2>2
    <3>2. promotion.alone => \A t \in promotion.todo :
            Carried(t, entries) => Carried(t, promotion.entries)
      BY <1>1 DEF DictionaryInv, PromotionSound
    <3>3. promotion.alone => \A t \in left : Carried(t, entries') => Carried(t, promotion.entries)
      BY <1>3, <3>2
    <3> QED BY <3>1, <3>3 DEF PromotionSound
  <2> QED BY <2>1, <2>2
<1>6. DictionaryTypeOK' BY <1>1, <1>3, <1>4 DEF DictionaryInv, DictionaryTypeOK
<1>7. /\ \A a \in Reviewers : HandlingSound(handling[a], entries')
      /\ \A x \in dismissed : \E d \in decisions : d.value = x /\ Handled(d, entries')
  BY <1>3, GrowthKeeps DEF DictionaryInv
<1>8. \A c \in candidates : c.closest # NoMake => Named(c.closest, entries')
  BY <1>3 DEF DictionaryInv, Grows
<1> QED BY <1>1, <1>3, <1>5, <1>6, <1>7, <1>8 DEF DictionaryInv

LEMMA PageKeeps ==
  ASSUME DictionaryInv, OpenPage
  PROVE  DictionaryInv'
<1>1. /\ UNCHANGED <<entries, vocabulary, refused, unresolved, dismissed, handling, promotion,
                     decisions>>
      /\ candidates' \subseteq Candidate
      /\ \A c \in candidates' : c.closest \in ClosestMatch(c.value)
  BY DEF OpenPage
<1>2. \A c \in candidates' : c.closest # NoMake => Named(c.closest, entries)
  BY <1>1 DEF ClosestMatch, Named
<1>3. DictionaryTypeOK' BY <1>1 DEF DictionaryInv, DictionaryTypeOK
<1>4. PromotionSound' BY <1>1 DEF DictionaryInv, PromotionSound
<1> QED BY <1>1, <1>2, <1>3, <1>4 DEF DictionaryInv

(* Steps that count, refresh a copy, or begin a promotion.                 *)
LEMMA ReadersKeep ==
  ASSUME DictionaryInv,
         CacheExpires \/ FindCandidates \/ FindEntries \/ \E s \in Typed : RejectRow(s) \/ LogSearch(s)
  PROVE  DictionaryInv'
<1>1. UNCHANGED <<entries, dismissed, candidates, handling, decisions>>
  BY DEF CacheExpires, FindCandidates, FindEntries, RejectRow, LogSearch
<1>2. MaxOccurrences \in Nat BY DictionaryAssumption DEF MaxOccurrences
<1>3. \A count \in [Typed -> 0 .. MaxOccurrences], s \in Typed :
         Counted(count, s) \in [Typed -> 0 .. MaxOccurrences]
  BY <1>2 DEF Counted
<1>4. /\ refused' \in [Typed -> 0 .. MaxOccurrences]
      /\ unresolved' \in [Typed -> 0 .. MaxOccurrences]
  BY <1>3 DEF CacheExpires, FindCandidates, FindEntries, RejectRow, LogSearch, DictionaryInv,
              DictionaryTypeOK
<1>5. vocabulary' \subseteq Entry
  BY DEF CacheExpires, FindCandidates, FindEntries, RejectRow, LogSearch, DictionaryInv,
         DictionaryTypeOK
<1>6. /\ promotion' \in [pc : {"idle", "load", "promote"}, todo : SUBSET Typed,
                         entries : SUBSET Entry, alone : BOOLEAN]
      /\ PromotionSound'
  <2>1. promotion \in [pc : {"idle", "load", "promote"}, todo : SUBSET Typed,
                         entries : SUBSET Entry, alone : BOOLEAN] /\ entries \subseteq Entry
    BY DEF DictionaryInv, DictionaryTypeOK
  <2>2. CASE UNCHANGED promotion BY <1>1, <2>1, <2>2 DEF DictionaryInv, PromotionSound
  <2>3. CASE FindCandidates
    <3>1. promotion' = [NoPromotion EXCEPT !.pc = "load",
                          !.todo = {s \in Typed : unresolved[s] >= PROMOTE_OCCURRENCES}]
      BY <2>3 DEF FindCandidates
    <3> QED BY <3>1 DEF NoPromotion, PromotionSound
  <2>4. CASE FindEntries
    <3>1. promotion' = [promotion EXCEPT !.pc = "promote", !.entries = entries]
      BY <2>4 DEF FindEntries
    <3> QED BY <1>1, <2>1, <3>1 DEF PromotionSound
  <2> QED BY <2>2, <2>3, <2>4 DEF CacheExpires, RejectRow, LogSearch
<1>7. DictionaryTypeOK' BY <1>1, <1>4, <1>5, <1>6 DEF DictionaryInv, DictionaryTypeOK
<1> QED BY <1>1, <1>6, <1>7 DEF DictionaryInv

LEMMA DictionaryStep == DictionaryInv /\ [DictionaryNext]_dictionaryVars => DictionaryInv'
<1> SUFFICES ASSUME DictionaryInv, [DictionaryNext]_dictionaryVars PROVE DictionaryInv' OBVIOUS
<1>1. CASE UNCHANGED dictionaryVars
  BY <1>1 DEF dictionaryVars, DictionaryInv, DictionaryTypeOK, PromotionSound
<1> QED BY <1>1, ReadersKeep, PageKeeps, AliasKeeps, WriteKeeps, DismissKeeps, AnsweredKeeps,
           DecideKeeps DEF DictionaryNext

(* The similarity of a make is that of one of its spellings, the highest.  *)
LEMMA SimilarityIsHighest ==
  ASSUME NEW e \in Entry, NEW t \in Spellings
  PROVE  /\ Similarity(e, KeyOf[t]) \in 0 .. 100
         /\ \A s \in SpellingsOf(e) : KeyScore[KeyOf[t]][KeyOf[s]] <= Similarity(e, KeyOf[t])
<1> DEFINE key == KeyOf[t]
           scores == {KeyScore[key][KeyOf[s]] : s \in SpellingsOf(e)}
<1>1. SpellingsOf(e) \subseteq Spellings /\ SpellingsOf(e) # {} BY DEF SpellingsOf, Entry
<1>2. scores \subseteq 0 .. 100 /\ scores # {} BY <1>1, DictionaryAssumption
<1>3. \E x \in scores : \A y \in scores : y <= x
  <2> DEFINE short == {n \in 0 .. 100 : 100 - n \in scores}
  <2>1. short \in SUBSET Nat OBVIOUS
  <2>2. \A y \in scores : 100 - y \in short
    <3> HIDE DEF scores
    <3>1. ASSUME NEW y \in scores PROVE 100 - y \in short
      <4>1. y \in 0 .. 100 BY <1>2
      <4>2. 100 - (100 - y) = y /\ 100 - y \in 0 .. 100 BY <4>1
      <4> QED BY <4>2
    <3> QED BY <3>1
  <2>3. short # {}
    <3> HIDE DEF scores, short
    <3> QED BY <1>2, <2>2
  <2>4. PICK n \in short : \A m \in short : n <= m
    <3> HIDE DEF short
    <3> QED BY <2>1, <2>3, LeastNatural
  <2>5. n \in 0 .. 100 /\ 100 - n \in scores OBVIOUS
  <2> HIDE DEF scores, short
  <2>6. \A y \in scores : y <= 100 - n
    <3> SUFFICES ASSUME NEW y \in scores PROVE y <= 100 - n OBVIOUS
    <3>1. y \in 0 .. 100 /\ n <= 100 - y BY <1>2, <2>2, <2>4
    <3> QED BY <2>5, <3>1
  <2> QED BY <2>5, <2>6
<1>4. PICK x \in scores : \A s \in SpellingsOf(e) : KeyScore[key][KeyOf[s]] <= x BY <1>3
<1>5. /\ Similarity(e, key) \in scores
      /\ \A s \in SpellingsOf(e) : KeyScore[key][KeyOf[s]] <= Similarity(e, key)
  <2>1. Similarity(e, key) =
          CHOOSE y \in scores : \A s \in SpellingsOf(e) : KeyScore[key][KeyOf[s]] <= y
    BY DEF Similarity
  <2> HIDE DEF scores
  <2> QED BY <1>4, <2>1
<1> HIDE DEF scores
<1> QED BY <1>2, <1>5

(* Two makes that carry a key are equally similar to it: neither is clearly*)
(* the closest, nor is a third.                                            *)
LEMMA TwoClaimants ==
  ASSUME NEW makes \in SUBSET Entry, NEW t \in Spellings,
         NEW c \in Claimants(makes, KeyOf[t]), NEW d \in Claimants(makes, KeyOf[t]), c # d
  PROVE  Closest(makes, KeyOf[t]) = {}
<1>1. ASSUME NEW e \in Claimants(makes, KeyOf[t]) PROVE Similarity(e, KeyOf[t]) = 100
  <2>1. PICK s \in SpellingsOf(e) : KeyOf[s] = KeyOf[t] BY DEF Claimants
  <2>2. e \in Entry /\ s \in Spellings BY <2>1 DEF Claimants, SpellingsOf, Entry
  <2>3. KeyScore[KeyOf[t]][KeyOf[s]] = 100 BY <2>1, <2>2, DictionaryAssumption
  <2>4. /\ Similarity(e, KeyOf[t]) \in 0 .. 100
        /\ KeyScore[KeyOf[t]][KeyOf[s]] <= Similarity(e, KeyOf[t])
    BY <2>2, SimilarityIsHighest
  <2> QED BY <2>3, <2>4
<1>2. c \in makes /\ d \in makes BY DEF Claimants
<1>3. SUFFICES ASSUME NEW e \in Closest(makes, KeyOf[t]) PROVE FALSE OBVIOUS
<1>4. /\ e \in makes
      /\ \A other \in makes \ {e} : Similarity(other, KeyOf[t]) + 5 <= Similarity(e, KeyOf[t])
  BY DEF Closest
<1>5. Similarity(e, KeyOf[t]) \in 0 .. 100 BY <1>4, SimilarityIsHighest
<1>6. \E other \in makes \ {e} : Similarity(other, KeyOf[t]) = 100 BY <1>1, <1>2
<1> QED BY <1>4, <1>5, <1>6

LEMMA ServicesDoAgree ==
  ASSUME DictionaryInv
  PROVE  ServicesAgree
<1> SUFFICES ASSUME NEW t \in Typed, ~CarriedTwice(t), ~NamedAndMore(t)
             PROVE  ResolveMake(entries, t) = SearchMake(entries, t)
  BY DEF ServicesAgree
<1> DEFINE key == KeyOf[t]
           claimants == Claimants(entries, key)
           exact == {e \in entries : KeyOf[e.name] = key}
           hits == UNION {{<<e, s>> : s \in {x \in e.aliases : KeyOf[x] = key}} : e \in entries}
<1>1. /\ entries \subseteq Entry /\ IsFiniteSet(entries) /\ t \in Spellings
  BY DEF DictionaryInv, DictionaryTypeOK, Spellings
<1>2. claimants \subseteq entries /\ IsFiniteSet(claimants) /\ Cardinality(claimants) \in Nat
  BY <1>1, FS_Subset, FS_CardinalityType DEF Claimants
<1>3. exact \subseteq claimants BY DEF Claimants, SpellingsOf
<1>4. \A h : h \in hits <=> \E e \in entries : \E s \in e.aliases : KeyOf[s] = key /\ h = <<e, s>>
  OBVIOUS
<1>5. claimants = exact \cup {e \in entries : \E s \in e.aliases : KeyOf[s] = key}
  BY DEF Claimants, SpellingsOf
<1>6. \A e \in entries : \A x, y \in e.aliases : KeyOf[x] = key /\ KeyOf[y] = key => x = y
  BY <1>1 DEF CarriedTwice, Entry
<1>7. Cardinality(claimants) = 1 <=> \E e : claimants = {e} BY <1>2, FS_Singleton
<1>8. ResolveMake(entries, t) =
        IF exact # {} THEN exact
        ELSE IF Cardinality(hits) = 1 THEN {hit[1] : hit \in hits}
        ELSE IF hits # {} THEN {}
        ELSE Closest(entries, key)
  BY DEF ResolveMake
<1>9. SearchMake(entries, t) = IF Cardinality(claimants) = 1 THEN claimants ELSE Closest(entries, key)
  BY DEF SearchMake
<1>10. exact # {} => ~(Cardinality(claimants) > 1) BY DEF NamedAndMore
<1> HIDE DEF hits, exact, claimants
<1>11. CASE exact # {}
  <2>1. claimants # {} BY <1>3, <1>11
  <2>2. Cardinality(claimants) # 0 BY <1>2, <2>1, FS_EmptySet
  <2>3. Cardinality(claimants) = 1 BY <1>2, <1>10, <1>11, <2>2
  <2>4. PICK e : claimants = {e} BY <1>7, <2>3
  <2>5. exact = claimants BY <1>3, <1>11, <2>4
  <2> QED BY <1>8, <1>9, <1>11, <2>3, <2>5
<1>12. CASE exact = {} /\ claimants = {}
  <2>1. hits = {} BY <1>4, <1>5, <1>12
  <2>2. Cardinality(claimants) # 1 /\ Cardinality(hits) # 1 BY <1>12, <2>1, FS_EmptySet
  <2> QED BY <1>8, <1>9, <1>12, <2>1, <2>2
<1>13. ASSUME NEW e, exact = {}, claimants = {e}
       PROVE  ResolveMake(entries, t) = SearchMake(entries, t)
  <2>1. PICK s \in e.aliases : KeyOf[s] = key BY <1>5, <1>13
  <2>2. e \in entries BY <1>2, <1>13
  <2>3. \A h \in hits : h = <<e, s>> BY <1>4, <1>5, <1>6, <1>13, <2>1
  <2>4. hits = {<<e, s>>} BY <1>4, <2>1, <2>2, <2>3
  <2>5. Cardinality(hits) = 1 BY <2>4, FS_Singleton
  <2>6. {hit[1] : hit \in hits} = {e} BY <2>4
  <2>7. Cardinality(claimants) = 1 BY <1>7, <1>13
  <2> QED BY <1>8, <1>9, <1>13, <2>5, <2>6, <2>7
<1>14. ASSUME NEW c \in claimants, NEW d \in claimants, exact = {}, c # d
       PROVE  ResolveMake(entries, t) = SearchMake(entries, t)
  <2>1. Cardinality(claimants) # 1 BY <1>7, <1>14
  <2>2. PICK x \in c.aliases : KeyOf[x] = key BY <1>5, <1>14
  <2>3. PICK y \in d.aliases : KeyOf[y] = key BY <1>5, <1>14
  <2>4. c \in entries /\ d \in entries BY <1>2, <1>14
  <2>5. <<c, x>> \in hits /\ <<d, y>> \in hits BY <1>4, <2>2, <2>3, <2>4
  <2>6. <<c, x>> # <<d, y>> BY <1>14
  <2>7. Cardinality(hits) # 1
    <3> SUFFICES ASSUME Cardinality(hits) = 1 PROVE FALSE OBVIOUS
    <3>1. IsFiniteSet(hits)
      <4> DEFINE alias == [e \in claimants |-> CHOOSE s \in e.aliases : KeyOf[s] = key]
                 f == [e \in claimants |-> <<e, alias[e]>>]
      <4>1. \A e \in claimants : alias[e] \in e.aliases /\ KeyOf[alias[e]] = key
        BY <1>5, <1>14
      <4> HIDE DEF alias
      <4>2. \A e \in claimants : f[e] \in hits BY <1>2, <1>4, <4>1
      <4>3. \A h \in hits : \E e \in claimants : f[e] = h
        <5> SUFFICES ASSUME NEW h \in hits PROVE \E e \in claimants : f[e] = h
          OBVIOUS
        <5>1. PICK e \in entries : \E s \in e.aliases : KeyOf[s] = key /\ h = <<e, s>> BY <1>4
        <5>2. PICK s \in e.aliases : KeyOf[s] = key /\ h = <<e, s>> BY <5>1
        <5>3. e \in claimants BY <1>5, <5>2
        <5>4. alias[e] = s BY <1>6, <4>1, <5>2, <5>3
        <5>5. f[e] = h BY <5>2, <5>3, <5>4
        <5> HIDE DEF f
        <5> QED BY <5>3, <5>5
      <4>4. f \in [claimants -> hits] BY <4>2
      <4> HIDE DEF f
      <4>5. f \in Surjection(claimants, hits) BY <4>3, <4>4 DEF Surjection
      <4> QED BY <1>2, <4>5, FS_Surjection
    <3>2. PICK h : hits = {h} BY <3>1, FS_Singleton
    <3> QED BY <2>5, <2>6, <3>2
  <2>8. Closest(entries, key) = {}
    <3>1. c \in Claimants(entries, KeyOf[t]) /\ d \in Claimants(entries, KeyOf[t])
      BY <1>14 DEF claimants
    <3> QED BY <1>1, <1>14, <3>1, TwoClaimants
  <2> QED BY <1>8, <1>9, <1>14, <2>1, <2>5, <2>7, <2>8
<1>15. \/ claimants = {} \/ (\E e : claimants = {e}) \/ \E c, d \in claimants : c # d
  <2> SUFFICES ASSUME claimants # {}, ~\E c, d \in claimants : c # d
               PROVE  \E e : claimants = {e}
    OBVIOUS
  <2>1. PICK e \in claimants : TRUE OBVIOUS
  <2>2. claimants = {e} BY <2>1
  <2> QED BY <2>2
<1> QED BY <1>11, <1>12, <1>13, <1>14, <1>15

LEMMA PromotionStep ==
  ASSUME DictionaryInv, NEW s \in Typed, PromoteAlias(s), promotion.alone, entries' # entries
  PROVE  \A e \in entries : s \notin SpellingsOf(e)
<1>1. promotion.pc = "promote" /\ s \in promotion.todo BY DEF PromoteAlias
<1>2. Carried(s, entries) => Carried(s, promotion.entries) BY <1>1 DEF DictionaryInv, PromotionSound
<1>3. PICK best \in FindBestMatch(s) : TRUE BY DEF PromoteAlias
<1>4. ~Carried(s, promotion.entries) BY <1>3 DEF FindBestMatch, Carried
<1> QED BY <1>2, <1>4 DEF Carried

(* The variables of the dictionary have their types.                       *)
THEOREM DictionaryTyped == DictionarySpec => []DictionaryTypeOK
<1>1. DictionaryInv => DictionaryTypeOK BY DEF DictionaryInv
<1> QED BY <1>1, DictionaryStart, DictionaryStep, PTL DEF DictionarySpec

(* What left the review was settled, the two services resolve a spelling   *)
(* alike, and a promotion takes no spelling that a make carries.           *)
THEOREM SpellingsSettle ==
  DictionarySpec => [](HiddenIsHandled /\ ServicesAgree) /\ PromotesUnclaimed
<1>1. DictionaryInv => HiddenIsHandled BY DEF DictionaryInv, HiddenIsHandled, Handled, Carried
<1>2. DictionaryInv => ServicesAgree BY ServicesDoAgree
<1>3. DictionaryInv /\ [DictionaryNext]_dictionaryVars =>
        [\A s \in Typed :
           (PromoteAlias(s) /\ promotion.alone /\ entries' # entries)
             => \A e \in entries : s \notin SpellingsOf(e)]_dictionaryVars
  BY PromotionStep
<1> QED BY <1>1, <1>2, <1>3, DictionaryStart, DictionaryStep, PTL DEF DictionarySpec, PromotesUnclaimed

----
(* The rows of a dealer's file (FileReaders).                              *)

Rewrites(s) == s \in {"rewrite", "writing"}

(* Every column of a row has a name of its own.                            *)
NamesDiffer ==
  \A k \in DOMAIN file.rows : ~Collide(file.columns, file.rows[k] \cap DOMAIN file.columns)

ReadersTyped ==
  /\ ReadersTypeOK
  /\ file = [format |-> file.format, columns |-> file.columns, nested |-> file.nested, rows |-> file.rows]
  /\ \E n \in 0 .. MaxRows : Len(file.rows) = n /\ DOMAIN file.rows = 1 .. n
  /\ DOMAIN file.columns \subseteq Nat
  /\ runs = [r \in StoreRuns |-> runs[r]]
  /\ \A r \in StoreRuns :
       runs[r] = [step |-> runs[r].step, read |-> runs[r].read, text |-> runs[r].text, split |-> runs[r].split]
  /\ file.format = "none" => /\ file = NoFile /\ \A r \in StoreRuns : runs[r].step = "idle"

(* What a run may rely on while runs have not mixed.                       *)
RunRelies(run) ==
  /\ run.step = "rewrite" => object.encoding = "windows1252" /\ object.accents \in {"head", "cut"}
  /\ Rewrites(run.step) /\ run.read # NoObject => run.read.encoding = "windows1252" /\ run.read.extent = WholeFile
                                               /\ run.read.accents \in {"head", "cut"}
  /\ run.step = "writing" => object.encoding = "utf8"
  /\ run.step = "inspected" /\ object.encoding = "windows1252" => object.accents \in {"nowhere", "beyond"}
  /\ run.step = "split" /\ object.accents # "beyond" => run.text = "right"

NotMixed ==
  /\ object.encoding \notin {"garbled", "mangled"} /\ object.extent = WholeFile
  /\ object.partial => \E r \in StoreRuns : runs[r].step = "writing"
  /\ \A q, r \in StoreRuns : Rewrites(runs[q].step) /\ Rewrites(runs[r].step) => q = r
  /\ \A r \in StoreRuns : RunRelies(runs[r])

(* What a run has split.                                                   *)
SplitSound(run) ==
  run.step = "split" => /\ run.text # "mangled" => InPlace(run.split)
                        /\ ~mixed => run.split = AllRows

ReadersInv ==
  /\ ReadersTyped
  /\ \A r \in StoreRuns : runs[r].step \in {"inspected", "split"} => NamesDiffer
  /\ ~mixed => NotMixed
  /\ \A r \in StoreRuns : SplitSound(runs[r])

LEMMA EmptyObject == NoObject \in Objects /\ NoExtent \in Extents
BY ReadersAssumption DEF NoObject, NoExtent, Objects, Extents, Encodings, Places

LEMMA ReadersStart == ReadersInit => ReadersInv
<1> SUFFICES ASSUME ReadersInit PROVE ReadersInv OBVIOUS
<1>1. /\ file = [format |-> "none", columns |-> <<>>, nested |-> FALSE, rows |-> <<>>]
      /\ object = NoObject /\ mixed = FALSE
      /\ \A r \in StoreRuns : runs[r] = [step |-> "idle", read |-> NoObject, text |-> "none", split |-> <<>>]
      /\ runs = [r \in StoreRuns |-> runs[r]]
  BY DEF ReadersInit, NoFile, NoRun
<1>2. ReadersTyped
  <2>1. Len(file.rows) = 0 /\ DOMAIN file.rows = 1 .. 0 /\ DOMAIN file.columns \subseteq Nat /\ 0 \in 0 .. MaxRows
    BY <1>1, ReadersAssumption
  <2>2. \A r \in StoreRuns : DOMAIN runs[r].split \subseteq 1 .. MaxRows BY <1>1
  <2>4. object \in Objects /\ file.format = "none" /\ mixed = FALSE BY <1>1, EmptyObject
  <2>5. \A r \in StoreRuns : runs[r].step = "idle" /\ runs[r].read \in Objects /\ runs[r].text = "none"
    BY <1>1, EmptyObject
  <2>3. ReadersTypeOK BY <2>2, <2>4, <2>5 DEF ReadersTypeOK, RunSteps, Texts
  <2>6. \A r \in StoreRuns :
          runs[r] = [step |-> runs[r].step, read |-> runs[r].read, text |-> runs[r].text, split |-> runs[r].split]
    BY <1>1
  <2> QED BY <1>1, <2>1, <2>3, <2>5, <2>6 DEF ReadersTyped, NoFile
<1>3. object.encoding = "none" /\ object.partial = FALSE /\ object.extent = WholeFile
  BY <1>1 DEF NoObject, NoExtent, WholeFile
<1>4. NotMixed BY <1>1, <1>3 DEF NotMixed, RunRelies, Rewrites
<1> QED BY <1>1, <1>2, <1>4 DEF ReadersInv, SplitSound

(* With no two columns of a name, a record has all its cells.              *)
LEMMA RecordIsCells ==
  ASSUME ReadersTyped, NamesDiffer, NEW k \in DOMAIN file.rows
  PROVE  Record(k) = CellsOf(k)
<1> DEFINE present == file.rows[k] \cap DOMAIN file.columns
           named == {i \in present : normalizeHeader(file.columns[i]) # ""}
           last == {j \in named : \A n \in named : normalizeHeader(file.columns[n]) = normalizeHeader(file.columns[j]) => n <= j}
<1>1. \A j, n \in named : normalizeHeader(file.columns[n]) = normalizeHeader(file.columns[j]) => n = j
  BY DEF NamesDiffer, Collide
<1>2. named \subseteq Nat BY DEF ReadersTyped
<1> HIDE DEF present, named
<1>6. \A j, n \in named : normalizeHeader(file.columns[n]) = normalizeHeader(file.columns[j]) => n <= j
  <2> TAKE j, n \in named
  <2> HAVE normalizeHeader(file.columns[n]) = normalizeHeader(file.columns[j])
  <2>1. n = j BY <1>1
  <2> QED BY <1>2, <2>1
<1>3. last = named BY <1>6
<1>4. Record(k) = {<<normalizeHeader(file.columns[i]), k, i>> : i \in last} BY DEF Record, present, named
<1>5. CellsOf(k) = {<<normalizeHeader(file.columns[i]), k, i>> : i \in named} BY DEF CellsOf, present, named
<1> QED BY <1>3, <1>4, <1>5

(* A run goes from one step to another, and the file stays.                *)
LEMMA GoesTyped ==
  ASSUME ReadersInv, NEW r \in StoreRuns, NEW run, Goes(r, run), UNCHANGED file, file.format # "none",
         object' \in Objects, mixed' \in BOOLEAN,
         run = [step |-> run.step, read |-> run.read, text |-> run.text, split |-> run.split],
         run.step \in RunSteps, run.read \in Objects, run.text \in Texts,
         DOMAIN run.split \subseteq 1 .. MaxRows
  PROVE  /\ ReadersTyped'
         /\ runs'[r] = run /\ \A q \in StoreRuns \ {r} : runs'[q] = runs[q]
<1>1. runs'[r] = run /\ \A q \in StoreRuns \ {r} : runs'[q] = runs[q] BY DEF Goes, ReadersInv, ReadersTyped
<1>2. runs' = [q \in StoreRuns |-> runs'[q]] BY DEF Goes, ReadersInv, ReadersTyped
<1>3. \A q \in StoreRuns : runs'[q] = run \/ runs'[q] = runs[q] BY <1>1
<1>4. ReadersTypeOK'
  <2>1. file'.format \in {"none", "csv", "json"} BY DEF ReadersInv, ReadersTyped, ReadersTypeOK
  <2>2. \A q \in StoreRuns : /\ runs[q].step \in RunSteps /\ runs[q].read \in Objects /\ runs[q].text \in Texts
                             /\ DOMAIN runs[q].split \subseteq 1 .. MaxRows
    BY DEF ReadersInv, ReadersTyped, ReadersTypeOK
  <2>3. \A q \in StoreRuns : /\ runs'[q].step \in RunSteps /\ runs'[q].read \in Objects /\ runs'[q].text \in Texts
                             /\ DOMAIN runs'[q].split \subseteq 1 .. MaxRows
    BY <1>3, <2>2
  <2>4. object' \in Objects' BY DEF Objects, Extents, Encodings, Places
  <2>5. \A q \in StoreRuns : (runs[q].step \in RunSteps /\ runs[q].read \in Objects /\ runs[q].text \in Texts)'
    BY <2>3 DEF Objects, Extents, Encodings, Places, RunSteps, Texts
  <2> QED BY <2>1, <2>3, <2>4, <2>5 DEF ReadersTypeOK
<1>5. \A q \in StoreRuns :
        runs'[q] = [step |-> runs'[q].step, read |-> runs'[q].read, text |-> runs'[q].text, split |-> runs'[q].split]
  BY <1>3 DEF ReadersInv, ReadersTyped
<1>6. ReadersTyped' BY <1>2, <1>4, <1>5 DEF ReadersInv, ReadersTyped
<1> QED BY <1>1, <1>6

LEMMA UploadKeeps == ASSUME ReadersInv, Upload PROVE ReadersInv'
<1>1. file = NoFile /\ file.format = "none" /\ UNCHANGED <<runs, mixed>> BY DEF Upload, NoFile
<1>2. \A r \in StoreRuns : runs[r].step = "idle" BY <1>1 DEF ReadersInv, ReadersTyped
<1>3. PICK t \in Tables, format \in {"csv", "json"}, nested \in BOOLEAN :
        file' = [format |-> format, columns |-> t.columns, nested |-> nested, rows |-> t.rows]
  BY DEF Upload
<1>4. PICK encoding \in {"utf8", "windows1252"}, accents \in Places :
        object' = [encoding |-> encoding, accents |-> accents, extent |-> WholeFile', partial |-> FALSE]
  BY DEF Upload
<1>5. PICK columns \in UNION {[1 .. n -> RawHeaders] : n \in 0 .. MaxColumns} :
        t \in {[columns |-> columns, rows |-> rs] :
                 rs \in UNION {[1 .. n -> RowShapes(columns)] : n \in 0 .. MaxRows}}
  BY DEF Tables
<1>6. PICK n \in 0 .. MaxRows, m \in 0 .. MaxColumns :
        /\ t.rows \in [1 .. n -> RowShapes(columns)] /\ columns \in [1 .. m -> RawHeaders]
        /\ t.columns = columns
  BY <1>5
<1>7. /\ file'.format \in {"csv", "json"} /\ DOMAIN file'.rows = 1 .. n /\ Len(file'.rows) = n
      /\ DOMAIN file'.columns \subseteq Nat
  BY <1>3, <1>6, ReadersAssumption
<1>8. file' = [format |-> file'.format, columns |-> file'.columns, nested |-> file'.nested, rows |-> file'.rows]
  BY <1>3
<1>12. WholeFile' = [rows |-> n, torn |-> FALSE] BY <1>7 DEF WholeFile
<1>13. WholeFile' \in Extents BY <1>12 DEF Extents
<1>14. /\ object'.encoding \in {"utf8", "windows1252"} /\ object'.accents \in Places /\ object'.partial = FALSE
       /\ object'.extent = WholeFile' /\ object' \in Objects
  BY <1>4, <1>13 DEF Objects, Encodings
<1>9. ReadersTypeOK'
  <2>1. object' \in Objects' BY <1>14 DEF Objects, Extents, Encodings, Places
  <2>2. \A r \in StoreRuns : (/\ runs[r].step \in RunSteps /\ runs[r].read \in Objects /\ runs[r].text \in Texts
                              /\ DOMAIN runs[r].split \subseteq 1 .. MaxRows)'
    BY <1>1 DEF ReadersInv, ReadersTyped, ReadersTypeOK, Objects, Extents, Encodings, Places, RunSteps, Texts
  <2>3. file'.format \in {"none", "csv", "json"} /\ mixed' \in BOOLEAN
    BY <1>1, <1>7 DEF ReadersInv, ReadersTyped, ReadersTypeOK
  <2> QED BY <2>1, <2>2, <2>3 DEF ReadersTypeOK
<1>10. ReadersTyped' BY <1>1, <1>7, <1>8, <1>9 DEF ReadersInv, ReadersTyped
<1>11. NotMixed' BY <1>1, <1>2, <1>14 DEF NotMixed, RunRelies, Rewrites
<1> QED BY <1>1, <1>2, <1>10, <1>11 DEF ReadersInv, SplitSound

LEMMA NamesStay ==
  UNCHANGED file => /\ (NamesDiffer' <=> NamesDiffer) /\ WholeFile' = WholeFile /\ AllRows' = AllRows
                    /\ \A split : InPlace(split) => InPlace(split)'
<1> SUFFICES ASSUME UNCHANGED file
             PROVE  /\ (NamesDiffer' <=> NamesDiffer) /\ WholeFile' = WholeFile /\ AllRows' = AllRows
                    /\ \A split : InPlace(split) => InPlace(split)'
  OBVIOUS
<1>1. (NamesDiffer' <=> NamesDiffer) /\ WholeFile' = WholeFile BY DEF NamesDiffer, WholeFile, Collide
<1>2. AllRows' = AllRows BY DEF AllRows, CellsOf
<1>3. \A split : InPlace(split) => InPlace(split)' BY <1>2 DEF InPlace
<1> QED BY <1>1, <1>2, <1>3

(* What else than its type there is to show of a step of a run.            *)
LEMMA RunKeeps ==
  ASSUME ReadersInv, ReadersTyped', NEW r \in StoreRuns, NEW run, UNCHANGED file,
         runs'[r] = run, \A q \in StoreRuns \ {r} : runs'[q] = runs[q], ~mixed' => ~mixed,
         run.step \in {"inspected", "split"} => NamesDiffer,
         ~mixed' => NotMixed',
         run.step = "split" => /\ run.text # "mangled" => InPlace(run.split)
                               /\ ~mixed' => run.split = AllRows
  PROVE  ReadersInv'
<1>1. \A q \in StoreRuns : runs'[q].step \in {"inspected", "split"} => NamesDiffer' BY NamesStay DEF ReadersInv
<1>2. AllRows' = AllRows /\ \A split : InPlace(split) => InPlace(split)' BY NamesStay
<1>3. \A q \in StoreRuns : runs'[q].step = "split" =>
        /\ runs'[q].text # "mangled" => InPlace(runs'[q].split)
        /\ ~mixed' => runs'[q].split = AllRows
  BY DEF ReadersInv, SplitSound
<1>4. \A q \in StoreRuns : runs'[q].step = "split" =>
        /\ runs'[q].text # "mangled" => InPlace(runs[q].split)'
        /\ ~mixed' => runs'[q].split = AllRows'
  <2> TAKE q \in StoreRuns
  <2> HAVE runs'[q].step = "split"
  <2>1. \A split : InPlace(split) => InPlace(split)' BY <1>2
  <2> DEFINE mine == runs'[q].split
  <2>2. runs'[q].text # "mangled" => InPlace(mine) BY <1>3
  <2>3. runs'[q].text # "mangled" => InPlace(runs[q].split)' BY <1>2, <2>2 DEF InPlace
  <2> QED BY <1>2, <1>3, <2>3
<1>5. \A q \in StoreRuns : SplitSound(runs[q])' BY <1>4 DEF SplitSound
<1> QED BY <1>1, <1>5 DEF ReadersInv

LEMMA ObjectTyped ==
  ReadersInv => /\ object \in Objects /\ mixed \in BOOLEAN
                /\ \A r \in StoreRuns : runs[r].step # "idle" => file.format # "none"
BY DEF ReadersInv, ReadersTyped, ReadersTypeOK

LEMMA RunTyped ==
  ASSUME ReadersInv, NEW r \in StoreRuns
  PROVE  /\ runs[r] = [step |-> runs[r].step, read |-> runs[r].read, text |-> runs[r].text, split |-> runs[r].split]
         /\ runs[r].step \in RunSteps /\ runs[r].read \in Objects /\ runs[r].text \in Texts
         /\ DOMAIN runs[r].split \subseteq 1 .. MaxRows
BY DEF ReadersInv, ReadersTyped, ReadersTypeOK

(* A run's record with one step of it changed.                             *)
LEMMA RunChanged ==
  ASSUME ReadersInv, NEW r \in StoreRuns
  PROVE  /\ \A o : [runs[r] EXCEPT !.read = o]
                    = [step |-> runs[r].step, read |-> o, text |-> runs[r].text, split |-> runs[r].split]
         /\ \A s : [runs[r] EXCEPT !.step = s]
                    = [step |-> s, read |-> runs[r].read, text |-> runs[r].text, split |-> runs[r].split]
<1> DEFINE run == runs[r]
<1>1. run = [step |-> run.step, read |-> run.read, text |-> run.text, split |-> run.split] BY RunTyped
<1> HIDE DEF run
<1>2. \A o : [run EXCEPT !.read = o] = [step |-> run.step, read |-> o, text |-> run.text, split |-> run.split]
  BY <1>1
<1>3. \A s : [run EXCEPT !.step = s] = [step |-> s, read |-> run.read, text |-> run.text, split |-> run.split]
  BY <1>1
<1> QED BY <1>2, <1>3 DEF run

(* An object of which less, or more, is there.                             *)
LEMMA ObjectChanged ==
  ASSUME NEW o \in Objects, NEW e \in Extents, NEW p \in BOOLEAN
  PROVE  /\ [o EXCEPT !.extent = e, !.partial = p]
             = [encoding |-> o.encoding, accents |-> o.accents, extent |-> e, partial |-> p]
         /\ [o EXCEPT !.partial = p]
             = [encoding |-> o.encoding, accents |-> o.accents, extent |-> o.extent, partial |-> p]
         /\ [encoding |-> o.encoding, accents |-> o.accents, extent |-> e, partial |-> p] \in Objects
         /\ o.extent \in Extents
<1>2. o.encoding \in Encodings \cup {"none"} /\ o.accents \in Places /\ o.extent \in Extents BY DEF Objects
<1>1. PICK a, b, c, d : o = [encoding |-> a, accents |-> b, extent |-> c, partial |-> d]
  BY DEF Objects
<1>6. o.encoding = a /\ o.accents = b /\ o.extent = c BY <1>1
<1>3. [o EXCEPT !.extent = e, !.partial = p]
        = [encoding |-> o.encoding, accents |-> o.accents, extent |-> e, partial |-> p]
  <2>1. [[encoding |-> a, accents |-> b, extent |-> c, partial |-> d] EXCEPT !.extent = e]
          = [encoding |-> a, accents |-> b, extent |-> e, partial |-> d]
    OBVIOUS
  <2>2. [[encoding |-> a, accents |-> b, extent |-> e, partial |-> d] EXCEPT !.partial = p]
          = [encoding |-> a, accents |-> b, extent |-> e, partial |-> p]
    OBVIOUS
  <2> QED BY <1>1, <1>6, <2>1, <2>2, Zenon
<1>4. [o EXCEPT !.partial = p]
        = [encoding |-> o.encoding, accents |-> o.accents, extent |-> o.extent, partial |-> p]
  <2>1. [[encoding |-> a, accents |-> b, extent |-> c, partial |-> d] EXCEPT !.partial = p]
          = [encoding |-> a, accents |-> b, extent |-> c, partial |-> p]
    OBVIOUS
  <2> QED BY <1>1, <1>6, <2>1, Zenon
<1>5. [encoding |-> o.encoding, accents |-> o.accents, extent |-> e, partial |-> p] \in Objects BY <1>2 DEF Objects
<1> QED BY <1>2, <1>3, <1>4, <1>5

LEMMA ReadsTyped == ReadersInv => Reads \subseteq Extents /\ Beginnings(object.extent) \subseteq Extents
BY ObjectTyped DEF Reads, Beginnings, Objects

LEMMA InspectCsvKeeps == ASSUME ReadersInv, NEW r \in StoreRuns, InspectCsv(r) PROVE ReadersInv'
<1>1. PICK header \in SeesHeader, utf8 \in DecodesHead :
        Goes(r, [NoRun EXCEPT !.step = IF ~header THEN "rejected"
                                       ELSE IF ~utf8 THEN "rewrite"
                                       ELSE IF HeaderIsGood THEN "inspected" ELSE "rejected"])
  BY DEF InspectCsv
<1> DEFINE step0 == IF ~header THEN "rejected" ELSE IF ~utf8 THEN "rewrite"
                    ELSE IF HeaderIsGood THEN "inspected" ELSE "rejected"
           run == [step |-> step0, read |-> NoObject, text |-> "none", split |-> <<>>]
<1>2. Goes(r, run) BY <1>1 DEF NoRun
<1>3. /\ file.format = "csv" /\ UNCHANGED <<file, object>>
      /\ mixed' = (mixed \/ Rewriting(r) \/ (object.accents = "cut" /\ object.encoding # "windows1252"))
  BY DEF InspectCsv
<1> HIDE DEF step0
<1>4. /\ run = [step |-> run.step, read |-> run.read, text |-> run.text, split |-> run.split]
      /\ run.step \in {"rewrite", "inspected", "rejected"} /\ DOMAIN run.split \subseteq 1 .. MaxRows
      /\ run.read = NoObject /\ run.text = "none"
  BY DEF step0
<1>5. run.step = "inspected" => utf8 /\ HeaderIsGood BY DEF step0
<1>6. run.step = "rewrite" => ~utf8 BY DEF step0
<1> HIDE DEF run
<1>10. mixed' \in BOOLEAN BY <1>3
<1>11. run.step \in RunSteps /\ run.read \in Objects /\ run.text \in Texts
  BY <1>4, EmptyObject DEF RunSteps, Texts
<1>7. /\ ReadersTyped' /\ runs'[r] = run /\ \A q \in StoreRuns \ {r} : runs'[q] = runs[q]
  BY <1>2, <1>3, <1>4, <1>10, <1>11, GoesTyped, ObjectTyped
<1>8. run.step \in {"inspected", "split"} => NamesDiffer
  BY <1>4, <1>5 DEF HeaderIsGood, NamesDiffer, Collide
<1>9. ~mixed' => NotMixed'
  <2> SUFFICES ASSUME ~mixed' PROVE NotMixed' OBVIOUS
  <2>1. NotMixed /\ ~Rewriting(r) /\ ~(object.accents = "cut" /\ object.encoding # "windows1252")
    BY <1>3 DEF ReadersInv
  <2>2. \A q \in StoreRuns \ {r} : ~Rewrites(runs[q].step) BY <2>1 DEF Rewriting, Rewrites
  <2>4. runs[r].step = "idle" BY DEF InspectCsv
  <2>5. ~object.partial BY <2>1, <2>2, <2>4 DEF NotMixed, Rewrites
  <2>6. utf8 = HeadIsUtf8 BY <1>1, <2>1, <2>5 DEF DecodesHead, Short, NotMixed
  <2>7. object.accents \in Places BY ObjectTyped DEF Objects
  <2>3. RunRelies(run)
    BY <1>4, <1>5, <1>6, <2>1, <2>6, <2>7 DEF RunRelies, Rewrites, HeadIsUtf8, Places, NotMixed
  <2>8. \A q \in StoreRuns : RunRelies(runs'[q]) BY <1>7, <2>1, <2>3 DEF NotMixed
  <2>9. WholeFile' = WholeFile /\ UNCHANGED object BY <1>3, NamesStay
  <2>10. \A q \in StoreRuns : RunRelies(runs[q])' BY <2>8, <2>9 DEF RunRelies
  <2> QED BY <1>7, <2>1, <2>2, <2>5, <2>9, <2>10 DEF NotMixed
<1> QED BY <1>3, <1>4, <1>7, <1>8, <1>9, RunKeeps

LEMMA InspectJsonKeeps == ASSUME ReadersInv, NEW r \in StoreRuns, InspectJson(r) PROVE ReadersInv'
<1>1. PICK good \in BOOLEAN :
        /\ Goes(r, [NoRun EXCEPT !.step = IF good THEN "inspected" ELSE "rejected"])
        /\ good => /\ object.encoding = "utf8" \/ object.accents = "nowhere"
                   /\ \A k \in DOMAIN file.rows : ~Collide(file.columns, file.rows[k] \cap DOMAIN file.columns)
  BY DEF InspectJson
<1> DEFINE run == [step |-> IF good THEN "inspected" ELSE "rejected", read |-> NoObject, text |-> "none",
                   split |-> <<>>]
<1>2. Goes(r, run) BY <1>1 DEF NoRun
<1>3. file.format = "json" /\ UNCHANGED <<file, object, mixed>> /\ runs[r].step = "idle" BY DEF InspectJson
<1>4. /\ run = [step |-> run.step, read |-> run.read, text |-> run.text, split |-> run.split]
      /\ run.step \in {"inspected", "rejected"} /\ DOMAIN run.split \subseteq 1 .. MaxRows
      /\ run.read = NoObject /\ run.text = "none" /\ (run.step = "inspected" => good)
  OBVIOUS
<1> HIDE DEF run
<1>8. run.step \in RunSteps /\ run.read \in Objects /\ run.text \in Texts
  BY <1>4, EmptyObject DEF RunSteps, Texts
<1>5. /\ ReadersTyped' /\ runs'[r] = run /\ \A q \in StoreRuns \ {r} : runs'[q] = runs[q]
  BY <1>2, <1>3, <1>4, <1>8, GoesTyped, ObjectTyped
<1>6. run.step \in {"inspected", "split"} => NamesDiffer BY <1>1, <1>4 DEF NamesDiffer
<1>7. ~mixed' => NotMixed'
  <2> SUFFICES ASSUME ~mixed' PROVE NotMixed' OBVIOUS
  <2>1. NotMixed BY <1>3 DEF ReadersInv
  <2>2. RunRelies(run) BY <1>1, <1>4 DEF RunRelies, Rewrites
  <2>3. WholeFile' = WholeFile BY <1>3, NamesStay
  <2>4. \A q \in StoreRuns : RunRelies(runs'[q]) BY <1>5, <2>1, <2>2 DEF NotMixed
  <2>5. \A q \in StoreRuns : RunRelies(runs[q])' BY <1>3, <2>3, <2>4 DEF RunRelies
  <2> QED BY <1>3, <1>4, <1>5, <2>1, <2>3, <2>5 DEF NotMixed, Rewrites
<1> QED BY <1>3, <1>4, <1>5, <1>6, <1>7, RunKeeps

LEMMA ReencodeReadKeeps == ASSUME ReadersInv, NEW r \in StoreRuns, ReencodeRead(r) PROVE ReadersInv'
<1>1. /\ runs[r].step = "rewrite" /\ UNCHANGED <<file, object>> /\ mixed' = (mixed \/ Rewriting(r))
  BY DEF ReencodeRead
<1>7. PICK e \in Reads : Goes(r, [runs[r] EXCEPT !.read = [object EXCEPT !.extent = e, !.partial = FALSE]])
  BY DEF ReencodeRead
<1> DEFINE copy == [encoding |-> object.encoding, accents |-> object.accents, extent |-> e, partial |-> FALSE]
           run == [step |-> "rewrite", read |-> copy, text |-> runs[r].text, split |-> runs[r].split]
<1>8. e \in Extents /\ object \in Objects BY ReadsTyped, ObjectTyped
<1>9. [object EXCEPT !.extent = e, !.partial = FALSE] = copy /\ copy \in Objects BY <1>8, ObjectChanged
<1>12. Goes(r, [runs[r] EXCEPT !.read = copy]) BY <1>7, <1>9
<1>13. [runs[r] EXCEPT !.read = copy]
         = [step |-> runs[r].step, read |-> copy, text |-> runs[r].text, split |-> runs[r].split]
  BY RunChanged, Zenon
<1>2. Goes(r, run) BY <1>1, <1>12, <1>13
<1>10. copy.encoding = object.encoding /\ copy.accents = object.accents /\ copy.extent = e OBVIOUS
<1> HIDE DEF copy
<1>3. /\ run = [step |-> run.step, read |-> run.read, text |-> run.text, split |-> run.split]
      /\ run.step = "rewrite" /\ DOMAIN run.split \subseteq 1 .. MaxRows
      /\ run.read = copy /\ run.text = runs[r].text
  BY RunTyped
<1> HIDE DEF run
<1>4. mixed' \in BOOLEAN /\ (~mixed' => ~mixed) BY <1>1
<1>11. run.step \in RunSteps /\ run.read \in Objects /\ run.text \in Texts BY <1>3, <1>9, RunTyped DEF RunSteps
<1>5. /\ ReadersTyped' /\ runs'[r] = run /\ \A q \in StoreRuns \ {r} : runs'[q] = runs[q]
  BY <1>1, <1>2, <1>3, <1>4, <1>11, GoesTyped, ObjectTyped
<1>6. ~mixed' => NotMixed'
  <2> SUFFICES ASSUME ~mixed' PROVE NotMixed' OBVIOUS
  <2>1. NotMixed /\ ~Rewriting(r) BY <1>1, <1>4 DEF ReadersInv
  <2>6. ~object.partial BY <1>1, <2>1 DEF NotMixed, Rewriting
  <2>7. e = WholeFile BY <1>7, <2>1, <2>6 DEF Reads, NotMixed
  <2>2. RunRelies(run) BY <1>1, <1>3, <1>10, <2>1, <2>7 DEF RunRelies, Rewrites, NotMixed
  <2>3. WholeFile' = WholeFile BY <1>1, NamesStay
  <2>4. \A q \in StoreRuns : RunRelies(runs'[q]) BY <1>5, <2>1, <2>2 DEF NotMixed
  <2>5. \A q \in StoreRuns : RunRelies(runs[q])' BY <1>1, <2>3, <2>4 DEF RunRelies
  <2> QED BY <1>1, <1>3, <1>5, <2>1, <2>3, <2>5, <2>6 DEF NotMixed, Rewrites
<1> QED BY <1>1, <1>3, <1>4, <1>5, <1>6, RunKeeps

LEMMA ReencodeBeginKeeps == ASSUME ReadersInv, NEW r \in StoreRuns, ReencodeBegin(r) PROVE ReadersInv'
<1> DEFINE run == [step |-> "writing", read |-> runs[r].read, text |-> runs[r].text, split |-> runs[r].split]
<1>1. /\ runs[r].step = "rewrite" /\ runs[r].read # NoObject /\ UNCHANGED <<file, mixed>>
      /\ Goes(r, [runs[r] EXCEPT !.step = "writing"])
  BY DEF ReencodeBegin
<1>7. PICK place \in Shifted(runs[r].read.accents),
           encoding \in {Reencoded(runs[r].read.encoding)} \cup IF Writers(r) = {} THEN {} ELSE {"mangled"} :
        object' = [encoding |-> encoding, accents |-> place, extent |-> runs[r].read.extent, partial |-> TRUE]
  BY DEF ReencodeBegin
<1>2. Goes(r, run) BY <1>1, RunChanged, Zenon
<1>3. /\ run = [step |-> run.step, read |-> run.read, text |-> run.text, split |-> run.split]
      /\ run.step = "writing" /\ DOMAIN run.split \subseteq 1 .. MaxRows
      /\ run.read = runs[r].read /\ run.text = runs[r].text
  BY RunTyped
<1> HIDE DEF run
<1>8. runs[r].read \in Objects BY RunTyped
<1>9. runs[r].read.extent \in Extents /\ runs[r].read.accents \in Places BY <1>8 DEF Objects
<1>10. place \in Places BY <1>9 DEF Shifted, Places
<1>11. encoding \in Encodings BY DEF Reencoded, Encodings
<1>12. object' \in Objects BY <1>7, <1>9, <1>10, <1>11 DEF Objects
<1>13. run.step \in RunSteps /\ run.read \in Objects /\ run.text \in Texts BY <1>3, RunTyped DEF RunSteps
<1>5. /\ ReadersTyped' /\ runs'[r] = run /\ \A q \in StoreRuns \ {r} : runs'[q] = runs[q]
  BY <1>1, <1>2, <1>3, <1>12, <1>13, GoesTyped, ObjectTyped
<1>6. ~mixed' => NotMixed'
  <2> SUFFICES ASSUME ~mixed' PROVE NotMixed' OBVIOUS
  <2>1. NotMixed BY <1>1 DEF ReadersInv
  <2>2. \A q \in StoreRuns \ {r} : ~Rewrites(runs[q].step) BY <1>1, <2>1 DEF NotMixed, Rewrites
  <2>3. /\ runs[r].read.encoding = "windows1252" /\ runs[r].read.extent = WholeFile
        /\ runs[r].read.accents \in {"head", "cut"} /\ object.accents \in {"head", "cut"}
    BY <1>1, <2>1 DEF NotMixed, RunRelies, Rewrites
  <2>4. Writers(r) = {} BY <2>2 DEF Writers, Rewrites
  <2>5. encoding = "utf8" BY <1>7, <2>3, <2>4 DEF Reencoded
  <2>6. object'.encoding = "utf8" /\ object'.extent = WholeFile BY <1>7, <2>3, <2>5
  <2>7. WholeFile' = WholeFile BY <1>1, NamesStay
  <2>8. \A q \in StoreRuns : RunRelies(runs[q])'
    <3> TAKE q \in StoreRuns
    <3>1. CASE q = r BY <1>3, <1>5, <2>3, <2>6, <2>7, <3>1 DEF RunRelies, Rewrites
    <3>2. CASE q # r
      <4>1. runs'[q] = runs[q] /\ ~Rewrites(runs[q].step) BY <1>5, <2>2, <3>2
      <4>2. runs[q].step = "split" => runs[q].text = "right" BY <2>1, <2>3 DEF NotMixed, RunRelies
      <4> QED BY <2>6, <4>1, <4>2 DEF RunRelies, Rewrites
    <3> QED BY <3>1, <3>2
  <2>9. \E q \in StoreRuns : runs'[q].step = "writing" BY <1>3, <1>5
  <2>10. \A q \in StoreRuns \ {r} : ~Rewrites(runs'[q].step) BY <1>5, <2>2
  <2> QED BY <2>6, <2>7, <2>8, <2>9, <2>10 DEF NotMixed
<1> QED BY <1>1, <1>3, <1>5, <1>6, RunKeeps

LEMMA ReencodePutKeeps == ASSUME ReadersInv, NEW r \in StoreRuns, ReencodePut(r) PROVE ReadersInv'
<1> DEFINE run == [step |-> IF HeaderIsGood THEN "inspected" ELSE "rejected", read |-> NoObject, text |-> "none",
                   split |-> <<>>]
           busy == Writers(r) # {}
<1>1. /\ runs[r].step = "writing" /\ UNCHANGED <<file, mixed>>
      /\ Goes(r, [NoRun EXCEPT !.step = IF HeaderIsGood THEN "inspected" ELSE "rejected"])
      /\ object' = [object EXCEPT !.partial = busy]
  BY DEF ReencodePut
<1>3. Goes(r, run) BY <1>1 DEF NoRun
<1>4. /\ run = [step |-> run.step, read |-> run.read, text |-> run.text, split |-> run.split]
      /\ run.step \in {"inspected", "rejected"} /\ DOMAIN run.split \subseteq 1 .. MaxRows
      /\ run.read = NoObject /\ run.text = "none" /\ (run.step = "inspected" => HeaderIsGood)
  OBVIOUS
<1> HIDE DEF run
<1>5. busy \in BOOLEAN OBVIOUS
<1> HIDE DEF busy
<1>6. /\ object' \in Objects /\ object'.encoding = object.encoding /\ object'.accents = object.accents
      /\ object'.extent = object.extent /\ object'.partial = busy
  <2>1. object \in Objects BY ObjectTyped
  <2>2. object' \in Objects BY <1>1, <1>5, <2>1 DEF Objects
  <2>3. /\ object'.encoding = object.encoding /\ object'.accents = object.accents
        /\ object'.extent = object.extent /\ object'.partial = busy
    BY <1>1, <2>1 DEF Objects
  <2> QED BY <2>2, <2>3
<1>10. run.step \in RunSteps /\ run.read \in Objects /\ run.text \in Texts
  BY <1>4, EmptyObject DEF RunSteps, Texts
<1>7. /\ ReadersTyped' /\ runs'[r] = run /\ \A q \in StoreRuns \ {r} : runs'[q] = runs[q]
  BY <1>1, <1>3, <1>4, <1>6, <1>10, GoesTyped, ObjectTyped
<1>8. run.step \in {"inspected", "split"} => NamesDiffer BY <1>4 DEF HeaderIsGood, NamesDiffer, Collide
<1>9. ~mixed' => NotMixed'
  <2> SUFFICES ASSUME ~mixed' PROVE NotMixed' OBVIOUS
  <2>1. NotMixed BY <1>1 DEF ReadersInv
  <2>2. \A q \in StoreRuns \ {r} : ~Rewrites(runs[q].step) BY <1>1, <2>1 DEF NotMixed, Rewrites
  <2>3. ~object'.partial BY <1>6, <2>2 DEF busy, Writers, Rewrites
  <2>4. WholeFile' = WholeFile BY <1>1, NamesStay
  <2>5. ~(object.encoding = "windows1252" /\ run.step = "inspected")
    <3>1. object.encoding = "utf8" BY <2>1, <1>1 DEF NotMixed, RunRelies
    <3> QED BY <3>1
  <2>6. \A q \in StoreRuns : RunRelies(runs'[q])
    BY <1>4, <1>7, <2>1, <2>5 DEF NotMixed, RunRelies, Rewrites
  <2>7. \A q \in StoreRuns : RunRelies(runs[q])' BY <1>6, <2>4, <2>6 DEF RunRelies
  <2> QED BY <1>4, <1>6, <1>7, <2>1, <2>2, <2>3, <2>4, <2>7 DEF NotMixed, Rewrites
<1> QED BY <1>1, <1>4, <1>7, <1>8, <1>9, RunKeeps

(* The rows that are read of a part of the file are its own.               *)
LEMMA SplitInPlace ==
  ASSUME ReadersTyped, NamesDiffer, NEW e \in Extents, NEW last \in Torn(e)
  PROVE  /\ InPlace(SplitOf(e, last)) /\ DOMAIN SplitOf(e, last) \subseteq 1 .. MaxRows
         /\ e = WholeFile => SplitOf(e, last) = AllRows
<1>1. PICK all \in 0 .. MaxRows : Len(file.rows) = all /\ DOMAIN file.rows = 1 .. all BY DEF ReadersTyped
<1>2. e.rows \in 0 .. MaxRows /\ e.torn \in BOOLEAN BY DEF Extents
<1> DEFINE Cells(k) == IF k <= e.rows THEN Record(k) ELSE last
           kept == {row \in DOMAIN file.rows \cap 1 .. (e.rows + 1) : Cells(row) # {}}
<1>3. SplitOf(e, last) = [k \in kept |-> Cells(k)] BY DEF SplitOf
<1>4. \A k \in DOMAIN file.rows : Record(k) = CellsOf(k) BY RecordIsCells
<1>5. last \subseteq Record(e.rows + 1) \/ last = {} BY DEF Torn
<1>6. \A k \in DOMAIN file.rows \cap 1 .. (e.rows + 1) : k <= e.rows \/ k = e.rows + 1 BY <1>1, <1>2, ReadersAssumption
<1>7. \A k \in kept : Cells(k) \subseteq CellsOf(k) /\ CellsOf(k) # {} /\ k \in DOMAIN file.rows
  BY <1>4, <1>5, <1>6
<1>8. DOMAIN AllRows = {row \in DOMAIN file.rows : CellsOf(row) # {}} /\ \A k \in DOMAIN AllRows : AllRows[k] = CellsOf(k)
  BY DEF AllRows
<1>9. \A k \in kept, j \in DOMAIN AllRows : j < k => j \in kept /\ Cells(j) = AllRows[j]
  <2> TAKE k \in kept, j \in DOMAIN AllRows
  <2> HAVE j < k
  <2>1. j \in DOMAIN file.rows /\ CellsOf(j) # {} BY <1>8
  <2>2. k \in 1 .. (e.rows + 1) /\ j \in 1 .. all BY <1>1, <2>1
  <2>3. j <= e.rows /\ j \in 1 .. (e.rows + 1) BY <1>2, <2>2, ReadersAssumption
  <2>4. Cells(j) = CellsOf(j) BY <1>4, <2>1, <2>3
  <2> QED BY <1>8, <2>1, <2>3, <2>4
<1> HIDE DEF Cells, kept
<1> DEFINE rows == SplitOf(e, last)
<1>10. DOMAIN rows = kept /\ \A k \in kept : rows[k] = Cells(k) BY <1>3
<1> HIDE DEF rows
<1>11. InPlace(rows) BY <1>7, <1>8, <1>9, <1>10 DEF InPlace
<1>12. DOMAIN rows \subseteq 1 .. MaxRows
  <2>1. DOMAIN rows \subseteq 1 .. all BY <1>1, <1>7, <1>10
  <2> QED BY <1>1, <2>1, ReadersAssumption
<1>13. ASSUME e = WholeFile PROVE rows = AllRows
  <2>1. e.rows = all BY <1>1, <1>13 DEF WholeFile
  <2>2. \A k \in DOMAIN file.rows : k <= e.rows /\ k \in 1 .. (e.rows + 1) BY <1>1, <2>1
  <2>3. \A k \in DOMAIN file.rows : Cells(k) = CellsOf(k) BY <1>4, <2>2 DEF Cells
  <2>4. kept = DOMAIN AllRows BY <1>8, <2>2, <2>3 DEF kept
  <2>5. rows = [k \in kept |-> Cells(k)] BY <1>3 DEF rows
  <2>6. AllRows = [k \in kept |-> CellsOf(k)] BY <1>8, <2>4 DEF AllRows
  <2>7. \A k \in kept : Cells(k) = CellsOf(k) BY <2>3 DEF kept
  <2> QED BY <2>5, <2>6, <2>7
<1> QED BY <1>11, <1>12, <1>13 DEF rows

LEMMA SplitKeeps == ASSUME ReadersInv, NEW r \in StoreRuns, SplitRows(r) PROVE ReadersInv'
<1>1. /\ runs[r].step = "inspected" /\ mixed' = (mixed \/ Rewriting(r)) /\ UNCHANGED <<file, object>> BY DEF SplitRows
<1>17. PICK e \in Reads : \E last \in Torn(e) :
        Goes(r, [NoRun EXCEPT !.step = "split", !.text = TextRead,
                              !.split = IF TextRead = "mangled" THEN <<>> ELSE SplitOf(e, last)])
  BY DEF SplitRows
<1>2. PICK last \in Torn(e) :
        Goes(r, [NoRun EXCEPT !.step = "split", !.text = TextRead,
                              !.split = IF TextRead = "mangled" THEN <<>> ELSE SplitOf(e, last)])
  BY <1>17
<1>18. PICK k : /\ k = (IF TextRead = "mangled" THEN <<>> ELSE SplitOf(e, last))
                /\ Goes(r, [NoRun EXCEPT !.step = "split", !.text = TextRead, !.split = k])
  BY <1>2
<1> DEFINE kept == IF TextRead = "mangled" THEN <<>> ELSE SplitOf(e, last)
           run == [step |-> "split", read |-> NoObject, text |-> TextRead, split |-> kept]
<1>3. e \in Extents BY ReadsTyped
<1>6. NamesDiffer BY <1>1 DEF ReadersInv
<1>7. /\ InPlace(SplitOf(e, last)) /\ DOMAIN SplitOf(e, last) \subseteq 1 .. MaxRows
      /\ e = WholeFile => SplitOf(e, last) = AllRows
  BY <1>3, <1>6, SplitInPlace DEF ReadersInv
<1>8. Goes(r, run)
  <2> DEFINE t == TextRead
  <2>1. Goes(r, [NoRun EXCEPT !.step = "split", !.text = t, !.split = k]) BY <1>18
  <2> HIDE DEF t
  <2>5. [NoRun EXCEPT !.step = "split"]
          = [step |-> "split", read |-> NoObject, text |-> "none", split |-> <<>>]
    BY DEF NoRun
  <2>6. [[step |-> "split", read |-> NoObject, text |-> "none", split |-> <<>>] EXCEPT !.text = t]
          = [step |-> "split", read |-> NoObject, text |-> t, split |-> <<>>]
    OBVIOUS
  <2>7. [[step |-> "split", read |-> NoObject, text |-> t, split |-> <<>>] EXCEPT !.split = k]
          = [step |-> "split", read |-> NoObject, text |-> t, split |-> k]
    OBVIOUS
  <2>2. [NoRun EXCEPT !.step = "split", !.text = t, !.split = k]
          = [step |-> "split", read |-> NoObject, text |-> t, split |-> k]
    BY <2>5, <2>6, <2>7, Zenon
  <2>3. Goes(r, [step |-> "split", read |-> NoObject, text |-> t, split |-> k]) BY <2>1, <2>2
  <2>4. k = kept BY <1>18
  <2> QED BY <2>3, <2>4 DEF t
<1>9. /\ run = [step |-> run.step, read |-> run.read, text |-> run.text, split |-> run.split]
      /\ run.step = "split" /\ run.read = NoObject /\ run.text = TextRead /\ run.split = kept
  OBVIOUS
<1> HIDE DEF run
<1>10. mixed' \in BOOLEAN /\ (~mixed' => ~mixed) BY <1>1
<1>11. TextRead \in Texts BY DEF TextRead, Texts
<1>5. DOMAIN kept \subseteq 1 .. MaxRows BY <1>7
<1>4. (TextRead # "mangled" => kept = SplitOf(e, last)) OBVIOUS
<1> HIDE DEF kept
<1>15. run.step \in RunSteps /\ run.read \in Objects /\ run.text \in Texts
  BY <1>9, <1>11, EmptyObject DEF RunSteps
<1>12. /\ ReadersTyped' /\ runs'[r] = run /\ \A q \in StoreRuns \ {r} : runs'[q] = runs[q]
  BY <1>1, <1>5, <1>8, <1>9, <1>10, <1>15, GoesTyped, ObjectTyped
<1>13. ~mixed' => NotMixed' /\ e = WholeFile /\ TextRead # "mangled"
  <2> SUFFICES ASSUME ~mixed' PROVE NotMixed' /\ e = WholeFile /\ TextRead # "mangled" OBVIOUS
  <2>1. NotMixed /\ ~Rewriting(r) BY <1>1, <1>10 DEF ReadersInv
  <2>2. ~object.partial BY <1>1, <2>1 DEF NotMixed, Rewriting
  <2>4. e = WholeFile BY <1>17, <2>1, <2>2 DEF Reads, NotMixed
  <2>3. RunRelies(run) BY <1>1, <1>9, <2>1 DEF RunRelies, Rewrites, NotMixed, TextRead
  <2>5. WholeFile' = WholeFile BY <1>1, NamesStay
  <2>6. \A q \in StoreRuns : RunRelies(runs'[q]) BY <1>12, <2>1, <2>3 DEF NotMixed
  <2>7. \A q \in StoreRuns : RunRelies(runs[q])' BY <1>1, <2>5, <2>6 DEF RunRelies
  <2>8. TextRead # "mangled" BY <2>1 DEF TextRead, NotMixed
  <2> QED BY <1>1, <1>9, <1>12, <2>1, <2>2, <2>4, <2>5, <2>7, <2>8 DEF NotMixed, Rewrites
<1>14. run.text # "mangled" => InPlace(run.split) BY <1>4, <1>7, <1>9
<1>16. ~mixed' => run.split = AllRows BY <1>4, <1>7, <1>9, <1>13
<1> QED BY <1>1, <1>6, <1>10, <1>12, <1>13, <1>14, <1>16, RunKeeps

LEMMA RedeliveredKeeps == ASSUME ReadersInv, NEW r \in StoreRuns, Redelivered(r) PROVE ReadersInv'
<1>1. runs[r].step \notin {"idle", "rejected"} /\ Goes(r, NoRun) /\ UNCHANGED file BY DEF Redelivered
<1>2. /\ NoRun = [step |-> NoRun.step, read |-> NoRun.read, text |-> NoRun.text, split |-> NoRun.split]
      /\ NoRun.step = "idle" /\ DOMAIN NoRun.split \subseteq 1 .. MaxRows
      /\ NoRun.read = NoObject /\ NoRun.text = "none"
  BY DEF NoRun
<1>5. NoRun.step \in RunSteps /\ NoRun.read \in Objects /\ NoRun.text \in Texts
  BY <1>2, EmptyObject DEF RunSteps, Texts
<1>6. object' \in Objects /\ mixed' \in BOOLEAN
  <2>1. CASE runs[r].step = "writing"
    <3> DEFINE busy == Writers(r) # {}
    <3>1. PICK e \in Beginnings(object.extent) : object' = [object EXCEPT !.extent = e, !.partial = busy]
      BY <2>1 DEF Redelivered
    <3>2. e \in Extents /\ object \in Objects /\ busy \in BOOLEAN BY ReadsTyped, ObjectTyped
    <3> HIDE DEF busy
    <3>3. [object EXCEPT !.extent = e, !.partial = busy]
            = [encoding |-> object.encoding, accents |-> object.accents, extent |-> e, partial |-> busy]
      BY <3>2, ObjectChanged, Zenon
    <3>5. [encoding |-> object.encoding, accents |-> object.accents, extent |-> e, partial |-> busy] \in Objects
      BY <3>2, ObjectChanged, Zenon
    <3>6. object' \in Objects BY <3>1, <3>3, <3>5
    <3>4. mixed' = TRUE BY <2>1 DEF Redelivered
    <3> QED BY <3>4, <3>6
  <2>2. CASE runs[r].step # "writing" BY <2>2, ObjectTyped DEF Redelivered
  <2> QED BY <2>1, <2>2
<1>3. /\ ReadersTyped' /\ runs'[r] = NoRun /\ \A q \in StoreRuns \ {r} : runs'[q] = runs[q]
  BY <1>1, <1>2, <1>5, <1>6, GoesTyped, ObjectTyped
<1>4. ~mixed' => NotMixed' /\ ~mixed
  <2> SUFFICES ASSUME ~mixed' PROVE NotMixed' /\ ~mixed OBVIOUS
  <2>1. runs[r].step # "writing" /\ UNCHANGED <<object, mixed>> BY DEF Redelivered
  <2>2. NotMixed BY <2>1 DEF ReadersInv
  <2>3. WholeFile' = WholeFile BY <1>1, NamesStay
  <2>4. \A q \in StoreRuns : RunRelies(runs'[q]) BY <1>2, <1>3, <2>2 DEF NotMixed, RunRelies, Rewrites
  <2>5. \A q \in StoreRuns : RunRelies(runs[q])' BY <2>1, <2>3, <2>4 DEF RunRelies
  <2>6. object.partial => \E q \in StoreRuns \ {r} : runs[q].step = "writing" BY <2>1, <2>2 DEF NotMixed
  <2>7. \A q \in StoreRuns : Rewrites(runs'[q].step) => Rewrites(runs[q].step) BY <1>2, <1>3 DEF Rewrites
  <2>8. object'.partial => \E q \in StoreRuns : runs'[q].step = "writing" BY <1>3, <2>1, <2>6
  <2>9. \A p, q \in StoreRuns : Rewrites(runs'[p].step) /\ Rewrites(runs'[q].step) => p = q
    BY <2>2, <2>7 DEF NotMixed
  <2> QED BY <2>1, <2>2, <2>3, <2>5, <2>8, <2>9 DEF NotMixed
<1> QED BY <1>1, <1>2, <1>3, <1>4, RunKeeps

LEMMA ReadersStep == ReadersInv /\ [ReadersNext]_readerVars => ReadersInv'
<1> SUFFICES ASSUME ReadersInv, [ReadersNext]_readerVars PROVE ReadersInv' OBVIOUS
<1>1. CASE Upload BY <1>1, UploadKeeps
<1>2. ASSUME NEW r \in StoreRuns,
             \/ InspectCsv(r) \/ InspectJson(r) \/ ReencodeRead(r) \/ ReencodeBegin(r)
             \/ ReencodePut(r) \/ SplitRows(r) \/ Redelivered(r)
      PROVE  ReadersInv'
  BY <1>2, InspectCsvKeeps, InspectJsonKeeps, ReencodeReadKeeps, ReencodeBeginKeeps, ReencodePutKeeps, SplitKeeps,
     RedeliveredKeeps
<1>3. CASE UNCHANGED readerVars
  <2>1. UNCHANGED <<file, object, runs, mixed>> BY <1>3 DEF readerVars
  <2>5. WholeFile' = WholeFile /\ AllRows' = AllRows BY <2>1, NamesStay
  <2>2. ReadersTyped'
    BY <2>1 DEF ReadersInv, ReadersTyped, ReadersTypeOK, Objects, Extents, Encodings, Places, RunSteps, Texts
  <2>3. NotMixed => NotMixed' BY <2>1, <2>5 DEF NotMixed, RunRelies
  <2>4. \A r \in StoreRuns : SplitSound(runs[r])' BY <2>1, <2>5 DEF ReadersInv, SplitSound, InPlace
  <2> QED BY <2>1, <2>2, <2>3, <2>4, NamesStay DEF ReadersInv
<1> QED BY <1>1, <1>2, <1>3 DEF ReadersNext

(* File, stored object and runs have their types.                          *)
THEOREM ReadersAreTyped == ReadersSpec => []ReadersTypeOK
<1>1. ReadersInv => ReadersTypeOK BY DEF ReadersInv, ReadersTyped
<1> QED BY <1>1, ReadersStart, ReadersStep, PTL DEF ReadersSpec

(* Whichever executions overlap or die, rows are read under their own      *)
(* numbers and columns and only the end of the file may be missing, unless *)
(* two puts to a local file overlapped; while none reads what another      *)
(* rewrites or left half written, all rows are read, and in the dealer's   *)
(* words unless the first accent lies beyond the head (csv-reader.ts,      *)
(* json-reader.ts, local-object-store.ts).                                 *)
THEOREM FilesAreTheDealers == ReadersSpec => []RowsAreTheDealers
<1>1. ReadersInv => RowsAreTheDealers
  BY DEF ReadersInv, RowsAreTheDealers, NotMixed, RunRelies, SplitSound
<1> QED BY <1>1, ReadersStart, ReadersStep, PTL DEF ReadersSpec

----
(* The records of an array that arrives in chunks (FileReaders).           *)

ScanStates ==
  [at : {"before", "in", "finished", "failed"}, expect : {"value-or-end", "value", "comma-or-end"},
   active : BOOLEAN, inString : BOOLEAN, escaped : BOOLEAN, depth : Nat, isPrimitive : BOOLEAN,
   parts : Seq(Bytes), records : Seq(Seq(Bytes))]

LEMMA CompleteTyped ==
  ASSUME NEW s \in ScanStates
  PROVE  CompleteElement(s) \in ScanStates /\ StreamFailed(s) \in ScanStates
<1>1. StreamFailed(s) \in ScanStates BY DEF StreamFailed, ScanStates
<1>2. CASE Parses(s.parts)
  <2> DEFINE records == Append(s.records, s.parts)
  <2>1. records \in Seq(Seq(Bytes)) BY DEF ScanStates
  <2>2. << >> \in Seq(Bytes) OBVIOUS
  <2>3. CompleteElement(s) = [s EXCEPT !.parts = <<>>, !.active = FALSE, !.isPrimitive = FALSE, !.expect = "comma-or-end",
                                       !.records = records]
    BY <1>2 DEF CompleteElement
  <2> HIDE DEF records
  <2>4. [s EXCEPT !.parts = <<>>, !.active = FALSE, !.isPrimitive = FALSE, !.expect = "comma-or-end",
                  !.records = records] \in ScanStates
    BY <2>1, <2>2 DEF ScanStates
  <2> QED BY <1>1, <2>3, <2>4
<1>3. CASE ~Parses(s.parts) BY <1>1, <1>3 DEF CompleteElement
<1> QED BY <1>1, <1>2, <1>3

LEMMA ElementTyped ==
  ASSUME NEW s \in ScanStates, NEW c \in Bytes
  PROVE  InElement(s, c) \in ScanStates
<1> DEFINE t == KeepByte(s, c)
<1>1. t \in ScanStates
  <2>1. Append(s.parts, c) \in Seq(Bytes) BY DEF ScanStates
  <2>2. t = [s EXCEPT !.parts = Append(s.parts, c)] BY DEF KeepByte
  <2> HIDE DEF t
  <2> QED BY <2>1, <2>2 DEF ScanStates
<1> HIDE DEF t
<1>2. /\ [t EXCEPT !.escaped = FALSE] \in ScanStates /\ [t EXCEPT !.escaped = TRUE] \in ScanStates
      /\ [t EXCEPT !.inString = FALSE] \in ScanStates /\ [t EXCEPT !.inString = TRUE] \in ScanStates
  BY <1>1 DEF ScanStates
<1>3. InString(s, c) \in ScanStates
  <2>1. InString(s, c) \in {[t EXCEPT !.escaped = FALSE], [t EXCEPT !.escaped = TRUE],
                            CompleteElement([t EXCEPT !.inString = FALSE]), [t EXCEPT !.inString = FALSE], t}
    BY DEF InString, t
  <2> QED BY <1>1, <1>2, <2>1, CompleteTyped
<1>4. t.depth = s.depth BY DEF t, KeepByte, ScanStates
<1>5. [t EXCEPT !.depth = @ + 1] \in ScanStates
  <2>1. t.depth + 1 \in Nat BY <1>1 DEF ScanStates
  <2> QED BY <1>1, <2>1 DEF ScanStates
<1>6. Closing(s, c) \in ScanStates
  <2>1. CASE s.depth > 0
    <3> DEFINE u == [t EXCEPT !.depth = @ - 1]
    <3>1. s.depth - 1 \in Nat BY <2>1 DEF ScanStates
    <3>2. u \in ScanStates BY <1>1, <1>4, <3>1 DEF ScanStates
    <3>3. Closing(s, c) \in {CompleteElement(u), u} BY <2>1 DEF Closing, t
    <3> HIDE DEF u
    <3> QED BY <3>2, <3>3, CompleteTyped
  <2>2. CASE ~(s.depth > 0)
    <3> DEFINE u == CompleteElement(s)
    <3>1. u \in ScanStates /\ StreamFailed(s) \in ScanStates BY CompleteTyped
    <3>2. Closing(s, c) \in {StreamFailed(s), u, [u EXCEPT !.at = "finished"]} BY <2>2 DEF Closing
    <3> HIDE DEF u
    <3>3. [u EXCEPT !.at = "finished"] \in ScanStates BY <3>1 DEF ScanStates
    <3> QED BY <3>1, <3>2, <3>3
  <2> QED BY <2>1, <2>2
<1>7. CompleteElement(s) \in ScanStates /\ [CompleteElement(s) EXCEPT !.expect = "value"] \in ScanStates
  <2> DEFINE u == CompleteElement(s)
  <2>1. u \in ScanStates BY CompleteTyped
  <2> HIDE DEF u
  <2>2. [u EXCEPT !.expect = "value"] \in ScanStates BY <2>1 DEF ScanStates
  <2> QED BY <2>1, <2>2 DEF u
<1>8. InElement(s, c) \in {InString(s, c), [t EXCEPT !.inString = TRUE], [t EXCEPT !.depth = @ + 1], Closing(s, c),
                           CompleteElement(s), [CompleteElement(s) EXCEPT !.expect = "value"], t}
  BY DEF InElement, t
<1> QED BY <1>1, <1>2, <1>3, <1>5, <1>6, <1>7, <1>8

LEMMA ScanTyped ==
  ASSUME NEW s \in ScanStates, NEW c \in Bytes
  PROVE  Scan(s, c) \in ScanStates
<1>1. StreamFailed(s) \in ScanStates BY CompleteTyped
<1>2. [s EXCEPT !.at = "in"] \in ScanStates /\ [s EXCEPT !.at = "finished"] \in ScanStates
      /\ [s EXCEPT !.expect = "value"] \in ScanStates
  BY DEF ScanStates
<1> DEFINE depth == IF c \in Openers THEN 1 ELSE 0
           inString == c = "quote"
           isPrimitive == c \notin Openers \cup {"quote"}
           u == [s EXCEPT !.active = TRUE, !.parts = <<c>>, !.depth = depth, !.inString = inString, !.isPrimitive = isPrimitive]
<1>3. u \in ScanStates
  <2>1. <<c>> \in Seq(Bytes) OBVIOUS
  <2>2. depth \in Nat OBVIOUS
  <2>3. inString \in BOOLEAN /\ isPrimitive \in BOOLEAN OBVIOUS
  <2> HIDE DEF depth, inString, isPrimitive
  <2> QED BY <2>1, <2>2, <2>3 DEF ScanStates
<1>4. BetweenElements(s, c) \in ScanStates
  <2>1. BetweenElements(s, c) \in {s, StreamFailed(s), [s EXCEPT !.at = "finished"], [s EXCEPT !.expect = "value"], u}
    <3> HIDE DEF u
    <3>1. c \notin {"s", "]", ","} => BetweenElements(s, c) \in {StreamFailed(s), u} BY DEF BetweenElements, u
    <3>2. c \in {"s", "]", ","} =>
            BetweenElements(s, c) \in {s, StreamFailed(s), [s EXCEPT !.at = "finished"], [s EXCEPT !.expect = "value"]}
      BY DEF BetweenElements
    <3> QED BY <3>1, <3>2
  <2> HIDE DEF u
  <2> QED BY <1>1, <1>2, <1>3, <2>1
<1>5. Scan(s, c) \in {s, StreamFailed(s), [s EXCEPT !.at = "in"], InElement(s, c), BetweenElements(s, c)}
  <2>1. s.at \in {"before", "in", "finished", "failed"} BY DEF ScanStates
  <2> QED BY <2>1 DEF Scan
<1> QED BY <1>1, <1>2, <1>4, <1>5, ElementTyped

(* What a chunk is scanned to, byte by byte.                               *)
ScanOf(t, s, i) == Scan(s, t[i])

Scanned(s, t) == FoldLeft(Scan, s, t)

LEMMA ScanIsARow ==
  ASSUME NEW A, NEW t \in Seq(A), NEW s
  PROVE  \E h : /\ h[0] = s /\ h[Len(t)] = Scanned(s, t)
                /\ \A i \in 1 .. Len(t) : h[i] = Scan(h[i - 1], t[i])
<1> DEFINE N == Len(t)
           Folds(g, S) == g = [q \in SUBSET S |-> IF q = {} THEN s
                                                  ELSE LET x == Max(q) IN ScanOf(t, g[q \ {x}], x)]
           bad == {n \in 0 .. N : ~\E g : Folds(g, 1 .. n)}
<1>1. N \in Nat /\ DOMAIN t = 1 .. N OBVIOUS
<1> HIDE DEF N
<1>2. 0 \notin bad
  <2> DEFINE g == [q \in SUBSET (1 .. 0) |-> s]
  <2>1. Folds(g, 1 .. 0) OBVIOUS
  <2> HIDE DEF Folds, g
  <2> QED BY <2>1
<1>3. ASSUME NEW n \in 1 .. N, n - 1 \notin bad PROVE n \notin bad
  <2>1. PICK g : Folds(g, 1 .. (n - 1))
    <3> HIDE DEF Folds
    <3> QED BY <1>1, <1>3
  <2> DEFINE f == [q \in SUBSET (1 .. n) |-> IF n \in q THEN ScanOf(t, g[q \ {n}], n) ELSE g[q]]
  <2>2. ASSUME NEW q \in SUBSET (1 .. n)
        PROVE  f[q] = IF q = {} THEN s ELSE LET x == Max(q) IN ScanOf(t, f[q \ {x}], x)
    <3>1. CASE n \in q
      <4>1. \A y \in q : n >= y BY <1>1
      <4>2. q \in SUBSET (0 .. n) /\ n \in Nat BY <1>1
      <4>3. Max(q) = n
        <5>1. PICK m : m = Max(q) OBVIOUS
        <5>2. m \in q /\ \A y \in q : m >= y BY <3>1, <4>2, <5>1, GreatestOf
        <5>3. m >= n /\ n >= m /\ m \in Nat BY <3>1, <4>1, <4>2, <5>2
        <5> QED BY <4>2, <5>1, <5>3
      <4>4. q \ {n} \in SUBSET (1 .. n) /\ n \notin q \ {n} OBVIOUS
      <4>5. f[q \ {n}] = g[q \ {n}] BY <4>4
      <4> QED BY <3>1, <4>3, <4>5
    <3>2. CASE n \notin q
      <4>1. q \in SUBSET (1 .. (n - 1)) BY <1>1, <3>2
      <4>2. f[q] = g[q] BY <3>2
      <4>3. CASE q = {} BY <2>1, <4>1, <4>2, <4>3
      <4>4. CASE q # {}
        <5>1. Max(q) \in q
          <6>1. q \in SUBSET (0 .. n) /\ n \in Nat BY <1>1
          <6> QED BY <4>4, <6>1, GreatestOf
        <5>2. q \ {Max(q)} \in SUBSET (1 .. n) /\ n \notin q \ {Max(q)} BY <3>2
        <5>3. f[q \ {Max(q)}] = g[q \ {Max(q)}] BY <5>2
        <5>4. g[q] = ScanOf(t, g[q \ {Max(q)}], Max(q)) BY <2>1, <4>1, <4>4
        <5> QED BY <4>2, <4>4, <5>3, <5>4
      <4> QED BY <4>3, <4>4
    <3> QED BY <3>1, <3>2
  <2>3. Folds(f, 1 .. n)
    <3> HIDE DEF f
    <3>1. f = [q \in SUBSET (1 .. n) |-> f[q]] BY DEF f
    <3> QED BY <2>2, <3>1
  <2> HIDE DEF Folds, f
  <2> QED BY <2>3
<1>4. bad = {}
  <2> HIDE DEF bad
  <2>1. bad \in SUBSET (0 .. N) BY DEF bad
  <2>2. \A n \in 1 .. N : n \in bad => n - 1 \in bad BY <1>3
  <2> QED BY <1>1, <1>2, <2>1, <2>2, Onwards
<1>5. \E g : Folds(g, 1 .. N)
  <2> HIDE DEF Folds
  <2>1. N \in 0 .. N BY <1>1
  <2> QED BY <1>4, <2>1
<1> DEFINE Raw(g) == g = [q \in SUBSET DOMAIN t |-> IF q = {} THEN s
                                                    ELSE LET x == Max(q) IN Scan(g[q \ {x}], t[x])]
<1>6. Scanned(s, t) = (CHOOSE g : Raw(g))[DOMAIN t] BY DEF Scanned, FoldLeft, MapThenFoldSet
<1>7. DOMAIN t = 1 .. N BY <1>1
<1>9. \A g : Raw(g) <=> Folds(g, 1 .. N)
  <2> TAKE g
  <2>1. \A q \in SUBSET (1 .. N) :
          (IF q = {} THEN s ELSE LET x == Max(q) IN Scan(g[q \ {x}], t[x]))
          = IF q = {} THEN s ELSE LET x == Max(q) IN ScanOf(t, g[q \ {x}], x)
    BY DEF ScanOf
  <2> QED BY <1>7, <2>1
<1> HIDE DEF Raw, Folds
<1>10. PICK g : g = CHOOSE f : Raw(f) OBVIOUS
<1>11. Folds(g, 1 .. N) /\ Scanned(s, t) = g[1 .. N] BY <1>5, <1>6, <1>7, <1>9, <1>10
<1>12. \A q \in SUBSET (1 .. N) : g[q] = IF q = {} THEN s ELSE LET x == Max(q) IN ScanOf(t, g[q \ {x}], x)
  BY <1>11 DEF Folds
<1> DEFINE h == [i \in 0 .. N |-> g[1 .. i]]
<1>13. h[0] = s
  <2>1. 1 .. 0 = {} /\ 0 \in 0 .. N BY <1>1
  <2> QED BY <1>12, <2>1
<1>14. h[N] = Scanned(s, t) BY <1>1, <1>11
<1>15. ASSUME NEW i \in 1 .. N PROVE h[i] = ScanOf(t, h[i - 1], i)
  <2>0. i \in Nat /\ 1 <= i /\ i <= N /\ i \in 0 .. N /\ i - 1 \in 0 .. N BY <1>1
  <2>7. i \in 1 .. i BY <2>0
  <2>8. \A y : y \in (1 .. i) \ {i} <=> y \in 1 .. (i - 1) BY <2>0
  <2>9. \A y : y \in 1 .. i => y \in 1 .. N /\ y \in 0 .. i BY <1>1, <2>0
  <2>1. /\ 1 .. i \in SUBSET (1 .. N) /\ 1 .. i # {} /\ (1 .. i) \ {i} = 1 .. (i - 1)
        /\ i \in 0 .. N /\ i - 1 \in 0 .. N /\ i \in Nat /\ 1 .. i \in SUBSET (0 .. i)
    BY <2>0, <2>7, <2>8, <2>9
  <2>2. PICK m : m = Max(1 .. i) OBVIOUS
  <2>3. m \in 1 .. i /\ \A y \in 1 .. i : m >= y BY <2>1, <2>2, GreatestOf
  <2>4. m = i BY <2>1, <2>3
  <2>5. g[1 .. i] = ScanOf(t, g[(1 .. i) \ {i}], i) BY <1>12, <2>1, <2>2, <2>4
  <2> QED BY <2>1, <2>5
<1> HIDE DEF h
<1> QED BY <1>13, <1>14, <1>15 DEF N, ScanOf


(* The lexer's states, byte by byte.                                       *)
LexOf(t, l, i) == Append(l, Lex(Last(l), t[i]))

LEMMA LexedIsARow ==
  ASSUME NEW A, NEW t \in Seq(A)
  PROVE  \E h : /\ h[0] = <<AtEnd>> /\ h[Len(t)] = Lexed(t)
                /\ \A i \in 1 .. Len(t) : h[i] = Append(h[i - 1], Lex(Last(h[i - 1]), t[i]))
<1> DEFINE N == Len(t)
           Folds(g, S) == g = [q \in SUBSET S |-> IF q = {} THEN <<AtEnd>>
                                                  ELSE LET x == Max(q) IN LexOf(t, g[q \ {x}], x)]
           bad == {n \in 0 .. N : ~\E g : Folds(g, 1 .. n)}
<1>1. N \in Nat /\ DOMAIN t = 1 .. N OBVIOUS
<1> HIDE DEF N
<1>2. 0 \notin bad
  <2> DEFINE g == [q \in SUBSET (1 .. 0) |-> <<AtEnd>>]
  <2>1. Folds(g, 1 .. 0) OBVIOUS
  <2> HIDE DEF Folds, g
  <2> QED BY <2>1
<1>3. ASSUME NEW n \in 1 .. N, n - 1 \notin bad PROVE n \notin bad
  <2>1. PICK g : Folds(g, 1 .. (n - 1))
    <3> HIDE DEF Folds
    <3> QED BY <1>1, <1>3
  <2> DEFINE f == [q \in SUBSET (1 .. n) |-> IF n \in q THEN LexOf(t, g[q \ {n}], n) ELSE g[q]]
  <2>2. ASSUME NEW q \in SUBSET (1 .. n)
        PROVE  f[q] = IF q = {} THEN <<AtEnd>> ELSE LET x == Max(q) IN LexOf(t, f[q \ {x}], x)
    <3>1. CASE n \in q
      <4>1. \A y \in q : n >= y BY <1>1
      <4>2. q \in SUBSET (0 .. n) /\ n \in Nat BY <1>1
      <4>3. Max(q) = n
        <5>1. PICK m : m = Max(q) OBVIOUS
        <5>2. m \in q /\ \A y \in q : m >= y BY <3>1, <4>2, <5>1, GreatestOf
        <5>3. m >= n /\ n >= m /\ m \in Nat BY <3>1, <4>1, <4>2, <5>2
        <5> QED BY <4>2, <5>1, <5>3
      <4>4. q \ {n} \in SUBSET (1 .. n) /\ n \notin q \ {n} OBVIOUS
      <4>5. f[q \ {n}] = g[q \ {n}] BY <4>4
      <4> QED BY <3>1, <4>3, <4>5
    <3>2. CASE n \notin q
      <4>1. q \in SUBSET (1 .. (n - 1)) BY <1>1, <3>2
      <4>2. f[q] = g[q] BY <3>2
      <4>3. CASE q = {} BY <2>1, <4>1, <4>2, <4>3
      <4>4. CASE q # {}
        <5>1. Max(q) \in q
          <6>1. q \in SUBSET (0 .. n) /\ n \in Nat BY <1>1
          <6> QED BY <4>4, <6>1, GreatestOf
        <5>2. q \ {Max(q)} \in SUBSET (1 .. n) /\ n \notin q \ {Max(q)} BY <3>2
        <5>3. f[q \ {Max(q)}] = g[q \ {Max(q)}] BY <5>2
        <5>4. g[q] = LexOf(t, g[q \ {Max(q)}], Max(q)) BY <2>1, <4>1, <4>4
        <5> QED BY <4>2, <4>4, <5>3, <5>4
      <4> QED BY <4>3, <4>4
    <3> QED BY <3>1, <3>2
  <2>3. Folds(f, 1 .. n)
    <3> HIDE DEF f
    <3>1. f = [q \in SUBSET (1 .. n) |-> f[q]] BY DEF f
    <3> QED BY <2>2, <3>1
  <2> HIDE DEF Folds, f
  <2> QED BY <2>3
<1>4. bad = {}
  <2> HIDE DEF bad
  <2>1. bad \in SUBSET (0 .. N) BY DEF bad
  <2>2. \A n \in 1 .. N : n \in bad => n - 1 \in bad BY <1>3
  <2> QED BY <1>1, <1>2, <2>1, <2>2, Onwards
<1>5. \E g : Folds(g, 1 .. N)
  <2> HIDE DEF Folds
  <2>1. N \in 0 .. N BY <1>1
  <2> QED BY <1>4, <2>1
<1> DEFINE Raw(g) == g = [q \in SUBSET DOMAIN t |-> IF q = {} THEN <<AtEnd>>
                                                    ELSE LET x == Max(q) IN Append(g[q \ {x}], Lex(Last(g[q \ {x}]), t[x]))]
<1>6. Lexed(t) = (CHOOSE g : Raw(g))[DOMAIN t] BY DEF Lexed, FoldLeft, MapThenFoldSet
<1>7. DOMAIN t = 1 .. N BY <1>1
<1>9. \A g : Raw(g) <=> Folds(g, 1 .. N)
  <2> TAKE g
  <2>1. \A q \in SUBSET (1 .. N) :
          (IF q = {} THEN <<AtEnd>> ELSE LET x == Max(q) IN Append(g[q \ {x}], Lex(Last(g[q \ {x}]), t[x])))
          = IF q = {} THEN <<AtEnd>> ELSE LET x == Max(q) IN LexOf(t, g[q \ {x}], x)
    BY DEF LexOf
  <2> QED BY <1>7, <2>1
<1> HIDE DEF Raw, Folds
<1>10. PICK g : g = CHOOSE f : Raw(f) OBVIOUS
<1>11. Folds(g, 1 .. N) /\ Lexed(t) = g[1 .. N] BY <1>5, <1>6, <1>7, <1>9, <1>10
<1>12. \A q \in SUBSET (1 .. N) : g[q] = IF q = {} THEN <<AtEnd>> ELSE LET x == Max(q) IN LexOf(t, g[q \ {x}], x)
  BY <1>11 DEF Folds
<1> DEFINE h == [i \in 0 .. N |-> g[1 .. i]]
<1>13. h[0] = <<AtEnd>>
  <2>1. 1 .. 0 = {} /\ 0 \in 0 .. N BY <1>1
  <2> QED BY <1>12, <2>1
<1>14. h[N] = Lexed(t) BY <1>1, <1>11
<1>15. ASSUME NEW i \in 1 .. N PROVE h[i] = LexOf(t, h[i - 1], i)
  <2>0. i \in Nat /\ 1 <= i /\ i <= N /\ i \in 0 .. N /\ i - 1 \in 0 .. N BY <1>1
  <2>7. i \in 1 .. i BY <2>0
  <2>8. \A y : y \in (1 .. i) \ {i} <=> y \in 1 .. (i - 1) BY <2>0
  <2>9. \A y : y \in 1 .. i => y \in 1 .. N /\ y \in 0 .. i BY <1>1, <2>0
  <2>1. /\ 1 .. i \in SUBSET (1 .. N) /\ 1 .. i # {} /\ (1 .. i) \ {i} = 1 .. (i - 1)
        /\ i \in 0 .. N /\ i - 1 \in 0 .. N /\ i \in Nat /\ 1 .. i \in SUBSET (0 .. i)
    BY <2>0, <2>7, <2>8, <2>9
  <2>2. PICK m : m = Max(1 .. i) OBVIOUS
  <2>3. m \in 1 .. i /\ \A y \in 1 .. i : m >= y BY <2>1, <2>2, GreatestOf
  <2>4. m = i BY <2>1, <2>3
  <2>5. g[1 .. i] = LexOf(t, g[(1 .. i) \ {i}], i) BY <1>12, <2>1, <2>2, <2>4
  <2> QED BY <2>1, <2>5
<1> HIDE DEF h
<1> QED BY <1>13, <1>14, <1>15 DEF N, LexOf


LexStates == [mode : {"in", "out", "escaped", "bad"}, open : Seq(Openers)]

LEMMA LexTyped ==
  ASSUME NEW p \in LexStates, NEW c
  PROVE  Lex(p, c) \in LexStates /\ (p.mode = "bad" => Lex(p, c) = p)
<1>1. p.mode \in {"in", "out", "escaped", "bad"} /\ p.open \in Seq(Openers) BY DEF LexStates
<1>2. /\ [p EXCEPT !.mode = "in"] \in LexStates /\ [p EXCEPT !.mode = "out"] \in LexStates
      /\ [p EXCEPT !.mode = "escaped"] \in LexStates /\ [p EXCEPT !.mode = "bad"] \in LexStates
  BY DEF LexStates
<1>3. c \in Openers => [p EXCEPT !.open = <<c>> \o @] \in LexStates
  <2>1. c \in Openers => <<c>> \o p.open \in Seq(Openers) BY <1>1
  <2> QED BY <2>1 DEF LexStates
<1>4. p.open # <<>> => [p EXCEPT !.open = Tail(@)] \in LexStates
  <2>1. p.open # <<>> => Tail(p.open) \in Seq(Openers) BY <1>1
  <2> QED BY <2>1 DEF LexStates
<1>5. c \in Openers => c \notin Closers /\ c \notin {"quote", "backslash", "lead", "trail"} BY DEF Openers, Closers
<1>6. c \in Closers => c \notin {"quote", "backslash", "lead", "trail"} BY DEF Closers
<1>7. CASE p.mode = "out"
  <2>1. CASE c \in Openers
    <3>1. Lex(p, c) = [p EXCEPT !.open = <<c>> \o @] BY <1>5, <1>7, <2>1 DEF Lex
    <3> QED BY <1>3, <1>7, <2>1, <3>1
  <2>2. CASE c \in Closers
    <3>1. Lex(p, c) = IF p.open # <<>> /\ <<Head(p.open), c>> \in {<<"[", "]">>, <<"{", "}">>}
                      THEN [p EXCEPT !.open = Tail(@)] ELSE [p EXCEPT !.mode = "bad"]
      BY <1>5, <1>6, <1>7, <2>2 DEF Lex
    <3> QED BY <1>2, <1>4, <1>7, <3>1
  <2>3. CASE c \notin Openers \cup Closers
    <3>1. Lex(p, c) \in {[p EXCEPT !.mode = "in"], [p EXCEPT !.mode = "bad"], p} BY <1>7, <2>3 DEF Lex
    <3> QED BY <1>2, <1>7, <3>1
  <2> QED BY <2>1, <2>2, <2>3
<1>8. CASE p.mode = "in"
  <2>1. Lex(p, c) \in {[p EXCEPT !.mode = "out"], [p EXCEPT !.mode = "escaped"], p} BY <1>8 DEF Lex
  <2> QED BY <1>2, <1>8, <2>1
<1>9. CASE p.mode = "escaped"
  <2>1. Lex(p, c) = [p EXCEPT !.mode = "in"] BY <1>9 DEF Lex
  <2> QED BY <1>2, <1>9, <2>1
<1>10. CASE p.mode = "bad"
  <2>1. Lex(p, c) = p BY <1>10 DEF Lex
  <2> QED BY <2>1
<1> QED BY <1>1, <1>7, <1>8, <1>9, <1>10

LEMMA AtEndTyped == AtEnd \in LexStates
BY DEF AtEnd, LexStates

LEMMA LexedIs ==
  ASSUME NEW A, NEW t \in Seq(A)
  PROVE  /\ Lexed(t) \in Seq(LexStates) /\ Len(Lexed(t)) = Len(t) + 1 /\ Lexed(t)[1] = AtEnd
         /\ \A i \in 1 .. Len(t) : Lexed(t)[i + 1] = Lex(Lexed(t)[i], t[i])
<1>1. PICK h : /\ h[0] = <<AtEnd>> /\ h[Len(t)] = Lexed(t)
               /\ \A i \in 1 .. Len(t) : h[i] = Append(h[i - 1], Lex(Last(h[i - 1]), t[i]))
  BY LexedIsARow
<1> DEFINE N == Len(t)
           Fine(n) == /\ h[n] \in Seq(LexStates) /\ Len(h[n]) = n + 1 /\ h[n][1] = AtEnd
                      /\ \A i \in 1 .. n : h[n][i + 1] = Lex(h[n][i], t[i])
           bad == {n \in 0 .. N : ~Fine(n)}
<1>2. N \in Nat OBVIOUS
<1>3. Fine(0) BY <1>1, AtEndTyped
<1>4. ASSUME NEW n \in 1 .. N, Fine(n - 1) PROVE Fine(n)
  <2> DEFINE g == h[n - 1]
             x == Lex(Last(g), t[n])
  <2>1. n - 1 \in Nat /\ n \in Nat BY <1>2
  <2>2. g \in Seq(LexStates) /\ Len(g) = n /\ g[1] = AtEnd /\ \A i \in 1 .. (n - 1) : g[i + 1] = Lex(g[i], t[i])
    BY <1>4, <2>1
  <2>3. h[n] = Append(g, x) BY <1>1, <1>4
  <2>4. Last(g) = g[n] /\ g[n] \in LexStates BY <2>1, <2>2, <1>4 DEF Last
  <2>5. x = Lex(g[n], t[n]) /\ x \in LexStates BY <2>4, LexTyped
  <2> HIDE DEF g, x, N
  <2>6. /\ h[n] \in Seq(LexStates) /\ Len(h[n]) = n + 1 /\ \A i \in 1 .. n : h[n][i] = g[i]
        /\ h[n][n + 1] = x
    BY <2>1, <2>2, <2>3, <2>5
  <2>7. \A i \in 1 .. n : h[n][i + 1] = Lex(h[n][i], t[i])
    <3> TAKE i \in 1 .. n
    <3>1. CASE i = n BY <2>1, <2>5, <2>6, <3>1
    <3>2. CASE i # n
      <4>1. i \in 1 .. (n - 1) /\ i + 1 \in 1 .. n /\ i \in 1 .. n BY <2>1, <3>2
      <4> QED BY <2>2, <2>6, <4>1
    <3> QED BY <3>1, <3>2
  <2>8. h[n][1] = AtEnd
    <3>1. 1 \in 1 .. n BY <1>4, <2>1
    <3> QED BY <2>2, <2>6, <3>1
  <2> QED BY <2>6, <2>7, <2>8
<1>5. bad = {}
  <2> HIDE DEF Fine
  <2>1. 0 \notin bad BY <1>3
  <2>2. \A n \in 1 .. N : n \in bad => n - 1 \in bad
    <3> TAKE n \in 1 .. N
    <3>1. n - 1 \in 0 .. N BY <1>2
    <3> QED BY <1>4, <3>1
  <2>3. bad \in SUBSET (0 .. N) OBVIOUS
  <2> HIDE DEF bad, N
  <2> QED BY <1>2, <2>1, <2>2, <2>3, Onwards
<1>6. Fine(N)
  <2> HIDE DEF Fine
  <2>1. N \in 0 .. N BY <1>2
  <2> QED BY <1>5, <2>1
<1>7. h[N] = Lexed(t) BY <1>1
<1> HIDE DEF N
<1> QED BY <1>6, <1>7 DEF N

----
LEMMA LexedAgree ==
  ASSUME NEW A, NEW t \in Seq(A), NEW u \in Seq(A), NEW n \in Nat, n <= Len(t), n <= Len(u),
         \A i \in 1 .. n : t[i] = u[i]
  PROVE  \A i \in 1 .. (n + 1) : Lexed(t)[i] = Lexed(u)[i]
<1> DEFINE L == Lexed(t)
           M == Lexed(u)
           bad == {i \in 0 .. n : L[i + 1] # M[i + 1]}
<1>1. L[1] = AtEnd /\ \A i \in 1 .. Len(t) : L[i + 1] = Lex(L[i], t[i]) BY LexedIs
<1>2. M[1] = AtEnd /\ \A i \in 1 .. Len(u) : M[i + 1] = Lex(M[i], u[i]) BY LexedIs
<1> HIDE DEF L, M
<1>3. \A i \in 1 .. n : i \in 1 .. Len(t) /\ i \in 1 .. Len(u) OBVIOUS
<1>4. 0 \notin bad BY <1>1, <1>2
<1>5. \A i \in 1 .. n : i \in bad => i - 1 \in bad
  <2> TAKE i \in 1 .. n
  <2>1. i - 1 \in 0 .. n /\ (i - 1) + 1 = i OBVIOUS
  <2>2. L[i + 1] = Lex(L[i], t[i]) /\ M[i + 1] = Lex(M[i], t[i]) BY <1>1, <1>2, <1>3
  <2>3. L[i] = M[i] => L[i + 1] = M[i + 1] BY <2>2
  <2> QED BY <2>1, <2>3
<1>6. bad = {}
  <2> HIDE DEF bad
  <2>1. bad \in SUBSET (0 .. n) BY DEF bad
  <2> QED BY <1>4, <1>5, <2>1, Onwards
<1>7. \A i \in 1 .. (n + 1) : i - 1 \in 0 .. n /\ (i - 1) + 1 = i OBVIOUS
<1> QED BY <1>6, <1>7 DEF L, M

(* Lexing a part of a text that begins between values.                     *)
LEMMA LexedWithin ==
  ASSUME NEW A, NEW t \in Seq(A), NEW u \in Seq(A), NEW m \in Nat, m + Len(u) <= Len(t),
         \A i \in 1 .. Len(u) : u[i] = t[m + i], Lexed(t)[m + 1] = AtEnd
  PROVE  \A i \in 1 .. (Len(u) + 1) : Lexed(u)[i] = Lexed(t)[m + i]
<1> DEFINE L == Lexed(t)
           M == Lexed(u)
           n == Len(u)
           bad == {i \in 0 .. n : L[m + (i + 1)] # M[i + 1]}
<1>0. n \in Nat OBVIOUS
<1>1. L[m + 1] = AtEnd /\ \A i \in 1 .. Len(t) : L[i + 1] = Lex(L[i], t[i]) BY LexedIs
<1>2. M[1] = AtEnd /\ \A i \in 1 .. n : M[i + 1] = Lex(M[i], u[i]) BY LexedIs
<1> HIDE DEF L, M
<1>3. \A i \in 1 .. n : m + i \in 1 .. Len(t) OBVIOUS
<1>4. 0 \notin bad BY <1>1, <1>2
<1>8. \A i \in 1 .. n : u[i] = t[m + i] OBVIOUS
<1> HIDE DEF n
<1>5. \A i \in 1 .. n : i \in bad => i - 1 \in bad
  <2> TAKE i \in 1 .. n
  <2>1. i - 1 \in 0 .. n /\ (i - 1) + 1 = i /\ m + (i + 1) = (m + i) + 1 BY <1>0
  <2>2. L[(m + i) + 1] = Lex(L[m + i], u[i]) BY <1>1, <1>3, <1>8
  <2>4. M[i + 1] = Lex(M[i], u[i]) BY <1>2
  <2>3. L[m + i] = M[i] => L[m + (i + 1)] = M[i + 1] BY <2>1, <2>2, <2>4
  <2> QED BY <2>1, <2>3
<1>6. bad = {}
  <2> HIDE DEF bad
  <2>1. bad \in SUBSET (0 .. n) BY DEF bad
  <2> QED BY <1>0, <1>4, <1>5, <2>1, Onwards
<1>7. \A i \in 1 .. (n + 1) : i - 1 \in 0 .. n /\ (i - 1) + 1 = i BY <1>0
<1> QED BY <1>6, <1>7 DEF L, M, n

(* Nothing that follows mends a text that is malformed.                    *)
LEMMA LexedBad ==
  ASSUME NEW A, NEW t \in Seq(A), NEW i \in 1 .. (Len(t) + 1), Lexed(t)[i].mode = "bad", NEW j \in i .. (Len(t) + 1)
  PROVE  Lexed(t)[j].mode = "bad"
<1> DEFINE L == Lexed(t)
           n == Len(t) + 1 - i
           bad == {k \in 0 .. n : L[i + k].mode # "bad"}
<1>1. n \in Nat /\ j - i \in 0 .. n /\ i + (j - i) = j OBVIOUS
<1>2. L \in Seq(LexStates) /\ Len(L) = Len(t) + 1 /\ \A k \in 1 .. Len(t) : L[k + 1] = Lex(L[k], t[k]) BY LexedIs
<1>3. L[i].mode = "bad" OBVIOUS
<1> HIDE DEF L
<1>4. 0 \notin bad BY <1>3
<1>5. \A k \in 1 .. n : k \in bad => k - 1 \in bad
  <2> TAKE k \in 1 .. n
  <2> DEFINE q == i + (k - 1)
  <2>1. k - 1 \in 0 .. n /\ i + k = q + 1 /\ q \in 1 .. Len(t) BY <1>1
  <2> HIDE DEF q
  <2>2. L[q] \in LexStates /\ L[q + 1] = Lex(L[q], t[q]) BY <1>2, <2>1
  <2>3. L[q].mode = "bad" => L[q + 1].mode = "bad" BY <2>2, LexTyped
  <2> QED BY <2>1, <2>3 DEF q
<1>6. bad = {}
  <2> HIDE DEF bad, n
  <2>1. bad \in SUBSET (0 .. n) BY DEF bad
  <2> QED BY <1>1, <1>4, <1>5, <2>1, Onwards
<1> QED BY <1>1, <1>6 DEF L

LEMMA LexedAppend ==
  ASSUME NEW A, NEW t \in Seq(A), NEW c \in A
  PROVE  /\ \A i \in 1 .. (Len(t) + 1) : Lexed(Append(t, c))[i] = Lexed(t)[i]
         /\ Lexed(Append(t, c))[Len(t) + 2] = Lex(Lexed(t)[Len(t) + 1], c)
<1> DEFINE u == Append(t, c)
           n == Len(t)
<1>1. u \in Seq(A) /\ Len(u) = n + 1 /\ u[n + 1] = c /\ (\A i \in 1 .. n : t[i] = u[i]) /\ n \in Nat OBVIOUS
<1>2. \A i \in 1 .. Len(u) : Lexed(u)[i + 1] = Lex(Lexed(u)[i], u[i]) BY <1>1, LexedIs
<1> HIDE DEF u
<1>3. \A i \in 1 .. (n + 1) : Lexed(u)[i] = Lexed(t)[i] BY <1>1, LexedAgree
<1>4. Lexed(u)[(n + 1) + 1] = Lex(Lexed(u)[n + 1], c) BY <1>1, <1>2
<1>5. (n + 1) + 1 = n + 2 /\ n + 1 \in 1 .. (n + 1) BY <1>1
<1> QED BY <1>3, <1>4, <1>5 DEF u

LEMMA BlankLex ==
  ASSUME NEW p \in LexStates
  PROVE  /\ p.mode = "out" => Lex(p, "s") = p
         /\ Lex(p, "s") = AtEnd => p = AtEnd
         /\ p = AtEnd => Lex(p, "s") = p
<1>1. p.mode \in {"in", "out", "escaped", "bad"} BY DEF LexStates
<1>2. "s" \notin Openers \cup Closers BY DEF Openers, Closers
<1>3. p.mode # "escaped" => Lex(p, "s") = p BY <1>1, <1>2 DEF Lex
<1>4. p.mode = "escaped" => Lex(p, "s").mode = "in" BY DEF Lex, LexStates
<1> QED BY <1>3, <1>4 DEF AtEnd

LEMMA OnesLex ==
  ASSUME NEW A, NEW t \in Seq(A), \A i \in 1 .. Len(t) : t[i] = "1"
  PROVE  \A i \in 1 .. (Len(t) + 1) : Lexed(t)[i] = AtEnd
<1> DEFINE L == Lexed(t)
           n == Len(t)
           bad == {i \in 0 .. n : L[i + 1] # AtEnd}
<1>1. L[1] = AtEnd /\ \A i \in 1 .. n : L[i + 1] = Lex(L[i], t[i]) BY LexedIs
<1>2. Lex(AtEnd, "1") = AtEnd BY DEF Lex, AtEnd, Openers, Closers
<1> HIDE DEF L
<1>3. 0 \notin bad BY <1>1
<1>4. \A i \in 1 .. n : i \in bad => i - 1 \in bad
  <2> TAKE i \in 1 .. n
  <2>1. i - 1 \in 0 .. n /\ (i - 1) + 1 = i OBVIOUS
  <2>2. L[i] = AtEnd => L[i + 1] = AtEnd BY <1>1, <1>2
  <2> QED BY <2>1, <2>2
<1>5. bad = {}
  <2>1. n \in Nat OBVIOUS
  <2> HIDE DEF bad, n
  <2>2. bad \in SUBSET (0 .. n) BY DEF bad
  <2> QED BY <1>3, <1>4, <2>1, <2>2, Onwards
<1>6. \A i \in 1 .. (n + 1) : i - 1 \in 0 .. n /\ (i - 1) + 1 = i OBVIOUS
<1> QED BY <1>5, <1>6 DEF L

(* An element alone, and in its array.                                     *)
InArray == [mode |-> "out", open |-> <<"[">>]

Lifted(p, q) ==
  \/ p.mode = "bad" /\ q.mode = "bad"
  \/ /\ p.mode # "bad" /\ q.mode = p.mode /\ Len(q.open) = Len(p.open) + 1
     /\ (\A i \in 1 .. Len(p.open) : q.open[i] = p.open[i]) /\ q.open[Len(p.open) + 1] = "["

LEMMA LiftedAtEnd ==
  /\ Lifted(AtEnd, InArray) /\ InArray \in LexStates /\ AtEnd # InArray
  /\ \A q \in LexStates : Lifted(AtEnd, q) => q = InArray
  /\ \A p, q \in LexStates : Lifted(p, q) => q # AtEnd /\ (q = InArray => p = AtEnd)
<1>1. InArray \in LexStates BY DEF InArray, LexStates, Openers
<1>2. InArray.mode = "out" /\ Len(InArray.open) = 1 /\ InArray.open[1] = "[" BY DEF InArray
<1>3. AtEnd.mode = "out" /\ Len(AtEnd.open) = 0 BY DEF AtEnd
<1>4. \A q \in LexStates : q.mode = "out" /\ Len(q.open) = 1 /\ q.open[1] = "[" => q = InArray
  <2> TAKE q \in LexStates
  <2> HAVE q.mode = "out" /\ Len(q.open) = 1 /\ q.open[1] = "["
  <2>1. q.open \in Seq(Openers) /\ q = [mode |-> q.mode, open |-> q.open] BY DEF LexStates
  <2>2. q.open = <<"[">> BY <2>1
  <2> QED BY <2>1, <2>2 DEF InArray
<1>5. \A q \in LexStates : q.mode = "out" /\ Len(q.open) = 0 => q = AtEnd
  <2> TAKE q \in LexStates
  <2> HAVE q.mode = "out" /\ Len(q.open) = 0
  <2>1. q.open \in Seq(Openers) /\ q = [mode |-> q.mode, open |-> q.open] BY DEF LexStates
  <2>2. q.open = <<>> BY <2>1
  <2> QED BY <2>1, <2>2 DEF AtEnd
<1>6. \A q \in LexStates : q.open \in Seq(Openers) /\ Len(q.open) \in Nat BY DEF LexStates
<1>7. AtEnd # InArray BY <1>2, <1>3
<1>8. Lifted(AtEnd, InArray) BY <1>2, <1>3 DEF Lifted
<1>9. \A q \in LexStates : Lifted(AtEnd, q) => q = InArray BY <1>3, <1>4 DEF Lifted
<1>10. \A p, q \in LexStates : Lifted(p, q) => q # AtEnd /\ (q = InArray => p = AtEnd)
  <2> TAKE p, q \in LexStates
  <2> HAVE Lifted(p, q)
  <2>1. q # AtEnd BY <1>3, <1>6 DEF Lifted
  <2>2. q = InArray => p.mode = "out" /\ Len(p.open) = 0 BY <1>2, <1>6 DEF Lifted
  <2> QED BY <1>5, <2>1, <2>2
<1> QED BY <1>1, <1>7, <1>8, <1>9, <1>10

LEMMA LexCases ==
  ASSUME NEW p \in LexStates, NEW c
  PROVE  /\ p.mode = "escaped" => Lex(p, c) = [mode |-> "in", open |-> p.open]
         /\ p.mode = "in" => Lex(p, c) = [mode |-> IF c = "quote" THEN "out" ELSE IF c = "backslash" THEN "escaped" ELSE "in",
                                          open |-> p.open]
         /\ p.mode = "out" /\ c = "quote" => Lex(p, c) = [mode |-> "in", open |-> p.open]
         /\ p.mode = "out" /\ c \in Openers => Lex(p, c) = [mode |-> "out", open |-> <<c>> \o p.open]
         /\ p.mode = "out" /\ c \in Closers =>
              Lex(p, c) = IF p.open # <<>> /\ <<Head(p.open), c>> \in {<<"[", "]">>, <<"{", "}">>}
                          THEN [mode |-> "out", open |-> Tail(p.open)] ELSE [mode |-> "bad", open |-> p.open]
         /\ p.mode = "out" /\ c \in {"backslash", "lead", "trail"} => Lex(p, c) = [mode |-> "bad", open |-> p.open]
         /\ p.mode = "out" /\ c \in {"1", "s", ","} => Lex(p, c) = p
         /\ p.mode = "bad" => Lex(p, c) = p
<1>1. p = [mode |-> p.mode, open |-> p.open] BY DEF LexStates
<1>2. c \in Openers => c \notin Closers /\ c \notin {"quote", "backslash", "lead", "trail", "1", "s", ","} BY DEF Openers, Closers
<1>3. c \in Closers => c \notin {"quote", "backslash", "lead", "trail", "1", "s", ","} BY DEF Closers
<1>4. \A m : [p EXCEPT !.mode = m] = [mode |-> m, open |-> p.open] BY <1>1
<1>5. \A o : [p EXCEPT !.open = o] = [mode |-> p.mode, open |-> o] BY <1>1
<1>6. p.mode = "escaped" => Lex(p, c) = [p EXCEPT !.mode = "in"] BY DEF Lex
<1>7. p.mode = "in" => Lex(p, c) = IF c = "quote" THEN [p EXCEPT !.mode = "out"]
                                   ELSE IF c = "backslash" THEN [p EXCEPT !.mode = "escaped"] ELSE p
  BY DEF Lex
<1>8. p.mode = "out" /\ c = "quote" => Lex(p, c) = [p EXCEPT !.mode = "in"] BY <1>2, <1>3 DEF Lex
<1>9. p.mode = "out" /\ c \in Openers => Lex(p, c) = [p EXCEPT !.open = <<c>> \o p.open] BY <1>2 DEF Lex
<1>10. p.mode = "out" /\ c \in Closers =>
              Lex(p, c) = IF p.open # <<>> /\ <<Head(p.open), c>> \in {<<"[", "]">>, <<"{", "}">>}
                          THEN [p EXCEPT !.open = Tail(p.open)] ELSE [p EXCEPT !.mode = "bad"]
  BY <1>2, <1>3 DEF Lex
<1>11. p.mode = "out" /\ c \in {"backslash", "lead", "trail"} => Lex(p, c) = [p EXCEPT !.mode = "bad"]
  BY <1>2, <1>3 DEF Lex
<1>12. p.mode = "out" /\ c \in {"1", "s", ","} => Lex(p, c) = p BY <1>2, <1>3 DEF Lex
<1>13. p.mode = "bad" => Lex(p, c) = p BY DEF Lex
<1>14. p.mode = "escaped" => Lex(p, c) = [mode |-> "in", open |-> p.open] BY <1>4, <1>6
<1>15. p.mode = "in" => Lex(p, c) = [mode |-> IF c = "quote" THEN "out" ELSE IF c = "backslash" THEN "escaped" ELSE "in",
                                     open |-> p.open]
  BY <1>1, <1>4, <1>7
<1>16. p.mode = "out" /\ c = "quote" => Lex(p, c) = [mode |-> "in", open |-> p.open] BY <1>4, <1>8
<1>17. p.mode = "out" /\ c \in Openers => Lex(p, c) = [mode |-> "out", open |-> <<c>> \o p.open] BY <1>5, <1>9
<1>18. p.mode = "out" /\ c \in Closers =>
              Lex(p, c) = IF p.open # <<>> /\ <<Head(p.open), c>> \in {<<"[", "]">>, <<"{", "}">>}
                          THEN [mode |-> "out", open |-> Tail(p.open)] ELSE [mode |-> "bad", open |-> p.open]
  BY <1>4, <1>5, <1>10
<1>19. p.mode = "out" /\ c \in {"backslash", "lead", "trail"} => Lex(p, c) = [mode |-> "bad", open |-> p.open]
  BY <1>4, <1>11
<1> QED BY <1>12, <1>13, <1>14, <1>15, <1>16, <1>17, <1>18, <1>19

LEMMA LiftedStep ==
  ASSUME NEW p \in LexStates, NEW q \in LexStates, Lifted(p, q), NEW c \in AllBytes,
         ~(p = AtEnd /\ c = "]")
  PROVE  Lifted(Lex(p, c), Lex(q, c))
<1>1. p.mode \in {"in", "out", "escaped", "bad"} /\ p.open \in Seq(Openers) /\ q.open \in Seq(Openers) BY DEF LexStates
<1>2. CASE p.mode = "bad" BY <1>2, LexCases DEF Lifted
<1>3. ASSUME p.mode # "bad" PROVE q.mode = p.mode /\ Len(q.open) = Len(p.open) + 1
        /\ (\A i \in 1 .. Len(p.open) : q.open[i] = p.open[i]) /\ q.open[Len(p.open) + 1] = "["
  BY <1>3 DEF Lifted
<1>4. \A m \in {"in", "out", "escaped"} : p.mode # "bad" => Lifted([mode |-> m, open |-> p.open], [mode |-> m, open |-> q.open])
  BY <1>3 DEF Lifted
<1>5. CASE p.mode \in {"in", "escaped"}
  <2>1. \E m \in {"in", "out", "escaped"} : Lex(p, c) = [mode |-> m, open |-> p.open] /\ Lex(q, c) = [mode |-> m, open |-> q.open]
    <3>1. CASE p.mode = "escaped"
      <4>1. Lex(p, c) = [mode |-> "in", open |-> p.open] /\ Lex(q, c) = [mode |-> "in", open |-> q.open]
        BY <1>3, <3>1, LexCases
      <4> QED BY <4>1
    <3>2. CASE p.mode = "in"
      <4> DEFINE m == IF c = "quote" THEN "out" ELSE IF c = "backslash" THEN "escaped" ELSE "in"
      <4>1. Lex(p, c) = [mode |-> m, open |-> p.open] /\ Lex(q, c) = [mode |-> m, open |-> q.open]
        BY <1>3, <3>2, LexCases
      <4>2. m \in {"in", "out", "escaped"} OBVIOUS
      <4> HIDE DEF m
      <4> QED BY <4>1, <4>2
    <3> QED BY <1>5, <3>1, <3>2
  <2> QED BY <1>4, <1>5, <2>1
<1>6. CASE p.mode = "out"
  <2>0. q.mode = "out" /\ Len(q.open) = Len(p.open) + 1
        /\ (\A i \in 1 .. Len(p.open) : q.open[i] = p.open[i]) /\ q.open[Len(p.open) + 1] = "["
    BY <1>3, <1>6
  <2>1. CASE c = "quote"
    <3>1. Lex(p, c) = [mode |-> "in", open |-> p.open] /\ Lex(q, c) = [mode |-> "in", open |-> q.open]
      BY <1>6, <2>0, <2>1, LexCases
    <3> QED BY <1>4, <1>6, <3>1
  <2>2. CASE c \in Openers
    <3> DEFINE po == <<c>> \o p.open
               qo == <<c>> \o q.open
    <3>1. Lex(p, c) = [mode |-> "out", open |-> po] /\ Lex(q, c) = [mode |-> "out", open |-> qo]
      BY <1>6, <2>0, <2>2, LexCases
    <3>2. /\ Len(po) = Len(p.open) + 1 /\ Len(qo) = Len(q.open) + 1 /\ po[1] = c /\ qo[1] = c
          /\ (\A i \in 1 .. Len(p.open) : po[i + 1] = p.open[i]) /\ (\A i \in 1 .. Len(q.open) : qo[i + 1] = q.open[i])
      BY <1>1, <2>2
    <3> HIDE DEF po, qo
    <3>3. \A i \in 1 .. Len(po) : qo[i] = po[i]
      <4> TAKE i \in 1 .. Len(po)
      <4>1. CASE i = 1 BY <3>2, <4>1
      <4>2. CASE i # 1
        <5>1. i - 1 \in 1 .. Len(p.open) /\ i - 1 \in 1 .. Len(q.open) /\ (i - 1) + 1 = i BY <1>1, <2>0, <3>2, <4>2
        <5> QED BY <2>0, <3>2, <5>1
      <4> QED BY <4>1, <4>2
    <3>4. qo[Len(po) + 1] = "["
      <4>1. Len(po) = Len(q.open) /\ Len(q.open) \in 1 .. Len(q.open) BY <1>1, <2>0, <3>2
      <4> QED BY <2>0, <3>2, <4>1
    <3> QED BY <2>0, <3>1, <3>2, <3>3, <3>4 DEF Lifted
  <2>3. CASE c \in Closers
    <3>1. CASE p.open = <<>>
      <4>1. c = "}"
        <5>1. p = [mode |-> "out", open |-> <<>>] BY <1>6, <3>1 DEF LexStates
        <5> QED BY <2>3, <5>1 DEF AtEnd, Closers
      <4>2. Len(q.open) = 1 /\ q.open[1] = "[" BY <2>0, <3>1
      <4>3. Head(q.open) = "[" BY <1>1, <4>2
      <4>4. <<Head(q.open), c>> \notin {<<"[", "]">>, <<"{", "}">>}
        <5>1. PICK h : h = Head(q.open) OBVIOUS
        <5>2. h = "[" BY <4>3, <5>1
        <5>3. \A a, b, x, y : <<a, b>> = <<x, y>> => a = x /\ b = y OBVIOUS
        <5>4. <<h, c>> \notin {<<"[", "]">>, <<"{", "}">>} BY <4>1, <5>2, <5>3
        <5> QED BY <5>1, <5>4
      <4>5. Lex(p, c) = [mode |-> "bad", open |-> p.open] /\ Lex(q, c) = [mode |-> "bad", open |-> q.open]
        BY <1>6, <2>0, <2>3, <3>1, <4>4, LexCases
      <4> QED BY <4>5 DEF Lifted
    <3>2. CASE p.open # <<>>
      <4>1. Len(p.open) \in Nat \ {0} BY <1>1, <3>2
      <4>2. q.open # <<>> /\ Head(q.open) = Head(p.open)
        <5>1. Len(q.open) > 1 /\ 1 \in 1 .. Len(p.open) BY <1>1, <2>0, <4>1
        <5>2. q.open[1] = p.open[1] BY <2>0, <5>1
        <5> QED BY <1>1, <3>2, <5>1, <5>2
      <4> DEFINE po == Tail(p.open)
                 qo == Tail(q.open)
                 match == <<Head(p.open), c>> \in {<<"[", "]">>, <<"{", "}">>}
      <4>3. /\ Len(po) = Len(p.open) - 1 /\ Len(qo) = Len(q.open) - 1
            /\ (\A i \in 1 .. Len(po) : po[i] = p.open[i + 1]) /\ (\A i \in 1 .. Len(qo) : qo[i] = q.open[i + 1])
        BY <1>1, <3>2, <4>2
      <4>4. match => Lex(p, c) = [mode |-> "out", open |-> po] /\ Lex(q, c) = [mode |-> "out", open |-> qo]
        BY <1>6, <2>0, <2>3, <3>2, <4>2, LexCases
      <4>5. ~match => Lex(p, c) = [mode |-> "bad", open |-> p.open] /\ Lex(q, c) = [mode |-> "bad", open |-> q.open]
        BY <1>6, <2>0, <2>3, <3>2, <4>2, LexCases
      <4> HIDE DEF po, qo, match
      <4>6. \A i \in 1 .. Len(po) : qo[i] = po[i]
        <5> TAKE i \in 1 .. Len(po)
        <5>1. i \in 1 .. Len(qo) /\ i + 1 \in 1 .. Len(p.open) BY <2>0, <4>1, <4>3
        <5> QED BY <2>0, <4>3, <5>1
      <4>7. qo[Len(po) + 1] = "["
        <5>1. Len(po) + 1 \in 1 .. Len(qo) /\ (Len(po) + 1) + 1 = Len(p.open) + 1 BY <2>0, <4>1, <4>3
        <5> QED BY <2>0, <4>3, <5>1
      <4>8. Len(qo) = Len(po) + 1 BY <2>0, <4>1, <4>3
      <4> QED BY <4>4, <4>5, <4>6, <4>7, <4>8 DEF Lifted
    <3> QED BY <3>1, <3>2
  <2>4. CASE c \in {"backslash", "lead", "trail"}
    <3>1. Lex(p, c) = [mode |-> "bad", open |-> p.open] /\ Lex(q, c) = [mode |-> "bad", open |-> q.open]
      BY <1>6, <2>0, <2>4, LexCases
    <3> QED BY <3>1 DEF Lifted
  <2>5. CASE c \in {"1", "s", ","} BY <1>6, <2>0, <2>5, LexCases
  <2> QED BY <2>1, <2>2, <2>3, <2>4, <2>5 DEF AllBytes, Openers, Closers
<1> QED BY <1>1, <1>2, <1>5, <1>6

LEMMA ScannedTyped ==
  ASSUME NEW s \in ScanStates, NEW t \in Seq(Bytes)
  PROVE  Scanned(s, t) \in ScanStates
<1>1. PICK h : h[0] = s /\ h[Len(t)] = Scanned(s, t) /\ \A i \in 1 .. Len(t) : h[i] = Scan(h[i - 1], t[i])
  BY ScanIsARow
<1> DEFINE n == Len(t)
           bad == {i \in 0 .. n : h[i] \notin ScanStates}
<1>2. n \in Nat OBVIOUS
<1>3. 0 \notin bad BY <1>1
<1>4. \A i \in 1 .. n : i \in bad => i - 1 \in bad
  <2> TAKE i \in 1 .. n
  <2>1. i - 1 \in 0 .. n /\ t[i] \in Bytes OBVIOUS
  <2>2. h[i - 1] \in ScanStates => h[i] \in ScanStates BY <1>1, <2>1, ScanTyped
  <2> QED BY <2>1, <2>2
<1>5. bad = {}
  <2> HIDE DEF bad, n
  <2>1. bad \in SUBSET (0 .. n) BY DEF bad
  <2> QED BY <1>2, <1>3, <1>4, <2>1, Onwards
<1>6. n \in 0 .. n BY <1>2
<1> QED BY <1>1, <1>5, <1>6

StreamTyped ==
  /\ StreamTypeOK
  /\ held # <<>> => "lead" \in Bytes
  /\ scan.at \notin {"yielded", "incomplete"} => scan \in ScanStates

LEMMA StreamTypedStart == StreamInit => StreamTyped
<1> SUFFICES ASSUME StreamInit PROVE StreamTyped OBVIOUS
<1>1. <<>> \in Seq(Bytes) /\ <<>> \in Seq(Seq(Bytes)) /\ Len(<<>>) = 0 OBVIOUS
<1>2. scan = FreshScan /\ text = <<>> /\ held = <<>> BY DEF StreamInit
<1>3. scan \in ScanStates BY <1>1, <1>2 DEF FreshScan, ScanStates
<1>4. MaxBytes \in Nat BY StreamAssumption
<1> QED BY <1>1, <1>2, <1>3, <1>4 DEF StreamTyped, StreamTypeOK, FreshScan

LEMMA ReadChunkTyped ==
  ASSUME StreamTyped, NEW chunk \in Seq(Bytes), ReadChunk(chunk)
  PROVE  StreamTyped'
<1> DEFINE bytes == held \o chunk
<1>1. held \in Seq(Bytes)
  <2>1. held = <<>> \/ (held = <<"lead">> /\ "lead" \in Bytes)
    BY DEF StreamTyped, StreamTypeOK
  <2>2. CASE held = <<>> BY <2>2
  <2>3. CASE held # <<>>
    <3>1. held = <<"lead">> /\ "lead" \in Bytes BY <2>1, <2>3
    <3>2. \A x \in Bytes : <<x>> \in Seq(Bytes) OBVIOUS
    <3> QED BY <3>1, <3>2
  <2> QED BY <2>2, <2>3
<1>2. bytes \in Seq(Bytes) BY <1>1
<1>3. text' \in Seq(Bytes) /\ Len(text') <= MaxBytes
  <2>1. text \in Seq(Bytes) /\ MaxBytes \in Nat BY StreamAssumption DEF StreamTyped, StreamTypeOK
  <2> QED BY <2>1 DEF ReadChunk
<1> HIDE DEF bytes
<1>4. bytes # <<>> => Front(bytes) \in Seq(Bytes) /\ Last(bytes) \in Bytes
  <2> HAVE bytes # <<>>
  <2>1. Len(bytes) \in Nat \ {0} BY <1>2
  <2>2. \A i \in 1 .. (Len(bytes) - 1) : bytes[i] \in Bytes BY <1>2, <2>1
  <2> QED BY <1>2, <2>1, <2>2 DEF Front, Last
<1>5. Decode(chunk).characters \in Seq(Bytes) /\ Decode(chunk).held \in {<<>>, <<"lead">>}
      /\ (Decode(chunk).held # <<>> => "lead" \in Bytes)
  <2>1. Decode(chunk) = IF bytes # <<>> /\ Last(bytes) = "lead" THEN [characters |-> Front(bytes), held |-> <<"lead">>]
                        ELSE [characters |-> bytes, held |-> <<>>]
    BY DEF Decode, bytes
  <2> QED BY <1>2, <1>4, <2>1
<1>6. scan \in ScanStates BY DEF StreamTyped, ReadChunk
<1>7. scan' \in ScanStates
  <2>1. scan' = Scanned(scan, Decode(chunk).characters) \/ scan' = StreamFailed(scan) BY DEF ReadChunk, Scanned
  <2> QED BY <1>5, <1>6, <2>1, ScannedTyped, CompleteTyped
<1>8. held' = Decode(chunk).held BY DEF ReadChunk
<1>9. scan'.at \in {"before", "in", "finished", "failed"} BY <1>7 DEF ScanStates
<1>10. StreamTypeOK'
  <2>1. /\ scan'.expect \in {"value-or-end", "value", "comma-or-end"} /\ scan'.active \in BOOLEAN
        /\ scan'.inString \in BOOLEAN /\ scan'.escaped \in BOOLEAN /\ scan'.isPrimitive \in BOOLEAN
        /\ scan'.parts \in Seq(Bytes) /\ scan'.records \in Seq(Seq(Bytes)) /\ scan'.depth \in Nat
    BY <1>7 DEF ScanStates
  <2> QED BY <1>3, <1>5, <1>8, <1>9, <2>1 DEF StreamTypeOK
<1> QED BY <1>5, <1>7, <1>8, <1>10 DEF StreamTyped

LEMMA EndOfFileTyped ==
  ASSUME StreamTyped, EndOfFile
  PROVE  StreamTyped'
<1>1. scan \in ScanStates BY DEF StreamTyped, EndOfFile
<1> DEFINE at == IF held = <<>> /\ scan.at = "finished" THEN "yielded" ELSE "incomplete"
<1>2. scan' = [scan EXCEPT !.at = at] /\ held' = <<>> /\ text' = text /\ at \in {"yielded", "incomplete"} BY DEF EndOfFile
<1> HIDE DEF at
<1>3. /\ scan'.at = at /\ scan'.expect = scan.expect /\ scan'.active = scan.active /\ scan'.inString = scan.inString
      /\ scan'.escaped = scan.escaped /\ scan'.isPrimitive = scan.isPrimitive /\ scan'.parts = scan.parts
      /\ scan'.records = scan.records /\ scan'.depth = scan.depth
  BY <1>1, <1>2 DEF ScanStates
<1> QED BY <1>2, <1>3 DEF StreamTyped, StreamTypeOK

LEMMA StreamTypedStep == StreamTyped /\ [StreamNext]_streamVars => StreamTyped'
<1> SUFFICES ASSUME StreamTyped, [StreamNext]_streamVars PROVE StreamTyped' OBVIOUS
<1>1. ASSUME NEW b \in Bytes, ReadChunk(<<b>>) PROVE StreamTyped'
  <2>1. <<b>> \in Seq(Bytes) OBVIOUS
  <2> QED BY <1>1, <2>1, ReadChunkTyped
<1>2. ASSUME NEW b \in Bytes, NEW c \in Bytes, ReadChunk(<<b, c>>) PROVE StreamTyped'
  <2>1. <<b, c>> \in Seq(Bytes) OBVIOUS
  <2> QED BY <1>2, <2>1, ReadChunkTyped
<1>3. CASE EndOfFile BY <1>3, EndOfFileTyped
<1>4. CASE UNCHANGED streamVars BY <1>4 DEF streamVars, StreamTyped, StreamTypeOK
<1> QED BY <1>1, <1>2, <1>3, <1>4 DEF StreamNext

(* A text that goes on as another has begun.                               *)
Extends(w, t) == Len(t) <= Len(w) /\ \A i \in 1 .. Len(t) : w[i] = t[i]

Hopeless(t) == \A w \in Seq(AllBytes) : Extends(w, t) => ~IsArrayFile(w)

Blank(t, i, j) == \A k \in i .. j : t[k] = "s"

Commas(t) == {i \in 1 .. Len(t) : t[i] = "," /\ Lexed(t)[i] = InArray}
CutsIn(t) == {Min(Marks(t))} \cup Commas(t)

CutOf(C, k) == CHOOSE c \in C : Cardinality({d \in C : d <= c}) = k
Ranked(C)   == \A k \in 1 .. Cardinality(C) : \E c \in C : Cardinality({d \in C : d <= c}) = k

(* Of a set of places, each has a rank of its own.                         *)
LEMMA RankUnique ==
  ASSUME NEW n \in Nat, NEW C \in SUBSET (1 .. n), NEW c \in C, NEW x \in C,
         Cardinality({d \in C : d <= c}) = Cardinality({d \in C : d <= x})
  PROVE  c = x
<1>1. IsFiniteSet(C)
  <2>1. IsFiniteSet(1 .. n) BY FS_Interval
  <2> QED BY <2>1, FS_Subset
<1>2. ASSUME NEW y \in C, NEW z \in C, y < z
      PROVE  Cardinality({d \in C : d <= y}) # Cardinality({d \in C : d <= z})
  <2> DEFINE low == {d \in C : d <= y}
             high == {d \in C : d <= z}
  <2>0. y \in Nat /\ z \in Nat /\ \A d \in C : d \in Nat OBVIOUS
  <2>5. \A d : (d \in low <=> d \in C /\ d <= y) /\ (d \in high <=> d \in C /\ d <= z) OBVIOUS
  <2> HIDE DEF low, high
  <2>6. \A d \in low : d \in high
    <3> TAKE d \in low
    <3>1. d \in C /\ d \in Nat /\ d <= y BY <2>0, <2>5
    <3>2. d <= z BY <1>2, <2>0, <3>1
    <3> QED BY <2>5, <3>1, <3>2
  <2>7. z \in high /\ z \notin low BY <1>2, <2>0, <2>5
  <2>1. low \in SUBSET high /\ z \in high /\ z \notin low /\ high \in SUBSET C BY <2>5, <2>6, <2>7
  <2>2. IsFiniteSet(high) BY <1>1, <2>1, FS_Subset
  <2>3. Cardinality(low) = Cardinality(high) => low = high BY <2>1, <2>2, FS_Subset
  <2>4. Cardinality(low) # Cardinality(high) BY <2>1, <2>3
  <2> QED BY <2>4 DEF low, high
<1>3. ~(c < x) /\ ~(x < c) BY <1>2
<1>4. c \in Nat /\ x \in Nat OBVIOUS
<1> QED BY <1>3, <1>4

LEMMA CutOfIs ==
  ASSUME NEW n \in Nat, NEW C \in SUBSET (1 .. n), NEW c \in C
  PROVE  CutOf(C, Cardinality({d \in C : d <= c})) = c
<1> DEFINE k == Cardinality({d \in C : d <= c})
           x == CutOf(C, k)
<1>1. x \in C /\ Cardinality({d \in C : d <= x}) = k BY DEF CutOf
<1> HIDE DEF x
<1>2. x = c BY <1>1, RankUnique
<1> QED BY <1>2 DEF x

(* A place after all others is the last in rank and leaves theirs.         *)
LEMMA RankGrows ==
  ASSUME NEW n \in Nat, NEW C \in SUBSET (1 .. n), Ranked(C), NEW x \in Nat, x > n
  PROVE  /\ Ranked(C \cup {x}) /\ Cardinality(C \cup {x}) = Cardinality(C) + 1 /\ Cardinality(C) \in Nat
         /\ CutOf(C \cup {x}, Cardinality(C) + 1) = x
         /\ \A k \in 1 .. Cardinality(C) : CutOf(C \cup {x}, k) = CutOf(C, k) /\ CutOf(C, k) \in C
<1> DEFINE D == C \cup {x}
           N == Cardinality(C)
<1>1. IsFiniteSet(C)
  <2>1. IsFiniteSet(1 .. n) BY FS_Interval
  <2> QED BY <2>1, FS_Subset
<1>2. x \notin C OBVIOUS
<1>3. N \in Nat /\ Cardinality(D) = N + 1 BY <1>1, <1>2, FS_CardinalityType, FS_AddElement
<1>4. \A c \in C : {d \in D : d <= c} = {d \in C : d <= c} OBVIOUS
<1>5. {d \in D : d <= x} = D
  <2>1. \A d \in D : d <= x OBVIOUS
  <2> HIDE DEF D
  <2> QED BY <2>1
<1>6. x \in Nat /\ D \in SUBSET (1 .. x) /\ x \in D OBVIOUS
<1> HIDE DEF D, N
<1>7. CutOf(D, N + 1) = x
  <2>1. CutOf(D, Cardinality({d \in D : d <= x})) = x BY <1>6, CutOfIs
  <2> QED BY <1>3, <1>5, <2>1
<1>8. ASSUME NEW k \in 1 .. N PROVE CutOf(D, k) = CutOf(C, k) /\ CutOf(C, k) \in C
  <2>1. PICK c \in C : Cardinality({d \in C : d <= c}) = k BY DEF Ranked, N
  <2>2. CutOf(C, k) = c BY <2>1, CutOfIs
  <2>3. c \in D BY DEF D
  <2>4. Cardinality({d \in D : d <= c}) = k BY <1>4, <2>1
  <2>5. CutOf(D, Cardinality({d \in D : d <= c})) = c BY <1>6, <2>3, CutOfIs
  <2> QED BY <2>2, <2>4, <2>5
<1>9. Ranked(D)
  <2> SUFFICES ASSUME NEW k \in 1 .. Cardinality(D) PROVE \E c \in D : Cardinality({d \in D : d <= c}) = k
    BY DEF Ranked
  <2>1. CASE k = N + 1 BY <1>3, <1>5, <1>6, <2>1
  <2>2. CASE k # N + 1
    <3>1. k \in 1 .. N BY <1>3, <2>2
    <3>2. PICK c \in C : Cardinality({d \in C : d <= c}) = k BY <3>1 DEF Ranked, N
    <3>3. c \in D /\ Cardinality({d \in D : d <= c}) = k BY <1>4, <3>2 DEF D
    <3> QED BY <3>3
  <2> QED BY <2>1, <2>2
<1> QED BY <1>3, <1>7, <1>8, <1>9 DEF D, N

LEMMA RankOne ==
  ASSUME NEW x \in Nat
  PROVE  Ranked({x}) /\ Cardinality({x}) = 1 /\ CutOf({x}, 1) = x
<1> DEFINE C == {x}
<1>1. Cardinality(C) = 1 BY FS_Singleton
<1>2. {d \in C : d <= x} = C OBVIOUS
<1>3. x \in C OBVIOUS
<1>4. \A c \in C : c = x OBVIOUS
<1> HIDE DEF C
<1>5. Ranked(C)
  <2> SUFFICES ASSUME NEW k \in 1 .. Cardinality(C) PROVE \E c \in C : Cardinality({d \in C : d <= c}) = k BY DEF Ranked
  <2>1. k = 1 BY <1>1
  <2> QED BY <1>1, <1>2, <1>3, <2>1
<1>6. CutOf(C, 1) = x BY <1>1, <1>2, <1>3, <1>4 DEF CutOf
<1> QED BY <1>1, <1>5, <1>6 DEF C

----
(* The first and the last that is not blank.                               *)
LEMMA MarksAre ==
  ASSUME NEW A, NEW t \in Seq(A)
  PROVE  /\ Marks(t) \in SUBSET (1 .. Len(t)) /\ Marks(t) \in SUBSET Nat /\ Marks(t) \in SUBSET (0 .. Len(t))
         /\ \A i \in 1 .. Len(t) : i \in Marks(t) <=> t[i] # "s"
BY DEF Marks

LEMMA EndsOf ==
  ASSUME NEW A, NEW t \in Seq(A), Marks(t) # {}
  PROVE  /\ Min(Marks(t)) \in 1 .. Len(t) /\ t[Min(Marks(t))] # "s" /\ Blank(t, 1, Min(Marks(t)) - 1)
         /\ Max(Marks(t)) \in 1 .. Len(t) /\ t[Max(Marks(t))] # "s" /\ Blank(t, Max(Marks(t)) + 1, Len(t))
         /\ \A i \in 1 .. Len(t) : t[i] # "s" => Min(Marks(t)) <= i /\ i <= Max(Marks(t))
<1> DEFINE M == Marks(t)
           a == Min(M)
           z == Max(M)
<1>1. /\ M \in SUBSET (1 .. Len(t)) /\ M \in SUBSET Nat /\ M \in SUBSET (0 .. Len(t))
      /\ \A i \in 1 .. Len(t) : i \in M <=> t[i] # "s"
  BY MarksAre
<1>2. Len(t) \in Nat /\ M # {} OBVIOUS
<1> HIDE DEF M
<1>3. a \in M /\ \A y \in M : a <= y BY <1>1, <1>2, LeastOf
<1>4. z \in M /\ \A y \in M : z >= y BY <1>1, <1>2, GreatestOf
<1> HIDE DEF a, z
<1>5. a \in 1 .. Len(t) /\ z \in 1 .. Len(t) /\ t[a] # "s" /\ t[z] # "s" BY <1>1, <1>3, <1>4
<1>6. \A i \in 1 .. Len(t) : t[i] # "s" => a <= i /\ i <= z BY <1>1, <1>3, <1>4
<1>7. Blank(t, 1, a - 1)
  <2>1. \A i \in 1 .. (a - 1) : i \in 1 .. Len(t) /\ ~(a <= i) BY <1>2, <1>5
  <2> QED BY <1>6, <2>1 DEF Blank
<1>8. Blank(t, z + 1, Len(t))
  <2>1. \A i \in (z + 1) .. Len(t) : i \in 1 .. Len(t) /\ ~(i <= z) BY <1>2, <1>5
  <2> QED BY <1>6, <2>1 DEF Blank
<1> QED BY <1>5, <1>6, <1>7, <1>8 DEF a, z, M

(* The first and last mark, from what lies outside.                        *)
LEMMA MarksFound ==
  ASSUME NEW A, NEW t \in Seq(A), NEW m \in 1 .. Len(t), NEW r \in 1 .. Len(t), m <= r, t[m] # "s", t[r] # "s",
         Blank(t, 1, m - 1), Blank(t, r + 1, Len(t))
  PROVE  Marks(t) # {} /\ Min(Marks(t)) = m /\ Max(Marks(t)) = r
<1>1. Marks(t) # {} BY DEF Marks
<1>2. \A i \in 1 .. Len(t) : t[i] # "s" => m <= i /\ i <= r
  <2> TAKE i \in 1 .. Len(t)
  <2> HAVE t[i] # "s"
  <2>1. ~(i \in 1 .. (m - 1)) /\ ~(i \in (r + 1) .. Len(t)) BY DEF Blank
  <2> QED BY <2>1
<1>3. PICK a, z : a = Min(Marks(t)) /\ z = Max(Marks(t)) OBVIOUS
<1>4. /\ a \in 1 .. Len(t) /\ t[a] # "s" /\ z \in 1 .. Len(t) /\ t[z] # "s"
      /\ \A i \in 1 .. Len(t) : t[i] # "s" => a <= i /\ i <= z
  BY <1>1, <1>3, EndsOf
<1>5. a = m /\ z = r BY <1>2, <1>4
<1> QED BY <1>1, <1>3, <1>5

LEMMA NoMarks ==
  ASSUME NEW A, NEW t \in Seq(A)
  PROVE  Marks(t) = {} <=> Blank(t, 1, Len(t))
BY DEF Marks, Blank

----
(* What lies between two places.                                           *)
LEMMA TrimmedBetween ==
  ASSUME NEW A, NEW t \in Seq(A), NEW l \in Nat, NEW n \in 1 .. (Len(t) + 1), NEW m \in 1 .. Len(t), NEW r \in 1 .. Len(t),
         l < m, m <= r, r < n, t[m] # "s", t[r] # "s", Blank(t, l + 1, m - 1), Blank(t, r + 1, n - 1)
  PROVE  Between(t, l, n) = SubSeq(t, m, r)
<1> DEFINE u == SubSeq(t, l + 1, n - 1)
           h == m - l
           j == r - l
<1>1. u \in Seq(A) /\ Len(u) = n - 1 - l /\ \A i \in 1 .. Len(u) : u[i] = t[l + i] /\ l + i \in 1 .. Len(t)
  <2>1. l + 1 \in 1 .. Len(t) /\ n - 1 \in 1 .. Len(t) /\ Len(t) \in Nat /\ l + 1 <= n - 1 OBVIOUS
  <2> QED BY <2>1
<1> HIDE DEF u
<1>2. h \in 1 .. Len(u) /\ j \in 1 .. Len(u) /\ h <= j /\ l + h = m /\ l + j = r BY <1>1
<1> HIDE DEF h, j
<1>3. u[h] # "s" /\ u[j] # "s" BY <1>1, <1>2
<1>4. Blank(u, 1, h - 1)
  <2> SUFFICES ASSUME NEW i \in 1 .. (h - 1) PROVE u[i] = "s" BY DEF Blank
  <2>1. i \in 1 .. Len(u) /\ l + i \in (l + 1) .. (m - 1) BY <1>1, <1>2
  <2> QED BY <1>1, <2>1 DEF Blank
<1>5. Blank(u, j + 1, Len(u))
  <2> SUFFICES ASSUME NEW i \in (j + 1) .. Len(u) PROVE u[i] = "s" BY DEF Blank
  <2>1. i \in 1 .. Len(u) /\ l + i \in (r + 1) .. (n - 1) BY <1>1, <1>2
  <2> QED BY <1>1, <2>1 DEF Blank
<1>6. Marks(u) # {} /\ Min(Marks(u)) = h /\ Max(Marks(u)) = j BY <1>1, <1>2, <1>3, <1>4, <1>5, MarksFound
<1>7. Between(t, l, n) = SubSeq(u, h, j) BY <1>6 DEF Between, Trimmed, u
<1>8. SubSeq(u, h, j) = SubSeq(t, m, r)
  <2> DEFINE x == SubSeq(u, h, j)
             y == SubSeq(t, m, r)
  <2>1. x \in Seq(A) /\ Len(x) = j - h + 1 /\ \A i \in 1 .. Len(x) : x[i] = u[h + i - 1]
    BY <1>1, <1>2
  <2>2. y \in Seq(A) /\ Len(y) = r - m + 1 /\ \A i \in 1 .. Len(y) : y[i] = t[m + i - 1]
    OBVIOUS
  <2> HIDE DEF x, y
  <2>3. Len(x) = Len(y) BY <1>1, <1>2, <2>1, <2>2
  <2>4. \A i \in 1 .. Len(x) : x[i] = y[i]
    <3> TAKE i \in 1 .. Len(x)
    <3>1. h + i - 1 \in 1 .. Len(u) /\ l + (h + i - 1) = m + i - 1 BY <1>1, <1>2, <2>1
    <3> QED BY <1>1, <2>1, <2>2, <2>3, <3>1
  <2>5. x = y BY <2>1, <2>2, <2>3, <2>4
  <2> QED BY <2>5 DEF x, y
<1> QED BY <1>7, <1>8

LEMMA BetweenBlank ==
  ASSUME NEW A, NEW t \in Seq(A), NEW l \in Nat, NEW n \in 1 .. (Len(t) + 1), l < n, Blank(t, l + 1, n - 1)
  PROVE  Between(t, l, n) = <<>>
<1> DEFINE u == SubSeq(t, l + 1, n - 1)
<1>1. u \in Seq(A) /\ Len(u) = n - 1 - l /\ \A i \in 1 .. Len(u) : u[i] = t[l + i] /\ l + i \in (l + 1) .. (n - 1)
  <2>1. Len(t) \in Nat /\ n - 1 \in Nat /\ l + 1 <= n OBVIOUS
  <2> QED BY <2>1
<1> HIDE DEF u
<1>2. Marks(u) = {} BY <1>1 DEF Marks, Blank
<1> QED BY <1>2 DEF Between, Trimmed, u

LEMMA BetweenSame ==
  ASSUME NEW A, NEW t \in Seq(A), NEW w \in Seq(A), NEW l \in Nat, NEW n \in 1 .. (Len(t) + 1), l < n, Extends(w, t)
  PROVE  Between(w, l, n) = Between(t, l, n)
<1> DEFINE x == SubSeq(t, l + 1, n - 1)
           y == SubSeq(w, l + 1, n - 1)
<1>1. Len(t) <= Len(w) /\ \A i \in 1 .. Len(t) : w[i] = t[i] BY DEF Extends
<1>2. x \in Seq(A) /\ Len(x) = n - 1 - l /\ \A i \in 1 .. Len(x) : x[i] = t[l + i] /\ l + i \in 1 .. Len(t)
  <2>1. Len(t) \in Nat /\ n - 1 \in Nat /\ l + 1 <= n OBVIOUS
  <2> QED BY <2>1
<1>3. y \in Seq(A) /\ Len(y) = n - 1 - l /\ \A i \in 1 .. Len(y) : y[i] = w[l + i]
  <2>1. Len(w) \in Nat /\ n - 1 \in Nat /\ l + 1 <= n /\ n - 1 <= Len(w) BY <1>1
  <2> QED BY <2>1
<1> HIDE DEF x, y
<1>4. x = y BY <1>1, <1>2, <1>3
<1> QED BY <1>4 DEF Between, x, y

(* With a mark among it, it has a last one.                                *)
LEMMA BetweenHas ==
  ASSUME NEW A, NEW t \in Seq(A), NEW l \in Nat, NEW n \in 1 .. (Len(t) + 1), NEW m \in 1 .. Len(t), NEW q \in 1 .. Len(t),
         l < m, m <= q, q < n, t[m] # "s", t[q] # "s", Blank(t, l + 1, m - 1)
  PROVE  \E r \in q .. (n - 1) : t[r] # "s" /\ Between(t, l, n) = SubSeq(t, m, r)
<1> DEFINE S == {i \in q .. (n - 1) : t[i] # "s"}
           r == Max(S)
<1>1. n - 1 \in Nat /\ q \in S OBVIOUS
<1>2. S \in SUBSET (0 .. (n - 1)) /\ S # {} BY <1>1
<1> HIDE DEF S
<1>3. r \in S /\ \A y \in S : r >= y BY <1>1, <1>2, GreatestOf
<1> HIDE DEF r
<1>4. r \in q .. (n - 1) /\ t[r] # "s" /\ r \in 1 .. Len(t) BY <1>3 DEF S
<1>5. Blank(t, r + 1, n - 1)
  <2> SUFFICES ASSUME NEW i \in (r + 1) .. (n - 1), t[i] # "s" PROVE FALSE BY DEF Blank
  <2>1. i \in S BY <1>4 DEF S
  <2> QED BY <1>3, <1>4, <2>1
<1>6. Between(t, l, n) = SubSeq(t, m, r) BY <1>4, <1>5, TrimmedBetween
<1> QED BY <1>4, <1>6

(* Blanks between values leave the lexer where it is.                      *)
LEMMA BlanksLex ==
  ASSUME NEW t \in Seq(AllBytes), NEW i \in 1 .. (Len(t) + 1), NEW j \in i .. (Len(t) + 1), Blank(t, i, j - 1),
         Lexed(t)[i].mode = "out"
  PROVE  \A k \in i .. j : Lexed(t)[k] = Lexed(t)[i]
<1> DEFINE L == Lexed(t)
           n == j - i
           bad == {k \in 0 .. n : L[i + k] # L[i]}
<1>1. n \in Nat /\ i \in Nat /\ j \in Nat OBVIOUS
<1>2. L \in Seq(LexStates) /\ Len(L) = Len(t) + 1 /\ \A k \in 1 .. Len(t) : L[k + 1] = Lex(L[k], t[k]) BY LexedIs
<1>3. L[i] \in LexStates /\ L[i].mode = "out" BY <1>2
<1> HIDE DEF L
<1>4. 0 \notin bad BY <1>1
<1>5. \A k \in 1 .. n : k \in bad => k - 1 \in bad
  <2> TAKE k \in 1 .. n
  <2> DEFINE q == i + (k - 1)
  <2>1. k - 1 \in 0 .. n /\ i + k = q + 1 /\ q \in i .. (j - 1) /\ q \in 1 .. Len(t) BY <1>1
  <2> HIDE DEF q
  <2>2. L[q + 1] = Lex(L[q], t[q]) /\ t[q] = "s" BY <1>2, <2>1 DEF Blank
  <2>3. L[q] = L[i] => L[q + 1] = L[i] BY <1>3, <2>2, BlankLex
  <2> QED BY <2>1, <2>3 DEF q
<1>6. bad = {}
  <2> HIDE DEF bad, n
  <2>1. bad \in SUBSET (0 .. n) BY DEF bad
  <2> QED BY <1>1, <1>4, <1>5, <2>1, Onwards
<1>7. \A k \in i .. j : k - i \in 0 .. n /\ i + (k - i) = k BY <1>1
<1> QED BY <1>6, <1>7 DEF L

LEMMA AtEndIs == AtEnd.mode = "out" /\ AtEnd \in LexStates
BY AtEndTyped DEF AtEnd

LEMMA LexedBefore ==
  ASSUME NEW t \in Seq(AllBytes), NEW j \in 1 .. (Len(t) + 1), Blank(t, 1, j - 1)
  PROVE  Lexed(t)[j] = AtEnd
<1>1. Lexed(t)[1] = AtEnd BY LexedIs
<1>2. 1 \in 1 .. (Len(t) + 1) /\ j \in 1 .. j /\ j \in Nat OBVIOUS
<1> QED BY <1>1, <1>2, AtEndIs, BlanksLex

(* The whole text: where it begins and ends, and nowhere else.             *)
Bracketed(w) ==
  /\ Marks(w) # {} /\ w[Min(Marks(w))] = "[" /\ w[Max(Marks(w))] = "]"
  /\ Lexed(w)[Max(Marks(w)) + 1] = AtEnd
  /\ \A i \in (Min(Marks(w)) + 1) .. Max(Marks(w)) : Lexed(w)[i] # AtEnd

LEMMA TrimmedIs ==
  ASSUME NEW w \in Seq(AllBytes), Marks(w) # {}
  PROVE  /\ Trimmed(w) \in Seq(AllBytes) /\ Len(Trimmed(w)) = Max(Marks(w)) - Min(Marks(w)) + 1 /\ Trimmed(w) # <<>>
         /\ \A i \in 1 .. Len(Trimmed(w)) : Trimmed(w)[i] = w[Min(Marks(w)) - 1 + i]
         /\ Head(Trimmed(w)) = w[Min(Marks(w))] /\ Last(Trimmed(w)) = w[Max(Marks(w))]
         /\ \A i \in 1 .. (Len(Trimmed(w)) + 1) : Lexed(Trimmed(w))[i] = Lexed(w)[Min(Marks(w)) - 1 + i]
<1>1. PICK a, z : a = Min(Marks(w)) /\ z = Max(Marks(w)) OBVIOUS
<1>2. /\ a \in 1 .. Len(w) /\ z \in 1 .. Len(w) /\ a <= z /\ Blank(w, 1, a - 1) BY <1>1, EndsOf
<1> DEFINE u == Trimmed(w)
<1>3. u = SubSeq(w, a, z) BY <1>1 DEF Trimmed
<1> HIDE DEF u
<1>4. u \in Seq(AllBytes) /\ Len(u) = z - a + 1 /\ \A i \in 1 .. Len(u) : u[i] = w[a - 1 + i]
  <2>1. Len(w) \in Nat /\ a \in Nat /\ z \in Nat BY <1>2
  <2>2. \A i \in 1 .. (z - a + 1) : a + i - 1 = a - 1 + i BY <2>1
  <2> QED BY <1>2, <1>3, <2>1, <2>2
<1>5. Len(u) \in Nat \ {0} /\ u # <<>> BY <1>2, <1>4
<1>6. Head(u) = w[a] /\ Last(u) = w[z]
  <2>1. Head(u) = u[1] /\ Last(u) = u[Len(u)] BY <1>4, <1>5 DEF Last
  <2>2. a - 1 + 1 = a /\ a - 1 + Len(u) = z /\ 1 \in 1 .. Len(u) /\ Len(u) \in 1 .. Len(u) BY <1>2, <1>4, <1>5
  <2> QED BY <1>4, <2>1, <2>2
<1>7. \A i \in 1 .. (Len(u) + 1) : Lexed(u)[i] = Lexed(w)[a - 1 + i]
  <2> DEFINE m == a - 1
  <2>1. Lexed(w)[a] = AtEnd
    <3>1. a \in 1 .. (Len(w) + 1) BY <1>2
    <3> QED BY <1>2, <3>1, LexedBefore
  <2>2. m \in Nat /\ m + 1 = a /\ m + Len(u) <= Len(w) BY <1>2, <1>4
  <2>3. \A i \in 1 .. Len(u) : u[i] = w[m + i] BY <1>4
  <2> HIDE DEF m
  <2>4. Lexed(w)[m + 1] = AtEnd BY <2>1, <2>2
  <2>6. m \in Nat BY <2>2
  <2>7. m + Len(u) <= Len(w) BY <2>2
  <2>8. u \in Seq(AllBytes) BY <1>4
  <2>5. \A i \in 1 .. (Len(u) + 1) : Lexed(u)[i] = Lexed(w)[m + i] BY <2>6, <2>7, <2>8, <2>3, <2>4, LexedWithin
  <2> QED BY <2>5 DEF m
<1> QED BY <1>1, <1>4, <1>5, <1>6, <1>7 DEF u

LEMMA OnlyOnes ==
  ASSUME NEW t \in Seq(AllBytes), t # <<>>, t[1] \in Openers \cup {"quote"}
  PROVE  Parses(t) <=> Lexed(t)[Len(t) + 1] = AtEnd /\ \A i \in 2 .. Len(t) : Lexed(t)[i] # AtEnd
<1> DEFINE L == Lexed(t)
           n == Len(t)
           ends == {i \in DOMAIN L : L[i] = AtEnd}
<1>1. n \in Nat /\ n >= 1 /\ DOMAIN t = 1 .. n OBVIOUS
<1>2. L \in Seq(LexStates) /\ Len(L) = n + 1 /\ L[1] = AtEnd BY LexedIs
<1>3. DOMAIN L = 1 .. (n + 1) BY <1>2
<1>4. t[1] # "1" BY DEF Openers
<1>5. Parses(t) <=> ends = {1, n + 1}
  <2>1. ~\A i \in DOMAIN t : t[i] = "1" BY <1>1, <1>4
  <2> QED BY <1>2, <2>1 DEF Parses
<1> HIDE DEF L, n
<1>6. ends = {1, n + 1} <=> L[n + 1] = AtEnd /\ \A i \in 2 .. n : L[i] # AtEnd
  <2>1. n + 1 \in 1 .. (n + 1) /\ 1 \in 1 .. (n + 1) /\ (\A i \in 2 .. n : i \in 1 .. (n + 1) /\ i # 1 /\ i # n + 1)
        /\ \A i \in 1 .. (n + 1) : i = 1 \/ i = n + 1 \/ i \in 2 .. n
    BY <1>1
  <2>2. \A i : i \in ends <=> i \in 1 .. (n + 1) /\ L[i] = AtEnd BY <1>3
  <2> HIDE DEF ends
  <2>3. ASSUME ends = {1, n + 1} PROVE L[n + 1] = AtEnd /\ \A i \in 2 .. n : L[i] # AtEnd
    BY <2>1, <2>2, <2>3
  <2>4. ASSUME L[n + 1] = AtEnd, \A i \in 2 .. n : L[i] # AtEnd PROVE ends = {1, n + 1}
    <3>1. \A i : i \in ends <=> i \in {1, n + 1} BY <1>2, <2>1, <2>2, <2>4
    <3> QED BY <3>1
  <2> QED BY <2>3, <2>4
<1> QED BY <1>5, <1>6 DEF L, n

LEMMA ArrayFileIs ==
  ASSUME NEW w \in Seq(AllBytes)
  PROVE  IsArrayFile(w) <=> Bracketed(w) /\ IsUtf8(w) /\ \A k \in DOMAIN ElementsOf(w) : Parses(ElementsOf(w)[k])
<1>1. Marks(w) = {} => Trimmed(w) = <<>> BY DEF Trimmed
<1>2. CASE Marks(w) = {} BY <1>1, <1>2 DEF IsArrayFile, Bracketed
<1>3. CASE Marks(w) # {}
  <2>1. PICK a, z : a = Min(Marks(w)) /\ z = Max(Marks(w)) OBVIOUS
  <2>2. a \in 1 .. Len(w) /\ z \in 1 .. Len(w) /\ a <= z BY <1>3, <2>1, EndsOf
  <2>3. PICK u : u = Trimmed(w) OBVIOUS
  <2>4. /\ u \in Seq(AllBytes) /\ Len(u) = z - a + 1 /\ u # <<>> /\ Head(u) = w[a] /\ Last(u) = w[z]
        /\ (\A i \in 1 .. Len(u) : u[i] = w[a - 1 + i])
        /\ \A i \in 1 .. (Len(u) + 1) : Lexed(u)[i] = Lexed(w)[a - 1 + i]
    BY <1>3, <2>1, <2>3, TrimmedIs
  <2>5. ASSUME w[a] = "[" PROVE Parses(u) <=> Lexed(w)[z + 1] = AtEnd /\ \A i \in (a + 1) .. z : Lexed(w)[i] # AtEnd
    <3>1. u[1] = "["
      <4>1. 1 \in 1 .. Len(u) /\ a - 1 + 1 = a BY <2>2, <2>4
      <4> QED BY <2>4, <2>5, <4>1
    <3>2. Parses(u) <=> Lexed(u)[Len(u) + 1] = AtEnd /\ \A i \in 2 .. Len(u) : Lexed(u)[i] # AtEnd
      BY <2>4, <3>1, OnlyOnes DEF Openers
    <3>3. Lexed(u)[Len(u) + 1] = Lexed(w)[z + 1]
      <4>1. Len(u) + 1 \in 1 .. (Len(u) + 1) /\ a - 1 + (Len(u) + 1) = z + 1 BY <2>2, <2>4
      <4> QED BY <2>4, <4>1
    <3>4. (\A i \in 2 .. Len(u) : Lexed(u)[i] # AtEnd) <=> \A i \in (a + 1) .. z : Lexed(w)[i] # AtEnd
      <4>1. ASSUME \A i \in 2 .. Len(u) : Lexed(u)[i] # AtEnd, NEW i \in (a + 1) .. z PROVE Lexed(w)[i] # AtEnd
        <5>1. i - a + 1 \in 2 .. Len(u) /\ i - a + 1 \in 1 .. (Len(u) + 1) /\ a - 1 + (i - a + 1) = i BY <2>2, <2>4
        <5> QED BY <2>4, <4>1, <5>1
      <4>2. ASSUME \A i \in (a + 1) .. z : Lexed(w)[i] # AtEnd, NEW i \in 2 .. Len(u) PROVE Lexed(u)[i] # AtEnd
        <5>1. a - 1 + i \in (a + 1) .. z /\ i \in 1 .. (Len(u) + 1) BY <2>2, <2>4
        <5> QED BY <2>4, <4>2, <5>1
      <4> QED BY <4>1, <4>2
    <3> QED BY <3>2, <3>3, <3>4
  <2>6. Bracketed(w) <=> /\ w[a] = "[" /\ w[z] = "]" /\ Lexed(w)[z + 1] = AtEnd
                         /\ \A i \in (a + 1) .. z : Lexed(w)[i] # AtEnd
    BY <1>3, <2>1 DEF Bracketed
  <2>7. IsArrayFile(w) <=> /\ w[a] = "[" /\ w[z] = "]" /\ IsUtf8(w) /\ Parses(u)
                           /\ \A k \in DOMAIN ElementsOf(w) : Parses(ElementsOf(w)[k])
    BY <2>3, <2>4 DEF IsArrayFile
  <2> QED BY <2>5, <2>6, <2>7
<1> QED BY <1>2, <1>3

(* After the closing bracket there is nothing.                             *)
LEMMA BracketedEnd ==
  ASSUME NEW w \in Seq(AllBytes), Bracketed(w)
  PROVE  \A i \in (Max(Marks(w)) + 1) .. (Len(w) + 1) : Lexed(w)[i] = AtEnd
<1>1. PICK z : z = Max(Marks(w)) OBVIOUS
<1>2. z \in 1 .. Len(w) /\ Blank(w, z + 1, Len(w)) BY <1>1, EndsOf DEF Bracketed
<1>3. Lexed(w)[z + 1] = AtEnd BY <1>1 DEF Bracketed
<1> DEFINE i == z + 1
           j == Len(w) + 1
<1>4. i \in 1 .. (Len(w) + 1) /\ j \in i .. (Len(w) + 1) /\ j - 1 = Len(w) BY <1>2
<1>5. Blank(w, i, j - 1) BY <1>2, <1>4
<1>6. Lexed(w)[i] = AtEnd BY <1>3
<1> HIDE DEF i, j
<1>7. \A k \in i .. j : Lexed(w)[k] = AtEnd BY <1>4, <1>5, <1>6, AtEndIs, BlanksLex
<1> QED BY <1>1, <1>7 DEF i, j

(* What a text has shown, every text that goes on from it has.             *)
LEMMA ExtendsIs ==
  ASSUME NEW t \in Seq(AllBytes), NEW w \in Seq(AllBytes), Extends(w, t)
  PROVE  /\ Len(t) <= Len(w) /\ \A i \in 1 .. Len(t) : w[i] = t[i] /\ i \in 1 .. Len(w)
         /\ \A i \in 1 .. (Len(t) + 1) : Lexed(w)[i] = Lexed(t)[i]
         /\ IsUtf8(w) => IsUtf8(t)
<1>1. Len(t) <= Len(w) /\ (\A i \in 1 .. Len(t) : w[i] = t[i]) /\ Len(t) \in Nat /\ Len(w) \in Nat BY DEF Extends
<1>2. \A i \in 1 .. Len(t) : i \in 1 .. Len(w) BY <1>1
<1>3. \A i \in 1 .. (Len(t) + 1) : Lexed(w)[i] = Lexed(t)[i] BY <1>1, LexedAgree
<1>4. IsUtf8(w) => IsUtf8(t)
  <2> SUFFICES ASSUME IsUtf8(w), NEW i \in 1 .. Len(t)
               PROVE  /\ t[i] = "lead" /\ i < Len(t) => t[i + 1] = "trail"
                      /\ t[i] = "trail" => i > 1 /\ t[i - 1] = "lead"
    BY DEF IsUtf8
  <2>1. i \in 1 .. Len(w) /\ w[i] = t[i] /\ (i < Len(t) => i < Len(w) /\ w[i + 1] = t[i + 1])
        /\ (i > 1 => w[i - 1] = t[i - 1])
    <3>1. i < Len(t) => i + 1 \in 1 .. Len(t) BY <1>1
    <3>2. i > 1 => i - 1 \in 1 .. Len(t) BY <1>1
    <3> QED BY <1>1, <1>2, <3>1, <3>2
  <2>2. /\ w[i] = "lead" /\ i < Len(w) => w[i + 1] = "trail"
        /\ w[i] = "trail" => i > 1 /\ w[i - 1] = "lead"
    BY <2>1 DEF IsUtf8
  <2> QED BY <2>1, <2>2
<1> QED BY <1>1, <1>2, <1>3, <1>4

LEMMA ExtendsMore ==
  ASSUME NEW t \in Seq(AllBytes), NEW u \in Seq(AllBytes), NEW w \in Seq(AllBytes), Extends(u, t), Extends(w, u)
  PROVE  Extends(w, t)
<1>1. Len(t) <= Len(u) /\ Len(u) <= Len(w) /\ Len(t) \in Nat /\ Len(u) \in Nat /\ Len(w) \in Nat BY DEF Extends
<1>2. \A i \in 1 .. Len(t) : i \in 1 .. Len(u) BY <1>1
<1> QED BY <1>1, <1>2 DEF Extends

LEMMA HopelessMore ==
  ASSUME NEW t \in Seq(AllBytes), NEW u \in Seq(AllBytes), Extends(u, t), Hopeless(t)
  PROVE  Hopeless(u)
BY ExtendsMore DEF Hopeless

LEMMA FirstMark ==
  ASSUME NEW t \in Seq(AllBytes), NEW w \in Seq(AllBytes), Extends(w, t), Marks(t) # {}
  PROVE  Marks(w) # {} /\ Min(Marks(w)) = Min(Marks(t)) /\ Max(Marks(t)) <= Max(Marks(w))
<1>1. PICK a, z : a = Min(Marks(t)) /\ z = Max(Marks(t)) OBVIOUS
<1>2. /\ a \in 1 .. Len(t) /\ t[a] # "s" /\ Blank(t, 1, a - 1) /\ z \in 1 .. Len(t) /\ t[z] # "s"
  BY <1>1, EndsOf
<1>3. (\A i \in 1 .. Len(t) : w[i] = t[i]) /\ \A i \in 1 .. Len(t) : i \in 1 .. Len(w) BY ExtendsIs
<1>4. w[a] # "s" /\ w[z] # "s" /\ a \in 1 .. Len(w) /\ z \in 1 .. Len(w) BY <1>2, <1>3
<1>5. Marks(w) # {} BY <1>4 DEF Marks
<1>6. PICK b, y : b = Min(Marks(w)) /\ y = Max(Marks(w)) OBVIOUS
<1>7. b \in 1 .. Len(w) /\ w[b] # "s" /\ \A i \in 1 .. Len(w) : w[i] # "s" => b <= i /\ i <= y BY <1>5, <1>6, EndsOf
<1>8. b <= a /\ z <= y BY <1>4, <1>7
<1>9. ~(b < a)
  <2> SUFFICES ASSUME b < a PROVE FALSE OBVIOUS
  <2>1. b \in 1 .. (a - 1) /\ b \in 1 .. Len(t) BY <1>2, <1>7
  <2> QED BY <1>2, <1>3, <1>7, <2>1 DEF Blank
<1>10. a = b BY <1>2, <1>7, <1>8, <1>9
<1> QED BY <1>1, <1>5, <1>6, <1>8, <1>10

LEMMA SameCommas ==
  ASSUME NEW t \in Seq(AllBytes), NEW w \in Seq(AllBytes), Extends(w, t)
  PROVE  \A i \in 1 .. Len(t) : i \in Commas(w) <=> i \in Commas(t)
<1> SUFFICES ASSUME NEW i \in 1 .. Len(t) PROVE i \in Commas(w) <=> i \in Commas(t) OBVIOUS
<1>1. i \in 1 .. (Len(t) + 1) OBVIOUS
<1>2. i \in 1 .. Len(w) /\ w[i] = t[i] /\ Lexed(w)[i] = Lexed(t)[i] BY <1>1, ExtendsIs
<1> QED BY <1>2 DEF Commas

(* An array that has begun, and has not ended.                             *)
InsideArray(t) ==
  /\ Marks(t) # {} /\ t[Min(Marks(t))] = "["
  /\ \A i \in (Min(Marks(t)) + 1) .. (Len(t) + 1) : Lexed(t)[i] # AtEnd

LEMMA EndsLater ==
  ASSUME NEW t \in Seq(AllBytes), NEW w \in Seq(AllBytes), Extends(w, t), InsideArray(t), Bracketed(w)
  PROVE  Max(Marks(w)) > Len(t)
<1>1. PICK a, z : a = Min(Marks(w)) /\ z = Max(Marks(w)) OBVIOUS
<1>2. a \in 1 .. Len(w) /\ z \in 1 .. Len(w) /\ a <= z /\ Lexed(w)[z + 1] = AtEnd
  <2>1. Marks(w) # {} BY DEF Bracketed
  <2> QED BY <1>1, <2>1, EndsOf DEF Bracketed
<1>3. Min(Marks(t)) = a BY <1>1, FirstMark DEF InsideArray
<1>4. SUFFICES ASSUME z <= Len(t) PROVE FALSE BY <1>1, <1>2
<1>5. z + 1 \in (a + 1) .. (Len(t) + 1) /\ z + 1 \in 1 .. (Len(t) + 1) BY <1>2, <1>4
<1>6. Lexed(w)[z + 1] = Lexed(t)[z + 1] BY <1>5, ExtendsIs
<1> QED BY <1>2, <1>3, <1>5, <1>6 DEF InsideArray

(* A bracketed text's cuts.                                                *)
LEMMA CutsAre ==
  ASSUME NEW w \in Seq(AllBytes), Bracketed(w)
  PROVE  /\ Cuts(w) = CutsIn(w) \cup {Max(Marks(w))}
         /\ Max(Marks(w)) \in 1 .. Len(w) /\ Min(Marks(w)) \in 1 .. (Max(Marks(w)) - 1)
         /\ CutsIn(w) \in SUBSET (1 .. (Max(Marks(w)) - 1)) /\ \A i \in CutsIn(w) : Min(Marks(w)) <= i
<1>1. PICK a, z : a = Min(Marks(w)) /\ z = Max(Marks(w)) OBVIOUS
<1>2. /\ a \in 1 .. Len(w) /\ z \in 1 .. Len(w) /\ a <= z /\ w[a] = "[" /\ w[z] = "]"
      /\ (\A i \in 1 .. Len(w) : w[i] # "s" => a <= i /\ i <= z)
  <2>1. Marks(w) # {} /\ w[a] = "[" /\ w[z] = "]" BY <1>1 DEF Bracketed
  <2> QED BY <1>1, <2>1, EndsOf
<1>3. Len(w) \in Nat /\ z \in Nat /\ a \in Nat /\ 1 <= a /\ z <= Len(w) /\ a < z
  <2>1. Len(w) \in Nat OBVIOUS
  <2> QED BY <1>2, <2>1
<1>4. \A i \in Commas(w) : i \in 1 .. (z - 1) /\ a <= i
  <2>0. Commas(w) \in SUBSET (1 .. Len(w)) /\ \A i \in Commas(w) : w[i] = "," BY DEF Commas
  <2> SUFFICES ASSUME NEW i \in 1 .. Len(w), i \in Commas(w) PROVE i \in 1 .. (z - 1) /\ a <= i BY <2>0
  <2>1. w[i] = "," BY <2>0
  <2>2. w[i] # "s" /\ i # z BY <1>2, <2>1
  <2>3. a <= i /\ i <= z BY <1>2, <2>1, <2>2
  <2>4. i \in Nat /\ 1 <= i OBVIOUS
  <2> QED BY <1>3, <2>2, <2>3, <2>4
<1>5. DOMAIN w = 1 .. Len(w) OBVIOUS
<1>6. {i \in DOMAIN w : w[i] = "," /\ Lexed(w)[i] = [mode |-> "out", open |-> <<"[">>]} = Commas(w)
  BY <1>5 DEF Commas, InArray
<1>7. Cuts(w) = {a, z} \cup Commas(w) BY <1>1, <1>6 DEF Cuts
<1>8. CutsIn(w) = {a} \cup Commas(w) BY <1>1 DEF CutsIn
<1>9. a \in 1 .. (z - 1) BY <1>2, <1>3
<1> QED BY <1>1, <1>2, <1>4, <1>7, <1>8, <1>9

(* Between neighbouring cuts there is an element.                          *)
LEMMA NextElement ==
  ASSUME NEW n \in Nat, NEW C \in SUBSET (1 .. n), NEW c \in C, NEW d \in C, c < d,
         \A x \in C : ~(c < x /\ x < d)
  PROVE  \E k \in 1 .. (Cardinality(C) - 1) : CutOf(C, k) = c /\ CutOf(C, k + 1) = d
<1>1. IsFiniteSet(C)
  <2>1. IsFiniteSet(1 .. n) BY FS_Interval
  <2> QED BY <2>1, FS_Subset
<1> DEFINE low  == {x \in C : x <= c}
           high == {x \in C : x <= d}
<1>2. \A x : (x \in low <=> x \in C /\ x <= c) /\ (x \in high <=> x \in C /\ x <= d) OBVIOUS
<1>3. \A x \in C : x \in Nat OBVIOUS
<1>9. CutOf(C, Cardinality(low)) = c /\ CutOf(C, Cardinality(high)) = d BY CutOfIs
<1> HIDE DEF low, high
<1>4. high = low \cup {d}
  <2>1. \A x : x \in high <=> x \in low \cup {d}
    <3> TAKE x
    <3>1. CASE x \in C
      <4>1. x \in Nat /\ c \in Nat /\ d \in Nat /\ ~(c < x /\ x < d) BY <1>3, <3>1
      <4> QED BY <1>2, <3>1, <4>1
    <3>2. CASE x \notin C BY <1>2, <3>2
    <3> QED BY <3>1, <3>2
  <2> QED BY <2>1
<1>5. d \notin low /\ c \in low /\ low \in SUBSET C /\ high \in SUBSET C
  <2>1. c \in Nat /\ d \in Nat BY <1>3
  <2> QED BY <1>2, <2>1
<1>6. IsFiniteSet(low) /\ IsFiniteSet(high) BY <1>1, <1>5, FS_Subset
<1>7. Cardinality(high) = Cardinality(low) + 1 BY <1>4, <1>5, <1>6, FS_AddElement
<1>8. Cardinality(low) \in Nat /\ Cardinality(low) # 0 /\ Cardinality(high) <= Cardinality(C) /\ Cardinality(C) \in Nat
  <2>1. low # {} BY <1>5
  <2> QED BY <1>1, <1>5, <1>6, <2>1, FS_CardinalityType, FS_EmptySet, FS_Subset
<1>10. Cardinality(low) \in 1 .. (Cardinality(C) - 1) BY <1>7, <1>8
<1> QED BY <1>7, <1>9, <1>10

LEMMA EmptyParsesNot == ~Parses(<<>>)
BY DEF Parses

(* Of an array file, what lies between neighbouring cuts is a value, but   *)
(* for the blanks between its two brackets.                                *)
LEMMA ElementParses ==
  ASSUME NEW w \in Seq(AllBytes), IsArrayFile(w), NEW c \in Cuts(w), NEW d \in Cuts(w), c < d,
         \A x \in Cuts(w) : ~(c < x /\ x < d),
         Between(w, c, d) # <<>> \/ \E e \in Cuts(w) : e # c /\ e # d
  PROVE  Parses(Between(w, c, d))
<1> DEFINE C == Cuts(w)
           n == Len(w)
<1>1. Bracketed(w) /\ \A k \in DOMAIN ElementsOf(w) : Parses(ElementsOf(w)[k]) BY ArrayFileIs
<1>2. n \in Nat OBVIOUS
<1>3. C \in SUBSET (1 .. n)
  <2>1. /\ C = CutsIn(w) \cup {Max(Marks(w))} /\ Max(Marks(w)) \in 1 .. n
        /\ CutsIn(w) \in SUBSET (1 .. (Max(Marks(w)) - 1))
    BY <1>1, CutsAre
  <2>2. \A x \in 1 .. (Max(Marks(w)) - 1) : x \in 1 .. n BY <1>2, <2>1
  <2> QED BY <2>1, <2>2
<1>4. c \in C /\ d \in C /\ c < d /\ (\A x \in C : ~(c < x /\ x < d))
      /\ (Between(w, c, d) # <<>> \/ \E e \in C : e # c /\ e # d)
  OBVIOUS
<1>5. ElementsOf(w) = IF Cardinality(C) = 2 /\ Between(w, Min(C), Max(C)) = <<>> THEN <<>>
                      ELSE [k \in 1 .. (Cardinality(C) - 1) |-> Between(w, CutOf(C, k), CutOf(C, k + 1))]
  BY DEF ElementsOf, CutOf
<1> HIDE DEF C, n
<1>6. ~(Cardinality(C) = 2 /\ Between(w, Min(C), Max(C)) = <<>>)
  <2> SUFFICES ASSUME Cardinality(C) = 2, Between(w, Min(C), Max(C)) = <<>> PROVE FALSE OBVIOUS
  <2>0. c \in Nat /\ d \in Nat /\ c # d BY <1>3, <1>4
  <2>1. IsFiniteSet(C)
    <3>1. IsFiniteSet(1 .. n) BY <1>2, FS_Interval
    <3> QED BY <1>3, <3>1, FS_Subset
  <2>2. Cardinality({c} \cup {d}) = 2
    <3>1. PICK P : P = {c} OBVIOUS
    <3>2. Cardinality(P) = 1 /\ IsFiniteSet(P) /\ d \notin P BY <2>0, <3>1, FS_Singleton
    <3>3. Cardinality(P \cup {d}) = 2 BY <3>2, FS_AddElement
    <3> QED BY <3>1, <3>3
  <2>3. {c} \cup {d} \in SUBSET C BY <1>4
  <2>4. {c} \cup {d} = C BY <2>1, <2>2, <2>3, FS_Subset
  <2>5. C \in SUBSET Nat /\ C \in SUBSET (0 .. n) /\ C # {} BY <1>2, <1>3, <1>4
  <2>6. PICK a, z : a = Min(C) /\ z = Max(C) OBVIOUS
  <2>7. a \in C /\ (\A y \in C : a <= y) BY <2>5, <2>6, LeastOf
  <2>8. z \in C /\ (\A y \in C : z >= y) BY <1>2, <2>5, <2>6, GreatestOf
  <2>9. a = c /\ z = d BY <1>4, <2>0, <2>4, <2>7, <2>8
  <2> QED BY <1>4, <2>4, <2>6, <2>9
<1>7. PICK k \in 1 .. (Cardinality(C) - 1) : CutOf(C, k) = c /\ CutOf(C, k + 1) = d BY <1>2, <1>3, <1>4, NextElement
<1>8. k \in DOMAIN ElementsOf(w) /\ ElementsOf(w)[k] = Between(w, c, d) BY <1>5, <1>6, <1>7
<1> QED BY <1>1, <1>8

(* The greatest cut of an array that has not ended.                        *)
LastCut(t, l) == l \in CutsIn(t) /\ \A x \in CutsIn(t) : x <= l

LEMMA CutsInAre ==
  ASSUME NEW t \in Seq(AllBytes), Marks(t) # {}
  PROVE  CutsIn(t) \in SUBSET (1 .. Len(t)) /\ Min(Marks(t)) \in 1 .. Len(t)
<1>1. Min(Marks(t)) \in 1 .. Len(t) BY EndsOf
<1>2. Commas(t) \in SUBSET (1 .. Len(t)) BY DEF Commas
<1> QED BY <1>1, <1>2 DEF CutsIn

LEMMA SameCuts ==
  ASSUME NEW t \in Seq(AllBytes), NEW w \in Seq(AllBytes), Extends(w, t), Marks(t) # {}
  PROVE  \A i \in 1 .. Len(t) : i \in CutsIn(w) <=> i \in CutsIn(t)
<1>1. Min(Marks(w)) = Min(Marks(t)) BY FirstMark
<1>2. \A i \in 1 .. Len(t) : i \in Commas(w) <=> i \in Commas(t) BY SameCommas
<1> QED BY <1>1, <1>2 DEF CutsIn

(* An element that has begun goes on to the next cut of any array file.    *)
LEMMA ElementHolds ==
  ASSUME NEW t \in Seq(AllBytes), InsideArray(t), NEW l, LastCut(t, l), NEW m \in 1 .. Len(t), NEW q \in 1 .. Len(t),
         l < m, m <= q, t[m] # "s", t[q] # "s", Blank(t, l + 1, m - 1),
         NEW w \in Seq(AllBytes), Extends(w, t), IsArrayFile(w)
  PROVE  \E r \in q .. Len(w) : Parses(SubSeq(w, m, r))
<1>1. Bracketed(w) BY ArrayFileIs
<1>2. Len(t) \in Nat /\ Len(w) \in Nat /\ Len(t) <= Len(w) /\ \A i \in 1 .. Len(t) : w[i] = t[i] /\ i \in 1 .. Len(w)
  BY ExtendsIs
<1>3. PICK z : z = Max(Marks(w)) OBVIOUS
<1>4. Cuts(w) = CutsIn(w) \cup {z} /\ z \in 1 .. Len(w) /\ CutsIn(w) \in SUBSET (1 .. (z - 1)) BY <1>1, <1>3, CutsAre
<1>5. z > Len(t) BY <1>1, <1>3, EndsLater
<1>6. l \in CutsIn(t) /\ l \in 1 .. Len(t) /\ (\A x \in CutsIn(t) : x <= l) /\ Marks(t) # {} BY CutsInAre DEF LastCut, InsideArray
<1>7. \A i \in 1 .. Len(t) : i \in CutsIn(w) <=> i \in CutsIn(t) BY <1>6, SameCuts
<1> DEFINE S == {x \in Cuts(w) : x > l}
<1>8. \A x : x \in S <=> x \in Cuts(w) /\ x > l OBVIOUS
<1> HIDE DEF S
<1>9. \A x \in Cuts(w) : x \in 1 .. Len(w)
  <2>1. \A x \in 1 .. (z - 1) : x \in 1 .. Len(w) BY <1>2, <1>4
  <2> QED BY <1>4, <2>1
<1>10. z \in S BY <1>4, <1>5, <1>6, <1>8
<1>11. S \in SUBSET Nat /\ S # {} BY <1>8, <1>9, <1>10
<1>12. PICK d : d = Min(S) OBVIOUS
<1>13. d \in S /\ \A y \in S : d <= y BY <1>11, <1>12, LeastOf
<1>14. d \in Cuts(w) /\ d > l /\ d \in 1 .. Len(w) BY <1>8, <1>9, <1>13
<1>15. d > Len(t)
  <2> SUFFICES ASSUME d <= Len(t) PROVE FALSE BY <1>2, <1>14
  <2>1. d \in 1 .. Len(t) /\ d # z BY <1>2, <1>5, <1>14
  <2>2. d \in CutsIn(w) BY <1>4, <1>14, <2>1
  <2>3. d <= l BY <1>6, <1>7, <2>1, <2>2
  <2> QED BY <1>6, <1>14, <2>3
<1>16. PICK r \in q .. (d - 1) : w[r] # "s" /\ Between(w, l, d) = SubSeq(w, m, r)
  <2>1. l \in Nat /\ d \in 1 .. (Len(w) + 1) /\ m \in 1 .. Len(w) /\ q \in 1 .. Len(w) /\ q < d BY <1>2, <1>6, <1>14, <1>15
  <2>2. w[m] # "s" /\ w[q] # "s" BY <1>2
  <2>3. Blank(w, l + 1, m - 1)
    <3>1. \A i \in (l + 1) .. (m - 1) : i \in 1 .. Len(t) BY <1>2, <1>6
    <3> QED BY <1>2, <3>1 DEF Blank
  <2> QED BY <2>1, <2>2, <2>3, BetweenHas
<1>17. r \in q .. Len(w) /\ m <= r /\ r \in Nat BY <1>2, <1>14
<1>18. SubSeq(w, m, r) # <<>>
  <2>1. Len(SubSeq(w, m, r)) = r - m + 1 BY <1>2, <1>17
  <2>2. Len(SubSeq(w, m, r)) # 0 BY <1>17, <2>1
  <2>3. Len(<<>>) = 0 OBVIOUS
  <2> QED BY <2>2, <2>3
<1>19. \A x \in Cuts(w) : ~(l < x /\ x < d)
  <2> TAKE x \in Cuts(w)
  <2>1. x \in Nat /\ l \in Nat /\ d \in Nat BY <1>6, <1>9, <1>14
  <2>2. x > l => d <= x BY <1>8, <1>13
  <2> QED BY <2>1, <2>2
<1>20. l \in Cuts(w) BY <1>4, <1>6, <1>7
<1>21. Parses(Between(w, l, d)) BY <1>14, <1>16, <1>18, <1>19, <1>20, ElementParses
<1> QED BY <1>16, <1>17, <1>21

(* What has begun like this is no value, whatever follows.                 *)
Stuck(p) ==
  /\ p # <<>>
  /\ \/ Lexed(p)[Len(p) + 1].mode = "bad"
     \/ p[1] \notin Openers \cup {"quote"} /\ \E i \in 1 .. Len(p) : p[i] # "1"

LEMMA StuckFails ==
  ASSUME NEW p \in Seq(AllBytes), NEW v \in Seq(AllBytes), Extends(v, p), Stuck(p)
  PROVE  ~Parses(v) /\ Stuck(v)
<1>1. Len(p) \in Nat \ {0} /\ Len(v) \in Nat /\ p # <<>> BY DEF Stuck
<1>2. Len(p) <= Len(v) /\ \A i \in 1 .. Len(p) : v[i] = p[i] /\ i \in 1 .. Len(v) BY ExtendsIs
<1>3. v # <<>> /\ v[1] = p[1] /\ DOMAIN v = 1 .. Len(v)
  <2>1. 1 \in 1 .. Len(p) /\ Len(v) # 0 BY <1>1, <1>2
  <2> QED BY <1>2, <2>1
<1>4. CASE Lexed(p)[Len(p) + 1].mode = "bad"
  <2>1. Lexed(v)[Len(p) + 1].mode = "bad"
    <3>1. Len(p) + 1 \in 1 .. (Len(p) + 1) BY <1>1
    <3>2. Lexed(v)[Len(p) + 1] = Lexed(p)[Len(p) + 1] BY <3>1, ExtendsIs
    <3> QED BY <1>4, <3>2
  <2>2. Lexed(v)[Len(v) + 1].mode = "bad"
    <3> DEFINE i == Len(p) + 1
               j == Len(v) + 1
    <3>1. i \in 1 .. (Len(v) + 1) /\ j \in i .. (Len(v) + 1) BY <1>1, <1>2
    <3>2. Lexed(v)[i].mode = "bad" BY <2>1
    <3> HIDE DEF i, j
    <3>3. Lexed(v)[j].mode = "bad" BY <3>1, <3>2, LexedBad
    <3> QED BY <3>3 DEF j
  <2>3. Lexed(v)[Len(v) + 1] # AtEnd BY <2>2 DEF AtEnd
  <2>4. ~\A i \in 1 .. Len(v) : v[i] = "1"
    <3> SUFFICES ASSUME \A i \in 1 .. Len(v) : v[i] = "1" PROVE FALSE OBVIOUS
    <3>1. Len(v) + 1 \in 1 .. (Len(v) + 1) BY <1>1
    <3> QED BY <2>3, <3>1, OnesLex
  <2>5. ~Parses(v)
    <3> SUFFICES ASSUME Parses(v) PROVE FALSE OBVIOUS
    <3>1. v[1] \in Openers \cup {"quote"} BY <1>3, <2>4 DEF Parses
    <3> QED BY <1>3, <2>3, <3>1, OnlyOnes
  <2> QED BY <1>3, <2>2, <2>5 DEF Stuck
<1>5. CASE p[1] \notin Openers \cup {"quote"} /\ \E i \in 1 .. Len(p) : p[i] # "1"
  <2>1. v[1] \notin Openers \cup {"quote"} /\ \E i \in 1 .. Len(v) : v[i] # "1" BY <1>2, <1>3, <1>5
  <2> QED BY <1>3, <2>1 DEF Parses, Stuck
<1> QED BY <1>4, <1>5 DEF Stuck

LEMMA AppendExtends ==
  ASSUME NEW t \in Seq(AllBytes), NEW c \in AllBytes
  PROVE  /\ Append(t, c) \in Seq(AllBytes) /\ Extends(Append(t, c), t) /\ Len(Append(t, c)) = Len(t) + 1
         /\ Append(t, c)[Len(t) + 1] = c /\ \A i \in 1 .. Len(t) : Append(t, c)[i] = t[i]
BY DEF Extends

----
(* A text no array file begins with: it begins with something else, is not *)
(* UTF-8, or its brackets do not match.                                    *)
LEMMA WrongStart ==
  ASSUME NEW t \in Seq(AllBytes), Marks(t) # {}, t[Min(Marks(t))] # "["
  PROVE  Hopeless(t)
<1> SUFFICES ASSUME NEW w \in Seq(AllBytes), Extends(w, t), IsArrayFile(w) PROVE FALSE BY DEF Hopeless
<1>1. Bracketed(w) BY ArrayFileIs
<1>2. PICK a : a = Min(Marks(t)) OBVIOUS
<1>3. a \in 1 .. Len(t) BY <1>2, EndsOf
<1>4. Min(Marks(w)) = a BY <1>2, FirstMark
<1>5. w[a] = t[a] BY <1>3, ExtendsIs
<1> QED BY <1>1, <1>2, <1>4, <1>5 DEF Bracketed

LEMMA NotUtf8 ==
  ASSUME NEW t \in Seq(AllBytes), ~IsUtf8(t)
  PROVE  Hopeless(t)
BY ExtendsIs, ArrayFileIs DEF Hopeless

LEMMA NotMatched ==
  ASSUME NEW t \in Seq(AllBytes), NEW i \in 1 .. (Len(t) + 1), Lexed(t)[i].mode = "bad"
  PROVE  Hopeless(t)
<1> SUFFICES ASSUME NEW w \in Seq(AllBytes), Extends(w, t), IsArrayFile(w) PROVE FALSE BY DEF Hopeless
<1>1. Bracketed(w) BY ArrayFileIs
<1>2. Lexed(w)[i] = Lexed(t)[i] /\ Len(t) <= Len(w) BY ExtendsIs
<1> DEFINE j == Len(w) + 1
<1>3. i \in 1 .. (Len(w) + 1) /\ j \in i .. (Len(w) + 1)
  <2>1. Len(t) \in Nat /\ Len(w) \in Nat OBVIOUS
  <2> QED BY <1>2, <2>1
<1>4. Lexed(w)[i].mode = "bad" BY <1>2
<1>5. Lexed(w)[j] = AtEnd
  <2>1. Max(Marks(w)) \in 1 .. Len(w) BY <1>1, CutsAre
  <2>2. j \in (Max(Marks(w)) + 1) .. (Len(w) + 1) BY <2>1
  <2> QED BY <1>1, <2>2, BracketedEnd
<1> HIDE DEF j
<1>6. Lexed(w)[j].mode = "bad" BY <1>3, <1>4, LexedBad
<1> QED BY <1>5, <1>6 DEF AtEnd

(* Its array ended before its last mark.                                   *)
LEMMA EndedBefore ==
  ASSUME NEW t \in Seq(AllBytes), Marks(t) # {}, NEW q \in 1 .. Len(t), t[q] # "s",
         NEW i \in (Min(Marks(t)) + 1) .. q, Lexed(t)[i] = AtEnd
  PROVE  Hopeless(t)
<1> SUFFICES ASSUME NEW w \in Seq(AllBytes), Extends(w, t), IsArrayFile(w) PROVE FALSE BY DEF Hopeless
<1>1. Bracketed(w) BY ArrayFileIs
<1>2. PICK a, z : a = Min(Marks(w)) /\ z = Max(Marks(w)) OBVIOUS
<1>3. a = Min(Marks(t)) /\ Marks(w) # {} BY <1>2, FirstMark
<1>4. a \in 1 .. Len(t) BY <1>3, EndsOf
<1>5. i \in 1 .. (Len(t) + 1) /\ i \in (a + 1) .. q BY <1>3, <1>4
<1>6. w[q] = t[q] /\ Lexed(w)[i] = Lexed(t)[i] /\ q \in 1 .. Len(w) BY <1>5, ExtendsIs
<1>7. q <= z /\ z \in 1 .. Len(w) BY <1>2, <1>3, <1>6, EndsOf
<1>8. i \in (a + 1) .. z BY <1>5, <1>7
<1> QED BY <1>1, <1>2, <1>6, <1>8 DEF Bracketed

(* An element that is no value and no beginning of one.                    *)
LEMMA NoElement ==
  ASSUME NEW t \in Seq(AllBytes), InsideArray(t), NEW l, LastCut(t, l), NEW m \in 1 .. Len(t), NEW q \in 1 .. Len(t),
         l < m, m <= q, t[m] # "s", t[q] # "s", Blank(t, l + 1, m - 1),
         Stuck(SubSeq(t, m, q))
  PROVE  Hopeless(t)
<1> SUFFICES ASSUME NEW w \in Seq(AllBytes), Extends(w, t), IsArrayFile(w) PROVE FALSE BY DEF Hopeless
<1>1. PICK r \in q .. Len(w) : Parses(SubSeq(w, m, r)) BY ElementHolds
<1>2. Len(t) \in Nat /\ Len(w) \in Nat /\ Len(t) <= Len(w) /\ \A i \in 1 .. Len(t) : w[i] = t[i] /\ i \in 1 .. Len(w)
  BY ExtendsIs
<1> DEFINE p == SubSeq(t, m, q)
           v == SubSeq(w, m, r)
<1>3. p \in Seq(AllBytes) /\ Len(p) = q - m + 1 /\ \A i \in 1 .. (q - m + 1) : p[i] = t[m + i - 1] OBVIOUS
<1>4. v \in Seq(AllBytes) /\ Len(v) = r - m + 1 /\ \A i \in 1 .. (r - m + 1) : v[i] = w[m + i - 1]
  <2>1. r \in 1 .. Len(w) /\ m \in 1 .. Len(w) /\ m <= r BY <1>2
  <2> QED BY <2>1
<1>5. Stuck(p) /\ Parses(v) BY <1>1
<1> HIDE DEF p, v
<1>6. Extends(v, p)
  <2>1. Len(p) <= Len(v) BY <1>3, <1>4
  <2>2. \A i \in 1 .. Len(p) : v[i] = p[i]
    <3> TAKE i \in 1 .. Len(p)
    <3>1. i \in 1 .. (q - m + 1) /\ i \in 1 .. (r - m + 1) /\ m + i - 1 \in 1 .. Len(t) BY <1>3
    <3> QED BY <1>2, <1>3, <1>4, <3>1
  <2> QED BY <2>1, <2>2 DEF Extends
<1> QED BY <1>3, <1>4, <1>5, <1>6, StuckFails

(* A value, and then, past blanks or not, more than it.                    *)
LEMMA ValueAndMore ==
  ASSUME NEW t \in Seq(AllBytes), InsideArray(t), NEW l, LastCut(t, l), NEW m \in 1 .. Len(t), NEW e \in 1 .. Len(t),
         NEW q \in 1 .. Len(t), l < m, m <= e, e < q, t[m] # "s", t[q] # "s", Blank(t, l + 1, m - 1),
         Parses(SubSeq(t, m, e)), t[m] \in Openers \cup {"quote"} \/ t[e + 1] = "s"
  PROVE  Hopeless(t)
<1> SUFFICES ASSUME NEW w \in Seq(AllBytes), Extends(w, t), IsArrayFile(w) PROVE FALSE BY DEF Hopeless
<1>0. m <= q /\ m \in Nat /\ e \in Nat /\ q \in Nat /\ e + 1 <= q OBVIOUS
<1>1. PICK r \in q .. Len(w) : Parses(SubSeq(w, m, r)) BY <1>0, ElementHolds
<1>2. Len(t) \in Nat /\ Len(w) \in Nat /\ Len(t) <= Len(w) /\ \A i \in 1 .. Len(t) : w[i] = t[i] /\ i \in 1 .. Len(w)
  BY ExtendsIs
<1> DEFINE p == SubSeq(t, m, e)
           v == SubSeq(w, m, r)
           n == e - m + 1
<1>3. p \in Seq(AllBytes) /\ Len(p) = n /\ \A i \in 1 .. n : p[i] = t[m + i - 1] OBVIOUS
<1>4. v \in Seq(AllBytes) /\ Len(v) = r - m + 1 /\ (\A i \in 1 .. (r - m + 1) : v[i] = w[m + i - 1]) /\ Len(v) > n /\ n \in Nat \ {0}
  <2>1. r \in 1 .. Len(w) /\ m \in 1 .. Len(w) /\ m <= r /\ e < r BY <1>2
  <2> QED BY <2>1
<1>5. Parses(p) /\ Parses(v) BY <1>1
<1>12. n = e - m + 1 OBVIOUS
<1> HIDE DEF p, v, n
<1>6. Extends(v, p)
  <2>1. Len(p) <= Len(v) BY <1>3, <1>4
  <2>2. \A i \in 1 .. Len(p) : v[i] = p[i]
    <3> TAKE i \in 1 .. Len(p)
    <3>1. i \in 1 .. n /\ i \in Nat BY <1>3, <1>4
    <3>2. i \in 1 .. (r - m + 1) BY <1>4, <3>1
    <3>3. m + i - 1 <= e /\ m + i - 1 \in Nat /\ 1 <= m + i - 1 BY <1>0, <1>12, <3>1
    <3>4. m + i - 1 \in 1 .. Len(t) BY <1>0, <1>2, <3>3
    <3> QED BY <1>2, <1>3, <1>4, <3>1, <3>2, <3>4
  <2> QED BY <2>1, <2>2 DEF Extends
<1>7. p # <<>> /\ v # <<>> /\ v[1] = p[1] /\ p[1] = t[m] /\ DOMAIN v = 1 .. Len(v)
  <2>1. 1 \in 1 .. n /\ m + 1 - 1 = m /\ Len(v) # 0 BY <1>3, <1>4
  <2>2. 1 \in 1 .. Len(p) /\ v[1] = p[1]
    <3>1. 1 \in 1 .. Len(p) BY <1>3, <2>1
    <3> QED BY <1>3, <1>4, <1>6, <3>1, ExtendsIs
  <2>3. p[1] = t[m] BY <1>3, <2>1
  <2> QED BY <1>3, <1>4, <2>1, <2>2, <2>3
<1>8. CASE t[m] \in Openers \cup {"quote"}
  <2>1. Lexed(p)[n + 1] = AtEnd BY <1>3, <1>5, <1>7, <1>8, OnlyOnes
  <2>2. Lexed(v)[n + 1] = Lexed(p)[n + 1]
    <3>1. n + 1 \in 1 .. (Len(p) + 1) BY <1>3, <1>4
    <3> QED BY <1>3, <1>4, <1>6, <3>1, ExtendsIs
  <2>3. n + 1 \in 2 .. Len(v) BY <1>4
  <2>4. Lexed(v)[n + 1] # AtEnd BY <1>4, <1>5, <1>7, <1>8, <2>3, OnlyOnes
  <2> QED BY <2>1, <2>2, <2>4
<1>9. CASE t[m] \notin Openers \cup {"quote"}
  <2>1. \A i \in 1 .. Len(v) : v[i] = "1" BY <1>5, <1>7, <1>9 DEF Parses
  <2>2. n + 1 \in 1 .. Len(v) /\ n + 1 \in 1 .. (r - m + 1) /\ m + (n + 1) - 1 = e + 1 /\ e + 1 \in 1 .. Len(t)
    <3>1. n + 1 \in Nat /\ 1 <= n + 1 BY <1>4
    <3>2. n + 1 <= Len(v) /\ Len(v) \in Nat BY <1>4
    <3>3. m + (n + 1) - 1 = e + 1 BY <1>0, <1>12
    <3>4. e + 1 \in 1 .. Len(t) BY <1>0
    <3>5. n + 1 \in 1 .. Len(v) BY <3>1, <3>2
    <3>6. Len(v) = r - m + 1 BY <1>4
    <3> QED BY <3>3, <3>4, <3>5, <3>6
  <2>3. v[n + 1] = t[e + 1] BY <1>2, <1>4, <2>2
  <2>4. v[n + 1] = "1" BY <2>1, <2>2
  <2>5. t[e + 1] = "s" BY <1>9
  <2> QED BY <2>3, <2>4, <2>5
<1> QED BY <1>8, <1>9

(* Nothing between two cuts: a comma where a value is due.                 *)
LEMMA NothingAndComma ==
  ASSUME NEW t \in Seq(AllBytes), InsideArray(t), NEW l \in CutsIn(t), NEW n \in Commas(t), l < n, n = Len(t),
         \A x \in CutsIn(t) : ~(l < x /\ x < n), Blank(t, l + 1, n - 1)
  PROVE  Hopeless(t)
<1> SUFFICES ASSUME NEW w \in Seq(AllBytes), Extends(w, t), IsArrayFile(w) PROVE FALSE BY DEF Hopeless
<1>1. Bracketed(w) BY ArrayFileIs
<1>2. Len(t) \in Nat /\ Len(w) \in Nat /\ Len(t) <= Len(w) /\ \A i \in 1 .. Len(t) : w[i] = t[i] /\ i \in 1 .. Len(w)
  BY ExtendsIs
<1>3. PICK z : z = Max(Marks(w)) OBVIOUS
<1>4. Cuts(w) = CutsIn(w) \cup {z} /\ z \in 1 .. Len(w) /\ CutsIn(w) \in SUBSET (1 .. (z - 1)) BY <1>1, <1>3, CutsAre
<1>5. z > Len(t) BY <1>1, <1>3, EndsLater
<1>6. Marks(t) # {} BY DEF InsideArray
<1>7. CutsIn(t) \in SUBSET (1 .. Len(t)) /\ n \in CutsIn(t)
  <2>1. n \in CutsIn(t) BY DEF CutsIn
  <2> QED BY <1>6, <2>1, CutsInAre
<1>8. \A i \in 1 .. Len(t) : i \in CutsIn(w) <=> i \in CutsIn(t) BY <1>6, SameCuts
<1>9. l \in Cuts(w) /\ n \in Cuts(w) /\ z \in Cuts(w) /\ l \in 1 .. Len(t) /\ n \in 1 .. Len(t) BY <1>4, <1>7, <1>8
<1>10. \A x \in Cuts(w) : ~(l < x /\ x < n)
  <2> SUFFICES ASSUME NEW x \in Cuts(w), l < x, x < n PROVE FALSE OBVIOUS
  <2>1. x \in 1 .. (z - 1) \/ x = z BY <1>4
  <2>2. x \in 1 .. Len(t) /\ x # z BY <1>2, <1>4, <1>5, <1>9, <2>1
  <2>3. x \in CutsIn(t) BY <1>4, <1>8, <2>2
  <2> QED BY <2>3
<1>11. z # l /\ z # n BY <1>2, <1>5, <1>9
<1>12. Parses(Between(w, l, n)) BY <1>9, <1>10, <1>11, ElementParses
<1>13. Between(w, l, n) = <<>>
  <2>1. Blank(w, l + 1, n - 1)
    <3>1. \A i \in (l + 1) .. (n - 1) : i \in 1 .. Len(t) BY <1>2, <1>9
    <3> QED BY <1>2, <3>1 DEF Blank
  <2>2. l \in Nat /\ n \in 1 .. (Len(w) + 1) BY <1>2, <1>9
  <2> QED BY <2>1, <2>2, BetweenBlank
<1> QED BY <1>12, <1>13, EmptyParsesNot

(* Nothing between a comma and the bracket that ends the array.            *)
LEMMA NothingAndEnd ==
  ASSUME NEW t \in Seq(AllBytes), Marks(t) # {}, NEW l \in 1 .. Len(t), l \in Commas(t), NEW n \in 1 .. Len(t), l < n, n = Len(t), t[n] # "s",
         Lexed(t)[n + 1] = AtEnd, \A x \in CutsIn(t) : ~(l < x /\ x < n), Blank(t, l + 1, n - 1)
  PROVE  Hopeless(t)
<1> SUFFICES ASSUME NEW w \in Seq(AllBytes), Extends(w, t), IsArrayFile(w) PROVE FALSE BY DEF Hopeless
<1>0. l \in Nat /\ n \in Nat /\ Len(t) \in Nat /\ 1 <= l OBVIOUS
<1>1. Bracketed(w) BY ArrayFileIs
<1>2. Len(t) \in Nat /\ Len(w) \in Nat /\ Len(t) <= Len(w) /\ \A i \in 1 .. Len(t) : w[i] = t[i] /\ i \in 1 .. Len(w)
  BY ExtendsIs
<1>3. PICK a, z : a = Min(Marks(w)) /\ z = Max(Marks(w)) OBVIOUS
<1>4. /\ Cuts(w) = CutsIn(w) \cup {z} /\ z \in 1 .. Len(w) /\ CutsIn(w) \in SUBSET (1 .. (z - 1)) /\ a \in 1 .. (z - 1)
      /\ \A i \in CutsIn(w) : a <= i
  BY <1>1, <1>3, CutsAre
<1>5. a = Min(Marks(t)) /\ a \in 1 .. Len(t) /\ CutsIn(t) \in SUBSET (1 .. Len(t)) BY <1>3, FirstMark, CutsInAre
<1>6. z = n
  <2>1. n <= z
    <3>1. Marks(w) # {} /\ w[n] # "s" /\ n \in 1 .. Len(w) BY <1>1, <1>2 DEF Bracketed
    <3> QED BY <1>3, <3>1, EndsOf
  <2>2. Lexed(w)[n + 1] = AtEnd
    <3>1. n + 1 \in 1 .. (Len(t) + 1) BY <1>2
    <3> QED BY <3>1, ExtendsIs
  <2>3. ~(n + 1 \in (a + 1) .. z) BY <1>1, <1>3, <2>2 DEF Bracketed
  <2> QED BY <1>2, <1>4, <1>5, <2>1, <2>3
<1>7. \A i \in 1 .. Len(t) : i \in CutsIn(w) <=> i \in CutsIn(t) BY SameCuts
<1>8. l \in CutsIn(t) /\ l \in 1 .. Len(t) /\ t[l] = "," BY <1>5 DEF CutsIn, Commas
<1>9. a # l
  <2>1. w[a] = "[" BY <1>1, <1>3 DEF Bracketed
  <2> QED BY <1>2, <1>8, <2>1
<1>10. l \in Cuts(w) /\ n \in Cuts(w) /\ a \in Cuts(w) /\ a # n
  <2>1. a \in CutsIn(w) BY <1>3 DEF CutsIn
  <2>2. a # n BY <1>4, <1>6
  <2> QED BY <1>4, <1>6, <1>7, <1>8, <2>1, <2>2
<1>11. \A x \in Cuts(w) : ~(l < x /\ x < n)
  <2> SUFFICES ASSUME NEW x \in Cuts(w), l < x, x < n PROVE FALSE OBVIOUS
  <2>1. x \in 1 .. (z - 1) /\ x \in CutsIn(w)
    <3>1. x = z => x = n BY <1>6
    <3>2. x # z BY <1>0, <3>1
    <3> QED BY <1>4, <3>2
  <2>2. x \in 1 .. Len(t) BY <1>2, <1>6, <2>1
  <2>3. x \in CutsIn(t) BY <1>7, <2>1, <2>2
  <2> QED BY <2>3
<1>12. Parses(Between(w, l, n)) BY <1>9, <1>10, <1>11, ElementParses
<1>13. Between(w, l, n) = <<>>
  <2>1. Blank(w, l + 1, n - 1)
    <3>1. \A i \in (l + 1) .. (n - 1) : i \in 1 .. Len(t) BY <1>0
    <3> QED BY <1>2, <3>1 DEF Blank
  <2>2. l \in Nat /\ n \in 1 .. (Len(w) + 1) BY <1>0, <1>2
  <2> QED BY <2>1, <2>2, BetweenBlank
<1> QED BY <1>12, <1>13, EmptyParsesNot

LEMMA BytesAreBytes == Bytes \in SUBSET AllBytes /\ Seq(Bytes) \in SUBSET Seq(AllBytes)
<1>1. Bytes \in SUBSET AllBytes BY StreamAssumption
<1>2. \A x \in Seq(Bytes) : x \in Seq(AllBytes)
  <2> TAKE x \in Seq(Bytes)
  <2>1. \A i \in 1 .. Len(x) : x[i] \in AllBytes BY <1>1
  <2>2. x = [i \in 1 .. Len(x) |-> x[i]] /\ Len(x) \in Nat OBVIOUS
  <2> QED BY <2>1, <2>2
<1> QED BY <1>1, <1>2

LEMMA BetweenKept ==
  ASSUME NEW t \in Seq(AllBytes), NEW w \in Seq(AllBytes), NEW l \in 1 .. Len(t), NEW n \in 1 .. Len(t), Extends(w, t)
  PROVE  Between(w, l, n) = Between(t, l, n)
<1>0. l \in Nat /\ n \in 1 .. (Len(t) + 1) /\ n \in Nat OBVIOUS
<1>1. CASE l < n BY <1>0, <1>1, BetweenSame
<1>2. CASE ~(l < n)
  <2>1. SubSeq(t, l + 1, n - 1) = <<>> /\ SubSeq(w, l + 1, n - 1) = <<>> BY <1>0, <1>2
  <2> QED BY <2>1 DEF Between
<1> QED BY <1>1, <1>2

(* The records kept are those between the first cuts.                      *)
RecordsKept(t, records, n) ==
  \A k \in 1 .. n : records[k] = Between(t, CutOf(CutsIn(t), k), CutOf(CutsIn(t), k + 1)) /\ Parses(records[k])

LEMMA LastRank ==
  ASSUME NEW t \in Seq(AllBytes), Marks(t) # {}, NEW l, LastCut(t, l)
  PROVE  /\ l \in 1 .. Len(t) /\ CutOf(CutsIn(t), Cardinality(CutsIn(t))) = l
         /\ Cardinality(CutsIn(t)) \in Nat \ {0} /\ IsFiniteSet(CutsIn(t))
<1> DEFINE C == CutsIn(t)
<1>1. C \in SUBSET (1 .. Len(t)) /\ l \in C /\ \A x \in C : x <= l BY CutsInAre DEF LastCut
<1>2. Len(t) \in Nat OBVIOUS
<1>3. IsFiniteSet(C)
  <2>1. IsFiniteSet(1 .. Len(t)) BY <1>2, FS_Interval
  <2> QED BY <1>1, <2>1, FS_Subset
<1> HIDE DEF C
<1>4. {x \in C : x <= l} = C
  <2>1. \A x : x \in {y \in C : y <= l} <=> x \in C BY <1>1
  <2> QED BY <2>1
<1>5. CutOf(C, Cardinality({x \in C : x <= l})) = l BY <1>1, <1>2, CutOfIs
<1>6. Cardinality(C) \in Nat \ {0}
  <2>1. C # {} BY <1>1
  <2> QED BY <1>3, <2>1, FS_CardinalityType, FS_EmptySet
<1> QED BY <1>1, <1>3, <1>4, <1>5, <1>6 DEF C

LEMMA RankedAre ==
  ASSUME NEW t \in Seq(AllBytes), Marks(t) # {}, Ranked(CutsIn(t)), NEW k \in 1 .. Cardinality(CutsIn(t))
  PROVE  CutOf(CutsIn(t), k) \in CutsIn(t) /\ CutOf(CutsIn(t), k) \in 1 .. Len(t)
<1> DEFINE C == CutsIn(t)
<1>1. C \in SUBSET (1 .. Len(t)) /\ Len(t) \in Nat BY CutsInAre
<1>2. PICK c \in C : Cardinality({d \in C : d <= c}) = k BY DEF Ranked
<1> HIDE DEF C
<1>3. CutOf(C, k) = c BY <1>1, <1>2, CutOfIs
<1> QED BY <1>1, <1>2, <1>3 DEF C

----
(* A byte more of an array that has not ended.                             *)
LEMMA StaysInside ==
  ASSUME NEW t \in Seq(AllBytes), InsideArray(t), NEW c \in AllBytes, Lex(Lexed(t)[Len(t) + 1], c) # AtEnd
  PROVE  /\ InsideArray(Append(t, c)) /\ Min(Marks(Append(t, c))) = Min(Marks(t)) /\ Marks(Append(t, c)) # {}
         /\ Lexed(Append(t, c))[Len(t) + 2] = Lex(Lexed(t)[Len(t) + 1], c)
<1> DEFINE u == Append(t, c)
<1>1. u \in Seq(AllBytes) /\ Extends(u, t) /\ Len(u) = Len(t) + 1 /\ Len(t) \in Nat BY AppendExtends
<1>2. PICK a : a = Min(Marks(t)) OBVIOUS
<1>3. a \in 1 .. Len(t) /\ t[a] = "[" /\ \A i \in (a + 1) .. (Len(t) + 1) : Lexed(t)[i] # AtEnd
  BY <1>2, EndsOf DEF InsideArray
<1>4. /\ \A i \in 1 .. (Len(t) + 1) : Lexed(u)[i] = Lexed(t)[i]
      /\ Lexed(u)[Len(t) + 2] = Lex(Lexed(t)[Len(t) + 1], c)
  BY LexedAppend
<1> HIDE DEF u
<1>5. Marks(u) # {} /\ Min(Marks(u)) = a BY <1>1, <1>2, FirstMark DEF InsideArray
<1>6. u[a] = "[" BY <1>1, <1>3, ExtendsIs
<1>7. \A i \in (a + 1) .. (Len(u) + 1) : Lexed(u)[i] # AtEnd
  <2> TAKE i \in (a + 1) .. (Len(u) + 1)
  <2>1. CASE i = Len(t) + 2 BY <1>4, <2>1
  <2>2. CASE i # Len(t) + 2
    <3>1. i \in (a + 1) .. (Len(t) + 1) /\ i \in 1 .. (Len(t) + 1) BY <1>1, <1>3, <2>2
    <3> QED BY <1>3, <1>4, <3>1
  <2> QED BY <2>1, <2>2
<1>8. InsideArray(u) BY <1>5, <1>6, <1>7 DEF InsideArray
<1> QED BY <1>2, <1>4, <1>5, <1>8 DEF u

(* It is a cut when it is a comma between elements, and only then.         *)
LEMMA CutsGrow ==
  ASSUME NEW t \in Seq(AllBytes), Marks(t) # {}, NEW c \in AllBytes
  PROVE  /\ ~(c = "," /\ Lexed(t)[Len(t) + 1] = InArray) => CutsIn(Append(t, c)) = CutsIn(t)
         /\ c = "," /\ Lexed(t)[Len(t) + 1] = InArray =>
              CutsIn(Append(t, c)) = CutsIn(t) \cup {Len(t) + 1} /\ Len(t) + 1 \in Commas(Append(t, c))
<1> DEFINE u == Append(t, c)
           n == Len(t)
<1>1. /\ u \in Seq(AllBytes) /\ Extends(u, t) /\ Len(u) = n + 1 /\ n \in Nat /\ u[n + 1] = c BY AppendExtends
<1>2. Lexed(u)[n + 1] = Lexed(t)[n + 1]
  <2>1. n + 1 \in 1 .. (n + 1) BY <1>1
  <2> QED BY <2>1, LexedAppend
<1>3. Min(Marks(u)) = Min(Marks(t)) BY <1>1, FirstMark
<1>4. \A i \in 1 .. n : i \in Commas(u) <=> i \in Commas(t) BY <1>1, SameCommas
<1>5. Commas(t) \in SUBSET (1 .. n) /\ Commas(u) \in SUBSET (1 .. (n + 1)) BY <1>1 DEF Commas
<1>6. n + 1 \in Commas(u) <=> c = "," /\ Lexed(t)[n + 1] = InArray
  <2>1. n + 1 \in 1 .. Len(u) BY <1>1
  <2> QED BY <1>1, <1>2, <2>1 DEF Commas
<1> HIDE DEF u
<1>7. \A i : i \in Commas(u) <=> i \in Commas(t) \/ (i = n + 1 /\ n + 1 \in Commas(u))
  <2> TAKE i
  <2>1. CASE i \in 1 .. n
    <3>1. i # n + 1 BY <1>1, <2>1
    <3> QED BY <1>4, <2>1, <3>1
  <2>2. CASE i = n + 1
    <3>1. i \notin 1 .. n BY <1>1, <2>2
    <3> QED BY <1>5, <2>2, <3>1
  <2>3. CASE i \notin 1 .. n /\ i # n + 1
    <3>1. i \notin 1 .. (n + 1) BY <1>1, <2>3
    <3> QED BY <1>5, <2>3, <3>1
  <2> QED BY <2>1, <2>2, <2>3
<1>8. CutsIn(u) = {Min(Marks(t))} \cup Commas(u) /\ CutsIn(t) = {Min(Marks(t))} \cup Commas(t) BY <1>3 DEF CutsIn
<1> HIDE DEF n
<1>9. n + 1 \notin Commas(u) => Commas(u) = Commas(t) BY <1>7
<1>10. n + 1 \in Commas(u) => Commas(u) = Commas(t) \cup {n + 1} BY <1>7
<1> QED BY <1>6, <1>8, <1>9, <1>10 DEF u, n

LEMMA KeptStays ==
  ASSUME NEW t \in Seq(AllBytes), Marks(t) # {}, Ranked(CutsIn(t)), NEW c \in AllBytes,
         CutsIn(Append(t, c)) = CutsIn(t), NEW records, RecordsKept(t, records, Cardinality(CutsIn(t)) - 1),
         Cardinality(CutsIn(t)) \in Nat
  PROVE  RecordsKept(Append(t, c), records, Cardinality(CutsIn(t)) - 1)
<1> DEFINE u == Append(t, c)
           C == CutsIn(t)
<1>1. u \in Seq(AllBytes) /\ Extends(u, t) BY AppendExtends
<1> HIDE DEF u
<1>2. SUFFICES ASSUME NEW k \in 1 .. (Cardinality(C) - 1)
               PROVE  records[k] = Between(u, CutOf(C, k), CutOf(C, k + 1)) /\ Parses(records[k])
  BY DEF RecordsKept, u
<1>3. k \in 1 .. Cardinality(C) /\ k + 1 \in 1 .. Cardinality(C) OBVIOUS
<1>4. CutOf(C, k) \in 1 .. Len(t) /\ CutOf(C, k + 1) \in 1 .. Len(t) BY <1>3, RankedAre
<1>5. Between(u, CutOf(C, k), CutOf(C, k + 1)) = Between(t, CutOf(C, k), CutOf(C, k + 1)) BY <1>1, <1>4, BetweenKept
<1> QED BY <1>5 DEF RecordsKept

LEMMA CutAdds ==
  ASSUME NEW t \in Seq(AllBytes), Marks(t) # {}, Ranked(CutsIn(t))
  PROVE  /\ Ranked(CutsIn(t) \cup {Len(t) + 1}) /\ Cardinality(CutsIn(t)) \in Nat
         /\ Cardinality(CutsIn(t) \cup {Len(t) + 1}) = Cardinality(CutsIn(t)) + 1
         /\ CutOf(CutsIn(t) \cup {Len(t) + 1}, Cardinality(CutsIn(t)) + 1) = Len(t) + 1
         /\ \A k \in 1 .. Cardinality(CutsIn(t)) :
              CutOf(CutsIn(t) \cup {Len(t) + 1}, k) = CutOf(CutsIn(t), k) /\ CutOf(CutsIn(t), k) \in 1 .. Len(t)
<1>1. PICK C : C = CutsIn(t) OBVIOUS
<1>2. PICK n : n = Len(t) /\ n \in Nat OBVIOUS
<1>3. PICK x : x = n + 1 OBVIOUS
<1>4. x \in Nat /\ x > n BY <1>2, <1>3
<1>5. C \in SUBSET (1 .. n) /\ Ranked(C) BY <1>1, <1>2, CutsInAre
<1>6. /\ Ranked(C \cup {x}) /\ Cardinality(C \cup {x}) = Cardinality(C) + 1 /\ Cardinality(C) \in Nat
      /\ CutOf(C \cup {x}, Cardinality(C) + 1) = x
      /\ \A k \in 1 .. Cardinality(C) : CutOf(C \cup {x}, k) = CutOf(C, k) /\ CutOf(C, k) \in C
  BY <1>2, <1>4, <1>5, RankGrows
<1> QED BY <1>1, <1>2, <1>3, <1>5, <1>6

LEMMA BetweenLast ==
  ASSUME NEW t \in Seq(AllBytes), NEW l \in 1 .. Len(t), NEW m \in 1 .. Len(t), NEW e \in 1 .. Len(t), l < m, m <= e,
         t[m] # "s", t[e] # "s", Blank(t, l + 1, m - 1), Blank(t, e + 1, Len(t)), NEW w \in Seq(AllBytes), Extends(w, t)
  PROVE  Between(w, l, Len(t) + 1) = SubSeq(t, m, e)
<1>1. PICK n : n = Len(t) + 1 OBVIOUS
<1>2. n \in 1 .. (Len(t) + 1) /\ l \in Nat /\ e < n /\ l < n /\ n - 1 = Len(t) BY <1>1
<1>3. Between(t, l, n) = SubSeq(t, m, e) BY <1>2, TrimmedBetween
<1>4. Between(w, l, n) = Between(t, l, n) BY <1>2, BetweenSame
<1> QED BY <1>1, <1>3, <1>4

(* An element is kept when its comma comes.                                *)
LEMMA KeptGrows ==
  ASSUME NEW t \in Seq(AllBytes), Marks(t) # {}, Ranked(CutsIn(t)), NEW l, LastCut(t, l),
         NEW m \in 1 .. Len(t), NEW e \in 1 .. Len(t), l < m, m <= e, t[m] # "s", t[e] # "s",
         Blank(t, l + 1, m - 1), Blank(t, e + 1, Len(t)), Lexed(t)[Len(t) + 1] = InArray,
         NEW records, RecordsKept(t, records, Cardinality(CutsIn(t)) - 1),
         records[Cardinality(CutsIn(t))] = SubSeq(t, m, e), Parses(SubSeq(t, m, e))
  PROVE  /\ Ranked(CutsIn(Append(t, ","))) /\ Cardinality(CutsIn(Append(t, ","))) = Cardinality(CutsIn(t)) + 1
         /\ Cardinality(CutsIn(t)) \in Nat
         /\ LastCut(Append(t, ","), Len(t) + 1) /\ Len(t) + 1 \in Commas(Append(t, ","))
         /\ RecordsKept(Append(t, ","), records, Cardinality(CutsIn(t)))
<1>0. "," \in AllBytes BY DEF AllBytes
<1>1. PICK n : n = Len(t) /\ n \in Nat OBVIOUS
<1>2. n + 1 \in Nat /\ n + 1 > n /\ n + 1 \in 1 .. (n + 1) /\ (n + 1) - 1 = n /\ e < n + 1 BY <1>1
<1>3. PICK C, N : C = CutsIn(t) /\ N = Cardinality(C) OBVIOUS
<1>4. PICK D : D = C \cup {n + 1} OBVIOUS
<1>5. PICK u : u = Append(t, ",") OBVIOUS
<1>6. C \in SUBSET (1 .. n) /\ Ranked(C) BY <1>1, <1>3, CutsInAre
<1>7. CutOf(C, N) = l /\ N \in Nat \ {0} /\ l \in 1 .. n /\ l \in Nat
  <2>1. CutOf(C, N) = l /\ N \in Nat \ {0} /\ l \in 1 .. n BY <1>1, <1>3, LastRank
  <2> QED BY <2>1
<1>8. /\ Ranked(D) /\ Cardinality(D) = N + 1 /\ CutOf(D, N + 1) = n + 1
      /\ \A k \in 1 .. N : CutOf(D, k) = CutOf(C, k) /\ CutOf(C, k) \in 1 .. n
  BY <1>1, <1>3, <1>4, CutAdds
<1>11. u \in Seq(AllBytes) /\ Extends(u, t) BY <1>0, <1>5, AppendExtends
<1>12. CutsIn(u) = D /\ n + 1 \in Commas(u) BY <1>0, <1>1, <1>3, <1>4, <1>5, CutsGrow
<1>9. LastCut(u, n + 1)
  <2>1. \A x \in C : x <= n + 1 BY <1>1, <1>6
  <2>2. \A x \in D : x <= n + 1 BY <1>2, <1>4, <2>1
  <2> QED BY <1>4, <1>12, <2>2 DEF LastCut
<1>10. RecordsKept(u, records, N)
  <2> SUFFICES ASSUME NEW k \in 1 .. N
               PROVE  records[k] = Between(u, CutOf(D, k), CutOf(D, k + 1)) /\ Parses(records[k])
    BY <1>12 DEF RecordsKept
  <2>1. CASE k = N
    <3>1. CutOf(D, k) = l /\ CutOf(D, k + 1) = n + 1 BY <1>7, <1>8, <2>1
    <3>2. Between(u, l, n + 1) = SubSeq(t, m, e) BY <1>1, <1>7, <1>11, BetweenLast
    <3>4. records[k] = SubSeq(t, m, e) /\ Parses(SubSeq(t, m, e)) BY <1>3, <2>1
    <3> QED BY <3>1, <3>2, <3>4
  <2>2. CASE k # N
    <3>1. k \in 1 .. (N - 1) /\ k + 1 \in 1 .. N BY <1>7, <2>2
    <3>2. CutOf(D, k) = CutOf(C, k) /\ CutOf(D, k + 1) = CutOf(C, k + 1) /\ CutOf(C, k) \in 1 .. n /\ CutOf(C, k + 1) \in 1 .. n
      BY <1>8, <3>1
    <3>3. records[k] = Between(t, CutOf(C, k), CutOf(C, k + 1)) /\ Parses(records[k]) BY <1>3, <3>1 DEF RecordsKept
    <3>4. Between(u, CutOf(C, k), CutOf(C, k + 1)) = Between(t, CutOf(C, k), CutOf(C, k + 1)) BY <1>1, <1>11, <3>2, BetweenKept
    <3> QED BY <3>2, <3>3, <3>4
  <2> QED BY <2>1, <2>2
<1> QED BY <1>1, <1>3, <1>5, <1>7, <1>8, <1>9, <1>10, <1>12

(* What the scanner has passed, and its last cut.                          *)
Frame(t, l) == InsideArray(t) /\ Ranked(CutsIn(t)) /\ LastCut(t, l)

LEMMA FrameStays ==
  ASSUME NEW t \in Seq(AllBytes), NEW l, Frame(t, l), NEW c \in AllBytes, Lex(Lexed(t)[Len(t) + 1], c) # AtEnd,
         ~(c = "," /\ Lexed(t)[Len(t) + 1] = InArray)
  PROVE  /\ Frame(Append(t, c), l) /\ CutsIn(Append(t, c)) = CutsIn(t) /\ Min(Marks(Append(t, c))) = Min(Marks(t))
         /\ Lexed(Append(t, c))[Len(t) + 2] = Lex(Lexed(t)[Len(t) + 1], c)
         /\ \A records : RecordsKept(t, records, Cardinality(CutsIn(t)) - 1) =>
                         RecordsKept(Append(t, c), records, Cardinality(CutsIn(t)) - 1)
<1>1. InsideArray(t) /\ Ranked(CutsIn(t)) /\ LastCut(t, l) /\ Marks(t) # {} BY DEF Frame, InsideArray
<1>2. /\ InsideArray(Append(t, c)) /\ Min(Marks(Append(t, c))) = Min(Marks(t))
      /\ Lexed(Append(t, c))[Len(t) + 2] = Lex(Lexed(t)[Len(t) + 1], c)
  BY <1>1, StaysInside
<1>3. CutsIn(Append(t, c)) = CutsIn(t) BY <1>1, CutsGrow
<1>4. Frame(Append(t, c), l) BY <1>1, <1>2, <1>3 DEF Frame, LastCut
<1>5. Cardinality(CutsIn(t)) \in Nat BY <1>1, LastRank
<1> QED BY <1>1, <1>2, <1>3, <1>4, <1>5, KeptStays

LEMMA BlankGrows ==
  ASSUME NEW t \in Seq(AllBytes), NEW c \in AllBytes
  PROVE  /\ \A i, j \in 0 .. Len(t) : Blank(t, i + 1, j) => Blank(Append(t, c), i + 1, j)
         /\ c = "s" => \A i \in 0 .. Len(t) : Blank(t, i + 1, Len(t)) => Blank(Append(t, c), i + 1, Len(t) + 1)
<1>1. PICK u, n : u = Append(t, c) /\ n = Len(t) OBVIOUS
<1>2. n \in Nat /\ u[n + 1] = c /\ \A i \in 1 .. n : u[i] = t[i] BY <1>1, AppendExtends
<1>3. \A i, j \in 0 .. n : Blank(t, i + 1, j) => Blank(u, i + 1, j)
  <2> TAKE i, j \in 0 .. n
  <2>1. \A k \in (i + 1) .. j : k \in 1 .. n BY <1>2
  <2> QED BY <1>2, <2>1 DEF Blank
<1>4. c = "s" => \A i \in 0 .. n : Blank(t, i + 1, n) => Blank(u, i + 1, n + 1)
  <2> HAVE c = "s"
  <2> TAKE i \in 0 .. n
  <2>1. \A k \in (i + 1) .. (n + 1) : k = n + 1 \/ (k \in 1 .. n /\ k \in (i + 1) .. n) BY <1>2
  <2> QED BY <1>2, <2>1 DEF Blank
<1> QED BY <1>1, <1>3, <1>4

(* The bracket that ends the array.                                        *)
LEMMA ItsCloser == "]" \in AllBytes /\ Lex(InArray, "]") = AtEnd
<1>1. "]" \in AllBytes /\ "]" \in Closers BY DEF AllBytes, Closers
<1>2. InArray \in LexStates /\ InArray.mode = "out" /\ InArray.open = <<"[">> BY LiftedAtEnd DEF InArray
<1>3. Head(<<"[">>) = "[" /\ Tail(<<"[">>) = <<>> /\ <<"[">> # <<>> OBVIOUS
<1>5. InArray.open # <<>> /\ Tail(InArray.open) = <<>> /\ <<Head(InArray.open), "]">> = <<"[", "]">> BY <1>2, <1>3
<1>4. Lex(InArray, "]") = [mode |-> "out", open |-> <<>>]
  <2>1. Lex(InArray, "]") = IF InArray.open # <<>> /\ <<Head(InArray.open), "]">> \in {<<"[", "]">>, <<"{", "}">>}
                            THEN [mode |-> "out", open |-> Tail(InArray.open)] ELSE [mode |-> "bad", open |-> InArray.open]
    BY <1>1, <1>2, LexCases
  <2> QED BY <1>5, <2>1
<1> QED BY <1>1, <1>4 DEF AtEnd

LEMMA ArrayEnds ==
  ASSUME NEW t \in Seq(AllBytes), NEW l, Frame(t, l), Lexed(t)[Len(t) + 1] = InArray
  PROVE  /\ Bracketed(Append(t, "]")) /\ Cuts(Append(t, "]")) = CutsIn(t) \cup {Len(t) + 1}
         /\ Min(Cuts(Append(t, "]"))) = Min(Marks(t)) /\ Max(Cuts(Append(t, "]"))) = Len(t) + 1
<1>0. "]" \in AllBytes /\ Lex(InArray, "]") = AtEnd BY ItsCloser
<1>1. InsideArray(t) /\ Marks(t) # {} BY DEF Frame, InsideArray
<1>2. PICK n : n = Len(t) /\ n \in Nat OBVIOUS
<1>3. PICK u : u = Append(t, "]") OBVIOUS
<1>4. u \in Seq(AllBytes) /\ Extends(u, t) /\ Len(u) = n + 1 BY <1>0, <1>2, <1>3, AppendExtends
<1>5. u[n + 1] = "]" BY <1>0, <1>2, <1>3, AppendExtends
<1>6. PICK a : a = Min(Marks(t)) OBVIOUS
<1>7. a \in 1 .. n /\ t[a] = "[" /\ (\A i \in (a + 1) .. (n + 1) : Lexed(t)[i] # AtEnd) /\ Blank(t, 1, a - 1)
  BY <1>1, <1>2, <1>6, EndsOf DEF InsideArray
<1>8. (\A i \in 1 .. (n + 1) : Lexed(u)[i] = Lexed(t)[i]) /\ Lexed(u)[n + 2] = AtEnd
  BY <1>0, <1>2, <1>3, LexedAppend
<1>9. Marks(u) # {} /\ Min(Marks(u)) = a /\ u[a] = "[" BY <1>1, <1>2, <1>4, <1>6, <1>7, FirstMark, ExtendsIs
<1>10. PICK z : z = Max(Marks(u)) OBVIOUS
<1>11. z = n + 1
  <2>1. z \in 1 .. (n + 1) /\ \A i \in 1 .. (n + 1) : u[i] # "s" => i <= z BY <1>4, <1>9, <1>10, EndsOf
  <2>2. n + 1 \in 1 .. (n + 1) BY <1>2
  <2>3. n + 1 <= z BY <1>5, <2>1, <2>2
  <2> QED BY <1>2, <2>1, <2>3
<1>12. Bracketed(u)
  <2>1. \A i \in (a + 1) .. (n + 1) : Lexed(u)[i] # AtEnd
    <3> TAKE i \in (a + 1) .. (n + 1)
    <3>1. i \in 1 .. (n + 1) BY <1>2, <1>7
    <3> QED BY <1>7, <1>8, <3>1
  <2>2. Lexed(u)[z + 1] = AtEnd
    <3>1. z + 1 = n + 2 BY <1>2, <1>11
    <3> QED BY <1>8, <3>1
  <2> QED BY <1>5, <1>9, <1>10, <1>11, <2>1, <2>2 DEF Bracketed
<1>13. CutsIn(u) = CutsIn(t) BY <1>0, <1>1, <1>3, CutsGrow
<1>14. Cuts(u) = CutsIn(t) \cup {n + 1} BY <1>4, <1>10, <1>11, <1>12, <1>13, CutsAre
<1>15. Min(Cuts(u)) = a /\ Max(Cuts(u)) = n + 1
  <2>1. PICK D : D = Cuts(u) OBVIOUS
  <2>2. a \in CutsIn(u) /\ \A i \in CutsIn(u) : a <= i /\ i \in 1 .. n
    <3>1. \A i \in CutsIn(u) : a <= i /\ i \in 1 .. (z - 1) BY <1>4, <1>9, <1>12, <1>10, CutsAre
    <3>2. a \in CutsIn(u) BY <1>9 DEF CutsIn
    <3> QED BY <1>2, <1>11, <3>1, <3>2
  <2>3. \A i : i \in D <=> i \in CutsIn(u) \/ i = n + 1 BY <1>13, <1>14, <2>1
  <2>4. D \in SUBSET Nat /\ D \in SUBSET (0 .. (n + 1)) /\ n + 1 \in Nat /\ a \in D /\ n + 1 \in D /\ a \in Nat
    <3>1. \A i \in 1 .. n : i \in Nat /\ i \in 0 .. (n + 1) BY <1>2
    <3>2. n + 1 \in Nat /\ n + 1 \in 0 .. (n + 1) /\ a \in Nat BY <1>2, <1>7
    <3> QED BY <2>2, <2>3, <3>1, <3>2
  <2>5. PICK x, y : x = Min(D) /\ y = Max(D) OBVIOUS
  <2>6. x \in D /\ \A i \in D : x <= i BY <2>4, <2>5, LeastOf
  <2>7. y \in D /\ \A i \in D : y >= i BY <2>4, <2>5, GreatestOf
  <2>8. \A i \in D : a <= i /\ i <= n + 1
    <3>1. \A i \in 1 .. n : i <= n + 1 BY <1>2
    <3>2. a <= n + 1 /\ n + 1 <= n + 1 BY <1>2, <1>7
    <3> QED BY <2>2, <2>3, <3>1, <3>2
  <2>9. x = a /\ y = n + 1
    <3>1. x <= a /\ a <= x /\ y >= n + 1 /\ y <= n + 1 /\ x \in Nat /\ y \in Nat BY <2>4, <2>6, <2>7, <2>8
    <3> QED BY <2>4, <3>1
  <2> QED BY <2>1, <2>5, <2>9
<1> QED BY <1>2, <1>3, <1>6, <1>12, <1>14, <1>15

(* The array has ended, and its elements are the records.                  *)
Done(t, records) ==
  /\ Bracketed(t) /\ Ranked(Cuts(t)) /\ records = ElementsOf(t)
  /\ \A k \in DOMAIN records : Parses(records[k])

LEMMA EmptyDone ==
  ASSUME NEW t \in Seq(AllBytes), NEW l, Frame(t, l), Lexed(t)[Len(t) + 1] = InArray, CutsIn(t) = {Min(Marks(t))},
         Blank(t, l + 1, Len(t))
  PROVE  Done(Append(t, "]"), <<>>)
<1>0. "]" \in AllBytes BY DEF AllBytes
<1>1. Marks(t) # {} /\ Ranked(CutsIn(t)) /\ LastCut(t, l) BY DEF Frame, InsideArray
<1>2. PICK n, a : n = Len(t) /\ a = Min(Marks(t)) OBVIOUS
<1>3. n \in Nat /\ a \in 1 .. n BY <1>1, <1>2, EndsOf
<1>4. PICK u : u = Append(t, "]") OBVIOUS
<1>5. u \in Seq(AllBytes) /\ Extends(u, t) /\ Len(u) = n + 1 BY <1>0, <1>2, <1>4, AppendExtends
<1>6. Bracketed(u) /\ Cuts(u) = CutsIn(t) \cup {n + 1} /\ Min(Cuts(u)) = a /\ Max(Cuts(u)) = n + 1 BY <1>2, <1>4, ArrayEnds
<1>7. l = a BY <1>1, <1>2 DEF LastCut
<1>8. Ranked(Cuts(u)) /\ Cardinality(Cuts(u)) = 2
  <2>1. Cardinality(CutsIn(t)) = 1 BY FS_Singleton
  <2>2. Ranked(CutsIn(t) \cup {n + 1}) /\ Cardinality(CutsIn(t) \cup {n + 1}) = 1 + 1 BY <1>1, <1>2, <2>1, CutAdds
  <2>3. Cuts(u) = CutsIn(t) \cup {n + 1} BY <1>6
  <2> QED BY <2>2, <2>3
<1>9. Between(u, a, n + 1) = <<>>
  <2>1. Blank(u, a + 1, n)
    <3>1. a \in 0 .. n /\ n \in 0 .. n BY <1>3
    <3> QED BY <1>0, <1>2, <1>4, <1>7, <3>1, BlankGrows
  <2>2. a \in Nat /\ n + 1 \in 1 .. (Len(u) + 1) /\ a < n + 1 /\ (n + 1) - 1 = n BY <1>3, <1>5
  <2> QED BY <1>5, <2>1, <2>2, BetweenBlank
<1>10. ElementsOf(u) = <<>> BY <1>6, <1>8, <1>9 DEF ElementsOf
<1>11. DOMAIN <<>> = {} OBVIOUS
<1> QED BY <1>4, <1>6, <1>8, <1>10, <1>11 DEF Done

LEMMA ValueDone ==
  ASSUME NEW t \in Seq(AllBytes), NEW l, Frame(t, l), Lexed(t)[Len(t) + 1] = InArray,
         NEW m \in 1 .. Len(t), NEW e \in 1 .. Len(t), l < m, m <= e, t[m] # "s", t[e] # "s",
         Blank(t, l + 1, m - 1), Blank(t, e + 1, Len(t)),
         NEW B, NEW records \in Seq(B), RecordsKept(t, records, Cardinality(CutsIn(t)) - 1), Len(records) = Cardinality(CutsIn(t)),
         NEW p, p = SubSeq(t, m, e), records[Cardinality(CutsIn(t))] = p, Parses(p)
  PROVE  Done(Append(t, "]"), records)
<1>0. "]" \in AllBytes BY DEF AllBytes
<1>1. Marks(t) # {} /\ Ranked(CutsIn(t)) /\ LastCut(t, l) BY DEF Frame, InsideArray
<1>2. PICK n, a : n = Len(t) /\ a = Min(Marks(t)) OBVIOUS
<1>3. n \in Nat /\ a \in 1 .. n BY <1>1, <1>2, EndsOf
<1>4. PICK C, N : C = CutsIn(t) /\ N = Cardinality(C) OBVIOUS
<1>5. CutOf(C, N) = l /\ N \in Nat \ {0} /\ l \in 1 .. n /\ IsFiniteSet(C) BY <1>1, <1>2, <1>4, LastRank
<1>6. PICK u : u = Append(t, "]") OBVIOUS
<1>7. u \in Seq(AllBytes) /\ Extends(u, t) /\ Len(u) = n + 1 BY <1>0, <1>2, <1>6, AppendExtends
<1>8. PICK D : D = Cuts(u) OBVIOUS
<1>9. Bracketed(u) /\ D = C \cup {n + 1} /\ Min(D) = a /\ Max(D) = n + 1 BY <1>2, <1>4, <1>6, <1>8, ArrayEnds
<1>10. /\ Ranked(D) /\ Cardinality(D) = N + 1 /\ CutOf(D, N + 1) = n + 1
       /\ \A k \in 1 .. N : CutOf(D, k) = CutOf(C, k) /\ CutOf(C, k) \in 1 .. n
  BY <1>1, <1>2, <1>4, <1>9, CutAdds
<1>11. Between(u, l, n + 1) = p BY <1>2, <1>5, <1>7, BetweenLast
<1>12. p # <<>> BY EmptyParsesNot
<1>13. ~(Cardinality(D) = 2 /\ Between(u, Min(D), Max(D)) = <<>>)
  <2> SUFFICES ASSUME Cardinality(D) = 2, Between(u, Min(D), Max(D)) = <<>> PROVE FALSE OBVIOUS
  <2>1. N = 1 BY <1>5, <1>10
  <2>2. PICK x : C = {x} BY <1>4, <1>5, <2>1, FS_Singleton
  <2>3. a \in C /\ l \in C BY <1>1, <1>2, <1>4 DEF CutsIn, LastCut
  <2>4. a = l BY <2>2, <2>3
  <2> QED BY <1>9, <1>11, <1>12, <2>4
<1>14. ElementsOf(u) = [k \in 1 .. N |-> Between(u, CutOf(D, k), CutOf(D, k + 1))]
  <2>1. ElementsOf(u) = [k \in 1 .. (Cardinality(D) - 1) |-> Between(u, CutOf(D, k), CutOf(D, k + 1))]
    BY <1>8, <1>13 DEF ElementsOf, CutOf
  <2>2. Cardinality(D) - 1 = N BY <1>5, <1>10
  <2> QED BY <2>1, <2>2
<1>15. ASSUME NEW k \in 1 .. N PROVE records[k] = Between(u, CutOf(D, k), CutOf(D, k + 1)) /\ Parses(records[k])
  <2>1. CASE k = N
    <3>1. CutOf(D, k) = l /\ CutOf(D, k + 1) = n + 1 BY <1>5, <1>10, <2>1
    <3>2. records[k] = p BY <1>4, <2>1
    <3> QED BY <1>11, <3>1, <3>2
  <2>2. CASE k # N
    <3>1. k \in 1 .. (N - 1) /\ k + 1 \in 1 .. N BY <1>5, <2>2
    <3>2. CutOf(D, k) = CutOf(C, k) /\ CutOf(D, k + 1) = CutOf(C, k + 1) /\ CutOf(C, k) \in 1 .. n /\ CutOf(C, k + 1) \in 1 .. n
      BY <1>10, <3>1
    <3>3. records[k] = Between(t, CutOf(C, k), CutOf(C, k + 1)) /\ Parses(records[k]) BY <1>4, <3>1 DEF RecordsKept
    <3>4. Between(u, CutOf(C, k), CutOf(C, k + 1)) = Between(t, CutOf(C, k), CutOf(C, k + 1))
      BY <1>2, <1>7, <3>2, BetweenKept
    <3> QED BY <3>2, <3>3, <3>4
  <2> QED BY <2>1, <2>2
<1>16. records = [k \in 1 .. N |-> records[k]] /\ DOMAIN records = 1 .. N
  <2>1. Len(records) = N BY <1>4
  <2> QED BY <2>1
<1>17. records = ElementsOf(u) BY <1>14, <1>15, <1>16
<1> QED BY <1>6, <1>8, <1>9, <1>10, <1>15, <1>16, <1>17 DEF Done

LEMMA DoneStays ==
  ASSUME NEW t \in Seq(AllBytes), NEW records, Done(t, records)
  PROVE  Done(Append(t, "s"), records)
<1>0. "s" \in AllBytes BY DEF AllBytes
<1>1. PICK n, a, z : n = Len(t) /\ a = Min(Marks(t)) /\ z = Max(Marks(t)) OBVIOUS
<1>2. /\ Bracketed(t) /\ Ranked(Cuts(t)) /\ records = ElementsOf(t) /\ (\A k \in DOMAIN records : Parses(records[k]))
      /\ Marks(t) # {} /\ t[a] = "[" /\ t[z] = "]" /\ Lexed(t)[z + 1] = AtEnd
      /\ \A i \in (a + 1) .. z : Lexed(t)[i] # AtEnd
  BY <1>1 DEF Done, Bracketed
<1>3. n \in Nat /\ a \in 1 .. n /\ z \in 1 .. n /\ a <= z /\ Blank(t, z + 1, n) /\ Blank(t, 1, a - 1) BY <1>1, <1>2, EndsOf
<1>4. PICK u : u = Append(t, "s") OBVIOUS
<1>5. u \in Seq(AllBytes) /\ Extends(u, t) /\ Len(u) = n + 1 /\ (\A i \in 1 .. n : u[i] = t[i])
  BY <1>0, <1>1, <1>4, AppendExtends
<1>6. /\ Blank(u, z + 1, n + 1) /\ Blank(u, 1, a - 1)
  <2>1. z \in 0 .. n /\ 0 \in 0 .. n /\ a - 1 \in 0 .. n /\ 0 + 1 = 1 BY <1>3
  <2> QED BY <1>0, <1>1, <1>3, <1>4, <2>1, BlankGrows
<1>7. Marks(u) # {} /\ Min(Marks(u)) = a /\ Max(Marks(u)) = z
  <2>1. a \in 1 .. Len(u) /\ z \in 1 .. Len(u) /\ u[a] # "s" /\ u[z] # "s" BY <1>2, <1>3, <1>5
  <2> QED BY <1>3, <1>5, <1>6, <2>1, MarksFound
<1>8. \A i \in 1 .. (n + 1) : Lexed(u)[i] = Lexed(t)[i] BY <1>1, <1>5, ExtendsIs
<1>9. Bracketed(u)
  <2>1. \A i \in (a + 1) .. z : i \in 1 .. (n + 1) BY <1>3
  <2>2. z + 1 \in 1 .. (n + 1) BY <1>3
  <2> QED BY <1>2, <1>3, <1>5, <1>7, <1>8, <2>1, <2>2 DEF Bracketed
<1>10. PICK C : C = Cuts(t) OBVIOUS
<1>11. Cuts(u) = C
  <2>1. CutsIn(u) = CutsIn(t)
    <3>1. "s" # "," OBVIOUS
    <3> QED BY <1>0, <1>2, <1>4, <3>1, CutsGrow
  <2>2. Cuts(u) = CutsIn(u) \cup {z} BY <1>5, <1>7, <1>9, CutsAre
  <2>3. Cuts(t) = CutsIn(t) \cup {z} BY <1>1, <1>2, CutsAre
  <2> QED BY <1>10, <2>1, <2>2, <2>3
<1>12. C \in SUBSET (1 .. n) /\ a \in C /\ IsFiniteSet(C)
  <2>1. C = CutsIn(t) \cup {z} /\ CutsIn(t) \in SUBSET (1 .. (z - 1)) BY <1>1, <1>2, <1>10, CutsAre
  <2>2. \A x \in 1 .. (z - 1) : x \in 1 .. n BY <1>3
  <2>3. a \in CutsIn(t) BY <1>1 DEF CutsIn
  <2>4. C \in SUBSET (1 .. n) BY <1>3, <2>1, <2>2
  <2>5. IsFiniteSet(1 .. n) BY <1>3, FS_Interval
  <2> QED BY <2>1, <2>3, <2>4, <2>5, FS_Subset
<1>13. \A x, y \in 1 .. n : Between(u, x, y) = Between(t, x, y) BY <1>1, <1>5, BetweenKept
<1>14. \A k \in 1 .. Cardinality(C) : CutOf(C, k) \in 1 .. n
  <2> TAKE k \in 1 .. Cardinality(C)
  <2>1. PICK c \in C : Cardinality({d \in C : d <= c}) = k BY <1>2, <1>10 DEF Ranked
  <2>2. CutOf(C, k) = c BY <1>3, <1>12, <2>1, CutOfIs
  <2> QED BY <1>12, <2>2
<1>15. Min(C) \in 1 .. n /\ Max(C) \in 1 .. n
  <2>1. C \in SUBSET Nat /\ C \in SUBSET (0 .. n) /\ C # {}
    <3>1. \A x \in 1 .. n : x \in Nat /\ x \in 0 .. n BY <1>3
    <3> QED BY <1>12, <3>1
  <2>2. Min(C) \in C BY <2>1, LeastOf
  <2>3. Max(C) \in C BY <1>3, <2>1, GreatestOf
  <2> QED BY <1>12, <2>2, <2>3
<1>16. ElementsOf(u) = ElementsOf(t)
  <2> DEFINE E(w) == IF Cardinality(C) = 2 /\ Between(w, Min(C), Max(C)) = <<>> THEN <<>>
                     ELSE [k \in 1 .. (Cardinality(C) - 1) |-> Between(w, CutOf(C, k), CutOf(C, k + 1))]
  <2>1. ElementsOf(u) = E(u) BY <1>11 DEF ElementsOf, CutOf
  <2>2. ElementsOf(t) = E(t) BY <1>10 DEF ElementsOf, CutOf
  <2>3. Between(u, Min(C), Max(C)) = Between(t, Min(C), Max(C)) BY <1>13, <1>15
  <2>4. Cardinality(C) \in Nat BY <1>12, FS_CardinalityType
  <2>5. \A k \in 1 .. (Cardinality(C) - 1) : k \in 1 .. Cardinality(C) /\ k + 1 \in 1 .. Cardinality(C) BY <2>4
  <2>6. \A k \in 1 .. (Cardinality(C) - 1) :
           Between(u, CutOf(C, k), CutOf(C, k + 1)) = Between(t, CutOf(C, k), CutOf(C, k + 1))
    BY <1>13, <1>14, <2>5
  <2>7. E(u) = E(t) BY <2>3, <2>6
  <2> HIDE DEF E
  <2> QED BY <2>1, <2>2, <2>7
<1> QED BY <1>2, <1>4, <1>9, <1>10, <1>11, <1>16 DEF Done

(* Before a value: after the array's bracket, or after a comma.            *)
AwaitsValue(t, s, l) ==
  /\ Frame(t, l) /\ Blank(t, l + 1, Len(t)) /\ Lexed(t)[Len(t) + 1] = InArray
  /\ s.at = "in" /\ ~s.active /\ ~s.escaped
  /\ Len(s.records) = Cardinality(CutsIn(t)) - 1 /\ RecordsKept(t, s.records, Cardinality(CutsIn(t)) - 1)
  /\ \/ s.expect = "value-or-end" /\ CutsIn(t) = {Min(Marks(t))}
     \/ s.expect = "value" /\ l \in Commas(t)

(* After a value, which is kept, and before its comma.                     *)
HasValue(t, s, l, m, e) ==
  /\ Frame(t, l) /\ l < m /\ m <= e /\ t[m] # "s" /\ t[e] # "s" /\ Blank(t, l + 1, m - 1) /\ Blank(t, e + 1, Len(t))
  /\ Lexed(t)[Len(t) + 1] = InArray
  /\ s.at = "in" /\ ~s.active /\ ~s.escaped /\ s.expect = "comma-or-end"
  /\ Len(s.records) = Cardinality(CutsIn(t)) /\ RecordsKept(t, s.records, Cardinality(CutsIn(t)) - 1)
  /\ s.records[Cardinality(CutsIn(t))] = SubSeq(t, m, e) /\ Parses(s.records[Cardinality(CutsIn(t))])

(* Within a value: the parts are what has come of it.                      *)
PartsState(s) == Lexed(s.parts)[Len(s.parts) + 1]

Collecting(t, s, l, m) ==
  /\ Frame(t, l) /\ l < m /\ t[m] # "s" /\ Blank(t, l + 1, m - 1)
  /\ s.at = "in" /\ s.active /\ s.parts = SubSeq(t, m, Len(t))
  /\ Len(s.records) = Cardinality(CutsIn(t)) - 1 /\ RecordsKept(t, s.records, Cardinality(CutsIn(t)) - 1)
  /\ Lifted(PartsState(s), Lexed(t)[Len(t) + 1])

OfOnes(s) ==
  /\ s.isPrimitive /\ s.depth = 0 /\ ~s.inString /\ ~s.escaped
  /\ \A i \in 1 .. Len(s.parts) : s.parts[i] = "1"

Shape(s, p) ==
  /\ p.mode # "bad" /\ (s.inString <=> p.mode \in {"in", "escaped"}) /\ (s.escaped <=> p.mode = "escaped")
  /\ s.depth = Len(p.open)

IsOpened(s) ==
  /\ ~s.isPrimitive /\ Shape(s, PartsState(s)) /\ s.parts[1] \in Openers \cup {"quote"}
  /\ \A i \in 2 .. (Len(s.parts) + 1) : Lexed(s.parts)[i] # AtEnd

Doomed(t, s) == s.at = "in" /\ s.active /\ Hopeless(t) /\ Stuck(s.parts)

(* A value is known to have ended.                                         *)
Ended(t, m, e) == t[m] \in Openers \cup {"quote"} \/ e < Len(t)

Scanning(t, s) ==
  \/ s.at = "failed" /\ Hopeless(t)
  \/ s = FreshScan /\ Blank(t, 1, Len(t))
  \/ \E l \in 1 .. Len(t) : AwaitsValue(t, s, l)
  \/ \E l, m, e \in 1 .. Len(t) : HasValue(t, s, l, m, e) /\ Ended(t, m, e)
  \/ \E l, m \in 1 .. Len(t) : Collecting(t, s, l, m) /\ (OfOnes(s) \/ IsOpened(s))
  \/ Doomed(t, s)
  \/ s.at = "finished" /\ Done(t, s.records)

----
LEMMA NotItsCloser ==
  /\ <<Head(InArray.open), "}">> \notin {<<"[", "]">>, <<"{", "}">>} /\ InArray.open # <<>>
  /\ \A x : [mode |-> "bad", open |-> x].mode = "bad"
<1>1. InArray.open = <<"[">> BY DEF InArray
<1>2. Head(<<"[">>) = "[" /\ <<"[">> # <<>> OBVIOUS
<1>3. \A a, b, x, y : <<a, b>> = <<x, y>> => a = x /\ b = y OBVIOUS
<1>4. <<"[", "}">> \notin {<<"[", "]">>, <<"{", "}">>} BY <1>3
<1>5. <<Head(InArray.open), "}">> = <<"[", "}">> BY <1>1, <1>2
<1> QED BY <1>1, <1>2, <1>4, <1>5

LEMMA InArrayLex ==
  ASSUME NEW c \in AllBytes
  PROVE  /\ Lex(AtEnd, c) \in LexStates /\ Lex(InArray, c) \in LexStates
         /\ c # "]" => Lifted(Lex(AtEnd, c), Lex(InArray, c)) /\ Lex(InArray, c) # AtEnd
         /\ c \in {"s", ",", "1"} => Lex(AtEnd, c) = AtEnd /\ Lex(InArray, c) = InArray
         /\ c \in {"}", "backslash", "lead", "trail"} => Lex(InArray, c).mode = "bad"
<1>1. AtEnd \in LexStates /\ AtEnd.mode = "out" /\ InArray \in LexStates /\ InArray.mode = "out" /\ InArray.open = <<"[">>
  BY AtEndIs, LiftedAtEnd DEF InArray
<1>2. Lex(AtEnd, c) \in LexStates /\ Lex(InArray, c) \in LexStates BY <1>1, LexTyped
<1>3. c # "]" => Lifted(Lex(AtEnd, c), Lex(InArray, c)) BY <1>1, LiftedAtEnd, LiftedStep
<1>4. c # "]" => Lex(InArray, c) # AtEnd BY <1>2, <1>3, LiftedAtEnd
<1>5. c \in {"s", ",", "1"} => Lex(AtEnd, c) = AtEnd /\ Lex(InArray, c) = InArray BY <1>1, LexCases
<1>6. c \in {"backslash", "lead", "trail"} => Lex(InArray, c).mode = "bad"
  <2> HAVE c \in {"backslash", "lead", "trail"}
  <2>1. Lex(InArray, c) = [mode |-> "bad", open |-> InArray.open] BY <1>1, LexCases
  <2> QED BY <2>1
<1>7. c = "}" => Lex(InArray, c).mode = "bad"
  <2>1. "}" \in Closers BY DEF Closers
  <2>2. Lex(InArray, "}") = [mode |-> "bad", open |-> InArray.open] BY <1>1, <2>1, NotItsCloser, LexCases
  <2>3. Lex(InArray, "}").mode = "bad" BY <2>2, NotItsCloser
  <2> QED BY <2>3
<1> QED BY <1>2, <1>3, <1>4, <1>5, <1>6, <1>7

LEMMA LastState ==
  ASSUME NEW t \in Seq(AllBytes)
  PROVE  Lexed(t)[Len(t) + 1] \in LexStates
<1>1. Lexed(t) \in Seq(LexStates) /\ Len(Lexed(t)) = Len(t) + 1 BY LexedIs
<1> QED BY <1>1

LEMMA OneByte ==
  ASSUME NEW c \in AllBytes
  PROVE  <<c>> \in Seq(AllBytes) /\ Len(<<c>>) = 1 /\ <<c>>[1] = c /\ <<c>> # <<>> /\ Lexed(<<c>>)[2] = Lex(AtEnd, c)
<1>1. <<c>> \in Seq(AllBytes) /\ Len(<<c>>) = 1 /\ <<c>>[1] = c /\ <<c>> # <<>> OBVIOUS
<1>2. PICK t : t = <<c>> OBVIOUS
<1>3. t \in Seq(AllBytes) /\ Len(t) = 1 /\ t[1] = c BY <1>1, <1>2
<1>4. Lexed(t)[1] = AtEnd /\ Lexed(t)[1 + 1] = Lex(Lexed(t)[1], t[1])
  <2>1. 1 \in 1 .. Len(t) BY <1>3
  <2> QED BY <1>3, <2>1, LexedIs
<1> QED BY <1>1, <1>2, <1>3, <1>4

(* A value is known to have ended, or ends here.                           *)
KnownEnd(t, m, e, c) == t[m] \in Openers \cup {"quote"} \/ e < Len(t) \/ c \in {"s", ",", "]"}

LEMMA WithinAppend ==
  ASSUME NEW t \in Seq(AllBytes), NEW c \in AllBytes, NEW m \in 1 .. Len(t), NEW e \in m .. Len(t)
  PROVE  SubSeq(Append(t, c), m, e) = SubSeq(t, m, e)
OBVIOUS

LEMMA AfterIt ==
  ASSUME NEW t \in Seq(AllBytes), NEW c \in AllBytes, NEW m \in 1 .. Len(t)
  PROVE  SubSeq(Append(t, c), m, Len(t) + 1) = Append(SubSeq(t, m, Len(t)), c)
OBVIOUS

(* After a comma: a value must follow.                                     *)
AfterComma(v, s) == v.at = "in" /\ ~v.active /\ ~v.escaped /\ v.expect = "value" /\ v.records = s.records
Spoils(c) == c \notin {"s", ",", "]"}

LEMMA ValueBlank ==
  ASSUME NEW t \in Seq(AllBytes), NEW s, NEW l \in 1 .. Len(t), NEW m \in 1 .. Len(t), NEW e \in 1 .. Len(t),
         HasValue(t, s, l, m, e)
  PROVE  HasValue(Append(t, "s"), s, l, m, e)
<1>1. PICK n, u, N, records : n = Len(t) /\ u = Append(t, "s") /\ N = Cardinality(CutsIn(t)) /\ records = s.records OBVIOUS
<1>2. "s" \in AllBytes BY DEF AllBytes
<1>3. n \in Nat /\ l \in 1 .. n /\ m \in 1 .. n /\ e \in 1 .. n BY <1>1
<1>4. u \in Seq(AllBytes) /\ Extends(u, t) /\ Len(u) = n + 1 /\ \A i \in 1 .. n : u[i] = t[i] BY <1>1, <1>2, AppendExtends
<1>5. /\ Frame(t, l) /\ l < m /\ m <= e /\ t[m] # "s" /\ t[e] # "s" /\ Blank(t, l + 1, m - 1) /\ Blank(t, e + 1, n)
      /\ Lexed(t)[n + 1] = InArray
  BY <1>1 DEF HasValue
<1>6. s.at = "in" /\ ~s.active /\ ~s.escaped /\ s.expect = "comma-or-end" BY DEF HasValue
<1>7. Len(records) = N /\ RecordsKept(t, records, N - 1) /\ records[N] = SubSeq(t, m, e) /\ Parses(records[N])
  BY <1>1 DEF HasValue
<1>8. Lex(InArray, "s") = InArray /\ Lex(InArray, "s") # AtEnd BY <1>2, InArrayLex
<1>9. Frame(u, l) /\ CutsIn(u) = CutsIn(t) /\ Lexed(u)[n + 2] = InArray /\ RecordsKept(u, records, N - 1)
  BY <1>1, <1>2, <1>5, <1>7, <1>8, FrameStays
<1>10. l \in 0 .. n /\ m - 1 \in 0 .. n /\ e \in 0 .. n /\ e \in m .. n BY <1>3, <1>5
<1>11. Blank(u, l + 1, m - 1) /\ Blank(u, e + 1, n + 1) BY <1>1, <1>2, <1>5, <1>10, BlankGrows
<1>12. SubSeq(u, m, e) = SubSeq(t, m, e) BY <1>1, <1>2, <1>10, WithinAppend
<1>13. u[m] = t[m] /\ u[e] = t[e] BY <1>3, <1>4
<1>14. Len(u) + 1 = n + 2 BY <1>3, <1>4
<1> QED BY <1>1, <1>4, <1>5, <1>6, <1>7, <1>9, <1>11, <1>12, <1>13, <1>14 DEF HasValue

LEMMA ValueComma ==
  ASSUME NEW t \in Seq(AllBytes), NEW s, NEW l \in 1 .. Len(t), NEW m \in 1 .. Len(t), NEW e \in 1 .. Len(t),
         HasValue(t, s, l, m, e),
         NEW v, AfterComma(v, s)
  PROVE  AwaitsValue(Append(t, ","), v, Len(t) + 1)
<1>0. Len(t) \in Nat OBVIOUS
<1>1. PICK n, u, N, records : n = Len(t) /\ u = Append(t, ",") /\ N = Cardinality(CutsIn(t)) /\ records = s.records OBVIOUS
<1>2. "," \in AllBytes BY DEF AllBytes
<1>3. n \in Nat /\ l \in 1 .. n /\ m \in 1 .. n /\ e \in 1 .. n
  <2>1. l \in 1 .. n /\ m \in 1 .. n /\ e \in 1 .. n BY <1>1, Zenon
  <2> QED BY <1>0, <1>1, <2>1, Zenon
<1>4. u \in Seq(AllBytes) /\ Extends(u, t) /\ Len(u) = n + 1 BY <1>1, <1>2, AppendExtends
<1>5. /\ Frame(t, l) /\ l < m /\ m <= e /\ t[m] # "s" /\ t[e] # "s" /\ Blank(t, l + 1, m - 1) /\ Blank(t, e + 1, n)
      /\ Lexed(t)[n + 1] = InArray
  BY <1>1 DEF HasValue
<1>6. Len(records) = N /\ RecordsKept(t, records, N - 1) /\ records[N] = SubSeq(t, m, e) /\ Parses(SubSeq(t, m, e))
  BY <1>1 DEF HasValue
<1>7. InsideArray(t) /\ Marks(t) # {} /\ Ranked(CutsIn(t)) /\ LastCut(t, l) BY <1>5 DEF Frame, InsideArray
<1>8. /\ Ranked(CutsIn(u)) /\ Cardinality(CutsIn(u)) = N + 1 /\ N \in Nat /\ LastCut(u, n + 1) /\ n + 1 \in Commas(u)
      /\ RecordsKept(u, records, N)
  BY <1>1, <1>3, <1>5, <1>6, <1>7, KeptGrows
<1>9. Lex(InArray, ",") = InArray /\ Lex(InArray, ",") # AtEnd BY <1>2, InArrayLex
<1>10. InsideArray(u) /\ Lexed(u)[n + 2] = InArray BY <1>1, <1>2, <1>5, <1>7, <1>9, StaysInside
<1>11. /\ \A k \in ((n + 1) + 1) .. (n + 1) : FALSE
       /\ n + 1 \in 1 .. Len(u) /\ Len(u) + 1 = n + 2 /\ N + 1 - 1 = N
  BY <1>3, <1>4, <1>8
<1>12. Blank(u, (n + 1) + 1, Len(u)) BY <1>4, <1>11 DEF Blank
<1>13. Frame(u, n + 1) BY <1>8, <1>10 DEF Frame
<1>14. v.at = "in" /\ ~v.active /\ ~v.escaped /\ v.expect = "value" /\ v.records = records BY <1>1 DEF AfterComma
<1>15. Len(v.records) = Cardinality(CutsIn(u)) - 1 /\ RecordsKept(u, v.records, Cardinality(CutsIn(u)) - 1) BY <1>6, <1>8, <1>11, <1>14
<1>16. Lexed(u)[Len(u) + 1] = InArray BY <1>10, <1>11
<1>17. AwaitsValue(u, v, n + 1) BY <1>8, <1>11, <1>12, <1>13, <1>14, <1>15, <1>16 DEF AwaitsValue
<1> QED BY <1>1, <1>17

LEMMA ValueLast ==
  ASSUME NEW t \in Seq(AllBytes), NEW s, NEW l \in 1 .. Len(t), NEW m \in 1 .. Len(t), NEW e \in 1 .. Len(t),
         HasValue(t, s, l, m, e), NEW B, s.records \in Seq(B)
  PROVE  Done(Append(t, "]"), s.records)
<1>1. PICK N, records, p : N = Cardinality(CutsIn(t)) /\ records = s.records /\ p = SubSeq(t, m, e) OBVIOUS
<1>2. /\ Frame(t, l) /\ l < m /\ m <= e /\ t[m] # "s" /\ t[e] # "s" /\ Blank(t, l + 1, m - 1) /\ Blank(t, e + 1, Len(t))
      /\ Lexed(t)[Len(t) + 1] = InArray
  BY DEF HasValue
<1>3. Len(records) = N /\ RecordsKept(t, records, N - 1) /\ records[N] = p /\ Parses(p)
  BY <1>1 DEF HasValue
<1>4. records \in Seq(B) BY <1>1
<1>5. Done(Append(t, "]"), records) BY <1>1, <1>2, <1>3, <1>4, ValueDone
<1> QED BY <1>1, <1>5

LEMMA ValueSpoilt ==
  ASSUME NEW t \in Seq(AllBytes), NEW s, NEW l \in 1 .. Len(t), NEW m \in 1 .. Len(t), NEW e \in 1 .. Len(t),
         HasValue(t, s, l, m, e), NEW c \in AllBytes, Spoils(c), KnownEnd(t, m, e, c)
  PROVE  Hopeless(Append(t, c))
<1>1. PICK n, u : n = Len(t) /\ u = Append(t, c) OBVIOUS
<1>3. n \in Nat /\ l \in 1 .. n /\ m \in 1 .. n /\ e \in 1 .. n BY <1>1
<1>4. u \in Seq(AllBytes) /\ Extends(u, t) /\ Len(u) = n + 1 BY <1>1, AppendExtends
<1>15. (\A i \in 1 .. n : u[i] = t[i]) /\ u[n + 1] = c BY <1>1, AppendExtends
<1>5. /\ Frame(t, l) /\ l < m /\ m <= e /\ t[m] # "s" /\ t[e] # "s" /\ Blank(t, l + 1, m - 1) /\ Blank(t, e + 1, n)
      /\ Lexed(t)[n + 1] = InArray /\ Parses(SubSeq(t, m, e))
  BY <1>1 DEF HasValue
<1>6. Lex(InArray, c) # AtEnd BY InArrayLex DEF Spoils
<1>18. c # "," /\ c # "s" BY DEF Spoils
<1>7. Frame(u, l) BY <1>1, <1>5, <1>6, <1>18, FrameStays
<1>8. l \in 0 .. n /\ m - 1 \in 0 .. n /\ e \in m .. n /\ e < n + 1 BY <1>3, <1>5
<1>9. Blank(u, l + 1, m - 1) BY <1>1, <1>5, <1>8, BlankGrows
<1>10. SubSeq(u, m, e) = SubSeq(t, m, e) BY <1>1, <1>8, WithinAppend
<1>11. u[m] = t[m] BY <1>3, <1>15
<1>12. t[m] \in Openers \cup {"quote"} \/ e < n BY <1>1 DEF KnownEnd, Spoils
<1>13. e < n => u[e + 1] = "s"
  <2>1. e < n => e + 1 \in (e + 1) .. n /\ e + 1 \in 1 .. n BY <1>3
  <2>2. e < n => t[e + 1] = "s" BY <1>5, <2>1 DEF Blank
  <2> QED BY <1>15, <2>1, <2>2
<1>14. m \in 1 .. Len(u) /\ e \in 1 .. Len(u) /\ n + 1 \in 1 .. Len(u) BY <1>3, <1>4
<1>16. InsideArray(u) /\ LastCut(u, l) BY <1>7 DEF Frame
<1>17. u[n + 1] # "s" /\ u[m] # "s" /\ Parses(SubSeq(u, m, e)) /\ (u[m] \in Openers \cup {"quote"} \/ u[e + 1] = "s")
  BY <1>5, <1>10, <1>11, <1>12, <1>13, <1>15, <1>18
<1>19. Hopeless(u) BY <1>4, <1>5, <1>8, <1>9, <1>14, <1>16, <1>17, ValueAndMore
<1> QED BY <1>1, <1>19

(* Whatever follows a value, or its end.                                   *)
LEMMA ValueStep ==
  ASSUME NEW t \in Seq(AllBytes), NEW s \in ScanStates, NEW c \in AllBytes,
         NEW l \in 1 .. Len(t), NEW m \in 1 .. Len(t), NEW e \in 1 .. Len(t), HasValue(t, s, l, m, e),
         KnownEnd(t, m, e, c)
  PROVE  Scanning(Append(t, c), BetweenElements(s, c))
<1>1. s.at = "in" /\ ~s.active /\ ~s.escaped /\ s.expect = "comma-or-end" BY DEF HasValue
<1>2. PICK u, n : u = Append(t, c) /\ n = Len(t) OBVIOUS
<1>3. Len(u) = n + 1 BY <1>2, AppendExtends
<1>4. CASE c = "s"
  <2>1. BetweenElements(s, c) = s BY <1>4 DEF BetweenElements
  <2>2. HasValue(u, s, l, m, e) BY <1>2, <1>4, ValueBlank
  <2>3. n \in Nat /\ l \in 1 .. n /\ m \in 1 .. n /\ e \in 1 .. n BY <1>2
  <2>4. l \in 1 .. Len(u) /\ m \in 1 .. Len(u) /\ e \in 1 .. Len(u) /\ e < Len(u) BY <1>3, <2>3
  <2> QED BY <1>2, <2>1, <2>2, <2>4 DEF Scanning, Ended
<1>5. CASE c = ","
  <2>1. BetweenElements(s, c) = [s EXCEPT !.expect = "value"] BY <1>1, <1>5 DEF BetweenElements
  <2>2. PICK v : v = [s EXCEPT !.expect = "value"] OBVIOUS
  <2>3. AfterComma(v, s) BY <1>1, <2>2 DEF ScanStates, AfterComma
  <2>4. AwaitsValue(u, v, n + 1) BY <1>2, <1>5, <2>3, ValueComma
  <2>5. n + 1 \in 1 .. Len(u) BY <1>2, <1>3
  <2> QED BY <1>2, <2>1, <2>2, <2>4, <2>5 DEF Scanning
<1>6. CASE c = "]"
  <2>1. BetweenElements(s, c) = [s EXCEPT !.at = "finished"] BY <1>1, <1>6 DEF BetweenElements
  <2>2. PICK v : v = [s EXCEPT !.at = "finished"] OBVIOUS
  <2>3. v.at = "finished" /\ v.records = s.records BY <2>2 DEF ScanStates
  <2>4. s.records \in Seq(Seq(Bytes)) BY DEF ScanStates
  <2>5. Done(u, s.records) BY <1>2, <1>6, <2>4, ValueLast
  <2> QED BY <1>2, <2>1, <2>2, <2>3, <2>5 DEF Scanning
<1>7. CASE c \notin {"s", ",", "]"}
  <2>1. BetweenElements(s, c) = StreamFailed(s) BY <1>1, <1>7 DEF BetweenElements
  <2>2. StreamFailed(s).at = "failed" BY DEF StreamFailed, ScanStates
  <2>3. Hopeless(u) BY <1>2, <1>7, ValueSpoilt DEF Spoils
  <2> QED BY <1>2, <2>1, <2>2, <2>3 DEF Scanning
<1> QED BY <1>4, <1>5, <1>6, <1>7

LEMMA AwaitBlank ==
  ASSUME NEW t \in Seq(AllBytes), NEW s, NEW l \in 1 .. Len(t), AwaitsValue(t, s, l)
  PROVE  AwaitsValue(Append(t, "s"), s, l)
<1>0. Len(t) \in Nat OBVIOUS
<1>1. PICK n, u, N, records : n = Len(t) /\ u = Append(t, "s") /\ N = Cardinality(CutsIn(t)) /\ records = s.records OBVIOUS
<1>2. "s" \in AllBytes BY DEF AllBytes
<1>3. n \in Nat /\ l \in 1 .. n BY <1>0, <1>1, Zenon
<1>4. u \in Seq(AllBytes) /\ Extends(u, t) /\ Len(u) = n + 1 BY <1>1, <1>2, AppendExtends
<1>5. /\ Frame(t, l) /\ Blank(t, l + 1, n) /\ Lexed(t)[n + 1] = InArray
      /\ s.at = "in" /\ ~s.active /\ ~s.escaped
      /\ Len(records) = N - 1 /\ RecordsKept(t, records, N - 1)
      /\ ((s.expect = "value-or-end" /\ CutsIn(t) = {Min(Marks(t))}) \/ (s.expect = "value" /\ l \in Commas(t)))
  BY <1>1 DEF AwaitsValue
<1>6. Lex(InArray, "s") = InArray /\ Lex(InArray, "s") # AtEnd BY <1>2, InArrayLex
<1>7. Frame(u, l) /\ CutsIn(u) = CutsIn(t) /\ Lexed(u)[n + 2] = InArray /\ RecordsKept(u, records, N - 1) /\ Min(Marks(u)) = Min(Marks(t))
  BY <1>1, <1>2, <1>5, <1>6, FrameStays
<1>8. l \in 0 .. n /\ Len(u) + 1 = n + 2 BY <1>3, <1>4
<1>9. Blank(u, l + 1, n + 1) BY <1>1, <1>2, <1>5, <1>8, BlankGrows
<1>10. l \in Commas(t) => l \in Commas(u) BY <1>1, <1>3, <1>4, SameCommas
<1> QED BY <1>1, <1>4, <1>5, <1>7, <1>8, <1>9, <1>10 DEF AwaitsValue

LEMMA AwaitEnd ==
  ASSUME NEW t \in Seq(AllBytes), NEW s, NEW l \in 1 .. Len(t), AwaitsValue(t, s, l)
  PROVE  /\ s.expect = "value" => Hopeless(Append(t, "]"))
         /\ s.expect = "value-or-end" => Done(Append(t, "]"), <<>>) /\ Len(s.records) = 0
<1>0. Len(t) \in Nat OBVIOUS
<1>1. PICK n, u : n = Len(t) /\ u = Append(t, "]") OBVIOUS
<1>2. "]" \in AllBytes /\ Lex(InArray, "]") = AtEnd BY ItsCloser
<1>3. n \in Nat /\ l \in 1 .. n BY <1>0, <1>1, Zenon
<1>4. u \in Seq(AllBytes) /\ Extends(u, t) /\ Len(u) = n + 1 /\ u[n + 1] = "]" BY <1>1, <1>2, AppendExtends
<1>5. /\ Frame(t, l) /\ Blank(t, l + 1, n) /\ Lexed(t)[n + 1] = InArray /\ Len(s.records) = Cardinality(CutsIn(t)) - 1
      /\ ((s.expect = "value-or-end" /\ CutsIn(t) = {Min(Marks(t))}) \/ (s.expect = "value" /\ l \in Commas(t)))
  BY <1>1 DEF AwaitsValue
<1>6. Marks(t) # {} /\ LastCut(t, l) BY <1>5 DEF Frame, InsideArray
<1>7. ASSUME s.expect = "value" PROVE Hopeless(u)
  <2>1. l \in Commas(t) BY <1>5, <1>7
  <2>2. l \in Commas(u) BY <1>1, <1>3, <1>4, <2>1, SameCommas
  <2>3. CutsIn(u) = CutsIn(t) BY <1>1, <1>2, <1>6, CutsGrow
  <2>4. Lexed(u)[n + 2] = AtEnd BY <1>1, <1>2, <1>5, LexedAppend
  <2>5. Marks(u) # {} BY <1>1, <1>4, <1>6, FirstMark
  <2>6. l \in 0 .. n /\ n \in 0 .. n /\ l \in 1 .. Len(u) /\ n + 1 \in 1 .. Len(u) /\ l < n + 1 /\ n + 1 + 1 = n + 2 /\ n + 1 - 1 = n BY <1>3, <1>4
  <2>7. Blank(u, l + 1, n) BY <1>1, <1>2, <1>3, <1>5, <2>6, BlankGrows
  <2>8. \A x \in CutsIn(u) : ~(l < x /\ x < n + 1)
    <3>1. CutsIn(t) \in SUBSET (1 .. n) BY <1>1, <1>6, CutsInAre
    <3>2. \A x \in CutsIn(t) : x <= l BY <1>6 DEF LastCut
    <3> QED BY <1>3, <2>3, <3>1, <3>2
  <2>9. u[n + 1] # "s" BY <1>4
  <2>10. PICK k : k = n + 1 OBVIOUS
  <2>11. /\ k \in 1 .. Len(u) /\ l < k /\ k = Len(u) /\ u[k] # "s" /\ Lexed(u)[k + 1] = AtEnd
         /\ Blank(u, l + 1, k - 1) /\ \A x \in CutsIn(u) : ~(l < x /\ x < k)
    BY <1>4, <2>4, <2>6, <2>7, <2>8, <2>9, <2>10
  <2> QED BY <1>4, <2>2, <2>5, <2>6, <2>11, NothingAndEnd
<1>8. ASSUME s.expect = "value-or-end" PROVE Done(u, <<>>) /\ Len(s.records) = 0
  <2>1. CutsIn(t) = {Min(Marks(t))} BY <1>5, <1>8
  <2>2. Done(u, <<>>) BY <1>1, <1>5, <2>1, EmptyDone
  <2>3. Min(Marks(t)) \in Nat BY <1>6, CutsInAre
  <2>4. Cardinality(CutsIn(t)) = 1 BY <2>1, <2>3, RankOne
  <2> QED BY <1>5, <2>2, <2>4
<1> QED BY <1>1, <1>7, <1>8

LEMMA AwaitComma ==
  ASSUME NEW t \in Seq(AllBytes), NEW s, NEW l \in 1 .. Len(t), AwaitsValue(t, s, l)
  PROVE  Hopeless(Append(t, ","))
<1>0. Len(t) \in Nat OBVIOUS
<1>1. PICK n, u : n = Len(t) /\ u = Append(t, ",") OBVIOUS
<1>2. "," \in AllBytes BY DEF AllBytes
<1>3. n \in Nat /\ l \in 1 .. n BY <1>0, <1>1, Zenon
<1>4. u \in Seq(AllBytes) /\ Extends(u, t) /\ Len(u) = n + 1 BY <1>1, <1>2, AppendExtends
<1>5. Frame(t, l) /\ Blank(t, l + 1, n) /\ Lexed(t)[n + 1] = InArray BY <1>1 DEF AwaitsValue
<1>6. InsideArray(t) /\ Marks(t) # {} /\ LastCut(t, l) BY <1>5 DEF Frame, InsideArray
<1>7. Lex(InArray, ",") # AtEnd BY <1>2, InArrayLex
<1>8. InsideArray(u) BY <1>1, <1>2, <1>5, <1>6, <1>7, StaysInside
<1>9. CutsIn(u) = CutsIn(t) \cup {n + 1} /\ n + 1 \in Commas(u) BY <1>1, <1>2, <1>5, <1>6, CutsGrow
<1>10. l \in 0 .. n /\ n \in 0 .. n /\ l < n + 1 /\ n + 1 - 1 = n BY <1>3
<1>11. Blank(u, l + 1, n) BY <1>1, <1>2, <1>3, <1>5, <1>10, BlankGrows
<1>12. l \in CutsIn(u) BY <1>6, <1>9 DEF LastCut
<1>13. \A x \in CutsIn(u) : ~(l < x /\ x < n + 1)
  <2>1. CutsIn(t) \in SUBSET (1 .. n) BY <1>1, <1>6, CutsInAre
  <2>2. \A x \in CutsIn(t) : x <= l BY <1>6 DEF LastCut
  <2>3. \A x \in CutsIn(t) : ~(l < x /\ x < n + 1) BY <1>3, <2>1, <2>2
  <2>4. ~(n + 1 < n + 1) BY <1>3
  <2> QED BY <1>9, <2>3, <2>4
<1>14. PICK k : k = n + 1 OBVIOUS
<1>15. /\ k \in Commas(u) /\ l < k /\ k = Len(u) /\ Blank(u, l + 1, k - 1) /\ \A x \in CutsIn(u) : ~(l < x /\ x < k)
  BY <1>4, <1>9, <1>10, <1>11, <1>13, <1>14
<1>16. Hopeless(u) BY <1>4, <1>8, <1>12, <1>15, NothingAndComma
<1> QED BY <1>1, <1>16

(* The first byte of a value.                                              *)
Starts(v, s, c) ==
  /\ v.at = "in" /\ v.active /\ v.parts = <<c>> /\ v.records = s.records /\ ~v.escaped
  /\ v.depth = (IF c \in Openers THEN 1 ELSE 0) /\ (v.inString <=> c = "quote")
  /\ (v.isPrimitive <=> c \notin Openers \cup {"quote"})

LEMMA OneOf ==
  ASSUME NEW t \in Seq(AllBytes), NEW x \in 1 .. Len(t)
  PROVE  SubSeq(t, x, x) = <<t[x]>>
<1>1. PICK p : p = SubSeq(t, x, x) OBVIOUS
<1>2. p \in Seq(AllBytes) /\ Len(p) = 1 /\ p[1] = t[x]
  <2>1. Len(t) \in Nat /\ x \in Nat /\ x - x + 1 = 1 /\ x + 1 - 1 = x OBVIOUS
  <2>2. p \in Seq(AllBytes) BY <1>1
  <2>3. Len(p) = 1 BY <1>1, <2>1
  <2>4. p[1] = t[x] BY <1>1, <2>1
  <2> QED BY <2>2, <2>3, <2>4
<1>3. p = <<p[1]>> BY <1>2
<1> QED BY <1>1, <1>2, <1>3

LEMMA AwaitStarts ==
  ASSUME NEW t \in Seq(AllBytes), NEW s, NEW l \in 1 .. Len(t), AwaitsValue(t, s, l),
         NEW c \in AllBytes, Spoils(c), NEW v, Starts(v, s, c)
  PROVE  Collecting(Append(t, c), v, l, Len(t) + 1)
<1>0. Len(t) \in Nat OBVIOUS
<1>1. PICK n, u, N, records : n = Len(t) /\ u = Append(t, c) /\ N = Cardinality(CutsIn(t)) /\ records = s.records OBVIOUS
<1>3. n \in Nat /\ l \in 1 .. n BY <1>0, <1>1, Zenon
<1>4. u \in Seq(AllBytes) /\ Extends(u, t) /\ Len(u) = n + 1 BY <1>1, AppendExtends
<1>14. u[n + 1] = c BY <1>1, AppendExtends
<1>5. /\ Frame(t, l) /\ Blank(t, l + 1, n) /\ Lexed(t)[n + 1] = InArray
      /\ Len(records) = N - 1 /\ RecordsKept(t, records, N - 1)
  BY <1>1 DEF AwaitsValue
<1>6. Lex(InArray, c) # AtEnd /\ Lifted(Lex(AtEnd, c), Lex(InArray, c)) BY InArrayLex DEF Spoils
<1>7. Frame(u, l) /\ CutsIn(u) = CutsIn(t) /\ Lexed(u)[n + 2] = Lex(InArray, c) /\ RecordsKept(u, records, N - 1)
  <2>1. c # "," BY DEF Spoils
  <2> QED BY <1>1, <1>5, <1>6, <2>1, FrameStays
<1>8. l \in 0 .. n /\ n \in 0 .. n /\ l < n + 1 /\ n + 1 - 1 = n /\ Len(u) + 1 = n + 2 BY <1>3, <1>4
<1>9. Blank(u, l + 1, n) BY <1>1, <1>5, <1>8, BlankGrows
<1>10. v.at = "in" /\ v.active /\ v.parts = <<c>> /\ v.records = records BY <1>1 DEF Starts
<1>11. u[n + 1] # "s" BY <1>14 DEF Spoils
<1>12. SubSeq(u, n + 1, n + 1) = <<c>>
  <2>1. <<u[n + 1]>> = <<c>> BY <1>14
  <2>2. n + 1 \in 1 .. Len(u) BY <1>3, <1>4
  <2> QED BY <1>4, <2>1, <2>2, OneOf
<1>13. Lexed(v.parts)[Len(v.parts) + 1] = Lex(AtEnd, c)
  <2>1. PICK p : p = <<c>> OBVIOUS
  <2>2. Len(p) = 1 /\ Lexed(p)[2] = Lex(AtEnd, c) BY <2>1, OneByte
  <2>3. Len(p) + 1 = 2 BY <2>2
  <2> QED BY <1>10, <2>1, <2>2, <2>3
<1>15. Lifted(PartsState(v), Lexed(u)[Len(u) + 1]) BY <1>6, <1>7, <1>8, <1>13 DEF PartsState
<1>16. Collecting(u, v, l, n + 1) BY <1>1, <1>4, <1>5, <1>7, <1>8, <1>9, <1>10, <1>11, <1>12, <1>15 DEF Collecting
<1> QED BY <1>1, <1>16

LEMMA StartShape ==
  ASSUME NEW c \in AllBytes, Spoils(c), NEW s, NEW v, Starts(v, s, c)
  PROVE  /\ c = "1" => OfOnes(v)
         /\ c \in Openers \cup {"quote"} => IsOpened(v)
         /\ c \in {"}", "backslash", "lead", "trail"} => Stuck(v.parts)
<1>1. PICK p : p = <<c>> OBVIOUS
<1>2. p \in Seq(AllBytes) /\ Len(p) = 1 /\ p[1] = c /\ p # <<>> /\ Lexed(p)[2] = Lex(AtEnd, c) BY <1>1, OneByte
<1>3. /\ v.parts = p /\ ~v.escaped /\ v.depth = (IF c \in Openers THEN 1 ELSE 0) /\ (v.inString <=> c = "quote")
      /\ (v.isPrimitive <=> c \notin Openers \cup {"quote"})
  BY <1>1 DEF Starts
<1>4. Len(p) + 1 = 2 /\ 1 .. Len(p) = {1} /\ 2 .. (Len(p) + 1) = {2} BY <1>2
<1>5. AtEnd \in LexStates /\ AtEnd.mode = "out" /\ AtEnd.open = <<>> BY AtEndIs DEF AtEnd
<1>6. "quote" \notin Openers /\ "1" \notin Openers BY DEF Openers
<1>7. ASSUME c = "1" PROVE OfOnes(v) BY <1>2, <1>3, <1>4, <1>6, <1>7 DEF OfOnes
<1>8. ASSUME c \in {"}", "backslash", "lead", "trail"} PROVE Stuck(p)
  <2>1. c \notin Openers \cup {"quote"} BY <1>8 DEF Openers
  <2>2. c # "1" BY <1>8
  <2> QED BY <1>2, <1>4, <2>1, <2>2 DEF Stuck
<1>9. ASSUME c = "quote" PROVE IsOpened(v)
  <2>1. Lex(AtEnd, c) = [mode |-> "in", open |-> <<>>] BY <1>5, <1>9, LexCases
  <2>2. PICK q : q = [mode |-> "in", open |-> <<>>] OBVIOUS
  <2>3. q.mode = "in" /\ q.open = <<>> BY <2>2
  <2>4. q # AtEnd BY <1>5, <2>3
  <2>5. PartsState(v) = q BY <1>2, <1>3, <1>4, <2>1, <2>2 DEF PartsState
  <2>6. Len(q.open) = 0 BY <2>3
  <2>7. v.depth = 0 /\ v.inString /\ ~v.escaped /\ ~v.isPrimitive BY <1>3, <1>6, <1>9
  <2>8. Shape(v, q) BY <2>3, <2>6, <2>7 DEF Shape
  <2>9. \A i \in 2 .. (Len(p) + 1) : Lexed(p)[i] # AtEnd BY <1>2, <1>4, <2>1, <2>2, <2>4
  <2> QED BY <1>2, <1>3, <1>9, <2>5, <2>7, <2>8, <2>9 DEF IsOpened
<1>10. ASSUME c \in Openers PROVE IsOpened(v)
  <2>1. Lex(AtEnd, c) = [mode |-> "out", open |-> <<c>> \o <<>>] BY <1>5, <1>10, LexCases
  <2>2. PICK q : q = [mode |-> "out", open |-> <<c>> \o <<>>] OBVIOUS
  <2>3. q.mode = "out" /\ q.open = <<c>> \o <<>> BY <2>2
  <2>6. Len(<<c>> \o <<>>) = 1 OBVIOUS
  <2>10. <<c>> \o <<>> # <<>> OBVIOUS
  <2>4. q # AtEnd BY <1>5, <2>3, <2>10
  <2>5. PartsState(v) = q BY <1>2, <1>3, <1>4, <2>1, <2>2 DEF PartsState
  <2>7. v.depth = 1 /\ ~v.inString /\ ~v.escaped /\ ~v.isPrimitive BY <1>3, <1>6, <1>10
  <2>8. Shape(v, q) BY <2>3, <2>6, <2>7 DEF Shape
  <2>9. \A i \in 2 .. (Len(p) + 1) : Lexed(p)[i] # AtEnd BY <1>2, <1>4, <2>1, <2>2, <2>4
  <2> QED BY <1>2, <1>3, <1>10, <2>5, <2>7, <2>8, <2>9 DEF IsOpened
<1> QED BY <1>3, <1>7, <1>8, <1>9, <1>10

(* Whatever follows a bracket or a comma of the array.                     *)
LEMMA AwaitStep ==
  ASSUME NEW t \in Seq(AllBytes), NEW s \in ScanStates, NEW c \in AllBytes,
         NEW l \in 1 .. Len(t), AwaitsValue(t, s, l)
  PROVE  Scanning(Append(t, c), BetweenElements(s, c))
<1>1. s.at = "in" /\ ~s.active /\ ~s.escaped /\ s.expect \in {"value", "value-or-end"} BY DEF AwaitsValue
<1>2. PICK u, n : u = Append(t, c) /\ n = Len(t) OBVIOUS
<1>3. Len(u) = n + 1 /\ u \in Seq(AllBytes) BY <1>2, AppendExtends
<1>11. n \in Nat /\ l \in 1 .. n BY <1>2
<1>12. l \in 1 .. Len(u) /\ n + 1 \in 1 .. Len(u) BY <1>3, <1>11
<1>13. StreamFailed(s).at = "failed" BY DEF StreamFailed, ScanStates
<1>4. CASE c = "s"
  <2>1. BetweenElements(s, c) = s BY <1>4 DEF BetweenElements
  <2>2. AwaitsValue(u, s, l) BY <1>2, <1>4, AwaitBlank
  <2> QED BY <1>2, <1>12, <2>1, <2>2 DEF Scanning
<1>5. CASE c = ","
  <2>1. BetweenElements(s, c) = StreamFailed(s) BY <1>1, <1>5 DEF BetweenElements
  <2>2. Hopeless(u) BY <1>2, <1>5, AwaitComma
  <2> QED BY <1>2, <1>13, <2>1, <2>2 DEF Scanning
<1>6. CASE c = "]" /\ s.expect = "value"
  <2>1. BetweenElements(s, c) = StreamFailed(s) BY <1>6 DEF BetweenElements
  <2>2. Hopeless(u) BY <1>2, <1>6, AwaitEnd
  <2> QED BY <1>2, <1>13, <2>1, <2>2 DEF Scanning
<1>7. CASE c = "]" /\ s.expect = "value-or-end"
  <2>1. BetweenElements(s, c) = [s EXCEPT !.at = "finished"] BY <1>1, <1>7 DEF BetweenElements
  <2>2. PICK v : v = [s EXCEPT !.at = "finished"] OBVIOUS
  <2>3. v.at = "finished" /\ v.records = s.records BY <2>2 DEF ScanStates
  <2>4. Done(u, <<>>) /\ Len(s.records) = 0 BY <1>2, <1>7, AwaitEnd
  <2>5. s.records = <<>>
    <3>1. s.records \in Seq(Seq(Bytes)) BY DEF ScanStates
    <3> QED BY <2>4, <3>1
  <2> QED BY <1>2, <2>1, <2>2, <2>3, <2>4, <2>5 DEF Scanning
<1>8. CASE Spoils(c)
  <2>1. PICK v : v = [s EXCEPT !.active = TRUE, !.parts = <<c>>, !.depth = IF c \in Openers THEN 1 ELSE 0,
                        !.inString = c = "quote", !.isPrimitive = c \notin Openers \cup {"quote"}]
    OBVIOUS
  <2>2. BetweenElements(s, c) = v BY <1>1, <1>8, <2>1 DEF BetweenElements, Spoils
  <2>3. Starts(v, s, c) BY <1>1, <2>1 DEF ScanStates, Starts
  <2>4. Collecting(u, v, l, n + 1) BY <1>2, <1>8, <2>3, AwaitStarts
  <2>5. CASE c = "1"
    <3>1. OfOnes(v) BY <1>8, <2>3, <2>5, StartShape
    <3> QED BY <1>2, <1>12, <2>2, <2>4, <3>1 DEF Scanning
  <2>6. CASE c \in Openers \cup {"quote"}
    <3>1. IsOpened(v) BY <1>8, <2>3, <2>6, StartShape
    <3> QED BY <1>2, <1>12, <2>2, <2>4, <3>1 DEF Scanning
  <2>7. CASE c \in {"}", "backslash", "lead", "trail"}
    <3>1. Stuck(v.parts) BY <1>8, <2>3, <2>7, StartShape
    <3>2. Lexed(t)[n + 1] = InArray BY <1>2 DEF AwaitsValue
    <3>3. Lexed(u)[n + 2] = Lex(InArray, c) BY <1>2, <3>2, LexedAppend
    <3>4. Lex(InArray, c).mode = "bad" BY <2>7, InArrayLex
    <3>5. n + 2 \in 1 .. (Len(u) + 1) BY <1>3, <1>11
    <3>6. Hopeless(u) BY <1>3, <3>3, <3>4, <3>5, NotMatched
    <3>7. Doomed(u, v) BY <2>3, <3>1, <3>6 DEF Doomed, Starts
    <3> QED BY <1>2, <2>2, <3>7 DEF Scanning
  <2>8. c \in {"1"} \cup (Openers \cup {"quote"}) \cup {"}", "backslash", "lead", "trail"}
    BY <1>8 DEF Spoils, AllBytes, Openers
  <2> QED BY <2>5, <2>6, <2>7, <2>8
<1>9. c = "s" \/ c = "," \/ c = "]" \/ Spoils(c) BY DEF Spoils
<1> QED BY <1>1, <1>4, <1>5, <1>6, <1>7, <1>8, <1>9

(* One byte more of a value.                                               *)
Lengthened(v, s, c) == v.at = "in" /\ v.active /\ v.parts = Append(s.parts, c) /\ v.records = s.records

LEMMA PartsAre ==
  ASSUME NEW t \in Seq(AllBytes), NEW s, NEW l, NEW m \in 1 .. Len(t), Collecting(t, s, l, m)
  PROVE  /\ s.parts \in Seq(AllBytes) /\ s.parts # <<>> /\ Len(s.parts) \in Nat \ {0} /\ Len(s.parts) = Len(t) - m + 1
         /\ s.parts[1] = t[m] /\ s.parts[Len(s.parts)] = t[Len(t)]
         /\ PartsState(s) \in LexStates /\ Lexed(t)[Len(t) + 1] \in LexStates
         /\ Lifted(PartsState(s), Lexed(t)[Len(t) + 1])
<1>1. s.parts = SubSeq(t, m, Len(t)) /\ Lifted(PartsState(s), Lexed(t)[Len(t) + 1]) BY DEF Collecting
<1>2. PICK p : p = SubSeq(t, m, Len(t)) OBVIOUS
<1>3. p \in Seq(AllBytes) /\ Len(p) = Len(t) - m + 1 /\ p[1] = t[m] BY <1>2
<1>4. p[Len(t) - m + 1] = t[Len(t)] BY <1>2
<1>5. p # <<>> /\ Len(p) \in Nat \ {0} BY <1>3
<1>6. Lexed(p)[Len(p) + 1] \in LexStates /\ Lexed(t)[Len(t) + 1] \in LexStates BY <1>3, LastState
<1>7. s.parts = p BY <1>1, <1>2
<1>8. PartsState(s) \in LexStates BY <1>6, <1>7 DEF PartsState
<1> QED BY <1>1, <1>3, <1>4, <1>5, <1>6, <1>7, <1>8

(* A byte that neither ends nor parts the values of the array.             *)
WithinValue(s, c) == ~(PartsState(s) = AtEnd /\ c \in {"]", ","})

LEMMA CollectMore ==
  ASSUME NEW t \in Seq(AllBytes), NEW s, NEW l \in 1 .. Len(t), NEW m \in 1 .. Len(t), Collecting(t, s, l, m),
         NEW c \in AllBytes, WithinValue(s, c), NEW v, Lengthened(v, s, c)
  PROVE  Collecting(Append(t, c), v, l, m) /\ PartsState(v) = Lex(PartsState(s), c)
<1>0. Len(t) \in Nat OBVIOUS
<1>1. PICK n, u, N, records : n = Len(t) /\ u = Append(t, c) /\ N = Cardinality(CutsIn(t)) /\ records = s.records OBVIOUS
<1>2. PICK p, q, parts : p = PartsState(s) /\ q = Lexed(t)[n + 1] /\ parts = s.parts OBVIOUS
<1>3. n \in Nat /\ l \in 1 .. n /\ m \in 1 .. n BY <1>0, <1>1, Zenon
<1>4. u \in Seq(AllBytes) /\ Extends(u, t) /\ Len(u) = n + 1 BY <1>1, AppendExtends
<1>5. \A i \in 1 .. n : u[i] = t[i] BY <1>1, AppendExtends
<1>6. /\ Frame(t, l) /\ l < m /\ t[m] # "s" /\ Blank(t, l + 1, m - 1)
      /\ Len(records) = N - 1 /\ RecordsKept(t, records, N - 1)
  BY <1>1 DEF Collecting
<1>7. parts \in Seq(AllBytes) /\ p \in LexStates /\ q \in LexStates /\ Lifted(p, q) BY <1>1, <1>2, PartsAre
<1>8. ~(p = AtEnd /\ c = "]") /\ ~(p = AtEnd /\ c = ",") BY <1>2 DEF WithinValue
<1>9. Lex(p, c) \in LexStates /\ Lex(q, c) \in LexStates /\ Lifted(Lex(p, c), Lex(q, c)) BY <1>7, <1>8, LexTyped, LiftedStep
<1>10. Lex(q, c) # AtEnd BY <1>9, LiftedAtEnd
<1>11. ~(c = "," /\ q = InArray) BY <1>7, <1>8, LiftedAtEnd
<1>12. /\ Frame(u, l) /\ CutsIn(u) = CutsIn(t) /\ Lexed(u)[n + 2] = Lex(q, c) /\ RecordsKept(u, records, N - 1)
  BY <1>1, <1>2, <1>6, <1>10, <1>11, FrameStays
<1>13. l \in 0 .. n /\ m - 1 \in 0 .. n /\ Len(u) + 1 = n + 2 BY <1>3, <1>4
<1>14. Blank(u, l + 1, m - 1) BY <1>1, <1>6, <1>13, BlankGrows
<1>15. u[m] = t[m] BY <1>3, <1>5
<1>16. parts = SubSeq(t, m, n) BY <1>1, <1>2 DEF Collecting
<1>17. SubSeq(u, m, n + 1) = Append(parts, c) BY <1>1, <1>16, AfterIt
<1>18. v.at = "in" /\ v.active /\ v.parts = Append(parts, c) /\ v.records = records BY <1>1, <1>2 DEF Lengthened
<1>19. PartsState(v) = Lex(p, c)
  <2>1. Lexed(parts)[Len(parts) + 1] = p BY <1>2 DEF PartsState
  <2>2. Len(Append(parts, c)) = Len(parts) + 1 /\ Len(parts) + 1 + 1 = Len(parts) + 2 BY <1>7
  <2>3. Lexed(Append(parts, c))[Len(parts) + 2] = Lex(Lexed(parts)[Len(parts) + 1], c) BY <1>7, LexedAppend
  <2> QED BY <1>18, <2>1, <2>2, <2>3 DEF PartsState
<1>20. Lifted(PartsState(v), Lexed(u)[Len(u) + 1]) BY <1>9, <1>12, <1>13, <1>19
<1>21. Collecting(u, v, l, m) BY <1>1, <1>4, <1>6, <1>12, <1>14, <1>15, <1>17, <1>18, <1>20 DEF Collecting
<1> QED BY <1>1, <1>2, <1>19, <1>21

LEMMA KeptAppended ==
  ASSUME NEW t, NEW N \in Nat, NEW B, NEW records \in Seq(B), NEW p \in B, Len(records) = N, RecordsKept(t, records, N)
  PROVE  /\ RecordsKept(t, Append(records, p), N) /\ Len(Append(records, p)) = N + 1 /\ Append(records, p)[N + 1] = p
<1>1. \A k \in 1 .. N : Append(records, p)[k] = records[k] OBVIOUS
<1>2. RecordsKept(t, Append(records, p), N) BY <1>1 DEF RecordsKept
<1>3. Len(Append(records, p)) = N + 1 /\ Append(records, p)[N + 1] = p OBVIOUS
<1> QED BY <1>2, <1>3

LEMMA ElementKept ==
  ASSUME NEW u \in Seq(AllBytes), NEW s \in ScanStates, NEW l \in 1 .. Len(u), NEW m \in 1 .. Len(u), Collecting(u, s, l, m),
         ~s.escaped, u[Len(u)] # "s", Lexed(u)[Len(u) + 1] = InArray, Parses(s.parts)
  PROVE  HasValue(u, CompleteElement(s), l, m, Len(u)) /\ CompleteElement(s) \in ScanStates
<1>1. PICK n, N, records, p, v : n = Len(u) /\ N = Cardinality(CutsIn(u)) /\ records = s.records /\ p = s.parts /\ v = CompleteElement(s)
  OBVIOUS
<1>2. /\ Frame(u, l) /\ l < m /\ u[m] # "s" /\ Blank(u, l + 1, m - 1) /\ p = SubSeq(u, m, n) /\ s.at = "in"
      /\ Len(records) = N - 1 /\ RecordsKept(u, records, N - 1)
  BY <1>1 DEF Collecting
<1>3. v \in ScanStates BY <1>1, CompleteTyped
<1>4. p \in Seq(Bytes) /\ records \in Seq(Seq(Bytes)) BY <1>1 DEF ScanStates
<1>5. CompleteElement(s) = [s EXCEPT !.parts = <<>>, !.active = FALSE, !.isPrimitive = FALSE, !.expect = "comma-or-end",
                                     !.records = Append(@, s.parts)]
  BY DEF CompleteElement
<1>6. v.at = "in" /\ ~v.active /\ ~v.escaped /\ v.expect = "comma-or-end" /\ v.records = Append(records, p)
  BY <1>1, <1>2, <1>5 DEF ScanStates
<1>7. N \in Nat \ {0}
  <2>1. Marks(u) # {} /\ LastCut(u, l) BY <1>2 DEF Frame, InsideArray
  <2> QED BY <1>1, <2>1, LastRank
<1>8. N - 1 \in Nat /\ N - 1 + 1 = N BY <1>7
<1>9. RecordsKept(u, v.records, N - 1) /\ Len(v.records) = N /\ v.records[N] = p
  <2>1. PICK B, M : B = Seq(Bytes) /\ M = N - 1 OBVIOUS
  <2>2. p \in B /\ records \in Seq(B) /\ M \in Nat /\ Len(records) = M /\ RecordsKept(u, records, M) BY <1>2, <1>4, <1>8, <2>1
  <2>3. RecordsKept(u, Append(records, p), M) /\ Len(Append(records, p)) = M + 1 /\ Append(records, p)[M + 1] = p
    BY <2>2, KeptAppended
  <2> QED BY <1>6, <1>8, <2>1, <2>3
<1>10. n \in Nat /\ m <= n /\ \A k \in (n + 1) .. n : FALSE BY <1>1
<1>11. Blank(u, n + 1, n) BY <1>10 DEF Blank
<1>12. HasValue(u, v, l, m, n) BY <1>1, <1>2, <1>6, <1>9, <1>10, <1>11 DEF HasValue
<1> QED BY <1>1, <1>3, <1>12

LEMMA KeepIs ==
  ASSUME NEW s \in ScanStates, NEW c \in Bytes
  PROVE  /\ KeepByte(s, c) \in ScanStates
         /\ KeepByte(s, c).parts = Append(s.parts, c) /\ KeepByte(s, c).records = s.records /\ KeepByte(s, c).at = s.at
         /\ KeepByte(s, c).active = s.active /\ KeepByte(s, c).inString = s.inString /\ KeepByte(s, c).escaped = s.escaped
         /\ KeepByte(s, c).depth = s.depth /\ KeepByte(s, c).isPrimitive = s.isPrimitive
<1>1. s.parts \in Seq(Bytes) BY DEF ScanStates
<1>2. Append(s.parts, c) \in Seq(Bytes) BY <1>1
<1> QED BY <1>2 DEF KeepByte, ScanStates

LEMMA NotComplete ==
  ASSUME NEW s \in ScanStates
  PROVE  StreamFailed(s).at = "failed" /\ (~Parses(s.parts) => CompleteElement(s) = StreamFailed(s))
BY DEF CompleteElement, StreamFailed, ScanStates

LEMMA StuckElement ==
  ASSUME NEW s \in ScanStates, NEW c \in Bytes, s.at = "in", s.active, ~Parses(s.parts), ~Parses(Append(s.parts, c))
  PROVE  InElement(s, c).at = "failed" \/ Lengthened(InElement(s, c), s, c)
<1>1. PICK k : k = KeepByte(s, c) OBVIOUS
<1>2. k \in ScanStates /\ k.parts = Append(s.parts, c) /\ k.records = s.records /\ k.at = "in" /\ k.active BY <1>1, KeepIs
<1>3. Lengthened(k, s, c) BY <1>2 DEF Lengthened
<1>4. \A b \in BOOLEAN : /\ [k EXCEPT !.inString = b] \in ScanStates /\ [k EXCEPT !.inString = b].parts = Append(s.parts, c)
                         /\ Lengthened([k EXCEPT !.inString = b], s, c) /\ Lengthened([k EXCEPT !.escaped = b], s, c)
  BY <1>2 DEF ScanStates, Lengthened
<1>14. \A d \in Nat : /\ [k EXCEPT !.depth = d] \in ScanStates /\ [k EXCEPT !.depth = d].parts = Append(s.parts, c)
                       /\ Lengthened([k EXCEPT !.depth = d], s, c)
  BY <1>2 DEF ScanStates, Lengthened
<1>5. Lengthened([k EXCEPT !.depth = @ + 1], s, c) BY <1>2 DEF ScanStates, Lengthened
<1>6. s.depth \in Nat /\ k.depth = s.depth BY <1>1, KeepIs DEF ScanStates
<1>7. \A b \in BOOLEAN : CompleteElement([k EXCEPT !.inString = b]).at = "failed"
  <2> TAKE b \in BOOLEAN
  <2>1. PICK x : x = [k EXCEPT !.inString = b] OBVIOUS
  <2>2. x \in ScanStates /\ ~Parses(x.parts) BY <1>4, <2>1
  <2> QED BY <2>1, <2>2, NotComplete
<1>8. CompleteElement(s).at = "failed" BY NotComplete
<1>9. CASE s.inString
  <2>1. InElement(s, c) = InString(s, c) BY <1>9 DEF InElement
  <2>2. CASE s.escaped
    <3>1. InString(s, c) = [k EXCEPT !.escaped = FALSE] BY <1>1, <2>2 DEF InString
    <3> QED BY <1>4, <2>1, <3>1
  <2>3. CASE ~s.escaped /\ c = "backslash"
    <3>1. InString(s, c) = [k EXCEPT !.escaped = TRUE] BY <1>1, <2>3 DEF InString
    <3> QED BY <1>4, <2>1, <3>1
  <2>4. CASE ~s.escaped /\ c = "quote"
    <3>1. InString(s, c) = IF s.depth = 0 THEN CompleteElement([k EXCEPT !.inString = FALSE]) ELSE [k EXCEPT !.inString = FALSE]
      BY <1>1, <2>4 DEF InString
    <3> QED BY <1>4, <1>7, <2>1, <3>1
  <2>5. CASE ~s.escaped /\ c # "backslash" /\ c # "quote"
    <3>1. InString(s, c) = k BY <1>1, <2>5 DEF InString
    <3> QED BY <1>3, <2>1, <3>1
  <2> QED BY <2>2, <2>3, <2>4, <2>5
<1>10. CASE ~s.inString /\ c = "quote"
  <2>1. InElement(s, c) = [k EXCEPT !.inString = TRUE] BY <1>1, <1>10 DEF InElement, Openers, Closers
  <2> QED BY <1>4, <2>1
<1>11. CASE ~s.inString /\ c \in Openers
  <2>1. InElement(s, c) = [k EXCEPT !.depth = @ + 1] BY <1>1, <1>11 DEF InElement, Openers, Closers
  <2> QED BY <1>5, <2>1
<1>12. CASE ~s.inString /\ c \in Closers
  <2>1. InElement(s, c) = Closing(s, c) BY <1>12 DEF InElement, Openers, Closers
  <2>2. CASE s.depth > 0
    <3>1. PICK x : x = [k EXCEPT !.depth = @ - 1] OBVIOUS
    <3>2. x \in ScanStates /\ x.parts = Append(s.parts, c) /\ Lengthened(x, s, c)
      <4>1. k.depth - 1 \in Nat BY <1>6, <2>2
      <4>2. PICK d : d = k.depth - 1 OBVIOUS
      <4>3. x = [k EXCEPT !.depth = d] BY <3>1, <4>2
      <4> QED BY <1>14, <4>1, <4>2, <4>3
    <3>3. Closing(s, c) = IF x.depth = 0 THEN CompleteElement(x) ELSE x BY <1>1, <2>2, <3>1 DEF Closing
    <3>4. CompleteElement(x).at = "failed" BY <3>2, NotComplete
    <3> QED BY <2>1, <3>2, <3>3, <3>4
  <2>3. CASE ~(s.depth > 0)
    <3>1. Closing(s, c).at = "failed" BY <1>8, <2>3, NotComplete DEF Closing
    <3> QED BY <2>1, <3>1
  <2> QED BY <2>2, <2>3
<1>13. CASE ~s.inString /\ c \notin {"quote"} \cup Openers \cup Closers
  <2>1. CASE c \in {",", "s"} /\ s.depth = 0 /\ s.isPrimitive
    <3>1. InElement(s, c) = IF c = "," /\ CompleteElement(s).at # "failed" THEN [CompleteElement(s) EXCEPT !.expect = "value"] ELSE CompleteElement(s)
      BY <1>13, <2>1 DEF InElement
    <3> QED BY <1>8, <3>1
  <2>2. CASE ~(c \in {",", "s"} /\ s.depth = 0 /\ s.isPrimitive)
    <3>1. InElement(s, c) = k BY <1>1, <1>13, <2>2 DEF InElement
    <3> QED BY <1>3, <3>1
  <2> QED BY <2>1, <2>2
<1> QED BY <1>9, <1>10, <1>11, <1>12, <1>13

(* What can no longer be a value only grows, or fails.                     *)
LEMMA DoomedStep ==
  ASSUME NEW t \in Seq(AllBytes), NEW s \in ScanStates, NEW c \in Bytes, Doomed(t, s)
  PROVE  Scanning(Append(t, c), InElement(s, c))
<1>1. s.at = "in" /\ s.active /\ Hopeless(t) /\ Stuck(s.parts) BY DEF Doomed
<1>2. c \in AllBytes /\ s.parts \in Seq(AllBytes) BY BytesAreBytes DEF ScanStates
<1>3. PICK p, q : p = s.parts /\ q = Append(s.parts, c) OBVIOUS
<1>4. p \in Seq(AllBytes) /\ q \in Seq(AllBytes) /\ Extends(q, p) /\ Extends(p, p)
  <2>1. Extends(p, p) BY <1>2, <1>3 DEF Extends
  <2> QED BY <1>2, <1>3, <2>1, AppendExtends
<1>5. ~Parses(p) /\ ~Parses(q) /\ Stuck(q) BY <1>1, <1>3, <1>4, StuckFails
<1>6. Append(t, c) \in Seq(AllBytes) /\ Extends(Append(t, c), t) BY <1>2, AppendExtends
<1>7. Hopeless(Append(t, c)) BY <1>1, <1>6, HopelessMore
<1>8. InElement(s, c).at = "failed" \/ Lengthened(InElement(s, c), s, c) BY <1>1, <1>3, <1>5, StuckElement
<1>9. Lengthened(InElement(s, c), s, c) => Doomed(Append(t, c), InElement(s, c)) BY <1>3, <1>5, <1>7 DEF Lengthened, Doomed
<1> QED BY <1>7, <1>8, <1>9 DEF Scanning

LEMMA OnesAre ==
  ASSUME NEW t \in Seq(AllBytes), NEW s, NEW l \in 1 .. Len(t), NEW m \in 1 .. Len(t), Collecting(t, s, l, m), OfOnes(s)
  PROVE  /\ PartsState(s) = AtEnd /\ Lexed(t)[Len(t) + 1] = InArray /\ Parses(s.parts)
         /\ s.parts[1] = "1" /\ t[m] # "s" /\ t[Len(t)] # "s"
<1>1. PICK p : p = s.parts OBVIOUS
<1>2. p \in Seq(AllBytes) /\ p # <<>> /\ Len(p) \in Nat \ {0} /\ p[Len(p)] = t[Len(t)] /\ p[1] = t[m] BY <1>1, PartsAre
<1>3. \A i \in 1 .. Len(p) : p[i] = "1" BY <1>1 DEF OfOnes
<1>4. Lexed(p)[Len(p) + 1] = AtEnd
  <2>1. Len(p) + 1 \in 1 .. (Len(p) + 1) BY <1>2
  <2> QED BY <1>2, <1>3, <2>1, OnesLex
<1>5. PartsState(s) = AtEnd BY <1>1, <1>4 DEF PartsState
<1>6. Lexed(t)[Len(t) + 1] = InArray
  <2>1. Lexed(t)[Len(t) + 1] \in LexStates /\ Lifted(AtEnd, Lexed(t)[Len(t) + 1]) BY <1>5, PartsAre
  <2> QED BY <2>1, LiftedAtEnd
<1>7. Parses(p)
  <2>1. DOMAIN p = 1 .. Len(p) BY <1>2
  <2> QED BY <1>2, <1>3, <2>1 DEF Parses
<1>8. 1 \in 1 .. Len(p) /\ Len(p) \in 1 .. Len(p) BY <1>2
<1>9. p[1] = "1" /\ p[Len(p)] = "1" BY <1>3, <1>8
<1> QED BY <1>1, <1>2, <1>5, <1>6, <1>7, <1>9

Closes(c) == c \in {"s", ",", "]"}

LEMMA LastPlace ==
  ASSUME NEW t \in Seq(AllBytes), NEW m \in 1 .. Len(t)
  PROVE  Len(t) \in 1 .. Len(t)
OBVIOUS

LEMMA OnesEnd ==
  ASSUME NEW t \in Seq(AllBytes), NEW s \in ScanStates, NEW l \in 1 .. Len(t), NEW m \in 1 .. Len(t), Collecting(t, s, l, m),
         OfOnes(s), NEW c \in AllBytes, Closes(c)
  PROVE  Scanning(Append(t, c), InElement(s, c))
<1>1. PICK v, n : v = CompleteElement(s) /\ n = Len(t) OBVIOUS
<1>2. ~s.escaped /\ ~s.inString /\ s.depth = 0 /\ s.isPrimitive BY DEF OfOnes
<1>3. n \in 1 .. Len(t) BY <1>1, LastPlace
<1>4. Lexed(t)[n + 1] = InArray /\ Parses(s.parts) /\ t[n] # "s" BY <1>1, OnesAre
<1>5. HasValue(t, v, l, m, n) /\ v \in ScanStates BY <1>1, <1>2, <1>4, ElementKept
<1>6. v.at = "in" /\ ~v.active /\ v.expect = "comma-or-end" BY <1>5 DEF HasValue
<1>7. KnownEnd(t, m, n, c) BY DEF KnownEnd, Closes
<1>8. Scanning(Append(t, c), BetweenElements(v, c)) BY <1>3, <1>5, <1>7, ValueStep
<1>9. InElement(s, c) = BetweenElements(v, c)
  <2>1. CASE c = "s"
    <3>1. InElement(s, c) = v BY <1>1, <1>2, <2>1 DEF InElement, Openers, Closers
    <3>2. BetweenElements(v, c) = v BY <2>1 DEF BetweenElements
    <3> QED BY <3>1, <3>2
  <2>2. CASE c = ","
    <3>1. InElement(s, c) = [v EXCEPT !.expect = "value"] BY <1>1, <1>2, <1>6, <2>2 DEF InElement, Openers, Closers
    <3>2. BetweenElements(v, c) = [v EXCEPT !.expect = "value"] BY <1>6, <2>2 DEF BetweenElements
    <3> QED BY <3>1, <3>2
  <2>3. CASE c = "]"
    <3>1. InElement(s, c) = Closing(s, c) BY <1>2, <2>3 DEF InElement, Openers, Closers
    <3>2. Closing(s, c) = [v EXCEPT !.at = "finished"] BY <1>1, <1>2, <1>6, <2>3 DEF Closing
    <3>3. BetweenElements(v, c) = [v EXCEPT !.at = "finished"] BY <1>6, <2>3 DEF BetweenElements
    <3> QED BY <3>1, <3>2, <3>3
  <2> QED BY <2>1, <2>2, <2>3 DEF Closes
<1> QED BY <1>8, <1>9

(* A number is spoilt by every byte that neither ends nor continues it.    *)
LEMMA OnesSpoilt ==
  ASSUME NEW t \in Seq(AllBytes), NEW s, NEW l \in 1 .. Len(t), NEW m \in 1 .. Len(t), Collecting(t, s, l, m),
         OfOnes(s), NEW c \in AllBytes, Spoils(c), c # "1"
  PROVE  Hopeless(Append(t, c)) /\ Stuck(Append(s.parts, c))
<1>0. Len(t) \in Nat OBVIOUS
<1>1. PICK n, u, p, q : n = Len(t) /\ u = Append(t, c) /\ p = s.parts /\ q = Append(s.parts, c) OBVIOUS
<1>2. n \in Nat /\ l \in 1 .. n /\ m \in 1 .. n BY <1>0, <1>1, Zenon
<1>3. u \in Seq(AllBytes) /\ Len(u) = n + 1 BY <1>1, AppendExtends
<1>4. u[n + 1] = c /\ \A i \in 1 .. n : u[i] = t[i] BY <1>1, AppendExtends
<1>5. p \in Seq(AllBytes) /\ Len(p) \in Nat \ {0} /\ p[1] = "1" BY <1>1, PartsAre, OnesAre
<1>6. q \in Seq(AllBytes) /\ Len(q) = Len(p) + 1 /\ q[Len(p) + 1] = c /\ q[1] = "1" /\ q # <<>>
  <2>1. 1 \in 1 .. Len(p) BY <1>5
  <2>2. q \in Seq(AllBytes) /\ Len(q) = Len(p) + 1 /\ q[Len(p) + 1] = c /\ \A i \in 1 .. Len(p) : q[i] = p[i]
    BY <1>1, <1>5, AppendExtends
  <2>3. q # <<>> BY <1>5, <2>2
  <2> QED BY <1>5, <2>1, <2>2, <2>3
<1>7. Stuck(q)
  <2>1. "1" \notin Openers \cup {"quote"} BY DEF Openers
  <2>2. Len(p) + 1 \in 1 .. Len(q) BY <1>5, <1>6
  <2> QED BY <1>6, <2>1, <2>2 DEF Stuck
<1>8. Lexed(t)[n + 1] = InArray BY <1>1, OnesAre
<1>9. c # "," /\ c # "]" /\ c # "s" BY DEF Spoils
<1>10. Frame(t, l) /\ l < m /\ t[m] # "s" /\ Blank(t, l + 1, m - 1) /\ p = SubSeq(t, m, n) BY <1>1 DEF Collecting
<1>11. Lex(InArray, c) # AtEnd BY <1>9, InArrayLex
<1>12. Frame(u, l) BY <1>1, <1>8, <1>9, <1>10, <1>11, FrameStays
<1>13. InsideArray(u) /\ LastCut(u, l) BY <1>12 DEF Frame
<1>14. l \in 0 .. n /\ m - 1 \in 0 .. n /\ m <= n + 1 /\ m \in 1 .. Len(u) /\ n + 1 \in 1 .. Len(u) BY <1>2, <1>3
<1>15. Blank(u, l + 1, m - 1) BY <1>1, <1>10, <1>14, BlankGrows
<1>16. u[m] # "s" /\ u[n + 1] # "s" BY <1>2, <1>4, <1>9, <1>10
<1>17. SubSeq(u, m, n + 1) = q BY <1>1, <1>10, AfterIt
<1>18. Hopeless(u) BY <1>3, <1>7, <1>10, <1>13, <1>14, <1>15, <1>16, <1>17, NoElement
<1> QED BY <1>1, <1>7, <1>18

LEMMA OnesStep ==
  ASSUME NEW t \in Seq(AllBytes), NEW s \in ScanStates, NEW l \in 1 .. Len(t), NEW m \in 1 .. Len(t), Collecting(t, s, l, m),
         OfOnes(s), NEW c \in Bytes
  PROVE  Scanning(Append(t, c), InElement(s, c))
<1>1. c \in AllBytes BY BytesAreBytes
<1>2. PICK u, k, n : u = Append(t, c) /\ k = KeepByte(s, c) /\ n = Len(t) OBVIOUS
<1>3. s.at = "in" /\ s.active /\ ~s.escaped /\ ~s.inString /\ s.depth = 0 /\ s.isPrimitive BY DEF OfOnes, Collecting
<1>4. /\ k \in ScanStates /\ k.parts = Append(s.parts, c) /\ k.records = s.records /\ k.at = "in" /\ k.active
      /\ ~k.escaped /\ ~k.inString /\ k.depth = 0 /\ k.isPrimitive
  BY <1>2, <1>3, KeepIs
<1>5. CASE c \in {"s", ",", "]"} BY <1>1, <1>5, OnesEnd DEF Closes
<1>6. CASE c = "1"
  <2>1. InElement(s, c) = k BY <1>2, <1>3, <1>6 DEF InElement, Openers, Closers
  <2>2. Lengthened(k, s, c) BY <1>4 DEF Lengthened
  <2>3. WithinValue(s, c) BY <1>6 DEF WithinValue
  <2>4. Collecting(u, k, l, m) BY <1>1, <1>2, <2>2, <2>3, CollectMore
  <2>5. OfOnes(k)
    <3>1. PICK p : p = s.parts OBVIOUS
    <3>2. p \in Seq(AllBytes) BY <3>1, PartsAre
    <3>3. Len(Append(p, c)) = Len(p) + 1 /\ Append(p, c)[Len(p) + 1] = c /\ \A i \in 1 .. Len(p) : Append(p, c)[i] = p[i]
      BY <1>1, <3>2, AppendExtends
    <3>4. \A i \in 1 .. Len(p) : p[i] = "1" BY <3>1 DEF OfOnes
    <3>6. \A i \in 1 .. (Len(p) + 1) : i \in 1 .. Len(p) \/ i = Len(p) + 1 BY <3>2
    <3>5. \A i \in 1 .. Len(Append(p, c)) : Append(p, c)[i] = "1" BY <1>6, <3>3, <3>4, <3>6
    <3> QED BY <1>4, <3>1, <3>5 DEF OfOnes
  <2>6. l \in 1 .. Len(u) /\ m \in 1 .. Len(u)
    <3>1. Len(u) = n + 1 BY <1>1, <1>2, AppendExtends
    <3>2. n \in Nat /\ l \in 1 .. n /\ m \in 1 .. n BY <1>2
    <3> QED BY <3>1, <3>2
  <2> QED BY <1>2, <2>1, <2>4, <2>5, <2>6 DEF Scanning
<1>7. CASE c \notin {"s", ",", "]", "1"}
  <2>0. Spoils(c) /\ c # "1" BY <1>7 DEF Spoils
  <2>1. Hopeless(u) /\ Stuck(Append(s.parts, c)) BY <1>1, <1>2, <2>0, OnesSpoilt
  <2>2. CASE c = "}"
    <3>2. c \in Closers /\ c \notin Openers /\ c # "quote" /\ c \notin {",", "s"} BY <2>2 DEF Openers, Closers
    <3>3. InElement(s, c) = Closing(s, c) BY <1>3, <3>2 DEF InElement
    <3>4. ~(s.depth > 0) BY <1>3
    <3>5. Closing(s, c) = StreamFailed(s) BY <2>2, <3>4 DEF Closing
    <3>1. InElement(s, c) = StreamFailed(s) BY <3>3, <3>5
    <3> QED BY <1>2, <2>1, <3>1, NotComplete DEF Scanning
  <2>3. CASE c # "}"
    <3>1. InElement(s, c) = k \/ InElement(s, c) = [k EXCEPT !.inString = TRUE] \/ InElement(s, c) = [k EXCEPT !.depth = @ + 1]
      <4>1. c = "quote" => InElement(s, c) = [k EXCEPT !.inString = TRUE] BY <1>2, <1>3 DEF InElement, Openers, Closers
      <4>2. c \in Openers => InElement(s, c) = [k EXCEPT !.depth = @ + 1] BY <1>2, <1>3 DEF InElement, Openers, Closers
      <4>3. c # "quote" /\ c \notin Openers => InElement(s, c) = k
        <5> HAVE c # "quote" /\ c \notin Openers
        <5>1. c \notin Closers /\ c \notin {",", "s"} BY <1>7, <2>3 DEF Closers
        <5> QED BY <1>2, <1>3, <5>1 DEF InElement
      <4> QED BY <4>1, <4>2, <4>3
    <3>2. \A x \in {k, [k EXCEPT !.inString = TRUE], [k EXCEPT !.depth = @ + 1]} : Doomed(u, x)
      BY <1>4, <2>1 DEF ScanStates, Doomed
    <3>3. Doomed(u, InElement(s, c)) BY <3>1, <3>2
    <3> QED BY <1>2, <3>3 DEF Scanning
  <2> QED BY <2>2, <2>3
<1> QED BY <1>5, <1>6, <1>7

(* What the scanner keeps of a value says what the value's brackets do.    *)
GoesOn(s, v, c, r) == Lengthened(v, s, c) /\ ~v.isPrimitive /\ (r.mode = "bad" \/ (r # AtEnd /\ Shape(v, r)))

EndsHere(s, v, c, r) ==
  (r = AtEnd \/ r.mode = "bad") /\ c # "s" /\ \E x \in ScanStates : Lengthened(x, s, c) /\ ~x.escaped /\ v = CompleteElement(x)

LEMMA AtEndOf ==
  ASSUME NEW r \in LexStates
  PROVE  /\ r = AtEnd <=> r.mode = "out" /\ Len(r.open) = 0
         /\ r.open \in Seq(Openers) /\ Len(r.open) \in Nat /\ (Len(r.open) = 0 <=> r.open = <<>>)
<1>1. r.open \in Seq(Openers) /\ r = [mode |-> r.mode, open |-> r.open] BY DEF LexStates
<1>2. Len(r.open) \in Nat /\ (Len(r.open) = 0 <=> r.open = <<>>) BY <1>1
<1>3. r = AtEnd => r.mode = "out" /\ r.open = <<>> BY DEF AtEnd
<1>4. r.mode = "out" /\ r.open = <<>> => r = AtEnd BY <1>1 DEF AtEnd
<1> QED BY <1>1, <1>2, <1>3, <1>4

Alike(x, s, c, inString, escaped, depth) ==
  /\ x \in ScanStates /\ Lengthened(x, s, c) /\ ~x.isPrimitive
  /\ x.inString = inString /\ x.escaped = escaped /\ x.depth = depth

LEMMA KeptWith ==
  ASSUME NEW s \in ScanStates, NEW c \in Bytes, s.at = "in", s.active, ~s.isPrimitive, NEW k, k = KeepByte(s, c)
  PROVE  /\ Alike(k, s, c, s.inString, s.escaped, s.depth)
         /\ Alike([k EXCEPT !.inString = TRUE], s, c, TRUE, s.escaped, s.depth)
         /\ Alike([k EXCEPT !.inString = FALSE], s, c, FALSE, s.escaped, s.depth)
         /\ Alike([k EXCEPT !.escaped = TRUE], s, c, s.inString, TRUE, s.depth)
         /\ Alike([k EXCEPT !.escaped = FALSE], s, c, s.inString, FALSE, s.depth)
         /\ \A d \in Nat : Alike([k EXCEPT !.depth = d], s, c, s.inString, s.escaped, d)
<1>1. /\ k \in ScanStates /\ k.parts = Append(s.parts, c) /\ k.records = s.records /\ k.at = "in" /\ k.active
      /\ k.inString = s.inString /\ k.escaped = s.escaped /\ k.depth = s.depth /\ ~k.isPrimitive
  BY KeepIs
<1>2. Alike(k, s, c, s.inString, s.escaped, s.depth) BY <1>1 DEF Lengthened, Alike
<1>3. Alike([k EXCEPT !.inString = TRUE], s, c, TRUE, s.escaped, s.depth) BY <1>1 DEF ScanStates, Lengthened, Alike
<1>4. Alike([k EXCEPT !.inString = FALSE], s, c, FALSE, s.escaped, s.depth) BY <1>1 DEF ScanStates, Lengthened, Alike
<1>5. Alike([k EXCEPT !.escaped = TRUE], s, c, s.inString, TRUE, s.depth) BY <1>1 DEF ScanStates, Lengthened, Alike
<1>6. Alike([k EXCEPT !.escaped = FALSE], s, c, s.inString, FALSE, s.depth) BY <1>1 DEF ScanStates, Lengthened, Alike
<1>7. \A d \in Nat : Alike([k EXCEPT !.depth = d], s, c, s.inString, s.escaped, d) BY <1>1 DEF ScanStates, Lengthened, Alike
<1> QED BY <1>2, <1>3, <1>4, <1>5, <1>6, <1>7

LEMMA StringShape ==
  ASSUME NEW s \in ScanStates, NEW c \in Bytes, s.at = "in", s.active, ~s.isPrimitive,
         NEW p \in LexStates, Shape(s, p), s.inString
  PROVE  GoesOn(s, InElement(s, c), c, Lex(p, c)) \/ EndsHere(s, InElement(s, c), c, Lex(p, c))
<1>1. PICK k, r, v : k = KeepByte(s, c) /\ r = Lex(p, c) /\ v = InElement(s, c) OBVIOUS
<1>2. r \in LexStates BY <1>1, LexTyped
<1>10. Alike([k EXCEPT !.escaped = TRUE], s, c, s.inString, TRUE, s.depth) BY <1>1, KeptWith, Zenon
<1>11. Alike([k EXCEPT !.escaped = FALSE], s, c, s.inString, FALSE, s.depth) BY <1>1, KeptWith, Zenon
<1>3. v = InString(s, c) BY <1>1 DEF InElement
<1>4. s.depth = Len(p.open) /\ p.mode \in {"in", "escaped"} /\ (s.escaped <=> p.mode = "escaped") BY DEF Shape
<1>5. s.escaped \in BOOLEAN /\ s.inString \in BOOLEAN BY DEF ScanStates
<1>6. CASE s.escaped
  <2>1. v = [k EXCEPT !.escaped = FALSE] BY <1>1, <1>3, <1>6 DEF InString
  <2>2. r = [mode |-> "in", open |-> p.open] BY <1>1, <1>4, <1>6, LexCases
  <2>3. r.mode = "in" /\ r.open = p.open BY <2>2
  <2>6. Alike(v, s, c, s.inString, FALSE, s.depth) BY <1>11, <2>1, Zenon
  <2>4. Lengthened(v, s, c) /\ ~v.isPrimitive /\ v.inString /\ ~v.escaped /\ v.depth = s.depth BY <2>6 DEF Alike
  <2>5. Shape(v, r) /\ r # AtEnd BY <1>4, <2>3, <2>4, AtEndIs DEF Shape
  <2> QED BY <1>1, <2>4, <2>5 DEF GoesOn
<1>7. CASE ~s.escaped /\ c = "backslash"
  <2>1. v = [k EXCEPT !.escaped = TRUE] BY <1>1, <1>3, <1>7 DEF InString
  <2>2. r = [mode |-> "escaped", open |-> p.open] BY <1>1, <1>4, <1>7, LexCases
  <2>3. r.mode = "escaped" /\ r.open = p.open BY <2>2
  <2>6. Alike(v, s, c, s.inString, TRUE, s.depth) BY <1>10, <2>1, Zenon
  <2>4. Lengthened(v, s, c) /\ ~v.isPrimitive /\ v.inString /\ v.escaped /\ v.depth = s.depth BY <2>6 DEF Alike
  <2>5. Shape(v, r) /\ r # AtEnd BY <1>4, <2>3, <2>4, AtEndIs DEF Shape
  <2> QED BY <1>1, <2>4, <2>5 DEF GoesOn
<1>8. CASE ~s.escaped /\ c = "quote"
  <2>1. PICK x : x = [k EXCEPT !.inString = FALSE] OBVIOUS
  <2>2. v = IF s.depth = 0 THEN CompleteElement(x) ELSE x BY <1>1, <1>3, <1>8, <2>1 DEF InString
  <2>3. r = [mode |-> "out", open |-> p.open] BY <1>1, <1>4, <1>8, LexCases
  <2>4. r.mode = "out" /\ r.open = p.open BY <2>3
  <2>8. Alike(x, s, c, FALSE, s.escaped, s.depth) BY <1>1, <2>1, KeptWith
  <2>5. x \in ScanStates /\ Lengthened(x, s, c) /\ ~x.isPrimitive /\ ~x.inString /\ ~x.escaped /\ x.depth = s.depth
    BY <1>8, <2>8 DEF Alike
  <2>6. CASE s.depth = 0
    <3>1. r = AtEnd BY <1>2, <1>4, <2>4, <2>6, AtEndOf
    <3>2. v = CompleteElement(x) BY <2>2, <2>6
    <3>3. c # "s" BY <1>8
    <3> QED BY <1>1, <2>5, <3>1, <3>2, <3>3 DEF EndsHere
  <2>7. CASE s.depth # 0
    <3>1. r # AtEnd BY <1>2, <1>4, <2>4, <2>7, AtEndOf
    <3>2. Shape(x, r) BY <1>4, <2>4, <2>5 DEF Shape
    <3> QED BY <1>1, <2>2, <2>5, <2>7, <3>1, <3>2 DEF GoesOn
  <2> QED BY <2>6, <2>7
<1>9. CASE ~s.escaped /\ c # "quote" /\ c # "backslash"
  <2>1. v = k BY <1>1, <1>3, <1>9 DEF InString
  <2>2. r = [mode |-> "in", open |-> p.open] BY <1>1, <1>4, <1>9, LexCases
  <2>3. r.mode = "in" /\ r.open = p.open BY <2>2
  <2>6. Alike(v, s, c, s.inString, s.escaped, s.depth) BY <1>1, <2>1, KeptWith
  <2>4. Lengthened(v, s, c) /\ ~v.isPrimitive /\ v.inString = s.inString /\ v.escaped = s.escaped /\ v.depth = s.depth BY <2>6 DEF Alike
  <2>5. Shape(v, r) /\ r # AtEnd BY <1>4, <1>9, <2>3, <2>4, AtEndIs DEF Shape
  <2> QED BY <1>1, <2>4, <2>5 DEF GoesOn
<1> QED BY <1>5, <1>6, <1>7, <1>8, <1>9

LEMMA CloserShape ==
  ASSUME NEW s \in ScanStates, NEW c \in Bytes, s.at = "in", s.active, ~s.isPrimitive,
         NEW p \in LexStates, Shape(s, p), p # AtEnd, ~s.inString, c \in Closers
  PROVE  GoesOn(s, InElement(s, c), c, Lex(p, c)) \/ EndsHere(s, InElement(s, c), c, Lex(p, c))
<1>1. PICK k, r, v, d : k = KeepByte(s, c) /\ r = Lex(p, c) /\ v = InElement(s, c) /\ d = Len(p.open) OBVIOUS
<1>2. r \in LexStates BY <1>1, LexTyped
<1>3. s.depth = d /\ p.mode = "out" /\ ~s.escaped BY <1>1 DEF Shape, LexStates
<1>4. p.open \in Seq(Openers) /\ d \in Nat \ {0} /\ p.open # <<>> BY <1>1, <1>3, AtEndOf
<1>5. v = Closing(s, c) 
  <2>1. c \notin Openers /\ c # "quote" /\ c \notin {",", "s"} BY DEF Openers, Closers
  <2> QED BY <1>1, <2>1 DEF InElement
<1>6. PICK x, e : x = [k EXCEPT !.depth = e] /\ e = d - 1 OBVIOUS
<1>7. e \in Nat /\ d > 0 BY <1>4, <1>6
<1>8. Alike(x, s, c, s.inString, s.escaped, e) BY <1>1, <1>6, <1>7, KeptWith
<1>9. x \in ScanStates /\ Lengthened(x, s, c) /\ ~x.isPrimitive /\ ~x.inString /\ ~x.escaped /\ x.depth = e BY <1>3, <1>8 DEF Alike
<1>10. v = IF e = 0 THEN CompleteElement(x) ELSE x
  <2>1. k.depth = d BY <1>1, <1>3, KeepIs
  <2>2. [k EXCEPT !.depth = @ - 1] = x BY <1>6, <2>1
  <2>3. s.depth > 0 BY <1>3, <1>7
  <2>4. Closing(s, c) = IF x.depth = 0 THEN CompleteElement(x) ELSE x BY <1>1, <2>2, <2>3 DEF Closing
  <2> QED BY <1>5, <1>9, <2>4
<1>11. c # "s" BY DEF Closers
<1>12. CASE <<Head(p.open), c>> \in {<<"[", "]">>, <<"{", "}">>}
  <2>1. r = [mode |-> "out", open |-> Tail(p.open)] BY <1>1, <1>3, <1>4, <1>12, LexCases
  <2>2. r.mode = "out" /\ r.open = Tail(p.open) BY <2>1
  <2>3. Len(r.open) = e BY <1>1, <1>4, <1>6, <2>2
  <2>4. CASE e = 0
    <3>1. r = AtEnd BY <1>2, <2>2, <2>3, <2>4, AtEndOf
    <3>2. v = CompleteElement(x) BY <1>10, <2>4
    <3> QED BY <1>1, <1>9, <1>11, <3>1, <3>2 DEF EndsHere
  <2>5. CASE e # 0
    <3>1. r # AtEnd BY <1>2, <2>3, <2>5, AtEndOf
    <3>2. Shape(x, r) BY <1>9, <2>2, <2>3 DEF Shape
    <3> QED BY <1>1, <1>9, <1>10, <2>5, <3>1, <3>2 DEF GoesOn
  <2> QED BY <2>4, <2>5
<1>13. CASE <<Head(p.open), c>> \notin {<<"[", "]">>, <<"{", "}">>}
  <2>1. r = [mode |-> "bad", open |-> p.open] BY <1>1, <1>3, <1>4, <1>13, LexCases
  <2>2. r.mode = "bad" BY <2>1
  <2>3. CASE e = 0
    <3>2. v = CompleteElement(x) BY <1>10, <2>3
    <3> QED BY <1>1, <1>9, <1>11, <2>2, <3>2 DEF EndsHere
  <2>4. CASE e # 0 BY <1>1, <1>9, <1>10, <2>2, <2>4 DEF GoesOn
  <2> QED BY <2>3, <2>4
<1> QED BY <1>12, <1>13

LEMMA OutShape ==
  ASSUME NEW s \in ScanStates, NEW c \in Bytes, s.at = "in", s.active, ~s.isPrimitive,
         NEW p \in LexStates, Shape(s, p), p # AtEnd, ~s.inString, c \notin Closers
  PROVE  GoesOn(s, InElement(s, c), c, Lex(p, c))
<1>1. PICK k, r, v, d : k = KeepByte(s, c) /\ r = Lex(p, c) /\ v = InElement(s, c) /\ d = Len(p.open) OBVIOUS
<1>2. r \in LexStates BY <1>1, LexTyped
<1>3. s.depth = d /\ p.mode = "out" /\ ~s.escaped BY <1>1 DEF Shape, LexStates
<1>4. p.open \in Seq(Openers) /\ d \in Nat \ {0} /\ p.open # <<>> BY <1>1, <1>3, AtEndOf
<1>5. c \in AllBytes BY BytesAreBytes
<1>6. CASE c = "quote"
  <2>1. v = [k EXCEPT !.inString = TRUE] BY <1>1, <1>6 DEF InElement, Openers, Closers
  <2>2. Alike(v, s, c, TRUE, s.escaped, s.depth) BY <1>1, <2>1, KeptWith
  <2>3. Lengthened(v, s, c) /\ ~v.isPrimitive /\ v.inString /\ ~v.escaped /\ v.depth = d BY <1>3, <2>2 DEF Alike
  <2>4. r = [mode |-> "in", open |-> p.open] BY <1>1, <1>3, <1>6, LexCases
  <2>5. r.mode = "in" /\ r.open = p.open BY <2>4
  <2>6. Shape(v, r) /\ r # AtEnd BY <1>1, <2>3, <2>5, AtEndIs DEF Shape
  <2> QED BY <1>1, <2>3, <2>6 DEF GoesOn
<1>7. CASE c \in Openers
  <2>1. v = [k EXCEPT !.depth = @ + 1] BY <1>1, <1>7 DEF InElement, Openers, Closers
  <2>2. PICK e : e = d + 1 OBVIOUS
  <2>3. v = [k EXCEPT !.depth = e]
    <3>1. k.depth = d BY <1>1, <1>3, KeepIs
    <3> QED BY <2>1, <2>2, <3>1
  <2>4. e \in Nat BY <1>4, <2>2
  <2>12. \A x \in Nat : Alike([k EXCEPT !.depth = x], s, c, s.inString, s.escaped, x) BY <1>1, KeptWith, Zenon
  <2>5. Alike(v, s, c, s.inString, s.escaped, e) BY <2>3, <2>4, <2>12, Zenon
  <2>6. Lengthened(v, s, c) /\ ~v.isPrimitive /\ ~v.inString /\ ~v.escaped /\ v.depth = e BY <1>3, <2>5 DEF Alike
  <2>7. r = [mode |-> "out", open |-> <<c>> \o p.open] BY <1>1, <1>3, <1>7, LexCases
  <2>8. r.mode = "out" /\ r.open = <<c>> \o p.open BY <2>7
  <2>9. Len(r.open) = e
    <3>1. <<c>> \in Seq(Openers) /\ Len(<<c>>) = 1 BY <1>7
    <3> QED BY <1>1, <1>4, <2>2, <2>8, <3>1
  <2>10. r # AtEnd BY <1>2, <1>4, <2>2, <2>9, AtEndOf
  <2>11. Shape(v, r) BY <2>6, <2>8, <2>9 DEF Shape
  <2> QED BY <1>1, <2>6, <2>10, <2>11 DEF GoesOn
<1>8. CASE c \notin Openers \cup {"quote"}
  <2>1. v = k BY <1>1, <1>8 DEF InElement
  <2>2. Alike(v, s, c, s.inString, s.escaped, s.depth) BY <1>1, <2>1, KeptWith
  <2>3. Lengthened(v, s, c) /\ ~v.isPrimitive /\ ~v.inString /\ ~v.escaped /\ v.depth = d BY <1>3, <2>2 DEF Alike
  <2>4. CASE c \in {"backslash", "lead", "trail"}
    <3>1. r = [mode |-> "bad", open |-> p.open] BY <1>1, <1>3, <2>4, LexCases
    <3>2. r.mode = "bad" BY <3>1
    <3> QED BY <1>1, <2>3, <3>2 DEF GoesOn
  <2>5. CASE c \in {"1", "s", ","}
    <3>1. r = p BY <1>1, <1>3, <2>5, LexCases
    <3>2. Shape(v, r) BY <1>1, <1>3, <2>3, <3>1 DEF Shape
    <3> QED BY <1>1, <2>3, <3>1, <3>2 DEF GoesOn
  <2>6. c \in {"backslash", "lead", "trail"} \cup {"1", "s", ","} BY <1>5, <1>8 DEF AllBytes, Openers, Closers
  <2> QED BY <2>4, <2>5, <2>6
<1> QED BY <1>6, <1>7, <1>8

LEMMA AnyShape ==
  ASSUME NEW s \in ScanStates, NEW c \in Bytes, s.at = "in", s.active, ~s.isPrimitive,
         NEW p \in LexStates, Shape(s, p), p # AtEnd
  PROVE  GoesOn(s, InElement(s, c), c, Lex(p, c)) \/ EndsHere(s, InElement(s, c), c, Lex(p, c))
<1>1. CASE s.inString BY <1>1, StringShape
<1>2. CASE ~s.inString /\ c \in Closers BY <1>2, CloserShape
<1>3. CASE ~s.inString /\ c \notin Closers BY <1>3, OutShape
<1> QED BY <1>1, <1>2, <1>3

(* A bracketed or quoted value, as it grows.                               *)
OpenedAt(s) == s.parts[1] \in Openers \cup {"quote"} /\ \A i \in 2 .. (Len(s.parts) + 1) : Lexed(s.parts)[i] # AtEnd

LEMMA OpenedGrows ==
  ASSUME NEW s, s.parts \in Seq(AllBytes), s.parts # <<>>, OpenedAt(s), NEW c \in AllBytes, NEW v, Lengthened(v, s, c),
         NEW r, r = Lex(PartsState(s), c)
  PROVE  /\ r # AtEnd => OpenedAt(v)
         /\ r = AtEnd => Parses(v.parts)
         /\ r.mode = "bad" => Stuck(v.parts)
         /\ v.parts \in Seq(AllBytes) /\ PartsState(s) # AtEnd
<1>1. PICK p, q, n : p = s.parts /\ q = v.parts /\ n = Len(p) OBVIOUS
<1>2. p \in Seq(AllBytes) /\ p # <<>> /\ n \in Nat /\ n # 0 BY <1>1
<1>3. q = Append(p, c) BY <1>1 DEF Lengthened
<1>4. q \in Seq(AllBytes) /\ Len(q) = n + 1 /\ \A i \in 1 .. n : q[i] = p[i] BY <1>1, <1>2, <1>3, AppendExtends
<1>5. p[1] \in Openers \cup {"quote"} /\ \A i \in 2 .. (n + 1) : Lexed(p)[i] # AtEnd BY <1>1 DEF OpenedAt
<1>6. (\A i \in 1 .. (n + 1) : Lexed(q)[i] = Lexed(p)[i]) /\ Lexed(q)[n + 2] = Lex(Lexed(p)[n + 1], c)
  BY <1>1, <1>2, <1>3, LexedAppend
<1>7. Lexed(p)[n + 1] = PartsState(s) BY <1>1 DEF PartsState
<1>8. q[1] \in Openers \cup {"quote"} /\ q # <<>>
  <2>1. 1 \in 1 .. n BY <1>2
  <2> QED BY <1>2, <1>4, <1>5, <2>1
<1>9. /\ \A i \in 2 .. (n + 1) : i \in 1 .. (n + 1)
      /\ n + 1 + 1 = n + 2 /\ n + 1 \in 2 .. (n + 1) /\ \A i \in 2 .. (n + 2) : i \in 2 .. (n + 1) \/ i = n + 2
  BY <1>2
<1>10. \A i \in 2 .. (n + 1) : Lexed(q)[i] # AtEnd BY <1>5, <1>6, <1>9
<1>11. Lexed(q)[n + 2] = r BY <1>6, <1>7
<1>12. r # AtEnd => OpenedAt(v)
  <2> HAVE r # AtEnd
  <2>1. \A i \in 2 .. (n + 2) : Lexed(q)[i] # AtEnd BY <1>9, <1>10, <1>11
  <2> QED BY <1>1, <1>4, <1>8, <1>9, <2>1 DEF OpenedAt
<1>13. r = AtEnd => Parses(q) BY <1>4, <1>8, <1>9, <1>10, <1>11, OnlyOnes
<1>14. r.mode = "bad" => Stuck(q) BY <1>4, <1>8, <1>9, <1>11 DEF Stuck
<1>15. PartsState(s) # AtEnd BY <1>5, <1>7, <1>9
<1> QED BY <1>1, <1>4, <1>12, <1>13, <1>14, <1>15

(* Every byte of a bracketed or quoted value.                              *)
LEMMA OpenedStep ==
  ASSUME NEW t \in Seq(AllBytes), NEW s \in ScanStates, NEW l \in 1 .. Len(t), NEW m \in 1 .. Len(t), Collecting(t, s, l, m),
         IsOpened(s), NEW c \in Bytes
  PROVE  Scanning(Append(t, c), InElement(s, c))
<1>1. c \in AllBytes BY BytesAreBytes
<1>2. PICK u, n, v, p, r : u = Append(t, c) /\ n = Len(t) /\ v = InElement(s, c) /\ p = PartsState(s) /\ r = Lex(p, c) OBVIOUS
<1>3. s.at = "in" /\ s.active BY DEF Collecting
<1>4. ~s.isPrimitive /\ Shape(s, p) /\ OpenedAt(s) BY <1>2 DEF IsOpened, OpenedAt
<1>5. p \in LexStates /\ s.parts \in Seq(AllBytes) /\ s.parts # <<>> BY <1>2, PartsAre
<1>6. \A x : Lengthened(x, s, c) => /\ (r # AtEnd => OpenedAt(x)) /\ (r = AtEnd => Parses(x.parts))
                               /\ (r.mode = "bad" => Stuck(x.parts)) /\ x.parts \in Seq(AllBytes)
  BY <1>1, <1>2, <1>4, <1>5, OpenedGrows
<1>7. p # AtEnd
  <2>1. PICK x : x = [at |-> "in", active |-> TRUE, parts |-> Append(s.parts, c), records |-> s.records] OBVIOUS
  <2>2. Lengthened(x, s, c) BY <2>1 DEF Lengthened
  <2> QED BY <1>1, <1>2, <1>4, <1>5, <2>2, OpenedGrows
<1>8. WithinValue(s, c) BY <1>2, <1>7 DEF WithinValue
<1>9. \A x : Lengthened(x, s, c) => Collecting(u, x, l, m) /\ PartsState(x) = r BY <1>1, <1>2, <1>8, CollectMore
<1>10. l \in 1 .. Len(u) /\ m \in 1 .. Len(u) /\ u \in Seq(AllBytes) /\ Len(u) = n + 1 /\ u[n + 1] = c /\ n + 1 \in 1 .. Len(u) /\ u[m] = t[m]
  <2>1. Len(u) = n + 1 /\ u \in Seq(AllBytes) /\ u[n + 1] = c /\ \A i \in 1 .. n : u[i] = t[i] BY <1>1, <1>2, AppendExtends
  <2>2. n \in Nat /\ l \in 1 .. n /\ m \in 1 .. n BY <1>2
  <2> QED BY <2>1, <2>2
<1>11. r.mode = "bad" => Hopeless(u)
  <2> HAVE r.mode = "bad"
  <2>1. PICK q : q = Lexed(t)[n + 1] OBVIOUS
  <2>2. q \in LexStates /\ Lifted(p, q) BY <1>2, <2>1, PartsAre
  <2>3. Lifted(r, Lex(q, c)) BY <1>1, <1>2, <1>5, <1>7, <2>2, LiftedStep
  <2>4. Lex(q, c).mode = "bad" BY <2>3 DEF Lifted
  <2>5. Lexed(u)[n + 2] = Lex(q, c) BY <1>1, <1>2, <2>1, LexedAppend
  <2>6. n + 2 \in 1 .. (Len(u) + 1)
    <3>1. n \in Nat BY <1>2
    <3> QED BY <1>10, <3>1
  <2> QED BY <1>10, <2>4, <2>5, <2>6, NotMatched
<1>12. GoesOn(s, v, c, r) \/ EndsHere(s, v, c, r) BY <1>2, <1>3, <1>4, <1>5, <1>7, AnyShape
<1>13. CASE GoesOn(s, v, c, r)
  <2>1. Lengthened(v, s, c) /\ ~v.isPrimitive /\ (r.mode = "bad" \/ (r # AtEnd /\ Shape(v, r))) BY <1>13 DEF GoesOn
  <2>2. CASE r.mode = "bad"
    <3>1. Doomed(u, v) BY <1>6, <1>11, <2>1, <2>2 DEF Doomed, Lengthened
    <3> QED BY <1>2, <3>1 DEF Scanning
  <2>3. CASE r # AtEnd /\ Shape(v, r)
    <3>1. Collecting(u, v, l, m) /\ PartsState(v) = r /\ OpenedAt(v) BY <1>6, <1>9, <2>1, <2>3
    <3>2. IsOpened(v) BY <2>1, <2>3, <3>1 DEF IsOpened, OpenedAt
    <3> QED BY <1>2, <1>10, <3>1, <3>2 DEF Scanning
  <2> QED BY <2>1, <2>2, <2>3
<1>14. CASE EndsHere(s, v, c, r)
  <2>1. PICK x \in ScanStates : Lengthened(x, s, c) /\ ~x.escaped /\ v = CompleteElement(x) BY <1>14 DEF EndsHere
  <2>2. (r = AtEnd \/ r.mode = "bad") /\ c # "s" BY <1>14 DEF EndsHere
  <2>3. CASE r.mode = "bad"
    <3>1. Stuck(x.parts) /\ x.parts \in Seq(AllBytes) BY <1>6, <2>1, <2>3
    <3>2. PICK q : q = x.parts OBVIOUS
    <3>3. Extends(q, q) BY <3>1, <3>2 DEF Extends
    <3>4. ~Parses(q) BY <3>1, <3>2, <3>3, StuckFails
    <3>5. v.at = "failed" BY <2>1, <3>2, <3>4, NotComplete
    <3> QED BY <1>2, <1>11, <2>3, <3>5 DEF Scanning
  <2>4. CASE r = AtEnd
    <3>1. Collecting(u, x, l, m) /\ PartsState(x) = AtEnd /\ Parses(x.parts) BY <1>6, <1>9, <2>1, <2>4
    <3>2. Lexed(u)[Len(u) + 1] = InArray
      <4>1. Lexed(u)[Len(u) + 1] \in LexStates /\ Lifted(AtEnd, Lexed(u)[Len(u) + 1]) BY <1>10, <3>1, PartsAre
      <4> QED BY <4>1, LiftedAtEnd
    <3>3. u[Len(u)] # "s" BY <1>10, <2>2
    <3>4. HasValue(u, v, l, m, Len(u)) BY <1>10, <2>1, <3>1, <3>2, <3>3, ElementKept
    <3>5. t[m] \in Openers \cup {"quote"}
      <4>1. s.parts[1] = t[m] BY PartsAre
      <4> QED BY <1>4, <4>1 DEF OpenedAt
    <3>6. Ended(u, m, Len(u)) BY <1>10, <3>5 DEF Ended
    <3> QED BY <1>2, <1>10, <3>4, <3>6 DEF Scanning
  <2> QED BY <2>2, <2>3, <2>4
<1> QED BY <1>12, <1>13, <1>14

LEMMA FreshIs ==
  /\ FreshScan \in ScanStates /\ FreshScan.at = "before"
  /\ \A s \in {[FreshScan EXCEPT !.at = "in"]} :
       s.at = "in" /\ ~s.active /\ ~s.escaped /\ s.expect = "value-or-end" /\ s.records = <<>>
<1>1. <<>> \in Seq(Bytes) /\ <<>> \in Seq(Seq(Bytes)) OBVIOUS
<1> QED BY <1>1 DEF FreshScan, ScanStates

(* The array's own bracket.                                                *)
NoneYet(s) == s.at = "in" /\ ~s.active /\ ~s.escaped /\ s.expect = "value-or-end" /\ s.records = <<>>

LEMMA ArrayOpens ==
  ASSUME NEW t \in Seq(AllBytes), Blank(t, 1, Len(t)), NEW s, NoneYet(s)
  PROVE  Scanning(Append(t, "["), s)
<1>0. Len(t) \in Nat OBVIOUS
<1>1. PICK n, u : n = Len(t) /\ u = Append(t, "[") OBVIOUS
<1>2. n \in Nat BY <1>0, <1>1
<1>3. "[" \in AllBytes /\ "[" \in Openers BY DEF AllBytes, Openers
<1>4. u \in Seq(AllBytes) /\ Len(u) = n + 1 /\ Extends(u, t) BY <1>1, <1>3, AppendExtends
<1>5. u[n + 1] = "[" /\ \A i \in 1 .. n : u[i] = t[i] BY <1>1, <1>3, AppendExtends
<1>6. n + 1 \in 1 .. Len(u) /\ n + 1 - 1 = n /\ n \in 0 .. n /\ 0 \in 0 .. n /\ Len(u) + 1 = n + 2 /\ n + 1 + 1 = n + 2
      /\ (\A k \in (n + 2) .. (n + 1) : FALSE) /\ 0 + 1 = 1 /\ (\A i \in (n + 2) .. (n + 2) : i = n + 2)
      /\ \A i \in 1 .. Len(u) : i \in 1 .. n \/ i = n + 1
  BY <1>2, <1>4
<1>7. Blank(u, 1, n) BY <1>1, <1>3, <1>6, BlankGrows
<1>8. Blank(u, n + 2, Len(u)) BY <1>4, <1>6 DEF Blank
<1>9. Marks(u) # {} /\ Min(Marks(u)) = n + 1 BY <1>4, <1>5, <1>6, <1>7, <1>8, MarksFound
<1>10. Lexed(u)[n + 1] = AtEnd BY <1>4, <1>6, <1>7, LexedBefore
<1>11. Lexed(u)[n + 2] = InArray
  <2>1. Lex(AtEnd, "[") = [mode |-> "out", open |-> <<"[">> \o AtEnd.open] BY <1>3, AtEndIs, LexCases
  <2>2. <<"[">> \o AtEnd.open = <<"[">> BY DEF AtEnd
  <2>3. Lex(AtEnd, "[") = InArray BY <2>1, <2>2 DEF InArray
  <2>4. Lexed(u)[n + 1 + 1] = Lex(Lexed(u)[n + 1], u[n + 1]) BY <1>4, <1>6, LexedIs
  <2> QED BY <1>5, <1>6, <1>10, <2>3, <2>4
<1>12. InsideArray(u) BY <1>5, <1>6, <1>9, <1>11, <1>4, LiftedAtEnd DEF InsideArray
<1>13. Commas(u) = {}
  <2> SUFFICES ASSUME NEW i \in Commas(u) PROVE FALSE OBVIOUS
  <2>1. i \in 1 .. Len(u) /\ u[i] = "," BY DEF Commas
  <2>2. i \in 1 .. n BY <1>5, <1>6, <2>1
  <2> QED BY <1>7, <2>1, <2>2 DEF Blank
<1>14. CutsIn(u) = {n + 1} BY <1>9, <1>13 DEF CutsIn
<1>15. Ranked({n + 1}) /\ Cardinality({n + 1}) = 1 BY <1>2, RankOne
<1>16. LastCut(u, n + 1) BY <1>2, <1>14 DEF LastCut
<1>17. Frame(u, n + 1) BY <1>12, <1>14, <1>15, <1>16 DEF Frame
<1>18. s.at = "in" /\ ~s.active /\ ~s.escaped /\ s.expect = "value-or-end" /\ s.records = <<>> BY DEF NoneYet
<1>19. Len(s.records) = 1 - 1 /\ RecordsKept(u, s.records, 1 - 1)
  <2>1. Len(<<>>) = 0 /\ 1 - 1 = 0 /\ \A k \in 1 .. 0 : FALSE OBVIOUS
  <2> QED BY <1>18, <2>1 DEF RecordsKept
<1>20. CutsIn(u) = {Min(Marks(u))} /\ Cardinality(CutsIn(u)) = 1 BY <1>9, <1>14, <1>15
<1>21. AwaitsValue(u, s, n + 1) BY <1>4, <1>6, <1>8, <1>11, <1>17, <1>18, <1>19, <1>20 DEF AwaitsValue
<1> QED BY <1>1, <1>6, <1>21 DEF Scanning

LEMMA FreshStep ==
  ASSUME NEW t \in Seq(AllBytes), Blank(t, 1, Len(t)), NEW c \in AllBytes
  PROVE  Scanning(Append(t, c), Scan(FreshScan, c))
<1>0. Len(t) \in Nat OBVIOUS
<1>1. PICK n, u : n = Len(t) /\ u = Append(t, c) OBVIOUS
<1>4. u \in Seq(AllBytes) /\ Len(u) = n + 1 /\ u[n + 1] = c /\ n \in Nat BY <1>0, <1>1, AppendExtends
<1>5. n \in 0 .. n /\ 0 \in 0 .. n /\ 0 + 1 = 1 /\ n + 1 \in 1 .. Len(u) /\ n + 1 - 1 = n /\ (\A k \in (n + 1 + 1) .. (n + 1) : FALSE) BY <1>4
<1>6. CASE c = "s"
  <2>1. Scan(FreshScan, c) = FreshScan BY <1>6, FreshIs DEF Scan
  <2>2. Blank(u, 1, n + 1) BY <1>1, <1>5, <1>6, BlankGrows
  <2> QED BY <1>1, <1>4, <2>1, <2>2 DEF Scanning
<1>7. CASE c = "["
  <2>1. Scan(FreshScan, c) = [FreshScan EXCEPT !.at = "in"] BY <1>7, FreshIs DEF Scan
  <2>2. PICK s : s = [FreshScan EXCEPT !.at = "in"] OBVIOUS
  <2>3. NoneYet(s) BY <2>2, FreshIs DEF NoneYet
  <2>4. Scanning(Append(t, "["), s) BY <2>3, ArrayOpens
  <2> QED BY <1>7, <2>1, <2>2, <2>4
<1>8. CASE c \notin {"s", "["}
  <2>1. Scan(FreshScan, c) = StreamFailed(FreshScan) BY <1>8, FreshIs DEF Scan
  <2>2. StreamFailed(FreshScan).at = "failed" BY FreshIs, NotComplete
  <2>3. Blank(u, 1, n) BY <1>1, <1>5, BlankGrows
  <2>4. Blank(u, n + 1 + 1, Len(u)) BY <1>4, <1>5 DEF Blank
  <2>5. Marks(u) # {} /\ Min(Marks(u)) = n + 1 BY <1>4, <1>5, <1>8, <2>3, <2>4, MarksFound
  <2>6. Hopeless(u) BY <1>4, <1>8, <2>5, WrongStart
  <2> QED BY <1>1, <2>1, <2>2, <2>6 DEF Scanning
<1> QED BY <1>6, <1>7, <1>8

(* After the array's end.                                                  *)
LEMMA DoneStep ==
  ASSUME NEW t \in Seq(AllBytes), NEW s \in ScanStates, s.at = "finished", Done(t, s.records), NEW c \in AllBytes
  PROVE  Scanning(Append(t, c), Scan(s, c))
<1>0. Len(t) \in Nat OBVIOUS
<1>1. PICK n, u : n = Len(t) /\ u = Append(t, c) OBVIOUS
<1>4. u \in Seq(AllBytes) /\ Len(u) = n + 1 /\ u[n + 1] = c /\ n \in Nat /\ Extends(u, t) BY <1>0, <1>1, AppendExtends
<1>5. CASE c = "s"
  <2>1. Scan(s, c) = s BY <1>5 DEF Scan
  <2>2. Done(u, s.records) BY <1>1, <1>5, DoneStays
  <2> QED BY <1>1, <2>1, <2>2 DEF Scanning
<1>6. CASE c # "s"
  <2>1. Scan(s, c) = StreamFailed(s) BY <1>6 DEF Scan
  <2>2. PICK a, z : a = Min(Marks(t)) /\ z = Max(Marks(t)) OBVIOUS
  <2>3. Marks(t) # {} /\ Lexed(t)[z + 1] = AtEnd BY <2>2 DEF Done, Bracketed
  <2>4. a \in 1 .. n /\ z \in 1 .. n /\ a <= z BY <1>1, <2>2, <2>3, EndsOf
  <2>5. Marks(u) # {} /\ Min(Marks(u)) = a BY <1>4, <2>2, <2>3, FirstMark
  <2>6. Lexed(u)[z + 1] = AtEnd
    <3>1. z + 1 \in 1 .. (n + 1) BY <1>4, <2>4
    <3> QED BY <1>1, <1>4, <2>3, <3>1, ExtendsIs
  <2>7. z + 1 \in (a + 1) .. (n + 1) /\ n + 1 \in 1 .. Len(u) BY <1>4, <2>4
  <2>8. Hopeless(u) BY <1>4, <1>6, <2>5, <2>6, <2>7, EndedBefore
  <2> QED BY <1>1, <2>1, <2>8, NotComplete DEF Scanning
<1> QED BY <1>5, <1>6

(* Every byte of a file, wherever the scanner is.                          *)
LEMMA ScanStep ==
  ASSUME NEW t \in Seq(AllBytes), NEW s \in ScanStates, NEW c \in Bytes, Scanning(t, s)
  PROVE  Scanning(Append(t, c), Scan(s, c))
<1>1. c \in AllBytes BY BytesAreBytes
<1>2. CASE s.at = "failed" /\ Hopeless(t)
  <2>1. Scan(s, c) = s BY <1>2 DEF Scan
  <2>2. Append(t, c) \in Seq(AllBytes) /\ Extends(Append(t, c), t) BY <1>1, AppendExtends
  <2>3. Hopeless(Append(t, c)) BY <1>2, <2>2, HopelessMore
  <2> QED BY <1>2, <2>1, <2>3 DEF Scanning
<1>3. CASE s = FreshScan /\ Blank(t, 1, Len(t)) BY <1>1, <1>3, FreshStep
<1>4. ASSUME NEW l \in 1 .. Len(t), AwaitsValue(t, s, l) PROVE Scanning(Append(t, c), Scan(s, c))
  <2>1. s.at = "in" /\ ~s.active BY <1>4 DEF AwaitsValue
  <2>2. Scan(s, c) = BetweenElements(s, c) BY <2>1 DEF Scan
  <2> QED BY <1>1, <1>4, <2>2, AwaitStep
<1>5. ASSUME NEW l \in 1 .. Len(t), NEW m \in 1 .. Len(t), NEW e \in 1 .. Len(t), HasValue(t, s, l, m, e), Ended(t, m, e)
      PROVE  Scanning(Append(t, c), Scan(s, c))
  <2>1. s.at = "in" /\ ~s.active BY <1>5 DEF HasValue
  <2>2. Scan(s, c) = BetweenElements(s, c) BY <2>1 DEF Scan
  <2>3. KnownEnd(t, m, e, c) BY <1>5 DEF Ended, KnownEnd
  <2> QED BY <1>1, <1>5, <2>2, <2>3, ValueStep
<1>6. ASSUME NEW l \in 1 .. Len(t), NEW m \in 1 .. Len(t), Collecting(t, s, l, m), OfOnes(s) \/ IsOpened(s)
      PROVE  Scanning(Append(t, c), Scan(s, c))
  <2>1. s.at = "in" /\ s.active BY <1>6 DEF Collecting
  <2>2. Scan(s, c) = InElement(s, c) BY <2>1 DEF Scan
  <2>3. CASE OfOnes(s) BY <1>6, <2>2, <2>3, OnesStep
  <2>4. CASE IsOpened(s) BY <1>6, <2>2, <2>4, OpenedStep
  <2> QED BY <1>6, <2>3, <2>4
<1>7. CASE Doomed(t, s)
  <2>1. s.at = "in" /\ s.active BY <1>7 DEF Doomed
  <2>2. Scan(s, c) = InElement(s, c) BY <2>1 DEF Scan
  <2> QED BY <1>7, <2>2, DoomedStep
<1>8. CASE s.at = "finished" /\ Done(t, s.records) BY <1>1, <1>8, DoneStep
<1> QED BY <1>2, <1>3, <1>4, <1>5, <1>6, <1>7, <1>8 DEF Scanning

LEMMA JoinIs ==
  ASSUME NEW A, NEW t \in Seq(A), NEW b \in Seq(A)
  PROVE  /\ t \o b \in Seq(A) /\ Len(t \o b) = Len(t) + Len(b) /\ Len(t) \in Nat /\ Len(b) \in Nat
         /\ \A i \in 1 .. Len(t) : (t \o b)[i] = t[i]
         /\ \A i \in 1 .. Len(b) : (t \o b)[Len(t) + i] = b[i]
OBVIOUS

(* However the file is cut, what has been scanned of it is known.          *)
LEMMA ScannedStep ==
  ASSUME NEW t \in Seq(AllBytes), NEW s \in ScanStates, Scanning(t, s), NEW b \in Seq(Bytes)
  PROVE  Scanning(t \o b, Scanned(s, b)) /\ Scanned(s, b) \in ScanStates
<1>1. PICK h : h[0] = s /\ h[Len(b)] = Scanned(s, b) /\ \A i \in 1 .. Len(b) : h[i] = Scan(h[i - 1], b[i])
  BY ScanIsARow
<1> DEFINE n == Len(b)
           So(i) == t \o SubSeq(b, 1, i)
           Fine(i) == h[i] \in ScanStates /\ Scanning(So(i), h[i])
           bad == {i \in 0 .. n : ~Fine(i)}
<1>2. n \in Nat OBVIOUS
<1>3. So(0) = t /\ So(n) = t \o b
  <2>1. SubSeq(b, 1, 0) = <<>> /\ SubSeq(b, 1, Len(b)) = b OBVIOUS
  <2>2. t \o <<>> = t OBVIOUS
  <2> QED BY <2>1, <2>2
<1>4. \A i \in 1 .. n : So(i) = Append(So(i - 1), b[i]) /\ So(i - 1) \in Seq(AllBytes)
  <2> TAKE i \in 1 .. n
  <2>1. b \in Seq(AllBytes) BY BytesAreBytes
  <2>2. PICK y : y = SubSeq(b, 1, i - 1) OBVIOUS
  <2>3. y \in Seq(AllBytes) BY <2>1, <2>2
  <2>4. SubSeq(b, 1, i) = Append(y, b[i]) BY <2>1, <2>2
  <2>5. t \o Append(y, b[i]) = Append(t \o y, b[i])
    <3>1. b[i] \in AllBytes BY <2>1
    <3> QED BY <2>3, <3>1
  <2>6. t \o y \in Seq(AllBytes) BY <2>3
  <2> QED BY <2>2, <2>4, <2>5, <2>6
<1>5. 0 \notin bad BY <1>1, <1>3
<1>6. \A i \in 1 .. n : i \in bad => i - 1 \in bad
  <2> TAKE i \in 1 .. n
  <2>1. i - 1 \in 0 .. n /\ b[i] \in Bytes OBVIOUS
  <2>2. h[i] = Scan(h[i - 1], b[i]) BY <1>1
  <2>3. So(i) = Append(So(i - 1), b[i]) /\ So(i - 1) \in Seq(AllBytes) BY <1>4
  <2>4. Fine(i - 1) => Fine(i)
    <3> HIDE DEF So
    <3>1. PICK x, g : x = So(i - 1) /\ g = h[i - 1] OBVIOUS
    <3>2. g \in ScanStates /\ Scanning(x, g) => Scan(g, b[i]) \in ScanStates /\ Scanning(Append(x, b[i]), Scan(g, b[i]))
      BY <2>1, <2>3, <3>1, ScanStep, ScanTyped
    <3> QED BY <2>2, <2>3, <3>1, <3>2
  <2> HIDE DEF Fine
  <2> QED BY <2>1, <2>4
<1>7. bad = {}
  <2> HIDE DEF bad, n
  <2>1. bad \in SUBSET (0 .. n) BY DEF bad
  <2> QED BY <1>2, <1>5, <1>6, <2>1, Onwards
<1>8. n \in 0 .. n BY <1>2
<1>9. Fine(n)
  <2> HIDE DEF Fine
  <2> QED BY <1>7, <1>8
<1> QED BY <1>1, <1>3, <1>9

(* No character of it has only begun.                                      *)
NotCut(t) == Len(t) > 0 => t[Len(t)] # "lead"

LEMMA Utf8Joins ==
  ASSUME NEW t \in Seq(AllBytes), NEW b \in Seq(AllBytes), IsUtf8(t), NotCut(t)
  PROVE  IsUtf8(t \o b) <=> IsUtf8(b)
<1>1. PICK u, n, k : u = t \o b /\ n = Len(t) /\ k = Len(b) OBVIOUS
<1>2. n \in Nat /\ k \in Nat /\ u \in Seq(AllBytes) /\ Len(u) = n + k BY <1>1, JoinIs
<1>3. (\A i \in 1 .. n : u[i] = t[i]) /\ \A i \in 1 .. k : u[n + i] = b[i] BY <1>1, JoinIs
<1>4. DOMAIN t = 1 .. n /\ DOMAIN b = 1 .. k /\ DOMAIN u = 1 .. (n + k) BY <1>1, <1>2
<1>5. /\ \A i \in 1 .. n : t[i] = "lead" /\ i < n => t[i + 1] = "trail"
      /\ \A i \in 1 .. n : t[i] = "trail" => i > 1 /\ t[i - 1] = "lead"
      /\ n > 0 => t[n] # "lead"
  BY <1>1, <1>4 DEF IsUtf8, NotCut
<1>6. ASSUME IsUtf8(b) PROVE IsUtf8(u)
  <2>1. /\ \A i \in 1 .. k : b[i] = "lead" /\ i < k => b[i + 1] = "trail"
        /\ \A i \in 1 .. k : b[i] = "trail" => i > 1 /\ b[i - 1] = "lead"
    BY <1>1, <1>4, <1>6 DEF IsUtf8
  <2>2. ASSUME NEW i \in 1 .. (n + k)
        PROVE  (u[i] = "lead" /\ i < n + k => u[i + 1] = "trail") /\ (u[i] = "trail" => i > 1 /\ u[i - 1] = "lead")
    <3>1. CASE i \in 1 .. n
      <4>1. u[i] = t[i] BY <1>3, <3>1
      <4>2. ASSUME u[i] = "lead" PROVE u[i + 1] = "trail"
        <5>1. i < n
          <6> SUFFICES ASSUME ~(i < n) PROVE FALSE OBVIOUS
          <6>1. i = n /\ n > 0 BY <1>2, <3>1
          <6>2. t[n] = "lead" BY <4>1, <4>2, <6>1
          <6> QED BY <1>5, <6>1, <6>2
        <5>2. i + 1 \in 1 .. n BY <1>2, <3>1, <5>1
        <5> QED BY <1>3, <1>5, <3>1, <4>1, <4>2, <5>1, <5>2
      <4>3. ASSUME u[i] = "trail" PROVE i > 1 /\ u[i - 1] = "lead"
        <5>1. i > 1 /\ t[i - 1] = "lead" BY <1>5, <3>1, <4>1, <4>3
        <5>2. i - 1 \in 1 .. n BY <1>2, <3>1, <5>1
        <5> QED BY <1>3, <5>1, <5>2
      <4> QED BY <4>2, <4>3
    <3>2. CASE i \notin 1 .. n
      <4>1. PICK j \in 1 .. k : i = n + j
        <5>1. i - n \in 1 .. k /\ i = n + (i - n) BY <1>2, <3>2
        <5> QED BY <5>1
      <4>2. u[i] = b[j] BY <1>3, <4>1
      <4>3. ASSUME u[i] = "lead", i < n + k PROVE u[i + 1] = "trail"
        <5>1. j < k /\ j + 1 \in 1 .. k /\ i + 1 = n + (j + 1) BY <1>2, <4>1, <4>3
        <5> QED BY <1>3, <2>1, <4>2, <4>3, <5>1
      <4>4. ASSUME u[i] = "trail" PROVE i > 1 /\ u[i - 1] = "lead"
        <5>1. j > 1 /\ b[j - 1] = "lead" BY <2>1, <4>2, <4>4
        <5>2. j - 1 \in 1 .. k /\ i - 1 = n + (j - 1) /\ i > 1 BY <1>2, <4>1, <5>1
        <5> QED BY <1>3, <5>1, <5>2
      <4> QED BY <4>3, <4>4
    <3> QED BY <3>1, <3>2
  <2> QED BY <1>2, <1>4, <2>2 DEF IsUtf8
<1>7. ASSUME IsUtf8(u) PROVE IsUtf8(b)
  <2>1. /\ \A i \in 1 .. (n + k) : u[i] = "lead" /\ i < n + k => u[i + 1] = "trail"
        /\ \A i \in 1 .. (n + k) : u[i] = "trail" => i > 1 /\ u[i - 1] = "lead"
    BY <1>2, <1>4, <1>7 DEF IsUtf8
  <2>2. ASSUME NEW j \in 1 .. k
        PROVE  (b[j] = "lead" /\ j < k => b[j + 1] = "trail") /\ (b[j] = "trail" => j > 1 /\ b[j - 1] = "lead")
    <3>1. n + j \in 1 .. (n + k) /\ u[n + j] = b[j] BY <1>2, <1>3
    <3>2. ASSUME b[j] = "lead", j < k PROVE b[j + 1] = "trail"
      <4>1. n + j < n + k /\ j + 1 \in 1 .. k /\ n + j + 1 = n + (j + 1) BY <1>2, <3>2
      <4> QED BY <1>3, <2>1, <3>1, <3>2, <4>1
    <3>3. ASSUME b[j] = "trail" PROVE j > 1 /\ b[j - 1] = "lead"
      <4>4. PICK x \in 1 .. (n + k) : x = n + j BY <3>1
      <4>5. u[x] = "trail" BY <3>1, <3>3, <4>4
      <4>6. x > 1 /\ u[x - 1] = "lead" BY <2>1, <4>5
      <4>2. j > 1
        <5> SUFFICES ASSUME ~(j > 1) PROVE FALSE OBVIOUS
        <5>1. j = 1 /\ x - 1 = n /\ n \in 1 .. n /\ n > 0 BY <1>2, <4>4, <4>6
        <5> QED BY <1>3, <1>5, <4>6, <5>1
      <4>3. j - 1 \in 1 .. k /\ n + (j - 1) = x - 1 BY <1>2, <4>2, <4>4
      <4> QED BY <1>3, <4>2, <4>3, <4>6
    <3> QED BY <3>2, <3>3
  <2> QED BY <1>1, <1>4, <2>2 DEF IsUtf8
<1> QED BY <1>1, <1>6, <1>7

(* A character the chunk cuts is held back, all of it.                     *)
LEMMA CutOff ==
  ASSUME NEW b \in Seq(Bytes), b # <<>>, Last(b) = "lead", IsUtf8(b)
  PROVE  Front(b) \in Seq(Bytes) /\ Front(b) \o <<"lead">> = b /\ NotCut(Front(b))
<1>1. PICK n, f : n = Len(b) /\ f = Front(b) OBVIOUS
<1>2. n \in Nat \ {0} /\ b[n] = "lead" BY <1>1 DEF Last
<1>3. f = [i \in 1 .. (n - 1) |-> b[i]] BY <1>1, <1>2 DEF Front
<1>4. f \in Seq(Bytes) /\ Len(f) = n - 1 /\ \A i \in 1 .. (n - 1) : f[i] = b[i]
  <2>1. \A i \in 1 .. (n - 1) : b[i] \in Bytes BY <1>1, <1>2
  <2>2. n - 1 \in Nat BY <1>2
  <2> QED BY <1>3, <2>1, <2>2
<1>5. f \o <<"lead">> = b
  <2>1. "lead" \in Bytes
    <3>1. n \in 1 .. Len(b) BY <1>1, <1>2
    <3> QED BY <1>2, <3>1
  <2>2. PICK w : w = Append(f, "lead") OBVIOUS
  <2>3. f \in Seq(AllBytes) /\ b \in Seq(AllBytes) /\ "lead" \in AllBytes BY <1>4, <2>1, BytesAreBytes
  <2>4. w \in Seq(AllBytes) /\ Len(w) = Len(f) + 1 /\ w[Len(f) + 1] = "lead" /\ \A i \in 1 .. Len(f) : w[i] = f[i]
    BY <2>2, <2>3, AppendExtends
  <2>5. n - 1 + 1 = n /\ \A i \in 1 .. n : i \in 1 .. (n - 1) \/ i = n BY <1>2
  <2>6. \A i \in 1 .. n : w[i] = b[i] BY <1>2, <1>4, <2>4, <2>5
  <2>7. Len(b) = n /\ Len(w) = n BY <1>1, <1>4, <2>4, <2>5
  <2>8. w = b BY <2>3, <2>4, <2>6, <2>7
  <2>9. f \o <<"lead">> = w BY <2>2, <2>3
  <2> QED BY <2>8, <2>9
<1>6. NotCut(f)
  <2> SUFFICES ASSUME Len(f) > 0, f[Len(f)] = "lead" PROVE FALSE BY DEF NotCut
  <2>1. n - 1 \in 1 .. n /\ n - 1 < n /\ n - 1 \in 1 .. (n - 1) /\ n - 1 + 1 = n BY <1>2, <1>4
  <2>2. b[n - 1] = "lead" BY <1>4, <2>1
  <2>3. DOMAIN b = 1 .. n BY <1>1
  <2>4. b[n - 1 + 1] = "trail" BY <1>1, <2>1, <2>2, <2>3 DEF IsUtf8
  <2> QED BY <1>2, <2>1, <2>4
<1> QED BY <1>1, <1>4, <1>5, <1>6

(* Between two chunks: t is what has been decoded and scanned.             *)
DecodedSoFar(txt, h, s, t) == t \in Seq(Bytes) /\ txt = t \o h /\ Scanning(t, s) /\ IsUtf8(t) /\ NotCut(t)

StreamSafe ==
  /\ StreamTyped
  /\ scan.at = "failed" => Hopeless(text)
  /\ scan.at \in {"before", "in", "finished"} => \E t \in Seq(Bytes) : DecodedSoFar(text, held, scan, t)
  /\ scan.at = "yielded" => IsArrayFile(text) /\ scan.records = ElementsOf(text)
  /\ scan.at = "incomplete" => ~IsArrayFile(text)

LEMMA FailedIs ==
  ASSUME NEW t, NEW s, Scanning(t, s), s.at = "failed"
  PROVE  Hopeless(t)
BY FreshIs DEF Scanning, AwaitsValue, HasValue, Collecting, Doomed

LEMMA StreamSafeStart == StreamInit => StreamSafe
<1> SUFFICES ASSUME StreamInit PROVE StreamSafe OBVIOUS
<1>1. text = <<>> /\ held = <<>> /\ scan = FreshScan /\ scan.at = "before" BY FreshIs DEF StreamInit
<1>2. StreamTyped BY StreamTypedStart
<1>3. PICK t : t = <<>> OBVIOUS
<1>4. t \in Seq(Bytes) /\ Len(t) = 0 /\ <<>> = t \o <<>> BY <1>3
<1>5. Blank(t, 1, Len(t)) BY <1>4 DEF Blank
<1>6. IsUtf8(t) BY <1>3 DEF IsUtf8
<1>7. DecodedSoFar(text, held, scan, t) BY <1>1, <1>4, <1>5, <1>6 DEF DecodedSoFar, Scanning, NotCut
<1> QED BY <1>1, <1>2, <1>4, <1>7 DEF StreamSafe

LEMMA ChunkRead ==
  ASSUME NEW t \in Seq(Bytes), NEW h \in Seq(Bytes), NEW s \in ScanStates, DecodedSoFar(t \o h, h, s, t), NEW chunk \in Seq(Bytes),
         NEW b, b = h \o chunk
  PROVE  /\ ~IsUtf8(b) => Hopeless((t \o h) \o chunk)
         /\ IsUtf8(b) /\ b # <<>> /\ Last(b) = "lead" =>
              /\ DecodedSoFar((t \o h) \o chunk, <<"lead">>, Scanned(s, Front(b)), t \o Front(b)) /\ t \o Front(b) \in Seq(Bytes)
         /\ IsUtf8(b) /\ ~(b # <<>> /\ Last(b) = "lead") =>
              DecodedSoFar((t \o h) \o chunk, <<>>, Scanned(s, b), t \o b) /\ t \o b \in Seq(Bytes)
<1>1. Scanning(t, s) /\ IsUtf8(t) /\ NotCut(t) BY DEF DecodedSoFar
<1>2. b \in Seq(Bytes) /\ (t \o h) \o chunk = t \o b OBVIOUS
<1>3. b \in Seq(AllBytes) /\ t \in Seq(AllBytes) BY <1>2, BytesAreBytes
<1>4. IsUtf8(t \o b) <=> IsUtf8(b) BY <1>1, <1>3, Utf8Joins
<1>5. t \o b \in Seq(AllBytes) BY <1>3
<1>6. ASSUME ~IsUtf8(b) PROVE Hopeless(t \o b) BY <1>4, <1>5, <1>6, NotUtf8
<1>7. ASSUME IsUtf8(b), b # <<>>, Last(b) = "lead"
      PROVE  DecodedSoFar(t \o b, <<"lead">>, Scanned(s, Front(b)), t \o Front(b)) /\ t \o Front(b) \in Seq(Bytes)
  <2>1. PICK f : f = Front(b) OBVIOUS
  <2>2. f \in Seq(Bytes) /\ f \o <<"lead">> = b /\ NotCut(f) BY <1>2, <1>7, <2>1, CutOff
  <2>3. f \in Seq(AllBytes) BY <2>2, BytesAreBytes
  <2>4. t \o f \in Seq(Bytes) /\ (t \o f) \o <<"lead">> = t \o b
    <3>1. "lead" \in Bytes
      <4>1. Len(b) \in 1 .. Len(b) BY <1>2, <1>7
      <4> QED BY <1>2, <1>7, <4>1 DEF Last
    <3>2. PICK g : g = <<"lead">> OBVIOUS
    <3>3. g \in Seq(Bytes) BY <3>1, <3>2
    <3>4. (t \o f) \o g = t \o (f \o g) /\ t \o f \in Seq(Bytes) BY <2>2, <3>3
    <3> QED BY <2>2, <3>2, <3>4
  <2>5. Scanning(t \o f, Scanned(s, f)) BY <1>1, <1>3, <2>2, ScannedStep
  <2>6. PICK w, u, n, k : w = t \o f /\ u = t \o b /\ n = Len(t) /\ k = Len(f) OBVIOUS
  <2>7. w \in Seq(AllBytes) /\ Len(w) = n + k /\ n \in Nat /\ k \in Nat BY <1>3, <2>3, <2>6, JoinIs
  <2>8. (\A i \in 1 .. n : w[i] = t[i]) /\ \A i \in 1 .. k : w[n + i] = f[i] BY <1>3, <2>3, <2>6, JoinIs
  <2>9. NotCut(w)
    <3> SUFFICES ASSUME Len(w) > 0, w[Len(w)] = "lead" PROVE FALSE BY DEF NotCut
    <3>1. CASE k = 0
      <4>1. Len(w) = n /\ n \in 1 .. n /\ n > 0 BY <2>7, <3>1
      <4> QED BY <1>1, <2>6, <2>8, <4>1 DEF NotCut
    <3>2. CASE k # 0
      <4>1. k > 0 /\ k \in 1 .. k BY <2>7, <3>2
      <4> QED BY <2>2, <2>6, <2>7, <2>8, <4>1 DEF NotCut
    <3> QED BY <3>1, <3>2
  <2>10. IsUtf8(w)
    <3>1. IsUtf8(u) /\ u \in Seq(AllBytes) BY <1>4, <1>5, <1>7, <2>6
    <3>2. u = w \o <<"lead">> BY <2>4, <2>6
    <3>3. Extends(u, w)
      <4>1. "lead" \in AllBytes BY DEF AllBytes
      <4>2. u = Append(w, "lead") BY <2>7, <3>2, <4>1
      <4> QED BY <2>7, <4>1, <4>2, AppendExtends
    <3> QED BY <2>7, <3>1, <3>3, ExtendsIs
  <2> QED BY <2>1, <2>4, <2>5, <2>6, <2>9, <2>10 DEF DecodedSoFar
<1>8. ASSUME IsUtf8(b), ~(b # <<>> /\ Last(b) = "lead")
      PROVE  DecodedSoFar(t \o b, <<>>, Scanned(s, b), t \o b) /\ t \o b \in Seq(Bytes)
  <2>1. t \o b \in Seq(Bytes) /\ t \o b = (t \o b) \o <<>> BY <1>2
  <2>2. Scanning(t \o b, Scanned(s, b)) BY <1>1, <1>2, <1>3, ScannedStep
  <2>3. IsUtf8(t \o b) BY <1>4, <1>8
  <2>4. PICK w, n, k : w = t \o b /\ n = Len(t) /\ k = Len(b) OBVIOUS
  <2>5. w \in Seq(AllBytes) /\ Len(w) = n + k /\ n \in Nat /\ k \in Nat BY <1>3, <2>4, JoinIs
  <2>6. (\A i \in 1 .. n : w[i] = t[i]) /\ \A i \in 1 .. k : w[n + i] = b[i] BY <1>3, <2>4, JoinIs
  <2>7. NotCut(w)
    <3> SUFFICES ASSUME Len(w) > 0, w[Len(w)] = "lead" PROVE FALSE BY DEF NotCut
    <3>1. CASE k = 0
      <4>1. Len(w) = n /\ n \in 1 .. n /\ n > 0 BY <2>5, <3>1
      <4> QED BY <1>1, <2>4, <2>6, <4>1 DEF NotCut
    <3>2. CASE k # 0
      <4>1. k > 0 /\ k \in 1 .. k BY <2>5, <3>2
      <4>2. b[k] = "lead" BY <2>5, <2>6, <4>1
      <4>3. b # <<>> BY <1>2, <2>4, <4>1
      <4> QED BY <1>8, <2>4, <4>2, <4>3 DEF Last
    <3> QED BY <3>1, <3>2
  <2> QED BY <2>1, <2>2, <2>3, <2>4, <2>7 DEF DecodedSoFar
<1> QED BY <1>2, <1>6, <1>7, <1>8

LEMMA HeldIs ==
  ASSUME StreamTyped
  PROVE  held \in Seq(Bytes) /\ (held = <<>> \/ held = <<"lead">>) /\ text \in Seq(Bytes)
<1>1. (held = <<>> \/ (held = <<"lead">> /\ "lead" \in Bytes)) /\ text \in Seq(Bytes) BY DEF StreamTyped, StreamTypeOK
<1>2. \A x \in Bytes : <<x>> \in Seq(Bytes) OBVIOUS
<1>3. <<>> \in Seq(Bytes) OBVIOUS
<1> QED BY <1>1, <1>2, <1>3

LEMMA ReadChunkSafe ==
  ASSUME StreamSafe, NEW chunk \in Seq(Bytes), ReadChunk(chunk)
  PROVE  StreamSafe'
<1>1. StreamTyped /\ StreamTyped' BY ReadChunkTyped DEF StreamSafe
<1>2. scan \in ScanStates /\ scan.at \in {"before", "in", "finished"} BY <1>1 DEF ReadChunk, StreamTyped, ScanStates
<1>3. PICK t \in Seq(Bytes) : DecodedSoFar(text, held, scan, t) BY <1>2 DEF StreamSafe
<1>4. held \in Seq(Bytes) /\ text = t \o held BY <1>1, <1>3, HeldIs DEF DecodedSoFar
<1>5. PICK h, s, b : h = held /\ s = scan /\ b = held \o chunk OBVIOUS
<1>6. h \in Seq(Bytes) /\ s \in ScanStates /\ DecodedSoFar(t \o h, h, s, t) /\ b = h \o chunk BY <1>2, <1>3, <1>4, <1>5
<1>7. /\ ~IsUtf8(b) => Hopeless((t \o h) \o chunk)
      /\ IsUtf8(b) /\ b # <<>> /\ Last(b) = "lead" =>
           /\ DecodedSoFar((t \o h) \o chunk, <<"lead">>, Scanned(s, Front(b)), t \o Front(b)) /\ t \o Front(b) \in Seq(Bytes)
      /\ IsUtf8(b) /\ ~(b # <<>> /\ Last(b) = "lead") =>
           DecodedSoFar((t \o h) \o chunk, <<>>, Scanned(s, b), t \o b) /\ t \o b \in Seq(Bytes)
  BY <1>6, ChunkRead
<1>8. text' = (t \o h) \o chunk BY <1>4, <1>5 DEF ReadChunk
<1>9. Decode(chunk) = IF b # <<>> /\ Last(b) = "lead" THEN [characters |-> Front(b), held |-> <<"lead">>]
                      ELSE [characters |-> b, held |-> <<>>]
  BY <1>5 DEF Decode
<1>10. held' = Decode(chunk).held /\ scan' = (IF IsUtf8(b) THEN Scanned(s, Decode(chunk).characters) ELSE StreamFailed(s))
  BY <1>5 DEF ReadChunk, Scanned
<1>11. scan' \in ScanStates
  <2>1. b \in Seq(Bytes) BY <1>5, <1>6
  <2>2. Decode(chunk).characters \in Seq(Bytes)
    <3>1. b # <<>> /\ Last(b) = "lead" => Front(b) \in Seq(Bytes)
      <4> HAVE b # <<>> /\ Last(b) = "lead"
      <4>1. Len(b) \in Nat \ {0} BY <2>1
      <4>2. \A i \in 1 .. (Len(b) - 1) : b[i] \in Bytes BY <2>1, <4>1
      <4> QED BY <2>1, <4>1, <4>2 DEF Front
    <3> QED BY <1>9, <2>1, <3>1
  <2>3. StreamFailed(s) \in ScanStates BY <1>6, CompleteTyped
  <2>4. Scanned(s, Decode(chunk).characters) \in ScanStates BY <1>6, <2>2, ScannedTyped
  <2> QED BY <1>10, <2>3, <2>4
<1>12. CASE ~IsUtf8(b)
  <2>1. scan'.at = "failed" BY <1>6, <1>10, <1>12, NotComplete
  <2>2. Hopeless(text') BY <1>7, <1>8, <1>12
  <2> QED BY <1>1, <2>1, <2>2 DEF StreamSafe
<1>13. CASE IsUtf8(b)
  <2>1. PICK w \in Seq(Bytes) : DecodedSoFar(text', held', scan', w)
    <3>1. CASE b # <<>> /\ Last(b) = "lead"
      <4>1. held' = <<"lead">> /\ scan' = Scanned(s, Front(b)) BY <1>9, <1>10, <1>13, <3>1
      <4> QED BY <1>7, <1>8, <1>13, <3>1, <4>1
    <3>2. CASE ~(b # <<>> /\ Last(b) = "lead")
      <4>1. held' = <<>> /\ scan' = Scanned(s, b) BY <1>9, <1>10, <1>13, <3>2
      <4> QED BY <1>7, <1>8, <1>13, <3>2, <4>1
    <3> QED BY <3>1, <3>2
  <2>2. scan'.at = "failed" => Hopeless(text')
    <3> HAVE scan'.at = "failed"
    <3>1. text' = w \o held' /\ Scanning(w, scan') BY <2>1 DEF DecodedSoFar
    <3>2. Hopeless(w) BY <3>1, FailedIs
    <3>3. w \in Seq(AllBytes) /\ held' \in Seq(AllBytes)
      <4>1. held' \in Seq(Bytes)
        <5>1. held' = <<>> \/ (held' = <<"lead">> /\ "lead" \in Bytes) BY <1>1 DEF StreamTyped, StreamTypeOK
        <5>2. \A x \in Bytes : <<x>> \in Seq(Bytes) OBVIOUS
        <5>3. <<>> \in Seq(Bytes) OBVIOUS
        <5> QED BY <5>1, <5>2, <5>3
      <4> QED BY <4>1, BytesAreBytes
    <3>4. w \o held' \in Seq(AllBytes) /\ Extends(w \o held', w)
      <4>1. PICK x : x = held' OBVIOUS
      <4>2. x \in Seq(AllBytes) BY <3>3, <4>1
      <4>3. w \o x \in Seq(AllBytes) /\ Extends(w \o x, w)
        <5>1. /\ w \o x \in Seq(AllBytes) /\ Len(w \o x) = Len(w) + Len(x) /\ Len(w) \in Nat /\ Len(x) \in Nat
              /\ \A i \in 1 .. Len(w) : (w \o x)[i] = w[i]
          BY <3>3, <4>2, JoinIs
        <5> QED BY <5>1 DEF Extends
      <4> QED BY <4>1, <4>3
    <3>5. Hopeless(w \o held') BY <3>2, <3>3, <3>4, HopelessMore
    <3> QED BY <3>1, <3>5
  <2>3. scan'.at \notin {"yielded", "incomplete"} BY <1>11 DEF ScanStates
  <2> QED BY <1>1, <2>1, <2>2, <2>3 DEF StreamSafe
<1> QED BY <1>12, <1>13

(* What has been scanned when the file ends.                               *)
LEMMA EndedWell ==
  ASSUME NEW t \in Seq(AllBytes), NEW s, Scanning(t, s), IsUtf8(t), s.at = "finished"
  PROVE  IsArrayFile(t) /\ s.records = ElementsOf(t)
<1>1. Done(t, s.records) BY FreshIs DEF Scanning, AwaitsValue, HasValue, Collecting, Doomed
<1>2. Bracketed(t) /\ s.records = ElementsOf(t) /\ \A k \in DOMAIN s.records : Parses(s.records[k]) BY <1>1 DEF Done
<1>3. \A k \in DOMAIN ElementsOf(t) : Parses(ElementsOf(t)[k]) BY <1>2
<1> QED BY <1>2, <1>3, ArrayFileIs

LEMMA EndedEarly ==
  ASSUME NEW t \in Seq(AllBytes), NEW s, Scanning(t, s), s.at \in {"before", "in"}
  PROVE  ~IsArrayFile(t)
<1> SUFFICES ASSUME IsArrayFile(t) PROVE FALSE OBVIOUS
<1>1. Bracketed(t) /\ Marks(t) # {} BY ArrayFileIs DEF Bracketed
<1>2. Extends(t, t) BY DEF Extends
<1>3. ~InsideArray(t)
  <2> SUFFICES ASSUME InsideArray(t) PROVE FALSE OBVIOUS
  <2>1. Max(Marks(t)) > Len(t) BY <1>1, <1>2, EndsLater
  <2>2. Max(Marks(t)) \in 1 .. Len(t) BY <1>1, EndsOf
  <2> QED BY <2>1, <2>2
<1>4. ~Hopeless(t) BY <1>2 DEF Hopeless
<1>5. ~Blank(t, 1, Len(t)) BY <1>1, NoMarks
<1> QED BY <1>3, <1>4, <1>5 DEF Scanning, AwaitsValue, HasValue, Collecting, Doomed, Frame

LEMMA EndedWithin ==
  ASSUME NEW t \in Seq(AllBytes), NEW u, u = t \o <<"lead">>
  PROVE  ~IsArrayFile(u)
<1>0. "lead" \in AllBytes BY DEF AllBytes
<1>1. "lead" \in AllBytes /\ u = Append(t, "lead") BY <1>0
<1>2. PICK n : n = Len(t) + 1 OBVIOUS
<1>3. u \in Seq(AllBytes) /\ Len(u) = n /\ u[n] = "lead" BY <1>1, <1>2, AppendExtends
<1>4. n \in 1 .. Len(u) BY <1>2, <1>3
<1> SUFFICES ASSUME IsArrayFile(u) PROVE FALSE OBVIOUS
<1>5. Marks(u) # {} /\ u[Max(Marks(u))] = "]" BY <1>3, ArrayFileIs DEF Bracketed
<1>6. Max(Marks(u)) \in 1 .. Len(u) /\ n <= Max(Marks(u)) BY <1>3, <1>4, <1>5, EndsOf
<1>7. Max(Marks(u)) = n BY <1>3, <1>4, <1>6
<1> QED BY <1>3, <1>5, <1>7

LEMMA EndOfFileSafe ==
  ASSUME StreamSafe, EndOfFile
  PROVE  StreamSafe'
<1>1. StreamTyped /\ StreamTyped' BY EndOfFileTyped DEF StreamSafe
<1>2. scan \in ScanStates /\ scan.at \in {"before", "in", "finished"} BY <1>1 DEF EndOfFile, StreamTyped, ScanStates
<1>3. PICK t \in Seq(Bytes) : DecodedSoFar(text, held, scan, t) BY <1>2 DEF StreamSafe
<1>4. text = t \o held /\ Scanning(t, scan) /\ IsUtf8(t) /\ t \in Seq(AllBytes) BY <1>3, BytesAreBytes DEF DecodedSoFar
<1>5. held = <<>> \/ held = <<"lead">> BY <1>1, HeldIs
<1>6. text' = text BY DEF EndOfFile
<1>7. CASE held = <<>> /\ scan.at = "finished"
  <2>1. scan' = [scan EXCEPT !.at = "yielded"] BY <1>7 DEF EndOfFile
  <2>2. scan'.at = "yielded" /\ scan'.records = scan.records BY <1>2, <2>1 DEF ScanStates
  <2>3. text = t BY <1>4, <1>7
  <2>4. IsArrayFile(text) /\ scan.records = ElementsOf(text) BY <1>4, <1>7, <2>3, EndedWell
  <2> QED BY <1>1, <1>6, <2>2, <2>4 DEF StreamSafe
<1>8. CASE ~(held = <<>> /\ scan.at = "finished")
  <2>1. scan' = [scan EXCEPT !.at = "incomplete"] BY <1>8 DEF EndOfFile
  <2>2. scan'.at = "incomplete" BY <1>2, <2>1 DEF ScanStates
  <2>3. ~IsArrayFile(text)
    <3>1. CASE held = <<>>
      <4>1. text = t /\ scan.at \in {"before", "in"} BY <1>2, <1>4, <1>8, <3>1
      <4> QED BY <1>4, <4>1, EndedEarly
    <3>2. CASE held = <<"lead">> BY <1>4, <3>2, EndedWithin
    <3> QED BY <1>5, <3>1, <3>2
  <2> QED BY <1>1, <1>6, <2>2, <2>3 DEF StreamSafe
<1> QED BY <1>7, <1>8

LEMMA StreamSafeStep == StreamSafe /\ [StreamNext]_streamVars => StreamSafe'
<1> SUFFICES ASSUME StreamSafe, [StreamNext]_streamVars PROVE StreamSafe' OBVIOUS
<1>1. ASSUME NEW b \in Bytes, ReadChunk(<<b>>) PROVE StreamSafe'
  <2>1. <<b>> \in Seq(Bytes) OBVIOUS
  <2> QED BY <1>1, <2>1, ReadChunkSafe
<1>2. ASSUME NEW b \in Bytes, NEW c \in Bytes, ReadChunk(<<b, c>>) PROVE StreamSafe'
  <2>1. <<b, c>> \in Seq(Bytes) OBVIOUS
  <2> QED BY <1>2, <2>1, ReadChunkSafe
<1>3. CASE EndOfFile BY <1>3, EndOfFileSafe
<1>4. CASE UNCHANGED streamVars
  <2>1. StreamTyped' BY <1>4, StreamTypedStep DEF StreamSafe
  <2> QED BY <1>4, <2>1 DEF streamVars, StreamSafe
<1> QED BY <1>1, <1>2, <1>3, <1>4 DEF StreamNext

(* Every ending the reference tries is text a file could hold.             *)
LEMMA EndingsAreBytes == Endings \in SUBSET Seq(AllBytes)
<1>1. \A x \in AllBytes : <<x>> \in Seq(AllBytes) OBVIOUS
<1>2. \A x, y \in AllBytes : <<x, y>> \in Seq(AllBytes) OBVIOUS
<1>3. \A x, y, z \in AllBytes : <<x, y, z>> \in Seq(AllBytes) OBVIOUS
<1>4. <<>> \in Seq(AllBytes) OBVIOUS
<1> QED BY <1>1, <1>2, <1>3, <1>4 DEF Endings, AllBytes

LEMMA SafeYields == StreamSafe => YieldsTheRecords
<1> SUFFICES ASSUME StreamSafe PROVE YieldsTheRecords OBVIOUS
<1>1. scan.at = "failed" => \A e \in Endings : ~IsArrayFile(text \o e)
  <2> SUFFICES ASSUME scan.at = "failed", NEW e \in Endings PROVE ~IsArrayFile(text \o e) OBVIOUS
  <2>1. text \in Seq(AllBytes) /\ e \in Seq(AllBytes) BY HeldIs, BytesAreBytes, EndingsAreBytes DEF StreamSafe
  <2>2. Hopeless(text) BY DEF StreamSafe
  <2>3. PICK t : t = text OBVIOUS
  <2>4. /\ t \o e \in Seq(AllBytes) /\ Len(t \o e) = Len(t) + Len(e) /\ Len(t) \in Nat /\ Len(e) \in Nat
        /\ \A i \in 1 .. Len(t) : (t \o e)[i] = t[i]
    BY <2>1, <2>3, JoinIs
  <2>5. Extends(t \o e, t) BY <2>4 DEF Extends
  <2> QED BY <2>2, <2>3, <2>4, <2>5 DEF Hopeless
<1> QED BY <1>1 DEF StreamSafe, YieldsTheRecords

(* For every alphabet and length of file, and however the file is cut into *)
(* chunks: iterateJsonArray yields the records of the array the file is,   *)
(* and fails it only if nothing that could follow makes it one.            *)
THEOREM RecordsAreYielded == StreamSpec => []YieldsTheRecords
<1>1. StreamInit /\ [][StreamNext]_streamVars => []StreamSafe BY StreamSafeStart, StreamSafeStep, PTL
<1> QED BY <1>1, SafeYields, PTL DEF StreamSpec

(* The variables of the stream have their types.                           *)
THEOREM StreamsTyped == StreamSpec => []StreamTypeOK
<1>1. StreamTyped => StreamTypeOK BY DEF StreamTyped
<1> QED BY <1>1, StreamTypedStart, StreamTypedStep, PTL DEF StreamSpec

----
(* The parts side by side, with those of MarketplaceProofs.                *)

LEMMA CatalogueParts == Spec => ImagesSpec /\ StreamSpec /\ ReadersSpec /\ RowStagesSpec /\ DictionarySpec
<1>1. Init => ImagesInit /\ StreamInit /\ ReadersInit /\ RowStagesInit /\ DictionaryInit
  BY DEF Init
<1>2. [Next]_<<part, dealerVars, listingVars, imageVars, streamVars, readerVars, rowVars,
               dictionaryVars, parserVars, naturalVars, optionVars, facetVars>> =>
        /\ [ImagesNext]_imageVars /\ [StreamNext]_streamVars /\ [ReadersNext]_readerVars
        /\ [RowStagesNext]_rowVars /\ [DictionaryNext]_dictionaryVars
  BY DEF Next
<1> QED
  BY <1>1, <1>2, PTL DEF Spec, ImagesSpec, StreamSpec, ReadersSpec, RowStagesSpec, DictionarySpec

(* Whatever part moves, a listing's photos are right.                      *)
THEOREM MarketplacePhotos == Spec => []PhotosAreRight
<1>1. OnePrimary /\ OutcomesAreTrue => PhotosAreRight BY DEF PhotosAreRight
<1> QED BY CatalogueParts, PhotosAreSound, <1>1, PTL

(* Whatever part moves, rows go on as they were judged.                    *)
THEOREM MarketplaceRows == Spec => []RowsComeAsJudged
<1>1. RowsComeThrough => RowsComeAsJudged BY DEF RowsComeAsJudged
<1> QED BY CatalogueParts, RowsAreSound, <1>1, PTL

(* Whatever part moves, a file's records and rows are the dealer's.        *)
THEOREM MarketplaceFiles == Spec => []FilesAreRead
<1>1. YieldsTheRecords /\ RowsAreTheDealers => FilesAreRead BY DEF FilesAreRead
<1> QED BY CatalogueParts, RecordsAreYielded, FilesAreTheDealers, <1>1, PTL

(* Whatever part moves, what is typed is settled once.                     *)
THEOREM MarketplaceSpellings == Spec => SpellingsAreSettled
<1>1. HiddenIsHandled /\ ServicesAgree => (part = "dictionary" => HiddenIsHandled /\ ServicesAgree)
  OBVIOUS
<1> QED BY CatalogueParts, SpellingsSettle, <1>1, PTL DEF SpellingsAreSettled

(* The variables of the eleven parts have their types.                     *)
THEOREM MarketplaceTyped == Spec => []TypesOK
<1>1. ASSUME DealerTypeOK, ListingsTypeOK, QueryParserTypeOK, SearchTypeOK, SearchOptionsTypeOK, FacetedSearchTypeOK,
             ImagesTypeOK, StreamTypeOK, ReadersTypeOK, RowStagesTypeOK, DictionaryTypeOK
      PROVE  TypesOK
  BY <1>1 DEF TypesOK
<1>2. Spec => /\ []DealerTypeOK /\ []ListingsTypeOK /\ []QueryParserTypeOK /\ []SearchTypeOK
              /\ []SearchOptionsTypeOK /\ []FacetedSearchTypeOK
  BY SumOfParts, DealerTyped, ListingsTyped, ParserTyped, SearchTyped, OptionsTyped, FacetsTyped, PTL
<1>3. Spec => /\ []ImagesTypeOK /\ []StreamTypeOK /\ []ReadersTypeOK /\ []RowStagesTypeOK /\ []DictionaryTypeOK
  BY CatalogueParts, ImagesTyped, StreamsTyped, ReadersAreTyped, RowsTyped, DictionaryTyped, PTL
<1> QED BY <1>1, <1>2, <1>3, PTL
====
