---- MODULE RowStages ----
(***************************************************************************)
(* What becomes of the rows of one chunk before LOAD: the rules and the    *)
(* dictionary read the cells (parse-normalize.stage.ts), the language model*)
(* repairs rows read with too little confidence (groq-normalize.stage.ts), *)
(* and rows that are not whole, or that repeat a registration, are rejected*)
(* (validate-rows.stage.ts).                                               *)
(*                                                                         *)
(*   sheet     the cells of each row                                       *)
(*   read      what the rules made of a row: the value of each field       *)
(*   got       the fields now; marks are the fields the review page shows  *)
(*             as repaired                                                 *)
(*   trust     the confidence of the row, in tenths                        *)
(*   unanswered candidates for repair, per request, still to be sent       *)
(*   accepted  rows that go on to LOAD; stage is the next step             *)
(*                                                                         *)
(* A make has one model, and the model one vehicle type, which may be the  *)
(* only one of its make: a model, and a type taken from a model or a make, *)
(* are named by the make they belong to.                                   *)
(***************************************************************************)
EXTENDS Naturals, FiniteSets, Sequences

CONSTANTS
  Makes,           \* makes of the dictionary
  OneTypeMakes,    \* those that make vehicles of one type only
  Plates,          \* registration numbers
  Unread,          \* no value was read
  Matches,         \* how well a value may be matched, in tenths
  Threshold,       \* INGESTION_GROQ_CONFIDENCE_THRESHOLD, in tenths
  BatchSize        \* GROQ_BATCH_SIZE

ASSUME RowAssumption ==
  /\ Unread \notin Makes \cup Plates /\ OneTypeMakes \subseteq Makes
  /\ Matches \subseteq 1 .. 10 /\ Matches # {}
  /\ Threshold \in 0 .. 10 /\ BatchSize \in Nat \ {0}

VARIABLES sheet, read, got, marks, trust, unanswered, accepted, stage

rowVars == <<sheet, read, got, marks, trust, unanswered, accepted, stage>>

RowNumbers == {1, 2}

(* A cell: blank, not recognised, or a value and how well it was matched   *)
(* (10 exactly, 8 by an alias, 6 by a misspelling).                        *)
Cell(values) == {[value |-> Unread, match |-> 0], [value |-> "blank", match |-> 0]}
                  \cup [value : values, match : Matches]

(* The engine size by where it falls: under the 50 cc of the form, within  *)
(* the form's bounds, over its 20 000 cc.                                  *)
Sizes == {"under", "within", "over"}

Sheet == [make : Cell(Makes), model : Cell(Makes), type : Cell({"own"}), fuel : Cell({"own"}),
          engine : Sizes \cup {Unread}, price : {"positive", "zero"}, plate : Plates \cup {Unread}]

Good(make, plate, price) ==
  LET cell(v) == [value |-> v, match |-> CHOOSE m \in Matches : TRUE] IN
  [make |-> cell(make), model |-> cell(make), type |-> cell("own"), fuel |-> cell("own"),
   engine |-> "within", price |-> price, plate |-> plate]

NormalizedRow == [make : Makes \cup {Unread}, model : Makes \cup {Unread},
                  type : Makes \cup {"own", Unread}, fuel : {"own", "repaired", Unread},
                  engine : Sizes \cup {Unread}]

Nothing == [make |-> Unread, model |-> Unread, type |-> Unread, fuel |-> Unread, engine |-> Unread]

RowStagesTypeOK ==
  /\ sheet \in [RowNumbers -> Sheet]
  /\ read \in [RowNumbers -> NormalizedRow] /\ got \in [RowNumbers -> NormalizedRow]
  /\ marks \in [RowNumbers -> SUBSET {"make", "model", "fuel", "engine"}]
  /\ trust \in [RowNumbers -> 0 .. 10]
  /\ unanswered \in Seq(SUBSET RowNumbers)
  /\ accepted \subseteq RowNumbers
  /\ stage \in {"PARSE_NORMALIZE", "GROQ_NORMALIZE", "VALIDATE_ROWS", "done"}

(* One row of any kind, and one that is right but for its price.           *)
RowStagesInit ==
  /\ \E odd \in Sheet, n \in RowNumbers, make \in Makes, plate \in Plates,
        price \in {"positive", "zero"} :
       /\ odd.price = "zero" => odd = Good(odd.make.value, odd.plate, "zero")
       /\ odd.engine = "over" => odd.type.match # 0 /\ odd.fuel.match # 0
       /\ sheet = [r \in RowNumbers |-> IF r = n THEN odd ELSE Good(make, plate, price)]
  /\ read = [r \in RowNumbers |-> Nothing] /\ got = read
  /\ marks = [r \in RowNumbers |-> {}] /\ trust = [r \in RowNumbers |-> 0]
  /\ unanswered = <<>> /\ accepted = {} /\ stage = "PARSE_NORMALIZE"

----
(* The dictionary: a model is looked up under the make of its row only.    *)
resolveMake(cell) == IF cell.match > 0 THEN cell.value ELSE Unread
resolveModel(cell, make) == IF cell.match > 0 /\ cell.value = make THEN make ELSE Unread

(* The dealer's own type first, then the type of the model, then that of a *)
(* make that has no other.                                                 *)
deriveVehicleType(cell, model, make) ==
  CASE cell.match > 0                      -> cell.value
    [] cell.match = 0 /\ model # Unread    -> model
    [] cell.match = 0 /\ model = Unread    -> IF make \in OneTypeMakes THEN make ELSE Unread

ReadRow(cells) ==
  LET make == resolveMake(cells.make)
      model == resolveModel(cells.model, make)
  IN [make |-> make, model |-> model, type |-> deriveVehicleType(cells.type, model, make),
      fuel |-> IF cells.fuel.match > 0 THEN cells.fuel.value ELSE Unread,
      engine |-> cells.engine]

(* How well a field is supported: as its cell was matched, and a type that *)
(* was taken from the model or the make as these were.                     *)
Support(cells, field) ==
  LET row == ReadRow(cells) IN
  CASE row[field] = Unread                                              -> 0
    [] row[field] # Unread /\ (field # "type" \/ cells.type.match > 0)   -> cells[field].match
    [] row[field] # Unread /\ field = "type" /\ cells.type.match = 0     ->
         IF row.model # Unread THEN cells.model.match ELSE cells.make.match

Scored == {"make", "model", "type", "fuel"}

(* The least support of the fields that are scored and not blank; price and*)
(* mileage are read in every row, and the engine size is not scored.       *)
Confidence(cells) ==
  LET scores == {Support(cells, f) : f \in {f \in Scored : cells[f].value # "blank"}} \cup {10}
  IN CHOOSE s \in scores : \A t \in scores : s <= t

(* The candidates, in batches.                                             *)
Candidates(confidence) == {r \in RowNumbers : confidence[r] < Threshold}

ChunkInto(rows) ==
  IF rows = {} THEN <<>>
  ELSE IF Cardinality(rows) <= BatchSize THEN <<rows>>
  ELSE <<{1}, {2}>>

ParseNormalize(configured) ==
  /\ stage = "PARSE_NORMALIZE"
  /\ read' = [r \in RowNumbers |-> ReadRow(sheet[r])]
  /\ got' = read'
  /\ trust' = [r \in RowNumbers |-> Confidence(sheet[r])]
  /\ unanswered' = IF configured THEN ChunkInto(Candidates(trust')) ELSE <<>>
  /\ stage' = "GROQ_NORMALIZE"
  /\ UNCHANGED <<sheet, marks, accepted>>

----
(* The answer of the language model to a batch: for each row, what it says *)
(* of each field. Values that the vocabulary does not hold are Unread; for *)
(* the engine size any positive number is taken.                           *)
Repair == [make : Makes \cup {Unread}, model : Makes \cup {Unread},
           fuel : {"repaired", Unread}, engine : Sizes \cup {Unread}]

(* A make that resolves is taken, with the model that resolves under it and*)
(* the type of that model. Other fields are taken where nothing was read.  *)
RepairRow(row, repair) ==
  LET model == IF repair.make # Unread /\ repair.model = repair.make THEN repair.model ELSE Unread
      filled(field) == IF row[field] = Unread THEN repair[field] ELSE row[field]
  IN [make   |-> IF repair.make # Unread THEN repair.make ELSE row.make,
      model  |-> IF model # Unread THEN model ELSE row.model,
      type   |-> IF model # Unread THEN model ELSE row.type,
      fuel   |-> filled("fuel"), engine |-> filled("engine")]

Touched(row, repair) ==
  {f \in {"make"} : repair.make # Unread}
    \cup {f \in {"model"} : repair.make # Unread /\ repair.model = repair.make}
    \cup {f \in {"fuel", "engine"} : row[f] = Unread /\ repair[f] # Unread}

(* Repairs are merged by row number, also one for a row of the chunk that  *)
(* the batch did not hold (taken as the last of its answer).               *)
GroqAnswered(r, repair) ==
  LET touched == Touched(got[r], repair) IN
  /\ stage = "GROQ_NORMALIZE" /\ unanswered # <<>>
  /\ got' = [got EXCEPT ![r] = RepairRow(@, repair)]
  /\ marks' = [marks EXCEPT ![r] = @ \cup touched]
  /\ trust' = [trust EXCEPT ![r] = IF touched = {} THEN @ ELSE 8]
  /\ unanswered' = IF Head(unanswered) \ {r} \in {{}, Head(unanswered)} THEN Tail(unanswered)
                ELSE <<Head(unanswered) \ {r}>> \o Tail(unanswered)
  /\ UNCHANGED <<sheet, read, accepted, stage>>

(* A batch that fails, or an answer that leaves rows out: they stay as read*)
GroqDegraded ==
  /\ stage = "GROQ_NORMALIZE" /\ unanswered # <<>>
  /\ unanswered' = Tail(unanswered)
  /\ UNCHANGED <<sheet, read, got, marks, trust, accepted, stage>>

----
Whole(r) ==
  /\ \A field \in {"make", "model", "type", "fuel", "engine"} : got[r][field] # Unread
  /\ sheet[r].price = "positive"

(* Mutant of Claims: every row before claims its registration.             *)
ClaimsAlways(r, plate) == sheet[r].plate = plate

(* A row that is rejected does not claim its registration.                 *)
Claims(r, plate) == sheet[r].plate = plate /\ Whole(r)

ValidateRows ==
  /\ stage = "GROQ_NORMALIZE" /\ unanswered = <<>>
  /\ accepted' = {r \in RowNumbers : Whole(r) /\
       (sheet[r].plate # Unread => \A s \in 1 .. r - 1 : ~Claims(s, sheet[r].plate))}
  /\ stage' = "done"
  /\ UNCHANGED <<sheet, read, got, marks, trust, unanswered>>

RowStagesNext ==
  \/ \E configured \in BOOLEAN : ParseNormalize(configured)
  \/ \E r \in RowNumbers, repair \in Repair : GroqAnswered(r, repair)
  \/ GroqDegraded \/ ValidateRows

RowStagesSpec == RowStagesInit /\ [][RowStagesNext]_rowVars

----
(* A field the rules could read, other than make, model and type, is what  *)
(* the dealer wrote, whatever the language model answers; and a field that *)
(* it changed is marked as repaired. (The type is not: see the README.)    *)
RepairsFillGaps ==
  stage # "PARSE_NORMALIZE" => \A r \in RowNumbers :
    /\ \A f \in {"fuel", "engine"} : read[r][f] # Unread => got[r][f] = read[r][f]
    /\ \A f \in {"make", "model", "fuel", "engine"} : got[r][f] # read[r][f] => f \in marks[r]

(* A row has no more confidence than the least of its fields, as the rules *)
(* read them, supports, or that of an alias once the model repaired some.  *)
TrustIsEarned ==
  stage # "PARSE_NORMALIZE" => \A r \in RowNumbers :
    IF marks[r] # {} THEN trust[r] = 8
    ELSE \A f \in Scored : sheet[r][f].value # "blank" => trust[r] <= Support(sheet[r], f)

(* Of the rows with one registration at most one is loaded; and a row that *)
(* is not has a reason: a field is missing or wrong, or a row before it,   *)
(* which is loaded, has its registration. A rejected row shadows no other. *)
RejectionsHaveReasons ==
  stage = "done" =>
    /\ \A plate \in Plates : Cardinality({r \in accepted : sheet[r].plate = plate}) <= 1
    /\ \A r \in RowNumbers :
         IF r \in accepted THEN Whole(r)
         ELSE Whole(r) => \E s \in accepted : s < r /\ sheet[s].plate = sheet[r].plate

(* The rows of a chunk come through the stages right (the three above).    *)
RowsComeThrough == RepairsFillGaps /\ TrustIsEarned /\ RejectionsHaveReasons

(* dictionary-snapshot.ts:64-67: a model resolves under its own make only. *)
PairIsKnown ==
  \A r \in accepted : got[r].model = got[r].make

(* validate-rows.stage.ts:13-18: a vehicle that the form would refuse does *)
(* not arrive through a spreadsheet.                                       *)
BulkObeysFormBounds ==
  \A r \in accepted : got[r].engine = "within"
====
