---- MODULE ListingForm ----
(***************************************************************************)
(* The dealer's listing form (ListingForm, ManualListingPage) in its two   *)
(* parts, which share no state: how forms become listings, and how specs   *)
(* become fields and fields specs.                                         *)
(***************************************************************************)
EXTENDS Naturals, FiniteSets

(***************************************************************************)
(* A dealer adds vehicles by hand: the forms of ManualListingPage, their   *)
(* requests to marketplace-service, and the guard of createListing against *)
(* a form that is sent again because its answer never came.                *)
(*                                                                         *)
(*   form      the pages open in the dealer's tabs                         *)
(*   creation  handlers of createListing                                   *)
(*   listed    the rows they have inserted: when, and (history) by which   *)
(*             handler and how many rows there were when that had looked   *)
(*   minute    the clock of the service                                    *)
(*                                                                         *)
(* What a form says is a pair: same holds the seven columns the guard      *)
(* compares, rest all others (colour, registration number, ...).           *)
(***************************************************************************)

CONSTANTS
  Forms,           \* tabs
  Creations,       \* handlers that may be under way at once
  Same, Rest,      \* values of the columns that are compared, of the others
  DUPLICATE_CREATE_WINDOW,
  MaxMinutes,      \* bound on the clock
  MaxListed        \* bound on rows

ASSUME NewListingAssumption ==
  /\ DUPLICATE_CREATE_WINDOW \in Nat /\ MaxMinutes \in Nat
  /\ Same # {} /\ Rest # {} /\ IsFiniteSet(Creations)

VARIABLES form, creation, listed, minute

newListingVars == <<form, creation, listed, minute>>

Values == [same : Same, rest : Rest]
Blank  == CHOOSE v \in Values : TRUE

Creation == [pc : {"idle", "find", "create", "answer", "error"}, values : Values,
             for : Forms \cup {"nobody"}, seen : Nat]

ListedRow == [id : Nat, values : Values, at : 0 .. MaxMinutes, by : Creations, seen : Nat]

NewListingTypeOK ==
  /\ form \in [Forms -> {"closed", "open", "sending", "photos"}]
  /\ creation \in [Creations -> Creation]
  /\ listed \subseteq ListedRow
  /\ minute \in 0 .. MaxMinutes

NoCreation == [pc |-> "idle", values |-> Blank, for |-> "nobody", seen |-> 0]

NewListingInit ==
  /\ form = [f \in Forms |-> "closed"]
  /\ creation = [h \in Creations |-> NoCreation]
  /\ listed = {} /\ minute = 0

CreationGoto(h, pc) == creation' = [creation EXCEPT ![h].pc = pc]

----
OpenForm(f) ==
  /\ form[f] = "closed"
  /\ form' = [form EXCEPT ![f] = "open"]
  /\ UNCHANGED <<creation, listed, minute>>

(* handleSubmit: isSubmitting disables the button until onCreate returns.  *)
Submit(f, h, values) ==
  /\ form[f] = "open" /\ creation[h].pc = "idle"
  /\ form' = [form EXCEPT ![f] = "sending"]
  /\ creation' = [creation EXCEPT
       ![h] = [pc |-> "find", values |-> values, for |-> f, seen |-> 0]]
  /\ UNCHANGED <<listed, minute>>

(* Mutant of IsDuplicate: the last minute of the window is left out.       *)
IsDuplicateStrict(row, values) ==
  /\ row.values.same = values.same
  /\ row.at + DUPLICATE_CREATE_WINDOW > minute

(* createListing: a row of the dealer with the same seven columns, created *)
(* within the window, is the answer; ...                                   *)
IsDuplicate(row, values) ==
  /\ row.values.same = values.same
  /\ row.at + DUPLICATE_CREATE_WINDOW >= minute

FindRecentDuplicate(h) ==
  /\ creation[h].pc = "find"
  /\ creation' = [creation EXCEPT
       ![h].pc = IF \E old \in listed : IsDuplicate(old, creation[h].values) THEN "answer" ELSE "create",
       ![h].seen = Cardinality(listed)]
  /\ UNCHANGED <<form, listed, minute>>

(* ... otherwise the index is built and the row saved.                     *)
CreateRow(h) ==
  /\ creation[h].pc = "create"
  /\ Cardinality(listed) < MaxListed
  /\ listed' = listed \cup {[id |-> Cardinality(listed) + 1, values |-> creation[h].values,
                             at |-> minute, by |-> h, seen |-> creation[h].seen]}
  /\ CreationGoto(h, "answer")
  /\ UNCHANGED <<form, minute>>

CreationFails(h) ==
  /\ creation[h].pc \in {"find", "create"}
  /\ CreationGoto(h, "error")
  /\ UNCHANGED <<form, listed, minute>>

(* The answer reaches the form, if it still waits: an error leaves it open,*)
(* a listing goes on to its photos.                                        *)
ToForm(h, state) ==
  IF creation[h].for # "nobody" THEN [form EXCEPT ![creation[h].for] = state] ELSE form

Answer(h) ==
  /\ \/ creation[h].pc = "answer" /\ form' = ToForm(h, "photos")
     \/ creation[h].pc = "error"  /\ form' = ToForm(h, "open")
  /\ creation' = [creation EXCEPT ![h] = NoCreation]
  /\ UNCHANGED <<listed, minute>>

(* isNoResponseError: the page goes back to the list; the service goes on. *)
NoResponse(f) ==
  /\ form[f] = "sending"
  /\ form' = [form EXCEPT ![f] = "closed"]
  /\ creation' = [h \in Creations |->
       IF creation[h].for = f THEN [creation[h] EXCEPT !.for = "nobody"] ELSE creation[h]]
  /\ UNCHANGED <<listed, minute>>

(* The photos are uploaded, or are not: back to the list either way.       *)
UploadPhotos(f) ==
  /\ form[f] = "photos"
  /\ form' = [form EXCEPT ![f] = "closed"]
  /\ UNCHANGED <<creation, listed, minute>>

Minute ==
  /\ minute < MaxMinutes
  /\ minute' = minute + 1
  /\ UNCHANGED <<form, creation, listed>>

NewListingNext ==
  \/ \E f \in Forms :
       \/ OpenForm(f) \/ NoResponse(f) \/ UploadPhotos(f)
       \/ \E h \in Creations, values \in Values : Submit(f, h, values)
  \/ \E h \in Creations : FindRecentDuplicate(h) \/ CreateRow(h) \/ CreationFails(h) \/ Answer(h)
  \/ Minute

NewListingSpec == NewListingInit /\ [][NewListingNext]_newListingVars

----
(* Two rows of one vehicle, the second within the window of the first.     *)
Twins(a, b) ==
  a.id < b.id /\ a.values.same = b.values.same /\ b.at <= a.at + DUPLICATE_CREATE_WINDOW

(* "a client that timed out and resubmitted must not end up with two       *)
(* identical listings": it may, when the second request looks while the    *)
(* first has not saved its row yet.                                        *)
NoTwins == \A a, b \in listed : ~Twins(a, b)

(* What the guard does guarantee, however requests time out, come again and*)
(* overlap: a twin's handler had looked before the earlier row was there,  *)
(* and is another one; so that a vehicle has at most as many rows within a *)
(* window as there were requests under way at once.                        *)
SubmissionsAreOne ==
  /\ \A a, b \in listed : Twins(a, b) => b.seen < a.id /\ b.by # a.by
  /\ \A a \in listed : Cardinality({b \in listed : b = a \/ Twins(a, b)}) <= Cardinality(Creations)

(* "Identical resubmissions inside this window are treated as one listing":*)
(* a request that is answered with success has listed what its form says.  *)
(* The guard compares seven columns only, so that a second vehicle of the  *)
(* same kind is taken for the first and never listed.                      *)
CreatedIsListed ==
  \A h \in Creations :
    creation[h].pc = "answer" => \E row \in listed : row.values = creation[h].values

----
(***************************************************************************)
(* The specs of a listing: which of the columns of a vehicle are stored,   *)
(* by the enrich stage of a bulk upload (enrich.stage.ts) and by the       *)
(* dealer's form (ListingForm, listing-form.specs.ts), which is also where *)
(* a stored listing is edited. The two decide separately which columns fit *)
(* a vehicle type, and an edit goes from stored specs to fields and back,  *)
(* with the type changed on the way or not.                                *)
(*                                                                         *)
(*   listing  the stored type and specs, and whether the review note says  *)
(*            that a value was ignored                                     *)
(*   row      the row the listing was loaded from, until it is edited      *)
(*   form     the open form: its type and its fields                       *)
(*   said     history variable: what the dealer last said about each key   *)
(*                                                                         *)
(* A cell or a field is blank, "no" (a flag that is off), "yes" (a flag    *)
(* that is on, a number in range, a word of the vocabulary) or "odd" (a    *)
(* number out of range, a word that is not in the vocabulary).             *)
(***************************************************************************)

CONSTANTS
  VehicleTypes,    \* the vehicle types considered
  Columns,         \* the columns considered
  MAX_DYNAMIC_SPEC_KEYS,     \* 20 in the code
  MaxFilled,       \* bound on the cells of a row that are not blank
  MaxSaves         \* bound on saves

ASSUME SpecsAssumption ==
  /\ MaxFilled \in Nat /\ MaxSaves \in Nat /\ MAX_DYNAMIC_SPEC_KEYS \in Nat
  /\ "none" \notin VehicleTypes       \* no vehicle type yet

VARIABLES listing, row, specForm, said, saves

specVars == <<listing, row, specForm, said, saves>>

CAR_SUV_TYPES == {"CAR", "SUV"}
BIKE_TYPES == {"BIKE"}
VAN_BUS_TYPES == {"VAN", "BUS"}
TRUCK_TYPES == {"TRUCK", "LORRY", "PICKUP"}
NO_COMFORT_EQUIPMENT_TYPES == {"BIKE", "THREE_WHEELER"}

COMFORT_EQUIPMENT_KEYS ==
  {"sunroof", "full_option", "reverse_camera", "leather_seats", "power_steering",
   "air_conditioning"}

(* The columns that describe one category of vehicle only.                 *)
CATEGORY_COLUMNS ==
  {[types |-> CAR_SUV_TYPES, columns |-> {"seats", "doors", "airbags", "drive_type"}],
   [types |-> BIKE_TYPES, columns |-> {"stroke_type", "cooling_system", "start_type",
                                       "abs_equipped", "abs"}],
   [types |-> VAN_BUS_TYPES, columns |-> {"seating_capacity", "roof_type", "wheelbase",
                                          "door_configuration"}],
   [types |-> TRUCK_TYPES, columns |-> {"load_capacity_kg", "payload_capacity_kg",
                                        "axle_count", "cargo_bed_type"}]}

(* BOOL_SPECS and BIKE_BOOL_SPECS: a flag has a main column, read first,   *)
(* and other names.                                                        *)
OtherName(column) ==
  CASE column = "moonroof" -> "sunroof"
    [] column = "alloys"   -> "alloy_wheels"
    [] column = "abs"      -> "abs_equipped"
    [] OTHER               -> column

Flags == COMFORT_EQUIPMENT_KEYS \cup {"alloy_wheels", "abs_equipped"}
SpecKeys == {OtherName(c) : c \in Columns}
Managed == Flags \cup {"body_type"} \cup UNION {g.columns : g \in CATEGORY_COLUMNS}

BlankRow == [c \in Columns |-> "blank"]
Cells == UNION {[filled -> {"no", "yes", "odd"}] :
                  filled \in {s \in SUBSET Columns : Cardinality(s) <= MaxFilled}}
Rows  == {[c \in Columns |-> IF c \in DOMAIN cells THEN cells[c] ELSE "blank"] :
            cells \in {x \in Cells : \A c \in DOMAIN x : x[c] = "no" => OtherName(c) \in Flags}}
Specs == [SpecKeys -> {"absent", "no", "yes"}]
Fields == [SpecKeys -> {"blank", "yes", "odd"}]

NoFields == [k \in SpecKeys |-> "blank"]
Closed == [open |-> FALSE, type |-> "none", fields |-> NoFields]
Unlisted == [type |-> "none", specs |-> [k \in SpecKeys |-> "absent"], noted |-> FALSE]

SpecsTypeOK ==
  /\ listing \in [type : VehicleTypes \cup {"none"}, specs : Specs, noted : BOOLEAN]
  /\ row \in Rows
  /\ specForm \in [open : BOOLEAN, type : VehicleTypes \cup {"none"}, fields : Fields]
  /\ said \in Fields /\ saves \in 0 .. MaxSaves

SpecsInit ==
  /\ listing = Unlisted /\ row = BlankRow /\ specForm = Closed
  /\ said = NoFields /\ saves = 0

----
(* The enrich stage: the columns that fit the type.                        *)
Fits(type, column) ==
  /\ \A g \in CATEGORY_COLUMNS : column \in g.columns => type \in g.types
  /\ ~(type \in NO_COMFORT_EQUIPMENT_TYPES /\ OtherName(column) \in COMFORT_EQUIPMENT_KEYS)

(* What a key is read from: its main column, or else another name of it.   *)
(* A flag that is off is stored; a number out of range is dropped.         *)
ReadSpec(r, key) ==
  LET readable(c) == r[c] \in {"yes", "no"}
      main == {c \in Columns : c = key /\ readable(c)}
      other == {c \in Columns : OtherName(c) = key /\ readable(c)}
  IN CASE main # {}  -> r[key]
       [] other # {} -> r[CHOOSE c \in other : TRUE]
       [] OTHER      -> "absent"

(* addDynamicSpecs: of the filled columns that nothing else reads, the     *)
(* first ones of the file, up to the cap.                                  *)
DynamicColumns(r) == {c \in Columns : OtherName(c) \notin Managed /\ r[c] # "blank"}

Carried(r) ==
  {kept \in SUBSET DynamicColumns(r) :
     \/ kept = DynamicColumns(r) /\ Cardinality(kept) <= MAX_DYNAMIC_SPEC_KEYS
     \/ kept # DynamicColumns(r) /\ Cardinality(kept) = MAX_DYNAMIC_SPEC_KEYS}

BuildRowSpecs(type, r, carried) ==
  [k \in SpecKeys |-> CASE k \in Managed /\ Fits(type, k) -> ReadSpec(r, k)
                       [] k \in carried                 -> "yes"
                       [] OTHER                          -> "absent"]

(* Columns that are filled in and do not fit: a flag that is off is true   *)
(* of the vehicle all the same, and a comfort flag counts only when it is  *)
(* on.                                                                     *)
InapplicableColumns(type, r) ==
  {c \in Columns : ~Fits(type, c) /\ r[c] \in
     IF OtherName(c) \in COMFORT_EQUIPMENT_KEYS THEN {"yes"} ELSE {"yes", "odd"}}

Enrich(type, r) ==
  /\ listing.type = "none" /\ ~specForm.open
  /\ row' = r
  /\ \E carried \in Carried(r) :
       /\ listing' = [type |-> type, specs |-> BuildRowSpecs(type, r, carried),
                      noted |-> InapplicableColumns(type, r) # {}]
       /\ said' = [k \in SpecKeys |->
            IF k \in carried \/ (k \in Managed /\ Fits(type, k) /\ ReadSpec(r, k) = "yes")
            THEN "yes" ELSE "blank"]
  /\ UNCHANGED <<specForm, saves>>

----
(* The form: the pre-filled fields, what a change of type clears (an effect*)
(* that also runs when the form opens), the specs that are sent.           *)
equipmentAvailable(type, key) ==
  ~(type \in NO_COMFORT_EQUIPMENT_TYPES /\ key \in COMFORT_EQUIPMENT_KEYS)

Offers(type, key) ==
  /\ key \in Managed
  /\ key \in Flags \ {"abs_equipped"} => equipmentAvailable(type, key)
  /\ \A g \in CATEGORY_COLUMNS : key \in g.columns => type \in g.types

(* Mutant of Prefill: a flag that is stored as off is shown as it is.      *)
PrefillAsStored(specs) ==
  [k \in SpecKeys |-> IF k \in Managed /\ specs[k] # "absent" THEN specs[k] ELSE "blank"]

Prefill(specs) == [k \in SpecKeys |-> IF k \in Managed /\ specs[k] = "yes" THEN "yes" ELSE "blank"]

Cleared(type, fields) ==
  [k \in SpecKeys |-> IF k \in Managed /\ ~Offers(type, k) THEN "blank" ELSE fields[k]]

OpenEdit ==
  /\ listing.type # "none" /\ ~specForm.open
  /\ specForm' = [open |-> TRUE, type |-> listing.type,
              fields |-> Cleared(listing.type, Prefill(listing.specs))]
  /\ UNCHANGED <<listing, row, said, saves>>

OpenNew ==
  /\ listing.type = "none" /\ ~specForm.open
  /\ specForm' = [open |-> TRUE, type |-> "none", fields |-> NoFields]
  /\ UNCHANGED <<listing, row, said, saves>>

ChangeType(type) ==
  /\ specForm.open /\ type # specForm.type
  /\ specForm' = [specForm EXCEPT !.type = type, !.fields = Cleared(type, @)]
  /\ said' = [k \in SpecKeys |-> IF k \in Managed /\ ~Fits(type, k) THEN "blank" ELSE said[k]]
  /\ UNCHANGED <<listing, row, saves>>

Fill(key, value) ==
  /\ specForm.open /\ specForm.type # "none" /\ Offers(specForm.type, key)
  /\ value = "odd" => key \notin Flags
  /\ specForm' = [specForm EXCEPT !.fields[key] = value]
  /\ said' = [said EXCEPT ![key] = value]
  /\ UNCHANGED <<listing, row, saves>>

BuildSpecs(type, fields, extras) ==
  [k \in SpecKeys |-> IF k \notin Managed THEN extras[k]
                  ELSE IF Offers(type, k) /\ fields[k] = "yes" THEN "yes" ELSE "absent"]

SaveForm ==
  /\ specForm.open /\ specForm.type # "none" /\ saves < MaxSaves
  /\ \A k \in SpecKeys : specForm.fields[k] # "odd"
  /\ listing' = [listing EXCEPT !.type = specForm.type,
                                !.specs = BuildSpecs(specForm.type, specForm.fields, @)]
  /\ specForm' = Closed /\ row' = BlankRow /\ saves' = saves + 1
  /\ UNCHANGED said

(* Leaving the form: what was typed is gone.                               *)
CancelForm ==
  /\ specForm.open
  /\ specForm' = Closed
  /\ said' = [k \in SpecKeys |-> IF listing.specs[k] = "yes" THEN "yes" ELSE "blank"]
  /\ UNCHANGED <<listing, row, saves>>

SpecsNext ==
  \/ \E type \in VehicleTypes : ChangeType(type) \/ \E r \in Rows : Enrich(type, r)
  \/ OpenEdit \/ OpenNew \/ SaveForm \/ CancelForm
  \/ \E key \in SpecKeys, value \in {"blank", "yes", "odd"} : Fill(key, value)

SpecsSpec == SpecsInit /\ [][SpecsNext]_specVars

----
(* What is stored fits the vehicle type, however the listing got it.       *)
SpecsFitType ==
  \A k \in SpecKeys : listing.specs[k] # "absent" => Fits(listing.type, k)

(* What is stored is what the dealer last said, by row or by form: an edit *)
(* loses nothing that it does not change, a change of type and back brings *)
(* nothing back, and the form stores a value exactly when the enrich stage *)
(* would.                                                                  *)
SpecsAreAsSaid ==
  ~specForm.open => \A k \in SpecKeys : listing.specs[k] = "yes" <=> said[k] = "yes"

(* A value of a row that is not stored is contradicted by another column of*)
(* its key, or the dealer is told in the review note; the exceptions are   *)
(* the values the enrich stage drops without a word: those out of range,   *)
(* and those of columns nobody reads when as many are kept as the cap says.*)
DroppedIsNoted ==
  ~specForm.open => \A c \in Columns :
    row[c] = "yes" /\ listing.specs[OtherName(c)] # "yes" =>
      \/ listing.noted \/ \E d \in Columns : OtherName(d) = OtherName(c) /\ row[d] = "no"
      \/ /\ OtherName(c) \notin Managed
         /\ Cardinality({k \in SpecKeys \ Managed : listing.specs[k] = "yes"}) = MAX_DYNAMIC_SPEC_KEYS

(* A field that stops the form from being saved can be seen.               *)
ErrorsAreVisible ==
  specForm.open => \A k \in SpecKeys : specForm.fields[k] = "odd" => Offers(specForm.type, k)

(* The specs of a listing are right on every way through upload, form,     *)
(* change of type and edit (the four parts above).                         *)
SpecsAreRight == SpecsFitType /\ SpecsAreAsSaid /\ DroppedIsNoted /\ ErrorsAreVisible
====
