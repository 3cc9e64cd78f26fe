---- MODULE UploadLifecycle ----
(***************************************************************************)
(* What the ingestion-service promises the dealer about one upload job,    *)
(* whichever executor works on it and however often:                       *)
(*   - rows that have landed, and rejections, are never taken back;        *)
(*   - COMPLETED is said only when every row of the file has landed, and   *)
(*     never of a file that could not be read;                             *)
(*   - PARTIAL is said only when something has landed.                     *)
(* FAILED is not constrained: the program writes it over anything.         *)
(***************************************************************************)
CONSTANT Rows

VARIABLES
  status,     \* of the job row
  inventory,  \* rows of the dealer's file
  sound,      \* the file can be read as an inventory
  landed,     \* rows whose vehicle is listed
  refused     \* rows with a rejection

vars == <<status, inventory, sound, landed, refused>>

Init ==
  /\ status = "NONE"
  /\ inventory \in SUBSET Rows
  /\ sound \in BOOLEAN
  /\ landed = {}
  /\ refused = {}

Accept ==
  /\ status = "NONE"
  /\ status' = "PENDING"
  /\ UNCHANGED <<inventory, sound, landed, refused>>

TakeUp ==
  /\ status # "NONE"
  /\ status' = "PROCESSING"
  /\ UNCHANGED <<inventory, sound, landed, refused>>

Work ==
  /\ status # "NONE"
  /\ landed \subseteq landed'
  /\ refused \subseteq refused'
  /\ UNCHANGED <<status, inventory, sound>>

Complete ==
  /\ sound
  /\ inventory \subseteq landed
  /\ status' = "COMPLETED"

Part ==
  /\ landed # {}
  /\ status' = "PARTIAL"

Fail == status' = "FAILED"

Conclude ==
  /\ status # "NONE"
  /\ Complete \/ Part \/ Fail
  /\ UNCHANGED <<inventory, sound, landed, refused>>

Next == Accept \/ TakeUp \/ Work \/ Conclude

Spec == Init /\ [][Next]_vars
====
