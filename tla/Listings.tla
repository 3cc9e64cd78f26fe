---- MODULE Listings ----
(***************************************************************************)
(* marketplace-service: the listings of one dealer. Every request reads the*)
(* row, may wait for the embedding model, and saves the whole entity;      *)
(* requests interleave at every await.                                     *)
(*                                                                         *)
(*   vehicle   rows of marketplace.vehicles by id, NoVehicle where there is*)
(*             none. details stands for SEARCHABLE_FIELDS, searchText and  *)
(*             embedding for what they were built from; uploaded when the  *)
(*             row came with a file (upload_job_id)                        *)
(*   request   where each handler stands, with the entity it has loaded    *)
(*   raced     history variable: ids that two requests have worked on at   *)
(*             once                                                        *)
(*   seen      history variable: by id, the statuses the row had since no  *)
(*             request was under way on it                                 *)
(***************************************************************************)
EXTENDS Naturals, FiniteSets

CONSTANTS
  Ids,             \* ids that rows may get
  Details,         \* what a form may say
  Requests,        \* handlers that may be under way at once
  NoVehicle, NoId

VARIABLES vehicle, request, raced, seen

listingVars == <<vehicle, request, raced, seen>>

VehicleStatus == {"DRAFT", "PENDING_REVIEW", "LIVE", "SOLD", "ARCHIVED", "REJECTED"}

DELETABLE_STATUSES == {"DRAFT", "PENDING_REVIEW", "REJECTED"}

Vehicle == [status : VehicleStatus, details : Details, searchText : Details,
            embedding : Details \cup {"null", "unread"}, uploaded : BOOLEAN]

ASSUME ListingsAssumption ==
  /\ NoId \notin Ids /\ NoVehicle \notin Vehicle
  /\ Details # {} /\ {"null", "unread"} \cap Details = {}

Exists(id) == vehicle[id] # NoVehicle

Operation == {"update", "updateRest", "deactivate", "approve", "unarchive",
              "delete"}

Request == [pc : {"idle", "read", "index", "save", "delete"},
            op : Operation, id : Ids \cup {NoId}, details : Details,
            entity : Vehicle \cup {NoVehicle}]

IdleRequest == [pc |-> "idle", op |-> "update", id |-> NoId,
                details |-> CHOOSE d \in Details : TRUE, entity |-> NoVehicle]

ListingsTypeOK ==
  /\ vehicle \in [Ids -> Vehicle \cup {NoVehicle}]
  /\ request \in [Requests -> Request]
  /\ raced \subseteq Ids
  /\ seen \in [Ids -> SUBSET (VehicleStatus \cup {"absent"})]
  /\ \A id \in Ids : Exists(id) => vehicle[id].embedding # "unread"
  /\ \A r \in Requests : request[r].pc \in {"index", "save"} => request[r].entity # NoVehicle

ListingsInit ==
  /\ vehicle = [id \in Ids |-> NoVehicle]
  /\ request = [r \in Requests |-> IdleRequest]
  /\ raced = {}
  /\ seen = [id \in Ids |-> {}]

RequestAt(r, pc) == request[r].pc = pc
RequestEnds(r)   == request' = [request EXCEPT ![r] = IdleRequest]

OnListing(id) == {r \in Requests : request[r].id = id}

(* An id is given once.                                                    *)
Fresh(id) == ~Exists(id) /\ OnListing(id) = {} /\ id \notin raced

(* ListingSearchIndexService.build: without the model there is only text.  *)
Embeddings(details) == {details, "null"}

----
(* createListing of a new listing: published unless it is a draft. (How a  *)
(* form comes to create one is in ListingForm.)                            *)
CreateListing(id, details) ==
  /\ Fresh(id)
  /\ \E status \in {"LIVE", "DRAFT"}, embedding \in Embeddings(details) :
       vehicle' = [vehicle EXCEPT ![id] =
         [status |-> status, details |-> details, searchText |-> details,
          embedding |-> embedding, uploaded |-> FALSE]]
  /\ UNCHANGED <<request, raced>>

(* A row that comes with a file waits for review.                          *)
IngestionLoads(id, details) ==
  /\ Fresh(id)
  /\ vehicle' = [vehicle EXCEPT ![id] =
       [status |-> "PENDING_REVIEW", details |-> details, searchText |-> details,
        embedding |-> details, uploaded |-> TRUE]]
  /\ UNCHANGED <<request, raced>>

(* A LOAD that runs again writes over the row it left, by upload and       *)
(* registration (ON CONFLICT DO UPDATE): its columns and their index, not  *)
(* its status.                                                             *)
IngestionReloads(id, details) ==
  /\ Exists(id) /\ vehicle[id].uploaded
  /\ vehicle' = [vehicle EXCEPT ![id] =
       [@ EXCEPT !.details = details, !.searchText = details, !.embedding = details]]
  /\ raced' = IF OnListing(id) # {} THEN raced \cup {id} ELSE raced
  /\ UNCHANGED request

----
(* Mutant of StatusAllows: only deletions are checked.                     *)
ChecksNothing(op, status) == op = "delete" => status \in DELETABLE_STATUSES

(* The other operations find the row and check its status, ...             *)
StatusAllows(op, status) ==
  /\ op = "approve"   => status = "PENDING_REVIEW"
  /\ op = "unarchive" => status = "ARCHIVED"
  /\ op = "delete"    => status \in DELETABLE_STATUSES

FindListing(r, op, id, details) ==
  /\ RequestAt(r, "idle")
  /\ Exists(id) /\ StatusAllows(op, vehicle[id].status)
  /\ request' = [request EXCEPT ![r] =
       [pc |-> IF op = "delete" THEN "delete" ELSE "read", op |-> op, id |-> id,
        details |-> details, entity |-> NoVehicle]]
  /\ raced' = IF OnListing(id) # {} THEN raced \cup {id} ELSE raced
  /\ UNCHANGED vehicle

(* ... and the repository reads it again, without its embedding (select:   *)
(* false), checks it again and changes the entity.                         *)
Edited(r, row) ==
  LET entity == [row EXCEPT !.embedding = "unread"] IN
  CASE request[r].op = "update"                   -> [entity EXCEPT !.details = request[r].details]
    [] request[r].op = "updateRest"               -> entity
    [] request[r].op = "deactivate"               -> [entity EXCEPT !.status = "ARCHIVED"]
    [] request[r].op \in {"approve", "unarchive"} -> [entity EXCEPT !.status = "LIVE"]

LoadListing(r) ==
  LET row == vehicle[request[r].id] IN
  /\ RequestAt(r, "read")
  /\ IF row = NoVehicle THEN RequestEnds(r)
     ELSE IF ~StatusAllows(request[r].op, row.status) THEN RequestEnds(r)
     ELSE request' = [request EXCEPT
            ![r].pc = IF request[r].op = "update" THEN "index" ELSE "save",
            ![r].entity = Edited(r, row)]
  /\ UNCHANGED <<vehicle, raced>>

(* Mutant of BuildIndex: the embedding that was there stays.               *)
BuildText(r) ==
  /\ RequestAt(r, "index")
  /\ request' = [request EXCEPT ![r].pc = "save",
       ![r].entity.searchText = request[r].entity.details]
  /\ UNCHANGED <<vehicle, raced>>

(* A searchable field in the form: text and embedding are built anew.      *)
BuildIndex(r) ==
  /\ RequestAt(r, "index")
  /\ \E embedding \in Embeddings(request[r].entity.details) :
       request' = [request EXCEPT ![r].pc = "save",
         ![r].entity = [request[r].entity EXCEPT
           !.searchText = request[r].entity.details, !.embedding = embedding]]
  /\ UNCHANGED <<vehicle, raced>>

(* Mutant of Saved: the column that was not read is written as well.       *)
SavedWhole(entity, row) == entity

(* save writes every column that differs from the table by now, also those *)
(* another request has changed since, but no column that was not read; a   *)
(* row that has been deleted since is inserted anew.                       *)
Saved(entity, row) ==
  IF entity.embedding # "unread" THEN entity
  ELSE [entity EXCEPT !.embedding = IF row = NoVehicle THEN "null" ELSE row.embedding]

SaveListing(r) ==
  /\ RequestAt(r, "save")
  /\ vehicle' = [vehicle EXCEPT ![request[r].id] = Saved(request[r].entity, @)]
  /\ RequestEnds(r)
  /\ UNCHANGED raced

RemoveListing(r) ==
  /\ RequestAt(r, "delete")
  /\ vehicle' = [vehicle EXCEPT ![request[r].id] = NoVehicle]
  /\ RequestEnds(r)
  /\ UNCHANGED raced

(* approveAllPending, approveSelected: one statement over what is pending. *)
ApprovePending(ids) ==
  /\ \E id \in ids : Exists(id) /\ vehicle[id].status = "PENDING_REVIEW"
  /\ vehicle' = [id \in Ids |->
       IF id \in ids /\ Exists(id) /\ vehicle[id].status = "PENDING_REVIEW"
       THEN [vehicle[id] EXCEPT !.status = "LIVE"] ELSE vehicle[id]]
  /\ raced' = raced \cup {id \in ids : OnListing(id) # {}}
  /\ UNCHANGED request

ListingsStep ==
  \/ \E r \in Requests :
       \/ \E id \in Ids, op \in Operation, details \in Details : FindListing(r, op, id, details)
       \/ LoadListing(r) \/ BuildIndex(r) \/ SaveListing(r) \/ RemoveListing(r)
  \/ \E id \in Ids, details \in Details :
       CreateListing(id, details) \/ IngestionLoads(id, details) \/ IngestionReloads(id, details)
  \/ \E ids \in SUBSET Ids : ApprovePending(ids)

StatusOf(id) == IF Exists(id) THEN vehicle[id].status ELSE "absent"

(* What is seen of a listing while requests are under way on it.           *)
Witness ==
  seen' = [id \in Ids |->
    IF OnListing(id)' = {} THEN {} ELSE seen[id] \cup {StatusOf(id)'}]

ListingsNext == ListingsStep /\ Witness

ListingsSpec == ListingsInit /\ [][ListingsNext]_listingVars

----
(* The words a listing is found by are those of its own columns, whatever  *)
(* requests race and whichever stale entity is saved last. (search_text is *)
(* saved with the columns it was built from.)                              *)
SearchTextIsOwn == \A id \in Ids : Exists(id) => vehicle[id].searchText = vehicle[id].details

(* The embedding is not read back with the entity, so that a stale save    *)
(* brings back old columns and leaves the new embedding: it agrees with the*)
(* columns, or is missing, as long as no two requests raced.               *)
EmbeddingIsOwn ==
  \A id \in Ids \ raced :
    Exists(id) => vehicle[id].embedding \in Embeddings(vehicle[id].details)

(* A listing is found by what it says (the two above).                     *)
IndexIsOwn == SearchTextIsOwn /\ EmbeddingIsOwn

(* What may become of a listing. Only approval publishes what waits for    *)
(* review, only unarchive what was archived, and what is on sale or sold is*)
(* never deleted.                                                          *)
Lifecycle ==
  {<<s, s>> : s \in VehicleStatus \cup {"absent"}}
    \cup {<<"absent", s>> : s \in {"LIVE", "DRAFT", "PENDING_REVIEW"}}
    \cup {<<"PENDING_REVIEW", "LIVE">>, <<"ARCHIVED", "LIVE">>}
    \cup {<<s, "ARCHIVED">> : s \in VehicleStatus}
    \cup {<<s, "absent">> : s \in DELETABLE_STATUSES}

(* A save brings back the status its request read, and a delete that found *)
(* a draft removes what has been published since: so a status comes, by the*)
(* lifecycle, from the one there was or, while requests are under way on   *)
(* the listing, from one it had since the first of them came; from nothing *)
(* older, and from nothing it never was. Until two requests have raced on  *)
(* it, it follows the lifecycle step by step.                              *)
StatusFollowsLifecycle ==
  [][\A id \in Ids :
       /\ \E s \in seen[id] \cup {StatusOf(id)} : <<s, StatusOf(id)'>> \in Lifecycle
       /\ id \notin raced' => <<StatusOf(id), StatusOf(id)'>> \in Lifecycle]_listingVars
====
