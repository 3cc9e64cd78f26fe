---- MODULE MarketplaceProofs ----
(***************************************************************************)
(* Proofs about the marketplace: its listings (Listings), the review of a  *)
(* dealer (DealerReview), the search from words to facets (QueryParser,    *)
(* NaturalSearch, SearchOptions), and what they are for in the run of      *)
(* MCMarketplace; for every set of ids, forms, handlers and administrators,*)
(* texts of any length, any stock and any page size.                       *)
(*                                                                         *)
(* Listings: ListingsTyped; IndexIsFresh; LifecycleIsKept. While an id is  *)
(* not raced at most one request works on it (Alone), and what that        *)
(* request has read is still so (Undisturbed); raced or not, what it is    *)
(* about to make of the status was allowed when it was read (SeenInv).     *)
(*                                                                         *)
(* DealerReview: DealerTyped; DecisionsAreSound. The books balance: a      *)
(* decision that was counted was recorded in the trail, or one             *)
(* administrator is still on the way to record it (ReviewInv).             *)
(*                                                                         *)
(* QueryParser: ParserTyped; ParsesAreSound. Every stage is a walk over    *)
(* the words that keeps what is understood (Sound, WalkKeeps); that a walk *)
(* does so at each word is followed from word to word (WalkIsARow,         *)
(* Onwards).                                                               *)
(*                                                                         *)
(* NaturalSearch: SearchTyped; SearchesAreHonest. The price gives way when *)
(* nothing else is left to (SearchInv, NoneWithin).                        *)
(*                                                                         *)
(* SearchOptions: OptionsTyped; OptionsRecent. Each row that is loaded,    *)
(* kept or served was so since its load began (ReadSince, OptionsInv).     *)
(*                                                                         *)
(* Its facets: FacetsTyped; FacetsPredictChoices. What was read of a       *)
(* search is what its filters ask for, while no vehicle came or went       *)
(* (FacetInv).                                                             *)
(*                                                                         *)
(* The sum: MarketplaceIndexIsFresh, MarketplaceLifecycles,                *)
(* MarketplaceSearch, MarketplaceChoices.                                  *)
(***************************************************************************)
EXTENDS MCMarketplace, FiniteSetTheorems, SequenceTheorems, WellFoundedInduction, TLAPS

(* A request that is under way has its listing; what it is about to save   *)
(* has an index of its own columns.                                        *)
RequestSound(state) ==
  /\ state.pc = "idle" <=> state.id = NoId
  /\ state.pc = "read" => state.op # "delete"
  /\ state.pc \in {"index", "save"} => state.entity \in Vehicle
  /\ state.pc = "save" => state.entity.searchText = state.entity.details

(* What a request on a row of its own may rely on.                         *)
Undisturbed(state, row) ==
  /\ state.pc \in {"index", "save"} =>
       row # NoVehicle /\ <<row.status, state.entity.status>> \in Lifecycle
  /\ state.pc = "save" =>
       IF state.entity.embedding = "unread" THEN state.entity.details = row.details
       ELSE state.entity.embedding \in Embeddings(state.entity.details)
  /\ state.pc = "delete" => row # NoVehicle /\ row.status \in DELETABLE_STATUSES

(* A row's index.                                                          *)
TextOwn(row)  == row # NoVehicle => row.searchText = row.details
EmbeddingOwn(row) == row # NoVehicle => row.embedding \in Embeddings(row.details)

Alone(id) == \A q, r \in OnListing(id) : q = r

ListingsInv ==
  /\ \A r \in Requests : RequestSound(request[r])
  /\ \A id \in Ids : TextOwn(vehicle[id])
  /\ \A id \in Ids \ raced :
       /\ Alone(id) /\ EmbeddingOwn(vehicle[id])
       /\ \A r \in OnListing(id) : Undisturbed(request[r], vehicle[id])

VehiclesTyped ==
  /\ vehicle \in [Ids -> Vehicle \cup {NoVehicle}]
  /\ request \in [Requests -> Request]
  /\ raced \subseteq Ids
  /\ \A id \in Ids : Exists(id) => vehicle[id].embedding # "unread"

SoundListings == VehiclesTyped /\ ListingsInv

----
LEMMA IdleIsSound == IdleRequest \in Request /\ RequestSound(IdleRequest)
BY ListingsAssumption
DEF ListingsAssumption, IdleRequest, Request, RequestSound, Operation

LEMMA InvInit == ListingsInit => SoundListings
<1>. SUFFICES ASSUME ListingsInit PROVE SoundListings
  OBVIOUS
<1>1. \A id \in Ids : OnListing(id) = {}
  BY ListingsAssumption DEF ListingsInit, OnListing, IdleRequest, ListingsAssumption
<1>2. \A id \in Ids : vehicle[id] = NoVehicle
  BY DEF ListingsInit
<1>. QED
  BY <1>1, <1>2, IdleIsSound
  DEF ListingsInit, SoundListings, VehiclesTyped, ListingsInv, Exists, TextOwn, EmbeddingOwn, Alone

(* A step of one request that leaves the rows.                             *)
LEMMA RequestMoves ==
  ASSUME SoundListings, NEW r \in Requests, NEW state \in Request,
         request' = [request EXCEPT ![r] = state], UNCHANGED vehicle,
         raced \subseteq raced', raced' \subseteq Ids,
         RequestSound(state),
         state.id # NoId /\ state.id \notin raced' =>
           /\ \A q \in OnListing(state.id) : q = r
           /\ Undisturbed(state, vehicle[state.id])
  PROVE  SoundListings'
<1>1. /\ request'[r] = state /\ \A q \in Requests : q # r => request'[q] = request[q]
      /\ request' \in [Requests -> Request]
  BY DEF SoundListings, VehiclesTyped
<1>2. VehiclesTyped'
  BY <1>1 DEF SoundListings, VehiclesTyped, Exists
<1>3. \A q \in Requests : RequestSound(request'[q])
  BY <1>1 DEF SoundListings, ListingsInv
<1>4. ASSUME NEW id \in Ids \ raced'
      PROVE  /\ \A p, q \in Requests : request'[p].id = id /\ request'[q].id = id => p = q
             /\ \A q \in Requests : request'[q].id = id => Undisturbed(request'[q], vehicle[id])
             /\ EmbeddingOwn(vehicle[id])
  <2>1. /\ \A p, q \in OnListing(id) : p = q
        /\ \A q \in OnListing(id) : Undisturbed(request[q], vehicle[id])
        /\ EmbeddingOwn(vehicle[id])
    BY DEF SoundListings, ListingsInv, Alone
  <2>2. id # NoId
    BY ListingsAssumption DEF ListingsAssumption
  <2>3. CASE state.id = id
    <3>1. \A q \in Requests : request'[q].id = id => q = r
      BY <1>1, <2>2, <2>3 DEF OnListing
    <3>. QED
      BY <1>1, <2>1, <2>2, <2>3, <3>1
  <2>4. CASE state.id # id
    <3>1. \A q \in Requests : request'[q].id = id => q \in OnListing(id) /\ request'[q] = request[q]
      BY <1>1, <2>4 DEF OnListing
    <3>. QED
      BY <2>1, <3>1
  <2>. QED
    BY <2>3, <2>4
<1>5. \A id \in Ids : TextOwn(vehicle[id])
  BY DEF SoundListings, ListingsInv
<1>. QED
  BY <1>2, <1>3, <1>4, <1>5 DEF SoundListings, ListingsInv, Alone, OnListing

(* One row is written, and nobody on it goes on unless it is raced.        *)
LEMMA RowChanges ==
  ASSUME SoundListings, NEW id \in Ids, NEW row \in Vehicle \cup {NoVehicle},
         vehicle' = [vehicle EXCEPT ![id] = row],
         raced \subseteq raced', raced' \subseteq Ids,
         request' \in [Requests -> Request],
         \A q \in Requests : request'[q] \in {request[q], IdleRequest},
         row # NoVehicle => row.embedding # "unread",
         TextOwn(row), id \notin raced' => EmbeddingOwn(row),
         id \notin raced' => \A q \in Requests : request'[q].id # id
  PROVE  SoundListings'
<1>1. /\ vehicle'[id] = row /\ \A j \in Ids : j # id => vehicle'[j] = vehicle[j]
      /\ vehicle' \in [Ids -> Vehicle \cup {NoVehicle}]
  BY DEF SoundListings, VehiclesTyped
<1>2. VehiclesTyped'
  BY <1>1 DEF SoundListings, VehiclesTyped, Exists
<1>3. \A q \in Requests : RequestSound(request'[q])
  BY IdleIsSound DEF SoundListings, ListingsInv
<1>4. \A j \in Ids : TextOwn(vehicle'[j])
  BY <1>1 DEF SoundListings, ListingsInv
<1>5. ASSUME NEW j \in Ids \ raced'
      PROVE  /\ \A p, q \in Requests : request'[p].id = j /\ request'[q].id = j => p = q
             /\ \A q \in Requests : request'[q].id = j => Undisturbed(request'[q], vehicle'[j])
             /\ EmbeddingOwn(vehicle'[j])
  <2>1. CASE j = id
    BY <1>1, <2>1
  <2>2. CASE j # id
    <3>1. \A q \in Requests : request'[q].id = j => q \in OnListing(j) /\ request'[q] = request[q]
      BY ListingsAssumption DEF OnListing, IdleRequest, ListingsAssumption
    <3>. QED
      BY <1>1, <2>2, <3>1 DEF SoundListings, ListingsInv, Alone
  <2>. QED
    BY <2>1, <2>2
<1>. QED
  BY <1>2, <1>3, <1>4, <1>5 DEF SoundListings, ListingsInv, Alone, OnListing

----
(* What each operation makes of the row it loaded.                         *)
LEMMA EditedRow ==
  ASSUME SoundListings, NEW r \in Requests, NEW row \in Vehicle,
         StatusAllows(request[r].op, row.status), request[r].op # "delete"
  PROVE  LET entity == Edited(r, row) IN
         /\ entity \in Vehicle /\ entity.embedding = "unread"
         /\ <<row.status, entity.status>> \in Lifecycle
         /\ entity.searchText = row.searchText
         /\ request[r].op # "update" => entity.details = row.details
<1> DEFINE op == request[r].op
           unread == [row EXCEPT !.embedding = "unread"]
<1>1. op \in Operation /\ request[r].details \in Details
  BY DEF SoundListings, VehiclesTyped, Request
<1>2. /\ unread \in Vehicle /\ unread.status = row.status /\ unread.details = row.details
      /\ unread.searchText = row.searchText /\ unread.embedding = "unread"
  BY DEF Vehicle
<1>3. Edited(r, row) =
        CASE op = "update" -> [unread EXCEPT !.details = request[r].details]
          [] op = "updateRest" -> unread
          [] op = "deactivate" -> [unread EXCEPT !.status = "ARCHIVED"]
          [] op \in {"approve", "unarchive"} -> [unread EXCEPT !.status = "LIVE"]
  BY DEF Edited
<1>s. row.status \in VehicleStatus
  BY DEF Vehicle
<1>. HIDE DEF unread
<1>4. CASE op = "update"
  <2>1. Edited(r, row) = [unread EXCEPT !.details = request[r].details]
    BY <1>3, <1>4
  <2>. QED
    BY <1>1, <1>2, <1>s, <1>4, <2>1 DEF Vehicle, Lifecycle
<1>5. CASE op = "updateRest"
  <2>1. Edited(r, row) = unread
    BY <1>3, <1>5
  <2>. QED
    BY <1>2, <1>s, <2>1 DEF Lifecycle
<1>6. CASE op = "deactivate"
  <2>1. Edited(r, row) = [unread EXCEPT !.status = "ARCHIVED"]
    BY <1>3, <1>6
  <2>. QED
    BY <1>2, <1>s, <2>1 DEF Vehicle, VehicleStatus, Lifecycle
<1>7. CASE op \in {"approve", "unarchive"}
  <2>1. Edited(r, row) = [unread EXCEPT !.status = "LIVE"]
    BY <1>3, <1>7
  <2>2. row.status \in {"PENDING_REVIEW", "ARCHIVED"}
    BY <1>7 DEF StatusAllows
  <2>. QED
    BY <1>2, <2>1, <2>2 DEF Vehicle, VehicleStatus, Lifecycle
<1>. QED
  BY <1>1, <1>4, <1>5, <1>6, <1>7 DEF Operation

LEMMA FindKeeps ==
  ASSUME SoundListings, NEW r \in Requests, NEW id \in Ids, NEW op \in Operation, NEW details \in Details,
         FindListing(r, op, id, details)
  PROVE  SoundListings'
<1> DEFINE pc == IF op = "delete" THEN "delete" ELSE "read"
           state == [pc |-> pc, op |-> op, id |-> id, details |-> details, entity |-> NoVehicle]
<1>1. /\ state \in Request /\ state.id = id /\ state.pc = pc
      /\ pc \in {"read", "delete"} /\ (pc = "read" => state.op # "delete")
  BY DEF Request
<1>2. request' = [request EXCEPT ![r] = state] /\ UNCHANGED vehicle
  BY DEF FindListing
<1>3. /\ raced' = IF OnListing(id) # {} THEN raced \cup {id} ELSE raced
      /\ raced \subseteq raced' /\ raced' \subseteq Ids
  BY DEF FindListing, SoundListings, VehiclesTyped
<1>4. id \notin raced' => OnListing(id) = {}
  BY <1>3
<1>5. pc = "delete" => vehicle[id] # NoVehicle /\ vehicle[id].status \in DELETABLE_STATUSES
  BY DEF FindListing, StatusAllows, Exists
<1>6. id # NoId
  BY ListingsAssumption DEF ListingsAssumption
<1>. HIDE DEF state, pc
<1>7. RequestSound(state) /\ Undisturbed(state, vehicle[id])
  BY <1>1, <1>5, <1>6 DEF RequestSound, Undisturbed
<1>. QED
  BY <1>1, <1>2, <1>3, <1>4, <1>7, RequestMoves

(* A request ends.                                                         *)
LEMMA EndKeeps ==
  ASSUME SoundListings, NEW r \in Requests, RequestEnds(r), UNCHANGED <<vehicle, raced>>
  PROVE  SoundListings'
<1>1. IdleRequest.id = NoId
  BY DEF IdleRequest
<1>. QED
  BY <1>1, IdleIsSound, RequestMoves DEF RequestEnds, SoundListings, VehiclesTyped

LEMMA LoadKeeps ==
  ASSUME SoundListings, NEW r \in Requests, LoadListing(r)
  PROVE  SoundListings'
<1> DEFINE id == request[r].id
           row == vehicle[id]
           pc == IF request[r].op = "update" THEN "index" ELSE "save"
           entity == Edited(r, row)
           state == [request[r] EXCEPT !.pc = pc, !.entity = entity]
<1>0. /\ request[r] \in Request /\ request[r].pc = "read" /\ UNCHANGED <<vehicle, raced>>
      /\ id \in Ids /\ id # NoId
  BY ListingsAssumption
  DEF LoadListing, RequestAt, SoundListings, VehiclesTyped, ListingsInv, RequestSound, Request, ListingsAssumption
<1>1. CASE RequestEnds(r)
  BY <1>0, <1>1, EndKeeps
<1>2. CASE /\ row # NoVehicle /\ StatusAllows(request[r].op, row.status)
           /\ request' = [request EXCEPT ![r] = state]
  <2>1. row \in Vehicle /\ TextOwn(row)
    BY <1>0, <1>2 DEF SoundListings, VehiclesTyped, ListingsInv
  <2>2. request[r].op # "delete"
    BY <1>0 DEF SoundListings, ListingsInv, RequestSound
  <2>3. /\ entity \in Vehicle /\ entity.embedding = "unread"
        /\ <<row.status, entity.status>> \in Lifecycle
        /\ entity.searchText = row.searchText
        /\ request[r].op # "update" => entity.details = row.details
    BY <1>2, <2>1, <2>2, EditedRow
  <2>. HIDE DEF entity
  <2>4. /\ state \in Request /\ state.pc = pc /\ state.entity = entity /\ state.id = id
        /\ pc \in {"index", "save"} /\ (pc = "save" => request[r].op # "update")
    BY <1>0, <2>3 DEF Request
  <2>. HIDE DEF state, pc, row
  <2>5. RequestSound(state) /\ Undisturbed(state, row)
    BY <1>0, <1>2, <2>1, <2>3, <2>4 DEF RequestSound, Undisturbed, TextOwn
  <2>6. id \notin raced => \A q \in OnListing(id) : q = r
    BY <1>0 DEF SoundListings, ListingsInv, Alone, OnListing
  <2>7. raced \subseteq raced' /\ raced' \subseteq Ids /\ UNCHANGED vehicle
    BY <1>0 DEF SoundListings, VehiclesTyped
  <2>. QED
    BY <1>0, <1>2, <2>4, <2>5, <2>6, <2>7, RequestMoves DEF row
<1>. QED
  BY <1>1, <1>2 DEF LoadListing

LEMMA BuildKeeps ==
  ASSUME SoundListings, NEW r \in Requests, BuildIndex(r)
  PROVE  SoundListings'
<1> DEFINE id == request[r].id
           entity == request[r].entity
<1>0. /\ request[r] \in Request /\ request[r].pc = "index" /\ UNCHANGED <<vehicle, raced>>
      /\ id \in Ids /\ id # NoId /\ entity \in Vehicle
  BY ListingsAssumption
  DEF BuildIndex, RequestAt, SoundListings, VehiclesTyped, ListingsInv, RequestSound, Request, ListingsAssumption
<1>1. PICK embedding \in Embeddings(entity.details) :
        request' = [request EXCEPT ![r] =
          [request[r] EXCEPT !.pc = "save",
             !.entity = [entity EXCEPT !.searchText = entity.details, !.embedding = embedding]]]
  BY <1>0 DEF BuildIndex
<1> DEFINE built == [entity EXCEPT !.searchText = entity.details, !.embedding = embedding]
           state == [request[r] EXCEPT !.pc = "save", !.entity = built]
<1>2. /\ built \in Vehicle /\ built.searchText = built.details /\ built.status = entity.status
      /\ built.embedding = embedding /\ built.details = entity.details
      /\ embedding # "unread"
  <2>1. entity.details \in Details /\ entity.details # "unread" /\ embedding # "unread"
    BY <1>0, <1>1, ListingsAssumption DEF Embeddings, Vehicle, ListingsAssumption
  <2>. QED
    BY <1>0, <1>1, <2>1 DEF Embeddings, Vehicle
<1>. HIDE DEF built
<1>3. state \in Request /\ state.pc = "save" /\ state.entity = built /\ state.id = id
  BY <1>0, <1>2 DEF Request
<1>4. id \notin raced =>
        /\ \A q \in OnListing(id) : q = r
        /\ vehicle[id] # NoVehicle /\ <<vehicle[id].status, entity.status>> \in Lifecycle
  BY <1>0 DEF SoundListings, ListingsInv, Alone, OnListing, Undisturbed
<1>5. request' = [request EXCEPT ![r] = state]
  BY <1>1 DEF built
<1>. HIDE DEF state
<1>6. RequestSound(state) /\ (id \notin raced => Undisturbed(state, vehicle[id]))
  BY <1>0, <1>1, <1>2, <1>3, <1>4 DEF RequestSound, Undisturbed
<1>7. raced \subseteq raced' /\ raced' \subseteq Ids /\ UNCHANGED vehicle
  BY <1>0 DEF SoundListings, VehiclesTyped
<1>. QED
  BY <1>0, <1>3, <1>4, <1>5, <1>6, <1>7, RequestMoves

(* What a save leaves in the table.                                        *)
LEMMA SavedRow ==
  ASSUME SoundListings, NEW r \in Requests, request[r].pc = "save"
  PROVE  LET id  == request[r].id
             row == Saved(request[r].entity, vehicle[id]) IN
         /\ id \in Ids /\ row \in Vehicle /\ row.embedding # "unread" /\ TextOwn(row)
         /\ row.status = request[r].entity.status
         /\ id \notin raced =>
              /\ EmbeddingOwn(row) /\ vehicle[id] # NoVehicle
              /\ <<vehicle[id].status, row.status>> \in Lifecycle
<1> DEFINE id == request[r].id
           entity == request[r].entity
           kept == IF vehicle[id] = NoVehicle THEN "null" ELSE vehicle[id].embedding
<1>0. /\ id \in Ids /\ entity \in Vehicle /\ entity.searchText = entity.details
      /\ vehicle[id] # NoVehicle => vehicle[id] \in Vehicle /\ vehicle[id].embedding # "unread"
  BY ListingsAssumption
  DEF SoundListings, VehiclesTyped, Exists, ListingsInv, RequestSound, Request, ListingsAssumption
<1>1. id \notin raced =>
        /\ vehicle[id] # NoVehicle /\ <<vehicle[id].status, entity.status>> \in Lifecycle
        /\ IF entity.embedding = "unread" THEN entity.details = vehicle[id].details
           ELSE entity.embedding \in Embeddings(entity.details)
        /\ vehicle[id].embedding \in Embeddings(vehicle[id].details)
  BY <1>0 DEF SoundListings, ListingsInv, Undisturbed, OnListing, EmbeddingOwn
<1>2. CASE entity.embedding # "unread"
  <2>1. Saved(entity, vehicle[id]) = entity
    BY <1>2 DEF Saved
  <2>. QED
    BY <1>0, <1>1, <1>2, <2>1 DEF TextOwn, EmbeddingOwn
<1>3. CASE entity.embedding = "unread"
  <2> DEFINE row == [entity EXCEPT !.embedding = kept]
  <2>1. Saved(entity, vehicle[id]) = row
    BY <1>3 DEF Saved
  <2>2. kept \in Details \cup {"null", "unread"} /\ kept # "unread"
    BY <1>0 DEF Vehicle
  <2>. HIDE DEF kept
  <2>3. /\ row \in Vehicle /\ row.embedding = kept /\ row.status = entity.status
        /\ row.details = entity.details /\ row.searchText = entity.searchText
    BY <1>0, <2>2 DEF Vehicle
  <2>. HIDE DEF row
  <2>4. id \notin raced => kept \in Embeddings(row.details)
    BY <1>1, <1>3, <2>3 DEF kept
  <2>. QED
    BY <1>0, <1>1, <2>1, <2>2, <2>3, <2>4 DEF TextOwn, EmbeddingOwn
<1>. QED
  BY <1>2, <1>3

(* A request that ends is nobody's any more.                               *)
LEMMA EndTyped ==
  ASSUME SoundListings, NEW r \in Requests, RequestEnds(r), request[r].pc # "idle"
  PROVE  /\ request' \in [Requests -> Request]
         /\ \A q \in Requests : request'[q] \in {request[q], IdleRequest}
         /\ request[r].id \in Ids
         /\ request[r].id \notin raced => \A q \in Requests : request'[q].id # request[r].id
<1>1. /\ request'[r] = IdleRequest /\ \A q \in Requests : q # r => request'[q] = request[q]
      /\ request' \in [Requests -> Request]
  BY IdleIsSound DEF SoundListings, VehiclesTyped, RequestEnds
<1>2. request[r].id \in Ids /\ request[r].id # NoId /\ IdleRequest.id = NoId
  BY ListingsAssumption
  DEF SoundListings, VehiclesTyped, ListingsInv, RequestSound, Request, IdleRequest, ListingsAssumption
<1>3. request[r].id \notin raced => \A q \in OnListing(request[r].id) : q = r
  BY <1>2 DEF SoundListings, ListingsInv, Alone, OnListing
<1>. QED
  BY <1>1, <1>2, <1>3 DEF OnListing

LEMMA SaveKeeps ==
  ASSUME SoundListings, NEW r \in Requests, SaveListing(r)
  PROVE  SoundListings'
<1> DEFINE id  == request[r].id
           row == Saved(request[r].entity, vehicle[id])
<1>0. request[r].pc = "save" /\ RequestEnds(r) /\ raced' = raced /\ raced' \subseteq Ids
  BY DEF SaveListing, RequestAt, SoundListings, VehiclesTyped
<1>1. /\ id \in Ids /\ row \in Vehicle /\ row.embedding # "unread" /\ TextOwn(row)
      /\ id \notin raced => EmbeddingOwn(row)
  BY <1>0, SavedRow
<1>2. vehicle' = [vehicle EXCEPT ![id] = row]
  BY DEF SaveListing
<1>3. /\ request' \in [Requests -> Request]
      /\ \A q \in Requests : request'[q] \in {request[q], IdleRequest}
      /\ id \notin raced => \A q \in Requests : request'[q].id # id
  BY <1>0, EndTyped
<1>. HIDE DEF row, id
<1>. QED
  BY <1>0, <1>1, <1>2, <1>3, RowChanges

LEMMA RemoveKeeps ==
  ASSUME SoundListings, NEW r \in Requests, RemoveListing(r)
  PROVE  SoundListings'
<1> DEFINE id  == request[r].id
<1>0. request[r].pc = "delete" /\ RequestEnds(r) /\ raced' = raced /\ raced' \subseteq Ids
  BY DEF RemoveListing, RequestAt, SoundListings, VehiclesTyped
<1>1. /\ request' \in [Requests -> Request] /\ id \in Ids
      /\ \A q \in Requests : request'[q] \in {request[q], IdleRequest}
      /\ id \notin raced => \A q \in Requests : request'[q].id # id
  BY <1>0, EndTyped
<1>2. vehicle' = [vehicle EXCEPT ![id] = NoVehicle]
  BY DEF RemoveListing
<1>3. TextOwn(NoVehicle) /\ EmbeddingOwn(NoVehicle)
  BY DEF TextOwn, EmbeddingOwn
<1>. HIDE DEF id
<1>. QED
  BY <1>0, <1>1, <1>2, <1>3, RowChanges

(* A new row.                                                              *)
LEMMA NewKeeps ==
  ASSUME SoundListings, NEW id \in Ids, NEW details \in Details,
         CreateListing(id, details) \/ IngestionLoads(id, details)
  PROVE  SoundListings'
<1>1. PICK status \in VehicleStatus, embedding \in Embeddings(details), uploaded \in BOOLEAN :
        vehicle' = [vehicle EXCEPT ![id] =
          [status |-> status, details |-> details, searchText |-> details,
           embedding |-> embedding, uploaded |-> uploaded]]
  BY DEF CreateListing, IngestionLoads, VehicleStatus, Embeddings
<1> DEFINE row == [status |-> status, details |-> details, searchText |-> details,
                   embedding |-> embedding, uploaded |-> uploaded]
<1>2. row \in Vehicle /\ row.embedding # "unread" /\ TextOwn(row) /\ EmbeddingOwn(row)
  BY <1>1, ListingsAssumption
  DEF Embeddings, Vehicle, TextOwn, EmbeddingOwn, ListingsAssumption
<1>3. request' = request /\ raced' = raced /\ raced' \subseteq Ids /\ OnListing(id) = {}
  BY DEF CreateListing, IngestionLoads, Fresh, SoundListings, VehiclesTyped
<1>4. \A q \in Requests : request'[q].id # id
  BY <1>3 DEF OnListing
<1>5. request' \in [Requests -> Request]
  BY <1>3 DEF SoundListings, VehiclesTyped
<1>. HIDE DEF row
<1>. QED
  BY <1>1, <1>2, <1>3, <1>4, <1>5, RowChanges DEF row

(* A row that a LOAD writes over.                                          *)
ReloadedRow(row, details) ==
  [row EXCEPT !.details = details, !.searchText = details, !.embedding = details]

LEMMA ReloadKeeps ==
  ASSUME SoundListings, NEW id \in Ids, NEW details \in Details, IngestionReloads(id, details)
  PROVE  /\ SoundListings'
         /\ vehicle[id] \in Vehicle /\ vehicle'[id] \in Vehicle
         /\ vehicle'[id].status = vehicle[id].status
         /\ \A j \in Ids : j # id => vehicle'[j] = vehicle[j]
<1> DEFINE row == ReloadedRow(vehicle[id], details)
<1>1. vehicle[id] \in Vehicle /\ vehicle' = [vehicle EXCEPT ![id] = row]
  BY DEF IngestionReloads, Exists, SoundListings, VehiclesTyped, ReloadedRow
<1>2. /\ row \in Vehicle /\ row.details = details /\ row.searchText = details
      /\ row.embedding = details /\ row.status = vehicle[id].status
  BY <1>1 DEF Vehicle, ReloadedRow
<1>. HIDE DEF row
<1>3. row.embedding # "unread" /\ TextOwn(row) /\ EmbeddingOwn(row)
  BY <1>2, ListingsAssumption DEF TextOwn, EmbeddingOwn, Embeddings, ListingsAssumption
<1>4. /\ request' = request /\ raced \subseteq raced' /\ raced' \subseteq Ids
      /\ id \notin raced' => OnListing(id) = {}
  BY DEF IngestionReloads, SoundListings, VehiclesTyped
<1>5. id \notin raced' => \A q \in Requests : request'[q].id # id
  BY <1>4 DEF OnListing
<1>6. request' \in [Requests -> Request]
  BY <1>4 DEF SoundListings, VehiclesTyped
<1>7. SoundListings'
  BY <1>1, <1>2, <1>3, <1>4, <1>5, <1>6, RowChanges
<1>. QED
  BY <1>1, <1>2, <1>7 DEF SoundListings, VehiclesTyped

(* One statement over what is pending: details and index stay.             *)
LEMMA ApproveKeeps ==
  ASSUME SoundListings, NEW ids \in SUBSET Ids, ApprovePending(ids)
  PROVE  SoundListings'
<1>1. /\ request' = request
      /\ raced' = raced \cup {id \in ids : OnListing(id) # {}}
  BY DEF ApprovePending
<1>2. ASSUME NEW id \in Ids
      PROVE  /\ vehicle'[id] \in Vehicle \cup {NoVehicle}
             /\ vehicle'[id] = NoVehicle <=> vehicle[id] = NoVehicle
             /\ vehicle[id] # NoVehicle =>
                  /\ vehicle'[id].details = vehicle[id].details
                  /\ vehicle'[id].searchText = vehicle[id].searchText
                  /\ vehicle'[id].embedding = vehicle[id].embedding
             /\ id \notin ids => vehicle'[id] = vehicle[id]
  <2>1. vehicle[id] \in Vehicle \cup {NoVehicle}
    BY DEF SoundListings, VehiclesTyped
  <2>2. CASE id \in ids /\ Exists(id) /\ vehicle[id].status = "PENDING_REVIEW"
    <3> DEFINE row == [vehicle[id] EXCEPT !.status = "LIVE"]
    <3>1. vehicle'[id] = row
      BY <2>2 DEF ApprovePending
    <3>2. /\ row \in Vehicle /\ row.details = vehicle[id].details
          /\ row.searchText = vehicle[id].searchText /\ row.embedding = vehicle[id].embedding
      BY <2>1, <2>2 DEF Vehicle, VehicleStatus, Exists
    <3>3. row # NoVehicle
      BY <3>2, ListingsAssumption DEF ListingsAssumption
    <3>. QED
      BY <2>2, <3>1, <3>2, <3>3 DEF Exists
  <2>3. CASE ~(id \in ids /\ Exists(id) /\ vehicle[id].status = "PENDING_REVIEW")
    <3>1. vehicle'[id] = vehicle[id]
      BY <2>3 DEF ApprovePending
    <3>. QED
      BY <2>1, <3>1
  <2>. QED
    BY <2>2, <2>3
<1>3. vehicle' \in [Ids -> Vehicle \cup {NoVehicle}]
  <2>1. \E f : vehicle' = [id \in Ids |-> f[id]]
    <3>1. vehicle' = [id \in Ids |-> vehicle'[id]]
      BY DEF ApprovePending
    <3>. QED
      BY <3>1
  <2>. QED
    BY <1>2, <2>1
<1>4. VehiclesTyped'
  BY <1>1, <1>2, <1>3 DEF SoundListings, VehiclesTyped, Exists
<1>5. \A id \in Ids : TextOwn(vehicle'[id])
  BY <1>2 DEF SoundListings, ListingsInv, TextOwn
<1>6. ASSUME NEW id \in Ids \ raced'
      PROVE  /\ \A p, q \in Requests : request[p].id = id /\ request[q].id = id => p = q
             /\ \A q \in Requests : request[q].id = id => Undisturbed(request[q], vehicle'[id])
             /\ EmbeddingOwn(vehicle'[id])
  <2>1. /\ id \notin raced /\ (id \in ids => OnListing(id) = {})
    BY <1>1
  <2>2. /\ \A p, q \in OnListing(id) : p = q
        /\ \A q \in OnListing(id) : Undisturbed(request[q], vehicle[id])
        /\ EmbeddingOwn(vehicle[id])
    BY <2>1 DEF SoundListings, ListingsInv, Alone
  <2>3. EmbeddingOwn(vehicle'[id])
    BY <1>2, <2>2 DEF EmbeddingOwn
  <2>. QED
    BY <1>2, <2>1, <2>2, <2>3 DEF OnListing
<1>7. \A q \in Requests : RequestSound(request'[q])
  BY <1>1 DEF SoundListings, ListingsInv
<1>. QED
  BY <1>1, <1>4, <1>5, <1>6, <1>7 DEF SoundListings, ListingsInv, Alone, OnListing

LEMMA InvStep == SoundListings /\ [ListingsNext]_listingVars => SoundListings'
<1> SUFFICES ASSUME SoundListings, [ListingsNext]_listingVars PROVE SoundListings'
  OBVIOUS
<1>1. ASSUME NEW r \in Requests, NEW id \in Ids, NEW op \in Operation, NEW details \in Details,
             FindListing(r, op, id, details)
      PROVE  SoundListings'
  BY <1>1, FindKeeps
<1>2. ASSUME NEW r \in Requests,
             LoadListing(r) \/ BuildIndex(r) \/ SaveListing(r) \/ RemoveListing(r)
      PROVE  SoundListings'
  BY <1>2, LoadKeeps, BuildKeeps, SaveKeeps, RemoveKeeps
<1>3. ASSUME NEW id \in Ids, NEW details \in Details,
             CreateListing(id, details) \/ IngestionLoads(id, details)
      PROVE  SoundListings'
  BY <1>3, NewKeeps
<1>4. ASSUME NEW ids \in SUBSET Ids, ApprovePending(ids) PROVE SoundListings'
  BY <1>4, ApproveKeeps
<1>6. ASSUME NEW id \in Ids, NEW details \in Details, IngestionReloads(id, details)
      PROVE  SoundListings'
  BY <1>6, ReloadKeeps
<1>5. ASSUME UNCHANGED listingVars PROVE SoundListings'
  BY <1>5 DEF listingVars, SoundListings, VehiclesTyped, ListingsInv, Alone, OnListing, Exists
<1>. QED
  BY <1>1, <1>2, <1>3, <1>4, <1>5, <1>6 DEF ListingsNext, ListingsStep

----
(* What was seen of a listing while requests are under way on it.          *)

AnyStatus == VehicleStatus \cup {"absent"}

RequestSeen(state) ==
  state.id # NoId =>
    /\ StatusOf(state.id) \in seen[state.id]
    /\ state.pc \in {"index", "save"} =>
         \E s \in seen[state.id] : <<s, state.entity.status>> \in Lifecycle
    /\ state.pc = "delete" => \E s \in seen[state.id] : s \in DELETABLE_STATUSES

SeenInv ==
  /\ seen \in [Ids -> SUBSET AnyStatus]
  /\ \A r \in Requests : RequestSeen(request[r])

(* Where requests are under way, everything seen is remembered.            *)
LEMMA SeenGrows ==
  ASSUME Witness, NEW r \in Requests, NEW id \in Ids, request'[r].id = id
  PROVE  seen[id] \subseteq seen'[id] /\ StatusOf(id)' \in seen'[id]
BY DEF Witness, OnListing

(* A request that goes on does so from the row that is there, or with what *)
(* it had before.                                                          *)
LEMMA RequestGoes ==
  ASSUME SoundListings, ListingsStep, NEW r \in Requests, request'[r] # request[r],
         request'[r].id # NoId
  PROVE  /\ request'[r].id \in Ids /\ UNCHANGED vehicle
         /\ request'[r].pc = "delete" => StatusOf(request'[r].id) \in DELETABLE_STATUSES
         /\ request'[r].pc \in {"index", "save"} =>
              \/ <<StatusOf(request'[r].id), request'[r].entity.status>> \in Lifecycle
              \/ /\ request[r].id = request'[r].id /\ request[r].pc = "index"
                 /\ request'[r].entity.status = request[r].entity.status
<1>0. /\ request \in [Requests -> Request] /\ \A q \in Requests : RequestSound(request[q])
      /\ IdleRequest.id = NoId /\ request[r] \in Request
  BY DEF SoundListings, VehiclesTyped, ListingsInv, IdleRequest
<1>e. ASSUME NEW q \in Requests, RequestEnds(q) PROVE FALSE
  <2>1. q = r
    BY <1>0, <1>e DEF RequestEnds
  <2>. QED
    BY <1>0, <1>e, <2>1 DEF RequestEnds
<1>1. ASSUME NEW q \in Requests, NEW id \in Ids, NEW op \in Operation, NEW details \in Details,
             FindListing(q, op, id, details)
      PROVE  /\ request'[r].id = id /\ UNCHANGED vehicle /\ request'[r].pc \in {"read", "delete"}
             /\ request'[r].pc = "delete" => StatusOf(id) \in DELETABLE_STATUSES
  <2>1. q = r
    BY <1>0, <1>1 DEF FindListing
  <2>2. /\ request'[r].id = id /\ UNCHANGED vehicle
        /\ request'[r].pc = IF op = "delete" THEN "delete" ELSE "read"
    BY <1>0, <1>1, <2>1 DEF FindListing
  <2>. QED
    BY <1>1, <2>2 DEF FindListing, StatusAllows, StatusOf
<1>2. ASSUME NEW q \in Requests, LoadListing(q)
      PROVE  /\ request'[r].id = request[r].id /\ request[r].id \in Ids /\ UNCHANGED vehicle
             /\ request'[r].pc # "delete"
             /\ <<StatusOf(request[r].id), request'[r].entity.status>> \in Lifecycle
  <2> DEFINE row == vehicle[request[r].id]
  <2>1. q = r /\ ~RequestEnds(r)
    BY <1>0, <1>2, <1>e DEF LoadListing
  <2>2. /\ row # NoVehicle /\ StatusAllows(request[r].op, row.status)
        /\ request[r].pc = "read" /\ UNCHANGED vehicle
        /\ request' = [request EXCEPT
             ![r].pc = IF request[r].op = "update" THEN "index" ELSE "save",
             ![r].entity = Edited(r, row)]
    BY <1>2, <2>1 DEF LoadListing, RequestAt
  <2>3. request[r].id \in Ids /\ request[r].op # "delete"
    BY <1>0, <2>2 DEF RequestSound, Request
  <2>4. row \in Vehicle
    BY <2>2, <2>3 DEF SoundListings, VehiclesTyped
  <2>5. <<row.status, Edited(r, row).status>> \in Lifecycle
    BY <2>2, <2>3, <2>4, EditedRow
  <2>6. /\ request'[r].id = request[r].id /\ request'[r].entity = Edited(r, row)
        /\ request'[r].pc \in {"index", "save"}
    BY <1>0, <2>2 DEF Request
  <2>. QED
    BY <2>2, <2>3, <2>5, <2>6 DEF StatusOf, Exists
<1>3. ASSUME NEW q \in Requests, BuildIndex(q)
      PROVE  /\ request'[r].id = request[r].id /\ request[r].id \in Ids /\ UNCHANGED vehicle
             /\ request'[r].pc = "save" /\ request[r].pc = "index"
             /\ request'[r].entity.status = request[r].entity.status
  <2>1. q = r
    BY <1>0, <1>3 DEF BuildIndex
  <2>2. request[r].pc = "index" /\ UNCHANGED vehicle /\ request[r].entity \in Vehicle
    BY <1>0, <1>3, <2>1 DEF BuildIndex, RequestAt, RequestSound
  <2>3. PICK embedding :
          request' = [request EXCEPT ![r].pc = "save",
            ![r].entity = [request[r].entity EXCEPT
              !.searchText = request[r].entity.details, !.embedding = embedding]]
    BY <1>3, <2>1 DEF BuildIndex
  <2>4. /\ request'[r].id = request[r].id /\ request'[r].pc = "save"
        /\ request'[r].entity = [request[r].entity EXCEPT
              !.searchText = request[r].entity.details, !.embedding = embedding]
    BY <1>0, <2>3 DEF Request
  <2>5. request'[r].entity.status = request[r].entity.status
    BY <2>2, <2>4 DEF Vehicle
  <2>6. request[r].id \in Ids
    BY <1>0, <2>2 DEF RequestSound, Request
  <2>. QED
    BY <2>2, <2>4, <2>5, <2>6
<1>4. ASSUME NEW q \in Requests, SaveListing(q) \/ RemoveListing(q) PROVE FALSE
  BY <1>4, <1>e DEF SaveListing, RemoveListing
<1>5. CASE UNCHANGED request
  BY <1>5
<1>6. \/ \E q \in Requests, id \in Ids, op \in Operation, details \in Details : FindListing(q, op, id, details)
      \/ \E q \in Requests : LoadListing(q) \/ BuildIndex(q)
  BY <1>4, <1>5 DEF ListingsStep, CreateListing, IngestionLoads, IngestionReloads, ApprovePending
<1>7. CASE \E q \in Requests, id \in Ids, op \in Operation, details \in Details : FindListing(q, op, id, details)
  BY <1>1, <1>7
<1>8. CASE \E q \in Requests : LoadListing(q)
  BY <1>2, <1>8
<1>9. CASE \E q \in Requests : BuildIndex(q)
  BY <1>3, <1>9
<1>. QED
  BY <1>6, <1>7, <1>8, <1>9

LEMMA SeenStep ==
  ASSUME SoundListings, SoundListings', SeenInv, ListingsStep, Witness
  PROVE  SeenInv'
<1>1. seen' \in [Ids -> SUBSET AnyStatus]
  <2>1. \A id \in Ids : StatusOf(id)' \in AnyStatus
    BY DEF SoundListings, VehiclesTyped, StatusOf, Exists, Vehicle, AnyStatus
  <2>. QED
    BY <2>1 DEF SeenInv, Witness
<1>2. ASSUME NEW r \in Requests, NEW id \in Ids, request'[r].id = id
      PROVE  /\ StatusOf(id)' \in seen'[id]
             /\ request'[r].pc \in {"index", "save"} =>
                  \E s \in seen'[id] : <<s, request'[r].entity.status>> \in Lifecycle
             /\ request'[r].pc = "delete" => \E s \in seen'[id] : s \in DELETABLE_STATUSES
  <2>1. id # NoId
    BY ListingsAssumption DEF ListingsAssumption
  <2>2. seen[id] \subseteq seen'[id] /\ StatusOf(id)' \in seen'[id]
    BY <1>2, SeenGrows
  <2>3. RequestSeen(request[r])
    BY DEF SeenInv
  <2>4. CASE request'[r] = request[r]
    BY <1>2, <2>1, <2>2, <2>3, <2>4 DEF RequestSeen
  <2>5. CASE request'[r] # request[r]
    <3>1. /\ UNCHANGED vehicle
          /\ request'[r].pc = "delete" => StatusOf(id) \in DELETABLE_STATUSES
          /\ request'[r].pc \in {"index", "save"} =>
               \/ <<StatusOf(id), request'[r].entity.status>> \in Lifecycle
               \/ /\ request[r].id = id /\ request[r].pc = "index"
                  /\ request'[r].entity.status = request[r].entity.status
      BY <1>2, <2>1, <2>5, RequestGoes
    <3>2. StatusOf(id)' = StatusOf(id)
      BY <3>1 DEF StatusOf, Exists
    <3>. QED
      BY <1>2, <2>1, <2>2, <2>3, <3>1, <3>2 DEF RequestSeen
  <2>. QED
    BY <2>4, <2>5
<1>3. \A r \in Requests : request'[r].id # NoId => request'[r].id \in Ids
  BY DEF SoundListings, VehiclesTyped, Request
<1>. QED
  BY <1>1, <1>2, <1>3 DEF SeenInv, RequestSeen

LEMMA SeenInit == ListingsInit => SeenInv
BY ListingsAssumption DEF ListingsInit, SeenInv, RequestSeen, IdleRequest, ListingsAssumption

LEMMA SeenKept == SoundListings /\ SeenInv /\ [ListingsNext]_listingVars => SeenInv'
<1> SUFFICES ASSUME SoundListings, SeenInv, [ListingsNext]_listingVars PROVE SeenInv'
  OBVIOUS
<1>1. CASE UNCHANGED listingVars
  BY <1>1 DEF listingVars, SeenInv, RequestSeen, StatusOf, Exists
<1>2. CASE ListingsNext
  BY <1>2, InvStep, SeenStep DEF ListingsNext
<1>. QED
  BY <1>1, <1>2

----
(* Listings and requests keep their shapes, and what a request is about to *)
(* save is there.                                                          *)
THEOREM ListingsTyped == ListingsSpec => []ListingsTypeOK
<1>1. SoundListings /\ SeenInv => ListingsTypeOK
  <2>1. SoundListings => \A r \in Requests :
          request[r].pc \in {"index", "save"} => request[r].entity # NoVehicle
    BY ListingsAssumption DEF SoundListings, ListingsInv, RequestSound, ListingsAssumption
  <2>. QED
    BY <2>1 DEF SoundListings, SeenInv, AnyStatus, VehiclesTyped, ListingsTypeOK
<1>. QED
  BY <1>1, InvInit, InvStep, SeenInit, SeenKept, PTL DEF ListingsSpec

(* Whichever requests create, edit, publish and delete, a listing is found *)
(* by what it says (listing.repository.ts, listing-search-index.service).  *)
THEOREM IndexIsFresh == ListingsSpec => []IndexIsOwn
<1>1. SoundListings => IndexIsOwn
  BY DEF SoundListings, ListingsInv, TextOwn, EmbeddingOwn, IndexIsOwn, SearchTextIsOwn, EmbeddingIsOwn, Exists
<1>. QED
  BY <1>1, InvInit, InvStep, PTL DEF ListingsSpec

(* A step that is not the end of a request on a listing changes its status *)
(* as Lifecycle says.                                                      *)
EndsOn(id) == \E r \in Requests : request[r].id = id /\ (SaveListing(r) \/ RemoveListing(r))

LEMMA StepFollowsLifecycle ==
  ASSUME SoundListings, [ListingsNext]_listingVars, NEW id \in Ids, ~EndsOn(id)
  PROVE  <<StatusOf(id), StatusOf(id)'>> \in Lifecycle
<1>t. vehicle[id] \in Vehicle \cup {NoVehicle}
  BY DEF SoundListings, VehiclesTyped
<1>s. StatusOf(id) \in VehicleStatus \cup {"absent"}
  BY <1>t DEF StatusOf, Exists, Vehicle
<1>q. ASSUME vehicle'[id] = vehicle[id] PROVE <<StatusOf(id), StatusOf(id)'>> \in Lifecycle
  BY <1>s, <1>q DEF StatusOf, Exists, Lifecycle
<1>1. ASSUME NEW r \in Requests, SaveListing(r) \/ RemoveListing(r)
      PROVE  <<StatusOf(id), StatusOf(id)'>> \in Lifecycle
  <2>1. request[r].id # id
    BY <1>1 DEF EndsOn
  <2>2. vehicle'[id] = vehicle[id]
    BY <1>1, <2>1 DEF SaveListing, RemoveListing, SoundListings, VehiclesTyped
  <2>. QED
    BY <1>q, <2>2
<1>2. ASSUME NEW j \in Ids, NEW details \in Details, IngestionReloads(j, details)
      PROVE  <<StatusOf(id), StatusOf(id)'>> \in Lifecycle
  <2>1. /\ vehicle[j] \in Vehicle /\ vehicle'[j] \in Vehicle /\ vehicle'[j].status = vehicle[j].status
        /\ \A i \in Ids : i # j => vehicle'[i] = vehicle[i]
    BY <1>2, ReloadKeeps
  <2>2. StatusOf(id)' = StatusOf(id)
    BY <2>1, ListingsAssumption DEF StatusOf, Exists, ListingsAssumption
  <2>. QED
    BY <1>s, <2>2 DEF Lifecycle
<1>3. ASSUME NEW j \in Ids, NEW details \in Details,
             CreateListing(j, details) \/ IngestionLoads(j, details)
      PROVE  <<StatusOf(id), StatusOf(id)'>> \in Lifecycle
  <2>1. PICK status \in {"LIVE", "DRAFT", "PENDING_REVIEW"}, embedding \in Embeddings(details),
             uploaded \in BOOLEAN :
          vehicle' = [vehicle EXCEPT ![j] =
            [status |-> status, details |-> details, searchText |-> details,
             embedding |-> embedding, uploaded |-> uploaded]]
    BY <1>3 DEF CreateListing, IngestionLoads, Embeddings
  <2> DEFINE row == [status |-> status, details |-> details, searchText |-> details,
                     embedding |-> embedding, uploaded |-> uploaded]
  <2>2. row \in Vehicle /\ row.status = status
    BY <2>1 DEF Embeddings, Vehicle, VehicleStatus
  <2>3. row # NoVehicle
    BY <2>2, ListingsAssumption DEF ListingsAssumption
  <2>4. vehicle[j] = NoVehicle
    BY <1>3 DEF CreateListing, IngestionLoads, Fresh, Exists
  <2>. HIDE DEF row
  <2>5. CASE id = j
    <3>1. vehicle'[id] = row
      BY <2>1, <2>5 DEF row, SoundListings, VehiclesTyped
    <3>. QED
      BY <2>2, <2>3, <2>4, <2>5, <3>1 DEF StatusOf, Exists, Lifecycle
  <2>6. CASE id # j
    BY <1>q, <2>1, <2>6 DEF SoundListings, VehiclesTyped
  <2>. QED
    BY <2>5, <2>6
<1>4. ASSUME NEW ids \in SUBSET Ids, ApprovePending(ids)
      PROVE  <<StatusOf(id), StatusOf(id)'>> \in Lifecycle
  <2>1. CASE id \in ids /\ Exists(id) /\ vehicle[id].status = "PENDING_REVIEW"
    <3> DEFINE row == [vehicle[id] EXCEPT !.status = "LIVE"]
    <3>1. vehicle'[id] = row
      BY <1>4, <2>1 DEF ApprovePending
    <3>2. row.status = "LIVE" /\ row \in Vehicle
      BY <1>t, <2>1 DEF Vehicle, VehicleStatus, Exists
    <3>3. row # NoVehicle
      BY <3>2, ListingsAssumption DEF ListingsAssumption
    <3>. HIDE DEF row
    <3>. QED
      BY <1>s, <2>1, <3>1, <3>2, <3>3 DEF StatusOf, Exists, Lifecycle
  <2>2. CASE ~(id \in ids /\ Exists(id) /\ vehicle[id].status = "PENDING_REVIEW")
    BY <1>4, <1>q, <2>2 DEF ApprovePending
  <2>. QED
    BY <2>1, <2>2
<1>5. ASSUME UNCHANGED vehicle PROVE <<StatusOf(id), StatusOf(id)'>> \in Lifecycle
  BY <1>5, <1>q
<1>. QED
  BY <1>1, <1>2, <1>3, <1>4, <1>5
  DEF ListingsNext, ListingsStep, FindListing, LoadListing, BuildIndex, listingVars

(* What the end of a request makes of the status it had from one that was  *)
(* seen, which is the one there is unless another raced with it.           *)
LEMMA EndFollowsLifecycle ==
  ASSUME SoundListings, SeenInv, NEW id \in Ids, EndsOn(id)
  PROVE  /\ \E s \in seen[id] : <<s, StatusOf(id)'>> \in Lifecycle
         /\ id \notin raced' => <<StatusOf(id), StatusOf(id)'>> \in Lifecycle
<1>1. PICK r \in Requests : request[r].id = id /\ (SaveListing(r) \/ RemoveListing(r))
  BY DEF EndsOn
<1>2. RequestSeen(request[r]) /\ request[r].id # NoId /\ raced' = raced
  BY <1>1, ListingsAssumption DEF SeenInv, ListingsAssumption, SaveListing, RemoveListing
<1>3. CASE SaveListing(r)
  <2> DEFINE row == Saved(request[r].entity, vehicle[id])
  <2>1. vehicle' = [vehicle EXCEPT ![id] = row] /\ request[r].pc = "save"
    BY <1>1, <1>3 DEF SaveListing, RequestAt
  <2>2. /\ row \in Vehicle /\ row.status = request[r].entity.status
        /\ id \notin raced => vehicle[id] # NoVehicle /\ <<vehicle[id].status, row.status>> \in Lifecycle
    BY <1>1, <2>1, SavedRow
  <2>. HIDE DEF row
  <2>3. vehicle'[id] = row /\ row # NoVehicle
    BY <2>1, <2>2, ListingsAssumption DEF SoundListings, VehiclesTyped, ListingsAssumption
  <2>4. StatusOf(id)' = request[r].entity.status
    BY <2>2, <2>3 DEF StatusOf, Exists
  <2>5. \E s \in seen[id] : <<s, request[r].entity.status>> \in Lifecycle
    BY <1>1, <1>2, <2>1 DEF RequestSeen
  <2>6. id \notin raced => <<StatusOf(id), request[r].entity.status>> \in Lifecycle
    BY <2>2 DEF StatusOf, Exists
  <2>. QED
    BY <1>2, <2>4, <2>5, <2>6
<1>4. CASE RemoveListing(r)
  <2>1. vehicle' = [vehicle EXCEPT ![id] = NoVehicle] /\ request[r].pc = "delete"
    BY <1>1, <1>4 DEF RemoveListing, RequestAt
  <2>2. StatusOf(id)' = "absent"
    BY <2>1 DEF StatusOf, Exists, SoundListings, VehiclesTyped
  <2>3. \E s \in seen[id] : s \in DELETABLE_STATUSES
    BY <1>1, <1>2, <2>1 DEF RequestSeen
  <2>4. id \notin raced => StatusOf(id) \in DELETABLE_STATUSES
    <3>1. id \notin raced => vehicle[id] # NoVehicle /\ vehicle[id].status \in DELETABLE_STATUSES
      BY <1>1, <2>1 DEF SoundListings, ListingsInv, OnListing, Undisturbed
    <3>. QED
      BY <3>1 DEF StatusOf, Exists
  <2>. QED
    BY <1>2, <2>2, <2>3, <2>4 DEF Lifecycle
<1>. QED
  BY <1>1, <1>3, <1>4

(* Nothing is published unreviewed, brought back unasked or deleted while  *)
(* on sale, but by a request that found the listing otherwise since        *)
(* requests were under way on it (listing.service.ts).                     *)
THEOREM LifecycleIsKept == ListingsSpec => StatusFollowsLifecycle
<1> DEFINE Follows ==
      \A id \in Ids :
        /\ \E s \in seen[id] \cup {StatusOf(id)} : <<s, StatusOf(id)'>> \in Lifecycle
        /\ id \notin raced' => <<StatusOf(id), StatusOf(id)'>> \in Lifecycle
<1>1. SoundListings /\ SeenInv /\ [ListingsNext]_listingVars => [Follows]_listingVars
  <2> SUFFICES ASSUME SoundListings, SeenInv, [ListingsNext]_listingVars, NEW id \in Ids
               PROVE  /\ \E s \in seen[id] \cup {StatusOf(id)} : <<s, StatusOf(id)'>> \in Lifecycle
                      /\ id \notin raced' => <<StatusOf(id), StatusOf(id)'>> \in Lifecycle
    OBVIOUS
  <2>1. CASE EndsOn(id)
    BY <2>1, EndFollowsLifecycle
  <2>2. CASE ~EndsOn(id)
    BY <2>2, StepFollowsLifecycle
  <2>. QED
    BY <2>1, <2>2
<1>. QED
  BY <1>1, InvInit, InvStep, SeenInit, SeenKept, PTL DEF ListingsSpec, StatusFollowsLifecycle



----
(* Counting: two subsets that differ in one member at the most.            *)
LEMMA OneChanges ==
  ASSUME NEW S, IsFiniteSet(S), NEW A \in SUBSET S, NEW B \in SUBSET S, NEW a \in S,
         \A s \in S \ {a} : s \in A <=> s \in B
  PROVE  /\ Cardinality(A) \in Nat /\ Cardinality(B) \in Nat
         /\ Cardinality(B) <= Cardinality(S)
         /\ (a \in A <=> a \in B) => Cardinality(B) = Cardinality(A)
         /\ a \notin A /\ a \in B => Cardinality(B) = Cardinality(A) + 1
         /\ a \in A /\ a \notin B => Cardinality(A) = Cardinality(B) + 1
<1>1. /\ IsFiniteSet(A) /\ Cardinality(A) \in Nat /\ IsFiniteSet(B) /\ Cardinality(B) \in Nat
      /\ Cardinality(B) <= Cardinality(S)
  BY FS_Subset, FS_CardinalityType
<1>2. (a \in A <=> a \in B) => A = B
  OBVIOUS
<1>3. ASSUME a \notin A, a \in B PROVE Cardinality(B) = Cardinality(A) + 1
  <2>1. B = A \cup {a}
    BY <1>3
  <2>. QED
    BY <1>1, <1>3, <2>1, FS_AddElement
<1>4. ASSUME a \in A, a \notin B PROVE Cardinality(A) = Cardinality(B) + 1
  <2>1. A = B \cup {a}
    BY <1>4
  <2>. QED
    BY <1>1, <1>4, <2>1, FS_AddElement
<1>. QED
  BY <1>1, <1>2, <1>3, <1>4

----
(* DealerReview.                                                           *)

DecidingNow == {a \in Admins : Deciding(a)}
Unrecorded(d) == {a \in Admins : review[a].pc \in {"answer", "append"} /\ review[a].decision = d}
UnrecordedAll == {a \in Admins : review[a].pc \in {"answer", "append"}}
RowsOf(d) == {i \in 1 .. Len(trail) : trail[i] = d}

(* A pending profile has not been decided since it was submitted; a        *)
(* decision the dealer is about to be told is on the trail; and what the   *)
(* trail lacks of the decisions made is on its way or lost.                *)
ReviewInv ==
  /\ DealerTypeOK
  /\ profile = "PENDING" => decided = 0
  /\ DecisionsPerSubmission
  /\ \A d \in notice : Recorded(d) > 0
  /\ \A a \in Admins, d \in Decision :
       ReviewAt(a, "notify") /\ review[a].decision = d => Recorded(d) > 0
  /\ \A d \in Decision : Recorded(d) + Cardinality(Unrecorded(d)) <= made[d]
  /\ Len(trail) + made["lost"] + Cardinality(UnrecordedAll) = made["VERIFIED"] + made["REJECTED"]

(* What a request adds to the counts where it stands.                      *)
AtDecide(state)      == IF state.pc \in {"findAdmin", "decide"} THEN 1 ELSE 0
AtRecord(state)      == IF state.pc \in {"answer", "append"} THEN 1 ELSE 0
AtRecordOf(state, d) == IF state.pc \in {"answer", "append"} /\ state.decision = d THEN 1 ELSE 0

(* What a row of e adds to the rows of d.                                  *)
RowOf(rows, d, e) == IF d = e THEN rows ELSE 0

(* What a request becomes, and what that does to the counts.               *)
LEMMA ReviewMoves ==
  ASSUME ReviewInv, NEW a \in Admins, NEW state \in Review,
         review' = [review EXCEPT ![a] = state]
  PROVE  /\ review' \in [Admins -> Review] /\ review'[a] = state
         /\ \A b \in Admins \ {a} : review'[b] = review[b]
         /\ Cardinality(DecidingNow) \in Nat /\ Cardinality(DecidingNow') \in Nat
         /\ Cardinality(DecidingNow') <= Cardinality(Admins)
         /\ Cardinality(DecidingNow') =
              Cardinality(DecidingNow)
                + (IF state.pc \in {"findAdmin", "decide"} THEN 1 ELSE 0)
                - (IF Deciding(a) THEN 1 ELSE 0)
         /\ Cardinality(UnrecordedAll) \in Nat /\ Cardinality(UnrecordedAll') \in Nat
         /\ Cardinality(UnrecordedAll') =
              Cardinality(UnrecordedAll)
                + (IF state.pc \in {"answer", "append"} THEN 1 ELSE 0)
                - (IF review[a].pc \in {"answer", "append"} THEN 1 ELSE 0)
<1>0. review \in [Admins -> Review] /\ IsFiniteSet(Admins)
  BY DealerReviewAssumption DEF DealerReviewAssumption, ReviewInv, DealerTypeOK
<1>1. /\ review' \in [Admins -> Review] /\ review'[a] = state
      /\ \A b \in Admins \ {a} : review'[b] = review[b]
  BY <1>0
<1>2. /\ Cardinality(DecidingNow) \in Nat /\ Cardinality(DecidingNow') \in Nat
      /\ Cardinality(DecidingNow') <= Cardinality(Admins)
      /\ Cardinality(DecidingNow') =
           Cardinality(DecidingNow)
             + (IF state.pc \in {"findAdmin", "decide"} THEN 1 ELSE 0)
             - (IF Deciding(a) THEN 1 ELSE 0)
  <2>1. /\ DecidingNow \in SUBSET Admins /\ DecidingNow' \in SUBSET Admins
        /\ \A b \in Admins \ {a} : b \in DecidingNow <=> b \in DecidingNow'
        /\ a \in DecidingNow <=> Deciding(a)
        /\ a \in DecidingNow' <=> state.pc \in {"findAdmin", "decide"}
    BY <1>1 DEF DecidingNow, Deciding
  <2>. HIDE DEF DecidingNow
  <2>. QED
    BY <1>0, <2>1, OneChanges
<1>3. /\ Cardinality(UnrecordedAll) \in Nat /\ Cardinality(UnrecordedAll') \in Nat
      /\ Cardinality(UnrecordedAll') =
           Cardinality(UnrecordedAll)
             + (IF state.pc \in {"answer", "append"} THEN 1 ELSE 0)
             - (IF review[a].pc \in {"answer", "append"} THEN 1 ELSE 0)
  <2>1. /\ UnrecordedAll \in SUBSET Admins /\ UnrecordedAll' \in SUBSET Admins
        /\ \A b \in Admins \ {a} : b \in UnrecordedAll <=> b \in UnrecordedAll'
        /\ a \in UnrecordedAll <=> review[a].pc \in {"answer", "append"}
        /\ a \in UnrecordedAll' <=> state.pc \in {"answer", "append"}
    BY <1>1 DEF UnrecordedAll
  <2>. QED
    BY <1>0, <2>1, OneChanges
<1>. QED
  BY <1>1, <1>2, <1>3

LEMMA UnrecordedMoves ==
  ASSUME ReviewInv, NEW a \in Admins, NEW state \in Review,
         review' = [review EXCEPT ![a] = state], NEW d \in Decision
  PROVE  /\ Cardinality(Unrecorded(d)) \in Nat /\ Cardinality(Unrecorded(d)') \in Nat
         /\ Cardinality(Unrecorded(d)') =
              Cardinality(Unrecorded(d)) + AtRecordOf(state, d) - AtRecordOf(review[a], d)
<1> DEFINE A == Unrecorded(d)
           B == {b \in Admins : review'[b].pc \in {"answer", "append"} /\ review'[b].decision = d}
<1>0. review \in [Admins -> Review] /\ IsFiniteSet(Admins)
  BY DealerReviewAssumption DEF DealerReviewAssumption, ReviewInv, DealerTypeOK
<1>1. /\ A \in SUBSET Admins /\ B \in SUBSET Admins
      /\ \A b \in Admins \ {a} : b \in A <=> b \in B
      /\ a \in A <=> review[a].pc \in {"answer", "append"} /\ review[a].decision = d
      /\ a \in B <=> state.pc \in {"answer", "append"} /\ state.decision = d
  BY <1>0 DEF Unrecorded
<1>2. Unrecorded(d)' = B
  BY DEF Unrecorded
<1>. HIDE DEF A, B
<1>3. /\ Cardinality(A) \in Nat /\ Cardinality(B) \in Nat
      /\ Cardinality(B) = Cardinality(A) + AtRecordOf(state, d) - AtRecordOf(review[a], d)
  BY <1>0, <1>1, OneChanges DEF AtRecordOf
<1>. QED
  BY <1>2, <1>3 DEF A

(* A row more on the trail.                                                *)
LEMMA TrailGrows ==
  ASSUME trail \in Seq(Decision), NEW d \in Decision, trail' = Append(trail, d)
  PROVE  /\ trail' \in Seq(Decision) /\ Len(trail') = Len(trail) + 1 /\ Len(trail) \in Nat
         /\ \A e \in Decision : /\ Recorded(e) \in Nat /\ Recorded(e)' \in Nat
                                /\ Recorded(e)' = Recorded(e) + (IF e = d THEN 1 ELSE 0)
<1>1. /\ trail' \in Seq(Decision) /\ Len(trail') = Len(trail) + 1 /\ Len(trail) \in Nat
      /\ trail'[Len(trail) + 1] = d /\ \A i \in 1 .. Len(trail) : trail'[i] = trail[i]
  OBVIOUS
<1>2. ASSUME NEW e \in Decision
      PROVE  /\ Recorded(e) \in Nat /\ Recorded(e)' \in Nat
             /\ Recorded(e)' = Recorded(e) + (IF e = d THEN 1 ELSE 0)
  <2> DEFINE S == 1 .. Len(trail) + 1
             A == RowsOf(e)
             B == {i \in 1 .. Len(trail') : trail'[i] = e}
  <2>1. IsFiniteSet(S) /\ Len(trail) + 1 \in S
    BY <1>1, FS_Interval
  <2>2. /\ A \in SUBSET S /\ B \in SUBSET S
        /\ \A i \in S \ {Len(trail) + 1} : i \in A <=> i \in B
        /\ Len(trail) + 1 \notin A /\ (Len(trail) + 1 \in B <=> e = d)
    BY <1>1 DEF RowsOf
  <2>. HIDE DEF S, A, B
  <2>3. /\ Cardinality(A) \in Nat /\ Cardinality(B) \in Nat
        /\ Cardinality(B) = Cardinality(A) + (IF e = d THEN 1 ELSE 0)
    BY <2>1, <2>2, OneChanges
  <2>. QED
    BY <2>3 DEF A, B, RowsOf, Recorded
<1>. QED
  BY <1>1, <1>2

LEMMA RecordedNat ==
  ASSUME trail \in Seq(Decision), NEW d
  PROVE  Recorded(d) \in Nat
<1> DEFINE S == 1 .. Len(trail)
           A == {i \in S : trail[i] = d}
<1>1. IsFiniteSet(S) /\ A \in SUBSET S
  BY FS_Interval
<1>. HIDE DEF S, A
<1>2. Cardinality(A) \in Nat
  BY <1>1, FS_Subset, FS_CardinalityType
<1>. QED
  BY <1>2 DEF Recorded, A, S

LEMMA ReviewInit == DealerInit => ReviewInv
<1> SUFFICES ASSUME DealerInit PROVE ReviewInv
  OBVIOUS
<1>1. DealerTypeOK
  BY DEF DealerInit, DealerTypeOK, VerificationStatus, Review, IdleReview, Decision
<1>2. /\ {a \in Admins : Deciding(a)} = {} /\ UnrecordedAll = {}
      /\ \A d \in Decision : Unrecorded(d) = {} /\ {i \in 1 .. Len(trail) : trail[i] = d} = {}
      /\ \A a \in Admins : ~ReviewAt(a, "notify")
  BY DEF DealerInit, IdleReview, Deciding, UnrecordedAll, Unrecorded, ReviewAt
<1>3. Cardinality({}) = 0 /\ Cardinality(Admins) \in Nat
  BY FS_EmptySet, FS_CardinalityType, DealerReviewAssumption DEF DealerReviewAssumption
<1>4. Len(trail) = 0 /\ notice = {} /\ decided = 0 /\ \A d \in Decision \cup {"lost"} : made[d] = 0
  BY DEF DealerInit
<1>5. DecisionsPerSubmission
  <2>1. DecisionsPerSubmission <=> decided + Cardinality(DecidingNow) <= Cardinality(Admins)
    BY DEF DecisionsPerSubmission, DecidingNow
  <2>2. DecidingNow = {}
    BY <1>2 DEF DecidingNow
  <2>. QED
    BY <1>3, <1>4, <2>1, <2>2
<1>6. \A d \in Decision : Recorded(d) + Cardinality(Unrecorded(d)) <= made[d]
  <2>1. ASSUME NEW d \in Decision PROVE Recorded(d) = 0 /\ Cardinality(Unrecorded(d)) = 0
    <3>1. Recorded(d) = Cardinality(RowsOf(d)) /\ RowsOf(d) = {}
      BY <1>2 DEF Recorded, RowsOf
    <3>. QED
      BY <1>2, <1>3, <3>1
  <2>. QED
    BY <1>4, <2>1
<1>7. Len(trail) + made["lost"] + Cardinality(UnrecordedAll) = made["VERIFIED"] + made["REJECTED"]
  BY <1>2, <1>3, <1>4 DEF Decision
<1>. QED
  BY <1>1, <1>2, <1>4, <1>5, <1>6, <1>7 DEF ReviewInv

(* A request that moves on keeps the books if it moves what they count.    *)
Moves(a, state, rows) ==
  /\ review' = [review EXCEPT ![a] = state]
  /\ trail' = IF rows = 1 THEN Append(trail, review[a].decision) ELSE trail

LEMMA CountsMove ==
  ASSUME ReviewInv, NEW a \in Admins, NEW state \in Review, DealerTypeOK',
         NEW rows \in {0, 1}, Moves(a, state, rows)
  PROVE  /\ review'[a] = state /\ \A b \in Admins \ {a} : review'[b] = review[b]
         /\ Cardinality(DecidingNow) \in Nat /\ Cardinality(DecidingNow') \in Nat
         /\ Cardinality(DecidingNow') <= Cardinality(Admins)
         /\ Cardinality(DecidingNow') = Cardinality(DecidingNow) + AtDecide(state) - AtDecide(review[a])
         /\ Cardinality(UnrecordedAll) \in Nat /\ Cardinality(UnrecordedAll') \in Nat
         /\ Cardinality(UnrecordedAll') = Cardinality(UnrecordedAll) + AtRecord(state) - AtRecord(review[a])
         /\ Len(trail) \in Nat /\ Len(trail') = Len(trail) + rows
<1>1. /\ trail \in Seq(Decision) /\ review[a].decision \in Decision
  BY DEF ReviewInv, DealerTypeOK, Review
<1>2. Len(trail) \in Nat /\ Len(trail') = Len(trail) + rows
  <2>1. CASE rows = 1
    BY <1>1, <2>1, TrailGrows DEF Moves
  <2>2. CASE rows = 0
    BY <1>1, <2>2 DEF Moves
  <2>. QED
    BY <2>1, <2>2
<1>. QED
  BY <1>2, ReviewMoves DEF Moves, AtDecide, AtRecord, Deciding

LEMMA RecordsMove ==
  ASSUME ReviewInv, NEW a \in Admins, NEW state \in Review, DealerTypeOK',
         NEW rows \in {0, 1}, Moves(a, state, rows), NEW d \in Decision
  PROVE  /\ Cardinality(Unrecorded(d)) \in Nat /\ Cardinality(Unrecorded(d)') \in Nat
         /\ Cardinality(Unrecorded(d)') =
              Cardinality(Unrecorded(d)) + AtRecordOf(state, d) - AtRecordOf(review[a], d)
         /\ Recorded(d) \in Nat /\ Recorded(d)' \in Nat
         /\ Recorded(d)' = Recorded(d) + RowOf(rows, d, review[a].decision)
         /\ made[d] \in Nat /\ made'[d] \in Nat
<1>1. /\ trail \in Seq(Decision) /\ review[a].decision \in Decision
      /\ made[d] \in Nat /\ made'[d] \in Nat
  BY DEF ReviewInv, DealerTypeOK, Review
<1>2. /\ Recorded(d) \in Nat /\ Recorded(d)' \in Nat
      /\ Recorded(d)' = Recorded(d) + RowOf(rows, d, review[a].decision)
  <2>1. CASE rows = 1
    BY <1>1, <2>1, TrailGrows DEF RowOf, Moves
  <2>2. CASE rows = 0
    <3>0. trail' = trail
      BY <2>2 DEF Moves
    <3>1. Recorded(d)' = Recorded(d) /\ Recorded(d) \in Nat
      BY <1>1, <3>0, RecordedNat DEF Recorded
    <3>2. RowOf(rows, d, review[a].decision) = 0
      BY <2>2 DEF RowOf
    <3>. QED
      BY <3>1, <3>2
  <2>. QED
    BY <2>1, <2>2
<1>3. /\ Cardinality(Unrecorded(d)) \in Nat /\ Cardinality(Unrecorded(d)') \in Nat
      /\ Cardinality(Unrecorded(d)') =
           Cardinality(Unrecorded(d)) + AtRecordOf(state, d) - AtRecordOf(review[a], d)
  BY UnrecordedMoves DEF Moves
<1>. QED
  BY <1>1, <1>2, <1>3

LEMMA BooksKept ==
  ASSUME ReviewInv, NEW a \in Admins, NEW state \in Review, DealerTypeOK',
         NEW rows \in {0, 1}, Moves(a, state, rows),
         state.pc = "notify" => rows = 1 /\ state.decision = review[a].decision,
         notice' = notice \/ (ReviewAt(a, "notify") /\ notice' = notice \cup {review[a].decision}),
         profile' = "PENDING" => profile = "PENDING" /\ decided' = decided,
         \/ decided' + AtDecide(state) <= decided + AtDecide(review[a])
         \/ profile = "PENDING" /\ decided' = decided,
         \A d \in Decision :
           RowOf(rows, d, review[a].decision) + AtRecordOf(state, d) + made[d]
             <= AtRecordOf(review[a], d) + made'[d],
         rows + made'["lost"] + AtRecord(state) + made["VERIFIED"] + made["REJECTED"]
           = made["lost"] + AtRecord(review[a]) + made'["VERIFIED"] + made'["REJECTED"]
  PROVE  ReviewInv'
<1> DEFINE was == review[a]
<1>0. /\ Cardinality(Admins) \in Nat /\ decided \in Nat /\ decided' \in Nat
      /\ review \in [Admins -> Review] /\ was.decision \in Decision
  BY FS_CardinalityType, DealerReviewAssumption
  DEF DealerReviewAssumption, ReviewInv, DealerTypeOK, Review
<1>1. /\ made["VERIFIED"] \in Nat /\ made["REJECTED"] \in Nat /\ made["lost"] \in Nat
      /\ made'["VERIFIED"] \in Nat /\ made'["REJECTED"] \in Nat /\ made'["lost"] \in Nat
  BY DEF ReviewInv, DealerTypeOK, Decision
<1>2. /\ review'[a] = state /\ \A b \in Admins \ {a} : review'[b] = review[b]
  BY CountsMove
<1>3. /\ AtDecide(state) \in Nat /\ AtDecide(was) \in Nat /\ AtRecord(state) \in Nat
      /\ AtRecord(was) \in Nat /\ rows \in Nat
  BY DEF AtDecide, AtRecord
<1>4. ASSUME NEW d \in Decision
      PROVE  AtRecordOf(state, d) \in Nat /\ AtRecordOf(was, d) \in Nat /\ RowOf(rows, d, was.decision) \in Nat
  BY DEF AtRecordOf, RowOf
<1>5. DecisionsPerSubmission'
  <2> DEFINE n  == Cardinality(DecidingNow)
             n1 == Cardinality(DecidingNow')
             all == Cardinality(Admins)
  <2>1. /\ DecisionsPerSubmission <=> decided + n <= all
        /\ DecisionsPerSubmission' <=> decided' + n1 <= all
    BY DEF DecisionsPerSubmission, DecidingNow
  <2>2. /\ n \in Nat /\ n1 \in Nat /\ n1 <= all /\ n1 = n + AtDecide(state) - AtDecide(was)
    BY CountsMove
  <2>3. DecisionsPerSubmission /\ (profile = "PENDING" => decided = 0)
    BY DEF ReviewInv
  <2>. HIDE DEF n, n1, all, was
  <2>4. CASE profile = "PENDING" /\ decided' = decided
    BY <1>0, <2>1, <2>2, <2>3, <2>4 DEF all
  <2>5. CASE decided' + AtDecide(state) <= decided + AtDecide(was)
    BY <1>0, <1>3, <2>1, <2>2, <2>3, <2>5 DEF all
  <2>. QED
    BY <2>4, <2>5 DEF was
<1>6. profile' = "PENDING" => decided' = 0
  BY DEF ReviewInv
<1>7. ASSUME NEW d \in Decision, Recorded(d) > 0 PROVE Recorded(d)' > 0
  <2> DEFINE x == RowOf(rows, d, was.decision)
             r == Recorded(d)
             r1 == Recorded(d)'
  <2>1. r \in Nat /\ r1 \in Nat /\ r1 = r + x /\ x \in Nat /\ r > 0
    BY <1>4, <1>7, RecordsMove
  <2>. HIDE DEF x, r, r1
  <2>2. r1 > 0
    BY <2>1
  <2>. QED
    BY <2>2 DEF r1
<1>8. ASSUME NEW d \in notice' PROVE Recorded(d)' > 0
  <2>1. notice \subseteq Decision /\ \A e \in notice : Recorded(e) > 0
    BY DEF ReviewInv, DealerTypeOK
  <2>2. CASE d \in notice
    BY <1>7, <2>1, <2>2
  <2>3. CASE d \notin notice
    <3>1. ReviewAt(a, "notify") /\ was.decision = d /\ d \in Decision
      BY <1>0, <1>8, <2>3
    <3>2. Recorded(d) > 0
      BY <3>1 DEF ReviewInv
    <3>. QED
      BY <1>7, <3>1, <3>2
  <2>. QED
    BY <2>2, <2>3
<1>9. ASSUME NEW b \in Admins, NEW d \in Decision, review'[b].pc = "notify", review'[b].decision = d
      PROVE  Recorded(d)' > 0
  <2>1. CASE b = a
    <3> DEFINE r == Recorded(d)
               r1 == Recorded(d)'
               x == RowOf(rows, d, was.decision)
    <3>1. rows = 1 /\ d = was.decision
      BY <1>2, <1>9, <2>1
    <3>2. r \in Nat /\ r1 = r + x
      BY RecordsMove
    <3>3. x = 1
      BY <3>1 DEF RowOf
    <3>. HIDE DEF r, r1, x
    <3>4. r1 > 0
      BY <3>2, <3>3
    <3>. QED
      BY <3>4 DEF r1
  <2>2. CASE b # a
    <3>1. review'[b] = review[b]
      BY <1>2, <2>2
    <3>2. Recorded(d) > 0
      BY <1>9, <3>1 DEF ReviewInv, ReviewAt
    <3>. QED
      BY <1>7, <3>2
  <2>. QED
    BY <2>1, <2>2
<1>10. ASSUME NEW d \in Decision PROVE (Recorded(d) + Cardinality(Unrecorded(d)) <= made[d])'
  <2> DEFINE r == Recorded(d)
             r1 == Recorded(d)'
             u == Cardinality(Unrecorded(d))
             u1 == Cardinality(Unrecorded(d)')
             m == made[d]
             m1 == made'[d]
             x == RowOf(rows, d, was.decision)
             y == AtRecordOf(state, d)
             z == AtRecordOf(was, d)
  <2>1. /\ r \in Nat /\ r1 \in Nat /\ u \in Nat /\ u1 \in Nat /\ m \in Nat /\ m1 \in Nat
        /\ r1 = r + x /\ u1 = u + y - z
    BY RecordsMove
  <2>2. x \in Nat /\ y \in Nat /\ z \in Nat
    BY <1>4
  <2>3. r + u <= m
    BY DEF ReviewInv
  <2>4. x + y + m <= z + m1
    OBVIOUS
  <2>. HIDE DEF r, r1, u, u1, m, m1, x, y, z
  <2>5. r1 + u1 <= m1
    BY <2>1, <2>2, <2>3, <2>4
  <2>. QED
    BY <2>5 DEF r1, u1, m1
<1>11. (Len(trail) + made["lost"] + Cardinality(UnrecordedAll) = made["VERIFIED"] + made["REJECTED"])'
  <2> DEFINE u  == Cardinality(UnrecordedAll)
             u1 == Cardinality(UnrecordedAll')
             x == rows
             y == AtRecord(state)
             z == AtRecord(was)
             l == Len(trail)
             l1 == Len(trail')
             v == made["VERIFIED"]
             v1 == made'["VERIFIED"]
             w == made["REJECTED"]
             w1 == made'["REJECTED"]
             o == made["lost"]
             o1 == made'["lost"]
  <2>1. /\ l \in Nat /\ l1 = l + x /\ u \in Nat /\ u1 \in Nat /\ u1 = u + y - z
    BY CountsMove
  <2>2. l + o + u = v + w
    BY DEF ReviewInv
  <2>3. x + o1 + y + v + w = o + z + v1 + w1
    OBVIOUS
  <2>4. x \in Nat /\ y \in Nat /\ z \in Nat
    BY <1>3
  <2>5. v \in Nat /\ v1 \in Nat /\ w \in Nat /\ w1 \in Nat /\ o \in Nat /\ o1 \in Nat
    BY <1>1
  <2>. HIDE DEF u, u1, x, y, z, l, l1, v, v1, w, w1, o, o1
  <2>6. l1 + o1 + u1 = v1 + w1
    BY <2>1, <2>2, <2>3, <2>4, <2>5
  <2>. QED
    BY <2>6 DEF l1, u1, v1, w1, o1
<1>. QED
  BY <1>5, <1>6, <1>8, <1>9, <1>10, <1>11 DEF ReviewInv, ReviewAt

LEMMA ReviewStep == ReviewInv /\ [DealerNext]_dealerVars => ReviewInv'
<1> SUFFICES ASSUME ReviewInv, [DealerNext]_dealerVars PROVE ReviewInv'
  OBVIOUS
<1>0. /\ DealerTypeOK /\ review \in [Admins -> Review] /\ IdleReview \in Review
      /\ decided \in Nat /\ made["VERIFIED"] \in Nat /\ made["REJECTED"] \in Nat /\ made["lost"] \in Nat
      /\ made \in [Decision \cup {"lost"} -> Nat] /\ trail \in Seq(Decision)
      /\ \A d \in Decision : made[d] \in Nat
  BY DEF ReviewInv, DealerTypeOK, Decision, IdleReview, Review
<1>1. ASSUME NEW a \in Admins, NEW d \in Decision, FindProfile(a, d) PROVE ReviewInv'
  <2> DEFINE state == [pc |-> "findAdmin", decision |-> d]
  <2>1. state \in Review /\ review' = [review EXCEPT ![a] = state] /\ state.pc = "findAdmin"
    BY <1>1 DEF FindProfile, Review
  <2>2. /\ UNCHANGED <<profile, resubmission, trail, notice, decided, made>>
        /\ profile = "PENDING" /\ review[a].pc = "idle"
    BY <1>1 DEF FindProfile, ReviewAt
  <2>. HIDE DEF state
  <2>3. DealerTypeOK'
    BY <1>0, <2>1, <2>2 DEF DealerTypeOK
  <2>4. AtRecord(state) = 0 /\ AtRecord(review[a]) = 0
    BY <2>1, <2>2 DEF AtRecord
  <2>5. \A e \in Decision : RowOf(0, e, review[a].decision) + AtRecordOf(state, e) + made[e]
          <= AtRecordOf(review[a], e) + made'[e]
    BY <1>0, <2>1, <2>2 DEF AtRecordOf, RowOf
  <2>6. Moves(a, state, 0)
    BY <2>1, <2>2 DEF Moves
  <2>10. \/ decided' + AtDecide(state) <= decided + AtDecide(review[a])
         \/ profile = "PENDING" /\ decided' = decided
    BY <1>0, <2>1, <2>2, <2>3, <2>4, <2>5, <2>6
  <2>11. 0 + made'["lost"] + AtRecord(state) + made["VERIFIED"] + made["REJECTED"]
           = made["lost"] + AtRecord(review[a]) + made'["VERIFIED"] + made'["REJECTED"]
    BY <1>0, <2>1, <2>2, <2>3, <2>4, <2>5, <2>6
  <2>. QED
    BY <1>0, <2>1, <2>2, <2>3, <2>4, <2>5, <2>6, <2>10, <2>11, BooksKept
<1>2. ASSUME NEW a \in Admins, FindAdmin(a) PROVE ReviewInv'
  <2>1. PICK state \in Review : review' = [review EXCEPT ![a] = state] /\ state.pc \in {"decide", "idle"}
    <3>1. CASE ReviewEnds(a) BY <1>0, <3>1 DEF ReviewEnds, IdleReview
    <3>2. CASE ReviewGoto(a, "decide")
      <4> DEFINE next == [review[a] EXCEPT !.pc = "decide"]
      <4>1. next \in Review /\ review' = [review EXCEPT ![a] = next] /\ next.pc = "decide"
        BY <1>0, <3>2 DEF ReviewGoto, Review
      <4> HIDE DEF next
      <4> QED BY <4>1
    <3> QED BY <1>2, <3>1, <3>2 DEF FindAdmin
  <2>2. /\ UNCHANGED <<profile, resubmission, trail, notice, decided, made>>
        /\ review[a].pc = "findAdmin"
    BY <1>2 DEF FindAdmin, ReviewAt
  <2>3. DealerTypeOK'
    BY <1>0, <2>1, <2>2 DEF DealerTypeOK
  <2>7. /\ AtRecord(state) = 0 /\ AtRecord(review[a]) = 0
        /\ AtDecide(state) \in {0, 1} /\ AtDecide(review[a]) = 1
    BY <2>1, <2>2 DEF AtRecord, AtDecide, IdleReview
  <2>8. \A e \in Decision : RowOf(0, e, review[a].decision) + AtRecordOf(state, e) + made[e]
          <= AtRecordOf(review[a], e) + made'[e]
    BY <1>0, <2>1, <2>2 DEF AtRecordOf, RowOf, IdleReview
  <2>9. Moves(a, state, 0)
    BY <2>1, <2>2 DEF Moves
  <2>10. \/ decided' + AtDecide(state) <= decided + AtDecide(review[a])
         \/ profile = "PENDING" /\ decided' = decided
    BY <1>0, <2>1, <2>2, <2>3, <2>7, <2>8, <2>9
  <2>11. 0 + made'["lost"] + AtRecord(state) + made["VERIFIED"] + made["REJECTED"]
           = made["lost"] + AtRecord(review[a]) + made'["VERIFIED"] + made'["REJECTED"]
    BY <1>0, <2>1, <2>2, <2>3, <2>7, <2>8, <2>9
  <2>. QED
    BY <1>0, <2>1, <2>2, <2>3, <2>7, <2>8, <2>9, <2>10, <2>11, BooksKept
<1>3. ASSUME NEW a \in Admins, DecideVerification(a) PROVE ReviewInv'
  <2> DEFINE state == [review[a] EXCEPT !.pc = "answer"]
             d == review[a].decision
  <2>1. /\ state \in Review /\ review' = [review EXCEPT ![a] = state] /\ state.pc = "answer"
        /\ state.decision = d /\ d \in Decision
    BY <1>0, <1>3 DEF DecideVerification, ReviewGoto, Review
  <2>2. /\ UNCHANGED <<resubmission, trail, notice>> /\ profile' = d /\ decided' = decided + 1
        /\ made' = [made EXCEPT ![d] = @ + 1] /\ review[a].pc = "decide"
    BY <1>3 DEF DecideVerification, ReviewAt
  <2>. HIDE DEF state, d
  <2>3. /\ made' \in [Decision \cup {"lost"} -> Nat] /\ made'["lost"] = made["lost"]
        /\ made'["VERIFIED"] \in Nat /\ made'["REJECTED"] \in Nat
        /\ made'["VERIFIED"] + made'["REJECTED"] = made["VERIFIED"] + made["REJECTED"] + 1
        /\ \A e \in Decision : made'[e] = made[e] + RowOf(1, e, d)
    BY <1>0, <2>1, <2>2 DEF Decision, RowOf
  <2>4. DealerTypeOK'
    BY <1>0, <2>1, <2>2, <2>3 DEF DealerTypeOK, VerificationStatus, Decision
  <2>7. /\ AtRecord(state) = 1 /\ AtRecord(review[a]) = 0
        /\ AtDecide(state) = 0 /\ AtDecide(review[a]) = 1
    BY <2>1, <2>2 DEF AtRecord, AtDecide, IdleReview
  <2>8. \A e \in Decision : RowOf(0, e, review[a].decision) + AtRecordOf(state, e) + made[e]
          <= AtRecordOf(review[a], e) + made'[e]
    BY <1>0, <2>1, <2>2, <2>3 DEF AtRecordOf, RowOf, IdleReview, d
  <2>9. Moves(a, state, 0)
    BY <2>1, <2>2 DEF Moves
  <2>10. \/ decided' + AtDecide(state) <= decided + AtDecide(review[a])
         \/ profile = "PENDING" /\ decided' = decided
    BY <1>0, <2>1, <2>2, <2>3, <2>4, <2>7, <2>8, <2>9
  <2>11. 0 + made'["lost"] + AtRecord(state) + made["VERIFIED"] + made["REJECTED"]
           = made["lost"] + AtRecord(review[a]) + made'["VERIFIED"] + made'["REJECTED"]
    <3>1. /\ made["VERIFIED"] \in Nat /\ made["REJECTED"] \in Nat /\ made["lost"] \in Nat
          /\ made'["VERIFIED"] \in Nat /\ made'["REJECTED"] \in Nat /\ made'["lost"] = made["lost"]
          /\ made'["VERIFIED"] + made'["REJECTED"] = made["VERIFIED"] + made["REJECTED"] + 1
      BY <1>0, <2>3
    <3>. QED
      BY <2>7, <3>1
  <2>. QED
    BY <1>0, <2>1, <2>2, <2>3, <2>4, <2>7, <2>8, <2>9, <2>10, <2>11, BooksKept DEF Decision, d
<1>4. ASSUME NEW a \in Admins, AuthAnswers(a) PROVE ReviewInv'
  <2> DEFINE state == [review[a] EXCEPT !.pc = "append"]
  <2>1. /\ state \in Review /\ review' = [review EXCEPT ![a] = state] /\ state.pc = "append"
        /\ state.decision = review[a].decision
    BY <1>0, <1>4 DEF AuthAnswers, ReviewGoto, Review
  <2>2. /\ UNCHANGED <<profile, resubmission, trail, notice, decided, made>>
        /\ review[a].pc = "answer"
    BY <1>4 DEF AuthAnswers, ReviewAt
  <2>. HIDE DEF state
  <2>3. DealerTypeOK'
    BY <1>0, <2>1, <2>2 DEF DealerTypeOK
  <2>7. /\ AtRecord(state) = 1 /\ AtRecord(review[a]) = 1
        /\ AtDecide(state) = 0 /\ AtDecide(review[a]) = 0
    BY <2>1, <2>2 DEF AtRecord, AtDecide, IdleReview
  <2>8. \A e \in Decision : RowOf(0, e, review[a].decision) + AtRecordOf(state, e) + made[e]
          <= AtRecordOf(review[a], e) + made'[e]
    BY <1>0, <2>1, <2>2 DEF AtRecordOf, RowOf, IdleReview
  <2>9. Moves(a, state, 0)
    BY <2>1, <2>2 DEF Moves
  <2>10. \/ decided' + AtDecide(state) <= decided + AtDecide(review[a])
         \/ profile = "PENDING" /\ decided' = decided
    BY <1>0, <2>1, <2>2, <2>3, <2>7, <2>8, <2>9
  <2>11. 0 + made'["lost"] + AtRecord(state) + made["VERIFIED"] + made["REJECTED"]
           = made["lost"] + AtRecord(review[a]) + made'["VERIFIED"] + made'["REJECTED"]
    BY <1>0, <2>1, <2>2, <2>3, <2>7, <2>8, <2>9
  <2>. QED
    BY <1>0, <2>1, <2>2, <2>3, <2>7, <2>8, <2>9, <2>10, <2>11, BooksKept
<1>5. ASSUME NEW a \in Admins, review' = [review EXCEPT ![a] = IdleReview],
             made' = [made EXCEPT !["lost"] = @ + 1], review[a].pc \in {"answer", "append"},
             UNCHANGED <<profile, resubmission, trail, notice, decided>>
      PROVE  ReviewInv'
  <2>1. /\ made' \in [Decision \cup {"lost"} -> Nat] /\ made'["lost"] = made["lost"] + 1
        /\ \A e \in Decision : made'[e] = made[e]
    BY <1>0, <1>5 DEF Decision
  <2>2. DealerTypeOK'
    BY <1>0, <1>5, <2>1 DEF DealerTypeOK
  <2>7. /\ AtRecord(IdleReview) = 0 /\ AtRecord(review[a]) = 1
        /\ AtDecide(IdleReview) = 0 /\ AtDecide(review[a]) = 0
    BY <1>5 DEF AtRecord, AtDecide, IdleReview
  <2>8. \A e \in Decision : RowOf(0, e, review[a].decision) + AtRecordOf(IdleReview, e) + made[e]
          <= AtRecordOf(review[a], e) + made'[e]
    BY <1>0, <1>5, <2>1 DEF AtRecordOf, RowOf, IdleReview
  <2>9. Moves(a, IdleReview, 0)
    BY <1>5 DEF Moves
  <2>10. \/ decided' + AtDecide(IdleReview) <= decided + AtDecide(review[a])
         \/ profile = "PENDING" /\ decided' = decided
    BY <1>0, <1>5, <2>1, <2>2, <2>7, <2>8, <2>9
  <2>11. 0 + made'["lost"] + AtRecord(IdleReview) + made["VERIFIED"] + made["REJECTED"]
           = made["lost"] + AtRecord(review[a]) + made'["VERIFIED"] + made'["REJECTED"]
    BY <1>0, <1>5, <2>1, <2>2, <2>7, <2>8, <2>9 DEF Decision
  <2>. QED
    BY <1>0, <1>5, <2>1, <2>2, <2>7, <2>8, <2>9, <2>10, <2>11, BooksKept DEF IdleReview
<1>6. ASSUME NEW a \in Admins, AppendAudit(a), UNCHANGED made PROVE ReviewInv'
  <2> DEFINE state == [review[a] EXCEPT !.pc = "notify"]
             d == review[a].decision
  <2>0. made["lost"] + 1 # made["lost"]
    BY <1>0
  <2>1. /\ state \in Review /\ state.pc = "notify" /\ state.decision = d /\ d \in Decision
    BY <1>0 DEF Review
  <2>2. /\ review' = [review EXCEPT ![a] = state] /\ trail' = Append(trail, d)
        /\ review[a].pc = "append" /\ UNCHANGED <<profile, resubmission, notice, decided, made>>
    BY <1>0, <1>6, <2>0 DEF AppendAudit, ReviewGoto, ReviewAt
  <2>. HIDE DEF state, d
  <2>3. DealerTypeOK'
    BY <1>0, <2>1, <2>2 DEF DealerTypeOK
  <2>7. /\ AtRecord(state) = 0 /\ AtRecord(review[a]) = 1
        /\ AtDecide(state) = 0 /\ AtDecide(review[a]) = 0
    BY <2>1, <2>2 DEF AtRecord, AtDecide, IdleReview
  <2>8. \A e \in Decision : RowOf(1, e, review[a].decision) + AtRecordOf(state, e) + made[e]
          <= AtRecordOf(review[a], e) + made'[e]
    BY <1>0, <2>1, <2>2 DEF AtRecordOf, RowOf, IdleReview, d
  <2>9. Moves(a, state, 1)
    BY <2>1, <2>2 DEF Moves, d
  <2>10. \/ decided' + AtDecide(state) <= decided + AtDecide(review[a])
         \/ profile = "PENDING" /\ decided' = decided
    BY <1>0, <2>1, <2>2, <2>3, <2>7, <2>8, <2>9
  <2>11. 1 + made'["lost"] + AtRecord(state) + made["VERIFIED"] + made["REJECTED"]
           = made["lost"] + AtRecord(review[a]) + made'["VERIFIED"] + made'["REJECTED"]
    BY <1>0, <2>1, <2>2, <2>3, <2>7, <2>8, <2>9
  <2>. QED
    BY <1>0, <2>1, <2>2, <2>3, <2>7, <2>8, <2>9, <2>10, <2>11, BooksKept DEF d
<1>7. ASSUME NEW a \in Admins, Emit(a) PROVE ReviewInv'
  <2>1. /\ review' = [review EXCEPT ![a] = IdleReview] /\ review[a].pc = "notify"
        /\ UNCHANGED <<profile, resubmission, trail, decided, made>>
        /\ notice' = notice \/ notice' = notice \cup {review[a].decision}
    BY <1>7 DEF Emit, ReviewEnds, ReviewAt
  <2>2. DealerTypeOK'
    BY <1>0, <2>1 DEF DealerTypeOK, Review
  <2>7. /\ AtRecord(IdleReview) = 0 /\ AtRecord(review[a]) = 0
        /\ AtDecide(IdleReview) = 0 /\ AtDecide(review[a]) = 0
    BY <2>1 DEF AtRecord, AtDecide, IdleReview
  <2>8. \A e \in Decision : RowOf(0, e, review[a].decision) + AtRecordOf(IdleReview, e) + made[e]
          <= AtRecordOf(review[a], e) + made'[e]
    BY <1>0, <2>1 DEF AtRecordOf, RowOf, IdleReview
  <2>9. Moves(a, IdleReview, 0)
    BY <2>1 DEF Moves
  <2>10. \/ decided' + AtDecide(IdleReview) <= decided + AtDecide(review[a])
         \/ profile = "PENDING" /\ decided' = decided
    BY <1>0, <2>1, <2>2, <2>7, <2>8, <2>9
  <2>11. 0 + made'["lost"] + AtRecord(IdleReview) + made["VERIFIED"] + made["REJECTED"]
           = made["lost"] + AtRecord(review[a]) + made'["VERIFIED"] + made'["REJECTED"]
    BY <1>0, <2>1, <2>2, <2>7, <2>8, <2>9
  <2>. QED
    BY <1>0, <2>1, <2>2, <2>7, <2>8, <2>9, <2>10, <2>11, BooksKept DEF IdleReview, ReviewAt
<1>8. ASSUME UNCHANGED <<profile, review, trail, notice, decided, made>>,
             resubmission' \in [DealerTabs -> {"idle", "save"}]
      PROVE  ReviewInv'
  BY <1>8 DEF ReviewInv, DealerTypeOK, DecisionsPerSubmission, Deciding, ReviewAt, Recorded,
              Unrecorded, UnrecordedAll
<1>9. ASSUME UNCHANGED <<review, trail, notice, made>>, profile' = "PENDING", decided' = 0,
             resubmission' \in [DealerTabs -> {"idle", "save"}]
      PROVE  ReviewInv'
  <2>1. DecisionsPerSubmission'
    <3> DEFINE n == Cardinality(DecidingNow)
               all == Cardinality(Admins)
    <3>1. DecisionsPerSubmission <=> decided + n <= all
      BY DEF DecisionsPerSubmission, DecidingNow
    <3>2. DecisionsPerSubmission' <=> 0 + n <= all
      BY <1>9 DEF DecisionsPerSubmission, DecidingNow, Deciding
    <3>3. n \in Nat /\ all \in Nat
      BY FS_Subset, FS_CardinalityType, DealerReviewAssumption DEF DecidingNow, DealerReviewAssumption
    <3>. HIDE DEF n, all
    <3>. QED
      BY <1>0, <3>1, <3>2, <3>3 DEF ReviewInv
  <2>. QED
    BY <1>9, <2>1 DEF ReviewInv, DealerTypeOK, VerificationStatus, ReviewAt, Recorded,
                      Unrecorded, UnrecordedAll
<1>10. ASSUME NEW t \in DealerTabs, FindRejected(t) \/ SaveResubmission(t) PROVE ReviewInv'
  <2>1. resubmission' \in [DealerTabs -> {"idle", "save"}]
    BY <1>0, <1>10 DEF FindRejected, SaveResubmission, DealerTypeOK
  <2>. QED
    BY <1>8, <1>9, <1>10, <2>1 DEF FindRejected, SaveResubmission
<1>11. ASSUME NEW a \in Admins, AuthAnswerLost(a) \/ AppendAudit(a) PROVE ReviewInv'
  BY <1>5, <1>6, <1>11 DEF AuthAnswerLost, AppendAudit, ReviewEnds, ReviewAt
<1>12. CASE UNCHANGED dealerVars
  BY <1>0, <1>8, <1>12 DEF dealerVars, DealerTypeOK
<1>. QED
  BY <1>1, <1>2, <1>3, <1>4, <1>7, <1>10, <1>11, <1>12 DEF DealerNext

(* Decisions on a dealer are limited, final and on record: see the three   *)
(* properties of DealerReview (dealer-verification.service.ts and          *)
(* dealers.service.ts).                                                    *)
THEOREM DecisionsAreSound == DealerSpec => DecisionsStand
<1>1. ReviewInv => DecisionsPerSubmission /\ TrailIsTrue
  <2> SUFFICES ASSUME ReviewInv PROVE DecisionsPerSubmission /\ TrailIsTrue
    OBVIOUS
  <2>1. /\ \A d \in notice : Recorded(d) > 0
        /\ Len(trail) + made["lost"] + Cardinality(UnrecordedAll) = made["VERIFIED"] + made["REJECTED"]
    BY DEF ReviewInv
  <2>2. ASSUME NEW d \in Decision PROVE Recorded(d) <= made[d]
    <3> DEFINE u == Cardinality(Unrecorded(d))
               r == Recorded(d)
               m == made[d]
    <3>1. r \in Nat /\ m \in Nat /\ r + u <= m
      BY RecordedNat DEF ReviewInv, DealerTypeOK
    <3>2. u \in Nat
      <4> DEFINE A == Unrecorded(d)
      <4>1. A \in SUBSET Admins /\ IsFiniteSet(Admins)
        BY DealerReviewAssumption DEF Unrecorded, DealerReviewAssumption
      <4>. HIDE DEF A
      <4>2. Cardinality(A) \in Nat
        BY <4>1, FS_Subset, FS_CardinalityType
      <4>. QED
        BY <4>2 DEF A
    <3>. HIDE DEF u, r, m
    <3>3. r <= m
      BY <3>1, <3>2
    <3>. QED
      BY <3>3 DEF r, m
  <2>3. TrailIsTrue
    BY <2>1, <2>2 DEF TrailIsTrue, UnrecordedAll
  <2>. QED
    BY <2>3 DEF ReviewInv
<1>2. ReviewInv /\ [DealerNext]_dealerVars => [SettledVerified => SettledVerified']_dealerVars
  <2> SUFFICES ASSUME DealerTypeOK, DealerNext, SettledVerified PROVE SettledVerified'
    BY DEF ReviewInv
  <2>1. review \in [Admins -> Review] /\ resubmission \in [DealerTabs -> {"idle", "save"}]
    BY DEF DealerTypeOK
  <2>2. ASSUME NEW a \in Admins, \E d \in Decision : FindProfile(a, d) PROVE FALSE
    BY <2>2 DEF FindProfile, SettledVerified
  <2>3. ASSUME NEW a \in Admins, FindAdmin(a) \/ DecideVerification(a) PROVE FALSE
    BY <2>3 DEF FindAdmin, DecideVerification, ReviewAt, SettledVerified, Deciding
  <2>4. ASSUME NEW t \in DealerTabs, FindRejected(t) \/ SaveResubmission(t) PROVE FALSE
    BY <2>4 DEF FindRejected, SaveResubmission, SettledVerified, Resubmitting
  <2>5. ASSUME NEW a \in Admins, AuthAnswers(a) \/ AuthAnswerLost(a) \/ AppendAudit(a) \/ Emit(a)
        PROVE  SettledVerified'
    <3>1. UNCHANGED <<profile, resubmission>>
      BY <2>5 DEF AuthAnswers, AuthAnswerLost, AppendAudit, Emit
    <3>2. \A b \in Admins : review'[b] = review[b] \/ review'[b].pc \in {"append", "notify", "idle"}
      BY <2>1, <2>5 DEF AuthAnswers, AuthAnswerLost, AppendAudit, Emit, ReviewGoto, ReviewEnds,
                        IdleReview, Review
    <3>. QED
      BY <3>1, <3>2 DEF SettledVerified, Deciding, Resubmitting
  <2>. QED
    BY <2>2, <2>3, <2>4, <2>5 DEF DealerNext
<1>. QED
  BY ReviewInit, ReviewStep, <1>1, <1>2, PTL DEF DealerSpec, DecisionsStand, VerifiedStays

(* The tables of a review keep their shapes.                               *)
THEOREM DealerTyped == DealerSpec => []DealerTypeOK
<1>1. ReviewInv => DealerTypeOK
  BY DEF ReviewInv
<1>. QED
  BY ReviewInit, ReviewStep, <1>1, PTL DEF DealerSpec

----
(* Of sets of numbers, which the sections below share.                     *)

(* A set of natural numbers that is not empty has a least one.             *)
LEMMA LeastNatural ==
  ASSUME NEW T \in SUBSET Nat, T # {}
  PROVE  \E x \in T : \A y \in T : x <= y
<1>1. PICK x \in T : \A y \in T : <<y, x>> \notin OpToRel(<, Nat)
  BY NatLessThanWellFounded, WFMin
<1>2. \A y \in T : ~(y < x) BY <1>1 DEF OpToRel
<1> QED BY <1>2

LEMMA LeastOf ==
  ASSUME NEW S \in SUBSET Nat, S # {}
  PROVE  Min(S) \in S /\ \A y \in S : Min(S) <= y
BY LeastNatural DEF Min

LEMMA GreatestOf ==
  ASSUME NEW n \in Nat, NEW S \in SUBSET (0 .. n), S # {}
  PROVE  Max(S) \in S /\ \A y \in S : Max(S) >= y
<1> DEFINE T == {n - x : x \in S}
<1>1. T \in SUBSET Nat /\ T # {}
  <2>1. \A x \in S : n - x \in Nat OBVIOUS
  <2> QED BY <2>1
<1>2. PICK x \in T : \A y \in T : x <= y BY <1>1, LeastNatural
<1>3. n - x \in S /\ \A y \in S : n - x >= y
  <2>1. PICK z \in S : x = n - z BY <1>2
  <2>2. \A y \in S : n - z <= n - y BY <1>2, <2>1
  <2> QED BY <2>1, <2>2
<1> QED BY <1>3 DEF Max

(* A property of a row of states, from one to the next.                    *)
LEMMA Onwards ==
  ASSUME NEW n \in Nat, NEW bad \in SUBSET (0 .. n), 0 \notin bad,
         \A i \in 1 .. n : i \in bad => i - 1 \in bad
  PROVE  bad = {}
<1> SUFFICES ASSUME bad # {} PROVE FALSE OBVIOUS
<1>1. PICK x \in bad : \A y \in bad : x <= y BY LeastNatural
<1>2. x \in 1 .. n /\ x - 1 \in bad OBVIOUS
<1> QED BY <1>1, <1>2

----
(* What a search is said to mean (QueryParser).                            *)

WordsTyped == words \in Seq(Lexicon) /\ Positions = 1 .. Len(words) /\ Len(words) \in Nat

TryOpen(phase, t, i) == IF i \in t.used \/ IsStopword(i) THEN t ELSE TryAt(phase, t, i)

(* A walk goes over the positions from left to right.                      *)
LEMMA WalkIsARow ==
  ASSUME WordsTyped, NEW s, NEW phase
  PROVE  \E h : /\ h[0] = s /\ h[Len(words)] = Walk(s, phase)
                /\ \A i \in Positions : h[i] = TryOpen(phase, h[i - 1], i)
<1> DEFINE N == Len(words)
           Folds(g, S) == g = [q \in SUBSET S |-> IF q = {} THEN s
                                                  ELSE LET x == Max(q) IN TryOpen(phase, g[q \ {x}], x)]
           bad == {n \in 0 .. N : ~\E g : Folds(g, 1 .. n)}
<1>1. N \in Nat /\ Positions = 1 .. N BY DEF WordsTyped
<1> HIDE DEF N
<1>2. 0 \notin bad
  <2> DEFINE g == [q \in SUBSET (1 .. 0) |-> s]
  <2>1. Folds(g, 1 .. 0) OBVIOUS
  <2> HIDE DEF Folds, g
  <2> QED BY <2>1
<1>3. ASSUME NEW n \in 1 .. N, n - 1 \notin bad PROVE n \notin bad
  <2>1. PICK g : Folds(g, 1 .. (n - 1))
    <3> HIDE DEF Folds
    <3> QED BY <1>1, <1>3
  <2> DEFINE f == [q \in SUBSET (1 .. n) |-> IF n \in q THEN TryOpen(phase, g[q \ {n}], n) ELSE g[q]]
  <2>2. ASSUME NEW q \in SUBSET (1 .. n)
        PROVE  f[q] = IF q = {} THEN s ELSE LET x == Max(q) IN TryOpen(phase, f[q \ {x}], x)
    <3>1. CASE n \in q
      <4>1. \A y \in q : n >= y BY <1>1
      <4>2. q \in SUBSET (0 .. n) /\ n \in Nat BY <1>1
      <4>3. Max(q) = n
        <5>1. PICK m : m = Max(q) OBVIOUS
        <5>2. m \in q /\ \A y \in q : m >= y BY <3>1, <4>2, <5>1, GreatestOf
        <5>3. m >= n /\ n >= m /\ m \in Nat BY <3>1, <4>1, <4>2, <5>2
        <5> QED BY <4>2, <5>1, <5>3
      <4>4. q \ {n} \in SUBSET (1 .. n) /\ n \notin q \ {n} OBVIOUS
      <4>5. f[q \ {n}] = g[q \ {n}] BY <4>4
      <4> QED BY <3>1, <4>3, <4>5
    <3>2. CASE n \notin q
      <4>1. q \in SUBSET (1 .. (n - 1)) BY <1>1, <3>2
      <4>2. f[q] = g[q] BY <3>2
      <4>3. CASE q = {} BY <2>1, <4>1, <4>2, <4>3
      <4>4. CASE q # {}
        <5>1. Max(q) \in q
          <6>1. q \in SUBSET (0 .. n) /\ n \in Nat BY <1>1
          <6> QED BY <4>4, <6>1, GreatestOf
        <5>2. q \ {Max(q)} \in SUBSET (1 .. n) /\ n \notin q \ {Max(q)} BY <3>2
        <5>3. f[q \ {Max(q)}] = g[q \ {Max(q)}] BY <5>2
        <5>4. g[q] = TryOpen(phase, g[q \ {Max(q)}], Max(q)) BY <2>1, <4>1, <4>4
        <5> QED BY <4>2, <4>4, <5>3, <5>4
      <4> QED BY <4>3, <4>4
    <3> QED BY <3>1, <3>2
  <2>3. Folds(f, 1 .. n)
    <3> HIDE DEF f
    <3>1. f = [q \in SUBSET (1 .. n) |-> f[q]] BY DEF f
    <3> QED BY <2>2, <3>1
  <2> HIDE DEF Folds, f
  <2> QED BY <2>3
<1>4. bad = {}
  <2> HIDE DEF bad
  <2>1. bad \in SUBSET (0 .. N) BY DEF bad
  <2>2. \A n \in 1 .. N : n \in bad => n - 1 \in bad BY <1>3
  <2> QED BY <1>1, <1>2, <2>1, <2>2, Onwards
<1>5. \E g : Folds(g, 1 .. N)
  <2> HIDE DEF Folds
  <2>1. N \in 0 .. N BY <1>1
  <2> QED BY <1>4, <2>1
<1> DEFINE order == [i \in Positions |-> i]
           Raw(g) == g = [q \in SUBSET DOMAIN order |->
                            IF q = {} THEN s
                            ELSE LET x == Max(q) IN IF order[x] \in g[q \ {x}].used \/ IsStopword(order[x]) THEN g[q \ {x}]
                                                    ELSE TryAt(phase, g[q \ {x}], order[x])]
<1>6. Walk(s, phase) = (CHOOSE g : Raw(g))[DOMAIN order] BY DEF Walk, FoldLeft, MapThenFoldSet
<1>7. DOMAIN order = 1 .. N BY <1>1
<1>8. \A q \in SUBSET (1 .. N) : q # {} => Max(q) \in 1 .. N /\ order[Max(q)] = Max(q)
  <2> TAKE q \in SUBSET (1 .. N)
  <2> HAVE q # {}
  <2>1. q \in SUBSET (0 .. N) BY <1>1
  <2>2. Max(q) \in q BY <1>1, <2>1, GreatestOf
  <2> QED BY <1>1, <2>2
<1> HIDE DEF order
<1>9. \A g : Raw(g) <=> Folds(g, 1 .. N)
  <2> TAKE g
  <2>1. \A q \in SUBSET (1 .. N) :
          (IF q = {} THEN s
           ELSE LET x == Max(q) IN IF order[x] \in g[q \ {x}].used \/ IsStopword(order[x]) THEN g[q \ {x}]
                                   ELSE TryAt(phase, g[q \ {x}], order[x]))
          = IF q = {} THEN s ELSE LET x == Max(q) IN TryOpen(phase, g[q \ {x}], x)
    BY <1>8 DEF TryOpen
  <2> QED BY <1>7, <2>1
<1> HIDE DEF Raw, Folds
<1>10. PICK g : g = CHOOSE f : Raw(f) OBVIOUS
<1>11. Folds(g, 1 .. N) /\ Walk(s, phase) = g[1 .. N] BY <1>5, <1>6, <1>7, <1>9, <1>10
<1>12. \A q \in SUBSET (1 .. N) : g[q] = IF q = {} THEN s ELSE LET x == Max(q) IN TryOpen(phase, g[q \ {x}], x)
  BY <1>11 DEF Folds
<1> DEFINE h == [i \in 0 .. N |-> g[1 .. i]]
<1>13. h[0] = s
  <2>1. 1 .. 0 = {} /\ 0 \in 0 .. N BY <1>1
  <2> QED BY <1>12, <2>1
<1>14. h[N] = Walk(s, phase) BY <1>1, <1>11
<1>15. ASSUME NEW i \in Positions PROVE h[i] = TryOpen(phase, h[i - 1], i)
  <2>0. i \in Nat /\ 1 <= i /\ i <= N /\ i \in 0 .. N /\ i - 1 \in 0 .. N BY <1>1
  <2>7. i \in 1 .. i BY <2>0
  <2>8. \A y : y \in (1 .. i) \ {i} <=> y \in 1 .. (i - 1) BY <2>0
  <2>9. \A y : y \in 1 .. i => y \in 1 .. N /\ y \in 0 .. i BY <1>1, <2>0
  <2>1. /\ 1 .. i \in SUBSET (1 .. N) /\ 1 .. i # {} /\ (1 .. i) \ {i} = 1 .. (i - 1)
        /\ i \in 0 .. N /\ i - 1 \in 0 .. N /\ i \in Nat /\ 1 .. i \in SUBSET (0 .. i)
    BY <2>0, <2>7, <2>8, <2>9
  <2>2. PICK m : m = Max(1 .. i) OBVIOUS
  <2>3. m \in 1 .. i /\ \A y \in 1 .. i : m >= y BY <2>1, <2>2, GreatestOf
  <2>4. m = i BY <2>1, <2>3
  <2>5. g[1 .. i] = TryOpen(phase, g[(1 .. i) \ {i}], i) BY <1>12, <2>1, <2>2, <2>4
  <2> QED BY <2>1, <2>5
<1> HIDE DEF h
<1> QED BY <1>13, <1>14, <1>15 DEF N

----
Fields == {"make", "model", "vehicleType", "fuelType", "body_type", "seats"}
Floors == Range(MinOf)
BoundNames == Range(MinOf) \cup Range(MaxOf)

(* Words that name a make, and the make.                                   *)
Names(i) == words[i] \in {"toyota", "honda"}
NameOf(i) == IF words[i] = "toyota" THEN "TOYOTA" ELSE "HONDA"

ParseTyped(t) ==
  /\ t = [used |-> t.used, says |-> t.says, bound |-> t.bound, sort |-> t.sort]
  /\ t.used \subseteq Positions
  /\ \A pair \in t.says : pair[1] \in Fields
  /\ DOMAIN t.bound \subseteq BoundNames
  /\ \A b \in DOMAIN t.bound : t.bound[b] \in Nat

HaveMakes(t) == \A model \in Said("model", t) : ParentOf(model) \in Said("make", t)

(* The makes named up to position k are searched for, and the words after  *)
(* k that name one are still there to be read.                             *)
NamedTaken(t, k) ==
  \A j \in Positions : Names(j) => IF j <= k THEN j \in t.used /\ NameOf(j) \in Said("make", t) ELSE j \notin t.used

Bounds(t, j) ==
  \E b \in DOMAIN t.bound, a \in AmountsOf(j) : IF b \in Floors THEN t.bound[b] <= a ELSE t.bound[b] >= a

Tallied(t) ==
  /\ \A j \in t.used : IsNumeric(j) => Magnitudes[words[j]].n \in Said("seats", t) \/ Bounds(t, j)
  /\ \A b \in DOMAIN t.bound : \E j \in t.used : IsNumeric(j) /\ t.bound[b] \in AmountsOf(j)

Sound(t, k) == ParseTyped(t) /\ HaveMakes(t) /\ NamedTaken(t, k) /\ Tallied(t)

LEMMA SaidIs == \A f, t, x : x \in Said(f, t) <=> \E p \in t.says : p[1] = f /\ p[2] = x
BY DEF Said

(* What was understood keeps its meaning when more is taken.               *)
Understood(t) == ParseTyped(t) /\ HaveMakes(t) /\ Tallied(t)

LEMMA Grown ==
  ASSUME NEW t, Understood(t), NEW D \in SUBSET Positions, NEW P, NEW u,
         \A pair \in P : pair[1] \in Fields,
         u = [used |-> t.used \cup D, says |-> t.says \cup P, bound |-> t.bound, sort |-> u.sort],
         \A j \in D : IsNumeric(j) => Magnitudes[words[j]].n \in Said("seats", u),
         \A pair \in P : pair[1] = "model" => ParentOf(pair[2]) \in Said("make", u)
  PROVE  Understood(u) /\ u.used = t.used \cup D /\ \A f : Said(f, t) \subseteq Said(f, u)
<1>1. u.used = t.used \cup D /\ u.says = t.says \cup P /\ u.bound = t.bound OBVIOUS
<1>2. u = [used |-> u.used, says |-> u.says, bound |-> u.bound, sort |-> u.sort] BY <1>1
<1>3. ParseTyped(u) BY <1>1, <1>2 DEF ParseTyped, Understood
<1>4. \A f : Said(f, t) \subseteq Said(f, u)
  <2>1. \A f, x : x \in Said(f, t) => x \in Said(f, u) BY <1>1, SaidIs
  <2> QED BY <2>1
<1>5. HaveMakes(u)
  <2> SUFFICES ASSUME NEW model \in Said("model", u) PROVE ParentOf(model) \in Said("make", u) BY DEF HaveMakes
  <2>1. PICK p \in t.says \cup P : p[1] = "model" /\ p[2] = model BY <1>1, SaidIs
  <2>2. CASE p \in P BY <2>1, <2>2
  <2>3. CASE p \in t.says
    <3>1. model \in Said("model", t) BY <2>1, <2>3, SaidIs
    <3> QED BY <1>4, <3>1 DEF Understood, HaveMakes
  <2> QED BY <2>2, <2>3
<1>6. \A j : Bounds(t, j) => Bounds(u, j) BY <1>1 DEF Bounds
<1>7. Tallied(u) BY <1>1, <1>4, <1>6 DEF Understood, Tallied
<1> QED BY <1>1, <1>3, <1>4, <1>5, <1>7 DEF Understood

LEMMA Gains ==
  ASSUME NEW k, NEW t, Sound(t, k), NEW D \in SUBSET Positions, NEW P, NEW u,
         \A pair \in P : pair[1] \in Fields,
         u = [used |-> t.used \cup D, says |-> t.says \cup P, bound |-> t.bound, sort |-> u.sort],
         \A j \in D : Names(j) => j <= k,
         \A j \in D : IsNumeric(j) => Magnitudes[words[j]].n \in Said("seats", u),
         \A pair \in P : pair[1] = "model" => ParentOf(pair[2]) \in Said("make", u)
  PROVE  Sound(u, k)
<1>1. Understood(t) BY DEF Sound, Understood
<1>2. Understood(u) /\ u.used = t.used \cup D /\ \A f : Said(f, t) \subseteq Said(f, u) BY <1>1, Grown
<1>3. NamedTaken(u, k) BY <1>2 DEF Sound, NamedTaken
<1> QED BY <1>2, <1>3 DEF Sound, Understood

LEMMA TakingIs ==
  ASSUME NEW t, NEW i, NEW n, NEW pairs, ParseTyped(t)
  PROVE  Taking(t, i, n, pairs) = [used |-> t.used \cup i .. (i + n - 1), says |-> t.says \cup pairs,
                                   bound |-> t.bound, sort |-> t.sort]
<1> DEFINE D == i .. (i + n - 1)
           used == t.used \cup D
           says == t.says \cup pairs
           u == [t EXCEPT !.used = used, !.says = says]
<1>1. t \in [used : {t.used}, says : {t.says}, bound : {t.bound}, sort : {t.sort}] BY DEF ParseTyped
<1> HIDE DEF used, says
<1>2. u \in [used : {used}, says : {says}, bound : {t.bound}, sort : {t.sort}] BY <1>1
<1>3. Taking(t, i, n, pairs) = u BY DEF Taking, used, says
<1> HIDE DEF u
<1>4. u = [used |-> used, says |-> says, bound |-> t.bound, sort |-> t.sort] BY <1>2
<1> QED BY <1>3, <1>4 DEF used, says

(* A span of words that are open to a phase.                               *)
Lies(t, i, n) ==
  /\ n \in 1 .. 3 /\ i .. (i + n - 1) \subseteq Positions
  /\ \A j \in i .. (i + n - 1) : j \notin t.used /\ ~IsNumeric(j)

LEMMA TakenKeeps ==
  ASSUME NEW k, NEW t, Sound(t, k), NEW i, NEW n, Lies(t, i, n), NEW pairs,
         \A pair \in pairs : pair[1] \in Fields,
         \A j \in i .. (i + n - 1) : Names(j) => j <= k,
         \A pair \in pairs : pair[1] = "model" =>
            ParentOf(pair[2]) \in Said("make", t) \/ <<"make", ParentOf(pair[2])>> \in pairs
  PROVE  Sound(Taking(t, i, n, pairs), k)
<1> DEFINE u == Taking(t, i, n, pairs)
           D == i .. (i + n - 1)
<1>1. u = [used |-> t.used \cup D, says |-> t.says \cup pairs, bound |-> t.bound, sort |-> t.sort]
  BY TakingIs DEF Sound
<1>2. D \in SUBSET Positions /\ \A j \in D : ~IsNumeric(j) BY DEF Lies
<1> HIDE DEF u, D
<1>3. u.says = t.says \cup pairs BY <1>1
<1>4. \A pair \in pairs : pair[1] = "model" => ParentOf(pair[2]) \in Said("make", u)
  <2> TAKE pair \in pairs
  <2> HAVE pair[1] = "model"
  <2>1. CASE ParentOf(pair[2]) \in Said("make", t) BY <1>3, <2>1, SaidIs
  <2>2. CASE <<"make", ParentOf(pair[2])>> \in pairs
    <3>1. PICK p : p = <<"make", ParentOf(pair[2])>> OBVIOUS
    <3>2. p \in u.says /\ p[1] = "make" /\ p[2] = ParentOf(pair[2]) BY <1>3, <2>2, <3>1
    <3> QED BY <3>2, SaidIs
  <2> QED BY <2>1, <2>2
<1>5. \A j \in D : Names(j) => j <= k BY DEF D
<1>6. \A j \in D : IsNumeric(j) => Magnitudes[words[j]].n \in Said("seats", u) BY <1>2
<1>7. u = [used |-> t.used \cup D, says |-> t.says \cup pairs, bound |-> t.bound, sort |-> u.sort] BY <1>1
<1>8. Sound(u, k) BY <1>2, <1>4, <1>5, <1>6, <1>7, Gains
<1> QED BY <1>8 DEF u

----
LEMMA SpanIs ==
  ASSUME WordsTyped, NEW i \in Positions, NEW n \in Nat \ {0}, i + n - 1 \in Positions
  PROVE  /\ Len(Span(i, n)) = n /\ Span(i, n) \in Seq(Lexicon) /\ DOMAIN Span(i, n) = 1 .. n
         /\ \A m \in 1 .. n : Span(i, n)[m] = words[i + m - 1]
         /\ \A j \in i .. (i + n - 1) : j \in Positions /\ j - i + 1 \in 1 .. n /\ words[j] = Span(i, n)[j - i + 1]
<1>1. i \in Nat /\ n \in Nat /\ i + n - 1 \in Nat /\ \A j \in i .. (i + n - 1) : j \in Positions BY DEF WordsTyped
<1>2. \A j \in i .. (i + n - 1) : words[j] \in Lexicon BY <1>1 DEF WordsTyped
<1>3. /\ Span(i, n) \in Seq(Lexicon) /\ Len(Span(i, n)) = n
      /\ \A m \in 1 .. n : Span(i, n)[m] = words[i + m - 1]
  <2>1. /\ SubSeq(words, i, i + n - 1) \in Seq(Lexicon)
        /\ Len(SubSeq(words, i, i + n - 1)) = IF i <= i + n - 1 THEN (i + n - 1) - i + 1 ELSE 0
        /\ \A m \in 1 .. ((i + n - 1) - i + 1) : SubSeq(words, i, i + n - 1)[m] = words[i + m - 1]
    BY <1>1, <1>2, SubSeqProperties
  <2>2. (i + n - 1) - i + 1 = n /\ i <= i + n - 1 BY <1>1
  <2> QED BY <2>1, <2>2 DEF Span
<1>4. \A j \in i .. (i + n - 1) : j - i + 1 \in 1 .. n /\ i + (j - i + 1) - 1 = j BY <1>1
<1> HIDE DEF Span
<1>5. DOMAIN Span(i, n) = 1 .. n BY <1>3
<1>6. \A j \in i .. (i + n - 1) : words[j] = Span(i, n)[j - i + 1] BY <1>3, <1>4
<1> QED BY <1>1, <1>3, <1>4, <1>5, <1>6

ClosedPairs == {<<"body_type", "WAGON">>, <<"body_type", "HATCHBACK">>, <<"fuelType", "DIESEL">>}

LEMMA EveryIndex ==
  /\ DOMAIN MakesIndex = {<<"toyota">>, <<"honda">>}
  /\ MakesIndex[<<"toyota">>] = {"TOYOTA"} /\ MakesIndex[<<"honda">>] = {"HONDA"}
  /\ DOMAIN ModelsIndex = {<<"corolla">>, <<"civic">>, <<"wagon", "r">>, <<"prado">>}
  /\ DOMAIN ClosedPhrases = {<<"double", "cab">>} /\ ClosedPhrases[<<"double", "cab">>] = {}
  /\ DOMAIN ClosedSingles = {<<"wagon">>, <<"hatch">>, <<"diesel">>}
  /\ \A span \in DOMAIN ClosedSingles : ClosedSingles[span] \subseteq ClosedPairs
  /\ DOMAIN BodiesIndex = {<<"estate">>, <<"hatch", "back">>, <<"cab">>}
  /\ DOMAIN Magnitudes = {"2015", "3", "5m", "95k"}
<1>1. <<"toyota">> # <<"honda">>
  <2>1. \A a, b : <<a>> = <<b>> => a = b OBVIOUS
  <2> QED BY <2>1
<1>2. \A span \in DOMAIN ClosedSingles : ClosedSingles[span] \subseteq ClosedPairs
  <2>1. TAKE span \in DOMAIN ClosedSingles
  <2>2. span \in {<<"wagon">>, <<"hatch">>, <<"diesel">>} BY DEF ClosedSingles
  <2>3. ClosedSingles[span] = CASE span = <<"wagon">>  -> {<<"body_type", "WAGON">>}
                                [] span = <<"hatch">>  -> {<<"body_type", "HATCHBACK">>}
                                [] span = <<"diesel">> -> {<<"fuelType", "DIESEL">>}
    BY <2>2 DEF ClosedSingles
  <2> QED BY <2>2, <2>3 DEF ClosedPairs
<1> QED BY <1>1, <1>2 DEF MakesIndex, ModelsIndex, ClosedPhrases, ClosedSingles, BodiesIndex, Magnitudes

LEMMA MakeSpan ==
  ASSUME WordsTyped, NEW i \in Positions, NEW n \in Nat \ {0}, i + n - 1 \in Positions, Span(i, n) \in DOMAIN MakesIndex
  PROVE  n = 1 /\ Names(i) /\ MakesIndex[Span(i, n)] = {NameOf(i)}
<1>1. Span(i, n) = <<"toyota">> \/ Span(i, n) = <<"honda">> BY EveryIndex
<1>2. Len(Span(i, n)) = n BY SpanIs
<1>3. n = 1 BY <1>1, <1>2
<1>4. words[i] = Span(i, n)[1]
  <2>1. Span(i, n)[1] = words[i + 1 - 1] BY <1>3, SpanIs
  <2>2. i + 1 - 1 = i BY DEF WordsTyped
  <2> QED BY <2>1, <2>2
<1>5. CASE Span(i, n) = <<"toyota">>
  <2>1. words[i] = "toyota" BY <1>4, <1>5
  <2> QED BY <1>3, <1>5, <2>1, EveryIndex DEF Names, NameOf
<1>6. CASE Span(i, n) = <<"honda">>
  <2>1. words[i] = "honda" BY <1>4, <1>6
  <2> QED BY <1>3, <1>6, <2>1, EveryIndex DEF Names, NameOf
<1> QED BY <1>1, <1>5, <1>6

LEMMA NamedSpan ==
  ASSUME WordsTyped, NEW i \in Positions, Names(i)
  PROVE  Span(i, 1) \in DOMAIN MakesIndex
<1>1. i + 1 - 1 \in Positions BY DEF WordsTyped
<1>2. Len(Span(i, 1)) = 1 /\ Span(i, 1) \in Seq(Lexicon) /\ Span(i, 1)[1] = words[i + 1 - 1]
  <2>1. PICK n \in Nat \ {0} : n = 1 OBVIOUS
  <2>2. i + n - 1 \in Positions /\ 1 \in 1 .. n BY <1>1, <2>1
  <2>3. /\ Len(Span(i, n)) = n /\ Span(i, n) \in Seq(Lexicon) /\ Span(i, n)[1] = words[i + 1 - 1] BY <2>2, SpanIs
  <2> QED BY <2>1, <2>3
<1>3. i + 1 - 1 = i BY DEF WordsTyped
<1> DEFINE sp == Span(i, 1)
<1>4. sp \in Seq(Lexicon) /\ Len(sp) = 1 /\ sp[1] = words[i] BY <1>2, <1>3
<1> HIDE DEF sp
<1>5. sp = <<words[i]>> BY <1>4
<1> QED BY <1>5, EveryIndex DEF Names, sp

LEMMA OtherSpan ==
  ASSUME WordsTyped, NEW i \in Positions, NEW n \in Nat \ {0}, i + n - 1 \in Positions,
         Span(i, n) \in DOMAIN ModelsIndex \cup DOMAIN ClosedPhrases \cup DOMAIN ClosedSingles
                        \cup DOMAIN BodiesIndex,
         NEW j \in i .. (i + n - 1)
  PROVE  ~Names(j) /\ (Span(i, n) \in DOMAIN ClosedPhrases => ~IsNumeric(j))
<1>1. /\ Len(Span(i, n)) = n /\ j - i + 1 \in 1 .. n /\ words[j] = Span(i, n)[j - i + 1] BY SpanIs
<1> DEFINE sp == Span(i, n)
           m == j - i + 1
<1>2. sp \in {<<"corolla">>, <<"civic">>, <<"wagon", "r">>, <<"prado">>, <<"double", "cab">>, <<"wagon">>, <<"diesel">>,
               <<"hatch">>, <<"estate">>, <<"hatch", "back">>, <<"cab">>}
  BY EveryIndex
<1>3. Len(sp) = n /\ m \in 1 .. n /\ words[j] = sp[m] BY <1>1
<1>7. sp \in DOMAIN ClosedPhrases => sp = <<"double", "cab">> BY EveryIndex
<1> HIDE DEF sp, m
<1>4. words[j] \in {"corolla", "civic", "wagon", "r", "prado", "double", "cab", "diesel", "hatch", "back", "estate"}
  <2>1. \A s \in {<<"corolla">>, <<"civic">>, <<"wagon", "r">>, <<"prado">>, <<"double", "cab">>, <<"wagon">>, <<"diesel">>,
                 <<"hatch">>, <<"estate">>, <<"hatch", "back">>, <<"cab">>} :
          \A l \in 1 .. Len(s) : s[l] \in {"corolla", "civic", "wagon", "r", "prado", "double", "cab", "diesel",
                                          "hatch", "back", "estate"}
    OBVIOUS
  <2> QED BY <1>2, <1>3, <2>1
<1>5. ~Names(j) BY <1>4 DEF Names
<1>6. ~IsNumeric(j) BY <1>4, EveryIndex DEF IsNumeric
<1> QED BY <1>5, <1>6

----
LEMMA PresentFits ==
  ASSUME WordsTyped, NEW t, NEW i \in Positions, NEW n \in 1 .. 3, SpanIsPresent(t, i, n),
         \A j \in i .. (i + n - 1) : ~IsNumeric(j)
  PROVE  Lies(t, i, n)
<1>1. i + n - 1 \in Positions /\ \A j \in i .. (i + n - 1) : j \notin t.used BY DEF SpanIsPresent
<1>2. \A j \in i .. (i + n - 1) : j \in Positions BY <1>1 DEF WordsTyped
<1> QED BY <1>1, <1>2 DEF Lies

LEMMA ExactHit ==
  ASSUME WordsTyped, NEW t, NEW i \in Positions, NEW index, NEW longest \in 1 .. 3, NEW shortest \in 1 .. 2,
         NEW h \in ExactHits(t, i, longest, index, shortest)
  PROVE  /\ h.n \in shortest .. longest /\ Lies(t, i, h.n) /\ i + h.n - 1 \in Positions
         /\ Span(i, h.n) \in DOMAIN index /\ h.entry \in index[Span(i, h.n)]
<1> DEFINE known == {n \in shortest .. longest : SpanIsOpen(t, i, n) /\ Span(i, n) \in DOMAIN index}
<1>1. known # {} BY DEF ExactHits
<1>2. known \in SUBSET (0 .. 3) OBVIOUS
<1>3. Max(known) \in known BY <1>1, <1>2, GreatestOf
<1>4. \E n \in {Max(known)} : \E e \in index[Span(i, Max(known))] : h = [n |-> n, entry |-> e]
  BY <1>1 DEF ExactHits
<1>5. PICK n \in known : h.n = n /\ h.entry \in index[Span(i, n)] BY <1>3, <1>4
<1>6. n \in 1 .. 3 /\ SpanIsOpen(t, i, n) /\ Span(i, n) \in DOMAIN index BY <1>5
<1>7. Lies(t, i, n) BY <1>6, PresentFits DEF SpanIsOpen
<1> QED BY <1>5, <1>6, <1>7 DEF SpanIsOpen, SpanIsPresent

LEMMA MakeHit ==
  ASSUME WordsTyped, NEW t, NEW i \in Positions, NEW shortest \in 1 .. 2, NEW h \in ExactHits(t, i, 3, MakesIndex, shortest)
  PROVE  shortest = 1 /\ h.n = 1 /\ Names(i) /\ h.entry = NameOf(i)
<1>1. /\ h.n \in shortest .. 3 /\ i + h.n - 1 \in Positions
      /\ Span(i, h.n) \in DOMAIN MakesIndex /\ h.entry \in MakesIndex[Span(i, h.n)]
  <2>1. PICK three \in 1 .. 3 : three = 3 OBVIOUS
  <2>2. h \in ExactHits(t, i, three, MakesIndex, shortest) BY <2>1
  <2>3. /\ h.n \in shortest .. three /\ i + h.n - 1 \in Positions
        /\ Span(i, h.n) \in DOMAIN MakesIndex /\ h.entry \in MakesIndex[Span(i, h.n)]
    BY <2>2, ExactHit
  <2> QED BY <2>1, <2>3
<1>2. PICK n \in Nat \ {0} : n = h.n BY <1>1
<1>3. n = 1 /\ Names(i) /\ MakesIndex[Span(i, n)] = {NameOf(i)} BY <1>1, <1>2, MakeSpan
<1> QED BY <1>1, <1>2, <1>3

LEMMA ClosedHit ==
  ASSUME WordsTyped, NEW t, NEW i \in Positions, NEW longest \in 1 .. 3, NEW shortest \in 1 .. 2,
         NEW h \in ExactClosedHits(t, i, longest, shortest)
  PROVE  /\ Lies(t, i, h.n) /\ \A j \in i .. (i + h.n - 1) : ~Names(j)
         /\ h.entry \subseteq ClosedPairs
<1> DEFINE phrases == {n \in Max({2, shortest}) .. longest : SpanIsPresent(t, i, n) /\ Span(i, n) \in DOMAIN ClosedPhrases}
           singles == {n \in {1} : shortest = 1 /\ SpanIsOpen(t, i, 1) /\ Span(i, 1) \in DOMAIN ClosedSingles}
<1>1. CASE phrases # {}
  <2>1. Max({2, shortest}) = 2
    <3>1. {2, shortest} \in SUBSET (0 .. 3) /\ {2, shortest} # {} OBVIOUS
    <3>2. Max({2, shortest}) \in {2, shortest} /\ Max({2, shortest}) >= 2 BY <3>1, GreatestOf
    <3> QED BY <3>2
  <2>2. phrases \in SUBSET (0 .. 3) BY <2>1
  <2>3. Max(phrases) \in phrases BY <1>1, <2>2, GreatestOf
  <2>4. h \in {[n |-> Max(phrases), entry |-> ClosedPhrases[Span(i, Max(phrases))]]} BY <1>1 DEF ExactClosedHits
  <2> HIDE DEF phrases
  <2>5. PICK n \in phrases : h.n = n /\ h.entry = ClosedPhrases[Span(i, n)] BY <2>3, <2>4
  <2>6. n \in 2 .. 3 /\ SpanIsPresent(t, i, n) /\ Span(i, n) \in DOMAIN ClosedPhrases BY <2>1 DEF phrases
  <2>7. n \in Nat \ {0} /\ n \in 1 .. 3 /\ i + n - 1 \in Positions BY <2>6 DEF SpanIsPresent
  <2>8. \A j \in i .. (i + n - 1) : ~Names(j) /\ ~IsNumeric(j) BY <2>6, <2>7, OtherSpan
  <2>9. Lies(t, i, n) BY <2>6, <2>7, <2>8, PresentFits
  <2>10. h.entry = {} BY <2>5, <2>6, EveryIndex
  <2> QED BY <2>5, <2>8, <2>9, <2>10
<1>2. CASE phrases = {}
  <2>1. h \in {[n |-> n, entry |-> ClosedSingles[Span(i, n)]] : n \in singles} BY <1>2 DEF ExactClosedHits
  <2>2. h.n = 1 /\ h.entry = ClosedSingles[Span(i, 1)] /\ SpanIsOpen(t, i, 1) /\ Span(i, 1) \in DOMAIN ClosedSingles
    BY <2>1
  <2>3. PICK n \in Nat \ {0} : n = 1 /\ n \in 1 .. 3 OBVIOUS
  <2>4. i + n - 1 \in Positions /\ SpanIsPresent(t, i, n) /\ \A j \in i .. (i + n - 1) : ~IsNumeric(j)
    BY <2>2, <2>3 DEF SpanIsOpen, SpanIsPresent
  <2>5. Lies(t, i, n) BY <2>3, <2>4, PresentFits
  <2>6. Span(i, n) \in DOMAIN ModelsIndex \cup DOMAIN ClosedPhrases \cup DOMAIN ClosedSingles BY <2>2, <2>3
  <2>7. \A j \in i .. (i + n - 1) : ~Names(j) BY <2>4, <2>6, OtherSpan
  <2> QED BY <2>2, <2>3, <2>5, <2>7, EveryIndex
<1> QED BY <1>1, <1>2

LEMMA FuzzyHit ==
  ASSUME WordsTyped, NEW t, NEW i \in Positions, NEW wanted, NEW h \in FuzzyHits(t, i, 2, wanted)
  PROVE  Lies(t, i, h.n) /\ h.entry \in wanted
<1>1. PICK n \in 1 .. 2, e \in wanted : SpanIsOpen(t, i, n) /\ h = [n |-> n, entry |-> e] BY DEF FuzzyHits
<1>2. n \in 1 .. 3 /\ h.n = n /\ h.entry = e BY <1>1
<1>3. Lies(t, i, n) BY <1>1, <1>2, PresentFits DEF SpanIsOpen
<1> QED BY <1>2, <1>3

(* What a phase takes of one sort of entries.                              *)
LEMMA ClosedKeeps ==
  ASSUME NEW k, NEW t, Sound(t, k), NEW i, NEW hits,
         \A h \in hits : /\ Lies(t, i, h.n) /\ \A j \in i .. (i + h.n - 1) : ~Names(j)
                         /\ h.entry \subseteq ClosedPairs
  PROVE  Sound(TakeOne(t, i, hits, "closed"), k)
<1>1. CASE hits = {} BY <1>1 DEF TakeOne
<1>2. CASE hits # {}
  <2>1. PICK h \in hits : h = CHOOSE g \in hits : TRUE BY <1>2
  <2>2. TakeOne(t, i, hits, "closed") = Taking(t, i, h.n, h.entry) BY <1>2, <2>1 DEF TakeOne, ApplyClosed
  <2>3. \A pair \in h.entry : pair[1] \in Fields /\ pair[1] # "model" BY <2>1 DEF Fields, ClosedPairs
  <2>4. Sound(Taking(t, i, h.n, h.entry), k) BY <2>1, <2>3, TakenKeeps
  <2> QED BY <2>2, <2>4
<1> QED BY <1>1, <1>2

LEMMA MakeKeeps ==
  ASSUME NEW k, NEW t, Sound(t, k), NEW i, NEW hits,
         \A h \in hits : Lies(t, i, h.n) /\ \A j \in i .. (i + h.n - 1) : Names(j) => j <= k
  PROVE  Sound(TakeOne(t, i, hits, "make"), k)
<1>1. CASE hits = {} BY <1>1 DEF TakeOne
<1>2. CASE hits # {}
  <2>1. PICK h \in hits : h = CHOOSE g \in hits : TRUE BY <1>2
  <2> DEFINE pairs == {<<"make", h.entry>>}
  <2>2. TakeOne(t, i, hits, "make") = Taking(t, i, h.n, pairs) BY <1>2, <2>1 DEF TakeOne, ApplyMake
  <2>3. \A pair \in pairs : pair[1] \in Fields /\ pair[1] # "model" BY DEF Fields
  <2> HIDE DEF pairs
  <2>4. Sound(Taking(t, i, h.n, pairs), k) BY <2>1, <2>3, TakenKeeps
  <2> QED BY <2>2, <2>4
<1> QED BY <1>1, <1>2

LEMMA BodyKeeps ==
  ASSUME NEW k, NEW t, Sound(t, k), NEW i, NEW hits,
         \A h \in hits : Lies(t, i, h.n) /\ \A j \in i .. (i + h.n - 1) : Names(j) => j <= k
  PROVE  Sound(TakeOne(t, i, hits, "body"), k)
<1>1. CASE hits = {} BY <1>1 DEF TakeOne
<1>2. CASE hits # {}
  <2>1. PICK h \in hits : h = CHOOSE g \in hits : TRUE BY <1>2
  <2> DEFINE pairs == {<<"body_type", h.entry>>}
  <2>2. TakeOne(t, i, hits, "body") = Taking(t, i, h.n, pairs) BY <1>2, <2>1 DEF TakeOne, ApplyBody
  <2>3. \A pair \in pairs : pair[1] \in Fields /\ pair[1] # "model" BY DEF Fields
  <2> HIDE DEF pairs
  <2>4. Sound(Taking(t, i, h.n, pairs), k) BY <2>1, <2>3, TakenKeeps
  <2> QED BY <2>2, <2>4
<1> QED BY <1>1, <1>2

LEMMA BodyHit ==
  ASSUME WordsTyped, NEW k, NEW t, NEW i \in Positions, NEW longest \in 1 .. 3, NEW shortest \in 1 .. 2,
         NEW h \in ExactHits(t, i, longest, BodiesIndex, shortest)
  PROVE  Lies(t, i, h.n) /\ \A j \in i .. (i + h.n - 1) : Names(j) => j <= k
<1>1. h.n \in shortest .. longest /\ Lies(t, i, h.n) /\ i + h.n - 1 \in Positions /\ Span(i, h.n) \in DOMAIN BodiesIndex
  BY ExactHit
<1>2. PICK n \in Nat \ {0} : n = h.n BY <1>1
<1>3. \A j \in i .. (i + n - 1) : ~Names(j) BY <1>1, <1>2, OtherSpan
<1> QED BY <1>1, <1>2, <1>3

LEMMA ModelKeeps ==
  ASSUME NEW k, NEW t, Sound(t, k), NEW i, NEW hits,
         \A h \in hits : /\ Lies(t, i, h.n) /\ ModelAllowed(t, h.entry)
                         /\ \A j \in i .. (i + h.n - 1) : Names(j) => j <= k
  PROVE  Sound(TakeOne(t, i, hits, "model"), k)
<1>1. CASE hits = {} BY <1>1 DEF TakeOne
<1>2. CASE hits # {}
  <2>1. PICK h \in hits : h = CHOOSE g \in hits : TRUE BY <1>2
  <2> DEFINE makes == IF Said("make", t) = {} THEN {<<"make", ParentOf(h.entry)>>} ELSE {}
             types == IF Said("vehicleType", t) = {} THEN {<<"vehicleType", "CAR">>} ELSE {}
             pairs == {<<"model", h.entry>>} \cup makes \cup types
  <2>2. TakeOne(t, i, hits, "model") = Taking(t, i, h.n, pairs) BY <1>2, <2>1 DEF TakeOne, ApplyModel
  <2>3. \A pair \in pairs : pair[1] \in Fields BY DEF Fields
  <2>4. \A pair \in pairs : pair[1] = "model" => pair[2] = h.entry OBVIOUS
  <2>5. ParentOf(h.entry) \in Said("make", t) \/ <<"make", ParentOf(h.entry)>> \in pairs BY <2>1 DEF ModelAllowed
  <2> HIDE DEF pairs
  <2>6. \A pair \in pairs : pair[1] = "model" =>
            ParentOf(pair[2]) \in Said("make", t) \/ <<"make", ParentOf(pair[2])>> \in pairs
    BY <2>4, <2>5
  <2>7. Sound(Taking(t, i, h.n, pairs), k) BY <2>1, <2>3, <2>6, TakenKeeps
  <2> QED BY <2>2, <2>7
<1> QED BY <1>1, <1>2

LEMMA ModelHit ==
  ASSUME WordsTyped, NEW k, NEW t, NEW i \in Positions, NEW shortest \in 1 .. 2, NEW h \in ModelHits(t, i, shortest)
  PROVE  /\ Lies(t, i, h.n) /\ ModelAllowed(t, h.entry)
         /\ \A j \in i .. (i + h.n - 1) : Names(j) => j <= k
<1>1. h \in ExactHits(t, i, 3, ModelsIndex, shortest) /\ ModelAllowed(t, h.entry) BY DEF ModelHits
<1>2. h.n \in shortest .. 3 /\ Lies(t, i, h.n) /\ i + h.n - 1 \in Positions /\ Span(i, h.n) \in DOMAIN ModelsIndex
  <2>1. PICK three \in 1 .. 3 : three = 3 OBVIOUS
  <2>2. h \in ExactHits(t, i, three, ModelsIndex, shortest) BY <1>1, <2>1
  <2>3. /\ h.n \in shortest .. three /\ Lies(t, i, h.n) /\ i + h.n - 1 \in Positions
        /\ Span(i, h.n) \in DOMAIN ModelsIndex
    BY <2>2, ExactHit
  <2> QED BY <2>1, <2>3
<1>3. PICK n \in Nat \ {0} : n = h.n BY <1>2
<1>4. \A j \in i .. (i + n - 1) : ~Names(j) BY <1>2, <1>3, OtherSpan
<1> QED BY <1>1, <1>2, <1>3, <1>4

----
(* Numbers, and what they bound.                                           *)
Kinds == {"Price", "Year", "Mileage"}

LEMMA BoundFacts ==
  /\ Floors = {"minPrice", "minYear", "minMileage"}
  /\ BoundNames = Floors \cup {"maxPrice", "maxYear", "maxMileage"}
  /\ \A kind \in Kinds : /\ MinOf[kind] \in Floors /\ MinOf[kind] \in BoundNames
                         /\ MaxOf[kind] \notin Floors /\ MaxOf[kind] \in BoundNames
<1>1. Floors = {"minPrice", "minYear", "minMileage"} BY DEF Floors, Range, MinOf
<1>2. BoundNames = Floors \cup {"maxPrice", "maxYear", "maxMileage"} BY DEF BoundNames, Floors, Range, MaxOf
<1>3. \A kind \in Kinds : MinOf[kind] \in {"minPrice", "minYear", "minMileage"} BY DEF Kinds, MinOf
<1>4. \A kind \in Kinds : MaxOf[kind] \in {"maxPrice", "maxYear", "maxMileage"} BY DEF Kinds, MaxOf
<1>5. \A x \in {"maxPrice", "maxYear", "maxMileage"} : x \notin {"minPrice", "minYear", "minMileage"} OBVIOUS
<1> QED BY <1>1, <1>2, <1>3, <1>4, <1>5

LEMMA AmountsTyped ==
  ASSUME NEW j, IsNumeric(j)
  PROVE  /\ AmountsOf(j) \subseteq Nat /\ Magnitudes[words[j]].n \in Nat
         /\ words[j] \in {"2015", "3", "5m", "95k"}
<1>1. words[j] \in {"2015", "3", "5m", "95k"} BY EveryIndex DEF IsNumeric
<1>2. Magnitudes[words[j]].n \in Nat
  <2>1. \A w \in {"2015", "3", "5m", "95k"} : Magnitudes[w].n \in Nat BY DEF Magnitudes
  <2> QED BY <1>1, <2>1
<1>3. \A n \in Nat : \A unit : Scale(n, unit) \in Nat BY DEF Scale
<1> QED BY <1>1, <1>2, <1>3 DEF AmountsOf

BoundTyped(bound) == DOMAIN bound \subseteq BoundNames /\ \A b \in DOMAIN bound : bound[b] \in Nat

(* A bound is one of those before or an amount of A, and wider.            *)
Widened(old, new, A) ==
  /\ BoundTyped(new) /\ DOMAIN old \subseteq DOMAIN new
  /\ \A b \in DOMAIN old : IF b \in Floors THEN new[b] <= old[b] ELSE new[b] >= old[b]
  /\ \A b \in DOMAIN new : new[b] \in A \/ (b \in DOMAIN old /\ new[b] = old[b])

LEMMA MinBoundWidens ==
  ASSUME NEW bound, BoundTyped(bound), NEW kind \in Kinds, NEW amount \in Nat
  PROVE  /\ Widened(bound, MinBound(bound, kind, amount), {amount})
         /\ MinOf[kind] \in DOMAIN MinBound(bound, kind, amount) \cap Floors
         /\ MinBound(bound, kind, amount)[MinOf[kind]] <= amount
<1> DEFINE name == MinOf[kind]
           x == IF name \in DOMAIN bound THEN Min({bound[name], amount}) ELSE amount
           new == [b \in DOMAIN bound \cup {name} |-> IF b # name THEN bound[b] ELSE x]
<1>1. name \in Floors /\ name \in BoundNames BY BoundFacts
<1> HIDE DEF name
<1>2. x \in Nat /\ x <= amount /\ (name \in DOMAIN bound => x <= bound[name])
      /\ (x = amount \/ (name \in DOMAIN bound /\ x = bound[name]))
  <2>1. CASE name \in DOMAIN bound
    <3>1. bound[name] \in Nat BY <2>1 DEF BoundTyped
    <3> DEFINE S == {bound[name], amount}
    <3>2. S \in SUBSET Nat /\ S # {} BY <3>1
    <3>3. Min(S) \in S /\ \A y \in S : Min(S) <= y BY <3>2, LeastOf
    <3> QED BY <2>1, <3>1, <3>3
  <2>2. CASE name \notin DOMAIN bound BY <2>2
  <2> QED BY <2>1, <2>2
<1> HIDE DEF x
<1>3. MinBound(bound, kind, amount) = new BY DEF MinBound, x, name
<1>4. DOMAIN new = DOMAIN bound \cup {name} /\ new[name] = x /\ \A b \in DOMAIN bound \ {name} : new[b] = bound[b] OBVIOUS
<1> HIDE DEF new
<1>5. BoundTyped(new) BY <1>1, <1>2, <1>4 DEF BoundTyped
<1>6. \A b \in DOMAIN bound : bound[b] \in Nat /\ bound[b] <= bound[b] /\ bound[b] >= bound[b] BY DEF BoundTyped
<1>7. \A b \in DOMAIN bound : IF b \in Floors THEN new[b] <= bound[b] ELSE new[b] >= bound[b]
  BY <1>1, <1>2, <1>4, <1>6
<1>8. \A b \in DOMAIN new : new[b] \in {amount} \/ (b \in DOMAIN bound /\ new[b] = bound[b]) BY <1>2, <1>4
<1> QED BY <1>1, <1>2, <1>3, <1>4, <1>5, <1>7, <1>8 DEF Widened, name

LEMMA MaxBoundWidens ==
  ASSUME NEW bound, BoundTyped(bound), NEW kind \in Kinds, NEW amount \in Nat
  PROVE  /\ Widened(bound, MaxBound(bound, kind, amount), {amount})
         /\ MaxOf[kind] \in DOMAIN MaxBound(bound, kind, amount) \ Floors
         /\ MaxBound(bound, kind, amount)[MaxOf[kind]] >= amount
<1> DEFINE name == MaxOf[kind]
           x == IF name \in DOMAIN bound THEN Max({bound[name], amount}) ELSE amount
           new == [b \in DOMAIN bound \cup {name} |-> IF b # name THEN bound[b] ELSE x]
<1>1. name \notin Floors /\ name \in BoundNames BY BoundFacts
<1> HIDE DEF name
<1>2. x \in Nat /\ x >= amount /\ (name \in DOMAIN bound => x >= bound[name])
      /\ (x = amount \/ (name \in DOMAIN bound /\ x = bound[name]))
  <2>1. CASE name \in DOMAIN bound
    <3>1. bound[name] \in Nat BY <2>1 DEF BoundTyped
    <3> DEFINE S == {bound[name], amount}
               n == bound[name] + amount
    <3>2. S \in SUBSET (0 .. n) /\ S # {} /\ n \in Nat BY <3>1
    <3>3. Max(S) \in S /\ \A y \in S : Max(S) >= y BY <3>2, GreatestOf
    <3> QED BY <2>1, <3>1, <3>3
  <2>2. CASE name \notin DOMAIN bound BY <2>2
  <2> QED BY <2>1, <2>2
<1> HIDE DEF x
<1>3. MaxBound(bound, kind, amount) = new BY DEF MaxBound, x, name
<1>4. DOMAIN new = DOMAIN bound \cup {name} /\ new[name] = x /\ \A b \in DOMAIN bound \ {name} : new[b] = bound[b] OBVIOUS
<1> HIDE DEF new
<1>5. BoundTyped(new) BY <1>1, <1>2, <1>4 DEF BoundTyped
<1>6. \A b \in DOMAIN bound : bound[b] \in Nat /\ bound[b] <= bound[b] /\ bound[b] >= bound[b] BY DEF BoundTyped
<1>7. \A b \in DOMAIN bound : IF b \in Floors THEN new[b] <= bound[b] ELSE new[b] >= bound[b]
  BY <1>1, <1>2, <1>4, <1>6
<1>8. \A b \in DOMAIN new : new[b] \in {amount} \/ (b \in DOMAIN bound /\ new[b] = bound[b]) BY <1>2, <1>4
<1> QED BY <1>1, <1>2, <1>3, <1>4, <1>5, <1>7, <1>8 DEF Widened, name

LEMMA WidenedTwice ==
  ASSUME NEW a, NEW b, NEW c, NEW A, NEW B, BoundTyped(a), Widened(a, b, A), Widened(b, c, B)
  PROVE  Widened(a, c, A \cup B)
<1>1. \A x \in DOMAIN a : a[x] \in Nat /\ b[x] \in Nat /\ c[x] \in Nat BY DEF Widened, BoundTyped
<1>2. \A x \in DOMAIN a : IF x \in Floors THEN c[x] <= a[x] ELSE c[x] >= a[x] BY <1>1 DEF Widened
<1> QED BY <1>2 DEF Widened

(* A number that a bound was made of stays within wider ones.              *)
LEMMA NumbersKeep ==
  ASSUME WordsTyped, NEW t, Sound(t, 0), NEW D \in SUBSET Positions, NEW A, NEW u,
         u = [used |-> t.used \cup D, says |-> t.says, bound |-> u.bound, sort |-> u.sort],
         Widened(t.bound, u.bound, A),
         \A a \in A : \E j \in D : IsNumeric(j) /\ a \in AmountsOf(j),
         \A j \in D : Names(j) => j \in t.used,
         \A j \in D : IsNumeric(j) => j \in t.used \/ Bounds(u, j)
  PROVE  Sound(u, 0)
<1>1. u.used = t.used \cup D /\ u.says = t.says
      /\ u = [used |-> u.used, says |-> u.says, bound |-> u.bound, sort |-> u.sort]
  OBVIOUS
<1>2. ParseTyped(u) BY <1>1 DEF Sound, ParseTyped, Widened, BoundTyped
<1>3. \A f : Said(f, u) = Said(f, t) BY <1>1 DEF Said
<1>4. HaveMakes(u) BY <1>3 DEF Sound, HaveMakes
<1>5. \A j \in Positions : Names(j) => j \notin t.used BY DEF Sound, NamedTaken, WordsTyped
<1>6. NamedTaken(u, 0) BY <1>1, <1>5 DEF NamedTaken, WordsTyped
<1>7. \A j \in t.used : IsNumeric(j) /\ Bounds(t, j) => Bounds(u, j)
  <2> TAKE j \in t.used
  <2> HAVE IsNumeric(j) /\ Bounds(t, j)
  <2>1. PICK b \in DOMAIN t.bound, a \in AmountsOf(j) : IF b \in Floors THEN t.bound[b] <= a ELSE t.bound[b] >= a
    BY DEF Bounds
  <2>2. a \in Nat /\ t.bound[b] \in Nat /\ u.bound[b] \in Nat /\ b \in DOMAIN u.bound
    BY AmountsTyped DEF Sound, ParseTyped, Widened, BoundTyped
  <2>3. IF b \in Floors THEN u.bound[b] <= t.bound[b] ELSE u.bound[b] >= t.bound[b] BY DEF Widened
  <2>4. IF b \in Floors THEN u.bound[b] <= a ELSE u.bound[b] >= a BY <2>1, <2>2, <2>3
  <2> QED BY <2>2, <2>4 DEF Bounds
<1>8. \A j \in u.used : IsNumeric(j) => Magnitudes[words[j]].n \in Said("seats", u) \/ Bounds(u, j)
  BY <1>1, <1>3, <1>7 DEF Sound, Tallied
<1>9. \A b \in DOMAIN u.bound : \E j \in u.used : IsNumeric(j) /\ u.bound[b] \in AmountsOf(j)
  BY <1>1 DEF Widened, Sound, Tallied
<1> QED BY <1>2, <1>4, <1>6, <1>8, <1>9 DEF Sound, Tallied

LEMMA UnitsAre ==
  ASSUME NEW j, words[j] \in UnitWords \cup MaxOps \cup MinOps \cup Stopwords \cup DOMAIN SpecNouns \cup DOMAIN SortWords
  PROVE  ~Names(j) /\ ~IsNumeric(j)
<1>1. words[j] \in {"million", "mileage", "under", "cheaper", "from", "seats", "lowest", "newest"}
  BY DEF UnitWords, MaxOps, MinOps, Stopwords, SpecNouns, SortWords
<1>2. DOMAIN Magnitudes = {"2015", "3", "5m", "95k"} BY EveryIndex
<1>3. words[j] \notin {"toyota", "honda"} /\ words[j] \notin {"2015", "3", "5m", "95k"} BY <1>1
<1> QED BY <1>2, <1>3 DEF Names, IsNumeric

(* What is read of a number: an amount it may stand for, over a span of    *)
(* words of which it alone is a number.                                    *)
LEMMA ReadingIs ==
  ASSUME WordsTyped, NEW t, NEW i \in Positions, IsNumeric(i), i \notin t.used
  PROVE  LET r == Reading(t, i) IN
         /\ r.amount \in AmountsOf(i) /\ r.amount \in Nat
         /\ r.span \subseteq Positions /\ i \in r.span
         /\ \A j \in r.span : ~Names(j) /\ (IsNumeric(j) => j = i)
         /\ Max(r.span) \in r.span /\ Max(r.span) \in {i, i + 1} /\ \A j \in r.span : j <= Max(r.span)
         /\ r = [amount |-> r.amount, unit |-> r.unit, op |-> r.op, year |-> r.year, span |-> r.span]
<1> DEFINE mag == Magnitudes[words[i]]
           next == {i + 1} \cap {j \in Positions : mag.unit = "none" /\ j \notin t.used /\ words[j] \in UnitWords}
           unit == IF next = {} THEN mag.unit ELSE words[i + 1]
           ops == OperatorsAt(t, i)
           S == {i} \cup next
           M == {i} \cup ops
           r == Reading(t, i)
<1>1. Positions = 1 .. Len(words) /\ Len(words) \in Nat /\ i \in Nat BY DEF WordsTyped
<1>2. r.amount = Scale(mag.n, unit) /\ r.span = Min(M) .. Max(S)
      /\ r = [amount |-> r.amount, unit |-> r.unit, op |-> r.op, year |-> r.year, span |-> r.span]
  BY DEF Reading
<1>3. r.amount \in AmountsOf(i)
  <2>1. unit \in {mag.unit} \cup {words[j] : j \in {i + 1} \cap {k \in Positions : words[k] \in UnitWords}} OBVIOUS
  <2> QED BY <1>2, <2>1 DEF AmountsOf
<1>4. r.amount \in Nat BY <1>3, AmountsTyped
<1>5. S \in SUBSET (0 .. i + 1) /\ S # {} /\ i + 1 \in Nat /\ S \subseteq {i, i + 1} /\ S \subseteq Positions BY <1>1
<1>6. Max(S) \in S /\ Max(S) >= i
  <2> HIDE DEF S
  <2>1. Max(S) \in S /\ \A y \in S : Max(S) >= y BY <1>5, GreatestOf
  <2> QED BY <2>1 DEF S
<1>7. i + 1 \in S => ~Names(i + 1) /\ ~IsNumeric(i + 1)
  <2> SUFFICES ASSUME i + 1 \in S PROVE ~Names(i + 1) /\ ~IsNumeric(i + 1) OBVIOUS
  <2>1. words[i + 1] \in UnitWords BY <1>1
  <2> QED BY <2>1, UnitsAre
<1>8. M \in SUBSET Nat /\ M # {} /\ M \subseteq Positions BY <1>1 DEF OperatorsAt
<1>9. Min(M) \in M /\ Min(M) <= i
  <2> HIDE DEF M
  <2>1. Min(M) \in M /\ \A y \in M : Min(M) <= y BY <1>8, LeastOf
  <2> QED BY <2>1 DEF M
<1>10. \A j \in Min(M) .. (i - 1) : ~Names(j) /\ ~IsNumeric(j)
  <2> TAKE j \in Min(M) .. (i - 1)
  <2>1. Min(M) \in ops BY <1>1, <1>8, <1>9
  <2>2. CASE j = Min(M)
    <3>1. words[j] \in MaxOps \cup MinOps BY <2>1, <2>2 DEF OperatorsAt
    <3> QED BY <3>1, UnitsAre
  <2>3. CASE j # Min(M)
    <3>1. Min(M) \in Nat BY <1>8, <1>9
    <3>2. j \in (Min(M) + 1) .. (i - 1) BY <1>1, <2>3, <3>1
    <3>3. IsStopword(j) BY <2>1, <3>2 DEF OperatorsAt
    <3>4. words[j] \in Stopwords BY <3>3 DEF IsStopword
    <3> QED BY <3>4, UnitsAre
  <2> QED BY <2>2, <2>3
<1>11. i \notin {j \in Positions : Names(j)}
  <2>1. words[i] \in {"2015", "3", "5m", "95k"} BY AmountsTyped
  <2> QED BY <2>1 DEF Names
<1>12. PICK lo \in Positions : lo = Min(M) /\ lo <= i BY <1>8, <1>9
<1>13. PICK hi \in Positions : hi = Max(S) /\ hi \in {i, i + 1} /\ (hi = i + 1 => i + 1 \in S) BY <1>5, <1>6
<1>14. r.span = lo .. hi BY <1>2, <1>12, <1>13
<1>19. lo \in Nat /\ hi \in Nat /\ lo <= i /\ i <= hi /\ lo >= 1 /\ hi <= Len(words) BY <1>1, <1>12, <1>13
<1>20. \A j \in lo .. hi : j \in 1 .. Len(words) /\ j <= hi BY <1>1, <1>19
<1>15. lo .. hi \subseteq Positions /\ i \in lo .. hi /\ hi \in lo .. hi /\ \A j \in lo .. hi : j <= hi
  BY <1>1, <1>19, <1>20
<1>16. \A j \in lo .. hi : j \in lo .. (i - 1) \/ j = i \/ (j = i + 1 /\ i + 1 \in S) BY <1>1, <1>12, <1>13
<1>17. \A j \in lo .. hi : ~Names(j) /\ (IsNumeric(j) => j = i) BY <1>7, <1>10, <1>11, <1>12, <1>16
<1>18. Max(lo .. hi) = hi
  <2>1. lo .. hi \in SUBSET (0 .. hi) /\ lo .. hi # {} /\ hi \in Nat BY <1>1, <1>15
  <2>2. PICK m : m = Max(lo .. hi) OBVIOUS
  <2>3. m \in lo .. hi /\ \A y \in lo .. hi : m >= y BY <2>1, <2>2, GreatestOf
  <2>4. m <= hi /\ m >= hi /\ m \in Nat BY <1>15, <2>1, <2>3
  <2> QED BY <2>1, <2>2, <2>4
<1> HIDE DEF r, S, M
<1> QED BY <1>2, <1>3, <1>4, <1>13, <1>14, <1>15, <1>17, <1>18 DEF r

LEMMA KindsAre == \A amount, unit, year, op : KindsOf(amount, unit, year, op) \subseteq Kinds
BY DEF KindsOf, Kinds

(* One number: taken with its operator and unit when it has a kind.        *)
LEMMA NumberKeeps ==
  ASSUME WordsTyped, NEW t, Sound(t, 0), NEW i \in Positions, IsNumeric(i), i \notin t.used, NEW kind \in Kinds
  PROVE  LET r == Reading(t, i) IN
         Sound([t EXCEPT !.used = @ \cup r.span, !.bound = ApplyBound(@, kind, r)], 0)
<1> DEFINE r == Reading(t, i)
           new == ApplyBound(t.bound, kind, r)
           used == t.used \cup r.span
           u == [t EXCEPT !.used = used, !.bound = new]
<1>1. /\ r.amount \in AmountsOf(i) /\ r.amount \in Nat /\ r.span \subseteq Positions /\ i \in r.span
      /\ \A j \in r.span : ~Names(j) /\ (IsNumeric(j) => j = i)
  BY ReadingIs
<1> HIDE DEF r
<1>2. BoundTyped(t.bound) BY DEF Sound, ParseTyped, BoundTyped
<1>3. /\ Widened(t.bound, new, {r.amount})
      /\ \E b \in DOMAIN new : IF b \in Floors THEN new[b] <= r.amount ELSE new[b] >= r.amount
  <2> DEFINE low == MinBound(t.bound, "Year", r.amount)
  <2>1. PICK year \in Kinds : year = "Year" BY DEF Kinds
  <2>2. new \in {MaxBound(t.bound, kind, r.amount), MinBound(t.bound, kind, r.amount),
                 MaxBound(low, "Year", r.amount)}
    BY DEF ApplyBound
  <2>3. CASE new = MaxBound(t.bound, kind, r.amount)
    <3>1. Widened(t.bound, new, {r.amount}) /\ MaxOf[kind] \in DOMAIN new \ Floors /\ new[MaxOf[kind]] >= r.amount
      BY <1>1, <1>2, <2>3, MaxBoundWidens
    <3> HIDE DEF new
    <3> QED BY <3>1
  <2>4. CASE new = MinBound(t.bound, kind, r.amount)
    <3>1. Widened(t.bound, new, {r.amount}) /\ MinOf[kind] \in DOMAIN new \cap Floors /\ new[MinOf[kind]] <= r.amount
      BY <1>1, <1>2, <2>4, MinBoundWidens
    <3> HIDE DEF new
    <3> QED BY <3>1
  <2>5. CASE new = MaxBound(low, "Year", r.amount)
    <3>1. Widened(t.bound, low, {r.amount}) BY <1>1, <1>2, <2>1, MinBoundWidens
    <3>2. BoundTyped(low) BY <3>1 DEF Widened
    <3> HIDE DEF low
    <3>3. Widened(low, new, {r.amount}) /\ MaxOf[year] \in DOMAIN new \ Floors /\ new[MaxOf[year]] >= r.amount
      BY <1>1, <2>1, <2>5, <3>2, MaxBoundWidens
    <3> HIDE DEF new
    <3>4. {r.amount} \cup {r.amount} = {r.amount} OBVIOUS
    <3>5. Widened(t.bound, new, {r.amount}) BY <1>2, <3>1, <3>3, <3>4, WidenedTwice
    <3> QED BY <3>3, <3>5
  <2> QED BY <2>2, <2>3, <2>4, <2>5
<1> HIDE DEF new, used
<1>4. u = [used |-> used, says |-> t.says, bound |-> new, sort |-> t.sort]
  <2>1. t \in [used : {t.used}, says : {t.says}, bound : {t.bound}, sort : {t.sort}] BY DEF Sound, ParseTyped
  <2>2. u \in [used : {used}, says : {t.says}, bound : {new}, sort : {t.sort}] BY <2>1
  <2> HIDE DEF u
  <2> QED BY <2>2
<1>5. [t EXCEPT !.used = @ \cup r.span, !.bound = ApplyBound(@, kind, r)] = u BY DEF used, new
<1> HIDE DEF u
<1>6. u.bound = new /\ u.sort = t.sort BY <1>4
<1>7. u = [used |-> t.used \cup r.span, says |-> t.says, bound |-> u.bound, sort |-> u.sort] BY <1>4 DEF used
<1>8. Bounds(u, i) BY <1>1, <1>3, <1>6 DEF Bounds
<1>9. \A a \in {r.amount} : \E j \in r.span : IsNumeric(j) /\ a \in AmountsOf(j) BY <1>1
<1>10. \A j \in r.span : (Names(j) => j \in t.used) /\ (IsNumeric(j) => j \in t.used \/ Bounds(u, j)) BY <1>1, <1>8
<1>11. Widened(t.bound, u.bound, {r.amount}) BY <1>3, <1>6
<1> DEFINE A == {r.amount}
           D == r.span
<1>12. Sound(u, 0)
  <2>1. Widened(t.bound, u.bound, A) /\ \A a \in A : \E j \in D : IsNumeric(j) /\ a \in AmountsOf(j) BY <1>9, <1>11
  <2>2. D \in SUBSET Positions BY <1>1
  <2>3. /\ \A j \in D : Names(j) => j \in t.used
        /\ \A j \in D : IsNumeric(j) => j \in t.used \/ Bounds(u, j)
    BY <1>10
  <2>4. u = [used |-> t.used \cup D, says |-> t.says, bound |-> u.bound, sort |-> u.sort] BY <1>7
  <2> HIDE DEF A, D
  <2> QED BY <2>1, <2>2, <2>3, <2>4, NumbersKeep
<1> QED BY <1>5, <1>12 DEF r

(* The next word that is open and no stopword.                             *)
NextFrom(t, from) ==
  LET open == {j \in Positions : j >= from /\ j \notin t.used /\ ~IsStopword(j)} IN
  {j \in open : j = Min(open) /\ IsNumeric(j)}

LEMMA NextIs ==
  ASSUME WordsTyped, NEW t, Sound(t, 0), NEW from \in Nat, NEW j \in NextFrom(t, from)
  PROVE  /\ j \in Positions /\ j >= from /\ j \notin t.used /\ IsNumeric(j)
         /\ \A m \in from .. (j - 1) : m \in Positions => ~Names(m) /\ (IsNumeric(m) => m \in t.used)
<1> DEFINE open == {m \in Positions : m >= from /\ m \notin t.used /\ ~IsStopword(m)}
<1>1. j \in open /\ j = Min(open) /\ IsNumeric(j) BY DEF NextFrom
<1>2. open \in SUBSET Nat BY DEF WordsTyped
<1>3. \A m \in open : j <= m
  <2> HIDE DEF open
  <2> QED BY <1>1, <1>2, LeastOf
<1>4. ASSUME NEW m \in from .. (j - 1), m \in Positions PROVE ~Names(m) /\ (IsNumeric(m) => m \in t.used)
  <2>1. m \in Nat /\ j \in Nat /\ m >= from /\ ~(j <= m) BY <1>1, <1>2, <1>4
  <2>2. m \in t.used \/ IsStopword(m) BY <1>3, <1>4, <2>1
  <2>3. CASE m \in t.used
    <3>1. ~Names(m) BY <1>4, <2>1, <2>3 DEF Sound, NamedTaken, WordsTyped
    <3> QED BY <2>3, <3>1
  <2>4. CASE IsStopword(m) BY <2>4, UnitsAre DEF IsStopword
  <2> QED BY <2>2, <2>3, <2>4
<1> QED BY <1>1, <1>4

(* A range that is made of the numbers at j and k.                         *)
RangeOf(t, i, b, j, k) ==
  /\ i < j /\ j < k /\ k <= Max(b.span) /\ IsNumeric(j) /\ IsNumeric(k)
  /\ \E x \in AmountsOf(j), y \in AmountsOf(k) :
       x \in Nat /\ y \in Nat /\ b.from = Min({x, y}) /\ b.to = Max({x, y})
  /\ \A m \in i .. Max(b.span) : m # i => ~Names(m) /\ (IsNumeric(m) => m \in t.used \cup {j, k})

(* What a range is made of: two numbers and what lies before and between.  *)
LEMMA BetweenIs ==
  ASSUME WordsTyped, NEW t, Sound(t, 0), NEW i \in Positions, NEW b \in Betweens(t, i)
  PROVE  /\ b.kind \in Kinds /\ b.span = i .. Max(b.span) /\ Max(b.span) \in Positions
         /\ \E j \in Positions, k \in Positions : RangeOf(t, i, b, j, k)
<1> DEFINE lefts == {[at |-> j, r |-> Reading(t, j)] : j \in NextFrom(t, i + 1)}
           Rights(l) == {Reading(t, j) : j \in NextFrom(t, Max(l.r.span) + 1)}
           KindsHere(l, r) == KindsOf(l.amount, IF l.unit = "none" THEN r.unit ELSE l.unit, FALSE, l.op)
           kinds == UNION {KindsHere(l.r, r) : l \in lefts, r \in UNION {Rights(l) : l \in lefts}}
           both == UNION {{<<l, r>> : r \in Rights(l)} : l \in lefts}
<1>1. Positions = 1 .. Len(words) /\ Len(words) \in Nat /\ i \in Nat /\ i + 1 \in Nat BY DEF WordsTyped
<1>2. Betweens(t, i) = {[kind |-> k, from |-> Min({p[1].r.amount, p[2].amount}), to |-> Max({p[1].r.amount, p[2].amount}),
                         span |-> i .. Max(p[2].span)] : k \in kinds, p \in both}
  BY DEF Betweens, NextFrom
<1>3. kinds \subseteq Kinds
  <2>1. \A l, r : KindsHere(l, r) \subseteq Kinds BY KindsAre
  <2> HIDE DEF lefts, Rights, KindsHere
  <2> QED BY <2>1
<1> HIDE DEF kinds
<1>4. PICK kind \in Kinds, l \in lefts : \E r \in Rights(l) :
        b = [kind |-> kind, from |-> Min({l.r.amount, r.amount}), to |-> Max({l.r.amount, r.amount}), span |-> i .. Max(r.span)]
  <2> HIDE DEF lefts, Rights
  <2> DEFINE As(k, p) == [kind |-> k, from |-> Min({p[1].r.amount, p[2].amount}), to |-> Max({p[1].r.amount, p[2].amount}),
                          span |-> i .. Max(p[2].span)]
  <2>5. Betweens(t, i) = {As(k, p) : k \in kinds, p \in both} BY <1>2
  <2> HIDE DEF both, As
  <2>6. \E k \in kinds : \E p \in both : b = As(k, p) BY <2>5
  <2>1. PICK kind \in Kinds, p \in both :
          b = [kind |-> kind, from |-> Min({p[1].r.amount, p[2].amount}), to |-> Max({p[1].r.amount, p[2].amount}),
               span |-> i .. Max(p[2].span)]
    BY <1>3, <2>6 DEF As
  <2>2. PICK l \in lefts : \E r \in Rights(l) : p = <<l, r>> BY DEF both
  <2>3. PICK r \in Rights(l) : p = <<l, r>> BY <2>2
  <2>4. p[1] = l /\ p[2] = r BY <2>3
  <2> QED BY <2>1, <2>3, <2>4
<1>5. PICK r \in Rights(l) :
        b = [kind |-> kind, from |-> Min({l.r.amount, r.amount}), to |-> Max({l.r.amount, r.amount}), span |-> i .. Max(r.span)]
  BY <1>4
<1>6. PICK j \in NextFrom(t, i + 1) : l = [at |-> j, r |-> Reading(t, j)] OBVIOUS
<1>7. PICK x : x = Reading(t, j) OBVIOUS
<1>8. l.r = x BY <1>6, <1>7
<1>9. /\ j \in Positions /\ j >= i + 1 /\ j \notin t.used /\ IsNumeric(j)
      /\ \A m \in (i + 1) .. (j - 1) : m \in Positions => ~Names(m) /\ (IsNumeric(m) => m \in t.used)
  BY <1>1, NextIs
<1>10. /\ x.amount \in AmountsOf(j) /\ x.amount \in Nat /\ x.span \subseteq Positions
       /\ Max(x.span) \in x.span /\ Max(x.span) \in {j, j + 1}
       /\ \A m \in x.span : ~Names(m) /\ (IsNumeric(m) => m = j)
  BY <1>7, <1>9, ReadingIs
<1>11. PICK last \in Positions : last = Max(x.span) /\ last \in {j, j + 1} /\ ~Names(last) /\ (IsNumeric(last) => last = j)
  BY <1>10
<1>12. PICK k \in NextFrom(t, last + 1) : r = Reading(t, k) BY <1>8, <1>11
<1>13. last + 1 \in Nat BY <1>1, <1>11
<1>14. /\ k \in Positions /\ k >= last + 1 /\ k \notin t.used /\ IsNumeric(k)
       /\ \A m \in (last + 1) .. (k - 1) : m \in Positions => ~Names(m) /\ (IsNumeric(m) => m \in t.used)
  BY <1>13, NextIs
<1>15. /\ r.amount \in AmountsOf(k) /\ r.amount \in Nat /\ r.span \subseteq Positions
       /\ Max(r.span) \in r.span /\ Max(r.span) \in {k, k + 1}
       /\ \A m \in r.span : ~Names(m) /\ (IsNumeric(m) => m = k)
  BY <1>12, <1>14, ReadingIs
<1>16. PICK end \in Positions : end = Max(r.span) /\ end \in {k, k + 1} /\ ~Names(end) /\ (IsNumeric(end) => end = k)
  BY <1>15
<1>17. b.kind = kind /\ b.from = Min({x.amount, r.amount}) /\ b.to = Max({x.amount, r.amount}) /\ b.span = i .. end
  BY <1>5, <1>8, <1>16
<1>18. Max(i .. end) = end
  <2>1. i <= end BY <1>1, <1>9, <1>11, <1>14, <1>16
  <2>2. i .. end \in SUBSET (0 .. end) /\ i .. end # {} /\ end \in Nat /\ end \in i .. end BY <1>1, <1>16, <2>1
  <2>3. PICK m : m = Max(i .. end) OBVIOUS
  <2>4. m \in i .. end /\ \A y \in i .. end : m >= y BY <2>2, <2>3, GreatestOf
  <2>5. m <= end /\ m >= end /\ m \in Nat BY <2>2, <2>4
  <2> QED BY <2>2, <2>3, <2>5
<1>19. i < j /\ j < k /\ k <= end BY <1>1, <1>9, <1>11, <1>14, <1>16
<1>20. \A m \in i .. end : m \in Positions /\ (\/ m = i \/ m \in (i + 1) .. (j - 1) \/ m = j \/ m = last
                                               \/ m \in (last + 1) .. (k - 1) \/ m = k \/ m = end)
  BY <1>1, <1>9, <1>11, <1>14, <1>16
<1>21. \A m : IsNumeric(m) => ~Names(m)
  <2> TAKE m
  <2> HAVE IsNumeric(m)
  <2>1. words[m] \in {"2015", "3", "5m", "95k"} BY AmountsTyped
  <2> QED BY <2>1 DEF Names
<1>22. \A m \in i .. end : m # i => ~Names(m) /\ (IsNumeric(m) => m \in t.used \cup {j, k})
  BY <1>9, <1>11, <1>14, <1>16, <1>20, <1>21
<1>23. b.span = i .. Max(b.span) /\ Max(b.span) = end BY <1>17, <1>18
<1>24. RangeOf(t, i, b, j, k) BY <1>9, <1>10, <1>14, <1>15, <1>17, <1>19, <1>22, <1>23 DEF RangeOf
<1> QED BY <1>9, <1>14, <1>16, <1>17, <1>23, <1>24

LEMMA RangeKeeps ==
  ASSUME WordsTyped, NEW t, Sound(t, 0), NEW i \in Positions, words[i] = "between", NEW b \in Betweens(t, i)
  PROVE  Sound([t EXCEPT !.used = @ \cup b.span, !.bound = MaxBound(MinBound(@, b.kind, b.from), b.kind, b.to)], 0)
<1>1. PICK j \in Positions, k \in Positions : RangeOf(t, i, b, j, k) BY BetweenIs
<1>23. b.kind \in Kinds /\ b.span = i .. Max(b.span) /\ Max(b.span) \in Positions BY BetweenIs
<1>2. PICK x \in AmountsOf(j), y \in AmountsOf(k) :
        x \in Nat /\ y \in Nat /\ b.from = Min({x, y}) /\ b.to = Max({x, y})
  BY <1>1 DEF RangeOf
<1>24. /\ i < j /\ j < k /\ k <= Max(b.span) /\ IsNumeric(j) /\ IsNumeric(k)
       /\ \A m \in i .. Max(b.span) : m # i => ~Names(m) /\ (IsNumeric(m) => m \in t.used \cup {j, k})
  BY <1>1 DEF RangeOf
<1> DEFINE low == MinBound(t.bound, b.kind, b.from)
           new == MaxBound(low, b.kind, b.to)
           used == t.used \cup b.span
           u == [t EXCEPT !.used = used, !.bound = new]
<1>3. b.from \in {x, y} /\ b.from <= x /\ b.from <= y /\ b.to \in {x, y} /\ b.to >= x /\ b.to >= y
  <2> DEFINE S == {x, y}
             n == x + y
  <2>1. S \in SUBSET Nat /\ S # {} /\ S \in SUBSET (0 .. n) /\ n \in Nat BY <1>2
  <2>2. b.from = Min(S) /\ b.to = Max(S) BY <1>2
  <2>3. Min(S) \in S /\ \A z \in S : Min(S) <= z BY <2>1, LeastOf
  <2>4. Max(S) \in S /\ \A z \in S : Max(S) >= z BY <2>1, GreatestOf
  <2> QED BY <2>2, <2>3, <2>4
<1>4. b.from \in Nat /\ b.to \in Nat BY <1>2, <1>3
<1>5. BoundTyped(t.bound) BY DEF Sound, ParseTyped, BoundTyped
<1>6. /\ Widened(t.bound, low, {b.from}) /\ MinOf[b.kind] \in DOMAIN low \cap Floors
      /\ low[MinOf[b.kind]] <= b.from /\ BoundTyped(low)
  <2>1. /\ Widened(t.bound, low, {b.from}) /\ MinOf[b.kind] \in DOMAIN low \cap Floors
        /\ low[MinOf[b.kind]] <= b.from
    BY <1>4, <1>5, <1>23, MinBoundWidens
  <2> HIDE DEF low
  <2> QED BY <2>1 DEF Widened
<1> HIDE DEF low
<1>7. /\ Widened(low, new, {b.to}) /\ MaxOf[b.kind] \in DOMAIN new \ Floors /\ new[MaxOf[b.kind]] >= b.to
  BY <1>4, <1>6, <1>23, MaxBoundWidens
<1> HIDE DEF new, used
<1>8. Widened(t.bound, new, {b.from} \cup {b.to}) BY <1>5, <1>6, <1>7, WidenedTwice
<1>9. /\ MinOf[b.kind] \in DOMAIN new \cap Floors /\ new[MinOf[b.kind]] <= b.from
  <2>1. new[MinOf[b.kind]] <= low[MinOf[b.kind]] /\ MinOf[b.kind] \in DOMAIN new BY <1>6, <1>7 DEF Widened
  <2>2. new[MinOf[b.kind]] \in Nat /\ low[MinOf[b.kind]] \in Nat BY <1>6, <1>7, <2>1 DEF Widened, BoundTyped
  <2> QED BY <1>4, <1>6, <2>1, <2>2
<1>10. u = [used |-> used, says |-> t.says, bound |-> new, sort |-> t.sort]
  <2>1. t \in [used : {t.used}, says : {t.says}, bound : {t.bound}, sort : {t.sort}] BY DEF Sound, ParseTyped
  <2>2. u \in [used : {used}, says : {t.says}, bound : {new}, sort : {t.sort}] BY <2>1
  <2> HIDE DEF u
  <2> QED BY <2>2
<1>11. [t EXCEPT !.used = @ \cup b.span, !.bound = MaxBound(MinBound(@, b.kind, b.from), b.kind, b.to)] = u
  BY DEF used, new, low
<1> HIDE DEF u
<1>12. u.bound = new /\ u.sort = t.sort BY <1>10
<1>13. u = [used |-> t.used \cup b.span, says |-> t.says, bound |-> u.bound, sort |-> u.sort] BY <1>10 DEF used
<1>14. new[MinOf[b.kind]] \in Nat /\ new[MaxOf[b.kind]] \in Nat BY <1>7, <1>9 DEF Widened, BoundTyped
<1>15. Bounds(u, j) /\ Bounds(u, k)
  <2>1. new[MinOf[b.kind]] <= x /\ new[MinOf[b.kind]] <= y BY <1>2, <1>3, <1>4, <1>9, <1>14
  <2> QED BY <1>2, <1>9, <1>12, <2>1 DEF Bounds
<1>16. i .. Max(b.span) \subseteq Positions /\ i \in i .. Max(b.span) /\ j \in i .. Max(b.span) /\ k \in i .. Max(b.span)
  BY <1>23, <1>24 DEF WordsTyped
<1>17. ~Names(i) /\ ~IsNumeric(i)
  <2>1. DOMAIN Magnitudes = {"2015", "3", "5m", "95k"} BY EveryIndex
  <2> QED BY <2>1 DEF Names, IsNumeric
<1>18. b.span \in SUBSET Positions /\ j \in b.span /\ k \in b.span BY <1>16, <1>23
<1>19. \A m \in b.span : (Names(m) => m \in t.used) /\ (IsNumeric(m) => m \in t.used \/ Bounds(u, m))
  BY <1>15, <1>17, <1>23, <1>24
<1>20. \A a \in {b.from} \cup {b.to} : \E m \in b.span : IsNumeric(m) /\ a \in AmountsOf(m)
  BY <1>2, <1>3, <1>18, <1>24
<1>21. Widened(t.bound, u.bound, {b.from} \cup {b.to}) BY <1>8, <1>12
<1> DEFINE A == {b.from} \cup {b.to}
           D == b.span
<1>22. Sound(u, 0)
  <2>1. Widened(t.bound, u.bound, A) /\ \A a \in A : \E m \in D : IsNumeric(m) /\ a \in AmountsOf(m) BY <1>20, <1>21
  <2>2. D \in SUBSET Positions BY <1>18
  <2>3. /\ \A m \in D : Names(m) => m \in t.used
        /\ \A m \in D : IsNumeric(m) => m \in t.used \/ Bounds(u, m)
    BY <1>19
  <2>4. u = [used |-> t.used \cup D, says |-> t.says, bound |-> u.bound, sort |-> u.sort] BY <1>13
  <2> HIDE DEF A, D
  <2> QED BY <2>1, <2>2, <2>3, <2>4, NumbersKeep
<1> QED BY <1>11, <1>22

LEMMA NumberStageKeeps ==
  ASSUME WordsTyped, NEW t, Sound(t, 0), NEW i \in Positions, i \notin t.used
  PROVE  Sound(NumberAt(t, i), 0)
<1>1. CASE words[i] = "between" /\ Betweens(t, i) # {}
  <2>1. PICK b \in Betweens(t, i) : b = CHOOSE c \in Betweens(t, i) : TRUE BY <1>1
  <2>2. ~IsNumeric(i) BY <1>1, EveryIndex DEF IsNumeric
  <2>3. NumberAt(t, i) = [t EXCEPT !.used = @ \cup b.span, !.bound = MaxBound(MinBound(@, b.kind, b.from), b.kind, b.to)]
    BY <1>1, <2>1, <2>2 DEF NumberAt
  <2>4. Sound([t EXCEPT !.used = @ \cup b.span, !.bound = MaxBound(MinBound(@, b.kind, b.from), b.kind, b.to)], 0)
    BY <1>1, RangeKeeps
  <2> QED BY <2>3, <2>4
<1>2. CASE IsNumeric(i)
  <2> DEFINE r == Reading(t, i)
             kinds == KindsOf(r.amount, r.unit, r.year, r.op)
  <2>1. words[i] # "between" BY <1>2, AmountsTyped
  <2>2. NumberAt(t, i) = IF kinds = {} THEN t
                         ELSE [t EXCEPT !.used = @ \cup r.span, !.bound = ApplyBound(@, CHOOSE k \in kinds : TRUE, r)]
    BY <1>2, <2>1 DEF NumberAt
  <2>3. CASE kinds = {} BY <2>2, <2>3
  <2>4. CASE kinds # {}
    <3>1. PICK kind \in kinds : kind = CHOOSE k \in kinds : TRUE BY <2>4
    <3>2. kind \in Kinds BY KindsAre
    <3>3. NumberAt(t, i) = [t EXCEPT !.used = @ \cup r.span, !.bound = ApplyBound(@, kind, r)] BY <2>2, <2>4, <3>1
    <3>4. Sound([t EXCEPT !.used = @ \cup r.span, !.bound = ApplyBound(@, kind, r)], 0) BY <1>2, <3>2, NumberKeeps
    <3> QED BY <3>3, <3>4
  <2> QED BY <2>3, <2>4
<1>3. CASE ~(words[i] = "between" /\ Betweens(t, i) # {}) /\ ~IsNumeric(i)
  <2>1. NumberAt(t, i) = t BY <1>3 DEF NumberAt
  <2> QED BY <2>1
<1> QED BY <1>1, <1>2, <1>3

----
(* The other stages.                                                       *)
LEMMA PhraseStageKeeps ==
  ASSUME WordsTyped, NEW k, NEW t, Sound(t, k), NEW i \in Positions
  PROVE  Sound(PhraseAt(t, i), k)
<1> DEFINE closed == ExactClosedHits(t, i, 3, 2)
           make == ExactHits(t, i, 3, MakesIndex, 2)
<1>0. PICK two \in 1 .. 2, three \in 1 .. 3 : two = 2 /\ three = 3 OBVIOUS
<1>1. make = {} BY <1>0, MakeHit
<1>2. \A h \in closed : /\ Lies(t, i, h.n) /\ \A j \in i .. (i + h.n - 1) : ~Names(j)
                        /\ h.entry \subseteq ClosedPairs
  <2> TAKE h \in closed
  <2>1. h \in ExactClosedHits(t, i, three, two) BY <1>0
  <2> QED BY <2>1, ClosedHit
<1>3. \A h \in ModelHits(t, i, 2) : /\ Lies(t, i, h.n) /\ ModelAllowed(t, h.entry)
                                    /\ \A j \in i .. (i + h.n - 1) : Names(j) => j <= k
  <2> TAKE h \in ModelHits(t, i, 2)
  <2>1. h \in ModelHits(t, i, two) BY <1>0
  <2> QED BY <2>1, ModelHit
<1>4. Sound(TakeOne(t, i, closed, "closed"), k)
  <2> HIDE DEF closed
  <2> QED BY <1>2, ClosedKeeps
<1>5. Sound(TakeOne(t, i, ModelHits(t, i, 2), "model"), k) BY <1>3, ModelKeeps
<1> DEFINE body == ExactHits(t, i, 3, BodiesIndex, 2)
<1>6. \A h \in body : Lies(t, i, h.n) /\ \A j \in i .. (i + h.n - 1) : Names(j) => j <= k
  <2> TAKE h \in body
  <2>1. h \in ExactHits(t, i, three, BodiesIndex, two) BY <1>0
  <2> QED BY <2>1, BodyHit
<1>7. Sound(TakeOne(t, i, body, "body"), k)
  <2> HIDE DEF body
  <2> QED BY <1>6, BodyKeeps
<1>8. PhraseAt(t, i) \in {TakeOne(t, i, closed, "closed"), TakeOne(t, i, ModelHits(t, i, 2), "model"),
                          TakeOne(t, i, body, "body")}
  BY <1>1 DEF PhraseAt
<1> QED BY <1>4, <1>5, <1>7, <1>8

LEMMA ExactStagesKeep ==
  ASSUME WordsTyped, NEW k, NEW t, Sound(t, k), NEW i \in Positions
  PROVE  /\ Sound(TakeOne(t, i, ModelHits(t, i, 1), "model"), k)
         /\ Sound(WordAt(t, i), k)
<1>0. PICK one \in 1 .. 2 : one = 1 /\ one \in 1 .. 3 OBVIOUS
<1>1. \A h \in ExactClosedHits(t, i, 1, 1) :
         /\ Lies(t, i, h.n) /\ \A j \in i .. (i + h.n - 1) : ~Names(j)
         /\ h.entry \subseteq ClosedPairs
  <2> TAKE h \in ExactClosedHits(t, i, 1, 1)
  <2>1. h \in ExactClosedHits(t, i, one, one) BY <1>0
  <2> QED BY <1>0, <2>1, ClosedHit
<1>2. \A h \in ModelHits(t, i, 1) : /\ Lies(t, i, h.n) /\ ModelAllowed(t, h.entry)
                                    /\ \A j \in i .. (i + h.n - 1) : Names(j) => j <= k
  <2> TAKE h \in ModelHits(t, i, 1)
  <2>1. h \in ModelHits(t, i, one) BY <1>0
  <2> QED BY <2>1, ModelHit
<1> DEFINE closed == ExactClosedHits(t, i, 1, 1)
           body == {h \in ExactHits(t, i, 1, BodiesIndex, 1) : h.entry \notin VehicleBodies}
<1>3. \A h \in body : Lies(t, i, h.n) /\ \A j \in i .. (i + h.n - 1) : Names(j) => j <= k
  <2> TAKE h \in body
  <2>1. h \in ExactHits(t, i, one, BodiesIndex, one) BY <1>0
  <2> QED BY <1>0, <2>1, BodyHit
<1>4. WordAt(t, i) \in {TakeOne(t, i, closed, "closed"), TakeOne(t, i, body, "body")} BY DEF WordAt
<1> HIDE DEF closed, body
<1>5. Sound(TakeOne(t, i, closed, "closed"), k) BY <1>1, ClosedKeeps DEF closed
<1>6. Sound(TakeOne(t, i, body, "body"), k) BY <1>3, BodyKeeps
<1>7. Sound(TakeOne(t, i, ModelHits(t, i, 1), "model"), k) BY <1>2, ModelKeeps
<1> QED BY <1>4, <1>5, <1>6, <1>7

LEMMA FuzzyStagesKeep ==
  ASSUME WordsTyped, NEW t, Sound(t, Len(words)), NEW i \in Positions
  PROVE  /\ Sound(TakeOne(t, i, FuzzyHits(t, i, 2, {"TOYOTA", "HONDA"}), "make"), Len(words))
         /\ Sound(LikeModelAt(t, i), Len(words)) /\ Sound(LikeBodyAt(t, i), Len(words))
<1>1. \A n : Lies(t, i, n) => \A j \in i .. (i + n - 1) : Names(j) => j <= Len(words) BY DEF Lies, WordsTyped
<1>2. \A h \in FuzzyHits(t, i, 2, {"TOYOTA", "HONDA"}) :
         Lies(t, i, h.n) /\ \A j \in i .. (i + h.n - 1) : Names(j) => j <= Len(words)
  BY <1>1, FuzzyHit
<1> DEFINE models == UNION {ModelsIndex[span] : span \in DOMAIN ModelsIndex}
           wanted == {m \in models : ModelAllowed(t, m)}
<1>3. LikeModelAt(t, i) = TakeOne(t, i, FuzzyHits(t, i, 2, wanted), "model") BY DEF LikeModelAt
<1>4. \A m \in wanted : ModelAllowed(t, m) OBVIOUS
<1> HIDE DEF wanted
<1>5. \A h \in FuzzyHits(t, i, 2, wanted) :
         /\ Lies(t, i, h.n) /\ ModelAllowed(t, h.entry)
         /\ \A j \in i .. (i + h.n - 1) : Names(j) => j <= Len(words)
  BY <1>1, <1>4, FuzzyHit
<1> DEFINE likely == {[n |-> 1, entry |-> b] : b \in BodiesLike(Span(i, 1)) \ VehicleBodies}
           body == {h \in likely : SpanIsOpen(t, i, 1) /\ words[i] \notin CharacterWords}
<1>6. \A h \in body : Lies(t, i, h.n) /\ \A j \in i .. (i + h.n - 1) : Names(j) => j <= Len(words)
  <2> TAKE h \in body
  <2>1. PICK n \in 1 .. 3 : n = 1 OBVIOUS
  <2>2. h.n = n /\ SpanIsOpen(t, i, n) BY <2>1
  <2>3. Lies(t, i, n) BY <2>2, PresentFits DEF SpanIsOpen
  <2> QED BY <1>1, <2>2, <2>3
<1>7. LikeBodyAt(t, i) = TakeOne(t, i, body, "body") BY DEF LikeBodyAt
<1> HIDE DEF body
<1>8. Sound(LikeBodyAt(t, i), Len(words)) BY <1>6, <1>7, BodyKeeps
<1> QED BY <1>2, <1>3, <1>5, <1>8, MakeKeeps, ModelKeeps

LEMMA SpecStageKeeps ==
  ASSUME WordsTyped, NEW t, Sound(t, 0), NEW i \in Positions
  PROVE  Sound(NumericSpecAt(t, i), 0)
<1> DEFINE nouns == {j \in Positions :
                  /\ i < j /\ j \notin t.used /\ words[j] \in DOMAIN SpecNouns
                  /\ \A k \in (i + 1) .. (j - 1) : k \notin t.used /\ IsStopword(k)
                  /\ Magnitudes[words[i]].unit = "none" /\ Magnitudes[words[i]].n \in SpecNouns[words[j]].range}
           P == {<<SpecNouns[words[j]].key, Magnitudes[words[i]].n>> : j \in nouns}
           D == {i} \cup nouns
           used == t.used \cup {i} \cup nouns
           says == t.says \cup P
           u == [t EXCEPT !.used = used, !.says = says]
<1>1. CASE ~IsNumeric(i) \/ nouns = {} BY <1>1 DEF NumericSpecAt
<1>2. CASE IsNumeric(i) /\ nouns # {}
  <2>1. NumericSpecAt(t, i) = u BY <1>2 DEF NumericSpecAt
  <2>2. D \in SUBSET Positions OBVIOUS
  <2>3. \A j \in nouns : ~Names(j) /\ ~IsNumeric(j)
    <3>1. \A j \in nouns : words[j] \in DOMAIN SpecNouns OBVIOUS
    <3> QED BY <3>1, UnitsAre
  <2>4. ~Names(i)
    <3>1. words[i] \in {"2015", "3", "5m", "95k"} BY <1>2, AmountsTyped
    <3> QED BY <3>1 DEF Names
  <2>5. \A j \in nouns : SpecNouns[words[j]].key = "seats"
    <3>1. \A w \in DOMAIN SpecNouns : SpecNouns[w].key = "seats" BY DEF SpecNouns
    <3> QED BY <3>1
  <2>6. P = {<<"seats", Magnitudes[words[i]].n>>} BY <1>2, <2>5
  <2>7. \A pair \in P : pair[1] \in Fields /\ pair[1] # "model" BY <2>6 DEF Fields
  <2>8. used = t.used \cup D OBVIOUS
  <2> HIDE DEF nouns, used, says
  <2>9. u = [used |-> used, says |-> says, bound |-> t.bound, sort |-> t.sort]
    <3>1. t \in [used : {t.used}, says : {t.says}, bound : {t.bound}, sort : {t.sort}] BY DEF Sound, ParseTyped
    <3>2. u \in [used : {used}, says : {says}, bound : {t.bound}, sort : {t.sort}] BY <3>1
    <3> HIDE DEF u
    <3> QED BY <3>2
  <2> HIDE DEF u, P
  <2>10. u = [used |-> t.used \cup D, says |-> t.says \cup P, bound |-> t.bound, sort |-> u.sort]
    BY <2>8, <2>9 DEF says
  <2>11. Magnitudes[words[i]].n \in Said("seats", u)
    <3>1. PICK p : p = <<"seats", Magnitudes[words[i]].n>> OBVIOUS
    <3>2. p \in u.says /\ p[1] = "seats" /\ p[2] = Magnitudes[words[i]].n BY <2>6, <2>10, <3>1
    <3> QED BY <3>2, SaidIs
  <2>12. \A j \in D : ~Names(j) /\ (IsNumeric(j) => j = i) BY <2>3, <2>4
  <2>13. Sound(u, 0) BY <2>2, <2>7, <2>10, <2>11, <2>12, Gains
  <2> QED BY <2>1, <2>13
<1> QED BY <1>1, <1>2

LEMMA SortKeeps ==
  ASSUME WordsTyped, NEW t, Sound(t, 0)
  PROVE  Sound(ExtractSortIntent(t), 0)
<1> DEFINE open == {i \in Positions : i \notin t.used /\ ~IsStopword(i)}
           After(i) == {j \in open : j > i /\ \A k \in open : k > i => k >= j}
           phrases == {p \in open \X open : p[2] \in After(p[1]) /\ <<words[p[1]], words[p[2]]>> \in DOMAIN SortPhrases}
           named == {i \in open : words[i] \in DOMAIN SortWords}
<1>1. ASSUME NEW D \in SUBSET Positions, \A j \in D : words[j] \in UnitWords \cup DOMAIN SortWords, NEW sort
      PROVE  Sound([t EXCEPT !.used = @ \cup D, !.sort = sort], 0)
  <2> DEFINE used == t.used \cup D
             u == [t EXCEPT !.used = used, !.sort = sort]
  <2> HIDE DEF used
  <2>1. u = [used |-> used, says |-> t.says, bound |-> t.bound, sort |-> sort]
    <3>1. t \in [used : {t.used}, says : {t.says}, bound : {t.bound}, sort : {t.sort}] BY DEF Sound, ParseTyped
    <3>2. u \in [used : {used}, says : {t.says}, bound : {t.bound}, sort : {sort}] BY <3>1
    <3> HIDE DEF u
    <3> QED BY <3>2
  <2>2. \A j \in D : ~Names(j) /\ ~IsNumeric(j) BY <1>1, UnitsAre
  <2>3. [t EXCEPT !.used = @ \cup D, !.sort = sort] = u BY DEF used
  <2> DEFINE P == {}
  <2> HIDE DEF u
  <2>4. u = [used |-> t.used \cup D, says |-> t.says \cup P, bound |-> t.bound, sort |-> u.sort] BY <2>1 DEF used
  <2>6. \A pair \in P : pair[1] \in Fields /\ pair[1] # "model" OBVIOUS
  <2> HIDE DEF P
  <2>5. Sound(u, 0) BY <2>2, <2>4, <2>6, Gains
  <2> QED BY <2>3, <2>5
<1>2. CASE phrases # {}
  <2> DEFINE First(p) == \A q \in phrases : p[1] <= q[1]
  <2>1. \E p \in phrases : First(p)
    <3> DEFINE starts == {q[1] : q \in phrases}
    <3>0. \A q \in phrases : q[1] \in open
      <4>1. phrases \subseteq open \X open OBVIOUS
      <4> HIDE DEF phrases, open
      <4> QED BY <4>1
    <3>3. open \subseteq Nat BY DEF WordsTyped
    <3>1. starts \in SUBSET Nat /\ starts # {}
      <4> HIDE DEF phrases, open
      <4> QED BY <1>2, <3>0, <3>3
    <3>2. PICK x \in starts : \A y \in starts : x <= y BY <3>1, LeastNatural
    <3> HIDE DEF phrases
    <3> QED BY <3>2
  <2>2. PICK p \in phrases : p = CHOOSE c \in phrases : First(c)
    <3> HIDE DEF phrases, First
    <3> QED BY <2>1
  <2>3. ExtractSortIntent(t) = [t EXCEPT !.used = @ \cup {p[1], p[2]}, !.sort = SortPhrases[<<words[p[1]], words[p[2]]>>]]
    BY <1>2, <2>2 DEF ExtractSortIntent
  <2>4. <<words[p[1]], words[p[2]]>> = <<"lowest", "mileage">> BY DEF SortPhrases
  <2>5. words[p[1]] = "lowest" /\ words[p[2]] = "mileage" BY <2>4
  <2> DEFINE D == {p[1], p[2]}
             sort == SortPhrases[<<words[p[1]], words[p[2]]>>]
  <2>6. D \in SUBSET Positions OBVIOUS
  <2>7. \A j \in D : words[j] \in UnitWords \cup DOMAIN SortWords BY <2>5 DEF UnitWords, SortWords
  <2>8. ExtractSortIntent(t) = [t EXCEPT !.used = @ \cup D, !.sort = sort] BY <2>3
  <2> HIDE DEF D, sort, phrases
  <2>9. Sound([t EXCEPT !.used = @ \cup D, !.sort = sort], 0) BY <1>1, <2>6, <2>7
  <2> QED BY <2>8, <2>9
<1>3. CASE phrases = {} /\ named # {}
  <2>1. named \in SUBSET Nat BY DEF WordsTyped
  <2>2. Min(named) \in named
    <3> HIDE DEF named
    <3> QED BY <1>3, <2>1, LeastOf
  <2>3. ExtractSortIntent(t) = [t EXCEPT !.used = @ \cup {Min(named)}, !.sort = SortWords[words[Min(named)]]]
    BY <1>3 DEF ExtractSortIntent
  <2> DEFINE D == {Min(named)}
             sort == SortWords[words[Min(named)]]
  <2>4. D \in SUBSET Positions /\ \A j \in D : words[j] \in UnitWords \cup DOMAIN SortWords BY <2>2
  <2>5. ExtractSortIntent(t) = [t EXCEPT !.used = @ \cup D, !.sort = sort] BY <2>3
  <2> HIDE DEF D, sort
  <2>6. Sound([t EXCEPT !.used = @ \cup D, !.sort = sort], 0) BY <1>1, <2>4
  <2> QED BY <2>5, <2>6
<1>4. CASE phrases = {} /\ named = {}
  <2>1. ExtractSortIntent(t) = t BY <1>4 DEF ExtractSortIntent
  <2> QED BY <2>1
<1> QED BY <1>2, <1>3, <1>4

(* A word that names a make is taken when the walk comes to it.            *)
LEMMA MakeStageTakes ==
  ASSUME WordsTyped, NEW i \in Positions, NEW t, Sound(t, i - 1)
  PROVE  Sound(TryOpen("make", t, i), i)
<1> DEFINE hits == ExactHits(t, i, 3, MakesIndex, 1)
<1>0. i \in Nat /\ \A j \in Positions : j \in Nat /\ (j <= i <=> j <= i - 1 \/ j = i) /\ ~(i <= i - 1) BY DEF WordsTyped
<1>1. PICK one \in 1 .. 2 : one = 1 OBVIOUS
<1>2. \A h \in hits : h.n = 1 /\ Names(i) /\ h.entry = NameOf(i) BY <1>1, MakeHit
<1>3. ~Names(i) => Sound(t, i) BY <1>0 DEF Sound, NamedTaken
<1>4. CASE i \in t.used \/ IsStopword(i)
  <2>1. ~Names(i)
    <3>1. CASE i \in t.used BY <1>0, <3>1 DEF Sound, NamedTaken
    <3>2. CASE IsStopword(i) BY <3>2, UnitsAre DEF IsStopword
    <3> QED BY <1>4, <3>1, <3>2
  <2> QED BY <1>3, <1>4, <2>1 DEF TryOpen
<1>5. CASE ~(i \in t.used \/ IsStopword(i))
  <2>1. TryOpen("make", t, i) = TakeOne(t, i, hits, "make") BY <1>5 DEF TryOpen, TryAt
  <2>2. CASE ~Names(i)
    <3>1. hits = {} BY <1>2, <2>2
    <3> QED BY <1>3, <2>1, <2>2, <3>1 DEF TakeOne
  <2>3. CASE Names(i)
    <3> DEFINE known == {n \in 1 .. 3 : SpanIsOpen(t, i, n) /\ Span(i, n) \in DOMAIN MakesIndex}
    <3>1. ~IsNumeric(i) BY <2>3, EveryIndex DEF Names, IsNumeric
    <3>2. SpanIsOpen(t, i, 1)
      <4>1. i + 1 - 1 = i /\ \A k \in i .. (i + 1 - 1) : k = i BY <1>0
      <4> QED BY <1>5, <3>1, <4>1 DEF SpanIsOpen, SpanIsPresent
    <3>3. 1 \in known BY <2>3, <3>2, NamedSpan
    <3>4. \A n \in known : n = 1
      <4> TAKE n \in known
      <4>1. n \in Nat \ {0} /\ i + n - 1 \in Positions BY DEF SpanIsOpen, SpanIsPresent
      <4> QED BY <4>1, MakeSpan
    <3>5. known = {1} BY <3>3, <3>4
    <3>6. Max(known) = 1
      <4> HIDE DEF known
      <4>1. known \in SUBSET (0 .. 3) BY <3>5
      <4> QED BY <3>3, <3>4, <4>1, GreatestOf
    <3>7. Cardinality(MakesIndex[Span(i, 1)]) = 1 /\ MakesIndex[Span(i, 1)] = {NameOf(i)}
      <4>1. PICK n \in Nat \ {0} : n = 1 OBVIOUS
      <4>2. i + n - 1 \in Positions BY <1>0, <4>1
      <4>3. MakesIndex[Span(i, n)] = {NameOf(i)} BY <2>3, <4>1, <4>2, NamedSpan, MakeSpan
      <4> QED BY <4>1, <4>3, FS_Singleton
    <3>8. hits # {}
      <4>1. hits = {[n |-> n, entry |-> e] : n \in {m \in {Max(known)} : Cardinality(MakesIndex[Span(i, m)]) = 1},
                                             e \in MakesIndex[Span(i, Max(known))]}
        BY <3>3 DEF ExactHits
      <4> DEFINE ns == {m \in {Max(known)} : Cardinality(MakesIndex[Span(i, m)]) = 1}
                 es == MakesIndex[Span(i, Max(known))]
      <4> HIDE DEF known, hits
      <4>2. 1 \in ns BY <3>6, <3>7
      <4>3. NameOf(i) \in es BY <3>6, <3>7
      <4>4. hits = {[n |-> n, entry |-> e] : n \in ns, e \in es} BY <4>1
      <4> HIDE DEF ns, es
      <4> DEFINE x == [n |-> 1, entry |-> NameOf(i)]
      <4>5. \E n \in ns, e \in es : x = [n |-> n, entry |-> e] BY <4>2, <4>3
      <4> HIDE DEF x
      <4>6. x \in hits BY <4>4, <4>5
      <4> QED BY <4>6
    <3>9. PICK h \in hits : h = CHOOSE g \in hits : TRUE BY <3>8
    <3> DEFINE pairs == {<<"make", NameOf(i)>>}
               u == Taking(t, i, 1, pairs)
               D == i .. (i + 1 - 1)
    <3>10. TakeOne(t, i, hits, "make") = u BY <1>2, <3>8, <3>9 DEF TakeOne, ApplyMake
    <3>11. u = [used |-> t.used \cup D, says |-> t.says \cup pairs, bound |-> t.bound, sort |-> t.sort]
      <4>1. PICK n : n = 1 OBVIOUS
      <4>2. ParseTyped(t) BY DEF Sound
      <4> HIDE DEF pairs
      <4>3. Taking(t, i, n, pairs) = [used |-> t.used \cup i .. (i + n - 1), says |-> t.says \cup pairs,
                                      bound |-> t.bound, sort |-> t.sort]
        BY <4>2, TakingIs
      <4> QED BY <4>1, <4>3
    <3>12. D = {i} BY <1>0
    <3> HIDE DEF u, D
    <3>13. NameOf(i) \in Said("make", u)
      <4>1. PICK p : p = <<"make", NameOf(i)>> OBVIOUS
      <4>2. p \in u.says /\ p[1] = "make" /\ p[2] = NameOf(i) BY <3>11, <4>1
      <4> QED BY <4>2, SaidIs
    <3>14. u = [used |-> t.used \cup D, says |-> t.says \cup pairs, bound |-> t.bound, sort |-> u.sort] BY <3>11
    <3>15. \A pair \in pairs : pair[1] \in Fields /\ pair[1] # "model" BY DEF Fields
    <3>16. Understood(t) BY DEF Sound, Understood
    <3>20. \A j \in D : IsNumeric(j) => Magnitudes[words[j]].n \in Said("seats", u) BY <3>1, <3>12
    <3>21. \A pair \in pairs : pair[1] = "model" => ParentOf(pair[2]) \in Said("make", u) BY <3>15
    <3>22. \A pair \in pairs : pair[1] \in Fields BY <3>15
    <3>19. D \in SUBSET Positions /\ \A j \in D : ~IsNumeric(j) BY <3>1, <3>12
    <3> HIDE DEF pairs
    <3>17. Understood(u) /\ u.used = t.used \cup D /\ \A f : Said(f, t) \subseteq Said(f, u)
      BY <3>14, <3>16, <3>19, <3>20, <3>21, <3>22, Grown
    <3>18. NamedTaken(u, i) BY <1>0, <2>3, <3>12, <3>13, <3>17 DEF Sound, NamedTaken
    <3> QED BY <2>1, <3>10, <3>17, <3>18 DEF Sound, Understood
  <2> QED BY <2>2, <2>3
<1> QED BY <1>4, <1>5

----
(* A walk of a phase that keeps a parse sound keeps it sound.              *)
LEMMA WalkKeeps ==
  ASSUME WordsTyped, NEW k, NEW s, Sound(s, k), NEW phase,
         \A t : \A i \in Positions : Sound(t, k) /\ i \notin t.used => Sound(TryAt(phase, t, i), k)
  PROVE  Sound(Walk(s, phase), k)
<1>0. Positions = 1 .. Len(words) /\ Len(words) \in Nat BY DEF WordsTyped
<1>1. PICK h : /\ h[0] = s /\ h[Len(words)] = Walk(s, phase)
               /\ \A i \in Positions : h[i] = TryOpen(phase, h[i - 1], i)
  BY WalkIsARow
<1> DEFINE bad == {i \in 0 .. Len(words) : ~Sound(h[i], k)}
<1>2. 0 \notin bad BY <1>1
<1>3. \A i \in 1 .. Len(words) : i \in bad => i - 1 \in bad
  <2> TAKE i \in 1 .. Len(words)
  <2>1. h[i] = TryOpen(phase, h[i - 1], i) /\ i - 1 \in 0 .. Len(words) BY <1>0, <1>1
  <2>2. Sound(h[i - 1], k) => Sound(h[i], k) BY <1>0, <2>1 DEF TryOpen
  <2> QED BY <2>1, <2>2
<1>4. bad = {}
  <2> HIDE DEF bad
  <2>1. bad \in SUBSET (0 .. Len(words)) BY DEF bad
  <2> QED BY <1>0, <1>2, <1>3, <2>1, Onwards
<1>5. Len(words) \in 0 .. Len(words) BY <1>0
<1> QED BY <1>1, <1>4, <1>5

LEMMA MakesAreTaken ==
  ASSUME WordsTyped, NEW s, Sound(s, 0)
  PROVE  Sound(Walk(s, "make"), Len(words))
<1>0. Positions = 1 .. Len(words) /\ Len(words) \in Nat BY DEF WordsTyped
<1>1. PICK h : /\ h[0] = s /\ h[Len(words)] = Walk(s, "make")
               /\ \A i \in Positions : h[i] = TryOpen("make", h[i - 1], i)
  BY WalkIsARow
<1> DEFINE bad == {i \in 0 .. Len(words) : ~Sound(h[i], i)}
<1>2. 0 \notin bad BY <1>1
<1>3. \A i \in 1 .. Len(words) : i \in bad => i - 1 \in bad
  <2> TAKE i \in 1 .. Len(words)
  <2>1. h[i] = TryOpen("make", h[i - 1], i) /\ i - 1 \in 0 .. Len(words) BY <1>0, <1>1
  <2>2. Sound(h[i - 1], i - 1) => Sound(h[i], i) BY <1>0, <2>1, MakeStageTakes
  <2> QED BY <2>1, <2>2
<1>4. bad = {}
  <2> HIDE DEF bad
  <2>1. bad \in SUBSET (0 .. Len(words)) BY DEF bad
  <2> QED BY <1>0, <1>2, <1>3, <2>1, Onwards
<1>5. Len(words) \in 0 .. Len(words) BY <1>0
<1> QED BY <1>1, <1>4, <1>5

LEMMA ParseQuerySound ==
  ASSUME WordsTyped
  PROVE  Sound(ParseQuery, Len(words))
<1>1. Sound(Unconsumed, 0)
  <2> DEFINE t == Unconsumed
  <2>1. t.used = {} /\ t.says = {} /\ t.bound = <<>> /\ t.sort = "none"
        /\ t = [used |-> t.used, says |-> t.says, bound |-> t.bound, sort |-> t.sort]
    BY DEF Unconsumed
  <2> HIDE DEF t
  <2>2. DOMAIN t.bound = {}
    <3>1. DOMAIN << >> = {} OBVIOUS
    <3> QED BY <2>1, <3>1
  <2>3. \A f : Said(f, t) = {} BY <2>1 DEF Said
  <2>4. \A j \in Positions : j > 0 BY DEF WordsTyped
  <2>5. NamedTaken(t, 0) BY <2>1, <2>4 DEF NamedTaken, WordsTyped
  <2>6. Sound(t, 0) BY <2>1, <2>2, <2>3, <2>5 DEF Sound, ParseTyped, HaveMakes, Tallied
  <2> QED BY <2>6 DEF t
<1>2. \A t : \A i \in Positions : Sound(t, 0) /\ i \notin t.used =>
        /\ Sound(TryAt("phrase", t, i), 0) /\ Sound(TryAt("spec", t, i), 0) /\ Sound(TryAt("number", t, i), 0)
  BY PhraseStageKeeps, SpecStageKeeps, NumberStageKeeps DEF TryAt
<1>3. \A t : \A i \in Positions : Sound(t, Len(words)) /\ i \notin t.used =>
        /\ Sound(TryAt("model", t, i), Len(words)) /\ Sound(TryAt("closed", t, i), Len(words))
        /\ Sound(TryAt("like a make", t, i), Len(words)) /\ Sound(TryAt("like a model", t, i), Len(words))
        /\ Sound(TryAt("like a body", t, i), Len(words))
  BY ExactStagesKeep, FuzzyStagesKeep DEF TryAt
<1> DEFINE counted == Walk(Walk(Walk(Unconsumed, "phrase"), "spec"), "number")
           sorted == ExtractSortIntent(counted)
           exact == StageExact(sorted)
<1>4. Sound(counted, 0)
  <2>1. Sound(Walk(Unconsumed, "phrase"), 0) BY <1>1, <1>2, WalkKeeps
  <2>2. Sound(Walk(Walk(Unconsumed, "phrase"), "spec"), 0) BY <1>2, <2>1, WalkKeeps
  <2> QED BY <1>2, <2>2, WalkKeeps
<1> HIDE DEF counted
<1>5. Sound(sorted, 0) BY <1>4, SortKeeps
<1> HIDE DEF sorted
<1>6. Sound(exact, Len(words))
  <2>1. Sound(Walk(sorted, "make"), Len(words)) BY <1>5, MakesAreTaken
  <2>2. Sound(Walk(Walk(sorted, "make"), "model"), Len(words)) BY <1>3, <2>1, WalkKeeps
  <2>3. Sound(Walk(Walk(Walk(sorted, "make"), "model"), "closed"), Len(words)) BY <1>3, <2>2, WalkKeeps
  <2> QED BY <2>3 DEF StageExact
<1> HIDE DEF exact
<1>7. Sound(StageFuzzy(exact), Len(words))
  <2>1. Sound(Walk(exact, "like a make"), Len(words)) BY <1>3, <1>6, WalkKeeps
  <2>2. Sound(Walk(Walk(exact, "like a make"), "like a model"), Len(words)) BY <1>3, <2>1, WalkKeeps
  <2>3. Sound(Walk(Walk(Walk(exact, "like a make"), "like a model"), "like a body"), Len(words)) BY <1>3, <2>2, WalkKeeps
  <2> QED BY <2>3 DEF StageFuzzy
<1>8. ParseQuery = StageFuzzy(exact) BY DEF ParseQuery, exact, sorted, counted
<1> QED BY <1>7, <1>8

----
ParserInv ==
  /\ words \in Seq(Lexicon) /\ Len(words) <= MaxWords
  /\ IF parsed = NotParsed THEN repair.consumed = {} ELSE Sound(parsed, Len(words))
  /\ repair.calls \in 0 .. 2 /\ repair.consumed \subseteq Positions
  /\ repair.consumed \cap parsed.used = {}

LEMMA WordsAre == ASSUME words \in Seq(Lexicon) PROVE WordsTyped
BY DEF WordsTyped, Positions

LEMMA NotParsedIs == NotParsed.used = {} /\ NotParsed.says = {} /\ NotParsed.bound = <<>>
<1>1. NotParsed \in [used : {{}}, says : {{}}, bound : {<<>>}, sort : {"unparsed"}] BY DEF NotParsed, Unconsumed
<1> QED BY <1>1

LEMMA ParserStart == QueryParserInit => ParserInv
<1> SUFFICES ASSUME QueryParserInit PROVE ParserInv OBVIOUS
<1>1. words \in Seq(Lexicon) /\ Len(words) = 0 BY DEF QueryParserInit
<1>2. parsed = NotParsed /\ repair.calls = 0 /\ repair.consumed = {} BY DEF QueryParserInit, NoRepair
<1> QED BY <1>1, <1>2, ParserAssumption DEF ParserInv

LEMMA ParserStep == ParserInv /\ [QueryParserNext]_parserVars => ParserInv'
<1> SUFFICES ASSUME ParserInv, [QueryParserNext]_parserVars PROVE ParserInv' OBVIOUS
<1>0. words \in Seq(Lexicon) /\ Len(words) <= MaxWords BY DEF ParserInv
<1>1. ASSUME NEW word \in Vocabulary, Type(word) PROVE ParserInv'
  <2>1. words' = Append(words, word) /\ Len(words) < MaxWords BY <1>1 DEF Type
  <2>2. word \in Lexicon BY ParserAssumption
  <2>3. words' \in Seq(Lexicon) /\ Len(words') = Len(words) + 1 BY <1>0, <2>1, <2>2
  <2>4. Len(words') <= MaxWords BY <1>0, <2>1, <2>3, ParserAssumption
  <2>5. parsed' = NotParsed /\ repair'.calls = 0 /\ repair'.consumed = {} BY <1>1 DEF Type, NoRepair
  <2>6. NotParsed' = NotParsed BY DEF NotParsed, Unconsumed
  <2> QED BY <2>3, <2>4, <2>5, <2>6 DEF ParserInv
<1>2. CASE Clear
  <2>1. words' \in Seq(Lexicon) /\ Len(words') = 0 BY <1>2 DEF Clear
  <2>2. parsed' = NotParsed /\ repair'.calls = 0 /\ repair'.consumed = {} BY <1>2 DEF Clear, NoRepair
  <2>3. NotParsed' = NotParsed BY DEF NotParsed, Unconsumed
  <2> QED BY <2>1, <2>2, <2>3, ParserAssumption DEF ParserInv
<1>3. ASSUME words' = words, NEW q, parsed' = q, Sound(q, Len(words))
      PROVE  Sound(parsed, Len(words))'
  <2>1. /\ q = [used |-> q.used, says |-> q.says, bound |-> q.bound, sort |-> q.sort]
        /\ q.used \subseteq Positions /\ (\A pair \in q.says : pair[1] \in Fields)
        /\ DOMAIN q.bound \subseteq BoundNames /\ \A b \in DOMAIN q.bound : q.bound[b] \in Nat
    BY <1>3 DEF Sound, ParseTyped
  <2>2. ParseTyped(parsed)' BY <1>3, <2>1 DEF ParseTyped, Positions, Fields, BoundNames, Range, MinOf, MaxOf
  <2>3. HaveMakes(parsed)' BY <1>3 DEF Sound, HaveMakes, Said, ParentOf
  <2>4. NamedTaken(parsed, Len(words))' BY <1>3 DEF Sound, NamedTaken, Positions, Names, NameOf, Said
  <2>6. \A j : AmountsOf(j)' = AmountsOf(j) BY <1>3, SMT DEF AmountsOf, Positions
  <2>7. \A j : IsNumeric(j)' = IsNumeric(j) BY <1>3 DEF IsNumeric
  <2>8. Tallied(q) BY <1>3 DEF Sound
  <2>9. Floors' = Floors BY DEF Floors, Range, MinOf
  <2>5. Tallied(parsed)'
    BY <1>3, <2>6, <2>7, <2>8, <2>9, SMT DEF Tallied, Bounds, Said
  <2> QED BY <2>2, <2>3, <2>4, <2>5 DEF Sound
<1>4. CASE Parse
  <2>1. WordsTyped BY <1>0, WordsAre
  <2>2. PICK q : q = ParseQuery /\ Sound(q, Len(words)) BY <2>1, ParseQuerySound
  <2>3. words' = words /\ repair' = repair /\ parsed' = q /\ parsed = NotParsed BY <1>4, <2>2 DEF Parse
  <2>4. Sound(parsed, Len(words))' BY <1>3, <2>2, <2>3
  <2>5. repair.consumed = {} /\ repair.calls \in 0 .. 2 BY <2>3 DEF ParserInv
  <2> QED BY <1>0, <2>3, <2>4, <2>5 DEF ParserInv, Positions
<1>5. ASSUME NEW outcome \in Outcomes, CallGroq(outcome) PROVE ParserInv'
  <2>1. words' = words /\ parsed' = parsed /\ parsed # NotParsed BY <1>5 DEF CallGroq
  <2>2. repair.calls \in {0, 1} BY <1>5 DEF CallGroq
  <2>3. PICK fields \in GroqAnswers :
          repair' = [calls |-> repair.calls + 1, last |-> outcome,
                     consumed |-> IF outcome = "content" THEN ConsumedTokens(fields, Positions) ELSE {}]
    BY <1>5 DEF CallGroq
  <2>4. ConsumedTokens(fields, Positions) \subseteq Positions \ parsed.used
    BY DEF ConsumedTokens, Unresolved, Meaningful
  <2>5. repair'.calls \in 0 .. 2 /\ repair'.consumed \subseteq Positions \ parsed.used BY <2>2, <2>3, <2>4
  <2>6. PICK q : parsed = q OBVIOUS
  <2>7. Sound(q, Len(words)) BY <2>1, <2>6 DEF ParserInv
  <2>8. Sound(parsed, Len(words))' BY <1>3, <2>1, <2>6, <2>7
  <2>9. Positions' = Positions BY <2>1 DEF Positions
  <2>10. NotParsed' = NotParsed BY DEF NotParsed, Unconsumed
  <2> QED BY <1>0, <2>1, <2>5, <2>8, <2>9, <2>10 DEF ParserInv
<1>6. CASE UNCHANGED parserVars
  <2>1. words' = words /\ parsed' = parsed /\ repair' = repair BY <1>6 DEF parserVars
  <2>2. PICK q : parsed = q OBVIOUS
  <2>3. parsed # NotParsed => Sound(parsed, Len(words))'
    <3>1. parsed # NotParsed => Sound(q, Len(words)) BY <2>2 DEF ParserInv
    <3> QED BY <1>3, <2>1, <2>2, <3>1
  <2>9. Positions' = Positions BY <2>1 DEF Positions
  <2>10. NotParsed' = NotParsed BY DEF NotParsed, Unconsumed
  <2> QED BY <1>0, <2>1, <2>3, <2>9, <2>10 DEF ParserInv
<1> QED BY <1>1, <1>2, <1>4, <1>5, <1>6 DEF QueryParserNext

LEMMA ParserSettled == ParserInv => QueryParserTypeOK /\ ParseIsSound
<1> SUFFICES ASSUME ParserInv PROVE QueryParserTypeOK /\ ParseIsSound OBVIOUS
<1>0. words \in Seq(Lexicon) /\ Len(words) <= MaxWords /\ repair.calls \in 0 .. 2 /\ repair.consumed \subseteq Positions
      /\ repair.consumed \cap parsed.used = {}
  BY DEF ParserInv
<1>1. CASE parsed = NotParsed
  <2>1. parsed.used = {} /\ parsed.says = {} /\ parsed.bound = <<>> BY <1>1, NotParsedIs
  <2>2. DOMAIN parsed.bound = {}
    <3>1. DOMAIN << >> = {} OBVIOUS
    <3> QED BY <2>1, <3>1
  <2> QED BY <1>0, <1>1, <2>1, <2>2 DEF QueryParserTypeOK, ParseIsSound
<1>2. CASE parsed # NotParsed
  <2>1. Sound(parsed, Len(words)) BY <1>2 DEF ParserInv
  <2>2. WordsTyped BY <1>0, WordsAre
  <2>3. QueryParserTypeOK BY <1>0, <2>1 DEF QueryParserTypeOK, Sound, ParseTyped, Fields, BoundNames
  <2>4. ModelsHaveTheirMake BY <2>1 DEF ModelsHaveTheirMake, Sound, HaveMakes
  <2>5. NamedMakesCount
    <3> SUFFICES ASSUME NEW i \in Positions, <<words[i]>> \in DOMAIN MakesIndex
                 PROVE  i \in parsed.used /\ MakesIndex[<<words[i]>>] \subseteq Said("make", parsed)
      BY DEF NamedMakesCount
    <3>1. \A a, b : <<a>> = <<b>> => a = b OBVIOUS
    <3>2. <<words[i]>> \in {<<"toyota">>, <<"honda">>} BY EveryIndex
    <3>3. words[i] \in {"toyota", "honda"} BY <3>1, <3>2
    <3>4. i <= Len(words) /\ Names(i) BY <2>2, <3>3 DEF WordsTyped, Names
    <3>5. i \in parsed.used /\ NameOf(i) \in Said("make", parsed) BY <2>1, <3>4 DEF Sound, NamedTaken
    <3>6. MakesIndex[<<words[i]>>] = {NameOf(i)} BY <3>3, EveryIndex DEF NameOf
    <3> QED BY <3>5, <3>6
  <2>6. NumbersCount BY <2>1 DEF NumbersCount, Sound, Tallied, Bounds, Floors
  <2> QED BY <1>0, <2>3, <2>4, <2>5, <2>6 DEF ParseIsSound
<1> QED BY <1>1, <1>2

(* The state of the parser has its types.                                  *)
THEOREM ParserTyped == QueryParserSpec => []QueryParserTypeOK
<1>1. QueryParserSpec => []ParserInv BY ParserStart, ParserStep, PTL DEF QueryParserSpec
<1> QED BY <1>1, ParserSettled, PTL

(* What the parser says is in the text (deterministic-parser.ts): a model  *)
(* comes with its make, every make that is named counts, every number that *)
(* was taken is a number of seats or within its bound, each bound is an    *)
(* amount that was typed, and what the model repaired was not understood   *)
(* already.                                                                *)
THEOREM ParsesAreSound == QueryParserSpec => []ParseIsSound
<1>1. QueryParserSpec => []ParserInv BY ParserStart, ParserStep, PTL DEF QueryParserSpec
<1> QED BY <1>1, ParserSettled, PTL

----
(* What a search is widened to (NaturalSearch).                            *)

(* A search that ended without a vehicle.                                  *)
Empty == search.pc = "answered" /\ search.items = {}

(* No vehicle within the ceiling meets what is left of the other filters.  *)
NoneWithin ==
  \A v \in stock : Meets(v, "maxPrice", "said") =>
    \E f \in QueryFields \ {"maxPrice"} : ~Meets(v, f, filters[f])

SearchInv ==
  /\ SearchTypeOK
  /\ search.pc \in {"repair", "count"} => search.dropped = {}
  /\ search.pc = "repair" => filters = rules
  /\ search.pc # "answered" => search.items = {}
  /\ Empty \/ \A f \in QueryFields : rules[f] = "unset" \/ f \in search.dropped \/ filters[f] = rules[f]
  /\ rank = "gates" => ~HasResolvedFilters(filters)
  /\ search.pc = "recount" /\ search.natural => HasResolvedFilters(filters)
  /\ search.pc = "items" /\ search.natural /\ search.dropped # {} => HasResolvedFilters(filters)
  /\ search.pc = "relax" /\ ~sold /\ HasResolvedFilters(filters) => Found(filters, stock) = {}
  /\ "maxPrice" \in search.dropped => search.natural /\ search.next = 10
  /\ "maxPrice" \in search.dropped /\ ~sold => NoneWithin
  /\ search.pc = "answered" =>
       /\ search.items \subseteq Found(filters, stock)
       /\ search.items # {} /\ search.natural /\ search.dropped # {} => HasResolvedFilters(filters)

LEMMA RelaxOrder ==
  /\ Len(Relaxable) = 9 /\ Len(DetailRules) = 3
  /\ ToSet(DetailRules) \subseteq ToSet(Relaxable)
  /\ \A k \in 1 .. 9 : Relaxable[k] \in ToSet(Relaxable) /\ (Relaxable[k] = "maxPrice" => k = 9)
  /\ \A k \in 1 .. 3 : DetailRules[k] \in ToSet(Relaxable) /\ DetailRules[k] # "maxPrice"
<1> USE DEF Relaxable, DetailRules, ToSet
<1>1. Len(Relaxable) = 9 /\ Len(DetailRules) = 3 OBVIOUS
<1>2. /\ DetailRules[1] = Relaxable[2] /\ DetailRules[2] = Relaxable[3] /\ DetailRules[3] = Relaxable[4]
      /\ DOMAIN DetailRules = {1, 2, 3} /\ DOMAIN Relaxable = 1 .. 9 OBVIOUS
<1>3. \A k \in 1 .. 9 : Relaxable[k] \in ToSet(Relaxable) BY <1>2
<1>4. \A k \in 1 .. 9 : Relaxable[k] = "maxPrice" => k = 9 OBVIOUS
<1>5. \A k \in 1 .. 3 : DetailRules[k] \in ToSet(Relaxable) /\ DetailRules[k] # "maxPrice"
  <2> TAKE k \in 1 .. 3
  <2>1. k = 1 \/ k = 2 \/ k = 3 OBVIOUS
  <2> QED BY <2>1, <1>2, <1>3
<1>6. ToSet(DetailRules) \subseteq ToSet(Relaxable) BY <1>2, <1>3
<1> QED BY <1>1, <1>3, <1>4, <1>5, <1>6

LEMMA RelaxStepsSound ==
  ASSUME SearchTypeOK, search.next <= Len(RelaxSteps)
  PROVE  /\ RelaxSteps[search.next] \in ToSet(Relaxable) /\ search.next \in 1 .. 9
         /\ RelaxSteps[search.next] = "maxPrice" => search.natural /\ search.next = 9
<1>1. search.next \in Nat /\ search.next >= 1 BY RelaxOrder DEF SearchTypeOK
<1>2. CASE search.natural
  <2>1. RelaxSteps = Relaxable BY <1>2 DEF RelaxSteps
  <2>2. search.next \in 1 .. 9 BY <1>1, <2>1, RelaxOrder
  <2> QED BY <1>2, <2>1, <2>2, RelaxOrder
<1>3. CASE ~search.natural
  <2>1. RelaxSteps = DetailRules BY <1>3 DEF RelaxSteps
  <2>2. search.next \in 1 .. 3 BY <1>1, <2>1, RelaxOrder
  <2> QED BY <2>1, <2>2, RelaxOrder
<1> QED BY <1>2, <1>3

LEMMA SearchStart == SearchInit => SearchInv
<1> SUFFICES ASSUME SearchInit PROVE SearchInv OBVIOUS
<1>1. PICK natural \in BOOLEAN :
        search = [NewSearch EXCEPT !.natural = natural, !.pc = IF natural THEN "repair" ELSE "count"]
  BY DEF SearchInit
<1>2. search = [pc |-> IF natural THEN "repair" ELSE "count", next |-> 1, natural |-> natural,
                dropped |-> {}, counted |-> {}, items |-> {}]
  BY <1>1 DEF NewSearch
<1>3. rules \in Answers
  <2>1. rules \in [QueryFields -> {"unset", "said"}] BY DEF SearchInit
  <2> QED BY <2>1 DEF Answers
<1>4. search \in [pc : {"repair", "count", "relax", "recount", "items", "answered"},
                  next : 1 .. Len(Relaxable) + 1, natural : BOOLEAN,
                  dropped : SUBSET ToSet(Relaxable),
                  counted : SUBSET StockVehicles, items : SUBSET StockVehicles]
  BY <1>2, RelaxOrder
<1>5. SearchTypeOK BY <1>3, <1>4 DEF SearchTypeOK, SearchInit
<1> QED BY <1>2, <1>5 DEF SearchInv, SearchInit

LEMMA AnswerTyped ==
  ASSUME rules \in Answers, NEW chosen \in LlmAnswers
  PROVE  /\ MergeFilters(Whitelisted(chosen)) \in Answers
         /\ \A f \in QueryFields : rules[f] = "unset" \/ MergeFilters(Whitelisted(chosen))[f] = rules[f]
<1>1. chosen \in Answers BY DEF LlmAnswers, Answers
<1>2. Whitelisted(chosen) \in Answers BY <1>1 DEF Whitelisted, Answers
<1> DEFINE given == Whitelisted(chosen)
<1>3. \A f \in QueryFields : given[f] \in {"unset", "said", "other", "near", "far"} BY <1>2 DEF Answers
<1>4. \A f \in QueryFields : rules[f] \in {"unset", "said", "other", "near", "far"} BY DEF Answers
<1> HIDE DEF given
<1>5. MergeFilters(given) \in Answers BY <1>3, <1>4 DEF MergeFilters, Answers
<1>6. \A f \in QueryFields : rules[f] = "unset" \/ MergeFilters(given)[f] = rules[f]
  BY DEF MergeFilters
<1> QED BY <1>5, <1>6 DEF given

LEMMA RepairKeeps ==
  ASSUME SearchInv, NEW leftover \in BOOLEAN,
         RulesOnly(leftover) \/ \E chosen \in LlmAnswers : RepairQuery(chosen, leftover)
  PROVE  SearchInv'
<1>1. /\ search.pc = "repair" /\ search' = [search EXCEPT !.pc = "count"]
      /\ UNCHANGED <<stock, rules, sold>> /\ rank' \in ChosenRanks(leftover, filters')
      /\ filters' \in Answers /\ \A f \in QueryFields : rules[f] = "unset" \/ filters'[f] = rules[f]
  <2>1. CASE RulesOnly(leftover) BY <2>1 DEF RulesOnly, SearchInv, SearchTypeOK
  <2>2. CASE \E chosen \in LlmAnswers : RepairQuery(chosen, leftover)
    BY <2>2, AnswerTyped DEF RepairQuery, SearchInv, SearchTypeOK
  <2> QED BY <2>1, <2>2
<1>2. search' = [pc |-> "count", next |-> search.next, natural |-> search.natural, dropped |-> {},
                 counted |-> search.counted, items |-> {}]
  BY <1>1 DEF SearchInv, SearchTypeOK
<1>3. rank' \in {"none", "orders", "gates"} /\ (rank' = "gates" => ~HasResolvedFilters(filters'))
  BY <1>1 DEF ChosenRanks
<1>4. SearchTypeOK' BY <1>1, <1>2, <1>3 DEF SearchInv, SearchTypeOK
<1>5. SearchInv' BY <1>1, <1>2, <1>3, <1>4 DEF SearchInv
<1> QED BY <1>5

(* Count and Recount: what is found, if anything is.                       *)
LEMMA CountKeeps ==
  ASSUME SearchInv, Count \/ Recount
  PROVE  SearchInv'
<1>1. /\ search.pc \in {"count", "recount"} /\ UNCHANGED <<stock, rules, filters, rank, sold>>
      /\ search.pc = "count" => search.dropped = {}
  BY DEF SearchInv, Count, Recount, CountQuery
<1>2. PICK gated \in (IF rank = "gates" THEN SUBSET stock ELSE {stock}) :
        search' = IF Found(filters, gated) # {}
                  THEN [search EXCEPT !.pc = "items", !.counted = Found(filters, gated)]
                  ELSE [search EXCEPT !.pc = "relax"]
  BY DEF Count, Recount, CountQuery
<1> DEFINE found == Found(filters, gated)
<1>3. /\ found \subseteq Found(filters, stock) /\ found \subseteq StockVehicles
      /\ HasResolvedFilters(filters) => found = Found(filters, stock)
  BY DEF Found, SearchInv, SearchTypeOK
<1>4. Found(filters, stock)' = Found(filters, stock) /\ HasResolvedFilters(filters)' = HasResolvedFilters(filters)
  BY <1>1 DEF Found, HasResolvedFilters, Meets
<1>5. search \in [pc : {"repair", "count", "relax", "recount", "items", "answered"},
                  next : 1 .. Len(Relaxable) + 1, natural : BOOLEAN,
                  dropped : SUBSET ToSet(Relaxable),
                  counted : SUBSET StockVehicles, items : SUBSET StockVehicles]
  BY DEF SearchInv, SearchTypeOK
<1>6. NoneWithin => NoneWithin' BY <1>1 DEF NoneWithin, Meets
<1> HIDE DEF found
<1>7. CASE found # {}
  <2>1. search' = [pc |-> "items", next |-> search.next, natural |-> search.natural,
                   dropped |-> search.dropped, counted |-> found, items |-> search.items]
    BY <1>2, <1>5, <1>7 DEF found
  <2>2. SearchTypeOK' BY <1>1, <1>3, <1>5, <2>1 DEF SearchInv, SearchTypeOK
  <2>3. search.natural /\ search.dropped # {} => HasResolvedFilters(filters)
    BY <1>1 DEF SearchInv
  <2> QED BY <1>1, <1>3, <1>4, <1>6, <1>7, <2>1, <2>2, <2>3 DEF SearchInv, Empty
<1>8. CASE found = {}
  <2>1. search' = [pc |-> "relax", next |-> search.next, natural |-> search.natural,
                   dropped |-> search.dropped, counted |-> search.counted, items |-> search.items]
    BY <1>2, <1>5, <1>8 DEF found
  <2>2. SearchTypeOK' BY <1>1, <1>5, <2>1 DEF SearchInv, SearchTypeOK
  <2>3. search'.items = {} BY <1>1, <2>1 DEF SearchInv
  <2> QED BY <1>1, <1>3, <1>4, <1>6, <1>8, <2>1, <2>2, <2>3 DEF SearchInv, Empty
<1> QED BY <1>7, <1>8

(* Items: what is left of it.                                              *)
LEMMA ItemsKeep ==
  ASSUME SearchInv, Items
  PROVE  SearchInv'
<1> DEFINE found == Found(filters, search.counted)
<1>1. search.pc = "items" /\ UNCHANGED <<stock, rules, filters, rank, sold>> BY DEF Items
<1>2. found \subseteq Found(filters, stock) /\ found \subseteq StockVehicles
  BY DEF Found, SearchInv, SearchTypeOK
<1>3. Found(filters, stock)' = Found(filters, stock) /\ HasResolvedFilters(filters)' = HasResolvedFilters(filters)
  BY <1>1 DEF Found, HasResolvedFilters, Meets
<1>4. NoneWithin => NoneWithin' BY <1>1 DEF NoneWithin, Meets
<1>5. search' = [pc |-> "answered", next |-> search.next, natural |-> search.natural,
                 dropped |-> search.dropped, counted |-> {}, items |-> found]
  BY DEF Items, SearchInv, SearchTypeOK
<1> HIDE DEF found
<1>6. SearchTypeOK' BY <1>1, <1>2, <1>5 DEF SearchInv, SearchTypeOK
<1> QED BY <1>1, <1>2, <1>3, <1>4, <1>5, <1>6 DEF SearchInv, Empty

(* Every band holds what is within the ceiling.                            *)
LEMMA WithinIsMet ==
  ASSUME NEW v, NEW value, Meets(v, "maxPrice", "said")
  PROVE  Meets(v, "maxPrice", value)
BY DEF Meets, Bands, Ranges

LEMMA RelaxKeeps ==
  ASSUME SearchInv, Relax
  PROVE  SearchInv'
<1> DEFINE given == RelaxSteps[search.next]
<1>1. /\ search.pc = "relax" /\ search.next <= Len(RelaxSteps) /\ UNCHANGED <<stock, rules, sold>>
  BY DEF Relax
<1>2. /\ given \in ToSet(Relaxable) /\ search.next \in 1 .. 9
      /\ given = "maxPrice" => search.natural /\ search.next = 9
  BY <1>1, RelaxStepsSound DEF SearchInv
<1>3. search \in [pc : {"repair", "count", "relax", "recount", "items", "answered"}, next : 1 .. 10,
                  natural : BOOLEAN, dropped : SUBSET ToSet(Relaxable),
                  counted : SUBSET StockVehicles, items : SUBSET StockVehicles]
  BY RelaxOrder DEF SearchInv, SearchTypeOK
<1>4. "maxPrice" \notin search.dropped /\ search.items = {} BY <1>1, <1>2 DEF SearchInv
<1>5. /\ Applies(given) =>
           /\ filters' = Relaxed(given)
           /\ rank' = IF given = "semanticText" THEN "none" ELSE rank
           /\ search' = [search EXCEPT
                !.next = @ + 1, !.dropped = @ \cup {given},
                !.pc = IF search.natural /\ ~HasResolvedFilters(filters')
                       THEN "relax" ELSE "recount"]
      /\ ~Applies(given) =>
           search' = [search EXCEPT !.next = @ + 1] /\ UNCHANGED <<filters, rank>>
  BY DEF Relax
<1> HIDE DEF given
<1>6. CASE ~Applies(given)
  <2>1. search' = [pc |-> "relax", next |-> search.next + 1, natural |-> search.natural,
                   dropped |-> search.dropped, counted |-> search.counted, items |-> {}]
    BY <1>1, <1>3, <1>4, <1>5, <1>6
  <2>2. SearchTypeOK' BY <1>1, <1>2, <1>3, <1>4, <1>5, <1>6, <2>1, RelaxOrder DEF SearchInv, SearchTypeOK
  <2>3. Found(filters, stock)' = Found(filters, stock) /\ HasResolvedFilters(filters)' = HasResolvedFilters(filters)
    BY <1>1, <1>5, <1>6 DEF Found, HasResolvedFilters, Meets
  <2> QED BY <1>1, <1>4, <1>5, <1>6, <2>1, <2>2, <2>3 DEF SearchInv, Empty
<1>7. CASE Applies(given)
  <2>1. search' = [pc |-> IF search.natural /\ ~HasResolvedFilters(filters') THEN "relax" ELSE "recount",
                   next |-> search.next + 1, natural |-> search.natural,
                   dropped |-> search.dropped \cup {given}, counted |-> search.counted, items |-> {}]
    BY <1>3, <1>4, <1>5, <1>7
  <2>2. filters' \in Answers /\ \A f \in QueryFields : f # given => filters'[f] = filters[f]
    <3>1. filters \in Answers BY DEF SearchInv, SearchTypeOK
    <3> QED BY <1>5, <1>7, <3>1 DEF Relaxed, Answers
  <2>4. given # "semanticText" => given \in QueryFields /\ HasResolvedFilters(filters)
    BY <1>7 DEF Applies, HasResolvedFilters
  <2>5. SearchTypeOK' BY <1>1, <1>2, <1>3, <1>5, <1>7, <2>1, <2>2, RelaxOrder DEF SearchInv, SearchTypeOK
  <2>6. "maxPrice" \in search'.dropped => given = "maxPrice" BY <1>4, <2>1
  <2>7. given = "maxPrice" /\ ~sold => NoneWithin'
    <3> SUFFICES ASSUME given = "maxPrice", ~sold, NEW v \in stock, Meets(v, "maxPrice", "said"),
                        \A f \in QueryFields \ {"maxPrice"} : Meets(v, f, filters'[f])
                 PROVE  FALSE
      BY <1>1 DEF NoneWithin, Meets
    <3>1. \A f \in QueryFields : Meets(v, f, filters[f])
      BY <2>2, WithinIsMet
    <3>2. v \in Found(filters, stock) BY <3>1 DEF Found
    <3>3. HasResolvedFilters(filters) BY <2>4
    <3> QED BY <1>1, <3>2, <3>3 DEF SearchInv
  <2>8. rank' = "gates" => ~HasResolvedFilters(filters')
    BY <1>5, <1>7, <2>4 DEF SearchInv, Relaxed
  <2> QED BY <1>1, <1>2, <1>3, <1>4, <1>5, <1>7, <2>1, <2>2, <2>5, <2>6, <2>7, <2>8 DEF SearchInv, Empty
<1> QED BY <1>6, <1>7

LEMMA SellKeeps ==
  ASSUME SearchInv, NEW v \in stock, Sell(v)
  PROVE  SearchInv'
<1>1. /\ search.pc \notin {"repair", "answered"} /\ stock' \subseteq stock
      /\ sold' = TRUE /\ UNCHANGED <<rules, filters, rank, search>>
  BY DEF Sell
<1>2. SearchTypeOK' BY <1>1 DEF SearchInv, SearchTypeOK
<1> QED BY <1>1, <1>2 DEF SearchInv, Empty, HasResolvedFilters

LEMMA SearchStep == SearchInv /\ [SearchNext]_naturalVars => SearchInv'
<1> SUFFICES ASSUME SearchInv, [SearchNext]_naturalVars PROVE SearchInv' OBVIOUS
<1>1. ASSUME NEW leftover \in BOOLEAN,
             RulesOnly(leftover) \/ \E chosen \in LlmAnswers : RepairQuery(chosen, leftover)
      PROVE  SearchInv'
  BY <1>1, RepairKeeps
<1>2. CASE Count \/ Recount BY <1>2, CountKeeps
<1>3. CASE Relax BY <1>3, RelaxKeeps
<1>4. CASE GiveUp
  <2>1. search' = [pc |-> "answered", next |-> search.next, natural |-> search.natural, dropped |-> {},
                   counted |-> search.counted, items |-> {}]
    BY <1>4 DEF GiveUp, SearchInv, SearchTypeOK
  <2>2. SearchTypeOK' BY <1>4, <2>1 DEF GiveUp, SearchInv, SearchTypeOK
  <2> QED BY <1>4, <2>1, <2>2 DEF GiveUp, SearchInv, Empty, HasResolvedFilters
<1>5. ASSUME NEW v \in stock, Sell(v) PROVE SearchInv' BY <1>5, SellKeeps
<1>6. CASE UNCHANGED naturalVars
  BY <1>6 DEF naturalVars, SearchInv, SearchTypeOK, Empty, HasResolvedFilters, Found, NoneWithin, Meets
<1>7. CASE Items BY <1>7, ItemsKeep
<1> QED BY <1>1, <1>2, <1>3, <1>4, <1>5, <1>6, <1>7 DEF SearchNext

LEMMA SearchSettled == SearchInv => RelaxationIsHonest
<1> SUFFICES ASSUME SearchInv PROVE RelaxationIsHonest OBVIOUS
<1>1. ShowsVehicles => \A v \in search.items : v \in stock /\ \A f \in QueryFields : Meets(v, f, filters[f])
  BY DEF ShowsVehicles, SearchInv, Found
<1>2. NoticeIsComplete
  <2> SUFFICES ASSUME ShowsVehicles, NEW v \in search.items, NEW f \in QueryFields, f \notin search.dropped
               PROVE  Meets(v, f, rules[f])
    BY DEF NoticeIsComplete
  <2>1. rules[f] = "unset" \/ filters[f] = rules[f] BY DEF SearchInv, ShowsVehicles, Empty
  <2>2. CASE rules[f] = "unset" BY <2>2 DEF Meets
  <2>3. CASE filters[f] = rules[f] BY <1>1, <2>3
  <2> QED BY <2>1, <2>2, <2>3
<1>3. PriceGivesWayLast BY <1>1 DEF PriceGivesWayLast, SearchInv, NoneWithin
<1>4. NeverTheWholeCatalogue BY DEF NeverTheWholeCatalogue, ShowsVehicles, SearchInv
<1> QED BY <1>2, <1>3, <1>4 DEF RelaxationIsHonest

(* The state of a search has its types.                                    *)
THEOREM SearchTyped == SearchSpec => []SearchTypeOK
<1>1. SearchInv => SearchTypeOK BY DEF SearchInv
<1> QED BY <1>1, SearchStart, SearchStep, PTL DEF SearchSpec

(* The vehicles that a widened search shows meet all that was asked but    *)
(* what the notice names, the ceiling on the price goes last, and the      *)
(* whole catalogue is never the answer (nl-search.service.ts).             *)
THEOREM SearchesAreHonest == SearchSpec => []RelaxationIsHonest
<1> QED BY SearchStart, SearchStep, SearchSettled, PTL DEF SearchSpec

----
(* The lists of options (SearchOptions).                                   *)

Unchanged(choices, b) == \A e \in choices : since[e] < b

(* The rows of a question that were read at b or later: what has not been  *)
(* changed since is in them as it is.                                      *)
StatsRead(rows, b) ==
  Unchanged(DOMAIN Stock \cup Dealers, b) =>
    /\ "totals" \in DOMAIN rows => rows["totals"] = Totals
    /\ "types" \in DOMAIN rows => rows["types"] = PerType
    /\ "makes" \in DOMAIN rows => rows["makes"] = PerMake

MakesRead(q, makes, b) ==
  /\ \A m \in makes : m \in OptionMakes /\ InScope(m, q)
  /\ \A m \in OptionMakes : since[m] < b => (m \in makes <=> m \in activeEntries /\ InScope(m, q))

ModelsRead(q, makes, models, b) ==
  /\ \A m \in models : m \in Models /\ InScope(m, q) /\ MakeOf[m] \in makes
  /\ \A m \in Models : since[m] < b =>
       (m \in models <=> m \in activeEntries /\ InScope(m, q) /\ MakeOf[m] \in makes)

DistrictsRead(districts, b) ==
  /\ \A v \in live : since[v] < b => Stock[v].district \in districts
  /\ Unchanged(DOMAIN Stock, b) => districts = Districts

ReadSince(q, rows, b) ==
  /\ rows = [x \in DOMAIN rows |-> rows[x]] /\ DOMAIN rows \subseteq Queries(q)
  /\ q = "stats" => StatsRead(rows, b)
  /\ q # "stats" =>
       /\ "makes" \in DOMAIN rows => MakesRead(q, rows["makes"], b)
       /\ "models" \in DOMAIN rows => "makes" \in DOMAIN rows /\ ModelsRead(q, rows["makes"], rows["models"], b)
       /\ "districts" \in DOMAIN rows => DistrictsRead(rows["districts"], b)

UnderWay(load) ==
  /\ load.question \in Questions /\ load.began \in Nat /\ load.began <= clock /\ clock <= load.began + MaxLoad
  /\ ReadSince(load.question, load.rows, load.began)

(* An answer to q that may be served until then.                           *)
Answers0(q, rows, until) ==
  /\ DOMAIN rows = Queries(q)
  /\ \E b \in Nat : b <= clock /\ until <= b + MaxLoad + OptionsTTL /\ ReadSince(q, rows, b)

OptionsInv ==
  /\ SearchOptionsTypeOK
  /\ loads = [l \in Loads |-> loads[l]]
  /\ \A l \in Loads :
       /\ loads[l] = [question |-> loads[l].question, rows |-> loads[l].rows, began |-> loads[l].began]
       /\ loads[l] = NoLoad \/ UnderWay(loads[l])
  /\ cache = [q \in Questions |-> cache[q]]
  /\ \A q \in Questions : cache[q].expires = 0 \/ Answers0(q, cache[q].rows, cache[q].expires)
  /\ served.question # "none" => Answers0(served.question, served.rows, clock + 1)

LEMMA OptionsStart == SearchOptionsInit => OptionsInv
<1> SUFFICES ASSUME SearchOptionsInit PROVE OptionsInv OBVIOUS
<1>1. \A q \in Questions : cache[q] = NotKept BY DEF SearchOptionsInit
<1>2. \A l \in Loads : loads[l] = NoLoad BY DEF SearchOptionsInit
<1>3. since \in [Catalogue -> 0 .. MaxClock] BY OptionsAssumption DEF SearchOptionsInit
<1>4. activeEntries \subseteq OptionMakes \cup Models /\ live \subseteq DOMAIN Stock /\ verified \subseteq Dealers
  BY DEF SearchOptionsInit, Models, MakeOf, Stock, Dealers
<1>5. asked \subseteq Questions BY DEF SearchOptionsInit, Questions, Types
<1>6. SearchOptionsTypeOK
  BY <1>1, <1>2, <1>3, <1>4, <1>5, OptionsAssumption
  DEF SearchOptionsInit, SearchOptionsTypeOK, NotKept, NoLoad, NothingServed
<1>7. loads = [l \in Loads |-> loads[l]] /\ cache = [q \in Questions |-> cache[q]]
  BY DEF SearchOptionsInit
<1> QED BY <1>1, <1>2, <1>6, <1>7 DEF OptionsInv, SearchOptionsInit, NotKept, NoLoad, NothingServed

(* Nothing read changes while the catalogue does not.                      *)
LEMMA ReadingStays ==
  ASSUME UNCHANGED <<activeEntries, live, verified, since>>, NEW q, NEW rows, NEW b, ReadSince(q, rows, b)
  PROVE  ReadSince(q, rows, b)'
BY DEF ReadSince, StatsRead, MakesRead, ModelsRead, DistrictsRead, Unchanged, Totals, PerType, PerMake,
       Districts

LEMMA RowIs ==
  ASSUME NEW load
  PROVE  /\ Row(load, "totals") = Totals /\ Row(load, "types") = PerType /\ Row(load, "districts") = Districts
         /\ Row(load, "makes") = IF load.question = "stats" THEN PerMake ELSE MakeRows(load.question)
         /\ Row(load, "models") = ModelRows(load.question, load.rows["makes"])
BY DEF Row

(* What is read agrees with what is.                                       *)
LEMMA RowIsRead ==
  ASSUME NEW load, ReadSince(load.question, load.rows, load.began), NEW query \in Queries(load.question),
         query \notin DOMAIN load.rows, query = "models" => "makes" \in DOMAIN load.rows
  PROVE  ReadSince(load.question,
                   [x \in DOMAIN load.rows \cup {query} |-> IF x = query THEN Row(load, query) ELSE load.rows[x]],
                   load.began)
<1> DEFINE fresh == [x \in DOMAIN load.rows \cup {query} |-> IF x = query THEN Row(load, query) ELSE load.rows[x]]
<1>1. /\ fresh = [x \in DOMAIN fresh |-> fresh[x]] /\ DOMAIN fresh \subseteq Queries(load.question)
      /\ DOMAIN fresh = DOMAIN load.rows \cup {query} /\ fresh[query] = Row(load, query)
      /\ \A x \in DOMAIN load.rows : fresh[x] = load.rows[x]
  BY DEF ReadSince
<1> SUFFICES ReadSince(load.question, fresh, load.began) OBVIOUS
<1> HIDE DEF fresh
<1>2. CASE load.question = "stats"
  <2>1. query \in {"totals", "types", "makes"} BY <1>2 DEF Queries
  <2>2. StatsRead(load.rows, load.began) BY <1>2 DEF ReadSince
  <2>3. StatsRead(fresh, load.began) BY <1>1, <1>2, <2>1, <2>2, RowIs DEF StatsRead
  <2> QED BY <1>1, <1>2, <2>3 DEF ReadSince
<1>3. CASE load.question # "stats"
  <2>1. query \in {"makes", "models", "districts"} BY <1>3 DEF Queries
  <2>2. /\ "makes" \in DOMAIN load.rows => MakesRead(load.question, load.rows["makes"], load.began)
        /\ "models" \in DOMAIN load.rows =>
             "makes" \in DOMAIN load.rows
               /\ ModelsRead(load.question, load.rows["makes"], load.rows["models"], load.began)
        /\ "districts" \in DOMAIN load.rows => DistrictsRead(load.rows["districts"], load.began)
    BY <1>3 DEF ReadSince
  <2>3. MakesRead(load.question, MakeRows(load.question), load.began) BY DEF MakesRead, MakeRows
  <2>4. \A makes : ModelsRead(load.question, makes, ModelRows(load.question, makes), load.began)
    BY DEF ModelsRead, ModelRows
  <2>5. DistrictsRead(Districts, load.began) BY DEF DistrictsRead, Districts
  <2>6. "makes" \in DOMAIN fresh => MakesRead(load.question, fresh["makes"], load.began)
    BY <1>1, <1>3, <2>2, <2>3, RowIs
  <2>7. "models" \in DOMAIN fresh =>
          "makes" \in DOMAIN fresh /\ ModelsRead(load.question, fresh["makes"], fresh["models"], load.began)
    BY <1>1, <2>1, <2>2, <2>4, RowIs
  <2>8. "districts" \in DOMAIN fresh => DistrictsRead(fresh["districts"], load.began)
    BY <1>1, <2>2, <2>5, RowIs
  <2> QED BY <1>1, <1>3, <2>6, <2>7, <2>8 DEF ReadSince
<1> QED BY <1>2, <1>3

(* An edit unsettles what it changes.                                      *)
LEMMA EditKeepsReading ==
  ASSUME OptionsInv, NEW x \in Subject, EditStock(x), NEW q, NEW rows, NEW b \in Nat, b <= clock,
         ReadSince(q, rows, b)
  PROVE  ReadSince(q, rows, b)'
<1>1. /\ x \in Catalogue /\ since \in [Catalogue -> 0 .. MaxClock]
      /\ since' = [since EXCEPT ![x] = clock]
      /\ activeEntries' = IF x \in OptionMakes \cup Models THEN Toggled(activeEntries, x) ELSE activeEntries
      /\ live' = IF x \in DOMAIN Stock THEN Toggled(live, x) ELSE live
      /\ verified' = IF x \in Dealers THEN Toggled(verified, x) ELSE verified
      /\ live \subseteq DOMAIN Stock
  BY DEF EditStock, OptionsInv, SearchOptionsTypeOK, Subject, Catalogue
<1>2. since'[x] = clock /\ \A c \in Catalogue : c # x => since'[c] = since[c] BY <1>1
<1>3. \A choices \in SUBSET Catalogue : Unchanged(choices, b)' => Unchanged(choices, b) /\ x \notin choices
  BY <1>2, OptionsAssumption DEF Unchanged, OptionsInv, SearchOptionsTypeOK
<1>4. \A c \in Catalogue : since'[c] < b => since[c] < b /\ c # x
  BY <1>2, OptionsAssumption DEF OptionsInv, SearchOptionsTypeOK
<1>5. DOMAIN Stock \subseteq Catalogue /\ Dealers \subseteq Catalogue /\ OptionMakes \subseteq Catalogue
      /\ Models \subseteq Catalogue
  BY DEF Catalogue
<1>6. StatsRead(rows, b) => StatsRead(rows, b)'
  <2> SUFFICES ASSUME StatsRead(rows, b), Unchanged(DOMAIN Stock \cup Dealers, b)'
               PROVE  /\ "totals" \in DOMAIN rows => rows["totals"] = Totals'
                      /\ "types" \in DOMAIN rows => rows["types"] = PerType'
                      /\ "makes" \in DOMAIN rows => rows["makes"] = PerMake'
    BY DEF StatsRead
  <2>1. Unchanged(DOMAIN Stock \cup Dealers, b) /\ x \notin DOMAIN Stock \cup Dealers BY <1>3, <1>5
  <2>2. live' = live /\ verified' = verified BY <1>1, <2>1
  <2> QED BY <2>1, <2>2 DEF StatsRead, Totals, PerType, PerMake
<1>7. \A makes : MakesRead(q, makes, b) => MakesRead(q, makes, b)'
  BY <1>1, <1>4, <1>5 DEF MakesRead, Toggled
<1>8. \A makes, models : ModelsRead(q, makes, models, b) => ModelsRead(q, makes, models, b)'
  BY <1>1, <1>4, <1>5 DEF ModelsRead, Toggled
<1>9. \A districts : DistrictsRead(districts, b) => DistrictsRead(districts, b)'
  <2> TAKE districts
  <2> HAVE DistrictsRead(districts, b)
  <2>1. \A v \in live' : since'[v] < b => Stock[v].district \in districts
    BY <1>1, <1>4, <1>5 DEF DistrictsRead, Toggled
  <2>2. Unchanged(DOMAIN Stock, b)' => districts = Districts'
    BY <1>1, <1>3, <1>5 DEF DistrictsRead, Districts
  <2> QED BY <2>1, <2>2 DEF DistrictsRead
<1> QED BY <1>6, <1>7, <1>8, <1>9 DEF ReadSince

LEMMA EditKeeps ==
  ASSUME OptionsInv, NEW x \in Subject, EditStock(x)
  PROVE  OptionsInv'
<1>1. x \in Catalogue /\ UNCHANGED <<cache, loads, asked, clock>> /\ served' = NothingServed
      /\ edits < MaxEdits /\ edits' = edits + 1
  BY DEF EditStock, Subject, Catalogue
<1>2. SearchOptionsTypeOK'
  <2>1. /\ activeEntries' \subseteq OptionMakes \cup Models /\ live' \subseteq DOMAIN Stock
        /\ verified' \subseteq Dealers
    BY DEF EditStock, Toggled, OptionsInv, SearchOptionsTypeOK
  <2>2. since' \in [Catalogue -> 0 .. MaxClock] BY <1>1 DEF EditStock, OptionsInv, SearchOptionsTypeOK
  <2> QED BY <1>1, <2>1, <2>2, OptionsAssumption DEF OptionsInv, SearchOptionsTypeOK, NothingServed
<1>3. \A l \in Loads : UnderWay(loads[l]) => UnderWay(loads[l])'
  <2> TAKE l \in Loads
  <2> HAVE UnderWay(loads[l])
  <2>1. PICK load : load = loads[l] OBVIOUS
  <2>2. ReadSince(load.question, load.rows, load.began)' BY <2>1, EditKeepsReading DEF UnderWay
  <2> QED BY <1>1, <2>1, <2>2 DEF UnderWay
<1>4. \A q, rows, until : Answers0(q, rows, until) => Answers0(q, rows, until)'
  <2> TAKE q, rows, until
  <2> HAVE Answers0(q, rows, until)
  <2>1. PICK b \in Nat : b <= clock /\ until <= b + MaxLoad + OptionsTTL /\ ReadSince(q, rows, b)
    BY DEF Answers0
  <2>2. ReadSince(q, rows, b)' BY <2>1, EditKeepsReading
  <2> QED BY <1>1, <2>1, <2>2 DEF Answers0
<1>5. \A q \in Questions : cache'[q].expires = 0 \/ Answers0(q, cache[q].rows, cache[q].expires)'
  <2> TAKE q \in Questions
  <2>1. PICK kept : kept = cache[q] OBVIOUS
  <2> QED BY <1>1, <1>4, <2>1 DEF OptionsInv
<1> QED BY <1>1, <1>2, <1>3, <1>5 DEF OptionsInv, NothingServed

(* While the catalogue stays, answers stay good as long as they are.       *)
LEMMA AnswersStay ==
  ASSUME UNCHANGED <<activeEntries, live, verified, since>>, clock \in Nat, clock' \in Nat, clock <= clock',
         NEW q, NEW rows, NEW until, Answers0(q, rows, until)
  PROVE  Answers0(q, rows, until)'
<1>1. PICK b \in Nat : b <= clock /\ until <= b + MaxLoad + OptionsTTL /\ ReadSince(q, rows, b)
  BY DEF Answers0
<1>2. ReadSince(q, rows, b)' BY <1>1, ReadingStays
<1> QED BY <1>1, <1>2 DEF Answers0

LEMMA LoadsStay ==
  ASSUME UNCHANGED <<activeEntries, live, verified, since>>, clock' = clock, NEW load, UnderWay(load)
  PROVE  UnderWay(load)'
BY ReadingStays DEF UnderWay

(* What of a step that changes neither the catalogue nor the time is left  *)
(* to show.                                                                *)
LEMMA Quietly ==
  ASSUME OptionsInv, UNCHANGED <<activeEntries, live, verified, since, asked, clock, edits>>,
         loads' = [l \in Loads |-> loads'[l]], cache' = [q \in Questions |-> cache'[q]],
         \A l \in Loads :
           /\ loads'[l] = [question |-> loads'[l].question, rows |-> loads'[l].rows, began |-> loads'[l].began]
           /\ loads'[l] \in {loads[l], NoLoad} \/ UnderWay(loads'[l]),
         \A q \in Questions :
           \/ cache'[q] = cache[q]
           \/ cache'[q].expires \in 0 .. (MaxClock + OptionsTTL) /\ Answers0(q, cache'[q].rows, cache'[q].expires),
         \/ served'.question = "none"
         \/ served'.question \in Questions /\ Answers0(served'.question, served'.rows, clock + 1)
  PROVE  OptionsInv'
<1>1. \A l \in Loads : loads'[l] = NoLoad \/ UnderWay(loads[l])'
  <2> TAKE l \in Loads
  <2>1. PICK load : load = loads'[l] OBVIOUS
  <2>2. load = NoLoad \/ UnderWay(load) BY <2>1 DEF OptionsInv
  <2> QED BY <2>1, <2>2, LoadsStay
<1>2. \A q \in Questions : cache'[q].expires = 0 \/ Answers0(q, cache[q].rows, cache[q].expires)'
  <2> TAKE q \in Questions
  <2>1. PICK kept : kept = cache'[q] OBVIOUS
  <2>2. kept.expires = 0 \/ Answers0(q, kept.rows, kept.expires) BY <2>1 DEF OptionsInv
  <2> QED BY <2>1, <2>2, AnswersStay, OptionsAssumption DEF OptionsInv, SearchOptionsTypeOK
<1>3. served'.question # "none" => Answers0(served.question, served.rows, clock + 1)'
  <2>1. PICK s : s = served' OBVIOUS
  <2>2. s.question # "none" => Answers0(s.question, s.rows, clock + 1) BY <2>1
  <2> QED BY <2>1, <2>2, AnswersStay, OptionsAssumption DEF OptionsInv, SearchOptionsTypeOK
<1>4. SearchOptionsTypeOK'
  <2>1. \A l \in Loads : loads'[l].question \in Questions \cup {"none"}
    BY DEF OptionsInv, SearchOptionsTypeOK, UnderWay, NoLoad
  <2>2. \A q \in Questions : cache'[q].expires \in 0 .. (MaxClock + OptionsTTL) BY DEF OptionsInv, SearchOptionsTypeOK
  <2>3. served'.question \in Questions \cup {"none"} OBVIOUS
  <2> QED BY <2>1, <2>2, <2>3 DEF OptionsInv, SearchOptionsTypeOK
<1> QED BY <1>1, <1>2, <1>3, <1>4 DEF OptionsInv

LEMMA ClockTyped == OptionsInv => /\ clock \in Nat /\ clock <= MaxClock /\ asked \subseteq Questions
                                  /\ \A q \in Questions : cache[q].expires \in Nat
BY OptionsAssumption DEF OptionsInv, SearchOptionsTypeOK

LEMMA ServeKeeps ==
  ASSUME OptionsInv, NEW question \in asked, ServeKept(question)
  PROVE  OptionsInv'
<1>1. question \in Questions /\ clock \in Nat /\ cache[question].expires \in Nat BY ClockTyped
<1>2. /\ cache[question].expires > clock
      /\ served' = [question |-> question, rows |-> cache[question].rows]
      /\ UNCHANGED <<activeEntries, live, verified, since, cache, loads, asked, clock, edits>>
  BY DEF ServeKept, CacheKey
<1>3. Answers0(question, cache[question].rows, cache[question].expires) BY <1>1, <1>2 DEF OptionsInv
<1>4. Answers0(question, cache[question].rows, clock + 1)
  <2>1. PICK b \in Nat : /\ b <= clock /\ cache[question].expires <= b + MaxLoad + OptionsTTL
                         /\ ReadSince(question, cache[question].rows, b)
    BY <1>3 DEF Answers0
  <2>2. clock + 1 <= b + MaxLoad + OptionsTTL BY <1>1, <1>2, <2>1, OptionsAssumption
  <2> QED BY <1>3, <2>1, <2>2 DEF Answers0
<1> QED BY <1>1, <1>2, <1>4, Quietly DEF OptionsInv

LEMMA NothingRead == \A q, b : ReadSince(q, NoRows, b)
BY DEF ReadSince, NoRows, StatsRead

LEMMA LoadOptionsKeeps ==
  ASSUME OptionsInv, NEW question \in asked, NEW l \in Loads, Load(l, question)
  PROVE  OptionsInv'
<1> DEFINE load == [question |-> question, rows |-> NoRows, began |-> clock]
<1>1. /\ loads' = [loads EXCEPT ![l] = load] /\ served' = NothingServed
      /\ UNCHANGED <<activeEntries, live, verified, since, cache, asked, clock, edits>>
  BY DEF Load
<1>2. UnderWay(load) BY ClockTyped, NothingRead, OptionsAssumption DEF UnderWay
<1>3. load = [question |-> load.question, rows |-> load.rows, began |-> load.began] OBVIOUS
<1> HIDE DEF load
<1>4. loads' = [k \in Loads |-> loads'[k]] /\ loads'[l] = load /\ \A k \in Loads \ {l} : loads'[k] = loads[k]
  BY <1>1 DEF OptionsInv
<1> QED BY <1>1, <1>2, <1>3, <1>4, Quietly DEF OptionsInv, NothingServed

LEMMA ReadKeeps ==
  ASSUME OptionsInv, NEW l \in Loads, loads[l] # NoLoad, NEW query \in Queries(loads[l].question), Read(l, query)
  PROVE  OptionsInv'
<1> DEFINE old == loads[l]
           fresh == [x \in DOMAIN old.rows \cup {query} |-> IF x = query THEN Row(old, query) ELSE old.rows[x]]
           load == [question |-> old.question, rows |-> fresh, began |-> old.began]
<1>1. /\ old = [question |-> old.question, rows |-> old.rows, began |-> old.began] /\ UnderWay(old)
      /\ query \notin DOMAIN old.rows /\ (query = "models" => "makes" \in DOMAIN old.rows)
      /\ UNCHANGED <<activeEntries, live, verified, since, cache, asked, clock, edits>>
      /\ served' = NothingServed
  BY DEF OptionsInv, Read
<1>2. loads' = [loads EXCEPT ![l].rows = fresh] BY DEF Read
<1>3. ReadSince(old.question, fresh, old.began) BY <1>1, RowIsRead DEF UnderWay
<1> HIDE DEF fresh, old
<1>4. UnderWay(load) BY <1>1, <1>3 DEF UnderWay
<1>5. loads' = [loads EXCEPT ![l] = load]
  <2>1. loads' = [loads EXCEPT ![l] = [old EXCEPT !.rows = fresh]] BY <1>2 DEF old
  <2>2. [old EXCEPT !.rows = fresh] = load BY <1>1
  <2> QED BY <2>1, <2>2
<1>6. load = [question |-> load.question, rows |-> load.rows, began |-> load.began] OBVIOUS
<1> HIDE DEF load
<1>7. loads' = [k \in Loads |-> loads'[k]] /\ loads'[l] = load /\ \A k \in Loads \ {l} : loads'[k] = loads[k]
  BY <1>5 DEF OptionsInv
<1> QED BY <1>1, <1>4, <1>6, <1>7, Quietly DEF OptionsInv, NothingServed

LEMMA Freed ==
  ASSUME OptionsInv, NEW l \in Loads, loads' = [loads EXCEPT ![l] = NoLoad]
  PROVE  /\ loads' = [k \in Loads |-> loads'[k]]
         /\ \A k \in Loads : /\ loads'[k] \in {loads[k], NoLoad}
                            /\ loads'[k] = [question |-> loads'[k].question, rows |-> loads'[k].rows,
                                            began |-> loads'[k].began]
<1>1. NoLoad = [question |-> NoLoad.question, rows |-> NoLoad.rows, began |-> NoLoad.began] BY DEF NoLoad
<1> QED BY <1>1 DEF OptionsInv

LEMMA KeepKeeps ==
  ASSUME OptionsInv, NEW l \in Loads, loads[l] # NoLoad, KeepAnswer(l)
  PROVE  OptionsInv'
<1> DEFINE load == loads[l]
           kept == [rows |-> load.rows, expires |-> clock + OptionsTTL]
<1>1. /\ UnderWay(load) /\ DOMAIN load.rows = Queries(load.question)
      /\ cache' = [cache EXCEPT ![load.question] = kept]
      /\ served' = [question |-> load.question, rows |-> load.rows]
      /\ loads' = [loads EXCEPT ![l] = NoLoad]
      /\ UNCHANGED <<activeEntries, live, verified, since, asked, clock, edits>>
  BY DEF KeepAnswer, CacheKey, OptionsInv
<1> HIDE DEF load
<1>2. Answers0(load.question, load.rows, clock + OptionsTTL) /\ Answers0(load.question, load.rows, clock + 1)
  <2>1. /\ load.began \in Nat /\ load.began <= clock /\ clock <= load.began + MaxLoad
        /\ ReadSince(load.question, load.rows, load.began)
    BY <1>1 DEF UnderWay
  <2>2. /\ clock + OptionsTTL <= load.began + MaxLoad + OptionsTTL
        /\ clock + 1 <= load.began + MaxLoad + OptionsTTL
    BY <2>1, ClockTyped, OptionsAssumption
  <2> QED BY <1>1, <2>1, <2>2 DEF Answers0
<1>3. load.question \in Questions BY <1>1 DEF UnderWay
<1>4. /\ cache' = [q \in Questions |-> cache'[q]] /\ cache'[load.question] = kept
      /\ \A q \in Questions \ {load.question} : cache'[q] = cache[q]
  BY <1>1, <1>3 DEF OptionsInv
<1>5. kept.expires \in 0 .. (MaxClock + OptionsTTL) BY ClockTyped, OptionsAssumption
<1> QED BY <1>1, <1>2, <1>3, <1>4, <1>5, Freed, Quietly

LEMMA FailKeeps ==
  ASSUME OptionsInv, NEW l \in Loads, LoadFails(l)
  PROVE  OptionsInv'
BY Freed, Quietly DEF LoadFails, OptionsInv, NothingServed

LEMMA TimeKeeps == ASSUME OptionsInv, TimePasses PROVE OptionsInv'
<1>1. /\ clock < MaxClock /\ clock' = clock + 1 /\ served' = NothingServed
      /\ \A l \in Loads : loads[l] # NoLoad => clock + 1 <= loads[l].began + MaxLoad
      /\ UNCHANGED <<activeEntries, live, verified, since, cache, loads, asked, edits>>
  BY DEF TimePasses
<1>2. clock \in Nat /\ clock' \in 0 .. MaxClock /\ clock <= clock' BY <1>1, ClockTyped, OptionsAssumption
<1>3. SearchOptionsTypeOK' BY <1>1, <1>2 DEF OptionsInv, SearchOptionsTypeOK, NothingServed
<1>4. \A l \in Loads : loads[l] = NoLoad \/ UnderWay(loads[l])'
  <2> TAKE l \in Loads
  <2>1. PICK load : load = loads[l] OBVIOUS
  <2>2. load = NoLoad \/ (UnderWay(load) /\ clock' <= load.began + MaxLoad) BY <1>1, <2>1 DEF OptionsInv
  <2>3. UnderWay(load) => ReadSince(load.question, load.rows, load.began)' BY <1>1, ReadingStays DEF UnderWay
  <2>4. UnderWay(load) /\ clock' <= load.began + MaxLoad => UnderWay(load)' BY <1>2, <2>3 DEF UnderWay
  <2> QED BY <1>1, <2>1, <2>2, <2>4
<1>5. \A q \in Questions : cache[q].expires = 0 \/ Answers0(q, cache[q].rows, cache[q].expires)'
  <2> TAKE q \in Questions
  <2>1. PICK kept : kept = cache[q] OBVIOUS
  <2>2. kept.expires = 0 \/ Answers0(q, kept.rows, kept.expires) BY <2>1 DEF OptionsInv
  <2>3. clock' \in Nat BY <1>2
  <2> QED BY <1>1, <1>2, <2>1, <2>2, <2>3, AnswersStay
<1> QED BY <1>1, <1>3, <1>4, <1>5 DEF OptionsInv, NothingServed

LEMMA OptionsStep == OptionsInv /\ [SearchOptionsNext]_optionVars => OptionsInv'
<1> SUFFICES ASSUME OptionsInv, [SearchOptionsNext]_optionVars PROVE OptionsInv' OBVIOUS
<1>1. ASSUME NEW question \in asked, ServeKept(question) PROVE OptionsInv' BY <1>1, ServeKeeps
<1>2. ASSUME NEW question \in asked, NEW l \in Loads, Load(l, question) PROVE OptionsInv' BY <1>2, LoadOptionsKeeps
<1>3. ASSUME NEW l \in Loads, loads[l] # NoLoad, NEW query \in Queries(loads[l].question), Read(l, query)
      PROVE  OptionsInv'
  BY <1>3, ReadKeeps
<1>4. ASSUME NEW l \in Loads, loads[l] # NoLoad, KeepAnswer(l) \/ LoadFails(l) PROVE OptionsInv'
  BY <1>4, KeepKeeps, FailKeeps
<1>5. ASSUME NEW x \in Subject, EditStock(x) PROVE OptionsInv' BY <1>5, EditKeeps
<1>6. CASE TimePasses BY <1>6, TimeKeeps
<1>7. CASE UNCHANGED optionVars
  <2>1. UNCHANGED <<activeEntries, live, verified, since, cache, loads, served, asked, clock, edits>>
    BY <1>7 DEF optionVars
  <2>2. served.question = "none" \/ served.question \in Questions BY DEF OptionsInv, SearchOptionsTypeOK
  <2> QED BY <2>1, <2>2, Quietly DEF OptionsInv
<1> QED BY <1>1, <1>2, <1>3, <1>4, <1>5, <1>6, <1>7 DEF SearchOptionsNext

LEMMA OptionsSettled == OptionsInv => OptionsAreRecent
<1> SUFFICES ASSUME OptionsInv, served.question # "none" PROVE OptionsAreRecent
  BY DEF OptionsAreRecent
<1>1. PICK b \in Nat : /\ b <= clock /\ clock + 1 <= b + MaxLoad + OptionsTTL
                       /\ ReadSince(served.question, served.rows, b)
                       /\ DOMAIN served.rows = Queries(served.question)
  BY DEF OptionsInv, Answers0
<1>2. \A choices \in SUBSET Catalogue : Steady(choices) => Unchanged(choices, b)
  BY <1>1, ClockTyped, OptionsAssumption DEF Steady, Unchanged, OptionsInv, SearchOptionsTypeOK
<1>3. DOMAIN Stock \subseteq Catalogue /\ Dealers \subseteq Catalogue /\ OptionMakes \subseteq Catalogue
      /\ Models \subseteq Catalogue
  BY DEF Catalogue
<1>4. CASE served.question = "stats"
  <2>1. DOMAIN served.rows = {"totals", "types", "makes"} BY <1>1, <1>4 DEF Queries
  <2>2. Steady(DOMAIN Stock \cup Dealers) =>
          served.rows["totals"] = Totals /\ served.rows["types"] = PerType /\ served.rows["makes"] = PerMake
    BY <1>1, <1>2, <1>3, <1>4, <2>1 DEF ReadSince, StatsRead
  <2>3. served.rows = [x \in {"totals", "types", "makes"} |-> served.rows[x]] BY <1>1, <2>1 DEF ReadSince
  <2>4. Steady(DOMAIN Stock \cup Dealers) =>
          served.rows = [totals |-> Totals, types |-> PerType, makes |-> PerMake]
    BY <2>2, <2>3
  <2> QED BY <1>4, <2>4 DEF OptionsAreRecent
<1>5. CASE served.question # "stats"
  <2> DEFINE q == served.question
             rows == served.rows
  <2>1. DOMAIN rows = {"makes", "models", "districts"} BY <1>1, <1>5 DEF Queries
  <2>2. /\ MakesRead(q, rows["makes"], b) /\ ModelsRead(q, rows["makes"], rows["models"], b)
        /\ DistrictsRead(rows["districts"], b)
    BY <1>1, <1>5, <2>1 DEF ReadSince
  <2>3. \A m \in OptionMakes : Steady({m}) => (m \in rows["makes"] <=> m \in MakeRows(q))
    BY <1>2, <1>3, <2>2 DEF MakesRead, MakeRows, Unchanged
  <2>4. \A m \in Models : Steady({m, MakeOf[m]}) => (m \in rows["models"] <=> m \in ModelRows(q, MakeRows(q)))
    <3> SUFFICES ASSUME NEW m \in Models, Steady({m, MakeOf[m]})
                 PROVE  m \in rows["models"] <=> m \in ModelRows(q, MakeRows(q))
      OBVIOUS
    <3>1. MakeOf[m] \in OptionMakes BY DEF Models, MakeOf, OptionMakes
    <3>2. Steady({MakeOf[m]}) /\ since[m] < b BY <1>2, <1>3, <3>1 DEF Steady, Unchanged
    <3>3. MakeOf[m] \in rows["makes"] <=> MakeOf[m] \in MakeRows(q) BY <2>3, <3>1, <3>2
    <3> QED BY <2>2, <3>2, <3>3 DEF ModelsRead, ModelRows
  <2>5. /\ \A m \in rows["makes"] : InScope(m, q)
        /\ \A m \in rows["models"] : InScope(m, q) /\ MakeOf[m] \in rows["makes"]
    BY <2>2 DEF MakesRead, ModelsRead
  <2>6. live \subseteq DOMAIN Stock BY DEF OptionsInv, SearchOptionsTypeOK
  <2>7. \A v \in live : Steady({v}) => Stock[v].district \in rows["districts"]
    BY <1>2, <1>3, <2>2, <2>6 DEF DistrictsRead, Unchanged
  <2>8. Steady(DOMAIN Stock) => rows["districts"] = Districts BY <1>2, <1>3, <2>2 DEF DistrictsRead
  <2> QED BY <1>5, <2>3, <2>4, <2>5, <2>7, <2>8 DEF OptionsAreRecent
<1> QED BY <1>4, <1>5

(* Cache, loads and the catalogue behind them have their types.            *)
THEOREM OptionsTyped == SearchOptionsSpec => []SearchOptionsTypeOK
<1>1. OptionsInv => SearchOptionsTypeOK BY DEF OptionsInv
<1> QED BY <1>1, OptionsStart, OptionsStep, PTL DEF SearchOptionsSpec

(* What is offered to choose was true at some time within the life of a    *)
(* kept answer and the length of a load (search-options.service.ts).       *)
THEOREM OptionsRecent == SearchOptionsSpec => []OptionsAreRecent
<1> QED BY OptionsStart, OptionsStep, OptionsSettled, PTL DEF SearchOptionsSpec

----
(* The facets (SearchOptions).                                             *)

(* The demands that a query string becomes.                                *)
FilterNames == {"car", "bike", "boat", "toyota", "honda"}
Filtered ==
  [types : SUBSET FilterNames, makes : SUBSET FilterNames, fuels : SUBSET FilterNames, verifiedDealersOnly : BOOLEAN,
   specs : {"absent", "body_type:SUV", "body_type", "wings:TWO"}, maxPrice : 1 .. 2, page : 1 .. 2]

SumOf(S) == MapThenSumSet(LAMBDA b : b.count, S)

(* The sum of the counts of two buckets at the most.                       *)
LEMMA SumOfTwo ==
  ASSUME NEW a, NEW b, a # b, a.count \in Nat, b.count \in Nat, NEW S \in SUBSET {a, b}
  PROVE  SumOf(S) = (IF a \in S THEN a.count ELSE 0) + (IF b \in S THEN b.count ELSE 0)
<1> DEFINE Sums(h) == h = [s \in SUBSET S |-> IF s = {} THEN 0 ELSE LET x == CHOOSE x \in s : TRUE IN x.count + h[s \ {x}]]
           sum == [s \in SUBSET S |-> (IF a \in s THEN a.count ELSE 0) + (IF b \in s THEN b.count ELSE 0)]
<1>1. SumOf(S) = (CHOOSE h : Sums(h))[S] BY DEF SumOf, MapThenSumSet, MapThenFoldSet
<1>2. Sums(sum)
  <2>1. ASSUME NEW s \in SUBSET S
        PROVE  sum[s] = IF s = {} THEN 0 ELSE LET x == CHOOSE x \in s : TRUE IN x.count + sum[s \ {x}]
    <3>1. CASE s = {} BY <3>1
    <3>2. CASE s # {}
      <4>1. PICK x : x = CHOOSE y \in s : TRUE OBVIOUS
      <4>2. x \in s /\ (x = a \/ x = b) BY <3>2, <4>1
      <4>3. s \ {x} \in SUBSET S OBVIOUS
      <4>4. sum[s] = x.count + sum[s \ {x}] BY <4>2, <4>3
      <4> QED BY <3>2, <4>1, <4>4
    <3> QED BY <3>1, <3>2
  <2> QED BY <2>1
<1>3. ASSUME NEW h, Sums(h) PROVE h[S] = sum[S]
  <2>1. \A s \in SUBSET S : h[s] = IF s = {} THEN 0 ELSE LET x == CHOOSE x \in s : TRUE IN x.count + h[s \ {x}] BY <1>3
  <2>2. h[{}] = 0 BY <2>1
  <2>3. ASSUME NEW x \in S PROVE h[{x}] = x.count
    <3>1. PICK z : z = CHOOSE y \in {x} : TRUE OBVIOUS
    <3>2. z = x /\ {x} \ {x} = {} /\ {x} # {} /\ x.count \in Nat /\ {x} \in SUBSET S BY <3>1
    <3>3. h[{x}] = z.count + h[{x} \ {z}] BY <2>1, <3>1, <3>2
    <3> QED BY <2>2, <3>2, <3>3
  <2>4. CASE S = {a, b}
    <3>1. PICK x : x = CHOOSE y \in S : TRUE OBVIOUS
    <3>2. x \in S /\ S # {} /\ S \ {x} \in SUBSET S BY <2>4, <3>1
    <3>3. h[S] = x.count + h[S \ {x}] BY <2>1, <3>1, <3>2
    <3>4. (x = a /\ S \ {x} = {b}) \/ (x = b /\ S \ {x} = {a}) BY <2>4, <3>2
    <3>5. h[{a}] = a.count /\ h[{b}] = b.count BY <2>3, <2>4
    <3>6. sum[S] = a.count + b.count BY <2>4
    <3> HIDE DEF sum
    <3>7. h[S] = a.count + b.count
      <4>1. CASE x = a /\ S \ {x} = {b} 
        <5>1. h[S \ {x}] = b.count BY <3>5, <4>1
        <5> QED BY <3>3, <4>1, <5>1
      <4>2. CASE x = b /\ S \ {x} = {a}
        <5>1. h[S \ {x}] = a.count BY <3>5, <4>2
        <5>2. h[S] = b.count + a.count BY <3>3, <4>2, <5>1
        <5> QED BY <5>2
      <4> QED BY <3>4, <4>1, <4>2
    <3> QED BY <3>6, <3>7
  <2>5. CASE S = {a} BY <2>3, <2>5
  <2>6. CASE S = {b} BY <2>3, <2>6
  <2>7. CASE S = {} BY <2>2, <2>7
  <2> QED BY <2>4, <2>5, <2>6, <2>7
<1> HIDE DEF Sums, sum
<1>4. PICK h : h = CHOOSE g : Sums(g) OBVIOUS
<1>5. Sums(h) BY <1>2, <1>4
<1> QED BY <1>1, <1>3, <1>4, <1>5 DEF sum

(* What a dimension's filter does, whatever the other demands say.         *)
LEMMA FilterOf ==
  ASSUME NEW f \in Filtered, NEW d \in Dimensions, NEW W
  PROVE  Passes([f EXCEPT ![d] = W]) =
           {v \in Passes(Scoped(f, d)) : W # {} => Catalog[v][d] \in W}
<1> DEFINE g == [f EXCEPT ![d] = W]
           o == [f EXCEPT ![d] = {}]
<1>1. /\ g[d] = W /\ \A e \in Dimensions \ {d} : g[e] = f[e]
      /\ g.maxPrice = f.maxPrice /\ g.specs = f.specs /\ g.verifiedDealersOnly = f.verifiedDealersOnly
  BY DEF Filtered, Dimensions
<1>2. /\ o[d] = {} /\ \A e \in Dimensions \ {d} : o[e] = f[e]
      /\ o.maxPrice = f.maxPrice /\ o.specs = f.specs /\ o.verifiedDealersOnly = f.verifiedDealersOnly
  BY DEF Filtered, Dimensions
<1> HIDE DEF g, o
<1>3. \A v : Where(v, g) <=> Where(v, o) /\ (W # {} => Catalog[v][d] \in W) BY <1>1, <1>2 DEF Where
<1> QED BY <1>3 DEF Passes, Scoped, g, o

LEMMA CatalogFinite ==
  /\ AllOffers = {"u1", "u2", "u3", "u4"} /\ IsFiniteSet(AllOffers)
  /\ \A S \in SUBSET AllOffers : IsFiniteSet(S) /\ Cardinality(S) \in Nat
<1>1. AllOffers = {"u1", "u2", "u3", "u4"} BY DEF AllOffers, Catalog
<1>2. IsFiniteSet({"u1", "u2", "u3", "u4"})
  <2>1. IsFiniteSet({"u1"}) /\ IsFiniteSet({"u2"}) /\ IsFiniteSet({"u3"}) /\ IsFiniteSet({"u4"}) BY FS_Singleton
  <2>2. IsFiniteSet({"u1"} \cup {"u2"}) /\ IsFiniteSet({"u3"} \cup {"u4"}) BY <2>1, FS_Union
  <2>3. IsFiniteSet(({"u1"} \cup {"u2"}) \cup ({"u3"} \cup {"u4"})) BY <2>2, FS_Union
  <2>4. {"u1", "u2", "u3", "u4"} = ({"u1"} \cup {"u2"}) \cup ({"u3"} \cup {"u4"}) OBVIOUS
  <2> QED BY <2>3, <2>4
<1> QED BY <1>1, <1>2, FS_Subset, FS_CardinalityType

LEMMA TwoNames ==
  ASSUME NEW d \in Dimensions
  PROVE  \E x, y : x # y /\ \A v \in AllOffers : Catalog[v][d] \in {x, y, "null"}
<1>1. CASE d = "types" 
  <2>1. \A v \in AllOffers : Catalog[v][d] \in {"car", "bike", "null"} BY <1>1, CatalogFinite DEF Catalog
  <2> QED BY <2>1
<1>2. CASE d = "makes"
  <2>1. \A v \in AllOffers : Catalog[v][d] \in {"toyota", "honda", "null"} BY <1>2, CatalogFinite DEF Catalog
  <2> QED BY <2>1
<1>3. CASE d = "fuels"
  <2>1. \A v \in AllOffers : Catalog[v][d] \in {"petrol", "diesel", "null"} BY <1>3, CatalogFinite DEF Catalog
  <2> QED BY <2>1
<1> QED BY <1>1, <1>2, <1>3 DEF Dimensions

(* The buckets of the values in a set count the vehicles of these values.  *)
LEMMA BucketsCount ==
  ASSUME NEW f \in Filtered, NEW d \in Dimensions, NEW W, "null" \notin W
  PROVE  SumOf({b \in Buckets(f, d) : b.value \in W})
           = Cardinality({v \in Passes(Scoped(f, d)) : Catalog[v][d] \in W})
<1> DEFINE found == Passes(Scoped(f, d))
           Of(x) == {v \in found : Catalog[v][d] = x}
           Bucket(x) == [value |-> x, count |-> Cardinality(Of(x))]
           S == {b \in Buckets(f, d) : b.value \in W}
<1>1. PICK x, y : x # y /\ \A v \in AllOffers : Catalog[v][d] \in {x, y, "null"} BY TwoNames
<1>2. found \subseteq AllOffers BY DEF Passes
<1> HIDE DEF found
<1>3. \A z : IsFiniteSet(Of(z)) /\ Cardinality(Of(z)) \in Nat
  <2>1. \A z : Of(z) \in SUBSET AllOffers BY <1>2
  <2> QED BY <2>1, CatalogFinite
<1>4. Buckets(f, d) = {Bucket(z) : z \in {Catalog[v][d] : v \in found} \ {"null"}} BY DEF Buckets, found
<1>5. \A z : Bucket(z).value = z /\ Bucket(z).count = Cardinality(Of(z)) OBVIOUS
<1>6. \A z : z \in {Catalog[v][d] : v \in found} <=> Of(z) # {} OBVIOUS
<1>7. \A b : b \in S <=> \E z \in W : b = Bucket(z) /\ Of(z) # {}
  <2> HIDE DEF Bucket, Of
  <2>1. \A z : Of(z) # {} <=> z \in {Catalog[v][d] : v \in found} BY <1>6
  <2>2. \A b : b \in S <=> \E z \in {Catalog[v][d] : v \in found} \ {"null"} : b = Bucket(z) /\ b.value \in W BY <1>4
  <2> QED BY <1>5, <2>1, <2>2
<1>8. \A z : Of(z) # {} /\ z \in W => z \in {x, y} BY <1>1, <1>2
<1> HIDE DEF Bucket, S
<1>9. S \in SUBSET {Bucket(x), Bucket(y)} /\ Bucket(x) # Bucket(y) 
  <2>1. \A b \in S : b \in {Bucket(x), Bucket(y)} BY <1>7, <1>8
  <2>2. Bucket(x) # Bucket(y) BY <1>1, <1>5
  <2> QED BY <2>1, <2>2
<1>10. \A z \in {x, y} : Bucket(z) \in S <=> z \in W /\ Of(z) # {} BY <1>5, <1>7
<1>11. Cardinality({}) = 0 BY FS_EmptySet
<1> DEFINE A == IF x \in W THEN Of(x) ELSE {}
           B == IF y \in W THEN Of(y) ELSE {}
<1>12. SumOf(S) = Cardinality(A) + Cardinality(B)
  <2>1. SumOf(S) =
          (IF Bucket(x) \in S THEN Bucket(x).count ELSE 0) + (IF Bucket(y) \in S THEN Bucket(y).count ELSE 0)
    <3> HIDE DEF Of
    <3>1. Bucket(x).count \in Nat /\ Bucket(y).count \in Nat BY <1>3, <1>5
    <3> QED BY <1>9, <3>1, SumOfTwo
  <2>2. (IF Bucket(x) \in S THEN Bucket(x).count ELSE 0) = Cardinality(A) 
    <3> HIDE DEF Of
    <3> QED BY <1>5, <1>10, <1>11
  <2>3. (IF Bucket(y) \in S THEN Bucket(y).count ELSE 0) = Cardinality(B)
    <3> HIDE DEF Of
    <3> QED BY <1>5, <1>10, <1>11
  <2> QED BY <2>1, <2>2, <2>3
<1>13. A \cap B = {} /\ A \cup B = {v \in found : Catalog[v][d] \in W} BY <1>1, <1>2
<1>14. IsFiniteSet(A) /\ IsFiniteSet(B) BY <1>3, FS_EmptySet
<1>15. Cardinality(A \cup B) = Cardinality(A) + Cardinality(B) 
  <2> HIDE DEF A, B
  <2>1. Cardinality(A \cup B) = Cardinality(A) + Cardinality(B) - Cardinality(A \cap B) BY <1>14, FS_Union
  <2>2. Cardinality(A \cap B) = 0 BY <1>11, <1>13
  <2>3. Cardinality(A) \in Nat /\ Cardinality(B) \in Nat BY <1>14, FS_CardinalityType
  <2> HIDE <1>13
  <2> QED BY <2>1, <2>2, <2>3
<1> QED BY <1>12, <1>13, <1>15 DEF found, S

(* Numbers of the pages: n is on page 1 or 2 of pages of l.                *)
LEMMA OnPage ==
  ASSUME NEW n \in Nat, NEW l \in Nat \ {0}
  PROVE  /\ n \div l = 0 <=> n < l
         /\ n \div l = 1 <=> l <= n /\ n < l + l
<1>1. n \div l \in Nat /\ n = (l * (n \div l)) + (n % l) /\ n % l \in 0 .. (l - 1) OBVIOUS
<1>2. PICK q \in Nat, r \in 0 .. (l - 1) : n = (l * q) + r /\ q = n \div l BY <1>1
<1>3. CASE q = 0 BY <1>2, <1>3
<1>4. CASE q = 1 BY <1>2, <1>4
<1>5. CASE q >= 2
  <2>1. PICK k \in Nat : q = k + 2 BY <1>5
  <2>2. l * q = l * k + l + l BY <2>1
  <2>3. l * k \in Nat BY <2>1
  <2>4. n >= l + l BY <1>2, <2>2, <2>3
  <2> QED BY <1>2, <1>5, <2>4
<1> QED BY <1>2, <1>3, <1>4, <1>5

(* A page lists matches, and as many as it should.                         *)
LEMMA PageIsOf ==
  ASSUME NEW f \in Filtered
  PROVE  /\ PageOf(f) \in Seq(AllOffers) /\ \A i \in DOMAIN PageOf(f) : PageOf(f)[i] \in Passes(f)
         /\ Len(PageOf(f)) = Cardinality({n \in 1 .. CountOf(f) : (n - 1) \div PageLimit = f.page - 1})
<1> DEFINE S == Passes(f)
           c == Cardinality(S)
           all == SetToSeq(S)
           offset == (f.page - 1) * PageLimit
           last == IF offset + PageLimit < c THEN offset + PageLimit ELSE c
<1>1. S \in SUBSET AllOffers /\ c \in Nat /\ IsFiniteSet(S) BY CatalogFinite DEF Passes
<1>2. \E g \in [1 .. c -> S] : IsInjective(g)
  BY <1>1, FS_CardinalityType DEF ExistsBijection, Bijection, Injection
<1>3. all \in [1 .. c -> S] BY <1>2 DEF SetToSeq
<1> HIDE DEF all, S
<1>4. all \in Seq(S) /\ Len(all) = c BY <1>1, <1>3
<1>5. PageOf(f) = SubSeq(all, offset + 1, last) BY <1>4 DEF PageOf, all, S
<1>6. f.page \in 1 .. 2 BY DEF Filtered
<1>7. offset \in {0, PageLimit} /\ (f.page = 1 => offset = 0) /\ (f.page = 2 => offset = PageLimit) BY <1>6, FacetsAssumption
<1> HIDE DEF offset, c
<1>8. last \in Nat /\ last <= c /\ offset \in Nat BY <1>1, <1>7, FacetsAssumption
<1>9. \A i \in (offset + 1) .. last : all[i] \in S BY <1>3, <1>8, <1>1
<1> HIDE DEF last
<1>10. /\ PageOf(f) \in Seq(S) /\ Len(PageOf(f)) = IF offset + 1 <= last THEN last - (offset + 1) + 1 ELSE 0
  BY <1>5, <1>8, <1>9, SubSeqProperties
<1>11. {n \in 1 .. c : (n - 1) \div PageLimit = f.page - 1} = (offset + 1) .. last
  <2>1. \A n \in 1 .. c : n - 1 \in Nat BY <1>1
  <2>2. \A n \in 1 .. c : (n - 1) \div PageLimit = f.page - 1 <=> offset + 1 <= n /\ n <= offset + PageLimit
    <3> TAKE n \in 1 .. c
    <3> DEFINE m == n - 1
    <3>1. m \in Nat BY <2>1
    <3>2. (m \div PageLimit = 0 <=> m < PageLimit) /\ (m \div PageLimit = 1 <=> PageLimit <= m /\ m < PageLimit + PageLimit)
      BY <3>1, OnPage, FacetsAssumption
    <3>3. CASE f.page = 1
      <4>1. f.page - 1 = 0 /\ offset = 0 BY <1>7, <3>3
      <4> QED BY <1>1, <3>1, <3>2, <4>1, FacetsAssumption
    <3>4. CASE f.page = 2
      <4>1. f.page - 1 = 1 /\ offset = PageLimit BY <1>7, <3>4
      <4> QED BY <1>1, <3>1, <3>2, <4>1, FacetsAssumption
    <3> QED BY <1>6, <3>3, <3>4
  <2>3. \A n \in Int : n \in 1 .. c /\ offset + 1 <= n /\ n <= offset + PageLimit <=> n \in (offset + 1) .. last
    BY <1>1, <1>8, FacetsAssumption DEF last
  <2> QED BY <2>2, <2>3
<1>12. Cardinality((offset + 1) .. last) = IF offset + 1 > last THEN 0 ELSE last - (offset + 1) + 1
  BY <1>8, FS_Interval
<1>13. Len(PageOf(f)) = Cardinality((offset + 1) .. last) BY <1>8, <1>10, <1>12
<1>14. PageOf(f) \in Seq(AllOffers) /\ \A i \in DOMAIN PageOf(f) : PageOf(f)[i] \in S
  <2>1. S \subseteq AllOffers BY <1>1
  <2> QED BY <1>10, <2>1, SeqDef
<1> QED BY <1>11, <1>13, <1>14 DEF CountOf, c, S

----
(* A search under way: what was took is of its demands, as long as no      *)
(* vehicle came or went.                                                   *)
ReadSoFar ==
  /\ answer.filters \in Filtered
  /\ \A i \in DOMAIN answer.items : \A d \in Dimensions :
       answer.filters[d] # {} => Catalog[answer.items[i]][d] \in answer.filters[d]
  /\ ~shifted => /\ answer.total = CountOf(answer.filters)
                 /\ "items" \in answer.read => answer.items = PageOf(answer.filters)
                 /\ \A d \in Dimensions \cap answer.read : answer.facets[d] = Buckets(answer.filters, d)

FacetInv ==
  /\ FacetedSearchTypeOK
  /\ answer = [state |-> answer.state, filters |-> answer.filters, total |-> answer.total, relaxed |-> answer.relaxed,
               items |-> answer.items, read |-> answer.read, facets |-> answer.facets]
  /\ answer.facets = [d \in Dimensions |-> answer.facets[d]]
  /\ answer.state \in {"reading", "answered"} => ReadSoFar
  /\ answer.state = "answered" => answer.read = Dimensions \cup {"items"}

LEMMA FacetStart == FacetedSearchInit => FacetInv
<1> SUFFICES ASSUME FacetedSearchInit PROVE FacetInv OBVIOUS
<1>1. /\ answer = [state |-> "none", filters |-> "none", total |-> 0, relaxed |-> FALSE,
                   items |-> <<>>, read |-> {}, facets |-> [d \in Dimensions |-> {}]]
      /\ onOffer = AllOffers /\ trusted = {"d1"} /\ queried \in QueryStrings /\ shifted = FALSE /\ shifts = 0
  BY DEF FacetedSearchInit, NoAnswer
<1>2. /\ answer.state = "none" /\ answer.total = 0 /\ answer.items = <<>> /\ answer.read = {}
      /\ answer.facets = [d \in Dimensions |-> {}] /\ answer.filters = "none"
  BY <1>1
<1>3. answer.relaxed \in BOOLEAN /\ shifted \in BOOLEAN BY <1>1
<1>4. FacetedSearchTypeOK BY <1>1, <1>2, <1>3, FacetsAssumption DEF FacetedSearchTypeOK, Sellers
<1>5. answer = [state |-> answer.state, filters |-> answer.filters, total |-> answer.total, relaxed |-> answer.relaxed,
                items |-> answer.items, read |-> answer.read, facets |-> answer.facets]
  BY <1>1
<1> QED BY <1>2, <1>4, <1>5 DEF FacetInv

LEMMA FiltersTyped ==
  ASSUME NEW q \in QueryStrings
  PROVE  FilterSet(q) \in Filtered /\ [FilterSet(q) EXCEPT !.specs = "absent"] \in Filtered
<1>1. /\ q.types \in {<<>>, <<"car">>, <<"car", "bike">>, <<"boat">>}
      /\ q.makes \in {<<>>, <<"">>, <<"toyota">>, <<"honda", "">>, <<"toyota", "honda">>}
      /\ q.specs \in {"absent", "body_type:SUV", "body_type", "wings:TWO"} /\ q.maxPrice \in 1 .. 2 /\ q.page \in 1 .. 2
  BY DEF QueryStrings
<1>2. toArray(q.types) \in SUBSET FilterNames
  <2>1. \A t \in {<<>>, <<"car">>, <<"car", "bike">>, <<"boat">>} : \A i \in DOMAIN t : t[i] \in FilterNames
    BY DEF FilterNames
  <2> QED BY <1>1, <2>1 DEF toArray, ToSet
<1>3. toArray(q.makes) \in SUBSET FilterNames
  <2>1. \A t \in {<<>>, <<"">>, <<"toyota">>, <<"honda", "">>, <<"toyota", "honda">>} :
          \A i \in DOMAIN t : t[i] \in FilterNames \cup {""}
    <3>1. PICK blank : blank = "" OBVIOUS
    <3>2. \A t \in {<<>>, <<blank>>, <<"toyota">>, <<"honda", blank>>, <<"toyota", "honda">>} :
            \A i \in DOMAIN t : t[i] \in FilterNames \cup {blank}
      BY DEF FilterNames
    <3> QED BY <3>1, <3>2, Zenon
  <2> QED BY <1>1, <2>1 DEF toArray, ToSet
<1>4. Flag(q.verifiedDealersOnly) \in BOOLEAN BY DEF Flag
<1>5. FilterSet(q) \in Filtered BY <1>1, <1>2, <1>3, <1>4 DEF FilterSet, Filtered
<1> HIDE DEF Filtered
<1>6. \A f \in Filtered : [f EXCEPT !.specs = "absent"] \in Filtered BY DEF Filtered
<1> QED BY <1>5, <1>6

LEMMA RefuseKeeps == ASSUME FacetInv, BadRequest PROVE FacetInv'
<1>1. /\ answer' = [state |-> "refused", filters |-> "none", total |-> 0, relaxed |-> FALSE,
                    items |-> <<>>, read |-> {}, facets |-> [d \in Dimensions |-> {}]]
      /\ UNCHANGED <<onOffer, trusted, queried, shifted, shifts>>
  BY DEF BadRequest, NoAnswer
<1>2. /\ answer'.state = "refused" /\ answer'.total = 0 /\ answer'.items = <<>> /\ answer'.read = {}
      /\ answer'.facets = [d \in Dimensions |-> {}] /\ answer'.filters = "none"
  BY <1>1
<1>3. answer'.relaxed \in BOOLEAN BY <1>1
<1>4. FacetedSearchTypeOK' BY <1>1, <1>2, <1>3 DEF FacetInv, FacetedSearchTypeOK
<1>5. answer' = [state |-> answer'.state, filters |-> answer'.filters, total |-> answer'.total, relaxed |-> answer'.relaxed,
                items |-> answer'.items, read |-> answer'.read, facets |-> answer'.facets]
  BY <1>1
<1> QED BY <1>2, <1>4, <1>5 DEF FacetInv

LEMMA MatchesCounted == \A f : CountOf(f) \in Nat
<1>1. \A f : Passes(f) \in SUBSET AllOffers BY DEF Passes
<1> QED BY <1>1, CatalogFinite DEF CountOf

LEMMA OffersStay ==
  UNCHANGED <<onOffer, trusted>> =>
    \A f : /\ CountOf(f)' = CountOf(f) /\ PageOf(f)' = PageOf(f)
           /\ \A d : Buckets(f, d)' = Buckets(f, d)
<1> SUFFICES ASSUME UNCHANGED <<onOffer, trusted>>, NEW f
             PROVE  /\ CountOf(f)' = CountOf(f) /\ PageOf(f)' = PageOf(f)
                    /\ \A d : Buckets(f, d)' = Buckets(f, d)
  OBVIOUS
<1>1. \A g : Passes(g)' = Passes(g) BY DEF Passes, Where
<1> QED BY <1>1 DEF CountOf, PageOf, Buckets

LEMMA CountMatchesKeeps == ASSUME FacetInv, CountMatches PROVE FacetInv'
<1>1. PICK final \in Filtered, relaxed \in BOOLEAN :
        answer' = [NoAnswer EXCEPT !.state = "reading", !.filters = final, !.relaxed = relaxed, !.total = CountOf(final)]
  <2> DEFINE demands == FilterSet(queried)
             without == [demands EXCEPT !.specs = "absent"]
             relaxed == CountOf(demands) = 0 /\ demands.specs # "absent" /\ CountOf(without) > 0
             final == IF relaxed THEN without ELSE demands
  <2>1. demands \in Filtered /\ without \in Filtered BY FiltersTyped DEF FacetInv, FacetedSearchTypeOK
  <2>2. answer' = [NoAnswer EXCEPT !.state = "reading", !.filters = final, !.relaxed = relaxed, !.total = CountOf(final)]
    BY DEF CountMatches
  <2>3. relaxed \in BOOLEAN OBVIOUS
  <2>4. final \in Filtered BY <2>1
  <2> HIDE DEF final, relaxed
  <2> QED BY <2>2, <2>3, <2>4
<1>2. /\ UNCHANGED <<onOffer, trusted, queried, shifted, shifts>> /\ answer.state = "none" BY DEF CountMatches
<1> DEFINE n == CountOf(final)
<1> HIDE DEF n
<1>3. answer' \in [state : {"reading"}, filters : {final}, total : {n}, relaxed : {relaxed},
                   items : {<<>>}, read : {{}}, facets : {[d \in Dimensions |-> {}]}]
  BY <1>1 DEF NoAnswer, n
<1>4. answer' = [state |-> "reading", filters |-> final, total |-> n, relaxed |-> relaxed,
                 items |-> <<>>, read |-> {}, facets |-> [d \in Dimensions |-> {}]]
  BY <1>3
<1>5. /\ answer'.state = "reading" /\ answer'.total = n /\ answer'.items = <<>> /\ answer'.read = {}
      /\ answer'.facets = [d \in Dimensions |-> {}] /\ answer'.filters = final
  BY <1>4
<1>6. answer'.relaxed \in BOOLEAN BY <1>4
<1>7. n \in Nat BY MatchesCounted DEF n
<1>8. FacetedSearchTypeOK' BY <1>2, <1>5, <1>6, <1>7 DEF FacetInv, FacetedSearchTypeOK
<1>9. answer' = [state |-> answer'.state, filters |-> answer'.filters, total |-> answer'.total, relaxed |-> answer'.relaxed,
                 items |-> answer'.items, read |-> answer'.read, facets |-> answer'.facets]
  BY <1>4
<1>10. (answer.total = CountOf(answer.filters))' BY <1>2, <1>5 DEF n, CountOf, Passes, Where
<1>11. ReadSoFar' BY <1>2, <1>5, <1>10 DEF ReadSoFar
<1> QED BY <1>5, <1>8, <1>9, <1>11 DEF FacetInv

LEMMA ReadStays ==
  ASSUME UNCHANGED <<onOffer, trusted>>, answer'.filters = answer.filters
  PROVE  /\ (CountOf(answer.filters))' = CountOf(answer.filters) /\ (PageOf(answer.filters))' = PageOf(answer.filters)
         /\ \A d : (Buckets(answer.filters, d))' = Buckets(answer.filters, d)
<1>1. (CountOf(answer.filters))' = CountOf(answer.filters) BY DEF CountOf, Passes, Where
<1>2. (PageOf(answer.filters))' = PageOf(answer.filters) BY DEF PageOf, Passes, Where
<1>3. \A d : (Buckets(answer.filters, d))' = Buckets(answer.filters, d) BY DEF Buckets, Scoped, Passes, Where
<1> QED BY <1>1, <1>2, <1>3

(* What is typed of a search that goes on reading.                         *)
LEMMA ReadTyped ==
  ASSUME FacetInv, answer.state = "reading", UNCHANGED <<onOffer, trusted, queried, shifted, shifts>>,
         answer' = [state |-> answer'.state, filters |-> answer'.filters, total |-> answer'.total,
                    relaxed |-> answer'.relaxed, items |-> answer'.items, read |-> answer'.read,
                    facets |-> answer'.facets],
         answer'.state \in {"reading", "answered"}, answer'.filters = answer.filters, answer'.total = answer.total,
         answer'.relaxed = answer.relaxed,
         answer'.items \in Seq(AllOffers), answer'.read \subseteq Dimensions \cup {"items"},
         answer'.facets = [d \in Dimensions |-> answer'.facets[d]],
         answer'.items = answer.items \/ \A i \in DOMAIN answer'.items : answer'.items[i] \in Passes(answer.filters),
         answer'.state = "answered" => answer'.read = Dimensions \cup {"items"},
         "items" \in answer'.read => \/ answer'.items = PageOf(answer.filters)
                                     \/ answer'.items = answer.items /\ "items" \in answer.read,
         \A d \in Dimensions \cap answer'.read : \/ answer'.facets[d] = Buckets(answer.filters, d)
                                                 \/ answer'.facets[d] = answer.facets[d] /\ d \in answer.read
  PROVE  FacetInv'
<1> DEFINE items == answer'.items
           took == answer'.read
           facets == answer'.facets
<1>3. FacetedSearchTypeOK' BY DEF FacetInv, FacetedSearchTypeOK
<1>4. ReadSoFar BY DEF FacetInv
<1>5. PICK f \in Filtered : f = answer.filters BY <1>4 DEF ReadSoFar
<1>6. CountOf(f)' = CountOf(f) /\ PageOf(f)' = PageOf(f) /\ \A d : Buckets(f, d)' = Buckets(f, d) BY OffersStay
<1>7. \A i \in DOMAIN items : \A d \in Dimensions : f[d] # {} => Catalog[items[i]][d] \in f[d]
  BY <1>4, <1>5 DEF ReadSoFar, Passes, Where
<1>8. ~shifted => /\ answer.total = CountOf(f)'
                  /\ "items" \in took => items = PageOf(f)'
                  /\ \A d \in Dimensions \cap took : facets[d] = Buckets(f, d)'
  BY <1>4, <1>5, <1>6 DEF ReadSoFar
<1>9. /\ (CountOf(answer.filters))' = CountOf(f)' /\ (PageOf(answer.filters))' = PageOf(f)'
      /\ \A d : (Buckets(answer.filters, d))' = Buckets(f, d)'
  BY <1>5, <1>6, ReadStays
<1>13. ReadSoFar' BY <1>5, <1>7, <1>8, <1>9 DEF ReadSoFar
<1> QED BY <1>3, <1>13 DEF FacetInv

LEMMA ReadItemsKeeps == ASSUME FacetInv, ReadItems PROVE FacetInv'
<1>1. ReadSoFar /\ answer.state = "reading" BY DEF FacetInv, ReadItems
<1> DEFINE page == PageOf(answer.filters)
           took == answer.read \cup {"items"}
<1>2. /\ answer' = [answer EXCEPT !.items = page, !.read = took]
      /\ UNCHANGED <<onOffer, trusted, queried, shifted, shifts>>
  BY DEF ReadItems
<1>3. page \in Seq(AllOffers) /\ \A i \in DOMAIN page : page[i] \in Passes(answer.filters) BY <1>1, PageIsOf DEF ReadSoFar
<1>4. took \subseteq Dimensions \cup {"items"} BY DEF FacetInv, FacetedSearchTypeOK
<1> HIDE DEF page, took
<1>5. answer \in [state : {"reading"}, filters : {answer.filters}, total : {answer.total}, relaxed : {answer.relaxed},
                  items : {answer.items}, read : {answer.read}, facets : {answer.facets}]
  BY <1>1 DEF FacetInv
<1>6. answer' \in [state : {"reading"}, filters : {answer.filters}, total : {answer.total}, relaxed : {answer.relaxed},
                   items : {page}, read : {took}, facets : {answer.facets}]
  BY <1>2, <1>5
<1>7. answer' = [state |-> "reading", filters |-> answer.filters, total |-> answer.total, relaxed |-> answer.relaxed,
                 items |-> page, read |-> took, facets |-> answer.facets]
  BY <1>6
<1>17. /\ answer'.state = "reading" /\ answer'.filters = answer.filters /\ answer'.total = answer.total
       /\ answer'.items = page /\ answer'.read = took /\ answer'.facets = answer.facets
       /\ answer' = [state |-> answer'.state, filters |-> answer'.filters, total |-> answer'.total,
                     relaxed |-> answer'.relaxed, items |-> answer'.items, read |-> answer'.read,
                     facets |-> answer'.facets]
  BY <1>7
<1>18. answer'.relaxed = answer.relaxed BY <1>7
<1>8. \A d \in Dimensions \cap took : d \in answer.read BY DEF took, Dimensions
<1>9. answer.facets = [d \in Dimensions |-> answer.facets[d]] BY DEF FacetInv
<1>10. page = PageOf(answer.filters) BY DEF page
<1>11. \A d \in Dimensions \cap took : \/ answer.facets[d] = Buckets(answer.filters, d)
                                       \/ answer.facets[d] = answer.facets[d] /\ d \in answer.read
  BY <1>8
<1>12. \A i \in DOMAIN page : page[i] \in Passes(answer.filters) BY <1>3
<1>13. "items" \in took => page = PageOf(answer.filters) \/ (page = answer.items /\ "items" \in answer.read) BY <1>10
<1>15. UNCHANGED <<onOffer, trusted, queried, shifted, shifts>> /\ answer.state = "reading" BY <1>1, <1>2
<1>16. page \in Seq(AllOffers) BY <1>3
<1> QED BY <1>4, <1>9, <1>11, <1>12, <1>13, <1>15, <1>16, <1>17, <1>18, ReadTyped

LEMMA ReadFacetKeeps == ASSUME FacetInv, NEW d \in Dimensions, ReadFacet(d) PROVE FacetInv'
<1>1. ReadSoFar /\ answer.state = "reading" BY DEF FacetInv, ReadFacet
<1> DEFINE buckets == Buckets(answer.filters, d)
           facets == [answer.facets EXCEPT ![d] = buckets]
           took == answer.read \cup {d}
<1>2. /\ answer' = [answer EXCEPT !.facets[d] = buckets, !.read = took]
      /\ UNCHANGED <<onOffer, trusted, queried, shifted, shifts>>
  BY DEF ReadFacet
<1>3. took \subseteq Dimensions \cup {"items"} /\ answer.items \in Seq(AllOffers) BY DEF FacetInv, FacetedSearchTypeOK
<1>4. facets = [e \in Dimensions |-> facets[e]] /\ facets[d] = buckets /\ \A e \in Dimensions \ {d} : facets[e] = answer.facets[e]
  BY DEF FacetInv
<1> HIDE DEF buckets, took
<1>5. answer \in [state : {"reading"}, filters : {answer.filters}, total : {answer.total}, relaxed : {answer.relaxed},
                  items : {answer.items}, read : {answer.read}, facets : {answer.facets}]
  BY <1>1 DEF FacetInv
<1>6. answer' \in [state : {"reading"}, filters : {answer.filters}, total : {answer.total}, relaxed : {answer.relaxed},
                   items : {answer.items}, read : {took}, facets : {facets}]
  BY <1>2, <1>5
<1> HIDE DEF facets
<1>7. answer' = [state |-> "reading", filters |-> answer.filters, total |-> answer.total, relaxed |-> answer.relaxed,
                 items |-> answer.items, read |-> took, facets |-> facets]
  BY <1>6
<1>17. /\ answer'.state = "reading" /\ answer'.filters = answer.filters /\ answer'.total = answer.total
       /\ answer'.items = answer.items /\ answer'.read = took /\ answer'.facets = facets
       /\ answer' = [state |-> answer'.state, filters |-> answer'.filters, total |-> answer'.total,
                     relaxed |-> answer'.relaxed, items |-> answer'.items, read |-> answer'.read,
                     facets |-> answer'.facets]
  BY <1>7
<1>18. answer'.relaxed = answer.relaxed BY <1>7
<1>8. "items" \in took => "items" \in answer.read BY DEF took, Dimensions
<1>9. \A e \in Dimensions \cap took : \/ facets[e] = Buckets(answer.filters, e)
                                      \/ facets[e] = answer.facets[e] /\ e \in answer.read
  BY <1>4 DEF took, buckets
<1>11. facets = [e \in Dimensions |-> facets[e]] BY <1>4
<1>12. "items" \in took => \/ answer.items = PageOf(answer.filters)
                           \/ answer.items = answer.items /\ "items" \in answer.read
  BY <1>8
<1>15. UNCHANGED <<onOffer, trusted, queried, shifted, shifts>> /\ answer.state = "reading" BY <1>1, <1>2
<1> QED BY <1>3, <1>9, <1>11, <1>12, <1>15, <1>17, <1>18, ReadTyped

LEMMA FacetsAnsweredKeeps == ASSUME FacetInv, Answered PROVE FacetInv'
<1>1. /\ ReadSoFar /\ answer.state = "reading" /\ answer.read = Dimensions \cup {"items"}
      /\ answer' = [answer EXCEPT !.state = "answered"] /\ UNCHANGED <<onOffer, trusted, queried, shifted, shifts>>
      /\ answer.items \in Seq(AllOffers) /\ answer.facets = [e \in Dimensions |-> answer.facets[e]]
  BY DEF FacetInv, Answered, FacetedSearchTypeOK
<1>2. answer \in [state : {"reading"}, filters : {answer.filters}, total : {answer.total}, relaxed : {answer.relaxed},
                  items : {answer.items}, read : {answer.read}, facets : {answer.facets}]
  BY <1>1 DEF FacetInv
<1>3. answer' \in [state : {"answered"}, filters : {answer.filters}, total : {answer.total}, relaxed : {answer.relaxed},
                   items : {answer.items}, read : {answer.read}, facets : {answer.facets}]
  BY <1>1, <1>2
<1>4. answer' = [state |-> "answered", filters |-> answer.filters, total |-> answer.total, relaxed |-> answer.relaxed,
                 items |-> answer.items, read |-> answer.read, facets |-> answer.facets]
  BY <1>3
<1>5. /\ answer'.state = "answered" /\ answer'.filters = answer.filters /\ answer'.total = answer.total
      /\ answer'.items = answer.items /\ answer'.read = answer.read /\ answer'.facets = answer.facets
      /\ answer' = [state |-> answer'.state, filters |-> answer'.filters, total |-> answer'.total,
                    relaxed |-> answer'.relaxed, items |-> answer'.items, read |-> answer'.read,
                    facets |-> answer'.facets]
  BY <1>4
<1>6. answer'.relaxed = answer.relaxed BY <1>4
<1> QED BY <1>1, <1>5, <1>6, ReadTyped

LEMMA ShiftKeeps == ASSUME FacetInv, NEW v \in AllOffers, Shift(v) PROVE FacetInv'
<1>1. /\ shifts < MaxShifts /\ answer.state = "reading" /\ shifts' = shifts + 1 /\ shifted' = TRUE
      /\ onOffer' \in SUBSET AllOffers /\ UNCHANGED <<trusted, queried, answer>>
  BY DEF Shift, FacetInv, FacetedSearchTypeOK
<1>2. FacetedSearchTypeOK' BY <1>1, FacetsAssumption DEF FacetInv, FacetedSearchTypeOK
<1>3. ReadSoFar' BY <1>1 DEF FacetInv, ReadSoFar
<1> QED BY <1>1, <1>2, <1>3 DEF FacetInv

LEMMA FacetStep == FacetInv /\ [FacetedSearchNext]_facetVars => FacetInv'
<1> SUFFICES ASSUME FacetInv, [FacetedSearchNext]_facetVars PROVE FacetInv' OBVIOUS
<1>1. CASE BadRequest BY <1>1, RefuseKeeps
<1>2. CASE CountMatches BY <1>2, CountMatchesKeeps
<1>3. CASE ReadItems BY <1>3, ReadItemsKeeps
<1>4. CASE Answered BY <1>4, FacetsAnsweredKeeps
<1>5. ASSUME NEW d \in Dimensions, ReadFacet(d) PROVE FacetInv' BY <1>5, ReadFacetKeeps
<1>6. ASSUME NEW v \in AllOffers, Shift(v) PROVE FacetInv' BY <1>6, ShiftKeeps
<1>7. CASE UNCHANGED facetVars
  <2>1. UNCHANGED <<onOffer, trusted, queried, answer, shifted, shifts>> BY <1>7 DEF facetVars
  <2>2. FacetedSearchTypeOK' BY <2>1 DEF FacetInv, FacetedSearchTypeOK
  <2>3. /\ (CountOf(answer.filters))' = CountOf(answer.filters) /\ (PageOf(answer.filters))' = PageOf(answer.filters)
        /\ \A d : (Buckets(answer.filters, d))' = Buckets(answer.filters, d)
    BY <2>1, ReadStays
  <2>4. ReadSoFar => ReadSoFar' BY <2>1, <2>3 DEF ReadSoFar
  <2> QED BY <2>1, <2>2, <2>4 DEF FacetInv
<1> QED BY <1>1, <1>2, <1>3, <1>4, <1>5, <1>6, <1>7 DEF FacetedSearchNext

LEMMA FacetSettled == FacetInv => FacetsPredict
<1> SUFFICES ASSUME FacetInv, answer.state = "answered" PROVE FacetsPredict BY DEF FacetsPredict
<1>1. ReadSoFar /\ answer.read = Dimensions \cup {"items"} BY DEF FacetInv
<1> DEFINE f == answer.filters
<1>2. f \in Filtered BY <1>1 DEF ReadSoFar
<1>3. SUFFICES ASSUME ~shifted
      PROVE  /\ Len(answer.items) = Cardinality({n \in 1 .. answer.total : (n - 1) \div PageLimit = f.page - 1})
             /\ \A d \in Dimensions :
                  LET chosen == f[d]
                      promised == Bucketed(d, chosen) IN
                    /\ chosen # {} => promised = answer.total
                    /\ \A x \in ValuesOf(d) \ chosen :
                         CountOf([f EXCEPT ![d] = @ \cup {x}]) = promised + Bucketed(d, {x})
  BY <1>1 DEF ReadSoFar, FacetsPredict
<1>4. /\ answer.total = CountOf(f) /\ answer.items = PageOf(f)
      /\ \A d \in Dimensions : answer.facets[d] = Buckets(f, d)
  BY <1>1, <1>3 DEF ReadSoFar
<1> HIDE DEF f
<1>5. Len(answer.items) = Cardinality({n \in 1 .. answer.total : (n - 1) \div PageLimit = f.page - 1})
  BY <1>2, <1>4, PageIsOf
<1>6. ASSUME NEW d \in Dimensions
      PROVE  LET chosen == f[d]
                 promised == Bucketed(d, chosen) IN
               /\ chosen # {} => promised = answer.total
               /\ \A x \in ValuesOf(d) \ chosen :
                    CountOf([f EXCEPT ![d] = @ \cup {x}]) = promised + Bucketed(d, {x})
  <2> DEFINE Of(W) == {v \in Passes(Scoped(f, d)) : Catalog[v][d] \in W}
  <2>1. \A W : "null" \notin W => Bucketed(d, W) = Cardinality(Of(W))
    <3> SUFFICES ASSUME NEW W, "null" \notin W PROVE Bucketed(d, W) = Cardinality(Of(W)) OBVIOUS
    <3>1. Bucketed(d, W) = SumOf({b \in Buckets(f, d) : b.value \in W}) BY <1>4 DEF Bucketed, SumOf
    <3> QED BY <1>2, <3>1, BucketsCount
  <2>2. "null" \notin f[d] BY <1>2 DEF Filtered, Dimensions, FilterNames
  <2>3. f = [f EXCEPT ![d] = f[d]] /\ \A x : [f EXCEPT ![d] = @ \cup {x}] = [f EXCEPT ![d] = f[d] \cup {x}]
    BY <1>2 DEF Filtered
  <2>4. ASSUME NEW W, W # {} PROVE CountOf([f EXCEPT ![d] = W]) = Cardinality(Of(W))
    <3>1. Passes([f EXCEPT ![d] = W]) = {v \in Passes(Scoped(f, d)) : W # {} => Catalog[v][d] \in W} BY <1>2, FilterOf
    <3>2. Passes([f EXCEPT ![d] = W]) = Of(W) BY <2>4, <3>1
    <3> QED BY <3>2 DEF CountOf
  <2>5. f[d] # {} => Bucketed(d, f[d]) = answer.total BY <1>4, <2>1, <2>2, <2>3, <2>4
  <2>6. ASSUME NEW x \in ValuesOf(d) \ f[d]
        PROVE  CountOf([f EXCEPT ![d] = @ \cup {x}]) = Bucketed(d, f[d]) + Bucketed(d, {x})
    <3>1. x # "null" BY DEF ValuesOf
    <3> DEFINE A == Of(f[d])
               B == Of({x})
    <3>2. A \cap B = {} /\ A \cup B = Of(f[d] \cup {x}) OBVIOUS
    <3>3. IsFiniteSet(A) /\ IsFiniteSet(B) /\ Cardinality(A) \in Nat /\ Cardinality(B) \in Nat
      <4>1. A \in SUBSET AllOffers /\ B \in SUBSET AllOffers BY DEF Passes
      <4> QED BY <4>1, CatalogFinite
    <3> HIDE DEF A, B
    <3>4. Cardinality(A \cup B) = Cardinality(A) + Cardinality(B)
      <4>1. Cardinality(A \cup B) = Cardinality(A) + Cardinality(B) - Cardinality(A \cap B) BY <3>3, FS_Union
      <4>2. Cardinality(A \cap B) = 0 BY <3>2, FS_EmptySet
      <4> HIDE <3>2
      <4> QED BY <3>3, <4>1, <4>2
    <3>5. CountOf([f EXCEPT ![d] = @ \cup {x}]) = Cardinality(A \cup B) BY <2>3, <2>4, <3>2
    <3>6. Bucketed(d, f[d]) = Cardinality(A) /\ Bucketed(d, {x}) = Cardinality(B) BY <2>1, <2>2, <3>1 DEF A, B
    <3> QED BY <3>4, <3>5, <3>6
  <2> QED BY <2>5, <2>6
<1> QED BY <1>5, <1>6

(* The state of a faceted search has its types.                            *)
THEOREM FacetsTyped == FacetedSearchSpec => []FacetedSearchTypeOK
<1>1. FacetInv => FacetedSearchTypeOK BY DEF FacetInv
<1> QED BY <1>1, FacetStart, FacetStep, PTL DEF FacetedSearchSpec

(* The number beside a choice is that of the vehicles it finds             *)
(* (filter-search.service.ts), and a page is as long as its number says.   *)
THEOREM FacetsPredictChoices == FacetedSearchSpec => []FacetsPredict
BY FacetStart, FacetStep, FacetSettled, PTL DEF FacetedSearchSpec

----
(* The parts side by side. A behaviour of the sum is one of each part.     *)

LEMMA SumOfParts ==
  Spec => /\ DealerSpec /\ ListingsSpec
          /\ QueryParserSpec /\ SearchSpec /\ SearchOptionsSpec /\ FacetedSearchSpec
<1>1. Init => /\ DealerInit /\ ListingsInit
              /\ QueryParserInit /\ SearchInit /\ SearchOptionsInit /\ FacetedSearchInit
  BY DEF Init
<1>2. [Next]_<<part, dealerVars, listingVars, imageVars, streamVars, readerVars, rowVars,
               dictionaryVars, parserVars, naturalVars, optionVars, facetVars>> =>
        /\ [DealerNext]_dealerVars /\ [ListingsNext]_listingVars
        /\ [QueryParserNext]_parserVars /\ [SearchNext]_naturalVars
        /\ [SearchOptionsNext]_optionVars /\ [FacetedSearchNext]_facetVars
  BY DEF Next
<1>. QED
  BY <1>1, <1>2, PTL
     DEF Spec, DealerSpec, ListingsSpec, QueryParserSpec, SearchSpec, SearchOptionsSpec, FacetedSearchSpec

(* A listing's index is of its own columns, whatever part moves.           *)
THEOREM MarketplaceIndexIsFresh == Spec => []IndexIsOwn
BY SumOfParts, IndexIsFresh, PTL

(* What was decided of a dealer stands, and what became of a listing is    *)
(* what its lifecycle allows, whatever two handlers read before.           *)
THEOREM MarketplaceLifecycles == Spec => LifecyclesHold
BY SumOfParts, DecisionsAreSound, LifecycleIsKept, PTL DEF LifecyclesHold

(* What a search is said to mean is what was typed                         *)
(* (deterministic-parser.ts), and the notice above widened results is true *)
(* of each of them (nl-search.service.ts).                                 *)
THEOREM MarketplaceSearch == Spec => []SearchIsHonest
<1>1. ParseIsSound /\ RelaxationIsHonest => SearchIsHonest BY DEF SearchIsHonest
<1> QED BY SumOfParts, ParsesAreSound, SearchesAreHonest, <1>1, PTL

(* What the page offers to choose from is what choosing it finds           *)
(* (filter-search.service.ts), and what is offered was true within the     *)
(* cache's time (search-options.service.ts).                               *)
THEOREM MarketplaceChoices == Spec => []ChoicesAreReal
<1>1. FacetsPredict /\ OptionsAreRecent => ChoicesAreReal BY DEF ChoicesAreReal
<1> QED BY SumOfParts, FacetsPredictChoices, OptionsRecent, <1>1, PTL
====
