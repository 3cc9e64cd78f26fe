---- MODULE ListingsPage ----
(***************************************************************************)
(* The page of a dealer's listings (DealerListingsPage on useAsyncData).   *)
(* The list is a copy of the server's rows: some mutations fetch it again, *)
(* approving one listing and deleting a photo patch it in place. Mutations *)
(* and fetches are under way at the same time and are answered in any      *)
(* order.                                                                  *)
(*                                                                         *)
(*   stored   the dealer's listings on the server: status, and what the    *)
(*            details show                                                 *)
(*   list     the state of useAsyncData                                    *)
(*   fetch    the fetch of the current effect (older ones are aborted):    *)
(*            sent, the rows the server has answered with, or none         *)
(*   calls    mutations under way, and how far each is; ahead: the listings*)
(*            its next requests are of                                     *)
(*   editing  whether the form replaces the table                          *)
(*   drift    history variable: the list has missed a change               *)
(***************************************************************************)
EXTENDS Naturals, FiniteSets

CONSTANTS
  Cars,            \* the dealer's listings
  APPROVE_SELECTED_BATCH,
  MaxClicks        \* bound on mutations, of this page and of others

ASSUME ListAssumption == MaxClicks \in Nat /\ APPROVE_SELECTED_BATCH \in Nat \ {0}

VARIABLES stored, list, fetch, calls, editing, drift, clicks

listVars == <<stored, list, fetch, calls, editing, drift, clicks>>

TableRow == [status : {"PENDING_REVIEW", "LIVE", "ARCHIVED", "deleted"},
        shows : {"imported", "edited", "photo"}]
Listing == [Cars -> TableRow]
NoFetch == [step |-> "none", stored |-> [c \in Cars |-> [status |-> "deleted", shows |-> "imported"]]]
Sent == [NoFetch EXCEPT !.step = "sent"]
OfOne == {"approve", "deactivate", "unarchive", "delete", "update", "upload", "deleteImage"}
Approvals == {"approveSelected", "approveRest"}     \* the rest of a selection

ListTypeOK ==
  /\ stored \in Listing
  /\ list \in [data : Listing, loaded : BOOLEAN, loading : BOOLEAN, error : BOOLEAN]
  /\ fetch \in [step : {"none", "sent", "served"}, stored : Listing]
  /\ calls \subseteq [op : OfOne \cup Approvals, ids : SUBSET Cars, ahead : SUBSET Cars,
                      step : {"sent", "done", "refused", "lost"},
                      left : Listing, photos : BOOLEAN]
  /\ editing \in Cars \cup {"no"}
  /\ drift \in BOOLEAN /\ clicks \in 0 .. MaxClicks

ListInit ==
  /\ stored = [c \in Cars |-> [status |-> "PENDING_REVIEW", shows |-> "imported"]]
  /\ list = [data |-> NoFetch.stored, loaded |-> FALSE, loading |-> TRUE, error |-> FALSE]
  /\ fetch = Sent /\ calls = {} /\ editing = "no"
  /\ drift = FALSE /\ clicks = 0

----
(* useAsyncData: the server answers the fetch, the answer arrives.         *)
FetchServed ==
  /\ fetch.step = "sent"
  /\ fetch' = [step |-> "served", stored |-> stored]
  /\ drift' = FALSE
  /\ UNCHANGED <<stored, list, calls, editing, clicks>>

FetchArrived ==
  /\ fetch.step = "served"
  /\ list' = [data |-> fetch.stored, loaded |-> TRUE, loading |-> FALSE, error |-> FALSE]
  /\ fetch' = NoFetch
  /\ UNCHANGED <<stored, calls, editing, drift, clicks>>

FetchFailed ==
  /\ fetch # NoFetch
  /\ list' = [list EXCEPT !.loading = FALSE, !.error = TRUE]
  /\ fetch' = NoFetch
  /\ UNCHANGED <<stored, calls, editing, drift, clicks>>

(* Mutant of Reload: a fetch under way is taken for the new one.           *)
ReloadUnlessLoading ==
  /\ fetch' = IF fetch.step = "none" THEN Sent ELSE fetch
  /\ list' = [list EXCEPT !.loading = TRUE, !.error = FALSE]

(* A new effect: the fetch before is aborted.                              *)
Reload ==
  /\ fetch' = Sent
  /\ list' = [list EXCEPT !.loading = TRUE, !.error = FALSE]

ChangeSort == Reload /\ UNCHANGED <<stored, calls, editing, drift, clicks>>

----
(* The buttons of a row: a table that is loading or in error is not shown, *)
(* and each button is offered for some statuses only.                      *)
TableShown(c) ==
  /\ list.loaded /\ ~list.loading /\ ~list.error /\ editing = "no"
  /\ list.data[c].status # "deleted"

Patches(op) == op \in {"approve", "deleteImage"}

Offered(op, c) ==
  CASE op = "approve"    -> list.data[c].status = "PENDING_REVIEW"
    [] op = "deactivate" -> list.data[c].status # "ARCHIVED"
    [] op = "unarchive"  -> list.data[c].status = "ARCHIVED"
    [] op = "delete"     -> list.data[c].status = "PENDING_REVIEW"
    [] OTHER             -> FALSE

InFlight(op, ids) == \E call \in calls : call.op = op /\ call.ids = ids

Send(op, ids, photos) ==
  /\ ~InFlight(op, ids) /\ clicks < MaxClicks
  /\ clicks' = clicks + 1
  /\ calls' = calls \cup
       {[op |-> op, ids |-> ids, ahead |-> ids, step |-> "sent", left |-> NoFetch.stored, photos |-> photos]}
  /\ UNCHANGED <<stored, list, fetch, editing, drift>>

ClickRow(op, c) ==
  TableShown(c) /\ Offered(op, c) /\ Send(op, {c}, FALSE)

EditListing(c) ==
  /\ TableShown(c)
  /\ editing' = c
  /\ UNCHANGED <<stored, list, fetch, calls, drift, clicks>>

Cancel ==
  /\ editing # "no" /\ editing' = "no"
  /\ UNCHANGED <<stored, list, fetch, calls, drift, clicks>>

SaveChanges(photos) == editing # "no" /\ Send("update", {editing}, photos)

DeletePhoto == editing # "no" /\ Send("deleteImage", {editing}, FALSE)

(* The selection is read through the rows listed, so that any of them may  *)
(* be ticked. Its bar stays while the list is loading.                     *)
ApproveSelected(ids) ==
  /\ list.loaded /\ editing = "no"
  /\ ids # {} /\ \A c \in ids : list.data[c].status = "PENDING_REVIEW"
  /\ ~\E call \in calls : call.op \in Approvals
  /\ Send("approveSelected", ids, FALSE)

----
(* The server: the listings the operation is accepted for, and what it     *)
(* makes of them.                                                          *)
Accepts(op, row) ==
  CASE op \in Approvals \cup {"approve", "delete"} -> row.status = "PENDING_REVIEW"
    [] op = "unarchive"   -> row.status = "ARCHIVED"
    [] op = "deleteImage" -> row.status # "deleted" /\ row.shows = "photo"
    [] OTHER              -> row.status # "deleted"

Effect(op, row) ==
  CASE op \in Approvals \cup {"approve", "unarchive"} -> [row EXCEPT !.status = "LIVE"]
    [] op = "deactivate" -> [row EXCEPT !.status = "ARCHIVED"]
    [] op = "delete"     -> [row EXCEPT !.status = "deleted"]
    [] op = "upload"     -> [row EXCEPT !.shows = "photo"]
    [] op = "update"     -> [row EXCEPT !.shows = IF @ = "imported" THEN "edited" ELSE @]
    [] OTHER             -> [row EXCEPT !.shows = "edited"]

(* A selection goes in requests of APPROVE_SELECTED_BATCH listings, one    *)
(* after the other.                                                        *)
IsBatch(call, batch) ==
  IF call.op \in Approvals /\ Cardinality(call.ahead) > APPROVE_SELECTED_BATCH
  THEN Cardinality(batch) = APPROVE_SELECTED_BATCH
  ELSE batch = call.ahead

(* The answer of a request that was carried out may be lost or come too    *)
(* late.                                                                   *)
CallServed(call, lost) ==
  \E batch \in SUBSET call.ahead :
    LET done == {c \in batch : Accepts(call.op, stored[c])}
        rest == call.ahead \ batch IN
    /\ call.step = "sent" /\ IsBatch(call, batch)
    /\ stored' = [c \in Cars |-> IF c \in done THEN Effect(call.op, stored[c]) ELSE stored[c]]
    /\ calls' = (calls \ {call}) \cup
         {IF ~lost /\ rest # {} THEN [call EXCEPT !.op = "approveRest", !.ahead = rest]
          ELSE [call EXCEPT !.left = IF lost \/ ~Patches(call.op) THEN @ ELSE stored',
                            !.step = CASE lost -> "lost"
                                       [] done = {} /\ call.op \notin Approvals -> "refused"
                                       [] OTHER -> "done"]}
    /\ UNCHANGED <<list, fetch, editing, drift, clicks>>

(* A request that fails before anything is carried out: what a selection's *)
(* requests before it did the page is not told either.                     *)
CallFailed(call) ==
  /\ call.step = "sent"
  /\ calls' = (calls \ {call}) \cup
       {[call EXCEPT !.step = IF call.op = "approveRest" THEN "lost" ELSE "refused"]}
  /\ UNCHANGED <<stored, list, fetch, editing, drift, clicks>>

ServerRuns(op, c) ==
  /\ clicks < MaxClicks /\ clicks' = clicks + 1
  /\ Accepts(op, stored[c])
  /\ stored' = [stored EXCEPT ![c] = Effect(op, @)]
  /\ drift' = TRUE
  /\ UNCHANGED <<list, fetch, calls, editing>>

----
(* The answers. A patch brings the list up to date with the call, but not  *)
(* when the row has changed again since, nor when a fetch that was served  *)
(* before the call arrives after it.                                       *)
PatchMisses(call) ==
  \E c \in call.ids : stored[c] # call.left[c] \/ (fetch.step = "served" /\ fetch.stored[c] # stored[c])

Patched(call, row) ==
  IF call.op = "approve" THEN [row EXCEPT !.status = "LIVE"]
  ELSE [row EXCEPT !.shows = "edited"]

CallAnswered(call) ==
  LET others == calls \ {call} IN
  /\ call.step # "sent"
  /\ UNCHANGED <<stored, clicks>>
  /\ \/ /\ call.step = "done" /\ Patches(call.op)
        /\ list' = [list EXCEPT !.data = 
                      [c \in Cars |-> IF c \in call.ids THEN Patched(call, @[c]) ELSE @[c]]]
        /\ drift' = (drift \/ PatchMisses(call))
        /\ calls' = others /\ UNCHANGED <<fetch, editing>>
     \/ /\ call.step = "done" /\ call.op = "update" /\ call.photos
        /\ calls' = others \cup {[call EXCEPT !.op = "upload", !.step = "sent"]}
        /\ UNCHANGED <<list, fetch, editing, drift>>
     \/ /\ \/ call.step = "done" /\ ~(call.op = "update" /\ call.photos)
           \/ call.op = "upload"
        /\ ~Patches(call.op)
        /\ editing' = IF call.op \in {"update", "upload"} THEN "no" ELSE editing
        /\ Reload /\ calls' = others /\ UNCHANGED drift
     \/ /\ call.step \in {"refused", "lost"} /\ call.op # "upload"
        /\ drift' = (drift \/ call.step = "lost")
        /\ calls' = others /\ UNCHANGED <<list, fetch, editing>>

ListNext ==
  \/ FetchServed \/ FetchArrived \/ FetchFailed \/ ChangeSort \/ Cancel
  \/ DeletePhoto
  \/ \E ids \in SUBSET Cars : ApproveSelected(ids)
  \/ \E photos \in BOOLEAN : SaveChanges(photos)
  \/ \E c \in Cars : EditListing(c)
  \/ \E c \in Cars, op \in {"approve", "deactivate", "unarchive", "delete"} : ClickRow(op, c)
  \/ \E c \in Cars, op \in {"approve", "deactivate"} : ServerRuns(op, c)
  \/ \E call \in calls : CallAnswered(call) \/ CallFailed(call)
  \/ \E call \in calls, lost \in BOOLEAN : CallServed(call, lost)

ListSpec == ListInit /\ [][ListNext]_listVars

----
(* At rest, without an error, the page shows the rows of the server: every *)
(* mutation of this page either fetched them again or patched them. What   *)
(* the page cannot know is left out: a change made elsewhere, a call that  *)
(* was carried out but not answered, in whole or, of a selection, in part, *)
(* and the two ways a patch can miss (see PatchMisses).                    *)
ListShowsServer ==
  fetch = NoFetch /\ calls = {} /\ ~drift /\ ~list.error => list.data = stored
====
