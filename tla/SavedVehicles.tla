---- MODULE SavedVehicles ----
(***************************************************************************)
(* The saved vehicles of one buyer: the module-level list of the browser   *)
(* (useSavedVehicles), which every heart changes before its request is     *)
(* sent, and the favourites of marketplace-service, which another device of*)
(* the buyer changes too. Requests interleave at every await of the        *)
(* service.                                                                *)
(*                                                                         *)
(*   favourites   rows of marketplace.favourites of the buyer              *)
(*   saved        store.get(userId)                                        *)
(*   hydration    the fetch of the list: whether hydrated has the buyer,   *)
(*             and what the answer under way holds                         *)
(*   click        the toggles under way                                    *)
(*   agreed       history variable: vehicles whose last change was a toggle*)
(*             or a fetch that was answered while nothing else was under   *)
(*             way                                                         *)
(***************************************************************************)
EXTENDS Naturals, FiniteSets

CONSTANTS
  Vehicles,
  Clicks,          \* toggles that may be under way at once
  MaxElsewhere     \* bound on changes made on the other device

ASSUME SavedAssumption == Vehicles # {} /\ MaxElsewhere \in Nat

VARIABLES favourites, saved, hydration, click, agreed, elsewhere

savedVars == <<favourites, saved, hydration, click, agreed, elsewhere>>

Click == [pc : {"idle", "find", "write", "answered", "refused", "failed"},
          vehicle : Vehicles, add : BOOLEAN, current : SUBSET Vehicles, alone : BOOLEAN]

IdleClick == [pc |-> "idle", vehicle |-> CHOOSE v \in Vehicles : TRUE, add |-> FALSE,
              current |-> {}, alone |-> TRUE]

SavedTypeOK ==
  /\ favourites \subseteq Vehicles /\ saved \subseteq Vehicles /\ agreed \subseteq Vehicles
  /\ hydration \in [pc : {"no", "asked", "answered", "done"}, list : SUBSET Vehicles,
                    alone : BOOLEAN]
  /\ click \in [Clicks -> Click]
  /\ elsewhere \in 0 .. MaxElsewhere

NotHydrated == [pc |-> "no", list |-> {}, alone |-> TRUE]

SavedInit ==
  /\ favourites \in SUBSET Vehicles
  /\ saved = {} /\ agreed = {} /\ elsewhere = 0
  /\ hydration = NotHydrated
  /\ click = [c \in Clicks |-> IdleClick]

UnderWay   == {c \in Clicks : click[c].pc # "idle"}
Fetching   == hydration.pc \in {"asked", "answered"}
ClickEnds(c) == click' = [click EXCEPT ![c] = IdleClick]

(* The requests under way are no longer alone.                             *)
Joined(clicks) == [d \in Clicks |-> IF d \in UnderWay THEN [clicks[d] EXCEPT !.alone = FALSE]
                                    ELSE clicks[d]]
----
(* The effect of the hook: the first component that mounts asks, once.     *)
Hydrate ==
  /\ hydration.pc = "no"
  /\ hydration' = [pc |-> "asked", list |-> {}, alone |-> UnderWay = {}]
  /\ click' = Joined(click)
  /\ UNCHANGED <<favourites, saved, agreed, elsewhere>>

(* getMyFavourites reads the table, ...                                    *)
FindByBuyer ==
  /\ hydration.pc = "asked"
  /\ hydration' = [hydration EXCEPT !.pc = "answered", !.list = favourites]
  /\ UNCHANGED <<favourites, saved, click, agreed, elsewhere>>

(* ... and the answer replaces the list, also what was toggled meanwhile.  *)
Hydrated ==
  /\ hydration.pc = "answered"
  /\ saved' = hydration.list
  /\ agreed' = IF hydration.alone THEN Vehicles ELSE {}
  /\ hydration' = [NotHydrated EXCEPT !.pc = "done"]
  /\ UNCHANGED <<favourites, click, elsewhere>>

(* A failure lets the next mount ask again; an unmount aborts the fetch and*)
(* leaves the buyer in hydrated.                                           *)
HydrationFails ==
  /\ Fetching
  /\ hydration' = NotHydrated
  /\ UNCHANGED <<favourites, saved, click, agreed, elsewhere>>

Unmounted ==
  /\ Fetching
  /\ hydration' = [NotHydrated EXCEPT !.pc = "done"]
  /\ UNCHANGED <<favourites, saved, click, agreed, elsewhere>>

(* The buyer signs out and in again: __resetSavedVehicles. The requests of *)
(* the session before still answer.                                        *)
SignsInAgain ==
  /\ saved' = {} /\ agreed' = {}
  /\ hydration' = NotHydrated
  /\ click' = Joined(click)
  /\ UNCHANGED <<favourites, elsewhere>>

----
(* toggle: the list changes before the request is sent.                    *)
Toggle(c, v) ==
  LET add == v \notin saved IN
  /\ click[c].pc = "idle"
  /\ saved' = IF add THEN saved \cup {v} ELSE saved \ {v}
  /\ click' = [Joined(click) EXCEPT ![c] =
       [pc |-> "find", vehicle |-> v, add |-> add, current |-> saved,
        alone |-> UnderWay = {} /\ ~Fetching]]
  /\ hydration' = [hydration EXCEPT !.alone = hydration.pc = "no" \/ hydration.pc = "done"]
  /\ agreed' = agreed \ {v}
  /\ UNCHANGED <<favourites, elsewhere>>

(* addFavourite, removeFavourite: a row that is there already is a 409, one*)
(* that is not there a 404, ...                                            *)
FindFavourite(c) ==
  /\ click[c].pc = "find"
  /\ click' = [click EXCEPT ![c].pc =
       IF click[c].add = (click[c].vehicle \in favourites) THEN "refused" ELSE "write"]
  /\ UNCHANGED <<favourites, saved, hydration, agreed, elsewhere>>

(* ... and the write is unconditional, but for the unique index.           *)
WriteFavourite(c) ==
  LET v == click[c].vehicle IN
  /\ click[c].pc = "write"
  /\ favourites' = IF click[c].add THEN favourites \cup {v} ELSE favourites \ {v}
  /\ click' = [click EXCEPT ![c].pc =
       IF click[c].add /\ v \in favourites THEN "failed" ELSE "answered"]
  /\ UNCHANGED <<saved, hydration, agreed, elsewhere>>

(* isAlreadyInDesiredState: the server agrees already.                     *)
Refused(c) ==
  /\ click[c].pc = "refused"
  /\ agreed' = IF click[c].alone THEN agreed \cup {click[c].vehicle} ELSE agreed
  /\ ClickEnds(c)
  /\ UNCHANGED <<favourites, saved, hydration, elsewhere>>

ToggleAnswered(c) ==
  /\ click[c].pc = "answered"
  /\ agreed' = IF click[c].alone THEN agreed \cup {click[c].vehicle} ELSE agreed
  /\ ClickEnds(c)
  /\ UNCHANGED <<favourites, saved, hydration, elsewhere>>

(* Any other error, also an answer that was lost after the row was written,*)
(* puts the whole list back to what it was at the click.                   *)
Undo(c) ==
  /\ click[c].pc # "idle"
  /\ saved' = click[c].current
  /\ agreed' = IF click[c].alone THEN agreed \ {click[c].vehicle} ELSE {}
  /\ IF click[c].pc \in {"answered", "refused", "failed"}
     THEN ClickEnds(c) /\ UNCHANGED favourites
     ELSE \/ ClickEnds(c) /\ UNCHANGED favourites
          \/ /\ ClickEnds(c)
             /\ favourites' = IF click[c].add THEN favourites \cup {click[c].vehicle}
                              ELSE favourites \ {click[c].vehicle}
  /\ UNCHANGED <<hydration, elsewhere>>

(* The buyer saves or drops a vehicle on another device.                   *)
ChangedElsewhere(v) ==
  /\ elsewhere < MaxElsewhere
  /\ elsewhere' = elsewhere + 1
  /\ favourites' = IF v \in favourites THEN favourites \ {v} ELSE favourites \cup {v}
  /\ agreed' = agreed \ {v}
  /\ hydration' = [hydration EXCEPT !.alone = hydration.pc \in {"no", "done"}]
  /\ click' = Joined(click)
  /\ UNCHANGED saved

SavedNext ==
  \/ Hydrate \/ FindByBuyer \/ Hydrated \/ HydrationFails \/ Unmounted \/ SignsInAgain
  \/ \E c \in Clicks :
       \/ \E v \in Vehicles : Toggle(c, v)
       \/ FindFavourite(c) \/ WriteFavourite(c) \/ Refused(c) \/ ToggleAnswered(c) \/ Undo(c)
  \/ \E v \in Vehicles : ChangedElsewhere(v)

SavedSpec == SavedInit /\ [][SavedNext]_savedVars

----
(* A heart shows what the server has, for every vehicle whose last change  *)
(* was answered while nothing else was under way: a click on a list that   *)
(* was wrong (never fetched, or changed on another device) mends it.       *)
HeartsAgree == \A v \in agreed : v \in saved <=> v \in favourites
====
