---- MODULE SearchPage ----
(***************************************************************************)
(* The pages that search, in three sections that share no state: the       *)
(* searches that the search page's URLs start (useVehicleSearch), the      *)
(* filters its controls compute (FilterSidebar and the chips), and the     *)
(* search bar of the landing page.                                         *)
(***************************************************************************)
EXTENDS Naturals, FiniteSets

(***************************************************************************)
(* The search page (useVehicleSearch): the filters live in the URL, the    *)
(* controls compute the next URL, and every URL that is rendered starts a  *)
(* search and aborts the one before. Clicks, renders and answers interleave*)
(* and answers come in any order.                                          *)
(*                                                                         *)
(*   url       appliedFilters, as last rendered                            *)
(*   pending   the URL of the router, which the next render will show      *)
(*   draftRef  the snapshot the sidebar works on                           *)
(*   searches  searches under way and not aborted, and those that were     *)
(*             aborted too late for the network                            *)
(*   page      what the page shows: the filters its result is for, whether *)
(*             it is loading, whether it shows an error                    *)
(*   wanted    history variable: the boxes that the clicks since the last  *)
(*             render ask for; stale once a control that works on the      *)
(*             rendered URL and one that works on draftRef were both used  *)
(***************************************************************************)

CONSTANTS
  Facets,          \* filters of the sidebar
  MaxSearches      \* bound on searches

ASSUME SearchPageAssumption == MaxSearches \in Nat \ {0}

VARIABLES url, pending, draftRef, searches, page, wanted, started

searchVars == <<url, pending, draftRef, searches, page, wanted, started>>

Filters == [facets : SUBSET Facets, q : BOOLEAN, sort : {"newest", "price"}]

NoFilters == [facets |-> {}, q |-> FALSE, sort |-> "newest"]
NothingYet == [facets |-> {}, q |-> FALSE, sort |-> "none"]

SearchPageTypeOK ==
  /\ url \in Filters /\ pending \in Filters /\ draftRef \in Filters
  /\ searches \subseteq [filters : Filters, id : 1 .. MaxSearches, aborted : BOOLEAN]
  /\ page \in [result : Filters \cup {NothingYet}, loading : BOOLEAN, error : BOOLEAN]
  /\ wanted \in [facets : SUBSET Facets, stale : BOOLEAN]
  /\ started \in 0 .. MaxSearches

SearchFor(filters) == [filters |-> filters, id |-> started + 1, aborted |-> FALSE]

SearchPageInit ==
  /\ url = NoFilters /\ pending = NoFilters /\ draftRef = NoFilters
  /\ started = 1
  /\ searches = {[filters |-> NoFilters, id |-> 1, aborted |-> FALSE]}
  /\ page = [result |-> NothingYet, loading |-> TRUE, error |-> FALSE]
  /\ wanted = [facets |-> {}, stale |-> FALSE]

----
Ticked(facets, facet) == IF facet \in facets THEN facets \ {facet} ELSE facets \cup {facet}

(* updateDraft: a box of the sidebar; the keyword goes.                    *)
UpdateDraft(facet) ==
  /\ draftRef' = [draftRef EXCEPT !.facets = Ticked(@, facet), !.q = FALSE]
  /\ pending' = draftRef'
  /\ wanted' = [facets |-> Ticked(wanted.facets, facet),
                stale |-> wanted.stale \/ draftRef # pending]
  /\ UNCHANGED <<url, searches, page, started>>

(* setSort, removeAppliedFilters and setKeyword work on the rendered URL.  *)
FromApplied(filters, facets) ==
  /\ pending' = filters
  /\ wanted' = [facets |-> facets, stale |-> wanted.stale \/ pending # url]
  /\ UNCHANGED <<url, draftRef, searches, page, started>>

SetSort(sort) == FromApplied([url EXCEPT !.sort = sort], wanted.facets)

RemoveApplied(facet) ==
  /\ facet \in url.facets
  /\ FromApplied([url EXCEPT !.facets = @ \ {facet}], wanted.facets \ {facet})

SetKeyword(q) == FromApplied([url EXCEPT !.facets = {}, !.q = q], {})

ClearFilters ==
  /\ pending' = NoFilters
  /\ wanted' = [facets |-> {}, stale |-> wanted.stale \/ draftRef # NoFilters]
  /\ UNCHANGED <<url, draftRef, searches, page, started>>

(* A render with a new URL: its effects abort the search before (whose     *)
(* answer may come all the same), start the new one, and bring draftRef up *)
(* to date.                                                                *)
Rendered(late) ==
  /\ pending # url /\ started < MaxSearches
  /\ url' = pending /\ draftRef' = pending
  /\ searches' = {SearchFor(pending)}
       \cup IF late THEN {[s EXCEPT !.aborted = TRUE] : s \in searches} ELSE {}
  /\ started' = started + 1
  /\ page' = [page EXCEPT !.loading = TRUE, !.error = FALSE]
  /\ wanted' = [facets |-> pending.facets, stale |-> FALSE]
  /\ UNCHANGED pending

SearchAnswered(s) ==
  /\ searches' = searches \ {s}
  /\ page' = IF s.aborted THEN page
             ELSE [result |-> s.filters, loading |-> FALSE, error |-> FALSE]
  /\ UNCHANGED <<url, pending, draftRef, wanted, started>>

Failed(s) ==
  /\ searches' = searches \ {s}
  /\ page' = IF s.aborted THEN page ELSE [page EXCEPT !.loading = FALSE, !.error = TRUE]
  /\ UNCHANGED <<url, pending, draftRef, wanted, started>>

SearchPageNext ==
  \/ \E facet \in Facets : UpdateDraft(facet) \/ RemoveApplied(facet)
  \/ \E sort \in {"newest", "price"} : SetSort(sort)
  \/ \E q \in BOOLEAN : SetKeyword(q)
  \/ ClearFilters
  \/ \E late \in BOOLEAN : Rendered(late)
  \/ \E s \in searches : SearchAnswered(s) \/ Failed(s)

SearchPageSpec == SearchPageInit /\ [][SearchPageNext]_searchVars

----
(* The boxes ticked before a render are all in the URL that is rendered    *)
(* next, unless a control that works on the rendered URL (the sort order, a*)
(* chip) was used in between: it drops what is pending. And when nothing is*)
(* loading, the results are those of the URL, or an error says that they   *)
(* are not, in whichever order searches are answered.                      *)
ResultsAreWanted ==
  /\ ~wanted.stale => pending.facets = wanted.facets
  /\ ~page.loading /\ ~page.error => page.result = url

----
(***************************************************************************)
(* The filters of the search page: vehicle types, makes with their models  *)
(* (a list that is fetched again when the types narrow it), a price that is*)
(* typed, pages, and the chips above the results. Every control computes   *)
(* the next URL from what was rendered, from the sidebar's snapshot, or    *)
(* from both; the URL is rendered later. The other boxes and presets are as*)
(* the types are, the other ranges as the price is.                        *)
(*                                                                         *)
(*   rendered, next, draft  filters in the URL that is rendered, in the URL*)
(*                          to be rendered, and in the sidebar's snapshot  *)
(*   panel                  the sidebar (a drawer on a small screen), its  *)
(*                          list of makes and the list under way           *)
(*   range                  the price in the input, and whether a change of*)
(*                          it waits                                       *)
(*   hurried                history: a control was used before the last one*)
(*                          was rendered                                   *)
(*   unmade                 history: the makes were removed by their chip  *)
(*   paged                  history: the filters whose page was chosen     *)
(***************************************************************************)

CONSTANT MaxPanelClicks     \* bound on clicks

ASSUME FilterPanelAssumption == MaxPanelClicks \in Nat

VARIABLES rendered, next, draft, panel, range, hurried, unmade, paged, panelClicks

panelVars == <<rendered, next, draft, panel, range, hurried, unmade, paged, panelClicks>>

TypeNames == {"car", "bike"}
MakeNames == {"toyota", "honda"}
ModelNames == {"aqua", "cb"}
MadeBy == [aqua |-> "toyota", cb |-> "honda"]
SpecNames == {"body_type", "engine_class"}
BuiltAs == [toyota |-> {"car"}, honda |-> {"car", "bike"}, aqua |-> {"car"}, cb |-> {"bike"}]

AllFilters ==
  [types : SUBSET TypeNames, makes : SUBSET MakeNames, models : SUBSET ModelNames,
   specs : SUBSET SpecNames, maxPrice : {0, 5}, page : 1 .. 2]

Unfiltered ==
  [types |-> {}, makes |-> {}, models |-> {}, specs |-> {}, maxPrice |-> 0, page |-> 1]

Scopes == {"any", "car", "bike"}

(* scopeType: makes are narrowed only to a single type.                    *)
Scope(filters) == IF Cardinality(filters.types) = 1 THEN CHOOSE t \in filters.types : TRUE ELSE "any"

Listed(list, names) ==
  IF list \in Scopes THEN {n \in names : list = "any" \/ list \in BuiltAs[n]} ELSE {}

PanelClosed == [open |-> FALSE, list |-> "none", fetch |-> "none"]
PanelOpened(filters) == [open |-> TRUE, list |-> "none", fetch |-> Scope(filters)]

FilterPanelTypeOK ==
  /\ {rendered, next, draft, paged} \subseteq AllFilters
  /\ panel \in [open : BOOLEAN, list : Scopes \cup {"none", "error"}, fetch : Scopes \cup {"none"}]
  /\ range \in [text : {0, 5}, typing : BOOLEAN]
  /\ {hurried, unmade} \subseteq BOOLEAN /\ panelClicks \in 0 .. MaxPanelClicks

FilterPanelInit ==
  /\ rendered = Unfiltered /\ next = Unfiltered /\ draft = Unfiltered /\ paged = Unfiltered
  /\ panel = PanelOpened(Unfiltered) /\ range = [text |-> 0, typing |-> FALSE]
  /\ hurried = FALSE /\ unmade = FALSE /\ panelClicks = 0

----
ToggleValue(set, x) == IF x \in set THEN set \ {x} ELSE set \cup {x}

Clicked ==
  /\ panelClicks < MaxPanelClicks /\ panelClicks' = panelClicks + 1
  /\ hurried' = (hurried \/ next # rendered)

(* applyToUrl: any other filters start at page 1.                          *)
Patch(filters) == [filters EXCEPT !.page = 1]

(* updateDraft and updateDraftMany, from the snapshot.                     *)
Update(filters) ==
  /\ draft' = filters /\ next' = Patch(filters)
  /\ UNCHANGED <<rendered, panel, paged>>

(* CheckboxFacetGroup toggles among the types that are rendered.           *)
ToggleType(t) ==
  /\ panel.open /\ Clicked
  /\ Update([draft EXCEPT !.types = ToggleValue(rendered.types, t)])
  /\ UNCHANGED <<range, unmade>>

(* Without a make go its models: those kept are of makes that stay.        *)
ToggleMake(m) ==
  /\ panel.open /\ m \in Listed(panel.list, MakeNames) /\ Clicked
  /\ IF m \in rendered.makes
       THEN LET kept == rendered.makes \ {m} IN
              Update([draft EXCEPT !.makes = kept,
                !.models = {x \in rendered.models : x \in Listed(panel.list, ModelNames)
                                                    /\ MadeBy[x] \in kept}])
       ELSE Update([draft EXCEPT !.makes = rendered.makes \cup {m}])
  /\ UNCHANGED <<range, unmade>>

(* The models offered are those of the makes that are ticked.              *)
ToggleModel(x) ==
  /\ panel.open /\ x \in Listed(panel.list, ModelNames) /\ MadeBy[x] \in rendered.makes /\ Clicked
  /\ Update([draft EXCEPT !.models = ToggleValue(rendered.models, x)])
  /\ UNCHANGED <<range, unmade>>

(* One spec chosen or given up; the others stay. An engine class is offered*)
(* for bikes, and one chosen before stays when it is offered no longer.    *)
setSpec(key) ==
  /\ panel.open /\ Clicked
  /\ key = "engine_class" => rendered.types = {} \/ "bike" \in rendered.types
  /\ Update([draft EXCEPT !.specs = ToggleValue(rendered.specs, key)])
  /\ UNCHANGED <<range, unmade>>

(* A price is applied once nothing was typed for a while.                  *)
TypePrice(text) ==
  /\ panel.open /\ Clicked
  /\ range' = [text |-> text, typing |-> TRUE]
  /\ UNCHANGED <<rendered, next, draft, panel, unmade, paged>>

PriceSettles ==
  /\ panel.open /\ range.typing
  /\ Update([draft EXCEPT !.maxPrice = range.text])
  /\ range' = [range EXCEPT !.typing = FALSE] /\ hurried' = (hurried \/ next # rendered)
  /\ UNCHANGED <<unmade, panelClicks>>

(* Chips, pages and Clear all work on the rendered filters and leave the   *)
(* snapshot alone.                                                         *)
RemoveChip(key) ==
  /\ rendered[key] # Unfiltered[key] /\ Clicked
  /\ next' = Patch([rendered EXCEPT ![key] = Unfiltered[key]])
  /\ unmade' = (unmade \/ key = "makes")
  /\ UNCHANGED <<rendered, draft, panel, range, paged>>

SetPage(p) ==
  /\ Clicked /\ next' = [rendered EXCEPT !.page = p]
  /\ paged' = [rendered EXCEPT !.page = 1]
  /\ UNCHANGED <<rendered, draft, panel, range, unmade>>

ClearAll ==
  /\ Clicked /\ next' = Unfiltered
  /\ UNCHANGED <<rendered, draft, panel, range, unmade, paged>>

(* The render brings the snapshot up to date, lists makes of another scope *)
(* anew, and shows another price unless one is being typed.                *)
RenderUrl ==
  /\ next # rendered
  /\ rendered' = next /\ draft' = next
  /\ panel' = IF panel.open /\ Scope(next) # Scope(rendered)
              THEN [panel EXCEPT !.fetch = Scope(next)] ELSE panel
  /\ range' = IF next.maxPrice # rendered.maxPrice /\ ~range.typing
              THEN [range EXCEPT !.text = next.maxPrice] ELSE range
  /\ unmade' = (unmade /\ next.models # {})
  /\ UNCHANGED <<next, hurried, paged, panelClicks>>

(* getSearchOptions of the scope asked last: what was aborted is ignored.  *)
MakesAnswered(ok) ==
  /\ panel.fetch # "none"
  /\ panel' = [panel EXCEPT !.list = IF ok THEN panel.fetch ELSE "error", !.fetch = "none"]
  /\ UNCHANGED <<rendered, next, draft, range, hurried, unmade, paged, panelClicks>>

(* The drawer of a small screen: closed, the sidebar is gone, with its list*)
(* and with a price that was not yet applied.                              *)
Drawer ==
  /\ Clicked
  /\ panel' = IF panel.open THEN PanelClosed ELSE PanelOpened(rendered)
  /\ range' = [text |-> rendered.maxPrice, typing |-> FALSE]
  /\ UNCHANGED <<rendered, next, draft, unmade, paged>>

FilterPanelNext ==
  \/ \E t \in TypeNames : ToggleType(t)
  \/ \E m \in MakeNames : ToggleMake(m)
  \/ \E x \in ModelNames : ToggleModel(x)
  \/ \E key \in SpecNames : setSpec(key)
  \/ \E text \in {0, 5} : TypePrice(text)
  \/ PriceSettles
  \/ \E key \in {"types", "makes", "models", "specs", "maxPrice"} : RemoveChip(key)
  \/ \E p \in 1 .. 2 : SetPage(p)
  \/ ClearAll \/ RenderUrl \/ Drawer
  \/ \E ok \in BOOLEAN : MakesAnswered(ok)

FilterPanelSpec == FilterPanelInit /\ [][FilterPanelNext]_panelVars

----
(* The filters hold together however lists, typing and clicks interleave.  *)
(* Every model searched for is of a make searched for, unless the makes    *)
(* went by their chip, or clicks outran renders. A page beyond the first is*)
(* of the very filters for which it was chosen. The makes listed are those *)
(* of the types ticked once no list is under way, and the price in the     *)
(* input is the one applied, unless it is being typed.                     *)
FiltersHoldTogether ==
  /\ rendered.page > 1 => [rendered EXCEPT !.page = 1] = paged
  /\ panel.open /\ panel.fetch = "none" => panel.list \in {Scope(rendered), "error"}
  /\ ~hurried =>
       /\ ~unmade => \A x \in next.models : MadeBy[x] \in next.makes
       /\ next = rendered /\ panel.open /\ ~range.typing => range.text = rendered.maxPrice

----
(***************************************************************************)
(* The landing page: its figures and newest vehicles, and the search bar of*)
(* the hero, which counts the matches of what is chosen and leads to the   *)
(* search page. Vehicles come and go meanwhile.                            *)
(*                                                                         *)
(*   offered   how many vehicles there are of each make and price: 0 or 1  *)
(*   bar       what is typed and chosen in the search bar                  *)
(*   button    the count on its button: how many, and of which choice      *)
(*   timer     the count waits until choosing pauses                       *)
(*   counts    counts under way, those aborted too late included           *)
(*   newest    the rail of newest vehicles: loading, a list, or empty      *)
(*   arrived   the search page that the bar led to                         *)
(*   changed   history: the offers changed, or a count failed, since the   *)
(*             button was brought up to date                               *)
(***************************************************************************)

CONSTANTS
  MaxCounts,       \* bound on counts
  MaxSales         \* bound on vehicles that come or go

ASSUME HomePageAssumption == MaxCounts \in Nat /\ MaxSales \in Nat

VARIABLES offered, bar, button, timer, counts, newest, arrived, changed, counted, sales

homeVars == <<offered, bar, button, timer, counts, newest, arrived, changed, counted, sales>>

MakesSold == {"honda", "toyota"}
PRICE_STEPS == {1, 2}
NoCeiling == 0

Wishes == [make : {"any", "honda"}, maxPrice : {NoCeiling, 1}]
AnyVehicle == [make |-> "any", maxPrice |-> NoCeiling]

NoCount == [known |-> FALSE, total |-> 0, of |-> AnyVehicle]
NotArrived == [q |-> FALSE, choice |-> AnyVehicle, at |-> "home"]

HomePageTypeOK ==
  /\ offered \in [MakesSold -> [PRICE_STEPS -> 0 .. 1]]
  /\ bar \in [typed : BOOLEAN, choice : Wishes]
  /\ button.known \in BOOLEAN /\ button.total \in Nat /\ button.of \in Wishes
  /\ counts \subseteq [of : Wishes, number : 1 .. MaxCounts, aborted : BOOLEAN]
  /\ newest \in {"loading", "listed", "empty"} /\ {timer, changed} \subseteq BOOLEAN
  /\ arrived \in [q : BOOLEAN, choice : Wishes, at : {"home", "search"}]
  /\ counted \in 0 .. MaxCounts /\ sales \in 0 .. MaxSales

HomePageInit ==
  /\ offered = [m \in MakesSold |-> [p \in PRICE_STEPS |-> IF m = "honda" THEN p - 1 ELSE 1]]
  /\ bar = [typed |-> FALSE, choice |-> AnyVehicle]
  /\ button = NoCount /\ timer = TRUE /\ counts = {} /\ newest = "loading"
  /\ arrived = NotArrived /\ changed = FALSE /\ counted = 0 /\ sales = 0

----
(* What filterSearch finds for a choice.                                   *)
TotalOf(choice) ==
  Cardinality({c \in MakesSold \X PRICE_STEPS :
                 /\ offered[c[1]][c[2]] = 1
                 /\ choice.make \in {"any", c[1]}
                 /\ choice.maxPrice = NoCeiling \/ c[2] <= choice.maxPrice})

AtHome == arrived.at = "home"

(* The count's effect cleans up after itself: no timer, and the count under*)
(* way is aborted, perhaps too late. It starts a timer when nothing is     *)
(* typed.                                                                  *)
Choose(new, late) ==
  /\ AtHome /\ new # bar /\ bar' = new
  /\ timer' = ~new.typed
  /\ counts' = IF late THEN {[c EXCEPT !.aborted = TRUE] : c \in counts} ELSE {}
  /\ UNCHANGED <<offered, button, newest, arrived, changed, counted, sales>>

TimerFires ==
  /\ AtHome /\ timer /\ counted < MaxCounts
  /\ counts' = counts \cup {[of |-> bar.choice, number |-> counted + 1, aborted |-> FALSE]}
  /\ timer' = FALSE /\ counted' = counted + 1 /\ changed' = FALSE
  /\ UNCHANGED <<offered, bar, button, newest, arrived, sales>>

CountAnswered(c) ==
  /\ counts' = counts \ {c}
  /\ button' = IF c.aborted THEN button ELSE [known |-> TRUE, total |-> TotalOf(c.of), of |-> c.of]
  /\ UNCHANGED <<offered, bar, timer, newest, arrived, changed, counted, sales>>

(* A count that fails leaves the count before on the button.               *)
CountFailed(c) ==
  /\ counts' = counts \ {c} /\ changed' = (changed \/ ~c.aborted)
  /\ UNCHANGED <<offered, bar, button, timer, newest, arrived, counted, sales>>

NewestAnswered(ok) ==
  /\ AtHome /\ newest = "loading"
  /\ newest' = IF ok THEN "listed" ELSE "empty"
  /\ UNCHANGED <<offered, bar, button, timer, counts, arrived, changed, counted, sales>>

(* submit: everything chosen goes into the URL of the search page, which   *)
(* asks with the words alone when there are some. Leaving aborts the count.*)
SubmitHero ==
  /\ AtHome
  /\ arrived' = [q |-> bar.typed, choice |-> bar.choice, at |-> "search"]
  /\ timer' = FALSE /\ counts' = {}
  /\ UNCHANGED <<offered, bar, button, newest, changed, counted, sales>>

OffersChange(make, price) ==
  /\ AtHome /\ sales < MaxSales
  /\ offered' = [offered EXCEPT ![make][price] = 1 - @] /\ changed' = TRUE /\ sales' = sales + 1
  /\ UNCHANGED <<bar, button, timer, counts, newest, arrived, counted>>

HomePageNext ==
  \/ \E typed \in BOOLEAN, choice \in Wishes, late \in BOOLEAN :
       Choose([typed |-> typed, choice |-> choice], late)
  \/ TimerFires \/ SubmitHero
  \/ \E c \in counts : CountAnswered(c) \/ CountFailed(c)
  \/ \E ok \in BOOLEAN : NewestAnswered(ok)
  \/ \E make \in MakesSold, price \in PRICE_STEPS : OffersChange(make, price)

HomePageSpec == HomePageInit /\ [][HomePageNext]_homeVars

----
(* The number on the button is that of the vehicles that the search page   *)
(* then lists for the same choice, once the count has come, unless offers  *)
(* changed or the count failed since: in whichever order counts come back, *)
(* and after words were typed and deleted again.                           *)
ButtonKeepsItsWord ==
  ~bar.typed /\ ~timer /\ (\A c \in counts : c.aborted) /\ ~changed /\ AtHome =>
    button = [known |-> TRUE, total |-> TotalOf(bar.choice), of |-> bar.choice]
====
