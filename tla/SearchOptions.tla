---- MODULE SearchOptions ----
(***************************************************************************)
(* What a buyer may choose from, in two sections that share no state: the  *)
(* lists of options, kept for a while, and a search by filters with its    *)
(* facets.                                                                 *)
(***************************************************************************)
EXTENDS Naturals, Sequences, FiniteSets, FiniteSetsExt, SequencesExt

(***************************************************************************)
(* SearchOptionsService: the makes, models and districts a buyer may filter*)
(* by and the figures of the landing page, each read by several queries and*)
(* kept for a while. Administrators edit the dictionary, dealers publish   *)
(* and withdraw vehicles, and dealers are verified, in between.            *)
(*                                                                         *)
(*   activeEntries  entries of the dictionary in use                       *)
(*   live         vehicles on offer                                        *)
(*   verified     dealers that are verified                                *)
(*   since        when each of these last changed                          *)
(*   cache        per kind of question: the answer kept and until when     *)
(*   loads        requests that found nothing kept and ask the database    *)
(*   served       the answer that was just given                           *)
(*   asked        the questions of this behaviour: one, in requests that   *)
(*                overlap, or two, one request at a time, for what overlaps*)
(*                is one question's answers                                *)
(***************************************************************************)

CONSTANTS
  Loads,           \* requests under way at a time
  OptionsTTL,      \* OPTIONS_CACHE_TTL_MS
  MaxLoad,         \* bound on the time that the queries of a request take
  MaxClock,        \* bound on time
  MaxEdits         \* bound on changes of the catalogue

(* An answer is kept for some time.                                        *)
ASSUME OptionsAssumption ==
  OptionsTTL \in Nat \ {0} /\ MaxLoad \in Nat /\ MaxClock \in Nat /\ MaxEdits \in Nat

VARIABLES activeEntries, live, verified, since, cache, loads, served, asked, clock, edits

optionVars == <<activeEntries, live, verified, since, cache, loads, served, asked, clock, edits>>

OptionMakes == {"toyota", "honda"}
MakeOf == [aqua |-> "toyota", cb |-> "honda"]
Models == DOMAIN MakeOf
SoldAs == [toyota |-> {"car"}, honda |-> {"car", "bike"}, aqua |-> {"car"}, cb |-> {"bike"}]

Stock == [v1 |-> [dealer |-> "d1", make |-> "honda", type |-> "car", district |-> "galle"],
         v2 |-> [dealer |-> "d2", make |-> "honda", type |-> "bike", district |-> "galle"]]
Dealers == {"d1", "d2"}

Catalogue == OptionMakes \cup Models \cup DOMAIN Stock \cup Dealers

Types == {"car", "bike"}
Questions == Types \cup {"__all__", "stats"}

InScope(entry, type) == type = "__all__" \/ type \in SoldAs[entry]

(* The queries, as of now.                                                 *)
MakeRows(type) == {m \in OptionMakes \cap activeEntries : InScope(m, type)}
ModelRows(type, makes) == {m \in Models \cap activeEntries : MakeOf[m] \in makes /\ InScope(m, type)}
Districts == {Stock[v].district : v \in live}
Totals ==
  [vehicles |-> Cardinality(live), dealers |-> Cardinality({Stock[v].dealer : v \in live}),
   verified |-> Cardinality({Stock[v].dealer : v \in live} \cap verified)]
PerType == [t \in Types |-> Cardinality({v \in live : Stock[v].type = t})]
PerMake == [m \in OptionMakes |-> Cardinality({v \in live : Stock[v].make = m})]

(* A question takes two or three queries, in this order or side by side.   *)
Queries(question) ==
  IF question = "stats" THEN {"totals", "types", "makes"} ELSE {"makes", "models", "districts"}

Row(load, query) ==
  CASE query = "totals"                             -> Totals
    [] query = "types"                              -> PerType
    [] query = "makes" /\ load.question = "stats"   -> PerMake
    [] query = "makes" /\ load.question # "stats"   -> MakeRows(load.question)
    [] query = "models"                             -> ModelRows(load.question, load.rows["makes"])
    [] query = "districts"                          -> Districts

NoRows == [q \in {} |-> {}]
NoLoad == [question |-> "none", rows |-> NoRows, began |-> 0]
NotKept == [rows |-> NoRows, expires |-> 0]
NothingServed == [question |-> "none", rows |-> NoRows]

SearchOptionsTypeOK ==
  /\ activeEntries \subseteq OptionMakes \cup Models /\ live \subseteq DOMAIN Stock /\ verified \subseteq Dealers
  /\ since \in [Catalogue -> 0 .. MaxClock]
  /\ \A q \in Questions : cache[q].expires \in 0 .. (MaxClock + OptionsTTL)
  /\ \A l \in Loads : loads[l].question \in Questions \cup {"none"}
  /\ served.question \in Questions \cup {"none"}
  /\ asked \subseteq Questions /\ clock \in 0 .. MaxClock /\ edits \in 0 .. MaxEdits

SearchOptionsInit ==
  /\ activeEntries = OptionMakes \cup {"aqua"} /\ live = {"v1"} /\ verified = {"d1"}
  /\ since = [c \in Catalogue |-> 0]
  /\ cache = [q \in Questions |-> NotKept] /\ loads = [l \in Loads |-> NoLoad]
  /\ asked \in {{"stats"}, {"bike"}, {"__all__", "bike"}}
  /\ served = NothingServed /\ clock = 0 /\ edits = 0

----
CacheKey(question) == question

(* getOptions and getStats with an answer kept, and without.               *)
ServeKept(question) ==
  /\ cache[CacheKey(question)].expires > clock
  /\ served' = [question |-> question, rows |-> cache[CacheKey(question)].rows]
  /\ UNCHANGED <<activeEntries, live, verified, since, cache, loads, asked, clock, edits>>

Load(l, question) ==
  /\ Cardinality(asked) > 1 => \A other \in Loads : loads[other] = NoLoad
  /\ loads[l] = NoLoad /\ cache[CacheKey(question)].expires <= clock
  /\ loads' = [loads EXCEPT ![l] = [question |-> question, rows |-> NoRows, began |-> clock]]
  /\ served' = NothingServed
  /\ UNCHANGED <<activeEntries, live, verified, since, cache, asked, clock, edits>>

(* One query. The models are asked for once the makes are known: of none,  *)
(* there are none.                                                         *)
Read(l, query) ==
  /\ query \in Queries(loads[l].question) \ DOMAIN loads[l].rows
  /\ query = "models" => "makes" \in DOMAIN loads[l].rows
  /\ loads' = [loads EXCEPT ![l].rows =
                 [q \in DOMAIN @ \cup {query} |->
                    IF q = query THEN Row(loads[l], query) ELSE @[q]]]
  /\ served' = NothingServed
  /\ UNCHANGED <<activeEntries, live, verified, since, cache, asked, clock, edits>>

KeepAnswer(l) ==
  /\ DOMAIN loads[l].rows = Queries(loads[l].question)
  /\ cache' = [cache EXCEPT ![CacheKey(loads[l].question)] =
                 [rows |-> loads[l].rows, expires |-> clock + OptionsTTL]]
  /\ served' = [question |-> loads[l].question, rows |-> loads[l].rows]
  /\ loads' = [loads EXCEPT ![l] = NoLoad]
  /\ UNCHANGED <<activeEntries, live, verified, since, asked, clock, edits>>

(* A query that fails fails the request, and nothing is kept.              *)
LoadFails(l) ==
  /\ loads' = [loads EXCEPT ![l] = NoLoad] /\ served' = NothingServed
  /\ UNCHANGED <<activeEntries, live, verified, since, cache, asked, clock, edits>>

Toggled(set, x) == IF x \in set THEN set \ {x} ELSE set \cup {x}

(* What the questions of this behaviour are about.                         *)
Subject == DOMAIN Stock \cup IF "stats" \in asked THEN Dealers ELSE OptionMakes \cup Models

EditStock(x) ==
  /\ edits < MaxEdits /\ edits' = edits + 1
  /\ activeEntries'   = IF x \in OptionMakes \cup Models THEN Toggled(activeEntries, x) ELSE activeEntries
  /\ live'     = IF x \in DOMAIN Stock THEN Toggled(live, x) ELSE live
  /\ verified' = IF x \in Dealers THEN Toggled(verified, x) ELSE verified
  /\ since' = [since EXCEPT ![x] = clock]
  /\ served' = NothingServed
  /\ UNCHANGED <<cache, loads, asked, clock>>

TimePasses ==
  /\ clock < MaxClock
  /\ \A l \in Loads : loads[l] # NoLoad => clock + 1 <= loads[l].began + MaxLoad
  /\ clock' = clock + 1 /\ served' = NothingServed
  /\ UNCHANGED <<activeEntries, live, verified, since, cache, loads, asked, edits>>

SearchOptionsNext ==
  \/ \E question \in asked :
       \/ ServeKept(question)
       \/ \E l \in Loads : Load(l, question)
  \/ \E l \in Loads :
       /\ loads[l] # NoLoad
       /\ \/ \E query \in Queries(loads[l].question) : Read(l, query)
          \/ KeepAnswer(l) \/ LoadFails(l)
  \/ \E x \in Subject : EditStock(x)
  \/ TimePasses

SearchOptionsSpec == SearchOptionsInit /\ [][SearchOptionsNext]_optionVars

----
Steady(entries) == \A e \in entries : clock - since[e] >= OptionsTTL + MaxLoad

(* What a buyer is offered: of the asked type only, models of offered makes*)
(* only, and whatever has not changed for as long as an answer is kept and *)
(* a load takes is offered as it is, however loads overlap and whichever   *)
(* of them is kept last. The figures agree with the catalogue, and so with *)
(* each other, under the same condition (search-options.service.ts).       *)
OptionsAreRecent ==
  CASE served.question = "none" -> TRUE
    [] served.question = "stats" ->
         Steady(DOMAIN Stock \cup Dealers) =>
           served.rows = [totals |-> Totals, types |-> PerType, makes |-> PerMake]
    [] OTHER ->
         /\ \A m \in served.rows["makes"] : InScope(m, served.question)
         /\ \A m \in served.rows["models"] :
              InScope(m, served.question) /\ MakeOf[m] \in served.rows["makes"]
         /\ \A m \in OptionMakes : Steady({m}) =>
              (m \in served.rows["makes"] <=> m \in MakeRows(served.question))
         /\ \A m \in Models : Steady({m, MakeOf[m]}) =>
              (m \in served.rows["models"]
                 <=> m \in ModelRows(served.question, MakeRows(served.question)))
         /\ \A v \in live : Steady({v}) => Stock[v].district \in served.rows["districts"]
         /\ Steady(DOMAIN Stock) => served.rows["districts"] = Districts

----
(***************************************************************************)
(* A search by filters and its facets: the query string becomes filters    *)
(* (FilterSearchDto), matches are counted, and one page of them and, per   *)
(* dimension, how many there would be of each value are read by further    *)
(* queries, while dealers publish and withdraw vehicles.                   *)
(*                                                                         *)
(*   onOffer  vehicles that are LIVE                                       *)
(*   trusted  dealers that are verified                                    *)
(*   queried  the query string                                             *)
(*   answer   how far the search is, the filters it ended up with, and what*)
(*            was read                                                     *)
(*   shifted  history: the catalogue changed between two of its queries    *)
(***************************************************************************)

CONSTANTS
  PageLimit,       \* vehicles on a page
  MaxShifts        \* bound on changes of the catalogue

ASSUME FacetsAssumption == PageLimit \in Nat \ {0} /\ MaxShifts \in Nat

VARIABLES onOffer, trusted, queried, answer, shifted, shifts

facetVars == <<onOffer, trusted, queried, answer, shifted, shifts>>

Catalog == [u1 |-> [types |-> "car",  makes |-> "toyota", fuels |-> "petrol", suv |-> FALSE, price |-> 1, dealer |-> "d1"],
            u2 |-> [types |-> "car",  makes |-> "honda",  fuels |-> "null",   suv |-> FALSE, price |-> 2, dealer |-> "d2"],
            u3 |-> [types |-> "bike", makes |-> "honda",  fuels |-> "petrol", suv |-> FALSE, price |-> 1, dealer |-> "d2"],
            u4 |-> [types |-> "car",  makes |-> "toyota", fuels |-> "null",   suv |-> TRUE,  price |-> 2, dealer |-> "d1"]]
AllOffers == DOMAIN Catalog
Sellers == {"d1", "d2"}

Dimensions == {"types", "makes", "fuels"}
VEHICLE_TYPES == {"car", "bike"}

(* What a URL may say: lists between commas, flags, one spec as key:value, *)
(* and a range, whose bound is the highest price when it is absent. The    *)
(* other lists and ranges are taken the same way.                          *)
QueryStrings ==
  [types : {<<>>, <<"car">>, <<"car", "bike">>, <<"boat">>},
   makes : {<<>>, <<"">>, <<"toyota">>, <<"honda", "">>, <<"toyota", "honda">>},
   verifiedDealersOnly : {"absent", "true", "false"},
   specs : {"absent", "body_type:SUV", "body_type", "wings:TWO"},
   maxPrice : 1 .. 2, page : 1 .. 2]

NoAnswer == [state |-> "none", filters |-> "none", total |-> 0, relaxed |-> FALSE,
             items |-> <<>>, read |-> {}, facets |-> [d \in Dimensions |-> {}]]

FacetedSearchTypeOK ==
  /\ onOffer \subseteq AllOffers /\ trusted \subseteq Sellers /\ queried \in QueryStrings
  /\ answer.state \in {"none", "refused", "reading", "answered"} /\ answer.total \in Nat
  /\ answer.items \in Seq(AllOffers) /\ answer.read \subseteq Dimensions \cup {"items"}
  /\ answer.relaxed \in BOOLEAN /\ shifted \in BOOLEAN /\ shifts \in 0 .. MaxShifts

FacetedSearchInit ==
  /\ onOffer = AllOffers /\ trusted = {"d1"} /\ queried \in QueryStrings
  /\ answer = NoAnswer /\ shifted = FALSE /\ shifts = 0

----
(* toArray, parseSpecs, and Boolean("false"), which is true.               *)
toArray(list) == ToSet(list) \ {""}
Flag(text) == text # "absent"
Malformed(specs) == specs = "body_type"

FilterSet(query) ==
  [types |-> toArray(query.types), makes |-> toArray(query.makes), fuels |-> {},
   verifiedDealersOnly |-> Flag(query.verifiedDealersOnly), specs |-> query.specs,
   maxPrice |-> query.maxPrice, page |-> query.page]

(* buildFilterQuery knows the keys of specs, and their values.             *)
Acceptable(query) ==
  /\ toArray(query.types) \subseteq VEHICLE_TYPES
  /\ ~Malformed(query.specs) /\ query.specs # "wings:TWO"

(* Values of one filter are alternatives, filters add up; null is no value.*)
Where(v, filters) ==
  /\ v \in onOffer
  /\ \A d \in Dimensions : filters[d] # {} => Catalog[v][d] \in filters[d]
  /\ Catalog[v].price <= filters.maxPrice
  /\ filters.specs = "body_type:SUV" => Catalog[v].suv
  /\ filters.verifiedDealersOnly => Catalog[v].dealer \in trusted

Passes(filters) == {v \in AllOffers : Where(v, filters)}
CountOf(filters) == Cardinality(Passes(filters))

(* One page of the matches; their order is of no interest here.            *)
PageOf(filters) ==
  LET all == SetToSeq(Passes(filters))
      offset == (filters.page - 1) * PageLimit
      last == IF offset + PageLimit < Len(all) THEN offset + PageLimit ELSE Len(all) IN
    SubSeq(all, offset + 1, last)

(* Mutant of Scoped: a dimension's own filter stays in its counts.         *)
Unscoped(filters, dimension) == filters

Scoped(filters, dimension) == [filters EXCEPT ![dimension] = {}]

Buckets(filters, dimension) ==
  LET found == Passes(Scoped(filters, dimension))
      values == {Catalog[v][dimension] : v \in found} \ {"null"} IN
    {[value |-> x, count |-> Cardinality({v \in found : Catalog[v][dimension] = x})] : x \in values}

----
BadRequest ==
  /\ answer.state = "none" /\ ~Acceptable(queried)
  /\ answer' = [NoAnswer EXCEPT !.state = "refused"]
  /\ UNCHANGED <<onOffer, trusted, queried, shifted, shifts>>

(* With no match the specs are dropped, the first step of relax: the others*)
(* are NaturalSearch's.                                                    *)
CountMatches ==
  /\ answer.state = "none" /\ Acceptable(queried)
  /\ LET filters == FilterSet(queried)
         without == [filters EXCEPT !.specs = "absent"]
         relaxed == CountOf(filters) = 0 /\ filters.specs # "absent" /\ CountOf(without) > 0
         final == IF relaxed THEN without ELSE filters IN
       answer' = [NoAnswer EXCEPT !.state = "reading", !.filters = final,
                                  !.relaxed = relaxed, !.total = CountOf(final)]
  /\ UNCHANGED <<onOffer, trusted, queried, shifted, shifts>>

ReadItems ==
  /\ answer.state = "reading" /\ "items" \notin answer.read
  /\ answer' = [answer EXCEPT !.items = PageOf(answer.filters), !.read = @ \cup {"items"}]
  /\ UNCHANGED <<onOffer, trusted, queried, shifted, shifts>>

ReadFacet(dimension) ==
  /\ answer.state = "reading" /\ dimension \notin answer.read
  /\ answer' = [answer EXCEPT !.facets[dimension] = Buckets(answer.filters, dimension),
                              !.read = @ \cup {dimension}]
  /\ UNCHANGED <<onOffer, trusted, queried, shifted, shifts>>

Answered ==
  /\ answer.state = "reading" /\ answer.read = Dimensions \cup {"items"}
  /\ answer' = [answer EXCEPT !.state = "answered"]
  /\ UNCHANGED <<onOffer, trusted, queried, shifted, shifts>>

Shift(v) ==
  /\ shifts < MaxShifts /\ answer.state = "reading"
  /\ onOffer' = IF v \in onOffer THEN onOffer \ {v} ELSE onOffer \cup {v}
  /\ shifts' = shifts + 1 /\ shifted' = TRUE
  /\ UNCHANGED <<trusted, queried, answer>>

FacetedSearchNext ==
  \/ BadRequest \/ CountMatches \/ ReadItems \/ Answered
  \/ \E dimension \in Dimensions : ReadFacet(dimension)
  \/ \E v \in AllOffers : Shift(v)

FacetedSearchSpec == FacetedSearchInit /\ [][FacetedSearchNext]_facetVars

----
Bucketed(dimension, values) ==
  MapThenSumSet(LAMBDA b : b.count, {b \in answer.facets[dimension] : b.value \in values})

ValuesOf(dimension) == {Catalog[v][dimension] : v \in AllOffers} \ {"null"}

(* What a facet promises, if no vehicle came or went between the queries:  *)
(* the values chosen in a dimension account for the matches, and one more  *)
(* value adds as many as its bucket says, or none without a bucket, of the *)
(* filters that the results are for, relaxed or not. A page has as many    *)
(* vehicles as it should. In any case every vehicle listed was a match when*)
(* it was read (vehicle-search.repository.ts:111-210).                     *)
FacetsPredict ==
  answer.state = "answered" =>
    /\ \A i \in DOMAIN answer.items :
         \A d \in Dimensions : answer.filters[d] # {} =>
           Catalog[answer.items[i]][d] \in answer.filters[d]
    /\ ~shifted =>
         /\ Len(answer.items) =
              Cardinality({n \in 1 .. answer.total : (n - 1) \div PageLimit = answer.filters.page - 1})
         /\ \A d \in Dimensions :
              LET chosen == answer.filters[d]
                  promised == Bucketed(d, chosen) IN
                /\ chosen # {} => promised = answer.total
                /\ \A x \in ValuesOf(d) \ chosen :
                     CountOf([answer.filters EXCEPT ![d] = @ \cup {x}]) = promised + Bucketed(d, {x})
====
