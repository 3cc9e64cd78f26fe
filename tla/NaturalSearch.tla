---- MODULE NaturalSearch ----
(***************************************************************************)
(* One search of marketplace-service, by words or by the form: the rules   *)
(* read the words, the language model fills the gaps they leave, and a     *)
(* search without results gives up one filter after the other until it has *)
(* some. StockVehicles are sold meanwhile.                                 *)
(*                                                                         *)
(*   stock     the live vehicles, each by the value of each field          *)
(*   rules     the filters the rules (or the form) made of the query       *)
(*   filters   the filters the search applies now                          *)
(*   rank      what the leftover word is used for: nothing, the order of   *)
(*             the results, or which vehicles are results                  *)
(*   search    the step, the next relaxation, what was relaxed, the vehicles*)
(*             that were counted, and those found when the page was read   *)
(*   sold      history variable: a vehicle went while the search ran       *)
(***************************************************************************)
EXTENDS Naturals, Sequences, FiniteSets, SequencesExt

CONSTANTS
  QueryFields,          \* the fields of a query that are modelled
  MaxStock,        \* bound on live vehicles
  MaxFilters       \* bound on filters the rules read in one query

VARIABLES stock, rules, filters, rank, search, sold

naturalVars == <<stock, rules, filters, rank, search, sold>>

(* The order of relaxation: DETAIL_RELAX_RULES, and around them the steps  *)
(* of relaxNatural.                                                        *)
DetailRules == <<"specs", "mileageRange", "yearRange">>
Relaxable   == <<"semanticText", "specs", "mileageRange", "yearRange",
                 "fuelType", "model", "make", "vehicleType", "maxPrice">>

(* A range is met, met once it is widened, or not met; any other field has *)
(* the value the buyer said or another. A model named "said" is one of the *)
(* make "said", and its vehicle type is "said".                            *)
Ranges == {"mileageRange", "yearRange", "maxPrice"}
FieldValues(f) == IF f \in Ranges THEN {"said", "near", "far"} ELSE {"said", "other"}

StockVehicles == {v \in [QueryFields -> {"said", "other", "near", "far"}] :
               /\ \A f \in QueryFields : v[f] \in FieldValues(f)
               /\ {"make", "model"} \subseteq QueryFields => v["model"] = v["make"]
               /\ {"vehicleType", "model"} \subseteq QueryFields =>
                    (v["model"] = "said" => v["vehicleType"] = "said")}

NothingAsked == [f \in QueryFields |-> "unset"]
Answers == [QueryFields -> {"unset", "said", "other", "near", "far"}]
LlmAnswers == {[f \in QueryFields |-> IF f \in Ranges /\ a[f] = "other" THEN "near" ELSE a[f]] :
                 a \in [QueryFields -> {"unset", "said", "other"}]}
NewSearch    == [pc |-> "repair", next |-> 1, natural |-> TRUE, dropped |-> {}, counted |-> {},
                 items |-> {}]

SearchTypeOK ==
  /\ stock \subseteq StockVehicles
  /\ rules \in Answers /\ filters \in Answers
  /\ sold \in BOOLEAN
  /\ rank \in {"none", "orders", "gates"}
  /\ search \in [pc : {"repair", "count", "relax", "recount", "items", "answered"},
                 next : 1 .. Len(Relaxable) + 1, natural : BOOLEAN,
                 dropped : SUBSET ToSet(Relaxable),
                 counted : SUBSET StockVehicles, items : SUBSET StockVehicles]

SearchInit ==
  /\ stock \in {s \in SUBSET StockVehicles : Cardinality(s) <= MaxStock}
  /\ rules \in {r \in [QueryFields -> {"unset", "said"}] :
                  Cardinality({f \in QueryFields : r[f] # "unset"}) <= MaxFilters}
  /\ filters = rules /\ rank = "none" /\ sold = FALSE
  /\ \E natural \in BOOLEAN :
       search = [NewSearch EXCEPT !.natural = natural, !.pc = IF natural THEN "repair" ELSE "count"]

----
HasResolvedFilters(asked) == \E f \in QueryFields : asked[f] # "unset"

(* whitelistGroqOutput: a model is dropped unless it agrees with the make  *)
(* the same answer gives, and with the vehicle type of the rules.          *)
Whitelisted(answer) ==
  IF /\ "model" \in QueryFields
     /\ \/ "make" \in QueryFields /\ answer["make"] \notin {"unset", answer["model"]}
        \/ "vehicleType" \in QueryFields /\ rules["vehicleType"] # "unset"
             /\ answer["model"] # rules["vehicleType"]
  THEN [answer EXCEPT !["model"] = "unset"] ELSE answer

(* Rules-parsed fields always win.                                         *)
MergeFilters(answer) ==
  [f \in QueryFields |-> IF rules[f] # "unset" THEN rules[f] ELSE answer[f]]

(* chooseSearchRank: a word that is still left over ranks the results, by  *)
(* its embedding or by trigrams, or selects them if there is no filter. A  *)
(* query that gave neither selects by its raw words, unless it was but an  *)
(* order ("cheapest").                                                     *)
ChosenRanks(leftover, asked) ==
  IF HasResolvedFilters(asked) THEN {IF leftover THEN "orders" ELSE "none"}
  ELSE {"gates"} \cup (IF leftover THEN {} ELSE {"none"})

(* GroqFallbackService.repair: not asked when the rules understood enough, *)
(* and its answer does not always arrive. Either may leave a word over.    *)
RepairQuery(answer, leftover) ==
  /\ search.pc = "repair"
  /\ filters' = MergeFilters(Whitelisted(answer))
  /\ rank' \in ChosenRanks(leftover, filters')
  /\ search' = [search EXCEPT !.pc = "count"]
  /\ UNCHANGED <<stock, rules, sold>>

RulesOnly(leftover) ==
  /\ search.pc = "repair"
  /\ rank' \in ChosenRanks(leftover, filters)
  /\ search' = [search EXCEPT !.pc = "count"]
  /\ UNCHANGED <<stock, rules, filters, sold>>

----
Bands(value) == CASE value = "said" -> {"said"} [] value = "near" -> {"said", "near"}
                  [] OTHER -> {"said", "near", "far"}

Meets(v, f, value) ==
  \/ value = "unset"
  \/ f \in Ranges /\ v[f] \in Bands(value)
  \/ f \notin Ranges /\ v[f] = value

(* A gating word finds some vehicles; which, is its own affair.            *)
Found(asked, gated) == {v \in stock : v \in gated /\ \A f \in QueryFields : Meets(v, f, asked[f])}

(* The count of a query: its vehicles, or none and another relaxation.     *)
CountQuery ==
  /\ \E gated \in IF rank = "gates" THEN SUBSET stock ELSE {stock} :
       search' = IF Found(filters, gated) # {}
                 THEN [search EXCEPT !.pc = "items", !.counted = Found(filters, gated)]
                 ELSE [search EXCEPT !.pc = "relax"]
  /\ UNCHANGED <<stock, rules, filters, rank, sold>>

Count == search.pc = "count" /\ CountQuery

(* The page is a query of its own, after the count: the same filters and   *)
(* words, on what is left by then.                                         *)
Items ==
  /\ search.pc = "items"
  /\ search' = [search EXCEPT !.pc = "answered", !.items = Found(filters, search.counted),
                              !.counted = {}]
  /\ UNCHANGED <<stock, rules, filters, rank, sold>>

RelaxSteps == IF search.natural THEN Relaxable ELSE DetailRules

Applies(step) ==
  IF step = "semanticText" THEN rank # "none"
  ELSE step \in QueryFields /\ filters[step] # "unset"

Relaxed(step) ==
  IF step = "semanticText" THEN filters
  ELSE [filters EXCEPT ![step] = IF step \notin Ranges THEN "unset"
                                 ELSE IF @ = "said" THEN "near" ELSE "far"]

(* One rule of the loop. A search by words that has no hard filter left is *)
(* not counted: it would return the whole catalogue.                       *)
Relax ==
  LET step == RelaxSteps[search.next] IN
  /\ search.pc = "relax" /\ search.next <= Len(RelaxSteps)
  /\ IF Applies(step)
     THEN /\ filters' = Relaxed(step)
          /\ rank' = IF step = "semanticText" THEN "none" ELSE rank
          /\ search' = [search EXCEPT
               !.next = @ + 1, !.dropped = @ \cup {step},
               !.pc = IF search.natural /\ ~HasResolvedFilters(filters')
                      THEN "relax" ELSE "recount"]
     ELSE search' = [search EXCEPT !.next = @ + 1] /\ UNCHANGED <<filters, rank>>
  /\ UNCHANGED <<stock, rules, sold>>

Recount == search.pc = "recount" /\ CountQuery

(* Nothing matches, even relaxed.                                          *)
GiveUp ==
  /\ search.pc = "relax" /\ search.next > Len(RelaxSteps)
  /\ search' = [search EXCEPT !.pc = "answered", !.dropped = {}]
  /\ UNCHANGED <<stock, rules, filters, rank, sold>>

Sell(v) ==
  /\ search.pc \notin {"repair", "answered"}
  /\ v \in stock /\ stock' = stock \ {v}
  /\ sold' = TRUE
  /\ UNCHANGED <<rules, filters, rank, search>>

SearchNext ==
  \/ \E leftover \in BOOLEAN :
       RulesOnly(leftover) \/ \E answer \in LlmAnswers : RepairQuery(answer, leftover)
  \/ Count \/ Relax \/ Recount \/ Items \/ GiveUp
  \/ \E v \in stock : Sell(v)

SearchSpec == SearchInit /\ [][SearchNext]_naturalVars

----
ShowsVehicles == search.pc = "answered" /\ search.items # {}

(* Whatever the language model said and whatever was relaxed, a vehicle is *)
(* shown only if it is what the buyer asked for, but for the filters the   *)
(* notice names.                                                           *)
NoticeIsComplete ==
  ShowsVehicles => \A v \in search.items, f \in QueryFields :
                f \in search.dropped \/ Meets(v, f, rules[f])

(* The price gives way last: a vehicle over the ceiling is shown only if,  *)
(* all else relaxed, there is none within it.                              *)
PriceGivesWayLast ==
  (ShowsVehicles /\ ~sold /\ "maxPrice" \in search.dropped) =>
    \A v \in search.items : ~Meets(v, "maxPrice", "said")

(* A search by words that was relaxed is not the whole catalogue.          *)
NeverTheWholeCatalogue ==
  (ShowsVehicles /\ search.natural /\ search.dropped # {}) => HasResolvedFilters(filters)

RelaxationIsHonest == NoticeIsComplete /\ PriceGivesWayLast /\ NeverTheWholeCatalogue
====
