---- MODULE QueryParser ----
(***************************************************************************)
(* The rules parser of marketplace-service: a buyer types words, parseQuery*)
(* runs its stages over the tokens, each taking what it recognises, and    *)
(* where less than CONFIDENCE_THRESHOLD was understood the language model  *)
(* is asked, at most twice, to fill the gaps.                              *)
(*                                                                         *)
(*   words   what is typed; a token is a position in it                    *)
(*   parsed  the ParsedQuery: filters, positions consumed; or none yet     *)
(*   repair  what came of GroqFallbackService.repair                       *)
(*                                                                         *)
(* A ParsedQuery's filters are says, the set of pairs of a field and a     *)
(* value, bound, a function on the bounds that are set, and sort. The words*)
(* below stand for the classes of words the stages tell apart; which spans *)
(* resemble an entry was computed with the trigrams of trigram.ts.         *)
(***************************************************************************)
EXTENDS Integers, Sequences, FiniteSets, FiniteSetsExt, SequencesExt

CONSTANTS
  MaxWords,        \* bound on words typed
  Vocabulary       \* the words that may be typed, of Lexicon

VARIABLES words, parsed, repair

parserVars == <<words, parsed, repair>>

----
(* The dictionary: makes and models by the words that spell them. "prado"  *)
(* is a model and another model's alias.                                   *)
MakesIndex == [span \in {<<"toyota">>, <<"honda">>} |-> IF span = <<"toyota">> THEN {"TOYOTA"} ELSE {"HONDA"}]

ModelsIndex ==
  [span \in {<<"corolla">>, <<"civic">>, <<"wagon", "r">>, <<"prado">>} |->
     CASE span = <<"corolla">>    -> {"COROLLA"}
       [] span = <<"civic">>      -> {"CIVIC"}
       [] span = <<"wagon", "r">> -> {"WAGONR"}
       [] span = <<"prado">>      -> {"PRADO", "AXIO"}]

ParentOf(model) == CASE model = "CIVIC" -> "HONDA" [] model = "WAGONR" -> "SUZUKI" [] OTHER -> "TOYOTA"

(* Body types. A pickup is a type of vehicle too, and only a phrase of the *)
(* dictionary takes it for a body.                                         *)
BodiesIndex ==
  [span \in {<<"estate">>, <<"hatch", "back">>, <<"cab">>} |->
     CASE span = <<"estate">>        -> {"WAGON"}
       [] span = <<"hatch", "back">> -> {"HATCHBACK"}
       [] span = <<"cab">>           -> {"PICKUP"}]

VehicleBodies == {"PICKUP", "SUV"}

(* Phrases and words of the closed attributes. A double cab is a PICKUP,   *)
(* which applyClosed does not take for a body type.                        *)
ClosedPhrases == [span \in {<<"double", "cab">>} |-> {}]

ClosedSingles ==
  [span \in {<<"wagon">>, <<"hatch">>, <<"diesel">>} |->
     CASE span = <<"wagon">>  -> {<<"body_type", "WAGON">>}
       [] span = <<"hatch">>  -> {<<"body_type", "HATCHBACK">>}
       [] span = <<"diesel">> -> {<<"fuelType", "DIESEL">>}]

(* Spans that resemble an entry. A misspelt name resembles it enough with  *)
(* any next word attached.                                                 *)
MakesLike(span) ==
  IF span[1] = "toyotta" \/ span = <<"r", "toyotta">> THEN {"TOYOTA"} ELSE {}

ModelsLike(span) ==
  IF span[1] = "corola" \/ span \in {<<w, "corola">> : w \in {"cab", "cheaper", "civic", "r"}}
  THEN {"COROLLA"} ELSE {}

BodiesLike(span) == IF span = <<"estat">> THEN {"WAGON"} ELSE {}

CharacterWords == {"family"}

Magnitudes ==
  [w \in {"2015", "3", "5m", "95k"} |->
     CASE w = "2015" -> [n |-> 2015, unit |-> "none"]
       [] w = "3"    -> [n |-> 3, unit |-> "none"]
       [] w = "5m"   -> [n |-> 5, unit |-> "m"]
       [] w = "95k"  -> [n |-> 95, unit |-> "k"]]

UnitWords == {"million", "mileage"}

MaxOps == {"under", "cheaper"}
MinOps == {"from"}
Stopwords == {"from"}

SpecNouns == [seats |-> [key |-> "seats", range |-> 2 .. 60]]

SortPhrases == [span \in {<<"lowest", "mileage">>} |-> "mileage_asc"]
SortWords == [cheaper |-> "price_asc", lowest |-> "price_asc", newest |-> "year_desc"]

Lexicon == UNION {ToSet(span) : span \in DOMAIN MakesIndex \cup DOMAIN ModelsIndex
                                           \cup DOMAIN ClosedPhrases \cup DOMAIN ClosedSingles \cup DOMAIN BodiesIndex}
             \cup DOMAIN Magnitudes \cup UnitWords \cup MaxOps \cup MinOps \cup DOMAIN SpecNouns
             \cup DOMAIN SortWords \cup CharacterWords \cup {"toyotta", "corola", "estat", "between"}

ASSUME ParserAssumption == MaxWords \in Nat /\ Vocabulary \subseteq Lexicon

----
Positions == DOMAIN words

IsNumeric(i) == words[i] \in DOMAIN Magnitudes

IsStopword(i) == words[i] \in Stopwords

(* digitAdjacent: the nearest word on a side that is no stopword is a      *)
(* number.                                                                 *)
DigitAdjacent(i) ==
  \E j \in Positions \ {i} : /\ IsNumeric(j)
                             /\ \A k \in (Min({i, j}) + 1) .. (Max({i, j}) - 1) : IsStopword(k)

(* The state of a parse: used are the positions consumed.                  *)
Unconsumed == [used |-> {}, says |-> {}, bound |-> <<>>, sort |-> "none"]

Said(field, s) == {pair[2] : pair \in {p \in s.says : p[1] = field}}

Span(i, n) == SubSeq(words, i, i + n - 1)

Taking(s, i, n, pairs) == [s EXCEPT !.used = @ \cup i .. (i + n - 1), !.says = @ \cup pairs]

SpanIsPresent(s, i, n) ==
  i + n - 1 \in Positions /\ \A k \in i .. (i + n - 1) : k \notin s.used /\ ~IsStopword(k)

SpanIsOpen(s, i, n) == SpanIsPresent(s, i, n) /\ \A k \in i .. (i + n - 1) : ~IsNumeric(k)

(* exactSpanHit: the longest open span an index knows, unless it is        *)
(* ambiguous.                                                              *)
ExactHits(s, i, longest, index, shortest) ==
  LET known == {n \in shortest .. longest : SpanIsOpen(s, i, n) /\ Span(i, n) \in DOMAIN index} IN
  IF known = {} THEN {}
  ELSE {[n |-> n, entry |-> e] : n \in {m \in {Max(known)} : Cardinality(index[Span(i, m)]) = 1},
                                 e \in index[Span(i, Max(known))]}

(* fuzzySpanHit: the longest span that resembles an entry that is wanted.  *)
FuzzyHits(s, i, longest, wanted) ==
  LET hits == {[n |-> n, entry |-> e] : n \in {m \in 1 .. longest : SpanIsOpen(s, i, m)}, e \in wanted}
      close == {h \in hits : /\ h.entry \in MakesLike(Span(i, h.n)) \cup ModelsLike(Span(i, h.n))
                             /\ Span(i, h.n) \notin {<<w>> : w \in CharacterWords}
                             /\ \A k \in i .. (i + h.n - 1) : ~DigitAdjacent(k)} IN
  {h \in close : \A g \in close : g.n <= h.n}

(* exactClosedHit and applyClosed: a phrase, or else a single word.        *)
ExactClosedHits(s, i, longest, shortest) ==
  LET phrases == {n \in Max({2, shortest}) .. longest : SpanIsPresent(s, i, n) /\ Span(i, n) \in DOMAIN ClosedPhrases}
      singles == {n \in {1} : shortest = 1 /\ SpanIsOpen(s, i, 1) /\ Span(i, 1) \in DOMAIN ClosedSingles} IN
  IF phrases # {} THEN {[n |-> Max(phrases), entry |-> ClosedPhrases[Span(i, Max(phrases))]]}
  ELSE {[n |-> n, entry |-> ClosedSingles[Span(i, n)]] : n \in singles}

ApplyClosed(s, i, hit) == Taking(s, i, hit.n, hit.entry)

ApplyMake(s, i, hit) == Taking(s, i, hit.n, {<<"make", hit.entry>>})

(* Mutant of ModelAllowed: models of any make.                             *)
ModelOfAnyMake(s, model) == TRUE

ModelAllowed(s, model) == Said("make", s) = {} \/ ParentOf(model) \in Said("make", s)

ApplyModel(s, i, hit) ==
  Taking(s, i, hit.n, {<<"model", hit.entry>>}
    \cup (IF Said("make", s) = {} THEN {<<"make", ParentOf(hit.entry)>>} ELSE {})
    \cup (IF Said("vehicleType", s) = {} THEN {<<"vehicleType", "CAR">>} ELSE {}))

ApplyBody(s, i, hit) == Taking(s, i, hit.n, {<<"body_type", hit.entry>>})

TakeOne(t, i, hits, kind) ==
  IF hits = {} THEN t
  ELSE LET hit == CHOOSE h \in hits : TRUE IN
       CASE kind = "closed" -> ApplyClosed(t, i, hit)
         [] kind = "make"   -> ApplyMake(t, i, hit)
         [] kind = "model"  -> ApplyModel(t, i, hit)
         [] kind = "body"   -> ApplyBody(t, i, hit)

----
(* What each stage does at a position.                                     *)
ModelHits(t, i, shortest) == {h \in ExactHits(t, i, 3, ModelsIndex, shortest) : ModelAllowed(t, h.entry)}

PhraseAt(t, i) ==
  LET closed == ExactClosedHits(t, i, 3, 2)
      make   == ExactHits(t, i, 3, MakesIndex, 2)
      model  == ModelHits(t, i, 2) IN
  IF closed # {} THEN TakeOne(t, i, closed, "closed")
  ELSE IF make # {} THEN TakeOne(t, i, make, "make")
  ELSE IF model # {} THEN TakeOne(t, i, model, "model")
  ELSE TakeOne(t, i, ExactHits(t, i, 3, BodiesIndex, 2), "body")

(* The last walk of stageExact: a closed word, or else a body that is no   *)
(* type of vehicle.                                                        *)
WordAt(t, i) ==
  LET closed == ExactClosedHits(t, i, 1, 1) IN
  IF closed # {} THEN TakeOne(t, i, closed, "closed")
  ELSE TakeOne(t, i, {h \in ExactHits(t, i, 1, BodiesIndex, 1) : h.entry \notin VehicleBodies}, "body")

(* extractNumericSpecs: a whole number before a noun, stopwords between.   *)
NumericSpecAt(t, i) ==
  LET nouns == {j \in Positions :
                  /\ i < j /\ j \notin t.used /\ words[j] \in DOMAIN SpecNouns
                  /\ \A k \in (i + 1) .. (j - 1) : k \notin t.used /\ IsStopword(k)
                  /\ Magnitudes[words[i]].unit = "none" /\ Magnitudes[words[i]].n \in SpecNouns[words[j]].range} IN
  IF ~IsNumeric(i) \/ nouns = {} THEN t
  ELSE [t EXCEPT !.used = @ \cup {i} \cup nouns,
                 !.says = @ \cup {<<SpecNouns[words[j]].key, Magnitudes[words[i]].n>> : j \in nouns}]

Scale(n, unit) == CASE unit \in {"million", "m"} -> n * 1000000 [] unit = "k" -> n * 1000 [] OTHER -> n

IsYear(n) == n \in 1980 .. 2100

(* lookupOperator: the nearest operator before a number, stopwords between.*)
OperatorsAt(s, i) ==
  {j \in 1 .. (i - 1) : /\ words[j] \in MaxOps \cup MinOps /\ j \notin s.used
                        /\ \A k \in (j + 1) .. (i - 1) : IsStopword(k) /\ words[k] \notin MinOps /\ k \notin s.used}

(* readNumber.                                                             *)
Reading(s, i) ==
  LET mag  == Magnitudes[words[i]]
      next == {i + 1} \cap {j \in Positions : mag.unit = "none" /\ j \notin s.used /\ words[j] \in UnitWords}
      unit == IF next = {} THEN mag.unit ELSE words[i + 1]
      op   == {words[j] : j \in OperatorsAt(s, i)} IN
  [amount |-> Scale(mag.n, unit), unit |-> unit, op |-> op,
   year |-> unit = "none" /\ IsYear(mag.n),
   span |-> Min({i} \cup OperatorsAt(s, i)) .. Max({i} \cup next)]

(* classify: no kind for a bare number that is no year and too small for a *)
(* price.                                                                  *)
KindsOf(amount, unit, year, op) ==
  CASE unit \in {"million", "m"}               -> {"Price"}
    [] unit = "mileage"                        -> {"Mileage"}
    [] unit = "k"                              -> {IF op # {} THEN "Price" ELSE "Mileage"}
    [] unit = "none" /\ (year \/ IsYear(amount)) -> {"Year"}
    [] unit = "none" /\ ~IsYear(amount) /\ amount >= 100000 -> {"Price"}
    [] OTHER -> {}

(* applyBound: the widest of what was said.                                *)
MinOf == [Price |-> "minPrice", Year |-> "minYear", Mileage |-> "minMileage"]
MaxOf == [Price |-> "maxPrice", Year |-> "maxYear", Mileage |-> "maxMileage"]

MinBound(bound, kind, amount) ==
  LET name == MinOf[kind] IN
  [b \in DOMAIN bound \cup {name} |->
     IF b # name THEN bound[b] ELSE IF name \in DOMAIN bound THEN Min({bound[name], amount}) ELSE amount]

MaxBound(bound, kind, amount) ==
  LET name == MaxOf[kind] IN
  [b \in DOMAIN bound \cup {name} |->
     IF b # name THEN bound[b] ELSE IF name \in DOMAIN bound THEN Max({bound[name], amount}) ELSE amount]

ApplyBound(bound, kind, r) ==
  CASE r.op # {} /\ r.op \subseteq MaxOps -> MaxBound(bound, kind, r.amount)
    [] r.op # {} /\ r.op \subseteq MinOps -> MinBound(bound, kind, r.amount)
    [] r.op = {} /\ r.year -> MaxBound(MinBound(bound, "Year", r.amount), "Year", r.amount)
    [] OTHER -> MaxBound(bound, kind, r.amount)

(* tryBetween: the next meaningful word is a number, and so is the one     *)
(* after it. The unit of the right number classifies a left one without.   *)
Betweens(s, i) ==
  LET Next(from) == LET open == {j \in Positions : j >= from /\ j \notin s.used /\ ~IsStopword(j)} IN
                    {j \in open : j = Min(open) /\ IsNumeric(j)}
      lefts  == {[at |-> j, r |-> Reading(s, j)] : j \in Next(i + 1)}
      Rights(l) == {Reading(s, j) : j \in Next(Max(l.r.span) + 1)}
      Kinds(l, r) == KindsOf(l.amount, IF l.unit = "none" THEN r.unit ELSE l.unit, FALSE, l.op) IN
  {[kind |-> k, from |-> Min({p[1].r.amount, p[2].amount}), to |-> Max({p[1].r.amount, p[2].amount}),
    span |-> i .. Max(p[2].span)] :
     k \in UNION {Kinds(l.r, r) : l \in lefts, r \in UNION {Rights(l) : l \in lefts}},
     p \in UNION {{<<l, r>> : r \in Rights(l)} : l \in lefts}}

NumberAt(t, i) ==
  LET Ranging(b) == [t EXCEPT !.used = @ \cup b.span,
                              !.bound = MaxBound(MinBound(@, b.kind, b.from), b.kind, b.to)]
      Number(r) ==
        LET kinds == KindsOf(r.amount, r.unit, r.year, r.op) IN
        IF kinds = {} THEN t
        ELSE [t EXCEPT !.used = @ \cup r.span, !.bound = ApplyBound(@, CHOOSE k \in kinds : TRUE, r)] IN
  CASE words[i] = "between" /\ Betweens(t, i) # {} -> Ranging(CHOOSE b \in Betweens(t, i) : TRUE)
    [] IsNumeric(i) -> Number(Reading(t, i))
    [] OTHER -> t

(* extractSortIntent: the first phrase, or else the first word, is taken.  *)
ExtractSortIntent(s) ==
  LET open == {i \in Positions : i \notin s.used /\ ~IsStopword(i)}
      After(i) == {j \in open : j > i /\ \A k \in open : k > i => k >= j}
      phrases == {p \in open \X open : p[2] \in After(p[1]) /\ <<words[p[1]], words[p[2]]>> \in DOMAIN SortPhrases}
      named == {i \in open : words[i] \in DOMAIN SortWords} IN
  IF phrases # {}
  THEN LET p == CHOOSE p \in phrases : \A q \in phrases : p[1] <= q[1] IN
       [s EXCEPT !.used = @ \cup {p[1], p[2]}, !.sort = SortPhrases[<<words[p[1]], words[p[2]]>>]]
  ELSE IF named # {} THEN [s EXCEPT !.used = @ \cup {Min(named)}, !.sort = SortWords[words[Min(named)]]]
  ELSE s

LikeModelAt(t, i) ==
  LET models == UNION {ModelsIndex[span] : span \in DOMAIN ModelsIndex} IN
  TakeOne(t, i, FuzzyHits(t, i, 2, {m \in models : ModelAllowed(t, m)}), "model")

(* A body type may resemble a word beside a number.                        *)
LikeBodyAt(t, i) ==
  LET hits == {[n |-> 1, entry |-> b] : b \in BodiesLike(Span(i, 1)) \ VehicleBodies} IN
  TakeOne(t, i, {h \in hits : SpanIsOpen(t, i, 1) /\ words[i] \notin CharacterWords}, "body")

TryAt(stage, t, i) ==
  CASE stage = "phrase" -> PhraseAt(t, i)
    [] stage = "spec"   -> NumericSpecAt(t, i)
    [] stage = "number" -> NumberAt(t, i)
    [] stage = "make"   -> TakeOne(t, i, ExactHits(t, i, 3, MakesIndex, 1), "make")
    [] stage = "model"  -> TakeOne(t, i, ModelHits(t, i, 1), "model")
    [] stage = "closed" -> WordAt(t, i)
    [] stage = "like a make"  -> TakeOne(t, i, FuzzyHits(t, i, 2, {"TOYOTA", "HONDA"}), "make")
    [] stage = "like a model" -> LikeModelAt(t, i)
    [] stage = "like a body"  -> LikeBodyAt(t, i)

(* walk: every position that is not a stopword and not yet consumed.       *)
Walk(s, stage) ==
  FoldLeft(LAMBDA t, i : IF i \in t.used \/ IsStopword(i) THEN t ELSE TryAt(stage, t, i),
           s, [i \in Positions |-> i])

StageExact(s) == Walk(Walk(Walk(s, "make"), "model"), "closed")

(* stageFuzzy; no word of the lexicon resembles a closed attribute.        *)
StageFuzzy(s) == Walk(Walk(Walk(s, "like a make"), "like a model"), "like a body")

ParseQuery ==
  LET counted == Walk(Walk(Walk(Unconsumed, "phrase"), "spec"), "number") IN
  StageFuzzy(StageExact(ExtractSortIntent(counted)))

Meaningful == {i \in Positions : ~IsStopword(i)}

Unresolved(s) == Meaningful \ s.used

(* finalize: the language model is asked below a confidence of 0.6.        *)
NeedsGroqFallback(s) == Meaningful # {} /\ 10 * Cardinality(Meaningful \cap s.used) < 6 * Cardinality(Meaningful)

----
NotParsed == [Unconsumed EXCEPT !.sort = "unparsed"]

NoRepair == [calls |-> 0, last |-> "none", consumed |-> {}]

QueryParserInit == words = <<>> /\ parsed = NotParsed /\ repair = NoRepair

Type(word) ==
  /\ Len(words) < MaxWords
  /\ words' = Append(words, word)
  /\ parsed' = NotParsed /\ repair' = NoRepair

Clear == words # <<>> /\ words' = <<>> /\ parsed' = NotParsed /\ repair' = NoRepair

Parse ==
  /\ parsed = NotParsed
  /\ parsed' = ParseQuery
  /\ UNCHANGED <<words, repair>>

(* What GroqClient.once may come to, and what complete retries, once.      *)
Outcomes == {"content", "empty", "http4xx", "http429", "http5xx", "timeout"}

IsRetryable(outcome) == outcome \in {"http429", "http5xx", "timeout"}

(* An answer: what it filters by, and the words it claims to have used.    *)
GroqAnswers == {{}, {"vehicleType"}, {"vehicleType", "make"}, {"sort"}}

ConsumedTokens(fields, claimed) ==
  {i \in claimed : i \in Unresolved(parsed) /\
     (words[i] \in CharacterWords => fields \in {{"sort"}, {"vehicleType"}})}

CallGroq(outcome) ==
  /\ parsed # NotParsed /\ NeedsGroqFallback(parsed)
  /\ \/ repair.calls = 0
     \/ repair.calls = 1 /\ IsRetryable(repair.last)
  /\ \E fields \in GroqAnswers :
       repair' = [calls |-> repair.calls + 1, last |-> outcome,
                  consumed |-> IF outcome = "content" THEN ConsumedTokens(fields, Positions) ELSE {}]
  /\ UNCHANGED <<words, parsed>>

QueryParserNext ==
  \/ \E word \in Vocabulary : Type(word)
  \/ Clear \/ Parse
  \/ \E outcome \in Outcomes : CallGroq(outcome)

QueryParserSpec == QueryParserInit /\ [][QueryParserNext]_parserVars

QueryParserTypeOK ==
  /\ words \in Seq(Lexicon) /\ Len(words) <= MaxWords
  /\ parsed.used \subseteq Positions
  /\ \A pair \in parsed.says : pair[1] \in {"make", "model", "vehicleType", "fuelType", "body_type", "seats"}
  /\ DOMAIN parsed.bound \subseteq Range(MinOf) \cup Range(MaxOf)
  /\ repair.calls \in 0 .. 2 /\ repair.consumed \subseteq Positions

----
(* Whatever order the words come in and whichever stage takes them, every  *)
(* model that is searched for has its own make among the makes searched for*)
(* (else no vehicle meets both); a make that is named and a number that is *)
(* taken are not lost, but bound the search or name a spec; no bound is    *)
(* invented; and the language model only uses words the parser left.       *)
ModelsHaveTheirMake ==
  \A model \in Said("model", parsed) : ParentOf(model) \in Said("make", parsed)

NamedMakesCount ==
  \A i \in Positions : <<words[i]>> \in DOMAIN MakesIndex =>
    i \in parsed.used /\ MakesIndex[<<words[i]>>] \subseteq Said("make", parsed)

AmountsOf(i) == {Scale(Magnitudes[words[i]].n, unit) : unit \in {Magnitudes[words[i]].unit}
                   \cup {words[j] : j \in {i + 1} \cap {k \in Positions : words[k] \in UnitWords}}}

NumbersCount ==
  /\ \A i \in parsed.used : IsNumeric(i) =>
       \/ Magnitudes[words[i]].n \in Said("seats", parsed)
       \/ \E b \in DOMAIN parsed.bound, a \in AmountsOf(i) :
            IF b \in Range(MinOf) THEN parsed.bound[b] <= a ELSE parsed.bound[b] >= a
  /\ \A b \in DOMAIN parsed.bound : \E i \in parsed.used : IsNumeric(i) /\ parsed.bound[b] \in AmountsOf(i)

ParseIsSound ==
  parsed # NotParsed =>
    /\ ModelsHaveTheirMake /\ NamedMakesCount /\ NumbersCount
    /\ repair.consumed \cap parsed.used = {}
====
