---- MODULE MCMarketplace ----
(***************************************************************************)
(* The services around listings and search, and the row stages and file    *)
(* readers of uploads, side by side in one run: they share no state in the *)
(* models; the initial state chooses the part that moves, and the others   *)
(* stay at rest.                                                           *)
(***************************************************************************)
EXTENDS DealerReview, Listings, VehicleImages, FileReaders, RowStages,
        Dictionary, QueryParser, NaturalSearch, SearchOptions

VARIABLE part

Parts == {"review", "listings", "images", "stream", "readers", "rows", "dictionary", "parser",
          "search", "options", "facets"}

(* What a part that may start in several ways is like at rest.             *)
AtRest ==
  /\ part # "rows" => sheet = [r \in RowNumbers |-> Good("honda", "p", "positive")]
  /\ part # "search" => /\ stock = {} /\ rules = NothingAsked
                        /\ search = [NewSearch EXCEPT !.natural = FALSE, !.pc = "count"]
  /\ part # "options" => asked = {"stats"}
  /\ part # "facets" => queried = CHOOSE q \in QueryStrings : TRUE

Init ==
  /\ part \in Parts /\ AtRest
  /\ DealerInit /\ ListingsInit /\ ImagesInit /\ StreamInit /\ ReadersInit /\ RowStagesInit
  /\ DictionaryInit /\ QueryParserInit /\ SearchInit /\ SearchOptionsInit /\ FacetedSearchInit

Next ==
  /\ UNCHANGED part
  /\ IF part = "review"     THEN DealerNext        ELSE UNCHANGED dealerVars
  /\ IF part = "listings"   THEN ListingsNext      ELSE UNCHANGED listingVars
  /\ IF part = "images"     THEN ImagesNext        ELSE UNCHANGED imageVars
  /\ IF part = "stream"     THEN StreamNext        ELSE UNCHANGED streamVars
  /\ IF part = "readers"    THEN ReadersNext       ELSE UNCHANGED readerVars
  /\ IF part = "rows"       THEN RowStagesNext     ELSE UNCHANGED rowVars
  /\ IF part = "dictionary" THEN DictionaryNext    ELSE UNCHANGED dictionaryVars
  /\ IF part = "parser"     THEN QueryParserNext   ELSE UNCHANGED parserVars
  /\ IF part = "search"     THEN SearchNext        ELSE UNCHANGED naturalVars
  /\ IF part = "options"    THEN SearchOptionsNext ELSE UNCHANGED optionVars
  /\ IF part = "facets"     THEN FacetedSearchNext ELSE UNCHANGED facetVars

Spec ==
  Init /\ [][Next]_<<part, dealerVars, listingVars, imageVars, streamVars, readerVars, rowVars,
                     dictionaryVars, parserVars, naturalVars, optionVars, facetVars>>

(* Every variable of the part that moves has its type.                     *)
TypesOK ==
  /\ part = "review"     => DealerTypeOK
  /\ part = "listings"   => ListingsTypeOK
  /\ part = "images"     => ImagesTypeOK
  /\ part = "stream"     => StreamTypeOK
  /\ part = "readers"    => ReadersTypeOK
  /\ part = "rows"       => RowStagesTypeOK
  /\ part = "dictionary" => DictionaryTypeOK
  /\ part = "parser"     => QueryParserTypeOK
  /\ part = "search"     => SearchTypeOK
  /\ part = "options"    => SearchOptionsTypeOK
  /\ part = "facets"     => FacetedSearchTypeOK

(* Whether its dealer or an upload places and removes photos, a listing    *)
(* with photos has one primary at rest until two handlers have overlapped  *)
(* or one has died; and, whatever overlaps, what an upload records of a    *)
(* photo agrees with the listings and rejections it could find             *)
(* (VehicleImages).                                                        *)
PhotosAreRight == part = "images" => OnePrimary /\ OutcomesAreTrue

(* The records an upload works on are those of the dealer's file: however  *)
(* a JSON file is cut, its elements and no others; and whichever executions*)
(* rewrite the object, overlap or die, no cell under another row or column.*)
(* Missing rows and words in another encoding are ruled out only as long as*)
(* no execution read what another was rewriting, or had left half written, *)
(* and the head was not cut inside a character (FileReaders).              *)
FilesAreRead ==
  /\ part = "stream"  => YieldsTheRecords
  /\ part = "readers" => RowsAreTheDealers

(* A repair changes no field the rules could read and is marked; a row has *)
(* no more confidence than its weakest field supports; of the rows of one  *)
(* registration one is accepted, and a row that is not lacks a field or    *)
(* comes after the accepted one (RowStages).                               *)
RowsComeAsJudged == part = "rows" => RowsComeThrough

(* What a search is said to mean is what was typed, and what was widened   *)
(* is what the notice says (QueryParser, NaturalSearch).                   *)
SearchIsHonest ==
  /\ part = "parser" => ParseIsSound
  /\ part = "search" => RelaxationIsHonest

(* While the catalogue rests, what the page offers to choose from is what  *)
(* choosing it would find; lists of options are as old as the cache allows *)
(* at the most, however loads overlap (SearchOptions).                     *)
ChoicesAreReal ==
  /\ part = "facets"  => FacetsPredict
  /\ part = "options" => OptionsAreRecent

(* A decision on a dealer stands until the dealer resubmits or another is  *)
(* taken (DealerReview). A listing's status follows its lifecycle from the *)
(* status it has; or, when requests race on it, at least from one that it  *)
(* had since the first of those under way came (Listings).                 *)
LifecyclesHold == DecisionsStand /\ StatusFollowsLifecycle

(* What is typed is settled once: see the three properties of Dictionary.  *)
SpellingsAreSettled ==
  /\ [](part = "dictionary" => HiddenIsHandled /\ ServicesAgree)
  /\ PromotesUnclaimed

(* Handlers of one kind may be exchanged: no property tells them apart. The*)
(* parts share their handlers.                                             *)
Exchangeable == Permutations(Admins)

----
(* The dictionary: two makes, with spellings that are nearly the same.     *)
(* "r v", "rv" and "r o v" are ways to write rover; "r v" and "rv" differ  *)
(* in the space alone.                                                     *)
MCAliases == [m \in SeededMakes |-> IF m = "rover" THEN {"r o v"} ELSE {"bmw x"}]

MCKeyOf ==
  [s \in Spellings |->
     CASE s = "r v" -> "rv" [] s = "r o v" -> "rov" [] s = "bmw x" -> "bmwx" [] OTHER -> s]

Keys == {MCKeyOf[s] : s \in Spellings}

MCKeyScore ==
  [x \in Keys |-> [y \in Keys |->
     IF x = y THEN 100 ELSE IF {x, y} \in {{"rv", "rover"}, {"rv", "bmwx"}} THEN 62 ELSE 10]]

MCNameScore ==
  [s \in Spellings |-> [t \in Spellings |->
     IF s = t THEN 100
     ELSE IF MCKeyOf[s] = MCKeyOf[t] THEN 90
     ELSE IF {MCKeyOf[s], MCKeyOf[t]} = {"rv", "rover"} THEN 62 ELSE 10]]
====
