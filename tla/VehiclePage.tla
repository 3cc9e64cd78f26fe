---- MODULE VehiclePage ----
(***************************************************************************)
(* A vehicle's page (VehicleDetailPage): the vehicle itself, its photos,   *)
(* and similar vehicles, each of which leads on to its own page, while     *)
(* vehicles come and go. Every path has a page of its own (PageTransition):*)
(* the page left stays while it moves out, then the next one is mounted    *)
(* with its skeletons.                                                     *)
(*                                                                         *)
(*   available  vehicles on offer                                          *)
(*   route      the vehicle in the URL                                     *)
(*   pageOf     the vehicle whose page is mounted                          *)
(*   fetches    requests for a vehicle, those aborted too late included    *)
(*   shown      what the page shows: when it was answered, and until when  *)
(*              the links to its photos are good (0: it has none)          *)
(*   photo      the gallery's index                                        *)
(*   similar    the section of similar vehicles: whose they are, what was  *)
(*              answered, and of which vehicles on offer (history)         *)
(*   signed     the service's cache of signed links: until when a link is  *)
(*              good and until when it is handed out again. The photos of a*)
(*              vehicle are signed together                                *)
(***************************************************************************)
EXTENDS Integers, Sequences, FiniteSets, SequencesExt

CONSTANTS
  RecLimit,        \* similar vehicles asked for
  MaxFetches,      \* bound on requests for a vehicle
  PresignExpiry,   \* how long a signed link is good
  Margin,          \* EXPIRY_SAFETY_MARGIN_SECONDS
  MaxAge,        \* bound on time
  MaxMoves         \* bound on vehicles published or withdrawn

ASSUME VehiclePageAssumption ==
  /\ {RecLimit, Margin, MaxAge, MaxMoves} \subseteq Nat
  /\ {MaxFetches, PresignExpiry} \subseteq Nat \ {0}

VARIABLES available, route, pageOf, fetches, shown, photo, similar, fetched, moves, mode, signed, age

photoLinkVars == <<mode, signed, age>>
vehiclePageVars ==
  <<available, route, pageOf, fetches, shown, photo, similar, fetched, moves, photoLinkVars>>

Description(make, model, price, mileage, fuel, photos, created) ==
  [make |-> make, model |-> model, type |-> "car", year |-> 2015, price |-> price,
   mileage |-> mileage, fuel |-> fuel, transmission |-> "manual", city |-> "null",
   photos |-> photos, created |-> created]

Described == [a |-> Description("honda", "civic", 100, 100, "petrol", 3, 1),
           b |-> Description("honda", "civic", 112, 190, "null", 0, 2),
           c |-> Description("toyota", "aqua", 125, 110, "petrol", 2, 3)]

VehicleIds == DOMAIN Described

Views == {"loading", "vehicle", "notFound", "error"}
Modes == {"demo", "local", "s3"}      \* IMAGE_SERVE_MODE
NothingShown == [view |-> "loading", id |-> "none", since |-> 0, until |-> 0]
Forever == MaxAge + PresignExpiry
NoSection == [of |-> "none", list |-> <<>>, state |-> "loading", among |-> {}]

VehiclePageTypeOK ==
  /\ available \subseteq VehicleIds /\ {route, pageOf} \subseteq VehicleIds
  /\ fetches \subseteq [id : VehicleIds, number : 1 .. MaxFetches, aborted : BOOLEAN]
  /\ shown \in [view : Views, id : VehicleIds \cup {"none"}, since : 0 .. MaxAge, until : 0 .. Forever]
  /\ photo \in Nat /\ mode \in Modes /\ age \in 0 .. MaxAge
  /\ signed \in [VehicleIds -> [until : 0 .. Forever, kept : 0 .. Forever]]
  /\ similar.of \in VehicleIds \cup {"none"} /\ similar.state \in {"loading", "listed", "failed"}
  /\ similar.list \in Seq(VehicleIds) /\ similar.among \subseteq VehicleIds
  /\ fetched \in 1 .. MaxFetches /\ moves \in 0 .. MaxMoves

VehiclePageInit ==
  /\ available = VehicleIds /\ route \in VehicleIds /\ pageOf = route
  /\ fetches = {[id |-> route, number |-> 1, aborted |-> FALSE]} /\ fetched = 1
  /\ shown = NothingShown /\ photo = 0
  /\ similar = NoSection /\ moves = 0
  /\ mode \in Modes /\ age = 0 /\ signed = [v \in VehicleIds |-> [until |-> 0, kept |-> 0]]

----
Distance(x, y) == IF x > y THEN x - y ELSE y - x

(* Prices are numeric. Mileages are integers, and so is their quotient.    *)
PriceWithin(v, t, percent) ==
  t.price > 0 /\ 100 * Distance(v.price, t.price) <= percent * t.price
MileageWithin(v, t, percent) ==
  t.mileage > 0 /\ 100 * (Distance(v.mileage, t.mileage) \div t.mileage) <= percent

SameKnown(v, t, column) == v[column] # "null" /\ v[column] = t[column]

Points(condition, points) == IF condition THEN points ELSE 0

Score(v, t) ==
    Points(v.model = t.model, 30) + Points(v.make = t.make, 20)
  + Points(v.type = t.type, 15) + Points(PriceWithin(v, t, 15), 10)
  + Points(Distance(v.year, t.year) <= 2, 5) + Points(MileageWithin(v, t, 20), 5)
  + Points(SameKnown(v, t, "fuel"), 5) + Points(SameKnown(v, t, "transmission"), 5)
  + Points(SameKnown(v, t, "city"), 5)

Resembles(v, t) ==
  \/ v.make = t.make \/ v.model = t.model \/ v.type = t.type
  \/ PriceWithin(v, t, 30) \/ MileageWithin(v, t, 30) \/ SameKnown(v, t, "city")

(* findSimilarVehicles, the newest first of those with one score.          *)
Before(t, u, v) ==
  LET score(w) == Score(Described[w], Described[t]) IN
    score(u) > score(v) \/ (score(u) = score(v) /\ Described[u].created > Described[v].created)

FindSimilar(t) ==
  LET near  == {v \in available \ {t} : Resembles(Described[v], Described[t])}
      found == CHOOSE s \in [1 .. Cardinality(near) -> near] :
                 \A i, j \in DOMAIN s : i < j => Before(t, s[i], s[j]) IN
    SubSeq(found, 1, IF Len(found) < RecLimit THEN Len(found) ELSE RecLimit)

----
(* A link to another vehicle, or back to this one before it has gone.      *)
OpenVehicle(id) ==
  /\ id # route /\ fetched < MaxFetches
  /\ route' = id
  /\ UNCHANGED <<available, pageOf, fetches, shown, photo, similar, fetched, moves, photoLinkVars>>

(* The page left is gone and the next one is mounted: a request under way  *)
(* is aborted, which may be too late for the service not to see it.        *)
MountPage(late) ==
  /\ pageOf # route /\ fetched < MaxFetches
  /\ pageOf' = route /\ fetched' = fetched + 1
  /\ fetches' = {[id |-> route, number |-> fetched + 1, aborted |-> FALSE]}
       \cup IF late THEN {[f EXCEPT !.aborted = TRUE] : f \in fetches} ELSE {}
  /\ shown' = NothingShown /\ photo' = 0 /\ similar' = NoSection
  /\ UNCHANGED <<available, route, moves, photoLinkVars>>

(* Mutant of UsableSeconds: the margin is forgotten.                       *)
UsableToTheEnd == PresignExpiry

(* resolveS3: a link is handed out again until shortly before it expires;  *)
(* one that cannot be signed is no link, and no error.                     *)
UsableSeconds == IF PresignExpiry - Margin > 1 THEN PresignExpiry - Margin ELSE 1

Sign == [until |-> age + PresignExpiry, kept |-> age + UsableSeconds]

(* resolve: the links of a vehicle's photos, until when they are good.     *)
Resolved(v, until) ==
  \/ (mode = "demo" \/ Described[v].photos = 0) /\ until = 0 /\ UNCHANGED signed
  \/ mode = "local" /\ Described[v].photos > 0 /\ until = Forever /\ UNCHANGED signed
  \/ /\ mode = "s3" /\ Described[v].photos > 0 /\ signed[v].kept > age
     /\ until = signed[v].until /\ UNCHANGED signed
  \/ /\ mode = "s3" /\ Described[v].photos > 0 /\ signed[v].kept <= age
     /\ \/ until = Sign.until /\ signed' = [signed EXCEPT ![v] = Sign]
        \/ until = 0 /\ UNCHANGED signed

(* What mounts with the answer: the gallery, and the section that asks for *)
(* similar vehicles.                                                       *)
Show(next) ==
  /\ shown' = next
  /\ photo' = 0
  /\ similar' = IF next.view = "vehicle" THEN [NoSection EXCEPT !.of = next.id] ELSE NoSection

(* findById answers with a vehicle that is LIVE, or not found.             *)
FoundById(id) ==
  \/ /\ id \in available
     /\ \E until \in 0 .. Forever :
          /\ Resolved(id, until)
          /\ Show([view |-> "vehicle", id |-> id, since |-> age, until |-> until])
  \/ id \notin available /\ Show([NothingShown EXCEPT !.view = "notFound"]) /\ UNCHANGED signed

(* (An answer that nobody reads signs its links just as well.)             *)
VehicleAnswered(f) ==
  /\ fetches' = fetches \ {f}
  /\ IF ~f.aborted THEN FoundById(f.id)
     ELSE /\ UNCHANGED <<shown, photo, similar>>
          /\ IF f.id \in available THEN \E until \in 0 .. Forever : Resolved(f.id, until)
             ELSE UNCHANGED signed
  /\ UNCHANGED <<available, route, pageOf, fetched, moves, mode, age>>

VehicleFailed(f) ==
  /\ fetches' = fetches \ {f}
  /\ IF f.aborted THEN UNCHANGED <<shown, photo, similar>>
     ELSE Show([NothingShown EXCEPT !.view = "error"])
  /\ UNCHANGED <<available, route, pageOf, fetched, moves, photoLinkVars>>

SimilarAnswered ==
  /\ similar.of # "none" /\ similar.state = "loading"
  /\ similar' = [similar EXCEPT !.list = FindSimilar(similar.of), !.state = "listed",
                                !.among = available]
  /\ UNCHANGED <<available, route, pageOf, fetches, shown, photo, fetched, moves, photoLinkVars>>

(* The section hides itself when it has nothing, or failed.                *)
SimilarFailed ==
  /\ similar.of # "none" /\ similar.state = "loading"
  /\ similar' = [similar EXCEPT !.state = "failed"]
  /\ UNCHANGED <<available, route, pageOf, fetches, shown, photo, fetched, moves, photoLinkVars>>

PhotosShown == IF shown.until > 0 THEN Described[shown.id].photos ELSE 0
CurrentPhoto == IF photo < PhotosShown THEN photo ELSE PhotosShown - 1

(* The arrows go round; a thumbnail goes to its photo.                     *)
GoTo(next) ==
  /\ PhotosShown > 1 /\ photo' = next
  /\ UNCHANGED <<available, route, pageOf, fetches, shown, similar, fetched, moves, photoLinkVars>>

Gallery ==
  \/ GoTo((CurrentPhoto + 1) % PhotosShown)
  \/ GoTo((CurrentPhoto - 1 + PhotosShown) % PhotosShown)
  \/ \E i \in 0 .. (PhotosShown - 1) : GoTo(i)

(* A dealer publishes or withdraws a vehicle.                              *)
Moved(v) ==
  /\ moves < MaxMoves /\ moves' = moves + 1
  /\ available' = IF v \in available THEN available \ {v} ELSE available \cup {v}
  /\ UNCHANGED <<route, pageOf, fetches, shown, photo, similar, fetched, photoLinkVars>>

LinksAge ==
  /\ age < MaxAge /\ age' = age + 1
  /\ UNCHANGED <<available, route, pageOf, fetches, shown, photo, similar, fetched, moves, mode, signed>>

VehiclePageNext ==
  \/ \E id \in VehicleIds : OpenVehicle(id)
  \/ \E late \in BOOLEAN : MountPage(late)
  \/ \E f \in fetches : VehicleAnswered(f) \/ VehicleFailed(f)
  \/ SimilarAnswered \/ SimilarFailed
  \/ PhotosShown > 1 /\ Gallery
  \/ \E v \in VehicleIds : Moved(v)
  \/ LinksAge

VehiclePageSpec == VehiclePageInit /\ [][VehiclePageNext]_vehiclePageVars

----
(* Once nothing is under way the page is of the vehicle in the URL. The    *)
(* arrows lead to photos that the vehicle has. The similar vehicles are    *)
(* those of the vehicle shown, not itself, on offer when they were read,   *)
(* the best first and none left out for a worse one. And the links to the  *)
(* photos were good for longer than the margin when they were handed out,  *)
(* from the cache or signed anew, "so a cached URL never gets handed to a  *)
(* client moments before" it dies (image-url-resolver.service.ts:17),      *)
(* unless links are not even signed for that long.                         *)
VehiclePageIsTrue ==
  /\ pageOf = route /\ (\A f \in fetches : f.aborted) =>
        shown.view \in {"notFound", "error"} \/ (shown.view = "vehicle" /\ shown.id = route)
  /\ PhotosShown > 0 => CurrentPhoto \in 0 .. (PhotosShown - 1)
  /\ shown.until > 0 =>
        shown.until - shown.since > (IF Margin < PresignExpiry THEN Margin ELSE PresignExpiry - 1)
  /\ shown.view = "vehicle" <=> similar.of # "none"
  /\ similar.of # "none" => similar.of = shown.id
  /\ similar.state = "listed" =>
       LET listed == ToSet(similar.list) IN
         /\ Cardinality(listed) = Len(similar.list)
         /\ listed \subseteq similar.among \ {similar.of}
         /\ \A i \in DOMAIN similar.list, j \in DOMAIN similar.list :
              i < j => Before(similar.of, similar.list[i], similar.list[j])
         /\ \A u \in similar.among \ (listed \cup {similar.of}) :
              /\ Len(similar.list) = RecLimit
              /\ \A v \in listed : Before(similar.of, v, u)

(* recommendations.repository.ts:171: similar mileage is within 20%. The   *)
(* quotient of two integers is cut, so anything below twice the mileage is *)
(* within 20% of it, and a vehicle listed may owe its place to that.       *)
MileageIsSimilar ==
  \A v \in ToSet(similar.list) :
    MileageWithin(Described[v], Described[similar.of], 20) =>
      5 * Distance(Described[v].mileage, Described[similar.of].mileage) <= Described[similar.of].mileage
====
