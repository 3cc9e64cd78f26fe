---- MODULE MCFrontend ----
(***************************************************************************)
(* The pages and hooks of web-frontend that share no state in the models,  *)
(* side by side in one run: the initial state chooses the part that moves, *)
(* and the others stay at rest.                                            *)
(***************************************************************************)
EXTENDS BrowserSession, AccountPages, DealerPages, ListingForm, ListingsPage,
        UploadPages, AdminConsole, SearchPage, VehiclePage, SavedVehicles, TLC

VARIABLE part

Parts == {"browser", "accounts", "registration", "dealer", "new", "specs", "list", "uploads",
          "console", "home", "search", "filters", "vehicle", "saved"}

(* What a part that may start in several ways is like at rest.             *)
AtRest ==
  /\ part # "dealer" => registered = [status |-> "VERIFIED", type |-> "business",
                                      name |-> "n", details |-> "d"]
  /\ part # "vehicle" => route = "a" /\ mode = "s3"
  /\ part # "saved" => favourites = {}

Init ==
  /\ part \in Parts /\ AtRest
  /\ BrowserInit /\ AccountPagesInit /\ RegistrationInit /\ DealerPagesInit /\ NewListingInit
  /\ SpecsInit /\ ListInit /\ UploadPagesInit /\ ConsoleInit /\ HomePageInit /\ SearchPageInit
  /\ FilterPanelInit /\ VehiclePageInit /\ SavedInit

Next ==
  /\ UNCHANGED part
  /\ IF part = "browser"      THEN BrowserNext      ELSE UNCHANGED browserVars
  /\ IF part = "accounts"     THEN AccountPagesNext ELSE UNCHANGED accountPageVars
  /\ IF part = "registration" THEN RegistrationNext ELSE UNCHANGED registrationVars
  /\ IF part = "dealer"       THEN DealerPagesNext  ELSE UNCHANGED dealerPageVars
  /\ IF part = "new"          THEN NewListingNext   ELSE UNCHANGED newListingVars
  /\ IF part = "specs"        THEN SpecsNext        ELSE UNCHANGED specVars
  /\ IF part = "list"         THEN ListNext         ELSE UNCHANGED listVars
  /\ IF part = "uploads"      THEN UploadPagesNext  ELSE UNCHANGED uploadPageVars
  /\ IF part = "console"      THEN ConsoleNext      ELSE UNCHANGED consoleVars
  /\ IF part = "home"         THEN HomePageNext     ELSE UNCHANGED homeVars
  /\ IF part = "search"       THEN SearchPageNext   ELSE UNCHANGED searchVars
  /\ IF part = "filters"      THEN FilterPanelNext  ELSE UNCHANGED panelVars
  /\ IF part = "vehicle"      THEN VehiclePageNext  ELSE UNCHANGED vehiclePageVars
  /\ IF part = "saved"        THEN SavedNext        ELSE UNCHANGED savedVars

Spec ==
  Init /\ [][Next]_<<part, browserVars, accountPageVars, registrationVars, dealerPageVars,
                     newListingVars, specVars, listVars, uploadPageVars, consoleVars, homeVars,
                     searchVars, panelVars, vehiclePageVars, savedVars>>

(* Every variable of the part that moves has its type.                     *)
TypesOK ==
  /\ part = "browser"      => BrowserTypeOK
  /\ part = "accounts"     => AccountPagesTypeOK
  /\ part = "registration" => RegistrationTypeOK
  /\ part = "dealer"       => DealerPagesTypeOK
  /\ part = "new"          => NewListingTypeOK
  /\ part = "specs"        => SpecsTypeOK
  /\ part = "list"         => ListTypeOK
  /\ part = "uploads"      => UploadPagesTypeOK
  /\ part = "console"      => ConsoleTypeOK
  /\ part = "home"         => HomePageTypeOK
  /\ part = "search"       => SearchPageTypeOK
  /\ part = "filters"      => FilterPanelTypeOK
  /\ part = "vehicle"      => VehiclePageTypeOK
  /\ part = "saved"        => SavedTypeOK

(* What the pages of an account say and where they lead agrees with what   *)
(* the service did: signing in and out, verifying and resetting            *)
(* (AccountPages), the dealer's dashboard and profile form, and the end of *)
(* the registration wizard (DealerPages).                                  *)
OwnersPagesAreTrue ==
  /\ part = "accounts"     => AccountPagesAreTrue
  /\ part = "dealer"       => DealerPagesAreTrue
  /\ part = "registration" => RegistrationIsComplete

(* The administrators' pages show what the services hold, or say that they *)
(* could not read it (AdminConsole).                                       *)
ConsoleIsTrue == part = "console" => AdminPagesAreTrue

(* What a dealer meant is what is stored: a submission makes one listing,  *)
(* except that requests which overlap and were sent for one vehicle may    *)
(* each make one; the specs are those last typed, and none of another      *)
(* vehicle type (ListingForm).                                             *)
ListingIsAsMeant ==
  /\ part = "new"   => SubmissionsAreOne
  /\ part = "specs" => SpecsAreRight

(* Lists kept beside the server's agree with it at rest: the dealer's table*)
(* of listings, unless a change has passed it by since it was last loaded; *)
(* the job an upload page follows, where the page accepts what the service *)
(* does and, of archives, an empty one as well; the buyer's hearts, of the *)
(* vehicles whose last change was a toggle that was answered, alone.       *)
PagesShowServer ==
  /\ part = "list"    => ListShowsServer
  /\ part = "uploads" => UploadsAreFollowed
  /\ part = "saved"   => HeartsAgree

(* What a buyer sees is what the buyer asked for last: results, draft and  *)
(* filters, the button of the home page (SearchPage), and the vehicle,     *)
(* photos and offers of a vehicle's page (VehiclePage).                    *)
BuyersPagesAreTrue ==
  /\ part = "search"  => ResultsAreWanted
  /\ part = "filters" => FiltersHoldTogether
  /\ part = "home"    => ButtonKeepsItsWord
  /\ part = "vehicle" => VehiclePageIsTrue

(* SessionSurvives says nothing of a browser where a request has failed or *)
(* two tabs have crossed: what such a browser does next is not followed.   *)
Followed == part = "browser" => ~failed /\ ~crossed

(* Handlers of one kind may be exchanged: no property tells them apart. The*)
(* parts share their handlers.                                             *)
Exchangeable == Permutations(Forms)
====
