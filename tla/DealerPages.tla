---- MODULE DealerPages ----
(***************************************************************************)
(* The dealers' own pages, in two sections that share no state: the area of*)
(* a dealer who is registered, and the wizard that registers one.          *)
(***************************************************************************)
EXTENDS Naturals

(***************************************************************************)
(* The dealer's area of the site: DealerLayout loads the profile once and  *)
(* every guard and page reads that copy, while administrators decide and   *)
(* the dealer edits name and details (two resources, two requests) or      *)
(* resubmits a rejected application.                                       *)
(*                                                                         *)
(*   registered  account and profile in auth-user-service                  *)
(*   layout      useAsyncData of DealerLayout: data, loading, error;       *)
(*               fetching: a request of it is under way                    *)
(*   known       the name in AuthContext                                   *)
(*   place       the route                                                 *)
(*   fields      those of DealerProfilePage; dirty: typed into since they  *)
(*               were last reset                                           *)
(*   asking      the save or resubmission under way, with what it took     *)
(*   answerLost  history: an answer was lost, so that a copy may be old    *)
(***************************************************************************)

CONSTANTS Names, Details

VARIABLES registered, layout, known, place, fields, asking, answerLost

dealerPageVars == <<registered, layout, known, place, fields, asking, answerLost>>

Statuses == {"PENDING", "VERIFIED", "REJECTED"}

Routes == {"dashboard", "listings", "profile", "upload"}

NoProfile == [status |-> "none", type |-> "none", details |-> "none"]

Empty == [name |-> "none", details |-> "none", dirty |-> FALSE]

NothingSaved == [step |-> "none", name |-> "none", details |-> "none"]

ProfileOf(account) == [status |-> account.status, type |-> account.type, details |-> account.details]

DealerPagesTypeOK ==
  /\ registered \in [status : Statuses, type : {"business", "individual"}, name : Names, details : Details]
  /\ layout.data = NoProfile \/ (layout.data.status \in Statuses /\ layout.data.details \in Details)
  /\ {layout.loading, layout.error, layout.fetching, answerLost} \subseteq BOOLEAN
  /\ known \in Names /\ place \in Routes
  /\ fields = Empty \/ (fields.name \in Names /\ fields.details \in Details /\ fields.dirty \in BOOLEAN)
  /\ asking.step \in {"none", "name", "details", "resubmit"}

DealerPagesInit ==
  /\ registered \in [status : Statuses, type : {"business", "individual"}, name : Names, details : Details]
  /\ layout = [data |-> NoProfile, loading |-> TRUE, error |-> FALSE, fetching |-> TRUE]
  /\ known = registered.name
  /\ place = "dashboard" /\ fields = Empty /\ asking = NothingSaved /\ answerLost = FALSE

----
(* The fields as the effect of DealerProfilePage resets them.              *)
Reset(name, data) == [name |-> name, details |-> data.details, dirty |-> FALSE]

(* The effect runs on the profile page once a profile is there, and again  *)
(* whenever profile or user is another object.                             *)
ResetFields(name, data) ==
  fields' = IF place = "profile" /\ data # NoProfile THEN Reset(name, data) ELSE fields

(* The answer to getMyDealerProfile.                                       *)
ProfileAnswered ==
  /\ layout.fetching
  /\ \/ /\ layout' = [data |-> ProfileOf(registered), loading |-> FALSE, error |-> FALSE, fetching |-> FALSE]
        /\ ResetFields(known, layout'.data)
     \/ /\ layout' = [layout EXCEPT !.loading = FALSE, !.error = TRUE, !.fetching = FALSE]
        /\ UNCHANGED fields
  /\ UNCHANGED <<registered, known, place, asking, answerLost>>

Reloaded == [layout EXCEPT !.loading = TRUE, !.error = FALSE, !.fetching = TRUE]

RequireVerifiedDealer(route) ==
  IF layout.data.status # "VERIFIED" THEN "dashboard" ELSE route

RequireDealerType(route, fallback) ==
  IF layout.data.type # "business" THEN fallback ELSE route

(* Where a route leads for the profile at hand.                            *)
Landing(route) ==
  CASE route = "listings" -> RequireVerifiedDealer(route)
    [] route = "upload" -> RequireVerifiedDealer(RequireDealerType(route, "listings"))
    [] OTHER -> route

Loaded == ~layout.loading /\ ~layout.error /\ layout.data # NoProfile

(* The screen of a dealer who is not verified: pending or rejected.        *)
Gate == layout.data.status

(* What the dealer sees on a route.                                        *)
Shown(route) ==
  CASE layout.loading -> "loading"
    [] ~layout.loading /\ ~Loaded -> "error"
    [] OTHER -> IF Landing(route) = "dashboard" /\ layout.data.status # "VERIFIED"
                THEN Gate ELSE Landing(route)

(* The links of the sidebar: none before the dealer is verified.           *)
NavItems ==
  CASE layout.data.status # "VERIFIED" -> {}
    [] layout.data.type = "business" /\ layout.data.status = "VERIFIED" -> Routes
    [] OTHER -> Routes \ {"upload"}

(* A guard redirects as soon as it is rendered with a profile.             *)
Redirect ==
  /\ Loaded /\ Landing(place) # place
  /\ place' = Landing(place)
  /\ UNCHANGED <<registered, layout, known, fields, asking, answerLost>>

(* The dealer follows a link of the sidebar or types a route; the profile  *)
(* page starts with empty fields and fills them once the profile is there. *)
Go(route) ==
  /\ route # place
  /\ place' = route
  /\ fields' = IF route = "profile" /\ layout.data # NoProfile THEN Reset(known, layout.data) ELSE Empty
  /\ UNCHANGED <<registered, layout, known, asking, answerLost>>

Edit(name, details) ==
  /\ place = "profile" /\ Loaded
  /\ fields' = [name |-> name, details |-> details,
               dirty |-> name # known \/ details # layout.data.details]
  /\ UNCHANGED <<registered, layout, known, place, asking, answerLost>>

----
(* onSubmit of the profile page takes the values and sends the name first. *)
(* (A second save beside one that goes on after its page was left is not   *)
(* followed.)                                                              *)
Save ==
  /\ place = "profile" /\ Loaded /\ fields.dirty /\ asking = NothingSaved
  /\ asking' = [step |-> "name", name |-> fields.name, details |-> fields.details]
  /\ UNCHANGED <<registered, layout, known, place, fields, answerLost>>

(* A request fails before it reaches the service or its answer is lost: a  *)
(* message, and the save ends.                                             *)
Fails(saved) ==
  /\ \/ registered' = saved /\ answerLost' = TRUE
     \/ UNCHANGED <<registered, answerLost>>
  /\ asking' = NothingSaved
  /\ UNCHANGED <<layout, known, place, fields>>

(* updateMyName: the new user replaces the one of the context, which resets*)
(* the form; the details that were typed are in the call alone from here.  *)
SaveName ==
  LET saved == [registered EXCEPT !.name = asking.name] IN
  /\ asking.step = "name"
  /\ \/ /\ registered' = saved
        /\ known' = asking.name
        /\ ResetFields(asking.name, layout.data)
        /\ asking' = [asking EXCEPT !.step = "details"]
        /\ UNCHANGED <<layout, place, answerLost>>
     \/ Fails(saved)

(* updateMyDealerProfile, and the profile is loaded again.                 *)
SaveDetails ==
  LET saved == [registered EXCEPT !.details = asking.details] IN
  /\ asking.step = "details"
  /\ \/ /\ registered' = saved
        /\ asking' = NothingSaved
        /\ layout' = Reloaded
        /\ UNCHANGED <<known, place, fields, answerLost>>
     \/ Fails(saved)

(* RejectedResubmitForm, with fields of its own.                           *)
Resubmit(details) ==
  /\ Shown(place) = "REJECTED" /\ asking = NothingSaved
  /\ asking' = [step |-> "resubmit", name |-> "none", details |-> details]
  /\ UNCHANGED <<registered, layout, known, place, fields, answerLost>>

(* resubmitMyDealerProfile: only a rejected profile goes back to pending.  *)
SaveResubmission ==
  LET saved == [registered EXCEPT !.details = asking.details, !.status = "PENDING"] IN
  /\ asking.step = "resubmit"
  /\ IF registered.status = "REJECTED"
     THEN \/ /\ registered' = saved
             /\ asking' = NothingSaved
             /\ layout' = Reloaded
             /\ UNCHANGED <<known, place, fields, answerLost>>
          \/ Fails(saved)
     ELSE Fails(registered)

(* An administrator decides.                                               *)
Decide ==
  /\ registered.status = "PENDING"
  /\ \E status \in {"VERIFIED", "REJECTED"} : registered' = [registered EXCEPT !.status = status]
  /\ UNCHANGED <<layout, known, place, fields, asking, answerLost>>

DealerPagesNext ==
  \/ ProfileAnswered \/ Redirect \/ Save \/ SaveName \/ SaveDetails \/ SaveResubmission \/ Decide
  \/ \E route \in Routes : Go(route)
  \/ \E name \in Names, details \in Details : Edit(name, details)
  \/ \E details \in Details : Resubmit(details)

----
(* An untouched profile form with nothing under way shows what is saved,   *)
(* also after a save of which one half failed.                             *)
FormShowsSaved ==
  place = "profile" /\ Loaded /\ ~layout.fetching /\ ~fields.dirty /\ asking = NothingSaved /\ ~answerLost =>
    fields.name = registered.name /\ fields.details = registered.details

(* What a page offers, the service allows: the pages of verified dealers   *)
(* and of businesses are shown to these alone, and no link leads elsewhere;*)
(* only what the dealer has not loaded again may lag behind, and a decision*)
(* never takes VERIFIED away.                                              *)
PagesAreAllowed ==
  /\ Shown(place) \in {"listings", "upload"} => registered.status = "VERIFIED"
  /\ Shown(place) = "upload" => registered.type = "business"
  /\ \A route \in NavItems : Landing(route) = route

DealerPagesAreTrue == FormShowsSaved /\ PagesAreAllowed

(* "Until they're VERIFIED, this is the only thing they get": the profile  *)
(* page has no guard, and the code breaks this.                            *)
OnlyTheGate == Loaded /\ layout.data.status # "VERIFIED" => Shown(place) \in Statuses

----
(***************************************************************************)
(* The registration of a dealership: a wizard of four steps, each with its *)
(* share of the fields, a certificate that goes to storage while the dealer*)
(* goes on filling in, and the service that creates account and profile.   *)
(*                                                                         *)
(*   step      the step shown, 0 to 3 (Review); 4 once it is done          *)
(*   values    the form: what each group of fields holds. A group that was *)
(*             never shown is unset; an address of four characters is      *)
(*             "short": the schema takes it, the service does not; two     *)
(*             passwords that differ are "unequal"                         *)
(*   document  what the page says of the certificate: key and name of the  *)
(*             last one stored, whether one is being transferred           *)
(*   transfers certificates on their way; the input lets a dealer pick the *)
(*             next while one is                                           *)
(*   kept      keys in storage                                             *)
(*   profiles  profiles the service created, with what Review showed when  *)
(*             they were sent                                              *)
(***************************************************************************)

CONSTANTS
  Certificates,    \* files the dealer may pick; the key of one is the file
  NoFile           \* no certificate

ASSUME RegistrationAssumption == NoFile \notin Certificates

VARIABLES step, values, document, transfers, kept, sending, profiles

registrationVars == <<step, values, document, transfers, kept, sending, profiles>>

DealerTypes == {"business", "individual"}

Groups == {"company", "contact", "account"}

States == {"unset", "wrong", "short", "unequal", "right"}

NoSending == [type |-> "none", brn |-> FALSE, nic |-> FALSE, key |-> NoFile, shown |-> NoFile, short |-> FALSE]

RegistrationTypeOK ==
  /\ step \in 0 .. 4
  /\ values \in [company : States, contact : States, account : States, type : DealerTypes,
                 brn : BOOLEAN, nic : BOOLEAN]
  /\ document \in [key : Certificates \cup {NoFile}, name : Certificates \cup {NoFile}, uploading : BOOLEAN]
  /\ transfers \subseteq Certificates /\ kept \subseteq Certificates
  /\ DOMAIN sending = DOMAIN NoSending
  /\ \A p \in profiles : DOMAIN p = DOMAIN NoSending

RegistrationInit ==
  /\ step = 0
  /\ values = [company |-> "wrong", contact |-> "unset", account |-> "unset", type |-> "business",
               brn |-> FALSE, nic |-> FALSE]
  /\ document = [key |-> NoFile, name |-> NoFile, uploading |-> FALSE]
  /\ transfers = {} /\ kept = {}
  /\ sending = NoSending /\ profiles = {}

----
(* dealerRegisterSchema: the fields one by one, and the three refinements  *)
(* of the whole, which zod leaves out while a field is missing.            *)
FieldErrors == {g \in Groups : values[g] \in {"unset", "wrong"}}

RefinementErrors ==
  {e \in {"brn", "nic", "confirmPassword"} :
     /\ \A g \in Groups : values[g] # "unset"
     /\ CASE e = "brn" -> values.type = "business" /\ ~values.brn
          [] e = "nic" -> values.type = "individual" /\ ~values.nic
          [] e = "confirmPassword" -> values.account = "unequal"}

Errors == FieldErrors \cup RefinementErrors

(* STEP_FIELDS.                                                            *)
StepFields == [s \in 0 .. 3 |-> CASE s = 0 -> {"company", "brn", "nic"}
                                  [] s = 1 -> {"contact"}
                                  [] s = 2 -> {"account", "confirmPassword"}
                                  [] s = 3 -> {}]

(* The dealer types into the fields of the step shown; none of them is left*)
(* missing, for the step has rendered them all. What the schema refuses by *)
(* itself is only the empty form: a dealer need not return to it.          *)
FillIn ==
  /\ \/ /\ step = 0
        /\ \E value \in {"short", "right"}, type \in DealerTypes, brn, nic \in BOOLEAN :
             values' = [values EXCEPT !.company = value, !.type = type, !.brn = brn, !.nic = nic]
     \/ step = 1 /\ values' = [values EXCEPT !.contact = "right"]
     \/ step = 2 /\ \E value \in {"unequal", "right"} : values' = [values EXCEPT !.account = value]
  /\ UNCHANGED <<step, document, transfers, kept, sending, profiles>>

(* onDocumentSelected: a file of a kind or size that is refused changes    *)
(* nothing but the message; the others are sent.                           *)
SelectDocument(file) ==
  /\ step = 0 /\ values.type = "business" /\ file \notin transfers
  /\ transfers' = transfers \cup {file}
  /\ document' = [document EXCEPT !.uploading = TRUE]
  /\ UNCHANGED <<step, values, kept, sending, profiles>>

(* uploadPending of the service, and its answer: the key and the name of   *)
(* this file, whichever was picked last. Without an answer the page keeps  *)
(* the key it had.                                                         *)
DocumentAnswered(file) ==
  /\ file \in transfers
  /\ transfers' = transfers \ {file}
  /\ \/ /\ kept' = kept \cup {file}
        /\ document' = [key |-> file, name |-> file, uploading |-> FALSE]
     \/ /\ kept' \in {kept, kept \cup {file}}
        /\ document' = [document EXCEPT !.uploading = FALSE]
  /\ UNCHANGED <<step, values, sending, profiles>>

(* next: the step's own fields, and the certificate of a business. The step*)
(* that opens renders its fields, empty.                                   *)
Continue ==
  /\ step < 3 /\ ~document.uploading
  /\ Errors \cap StepFields[step] = {}
  /\ step = 0 /\ values.type = "business" => document.key # NoFile
  /\ step' = step + 1
  /\ values' = [values EXCEPT !.contact = IF step = 0 /\ @ = "unset" THEN "wrong" ELSE @,
                              !.account = IF step = 1 /\ @ = "unset" THEN "wrong" ELSE @]
  /\ UNCHANGED <<document, transfers, kept, sending, profiles>>

Back ==
  /\ step \in 1 .. 3
  /\ step' = step - 1
  /\ UNCHANGED <<values, document, transfers, kept, sending, profiles>>

(* What Review shows as the certificate.                                   *)
Reviewed == IF values.type = "business" THEN document.name ELSE NoFile

(* onSubmit: nothing happens while the schema finds an error anywhere.     *)
SubmitWizard ==
  /\ step = 3 /\ sending = NoSending /\ Errors = {}
  /\ sending' = [type |-> values.type, brn |-> values.brn, nic |-> values.nic,
                 key |-> IF values.type = "business" THEN document.key ELSE NoFile,
                 shown |-> Reviewed, short |-> values.company = "short"]
  /\ UNCHANGED <<step, values, document, transfers, kept, profiles>>

VerificationDocumentsError(request) ==
  IF request.type = "business" THEN request.key = NoFile ELSE ~request.nic

(* RegisterDealerDto.                                                      *)
Acceptable(request) ==
  /\ ~request.short
  /\ request.type = "business" => request.brn
  /\ ~VerificationDocumentsError(request)

(* registerDealer: account and profile in one transaction, unless the      *)
(* address is taken; then the events and the link, which may fail. Without *)
(* an answer, or when refused, the dealer may send again.                  *)
RegisterDealer ==
  /\ sending # NoSending
  /\ profiles' = IF Acceptable(sending) /\ profiles = {} THEN {sending} ELSE profiles
  /\ step' \in IF Acceptable(sending) THEN {step, 4} ELSE {step}
  /\ sending' = NoSending
  /\ UNCHANGED <<values, document, transfers, kept>>

RegistrationNext ==
  \/ FillIn \/ Continue \/ Back \/ SubmitWizard \/ RegisterDealer
  \/ \E file \in Certificates : SelectDocument(file) \/ DocumentAnswered(file)
----
(* What Review sends is complete, although the steps let a dealer pass     *)
(* without a registration number or an NIC and the type may still change:  *)
(* a business has its number and the certificate that Review showed, in    *)
(* storage, an individual an NIC. The service refuses it for nothing but a *)
(* short address, and the profile it creates is just that.                 *)
RegistrationIsComplete ==
  \A p \in profiles \cup ({sending} \ {NoSending}) :
    IF p.type = "business"
    THEN p.brn /\ p.key \in kept /\ p.shown = p.key
    ELSE p.nic /\ p.key = NoFile

(* "Which fields each step is responsible for": nobody stands before a     *)
(* finished Review that does nothing when it is sent. The code breaks this.*)
ReviewCanBeSent == step = 3 => Errors = {}
====
