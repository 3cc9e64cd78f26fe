---- MODULE AccountPages ----
(***************************************************************************)
(* One tab of the browser and the account in it: the three sign-in pages,  *)
(* the guards of the routes, signing out, and the pages of the mails' links*)
(* (verify, reset) and of the requests for them. A request goes on when its*)
(* page is left, and what it was sent for happens all the same.            *)
(*                                                                         *)
(*   visitor   the role of AuthProvider's user, as localStorage has it     *)
(*   via       history variable: the page the session was obtained on      *)
(*   location  the page, and location.state.from (none: "none")            *)
(*   entry     the form of the page: what became of what was sent; of a    *)
(*             link whether it was good, and not under way, when the page  *)
(*             was opened, and no request failed since (history)           *)
(*   requests  those under way; here: their page is still mounted          *)
(*   links     the one-time links of the mails that are still good         *)
(***************************************************************************)
EXTENDS Naturals, FiniteSets

CONSTANTS
  MaxCalls         \* bound on forms sent

ASSUME AccountPagesAssumption == MaxCalls \in Nat

VARIABLES visitor, via, location, entry, requests, links, sent

accountPageVars == <<visitor, via, location, entry, requests, links, sent>>

Roles == {"BUYER", "DEALER", "ADMIN"}

Pages == {"home", "search", "login", "register", "verify", "forgot", "reset", "dealer/login",
          "dealer", "saved", "admin/login", "admin"}

MailLinks == {"verify", "reset"}

NoForm == [status |-> "idle", started |-> FALSE, wasGood |-> FALSE]

AccountPagesTypeOK ==
  /\ visitor \in {"none"} \cup Roles /\ via \in {"none", "login", "dealer", "admin"}
  /\ location \in [at : Pages, from : {"none", "saved", "dealer", "admin"}]
  /\ entry \in [status : {"idle", "sending", "sent", "failed"}, started : BOOLEAN, wasGood : BOOLEAN]
  /\ requests \subseteq [kind : {"login", "google", "dealer", "admin", "logout", "verify", "reset", "mail"},
                       who : {"none"} \cup Roles, to : {"none", "again", "refused"} \cup Pages,
                       here : BOOLEAN]
  /\ links \subseteq MailLinks /\ sent \in 0 .. MaxCalls

AccountPagesInit ==
  /\ visitor = "none" /\ via = "none"
  /\ location = [at |-> "home", from |-> "none"] /\ entry = NoForm
  /\ requests = {} /\ links = MailLinks /\ sent = 0

----
(* RequireAuth and RequireRole.                                            *)
Guarded(at, who) ==
  \/ at = "saved" /\ who = "none"
  \/ at = "dealer" /\ who # "DEALER"
  \/ at = "admin" /\ who # "ADMIN"

LoginTo == [saved |-> "login", dealer |-> "dealer/login", admin |-> "admin/login"]

(* Where one ends who goes to a page: a guard sends on to a sign-in page   *)
(* and remembers; the sign-in pages of dealers and administrators send on  *)
(* those who are signed in.                                                *)
LandsOn(at, from, who) ==
  CASE Guarded(at, who) -> [at |-> LoginTo[at], from |-> at]
    [] at = "dealer/login" /\ who = "DEALER" -> [at |-> "dealer", from |-> "none"]
    [] at = "admin/login" /\ who = "ADMIN" -> [at |-> "admin", from |-> "none"]
    [] OTHER -> [at |-> at, from |-> from]

(* The page that comes next, for who is signed in by then. Calls of a page *)
(* that is left go on without it.                                          *)
LeadTo(at, from, who, others) ==
  /\ location' = LandsOn(at, from, who)
  /\ IF location'.at = location.at THEN entry' = entry /\ requests' = others
     ELSE entry' = NoForm /\ requests' = {[c EXCEPT !.here = FALSE] : c \in others}

(* A link in a page, or an address typed.                                  *)
Open(at) ==
  /\ at \notin MailLinks \cup {location.at}
  /\ LeadTo(at, "none", visitor, requests)
  /\ UNCHANGED <<visitor, via, links, sent>>

(* The link of a mail.                                                     *)
OpenLink(l) ==
  /\ l \in MailLinks /\ location.at # l
  /\ location' = [at |-> l, from |-> "none"]
  /\ entry' = [NoForm EXCEPT !.wasGood = l \in links /\ \A c \in requests : c.kind # l]
  /\ requests' = {[c EXCEPT !.here = FALSE] : c \in requests}
  /\ UNCHANGED <<visitor, via, links, sent>>

Request(kind, who, to) == [kind |-> kind, who |-> who, to |-> to, here |-> TRUE]

SendForm(c) ==
  /\ sent < MaxCalls /\ sent' = sent + 1
  /\ requests' = requests \cup {c}
  /\ entry' = [entry EXCEPT !.status = "sending"]
  /\ UNCHANGED <<visitor, via, location, links>>

----
(* LoginPage remembers where to go on the way out; Google's button stays   *)
(* beside a form under way.                                                *)
SubmitLogin(who) ==
  /\ location.at = "login" /\ entry.status # "sending"
  /\ SendForm(Request("login", who, IF location.from = "none" THEN "search" ELSE location.from))

SignInWithGoogle(who) ==
  /\ location.at = "login"
  /\ SendForm(Request("google", who, IF location.from = "none" THEN "search" ELSE location.from))

SubmitDealerLogin(who) ==
  /\ location.at = "dealer/login" /\ entry.status # "sending"
  /\ SendForm(Request("dealer", who, "dealer"))

SubmitAdminLogin(who) ==
  /\ location.at = "admin/login" /\ entry.status # "sending"
  /\ SendForm(Request("admin", who, "admin"))

(* Only administrators get in by their page, and they do by no other.      *)
Accepted(c) == (c.kind = "admin") = (c.who = "ADMIN")

(* login, loginAdmin, loginWithGoogle: the session replaces what there is, *)
(* then the page goes on, wherever the tab is by now.                      *)
SignedIn(c) ==
  /\ c.kind \in {"login", "google", "admin"} /\ Accepted(c)
  /\ visitor' = c.who /\ via' = IF c.kind = "admin" THEN "admin" ELSE "login"
  /\ LeadTo(c.to, "none", c.who, requests \ {c})
  /\ UNCHANGED <<links, sent>>

(* "Don't leave a half-signed-in buyer sitting on the dealer portal."      *)
DealerSignedIn(c) ==
  /\ c.kind = "dealer" /\ Accepted(c)
  /\ visitor' = c.who /\ via' = "dealer"
  /\ IF c.who = "DEALER" THEN LeadTo("dealer", "none", c.who, requests \ {c})
     ELSE LeadTo(location.at, location.from, c.who,
               (requests \ {c}) \cup {[c EXCEPT !.kind = "logout", !.to = "refused"]})
  /\ UNCHANGED <<links, sent>>

SignInFails(c) ==
  /\ c.kind \in {"login", "google", "dealer", "admin"}
  /\ requests' = requests \ {c}
  /\ entry' = IF c.here THEN [entry EXCEPT !.status = "failed"] ELSE entry
  /\ UNCHANGED <<visitor, via, location, links, sent>>

(* Every layout signs out to a page of its own; the sign-in pages of       *)
(* dealers and administrators have no header.                              *)
SignOutTo == IF location.at \in {"dealer", "admin"} THEN LoginTo[location.at] ELSE "home"

SignOut ==
  /\ visitor # "none" /\ location.at \notin {"dealer/login", "admin/login"}
  /\ requests' = requests \cup {Request("logout", visitor, SignOutTo)}
  /\ UNCHANGED <<visitor, via, location, entry, links, sent>>

(* logout never fails; the session goes when the service has answered,     *)
(* whosever it is by then.                                                 *)
SignedOutOf(c) ==
  /\ c.kind = "logout"
  /\ visitor' = "none" /\ via' = "none"
  /\ IF c.to # "refused" THEN LeadTo(c.to, "none", "none", requests \ {c})
     ELSE LET next == LandsOn(location.at, location.from, "none") IN
            /\ location' = next
            /\ requests' = {[d EXCEPT !.here = @ /\ next.at = location.at] : d \in requests \ {c}}
            /\ entry' = IF next.at # location.at THEN NoForm
                       ELSE IF c.here THEN [entry EXCEPT !.status = "failed"] ELSE entry
  /\ UNCHANGED <<links, sent>>

SessionExpires ==
  /\ visitor # "none" /\ visitor' = "none" /\ via' = "none"
  /\ LeadTo(location.at, location.from, "none", requests)
  /\ UNCHANGED <<links, sent>>

----
(* Mutant of VerifyOnMount: every run of the effect sends the link.        *)
VerifyOnEveryRun ==
  /\ location.at = "verify" /\ entry.status \in {"idle", "sending"}
  /\ requests' = requests \cup {Request("verify", "none", IF entry.started THEN "again" ELSE "none")}
  /\ entry' = [entry EXCEPT !.started = TRUE, !.status = "sending"]
  /\ UNCHANGED <<visitor, via, location, links, sent>>

(* VerifyEmailPage sends the link when it is mounted: once, though the     *)
(* effect may run twice.                                                   *)
VerifyOnMount ==
  /\ location.at = "verify" /\ ~entry.started
  /\ requests' = requests \cup {Request("verify", "none", "none")}
  /\ entry' = [entry EXCEPT !.started = TRUE, !.status = "sending"]
  /\ UNCHANGED <<visitor, via, location, links, sent>>

SubmitReset ==
  /\ location.at = "reset" /\ entry.status \in {"idle", "failed"}
  /\ SendForm(Request("reset", "none", "none"))

(* verifyEmail, confirmReset: a link is good once. The page hears of it,   *)
(* unless it was left.                                                     *)
LinkServed(c) ==
  /\ c.kind \in MailLinks
  /\ links' = links \ {c.kind} /\ requests' = requests \ {c}
  /\ entry' = IF c.here THEN [entry EXCEPT !.status = IF c.kind \in links THEN "sent" ELSE "failed"]
             ELSE entry
  /\ UNCHANGED <<visitor, via, location, sent>>

(* A request or its answer is lost: the page says that the link failed.    *)
LinkLost(c) ==
  /\ c.kind \in MailLinks /\ requests' = requests \ {c}
  /\ \E served \in BOOLEAN : links' = IF served THEN links \ {c.kind} ELSE links
  /\ entry' = IF c.here THEN [entry EXCEPT !.status = "failed", !.wasGood = FALSE] ELSE entry
  /\ UNCHANGED <<visitor, via, location, sent>>

(* RegisterPage, ForgotPasswordPage: the service answers with a message,   *)
(* and there is no form any more; a new mail makes its link good.          *)
SubmitAddress ==
  /\ location.at \in {"forgot", "register"} /\ entry.status \in {"idle", "failed"}
  /\ SendForm(Request("mail", "none", location.at))

MailRequested(c) ==
  /\ c.kind = "mail" /\ requests' = requests \ {c}
  /\ links' = links \cup {IF c.to = "forgot" THEN "reset" ELSE "verify"}
  /\ entry' = IF c.here THEN [entry EXCEPT !.status = "sent"] ELSE entry
  /\ UNCHANGED <<visitor, via, location, sent>>

MailRefused(c) ==
  /\ c.kind = "mail" /\ requests' = requests \ {c}
  /\ entry' = IF c.here THEN [entry EXCEPT !.status = "failed"] ELSE entry
  /\ UNCHANGED <<visitor, via, location, links, sent>>

AccountPagesNext ==
  \/ \E at \in Pages : Open(at)
  \/ \E l \in MailLinks : OpenLink(l)
  \/ \E who \in Roles : \/ SubmitLogin(who) \/ SubmitDealerLogin(who) \/ SubmitAdminLogin(who)
                        \/ who # "ADMIN" /\ SignInWithGoogle(who)
  \/ \E c \in requests : \/ SignedIn(c) \/ DealerSignedIn(c) \/ SignInFails(c) \/ SignedOutOf(c)
                      \/ LinkServed(c) \/ LinkLost(c) \/ MailRequested(c) \/ MailRefused(c)
  \/ SignOut \/ SessionExpires \/ VerifyOnMount \/ SubmitReset \/ SubmitAddress

----
(* The pages for whoever is signed in.                                     *)
MaySee(who) ==
  (Pages \ {"saved", "dealer", "admin"})
    \cup CASE who = "none" -> {}
           [] who = "BUYER" -> {"saved"}
           [] who = "DEALER" -> {"saved", "dealer"}
           [] who = "ADMIN" -> {"saved", "admin"}

(* Whatever is answered, and wherever the tab is by then: nobody looks at a*)
(* page of another role; "don't leave a half-signed-in buyer sitting on the*)
(* dealer portal" (DealerLoginPage.tsx:69); and a page that says its link  *)
(* is no good did not use the link up itself: "a second call would burn the*)
(* token and show a spurious "invalid" error" (VerifyEmailPage.tsx:16).    *)
AccountPagesAreTrue ==
  /\ location.at \in MaySee(visitor)
  /\ via = "dealer" /\ visitor # "DEALER" => \E c \in requests : c.kind = "logout"
  /\ location.at \in MailLinks /\ entry.status = "failed" => ~entry.wasGood
  /\ entry.status = "sending" => \E c \in requests : c.here
====
