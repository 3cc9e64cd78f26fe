---- MODULE Credentials ----
(***************************************************************************)
(* auth-user-service: one account (one e-mail address) from registration   *)
(* to password changes: one-time links and the password history. Handlers  *)
(* interleave at every await, and die between two of them.                 *)
(*                                                                         *)
(*   account   the row of auth.users                                       *)
(*   history   rows of auth.password_history, newest first                 *)
(*   link      rows of the two tables of one-time tokens, with three       *)
(*             history fields: uses, how many confirmations it served; held*)
(*             how many had found it unused when it was first marked used; *)
(*             since, how many links there were when its issuer had revoked*)
(*   work      where each handler stands, with the row it has loaded       *)
(*   past      history variable: passwords the account had, newest first   *)
(*   raced     history variable: two password updates have overlapped      *)
(***************************************************************************)
EXTENDS Naturals, Sequences, FiniteSets, SequencesExt

CONSTANTS
  Handlers,
  Passwords,
  HistoryCount,        \* PASSWORD_HISTORY_COUNT
  MaxLinks,            \* bound on one-time links
  MaxChanges           \* bound on password updates

ASSUME CredentialsAssumption ==
  /\ IsFiniteSet(Handlers) /\ Passwords # {}
  /\ HistoryCount \in Nat \ {0} /\ MaxLinks \in Nat /\ MaxChanges \in Nat

VARIABLES account, history, link, work, past, raced

credentialVars == <<account, history, link, work, past, raced>>

SomePassword == CHOOSE p \in Passwords : TRUE

User == [exists : BOOLEAN, passwordHash : Passwords, isActive : BOOLEAN,
         verified : BOOLEAN]

OneTimeToken == [kind : {"reset", "verify"}, used : BOOLEAN, expired : BOOLEAN,
                 mailed : BOOLEAN, uses : Nat, held : Nat, since : Nat]

WorkPc == {"idle", "create", "revokeLinks", "createLink", "mail", "loadVerify", "verify",
           "markUsed", "loadReset", "check", "update", "trim"}

Work == [pc : WorkPc, kind : {"none", "reset", "verify"}, t : Nat, new : Passwords,
         old : Passwords]

Links == 1 .. Len(link)

(* Mutant of Usable: a link is good until it expires.                       *)
UsableAgain(t) == link[t].mailed /\ ~link[t].expired

Usable(t) == link[t].mailed /\ ~link[t].used /\ ~link[t].expired

(* The handlers that have found a link usable and not finished with it.    *)
Confirming(t) ==
  {h \in Handlers : /\ work[h].pc \in {"loadVerify", "verify", "markUsed",
                                       "loadReset", "check", "update"}
                    /\ work[h].t = t}

(* A link that is marked used, whatever it was; one that has served.       *)
Spent(t) ==
  [link[t] EXCEPT !.used = TRUE,
                  !.held = IF link[t].used THEN @ ELSE Cardinality(Confirming(t))]

Served(t) == [Spent(t) EXCEPT !.uses = @ + 1]

CredentialsTypeOK ==
  /\ account \in User
  /\ history \in Seq(Passwords) /\ past \in Seq(Passwords)
  /\ link \in Seq(OneTimeToken)
  /\ work \in [Handlers -> Work]
  /\ raced \in BOOLEAN
  /\ \A h \in Handlers : work[h].t \in {0} \cup Links

NoUser == [exists |-> FALSE, passwordHash |-> SomePassword, isActive |-> FALSE,
           verified |-> FALSE]

IdleWork == [pc |-> "idle", kind |-> "none", t |-> 0, new |-> SomePassword,
             old |-> SomePassword]

CredentialsInit ==
  /\ account = NoUser
  /\ history = <<>> /\ past = <<>> /\ link = <<>>
  /\ work = [h \in Handlers |-> IdleWork]
  /\ raced = FALSE

WorkAt(h, pc)   == work[h].pc = pc
WorkGoto(h, pc) == work' = [work EXCEPT ![h].pc = pc]
WorkEnds(h)     == work' = [work EXCEPT ![h] = IdleWork]
WorkStarts(h, pc, kind) ==
  WorkAt(h, "idle") /\ work' = [work EXCEPT ![h] = [IdleWork EXCEPT !.pc = pc, !.kind = kind]]

----
(* Registration and links.                                                 *)

(* registerBuyer, registerDealer: an address that is taken gets the same   *)
(* answer, and nothing else.                                               *)
Register(h) ==
  /\ ~account.exists
  /\ WorkStarts(h, "create", "verify")
  /\ UNCHANGED <<account, history, link, past, raced>>

(* The e-mail is unique: the later of two inserts fails.                   *)
CreateUser(h) ==
  /\ WorkAt(h, "create")
  /\ \/ /\ ~account.exists
        /\ account' = [NoUser EXCEPT !.exists = TRUE]
        /\ WorkGoto(h, "revokeLinks")
     \/ account.exists /\ WorkEnds(h) /\ UNCHANGED account
  /\ UNCHANGED <<history, link, past, raced>>

(* requestPasswordReset and resendVerification look the address up.        *)
RequestPasswordReset(h) ==
  /\ account.exists
  /\ WorkStarts(h, "revokeLinks", "reset")
  /\ UNCHANGED <<account, history, link, past, raced>>

ResendVerification(h) ==
  /\ account.exists /\ ~account.verified
  /\ WorkStarts(h, "revokeLinks", "verify")
  /\ UNCHANGED <<account, history, link, past, raced>>

(* issueToken, issueResetToken: older unused links go first, ...           *)
RevokeUnusedForUser(h) ==
  /\ WorkAt(h, "revokeLinks")
  /\ link' = [t \in Links |-> IF link[t].kind = work[h].kind THEN Spent(t) ELSE link[t]]
  /\ work' = [work EXCEPT ![h].pc = "createLink", ![h].t = Len(link)]
  /\ UNCHANGED <<account, history, past, raced>>

(* ... then the new one is inserted, ...                                   *)
CreateLink(h) ==
  /\ WorkAt(h, "createLink")
  /\ Len(link) < MaxLinks
  /\ link' = Append(link, [kind |-> work[h].kind, used |-> FALSE, expired |-> FALSE,
                            mailed |-> FALSE, uses |-> 0, held |-> 0,
                            since |-> work[h].t])
  /\ work' = [work EXCEPT ![h].pc = "mail", ![h].t = Len(link) + 1]
  /\ UNCHANGED <<account, history, past, raced>>

(* ... and mailed: the only copy of its token. deliver reports what stopped*)
(* a mail, and nobody asks: the older links are dead, the answer the same. *)
Deliver(h) ==
  /\ WorkAt(h, "mail")
  /\ \E sent \in BOOLEAN : link' = [link EXCEPT ![work[h].t].mailed = sent]
  /\ WorkEnds(h)
  /\ UNCHANGED <<account, history, past, raced>>

(* verifyEmail: the link, then the account, then both are written.         *)
OpenVerification(h, t) ==
  /\ WorkAt(h, "idle")
  /\ t \in Links /\ link[t].kind = "verify" /\ Usable(t)
  /\ work' = [work EXCEPT ![h] = [IdleWork EXCEPT !.pc = "loadVerify", !.t = t]]
  /\ UNCHANGED <<account, history, link, past, raced>>

LoadForVerification(h) ==
  /\ WorkAt(h, "loadVerify")
  /\ WorkGoto(h, IF account.verified THEN "markUsed" ELSE "verify")
  /\ UNCHANGED <<account, history, link, past, raced>>

VerifyEmail(h) ==
  /\ \/ /\ WorkAt(h, "verify")
        /\ account' = [account EXCEPT !.verified = TRUE, !.isActive = TRUE]
     \/ WorkAt(h, "markUsed") /\ UNCHANGED account
  /\ link' = [link EXCEPT ![work[h].t] = Served(work[h].t)]
  /\ WorkEnds(h)
  /\ UNCHANGED <<history, past, raced>>

----
(* Password updates.                                                       *)

Updating(h) == work[h].pc \in {"loadReset", "check", "update", "trim"}

StartsUpdate(h) == raced' = (raced \/ \E g \in Handlers \ {h} : Updating(g))

(* confirmReset: the link, then the account.                               *)
OpenReset(h, t, p) ==
  /\ WorkAt(h, "idle")
  /\ t \in Links /\ link[t].kind = "reset" /\ Usable(t)
  /\ work' = [work EXCEPT ![h] = [IdleWork EXCEPT !.pc = "loadReset", !.t = t, !.new = p]]
  /\ StartsUpdate(h)
  /\ UNCHANGED <<account, history, link, past>>

LoadForReset(h) ==
  /\ WorkAt(h, "loadReset")
  /\ work' = [work EXCEPT ![h].pc = "check", ![h].old = account.passwordHash]
  /\ UNCHANGED <<account, history, link, past, raced>>

(* changePassword, by a caller who knows the current password.             *)
ChangePassword(h, p) ==
  /\ WorkAt(h, "idle")
  /\ account.exists /\ account.isActive /\ account.verified
  /\ work' = [work EXCEPT
       ![h] = [IdleWork EXCEPT !.pc = "check", !.new = p, !.old = account.passwordHash]]
  /\ StartsUpdate(h)
  /\ UNCHANGED <<account, history, link, past>>

(* assertPasswordNotReused: against the account as loaded and the recent   *)
(* history as it is now.                                                   *)
RecentHistory(n) == SubSeq(history, 1, IF Len(history) < n THEN Len(history) ELSE n)

Reused(h) ==
  work[h].new \in {work[h].old} \cup ToSet(RecentHistory(HistoryCount))

AssertPasswordNotReused(h) ==
  /\ WorkAt(h, "check")
  /\ IF Reused(h) THEN WorkEnds(h) ELSE WorkGoto(h, "update")
  /\ UNCHANGED <<account, history, link, past, raced>>

(* updatePassword's transaction: the password it loaded goes to the        *)
(* history, whatever the table holds by now.                               *)
UpdatePassword(h) ==
  /\ WorkAt(h, "update")
  /\ Len(past) < MaxChanges
  /\ history' = <<work[h].old>> \o history
  /\ account' = [account EXCEPT !.passwordHash = work[h].new]
  /\ past' = <<account.passwordHash>> \o past
  /\ link' = [t \in Links |-> IF t = work[h].t THEN Served(t) ELSE link[t]]
  /\ WorkGoto(h, "trim")
  /\ UNCHANGED raced

(* trimToLimit. (What follows, the end of the sessions and of the failure  *)
(* count, is in Sessions and SignIn.)                                      *)
TrimToLimit(h) ==
  /\ WorkAt(h, "trim")
  /\ history' = RecentHistory(HistoryCount)
  /\ WorkEnds(h)
  /\ UNCHANGED <<account, link, past, raced>>
----
(* An administrator deactivates the account or lets it in again.           *)
SetActive ==
  /\ account.exists
  /\ account' = [account EXCEPT !.isActive = ~account.isActive]
  /\ UNCHANGED <<history, link, work, past, raced>>

LinkExpires(t) ==
  /\ ~link[t].expired
  /\ link' = [link EXCEPT ![t].expired = TRUE]
  /\ UNCHANGED <<account, history, work, past, raced>>

(* The process of a handler dies between two awaits.                       *)
Dies(h) ==
  /\ ~WorkAt(h, "idle")
  /\ WorkEnds(h)
  /\ UNCHANGED <<account, history, link, past, raced>>

CredentialsNext ==
  \/ \E h \in Handlers :
       \/ Register(h) \/ CreateUser(h) \/ RequestPasswordReset(h) \/ ResendVerification(h)
       \/ RevokeUnusedForUser(h) \/ CreateLink(h) \/ Deliver(h)
       \/ \E t \in Links : OpenVerification(h, t) \/ \E p \in Passwords : OpenReset(h, t, p)
       \/ LoadForVerification(h) \/ VerifyEmail(h) \/ LoadForReset(h)
       \/ \E p \in Passwords : ChangePassword(h, p)
       \/ AssertPasswordNotReused(h) \/ UpdatePassword(h) \/ TrimToLimit(h) \/ Dies(h)
  \/ SetActive
  \/ \E t \in Links : LinkExpires(t)

CredentialsSpec == CredentialsInit /\ [][CredentialsNext]_credentialVars

----
(* A link is worth something only until the next of its kind: when one is  *)
(* there, those that its issuer found are marked used, however requests    *)
(* overlap and die. One that lives beside a newer one was inserted after   *)
(* the newer's issuer had revoked, by a request that overlapped with it.   *)
(* (issueToken, issueResetToken revoke before they insert.)                *)
LinksSupersede ==
  \A s, t \in Links :
    link[s].kind = link[t].kind /\ s < t /\ ~link[s].used => s > link[t].since

(* A link serves those that found it unused, and nobody who comes later:   *)
(* once it is marked used, by a confirmation or because a newer one was    *)
(* asked for, its uses and the confirmations still under way are no more   *)
(* than those that had it open then. So it works once unless confirmations *)
(* of it overlap; those that do all hash and write (updatePassword does not*)
(* look at the link again).                                                *)
LinksServeHolders ==
  \A t \in Links : IF link[t].used
                    THEN link[t].uses + Cardinality(Confirming(t)) <= link[t].held
                    ELSE link[t].uses = 0

LinksAreSpent == LinksSupersede /\ LinksServeHolders

(* "You cannot reuse a recent password": as long as no two password updates*)
(* have overlapped, the account never has the password it had before, or   *)
(* one of the HistoryCount before that, also when a handler died before it *)
(* trimmed the history.                                                    *)
Recent(n) == ToSet(SubSeq(past, 1, IF Len(past) < n THEN Len(past) ELSE n))

NoRecentPassword == ~raced => account.passwordHash \notin Recent(HistoryCount + 1)
====
