---- MODULE DealerReview ----
(***************************************************************************)
(* The verification of one dealer: auth-user-service decides, admin-service*)
(* records the decision and tells the dealer, who may try again after a    *)
(* rejection. Requests of several administrators and of the dealer's own   *)
(* tabs interleave at every await and every call between services.         *)
(*                                                                         *)
(*   profile   verification_status of the row of auth.dealer_profiles      *)
(*   review    where each request of an administrator stands               *)
(*   resubmission  where each of the dealer's requests stands              *)
(*   trail     rows of the audit log: the decisions recorded               *)
(*   notice    idempotency keys for which notification-service has an event*)
(*   decided, made   history variables: decisions written since the last   *)
(*             submission, and decisions ever written, with the number of  *)
(*             answers that were lost on the way back                      *)
(***************************************************************************)
EXTENDS Naturals, Sequences, FiniteSets

CONSTANTS
  Admins,          \* requests of administrators that may be under way at once
  DealerTabs,            \* requests of the dealer that may be under way at once
  MaxDecisions     \* bound on decisions

ASSUME DealerReviewAssumption ==
  IsFiniteSet(Admins) /\ IsFiniteSet(DealerTabs) /\ MaxDecisions \in Nat

VARIABLES profile, review, resubmission, trail, notice, decided, made

dealerVars == <<profile, review, resubmission, trail, notice, decided, made>>

VerificationStatus == {"PENDING", "VERIFIED", "REJECTED"}
Decision           == {"VERIFIED", "REJECTED"}

Review == [pc : {"idle", "findAdmin", "decide", "answer", "append", "notify"},
           decision : Decision]

DealerTypeOK ==
  /\ profile \in VerificationStatus
  /\ review \in [Admins -> Review]
  /\ resubmission \in [DealerTabs -> {"idle", "save"}]
  /\ trail \in Seq(Decision) /\ notice \subseteq Decision
  /\ decided \in Nat /\ made \in [Decision \cup {"lost"} -> Nat]

IdleReview == [pc |-> "idle", decision |-> "VERIFIED"]

DealerInit ==
  /\ profile = "PENDING"
  /\ review = [a \in Admins |-> IdleReview]
  /\ resubmission = [t \in DealerTabs |-> "idle"]
  /\ trail = <<>> /\ notice = {}
  /\ decided = 0 /\ made = [d \in Decision \cup {"lost"} |-> 0]

ReviewAt(a, pc)   == review[a].pc = pc
ReviewGoto(a, pc) == review' = [review EXCEPT ![a].pc = pc]
ReviewEnds(a)     == review' = [review EXCEPT ![a] = IdleReview]

(* decideVerification: the profile must be PENDING when it is read, ...    *)
FindProfile(a, decision) ==
  /\ ReviewAt(a, "idle")
  /\ profile = "PENDING"
  /\ review' = [review EXCEPT ![a] = [pc |-> "findAdmin", decision |-> decision]]
  /\ UNCHANGED <<profile, resubmission, trail, notice, decided, made>>

(* ... the caller must be an administrator: one that is not, or no longer, *)
(* is refused, ...                                                         *)
FindAdmin(a) ==
  /\ ReviewAt(a, "findAdmin")
  /\ ReviewGoto(a, "decide") \/ ReviewEnds(a)
  /\ UNCHANGED <<profile, resubmission, trail, notice, decided, made>>

(* ... and the transaction updates the row whatever it says by then.       *)
DecideVerification(a) ==
  LET d == review[a].decision IN
  /\ ReviewAt(a, "decide")
  /\ made["VERIFIED"] + made["REJECTED"] < MaxDecisions
  /\ profile' = d
  /\ decided' = decided + 1
  /\ made' = [made EXCEPT ![d] = @ + 1]
  /\ ReviewGoto(a, "answer")
  /\ UNCHANGED <<resubmission, trail, notice>>

(* AuthInternalClient.post: the answer arrives, or the request fails with a*)
(* 502 although the decision stands.                                       *)
AuthAnswers(a) ==
  /\ ReviewAt(a, "answer")
  /\ ReviewGoto(a, "append")
  /\ UNCHANGED <<profile, resubmission, trail, notice, decided, made>>

AuthAnswerLost(a) ==
  /\ ReviewAt(a, "answer")
  /\ made' = [made EXCEPT !["lost"] = @ + 1]
  /\ ReviewEnds(a)
  /\ UNCHANGED <<profile, resubmission, trail, notice, decided>>

(* approveDealer, rejectDealer: auditLogs.append, which may fail, ...      *)
AppendAudit(a) ==
  /\ ReviewAt(a, "append")
  /\ \/ /\ trail' = Append(trail, review[a].decision)
        /\ ReviewGoto(a, "notify")
        /\ UNCHANGED made
     \/ /\ made' = [made EXCEPT !["lost"] = @ + 1]
        /\ ReviewEnds(a)
        /\ UNCHANGED trail
  /\ UNCHANGED <<profile, resubmission, notice, decided>>

(* ... and then the event, under a key that is the same for every rejection*)
(* of the dealer. A failure is logged.                                     *)
Emit(a) ==
  /\ ReviewAt(a, "notify")
  /\ \/ notice' = notice \cup {review[a].decision}
     \/ UNCHANGED notice
  /\ ReviewEnds(a)
  /\ UNCHANGED <<profile, resubmission, trail, decided, made>>

(* resubmit: the profile must be REJECTED when it is read; the update then *)
(* sets it to PENDING.                                                     *)
FindRejected(t) ==
  /\ resubmission[t] = "idle"
  /\ profile = "REJECTED"
  /\ resubmission' = [resubmission EXCEPT ![t] = "save"]
  /\ UNCHANGED <<profile, review, trail, notice, decided, made>>

SaveResubmission(t) ==
  /\ resubmission[t] = "save"
  /\ profile' = "PENDING"
  /\ decided' = 0
  /\ resubmission' = [resubmission EXCEPT ![t] = "idle"]
  /\ UNCHANGED <<review, trail, notice, made>>

DealerNext ==
  \/ \E a \in Admins :
       \/ \E d \in Decision : FindProfile(a, d)
       \/ FindAdmin(a) \/ DecideVerification(a) \/ AuthAnswers(a) \/ AuthAnswerLost(a)
       \/ AppendAudit(a) \/ Emit(a)
  \/ \E t \in DealerTabs : FindRejected(t) \/ SaveResubmission(t)

DealerSpec == DealerInit /\ [][DealerNext]_dealerVars

----
Deciding(a)     == review[a].pc \in {"findAdmin", "decide"}
Resubmitting(t) == resubmission[t] = "save"

(* decideVerification checks before its transaction: a submission may be   *)
(* decided more than once, and an administrator may decide on one that was *)
(* never read. Still no submission takes more decisions than requests can  *)
(* be under way.                                                           *)
DecisionsPerSubmission ==
  decided + Cardinality({a \in Admins : Deciding(a)})
    <= Cardinality(Admins)

(* "an already VERIFIED dealer ... is never silently sent back to PENDING":*)
(* once no request that read an earlier status is under way, VERIFIED is   *)
(* final.                                                                  *)
SettledVerified ==
  /\ profile = "VERIFIED"
  /\ \A a \in Admins : ~Deciding(a)
  /\ \A t \in DealerTabs : ~Resubmitting(t)

VerifiedStays == [][SettledVerified => SettledVerified']_dealerVars

(* The dealer is told nothing the audit trail does not show, and the trail *)
(* shows no decision that was not made; what it misses are decisions whose *)
(* answer was lost or whose row could not be written.                      *)
Recorded(d) == Cardinality({i \in 1 .. Len(trail) : trail[i] = d})

TrailIsTrue ==
  /\ \A d \in notice : Recorded(d) > 0
  /\ \A d \in Decision : Recorded(d) <= made[d]
  /\ Len(trail) + made["lost"]
       + Cardinality({a \in Admins : review[a].pc \in {"answer", "append"}})
       = made["VERIFIED"] + made["REJECTED"]

(* Decisions on a dealer are limited, final and on record (the three       *)
(* above).                                                                 *)
DecisionsStand == [](DecisionsPerSubmission /\ TrailIsTrue) /\ VerifiedStays
====
