---- MODULE Notifications ----
(***************************************************************************)
(* notification-service: the delivery of ONE event, that is of one         *)
(* idempotency key, by the handlers that take it in and the sweepers that  *)
(* retry it. Each worker is a flow of its own process; between two steps   *)
(* it goes on with the row as it read it.                                  *)
(*                                                                         *)
(*   row       the row of notification.notifications; due is its           *)
(*             next_attempt_at: "null", in the "future" or "past"          *)
(*   worker    where each worker stands, and its copy of the row           *)
(*   message   the event's message in the SQS queue, or "direct": no       *)
(*             queue, the callers wait for handle                          *)
(*   present   the recipient's account exists                              *)
(*   received  deliveries of the event to handlers so far                  *)
(*   mails     mails the recipient was sent                                *)
(*   lost      sends whose success was not reported                        *)
(*   mishaps   faults that may still happen                                *)
(***************************************************************************)
EXTENDS Naturals

CONSTANTS
  Handlers,              \* intake workers: SQS consumers, or HTTP requests
  Sweepers,              \* processes that sweep
  Intakes,               \* "queue" (SqsConsumer), "sync" (no queue configured)
  MAX_DELIVERY_ATTEMPTS,
  Mortal,                \* workers whose process may die
  Faults,                \* other fault classes to explore
  MaxMishaps,            \* bound on the faults of a behaviour
  MaxReceives            \* bound on redelivery: receives of the message

Workers == Handlers \cup Sweepers

FaultClasses == {"visibility", "answer", "db", "recipient"}

ASSUME NotificationsAssumption ==
  /\ Handlers \cap Sweepers = {}
  /\ Intakes \subseteq {"queue", "sync"}
  /\ MAX_DELIVERY_ATTEMPTS \in Nat \ {0}
  /\ Mortal \subseteq Workers
  /\ Faults \subseteq FaultClasses
  /\ MaxMishaps \in Nat
  /\ MaxReceives \in Nat

VARIABLES row, worker, message, present, received, mails, lost, mishaps

vars == <<row, worker, message, present, received, mails, lost, mishaps>>

RowStatus == {"NONE", "PENDING", "SENT", "FAILED"}

(* Budgeted: the last attempt of the budget is recorded by FAILED alone.   *)
Attempts == 0 .. MAX_DELIVERY_ATTEMPTS - 1

Row == [status : RowStatus, attempts : Attempts, due : {"null", "future", "past"}]

WorkerPc == {"idle", "find", "insert", "deliver", "send", "resend", "markSent",
             "record", "markFailed", "delete", "returned"}

(* The row never records an attempt beyond the budget, and every worker    *)
(* carries a row as it could have read it.                                 *)
TypeOK ==
  /\ row \in Row
  /\ worker \in [Workers -> [pc : WorkerPc, status : RowStatus, attempts : Attempts]]
  /\ message \in {"none", "visible", "hidden", "deleted", "direct"}
  /\ present \in BOOLEAN
  /\ received \in Nat /\ mails \in Nat /\ lost \in Nat
  /\ mishaps \in 0 .. MaxMishaps

IdleWorker == [pc |-> "idle", status |-> "NONE", attempts |-> 0]

Init ==
  /\ row = [status |-> "NONE", attempts |-> 0, due |-> "null"]
  /\ worker = [w \in Workers |-> IdleWorker]
  /\ message \in {IF intake = "queue" THEN "none" ELSE "direct" : intake \in Intakes}
  /\ present = TRUE
  /\ received = 0 /\ mails = 0 /\ lost = 0
  /\ mishaps = MaxMishaps

At(w, pc)   == worker[w].pc = pc
Goto(w, pc) == worker' = [worker EXCEPT ![w].pc = pc]

(* The worker goes on with its own copy of the row.                        *)
Reads(w, pc) ==
  worker' = [worker EXCEPT
    ![w] = [pc |-> pc, status |-> row.status, attempts |-> row.attempts]]

(* deliver has returned: a consumer deletes the message, a request answers,*)
(* a sweeper turns to its next row.                                        *)
Returns(w) ==
  worker' = [worker EXCEPT ![w] = [IdleWorker EXCEPT !.pc =
    IF w \in Sweepers THEN "idle"
    ELSE IF message = "direct" THEN "returned" ELSE "delete"]]

(* It has thrown: the consumer leaves the message where it is.             *)
Throws(w) ==
  worker' = [worker EXCEPT ![w] = [IdleWorker EXCEPT !.pc =
    IF w \in Handlers /\ message = "direct" THEN "returned" ELSE "idle"]]

MishapHappens == mishaps > 0 /\ mishaps' = mishaps - 1

Mishap(class) == class \in Faults /\ MishapHappens

----
(* The way in.                                                             *)

(* A service publishes the event to the queue.                             *)
Publish ==
  /\ message = "none"
  /\ message' = "visible"
  /\ UNCHANGED <<row, worker, present, received, mails, lost, mishaps>>

Receive(h) ==
  /\ At(h, "idle")
  /\ message = "visible"
  /\ message' = "hidden"
  /\ received' = received + 1
  /\ Goto(h, "find")
  /\ UNCHANGED <<row, present, mails, lost, mishaps>>

(* createEvent without a queue: the caller, or its retry, waits for handle.*)
Call(h) ==
  /\ message = "direct"
  /\ At(h, "idle")
  /\ received' = received + 1
  /\ Goto(h, "find")
  /\ UNCHANGED <<row, message, present, mails, lost, mishaps>>

(* The consumer that hid the message is done with it, one way or another.  *)
NobodyHandles == \A h \in Handlers : At(h, "idle")

Redeliver ==
  /\ message = "hidden"
  /\ NobodyHandles
  /\ received < MaxReceives
  /\ message' = "visible"
  /\ UNCHANGED <<row, worker, present, received, mails, lost, mishaps>>

(* 60 seconds were not enough, or the queue delivers twice anyway.         *)
RedeliverEarly ==
  /\ message = "hidden"
  /\ ~NobodyHandles
  /\ received < MaxReceives
  /\ Mishap("visibility")
  /\ message' = "visible"
  /\ UNCHANGED <<row, worker, present, received, mails, lost>>

DeleteMessage(h) ==
  /\ At(h, "delete")
  /\ message' = "deleted"
  /\ Goto(h, "idle")
  /\ UNCHANGED <<row, present, received, mails, lost, mishaps>>

----
(* NotificationEventHandler.handle.                                        *)

FindByKey(h) ==
  /\ At(h, "find")
  /\ CASE row.status = "NONE" -> Goto(h, "insert")
       [] row.status = "SENT" -> Returns(h)
       [] OTHER               -> Reads(h, "deliver")
  /\ UNCHANGED <<row, message, present, received, mails, lost, mishaps>>

(* createPending; who loses the race for the key takes the winner's row.   *)
InsertPending(h) ==
  /\ At(h, "insert")
  /\ present
  /\ IF row.status = "NONE"
     THEN /\ row' = [status |-> "PENDING", attempts |-> 0, due |-> "null"]
          /\ worker' = [worker EXCEPT
               ![h] = [pc |-> "deliver", status |-> "PENDING", attempts |-> 0]]
     ELSE Reads(h, "deliver") /\ UNCHANGED row
  /\ UNCHANGED <<message, present, received, mails, lost, mishaps>>

NoRecipient(h) ==
  /\ At(h, "insert")
  /\ ~present
  /\ Throws(h)
  /\ UNCHANGED <<row, message, present, received, mails, lost, mishaps>>

----
(* deliver: one attempt, on intake and from the sweep.                     *)

StartDelivery(w) ==
  /\ At(w, "deliver")
  /\ IF worker[w].status = "SENT" THEN Returns(w)
     ELSE Goto(w, IF present THEN "send" ELSE "markFailed")
  /\ UNCHANGED <<row, message, present, received, mails, lost, mishaps>>

(* The adapter tries twice; between its tries nothing is to be seen but a  *)
(* mail whose answer came too late.                                        *)
Sending(w) == worker[w].pc \in {"send", "resend"}

SendSucceeds(w) ==
  /\ Sending(w)
  /\ mails' = mails + 1
  /\ Goto(w, "markSent")
  /\ UNCHANGED <<row, message, present, received, lost, mishaps>>

(* Mutant of SendUnavailable: the error is swallowed by the adapter.       *)
SendSwallowsError(w) ==
  /\ Sending(w)
  /\ Goto(w, "markSent")
  /\ UNCHANGED <<row, message, present, received, mails, lost, mishaps>>

(* SesUnavailableError, the one error the adapter throws.                  *)
SendUnavailable(w) ==
  /\ Sending(w)
  /\ Goto(w, "record")
  /\ UNCHANGED <<row, message, present, received, mails, lost, mishaps>>

(* The adapter's timer wins the race against a send that goes through.     *)
SendAnswerLost(w) ==
  /\ Sending(w)
  /\ Mishap("answer")
  /\ mails' = mails + 1
  /\ lost' = lost + 1
  /\ Goto(w, IF At(w, "send") THEN "resend" ELSE "record")
  /\ UNCHANGED <<row, message, present, received>>

MarkSent(w) ==
  /\ At(w, "markSent")
  /\ row' = [row EXCEPT !.status = "SENT", !.due = "null"]
  /\ Returns(w)
  /\ UNCHANGED <<message, present, received, mails, lost, mishaps>>

(* markSent shares its try block with the send: its failure is taken for a *)
(* permanent delivery failure.                                             *)
MarkSentFails(w) ==
  /\ At(w, "markSent")
  /\ Mishap("db")
  /\ Goto(w, "markFailed")
  /\ UNCHANGED <<row, message, present, received, mails, lost>>

MarkFailed(w) ==
  /\ At(w, "markFailed")
  /\ row' = [row EXCEPT !.status = "FAILED", !.due = "null"]
  /\ Throws(w)
  /\ UNCHANGED <<message, present, received, mails, lost, mishaps>>

(* Mutants of RecordTransientFailure: one attempt too many; no next        *)
(* attempt is scheduled.                                                   *)
RecordOneAttemptMore(w) ==
  LET attempt == worker[w].attempts + 1 IN
  /\ At(w, "record")
  /\ row' = IF attempt > MAX_DELIVERY_ATTEMPTS
            THEN [row EXCEPT !.status = "FAILED", !.due = "null"]
            ELSE [status |-> "PENDING", attempts |-> attempt, due |-> "future"]
  /\ Returns(w)
  /\ UNCHANGED <<message, present, received, mails, lost, mishaps>>

RecordUnscheduled(w) ==
  LET attempt == worker[w].attempts + 1 IN
  /\ At(w, "record")
  /\ row' = IF attempt >= MAX_DELIVERY_ATTEMPTS
            THEN [row EXCEPT !.status = "FAILED", !.due = "null"]
            ELSE [row EXCEPT !.attempts = attempt]
  /\ Returns(w)
  /\ UNCHANGED <<message, present, received, mails, lost, mishaps>>

(* recordTransientFailure: scheduleRetry, or the budget is used up.        *)
RecordTransientFailure(w) ==
  LET attempt == worker[w].attempts + 1 IN
  /\ At(w, "record")
  /\ row' = IF attempt >= MAX_DELIVERY_ATTEMPTS
            THEN [row EXCEPT !.status = "FAILED", !.due = "null"]
            ELSE [status |-> "PENDING", attempts |-> attempt, due |-> "future"]
  /\ Returns(w)
  /\ UNCHANGED <<message, present, received, mails, lost, mishaps>>

----
(* The sweeper, time, and the environment.                                 *)

BackoffElapses ==
  /\ row.due = "future"
  /\ row' = [row EXCEPT !.due = "past"]
  /\ UNCHANGED <<worker, message, present, received, mails, lost, mishaps>>

(* Mutant of ClaimDueRetry: the claim leaves next_attempt_at in place.     *)
ReadDueRetry(s) ==
  /\ At(s, "idle")
  /\ row.status = "PENDING"
  /\ row.due = "past"
  /\ Reads(s, "deliver")
  /\ UNCHANGED <<row, message, present, received, mails, lost, mishaps>>

(* claimDueRetries: in one transaction the due row is read and its         *)
(* next_attempt_at cleared.                                                *)
ClaimDueRetry(s) ==
  /\ At(s, "idle")
  /\ row.status = "PENDING"
  /\ row.due = "past"
  /\ row' = [row EXCEPT !.due = "null"]
  /\ Reads(s, "deliver")
  /\ UNCHANGED <<message, present, received, mails, lost, mishaps>>

(* The process dies and is back at once, or a statement rejects: handler   *)
(* or sweep goes no further with this row.                                 *)
Crash(w) ==
  /\ w \in Mortal
  /\ ~At(w, "idle") /\ ~At(w, "returned")
  /\ MishapHappens
  /\ Throws(w)
  /\ UNCHANGED <<row, message, present, received, mails, lost>>

RecipientLeaves ==
  /\ present
  /\ Mishap("recipient")
  /\ present' = FALSE
  /\ UNCHANGED <<row, worker, message, received, mails, lost>>

HandlerStep(h) ==
  Receive(h) \/ Call(h) \/ FindByKey(h) \/ InsertPending(h) \/ NoRecipient(h)
    \/ DeleteMessage(h)

DeliverStep(w) ==
  \/ StartDelivery(w) \/ SendSucceeds(w) \/ SendUnavailable(w)
  \/ MarkSent(w) \/ MarkFailed(w) \/ RecordTransientFailure(w)

Environment ==
  \/ RedeliverEarly \/ RecipientLeaves
  \/ \E w \in Workers : SendAnswerLost(w) \/ MarkSentFails(w) \/ Crash(w)

Next ==
  \/ Publish \/ Redeliver \/ BackoffElapses
  \/ \E h \in Handlers : HandlerStep(h)
  \/ \E w \in Workers : DeliverStep(w)
  \/ \E s \in Sweepers : ClaimDueRetry(s)
  \/ Environment

Spec == Init /\ [][Next]_vars

(* Workers go on, the queue redelivers, time passes and some process       *)
(* sweeps; callers and faults are free.                                    *)
Fairness ==
  /\ \A h \in Handlers : WF_vars(HandlerStep(h) /\ ~Call(h))
  /\ \A w \in Workers : WF_vars(DeliverStep(w))
  /\ WF_vars(Redeliver)
  /\ WF_vars(BackoffElapses)
  /\ WF_vars(\E s \in Sweepers : ClaimDueRetry(s))

FairSpec == Spec /\ Fairness

----
(* A delivery of the event leads to one mail at most, however often it is  *)
(* retried and by however many sweepers; only a send that was reported     *)
(* failed although it went through costs another one.                      *)
EachDeliveryMailsOnce == mails <= received + lost

(* The status page does not lie: what is marked SENT has been mailed.      *)
SentMeansMailed == row.status = "SENT" => mails > 0

(* "The event is scheduled, not lost": a published event ends SENT or      *)
(* FAILED, unless its recipient leaves first.                              *)
PublishedIsDecided ==
  (message = "visible") ~> (row.status \in {"SENT", "FAILED"} \/ ~present)

----
(* "A caller that times out and retries cannot cause a double send"        *)
(* (createEvent).                                                          *)
NoDoubleSend == mails <= 1
====
