---- MODULE NotificationsProofs ----
(***************************************************************************)
(* Proofs about Notifications, for every set of handlers and sweepers, way *)
(* in, retry budget, fault class and number of redeliveries: TypeCorrect;  *)
(* SentIsTrue; NobodyMailsTwice.                                           *)
(*                                                                         *)
(* NobodyMailsTwice counts rights to mail. A received delivery gives its   *)
(* handler one; a transient failure hands it to the row, whose             *)
(* next_attempt_at is then set; a claim hands it to the sweeper; a mail    *)
(* uses it up. A claim that left next_attempt_at in place, or a retry      *)
(* scheduled beside a mail that was sent, would make two of one.           *)
(***************************************************************************)
EXTENDS Notifications, FiniteSetTheorems, TLAPS

WorkerState == [pc : WorkerPc, status : RowStatus, attempts : Attempts]

(* A worker that moves on with its copy of the row keeps its shape.        *)
LEMMA GotoTyped ==
  ASSUME TypeOK, NEW w \in Workers, NEW pc \in WorkerPc, Goto(w, pc)
  PROVE  worker' \in [Workers -> WorkerState]
BY DEF TypeOK, Goto, WorkerState

(* So does one that takes the row as it is ...                             *)
LEMMA ReadsTyped ==
  ASSUME TypeOK, NEW w \in Workers, NEW pc \in WorkerPc, Reads(w, pc)
  PROVE  worker' \in [Workers -> WorkerState]
<1>1. [pc |-> pc, status |-> row.status, attempts |-> row.attempts] \in WorkerState
  BY DEF TypeOK, Row, WorkerState
<1>. QED
  BY <1>1 DEF TypeOK, Reads, WorkerState

(* A fresh worker is of the right shape: the budget allows one attempt.    *)
LEMMA IdleTyped == \A pc \in WorkerPc : [IdleWorker EXCEPT !.pc = pc] \in WorkerState
BY NotificationsAssumption DEF IdleWorker, WorkerState, RowStatus, Attempts

(* ... and one that has returned or thrown.                                *)
LEMMA EndsTyped ==
  ASSUME TypeOK, NEW w \in Workers, Returns(w) \/ Throws(w)
  PROVE  worker' \in [Workers -> WorkerState]
<1>1. PICK pc \in WorkerPc : worker' = [worker EXCEPT ![w] = [IdleWorker EXCEPT !.pc = pc]]
  BY DEF Returns, Throws, WorkerPc
<1>. QED
  BY <1>1, IdleTyped DEF TypeOK, WorkerState

(* The handler that loses the race for the key, and the one that wins it.  *)
LEMMA InsertTyped ==
  ASSUME TypeOK, NEW h \in Handlers, InsertPending(h)
  PROVE  row' \in Row /\ worker' \in [Workers -> WorkerState]
<1>0. h \in Workers
  BY DEF Workers
<1>1. CASE row.status = "NONE"
  <2>1. 0 \in Attempts
    BY NotificationsAssumption DEF Attempts
  <2>2. [pc |-> "deliver", status |-> "PENDING", attempts |-> 0] \in WorkerState
    BY <2>1 DEF WorkerState, WorkerPc, RowStatus
  <2>. QED
    BY <1>0, <1>1, <2>1, <2>2 DEF InsertPending, Row, RowStatus, TypeOK, WorkerState
<1>2. CASE row.status # "NONE"
  BY <1>0, <1>2, ReadsTyped DEF InsertPending, WorkerPc, TypeOK
<1>. QED
  BY <1>1, <1>2

(* An attempt recorded is one within the budget.                           *)
LEMMA RecordTyped ==
  ASSUME TypeOK, NEW w \in Workers, RecordTransientFailure(w)
  PROVE  row' \in Row
<1>. DEFINE attempt == worker[w].attempts + 1
<1>1. attempt \in Nat /\ MAX_DELIVERY_ATTEMPTS \in Nat
  BY NotificationsAssumption DEF TypeOK, Attempts
<1>2. CASE attempt >= MAX_DELIVERY_ATTEMPTS
  BY <1>2 DEF RecordTransientFailure, TypeOK, Row, RowStatus
<1>3. CASE ~(attempt >= MAX_DELIVERY_ATTEMPTS)
  <2>1. attempt \in Attempts
    BY <1>1, <1>3 DEF Attempts
  <2>. QED
    BY <1>3, <2>1 DEF RecordTransientFailure, Row, RowStatus
<1>. QED
  BY <1>2, <1>3

(* No fault takes more mishaps than there are.                             *)
LEMMA MishapTyped ==
  ASSUME TypeOK, MishapHappens
  PROVE  mishaps' \in 0 .. MaxMishaps
BY NotificationsAssumption DEF TypeOK, MishapHappens

(* The initial state has its types.                                        *)
LEMMA InitTyped == Init => TypeOK
<1> SUFFICES ASSUME Init PROVE TypeOK
  OBVIOUS
<1>1. 0 \in Attempts /\ mishaps \in 0 .. MaxMishaps
  BY NotificationsAssumption DEF Init, Attempts
<1>. QED
  BY <1>1 DEF Init, TypeOK, Row, RowStatus, WorkerPc, IdleWorker

(* Every step of a handler on its way in keeps them ...                    *)
LEMMA HandlerTyped ==
  ASSUME TypeOK, NEW h \in Handlers, HandlerStep(h)
  PROVE  TypeOK'
<1>0. h \in Workers /\ {"find", "insert", "deliver", "idle"} \subseteq WorkerPc
  BY DEF Workers, WorkerPc
<1>1. CASE Receive(h)
  BY <1>0, <1>1, GotoTyped DEF Receive, TypeOK, WorkerState
<1>2. CASE Call(h)
  BY <1>0, <1>2, GotoTyped DEF Call, TypeOK, WorkerState
<1>3. CASE FindByKey(h)
  <2>1. worker' \in [Workers -> WorkerState]
    BY <1>0, <1>3, GotoTyped, ReadsTyped, EndsTyped DEF FindByKey
  <2>. QED
    BY <1>3, <2>1 DEF FindByKey, TypeOK, WorkerState
<1>4. CASE InsertPending(h)
  BY <1>4, InsertTyped DEF InsertPending, TypeOK, WorkerState
<1>5. CASE NoRecipient(h)
  BY <1>0, <1>5, EndsTyped DEF NoRecipient, TypeOK, WorkerState
<1>6. CASE DeleteMessage(h)
  BY <1>0, <1>6, GotoTyped DEF DeleteMessage, TypeOK, WorkerState
<1>. QED
  BY <1>1, <1>2, <1>3, <1>4, <1>5, <1>6 DEF HandlerStep

(* ... and so does every step of an attempt ...                            *)
LEMMA DeliverTyped ==
  ASSUME TypeOK, NEW w \in Workers, DeliverStep(w)
  PROVE  TypeOK'
<1>0. {"send", "markFailed", "markSent", "record"} \subseteq WorkerPc
  BY DEF WorkerPc
<1>1. CASE StartDelivery(w)
  <2>1. worker' \in [Workers -> WorkerState]
    BY <1>0, <1>1, GotoTyped, EndsTyped DEF StartDelivery
  <2>. QED
    BY <1>1, <2>1 DEF StartDelivery, TypeOK, WorkerState
<1>2. CASE SendSucceeds(w)
  BY <1>0, <1>2, GotoTyped DEF SendSucceeds, TypeOK, WorkerState
<1>3. CASE SendUnavailable(w)
  BY <1>0, <1>3, GotoTyped DEF SendUnavailable, TypeOK, WorkerState
<1>4. CASE MarkSent(w)
  BY <1>4, EndsTyped DEF MarkSent, TypeOK, WorkerState, Row, RowStatus
<1>5. CASE MarkFailed(w)
  BY <1>5, EndsTyped DEF MarkFailed, TypeOK, WorkerState, Row, RowStatus
<1>6. CASE RecordTransientFailure(w)
  BY <1>6, EndsTyped, RecordTyped DEF RecordTransientFailure, TypeOK, WorkerState
<1>. QED
  BY <1>1, <1>2, <1>3, <1>4, <1>5, <1>6 DEF DeliverStep

(* ... a fault, or whatever happens around the service.                    *)
LEMMA EnvironmentTyped ==
  ASSUME TypeOK, Environment
  PROVE  TypeOK'
<1>1. CASE RedeliverEarly
  BY <1>1, MishapTyped DEF RedeliverEarly, Mishap, TypeOK
<1>2. CASE RecipientLeaves
  BY <1>2, MishapTyped DEF RecipientLeaves, Mishap, TypeOK
<1>3. ASSUME NEW w \in Workers, SendAnswerLost(w) PROVE TypeOK'
  <2>1. worker' \in [Workers -> WorkerState]
    BY <1>3, GotoTyped DEF SendAnswerLost, WorkerPc
  <2>. QED
    BY <1>3, <2>1, MishapTyped DEF SendAnswerLost, Mishap, TypeOK, WorkerState
<1>4. ASSUME NEW w \in Workers, MarkSentFails(w) PROVE TypeOK'
  <2>1. worker' \in [Workers -> WorkerState]
    BY <1>4, GotoTyped DEF MarkSentFails, WorkerPc
  <2>. QED
    BY <1>4, <2>1, MishapTyped DEF MarkSentFails, Mishap, TypeOK, WorkerState
<1>5. ASSUME NEW w \in Workers, Crash(w) PROVE TypeOK'
  BY <1>5, EndsTyped, MishapTyped DEF Crash, TypeOK, WorkerState
<1>. QED
  BY <1>1, <1>2, <1>3, <1>4, <1>5 DEF Environment

(* A claim hands the sweeper the row as it is.                             *)
LEMMA ClaimTyped ==
  ASSUME TypeOK, NEW s \in Sweepers, ClaimDueRetry(s)
  PROVE  TypeOK'
<1>1. worker' \in [Workers -> WorkerState]
  BY ReadsTyped DEF ClaimDueRetry, Workers, WorkerPc
<1>. QED
  BY <1>1 DEF ClaimDueRetry, TypeOK, WorkerState, Row

(* The state keeps its types, and no attempt beyond the budget is ever     *)
(* recorded, by whichever worker and from however old a copy of the row.   *)
THEOREM TypeCorrect == Spec => []TypeOK
<1>1. Init => TypeOK
  BY InitTyped
<1>2. TypeOK /\ [Next]_vars => TypeOK'
  <2> SUFFICES ASSUME TypeOK, [Next]_vars PROVE TypeOK'
    OBVIOUS
  <2>1. CASE Publish \/ Redeliver
    BY <2>1 DEF Publish, Redeliver, TypeOK
  <2>2. CASE BackoffElapses
    BY <2>2 DEF BackoffElapses, TypeOK, Row
  <2>3. CASE UNCHANGED vars
    BY <2>3 DEF vars, TypeOK
  <2>. QED
    BY <2>1, <2>2, <2>3, HandlerTyped, DeliverTyped, ClaimTyped, EnvironmentTyped DEF Next
<1>. QED
  BY <1>1, <1>2, PTL DEF Spec

----
(* SentMeansMailed: a worker about to write SENT has mailed.               *)

SentInv ==
  /\ SentMeansMailed
  /\ \A w \in Workers : At(w, "markSent") => mails > 0

(* A worker's move to another place leaves the others where they are.      *)
LEMMA OthersStay ==
  ASSUME TypeOK, NEW w \in Workers, NEW pc \in WorkerPc,
         Goto(w, pc) \/ Reads(w, pc)
  PROVE  \A v \in Workers : worker'[v].pc = IF v = w THEN pc ELSE worker[v].pc
BY DEF TypeOK, Goto, Reads

(* One that has returned or thrown stands at none of the steps that mail   *)
(* or write the row.                                                       *)
LEMMA EndsStay ==
  ASSUME TypeOK, NEW w \in Workers, Returns(w) \/ Throws(w)
  PROVE  \E pc \in {"idle", "returned", "delete"} :
           \A v \in Workers : worker'[v].pc = IF v = w THEN pc ELSE worker[v].pc
<1>1. PICK pc \in {"idle", "returned", "delete"} :
        worker' = [worker EXCEPT ![w] = [IdleWorker EXCEPT !.pc = pc]]
  BY DEF Returns, Throws
<1>. QED
  BY <1>1 DEF TypeOK, IdleWorker

(* Where no worker comes to stand at markSent and the row does not become  *)
(* SENT, nothing is said that was not said before.                         *)
LEMMA NothingIsSaid ==
  ASSUME TypeOK, SentInv, row'.status = "SENT" => row.status = "SENT",
         \A v \in Workers : worker'[v].pc = "markSent" => worker[v].pc = "markSent",
         mails' \in {mails, mails + 1}
  PROVE  SentInv'
<1>1. mails > 0 => mails' > 0
  BY DEF TypeOK
<1>. QED
  BY <1>1 DEF SentInv, SentMeansMailed, At

(* No handler on its way in says SENT ...                                  *)
LEMMA HandlerSays ==
  ASSUME TypeOK, SentInv, NEW h \in Handlers, HandlerStep(h)
  PROVE  SentInv'
<1>0. h \in Workers /\ {"find", "insert", "deliver", "idle"} \subseteq WorkerPc
  BY DEF Workers, WorkerPc
<1>1. CASE Receive(h)
  BY <1>0, <1>1, OthersStay, NothingIsSaid DEF Receive
<1>2. CASE Call(h)
  BY <1>0, <1>2, OthersStay, NothingIsSaid DEF Call
<1>3. CASE FindByKey(h)
  <2>1. \A v \in Workers : worker'[v].pc = "markSent" => worker[v].pc = "markSent"
    BY <1>0, <1>3, OthersStay, EndsStay DEF FindByKey
  <2>. QED
    BY <1>3, <2>1, NothingIsSaid DEF FindByKey
<1>4. CASE InsertPending(h)
  <2>1. \A v \in Workers : worker'[v].pc = "markSent" => worker[v].pc = "markSent"
    BY <1>0, <1>4, OthersStay DEF InsertPending, TypeOK
  <2>2. row'.status = "SENT" => row.status = "SENT"
    BY <1>4 DEF InsertPending
  <2>. QED
    BY <1>4, <2>1, <2>2, NothingIsSaid DEF InsertPending
<1>5. CASE NoRecipient(h)
  BY <1>0, <1>5, EndsStay, NothingIsSaid DEF NoRecipient
<1>6. CASE DeleteMessage(h)
  BY <1>0, <1>6, OthersStay, NothingIsSaid DEF DeleteMessage
<1>. QED
  BY <1>1, <1>2, <1>3, <1>4, <1>5, <1>6 DEF HandlerStep

(* ... an attempt says so after its mail ...                               *)
LEMMA DeliverSays ==
  ASSUME TypeOK, SentInv, NEW w \in Workers, DeliverStep(w)
  PROVE  SentInv'
<1>0. {"send", "markFailed", "markSent", "record"} \subseteq WorkerPc
  BY DEF WorkerPc
<1>1. CASE StartDelivery(w)
  <2>1. \A v \in Workers : worker'[v].pc = "markSent" => worker[v].pc = "markSent"
    BY <1>0, <1>1, OthersStay, EndsStay DEF StartDelivery
  <2>. QED
    BY <1>1, <2>1, NothingIsSaid DEF StartDelivery
<1>2. CASE SendSucceeds(w)
  <2>1. mails' > 0
    BY <1>2 DEF SendSucceeds, TypeOK
  <2>. QED
    BY <2>1 DEF SentInv, SentMeansMailed
<1>3. CASE SendUnavailable(w)
  BY <1>0, <1>3, OthersStay, NothingIsSaid DEF SendUnavailable
<1>4. CASE MarkSent(w)
  <2>1. mails' > 0
    BY <1>4 DEF MarkSent, SentInv
  <2>. QED
    BY <2>1 DEF SentInv, SentMeansMailed
<1>5. CASE MarkFailed(w)
  <2>1. row'.status # "SENT"
    BY <1>5 DEF MarkFailed, TypeOK, Row
  <2>. QED
    BY <1>5, <2>1, EndsStay, NothingIsSaid DEF MarkFailed
<1>6. CASE RecordTransientFailure(w)
  <2>1. row'.status # "SENT"
    BY <1>6 DEF RecordTransientFailure, TypeOK, Row
  <2>. QED
    BY <1>6, <2>1, EndsStay, NothingIsSaid DEF RecordTransientFailure
<1>. QED
  BY <1>1, <1>2, <1>3, <1>4, <1>5, <1>6 DEF DeliverStep

(* ... and no fault says it.                                               *)
LEMMA EnvironmentSays ==
  ASSUME TypeOK, SentInv, Environment
  PROVE  SentInv'
<1>0. {"markFailed", "resend", "record"} \subseteq WorkerPc
  BY DEF WorkerPc
<1>1. CASE RedeliverEarly \/ RecipientLeaves
  BY <1>1, NothingIsSaid DEF RedeliverEarly, RecipientLeaves
<1>2. ASSUME NEW w \in Workers, SendAnswerLost(w) PROVE SentInv'
  BY <1>0, <1>2, OthersStay, NothingIsSaid DEF SendAnswerLost
<1>3. ASSUME NEW w \in Workers, MarkSentFails(w) PROVE SentInv'
  BY <1>0, <1>3, OthersStay, NothingIsSaid DEF MarkSentFails
<1>4. ASSUME NEW w \in Workers, Crash(w) PROVE SentInv'
  BY <1>4, EndsStay, NothingIsSaid DEF Crash
<1>. QED
  BY <1>1, <1>2, <1>3, <1>4 DEF Environment

(* The status page does not lie: what is marked SENT has been mailed,      *)
(* whoever marks it and whatever it read before.                           *)
THEOREM SentIsTrue == Spec => []SentMeansMailed
<1>1. Init => SentInv
  BY DEF Init, SentInv, SentMeansMailed, At, IdleWorker
<1>2. TypeOK /\ SentInv /\ [Next]_vars => SentInv'
  <2> SUFFICES ASSUME TypeOK, SentInv, [Next]_vars PROVE SentInv'
    OBVIOUS
  <2>1. CASE Publish \/ Redeliver \/ BackoffElapses
    <3>1. row'.status = row.status
      BY <2>1 DEF Publish, Redeliver, BackoffElapses, TypeOK, Row
    <3>. QED
      BY <2>1, <3>1, NothingIsSaid DEF Publish, Redeliver, BackoffElapses
  <2>2. ASSUME NEW s \in Sweepers, ClaimDueRetry(s) PROVE SentInv'
    <3>0. s \in Workers /\ "deliver" \in WorkerPc
      BY DEF Workers, WorkerPc
    <3>1. row'.status = row.status
      BY <2>2 DEF ClaimDueRetry, TypeOK, Row
    <3>. QED
      BY <2>2, <3>0, <3>1, OthersStay, NothingIsSaid DEF ClaimDueRetry
  <2>3. CASE UNCHANGED vars
    BY <2>3, NothingIsSaid DEF vars
  <2>. QED
    BY <2>1, <2>2, <2>3, HandlerSays, DeliverSays, EnvironmentSays DEF Next
<1>3. SentInv => SentMeansMailed
  BY DEF SentInv
<1>. QED
  BY <1>1, <1>2, <1>3, TypeCorrect, PTL DEF Spec

----
(* EachDeliveryMailsOnce: the rights to mail are not multiplied.           *)

(* The places at which a worker has a right to mail still unused.          *)
Entitled == {"find", "insert", "deliver", "send", "resend", "record"}

Holders == {w \in Workers : worker[w].pc \in Entitled}

(* The right the row keeps for whoever claims it.                          *)
Scheduled == IF row.due = "null" THEN 0 ELSE 1

RightsInv ==
  /\ IsFiniteSet(Holders)
  /\ mails + Cardinality(Holders) + Scheduled <= received + lost

Moves(w, pc) ==
  \A v \in Workers : worker'[v].pc = IF v = w THEN pc ELSE worker[v].pc

Right(holds) == IF holds THEN 1 ELSE 0

(* A worker's move changes the number of holders by its own right.         *)
LEMMA HoldersMove ==
  ASSUME RightsInv, NEW w \in Workers, NEW pc, Moves(w, pc)
  PROVE  /\ IsFiniteSet(Holders')
         /\ Cardinality(Holders) \in Nat
         /\ Cardinality(Holders') =
              Cardinality(Holders) + Right(pc \in Entitled) - Right(w \in Holders)
<1>1. IsFiniteSet(Holders) /\ Cardinality(Holders) \in Nat
  BY FS_CardinalityType DEF RightsInv
<1>2. CASE pc \in Entitled
  <2>1. Holders' = Holders \cup {w}
    BY <1>2 DEF Moves, Holders
  <2>. QED
    BY <1>1, <1>2, <2>1, FS_AddElement DEF Right
<1>3. CASE pc \notin Entitled
  <2>1. Holders' = Holders \ {w}
    BY <1>3 DEF Moves, Holders
  <2>2. /\ IsFiniteSet(Holders \ {w})
        /\ Cardinality(Holders \ {w}) =
             IF w \in Holders THEN Cardinality(Holders) - 1 ELSE Cardinality(Holders)
    BY <1>1, FS_RemoveElement
  <2>3. Right(pc \in Entitled) = 0 /\ Right(w \in Holders) = IF w \in Holders THEN 1 ELSE 0
    BY <1>3 DEF Right
  <2>. HIDE DEF Holders
  <2>. QED
    BY <1>1, <2>1, <2>2, <2>3
<1>. QED
  BY <1>2, <1>3

(* So a step keeps the count whose worker pays for the mail it sends, for  *)
(* the retry it schedules and for the place it goes to.                    *)
LEMMA RightsPaid ==
  ASSUME TypeOK, TypeOK', RightsInv, NEW w \in Workers, NEW pc, Moves(w, pc),
         (mails' - mails) + (Scheduled' - Scheduled) + Right(pc \in Entitled)
           <= (received' - received) + (lost' - lost) + Right(w \in Holders)
  PROVE  RightsInv'
<1>1. /\ mails \in Nat /\ mails' \in Nat /\ received \in Nat /\ received' \in Nat
      /\ lost \in Nat /\ lost' \in Nat
      /\ Scheduled \in {0, 1} /\ Scheduled' \in {0, 1}
  BY DEF TypeOK, Scheduled
<1>2. /\ IsFiniteSet(Holders') /\ Cardinality(Holders) \in Nat
      /\ Cardinality(Holders') =
           Cardinality(Holders) + Right(pc \in Entitled) - Right(w \in Holders)
  BY HoldersMove
<1>3. Right(pc \in Entitled) \in {0, 1} /\ Right(w \in Holders) \in {0, 1}
  BY DEF Right
<1>. HIDE DEF Holders, Scheduled, Right
<1>. QED
  BY <1>1, <1>2, <1>3 DEF RightsInv

(* A step that neither mails nor schedules and whose worker gains no right *)
(* that it or the queue had not.                                           *)
LEMMA RightsFree ==
  ASSUME TypeOK, TypeOK', RightsInv, NEW w \in Workers, NEW pc, Moves(w, pc),
         pc \in Entitled => w \in Holders \/ received' = received + 1,
         UNCHANGED <<mails, lost>>, row'.due = row.due \/ row'.due = "null",
         received' \in {received, received + 1}
  PROVE  RightsInv'
<1>1. mails \in Nat /\ received \in Nat /\ lost \in Nat
  BY DEF TypeOK
<1>2. mails' - mails = 0 /\ lost' - lost = 0 /\ Scheduled' - Scheduled <= 0
      /\ Scheduled' - Scheduled \in Int
  BY <1>1 DEF Scheduled
<1>3. received' - received \in {0, 1}
      /\ (pc \in Entitled => w \in Holders \/ received' - received = 1)
  <2>1. CASE received' = received
    <3>1. received' # received + 1 /\ received' - received = 0
      BY <1>1, <2>1
    <3>. QED
      BY <3>1
  <2>2. CASE received' = received + 1
    BY <1>1, <2>2
  <2>. QED
    BY <2>1, <2>2
<1>4. Right(pc \in Entitled) <= (received' - received) + Right(w \in Holders)
  BY <1>3 DEF Right
<1>5. Right(pc \in Entitled) \in {0, 1} /\ Right(w \in Holders) \in {0, 1}
  BY DEF Right
<1>6. (mails' - mails) + (Scheduled' - Scheduled) + Right(pc \in Entitled)
        <= (received' - received) + (lost' - lost) + Right(w \in Holders)
  <2>. HIDE DEF Holders, Scheduled, Right
  <2>. QED
    BY <1>2, <1>3, <1>4, <1>5
<1>. QED
  BY <1>6, RightsPaid

(* A worker that has returned or thrown is free of any right.              *)
LEMMA RightsGivenUp ==
  ASSUME TypeOK, TypeOK', RightsInv, NEW w \in Workers, Returns(w) \/ Throws(w),
         UNCHANGED <<mails, lost, received>>, row'.due = row.due \/ row'.due = "null"
  PROVE  RightsInv'
<1>1. PICK pc \in {"idle", "returned", "delete"} : Moves(w, pc)
  BY EndsStay DEF Moves
<1>. QED
  BY <1>1, RightsFree DEF Entitled

(* A handler mails by the right of the delivery it received ...            *)
LEMMA HandlerPays ==
  ASSUME TypeOK, TypeOK', RightsInv, NEW h \in Handlers, HandlerStep(h)
  PROVE  RightsInv'
<1>0. h \in Workers /\ {"find", "insert", "deliver", "idle"} \subseteq WorkerPc
  BY DEF Workers, WorkerPc
<1> USE DEF Holders, Entitled, At
<1>1. CASE Receive(h) \/ Call(h)
  <2>1. Moves(h, "find")
    BY <1>0, <1>1, OthersStay DEF Receive, Call, Moves
  <2>. QED
    BY <1>0, <1>1, <2>1, RightsFree DEF Receive, Call
<1>2. CASE FindByKey(h)
  <2>1. CASE Returns(h)
    BY <1>0, <1>2, <2>1, RightsGivenUp DEF FindByKey
  <2>2. CASE ~Returns(h)
    <3>1. PICK pc \in WorkerPc : Moves(h, pc)
      BY <1>0, <1>2, <2>2, OthersStay DEF FindByKey, Moves
    <3>. QED
      BY <1>0, <1>2, <3>1, RightsFree DEF FindByKey
  <2>. QED
    BY <2>1, <2>2
<1>3. CASE InsertPending(h)
  <2>1. Moves(h, "deliver")
    BY <1>0, <1>3, OthersStay DEF InsertPending, Moves, TypeOK
  <2>2. row'.due = row.due \/ row'.due = "null"
    BY <1>3 DEF InsertPending
  <2>. QED
    BY <1>0, <1>3, <2>1, <2>2, RightsFree DEF InsertPending
<1>4. CASE NoRecipient(h)
  BY <1>0, <1>4, RightsGivenUp DEF NoRecipient
<1>5. CASE DeleteMessage(h)
  <2>1. Moves(h, "idle")
    BY <1>0, <1>5, OthersStay DEF DeleteMessage, Moves
  <2>. QED
    BY <1>0, <1>5, <2>1, RightsFree DEF DeleteMessage
<1>. QED
  BY <1>1, <1>2, <1>3, <1>4, <1>5 DEF HandlerStep

(* ... an attempt uses its worker's right for the mail or hands it to the  *)
(* row ...                                                                 *)
LEMMA DeliverPays ==
  ASSUME TypeOK, TypeOK', RightsInv, NEW w \in Workers, DeliverStep(w)
  PROVE  RightsInv'
<1>0. {"send", "markFailed", "markSent", "record"} \subseteq WorkerPc
  BY DEF WorkerPc
<1>1. CASE StartDelivery(w)
  <2>1. CASE Returns(w)
    BY <1>1, <2>1, RightsGivenUp DEF StartDelivery
  <2>2. CASE ~Returns(w)
    <3>1. PICK pc \in WorkerPc : Moves(w, pc)
      BY <1>0, <1>1, <2>2, OthersStay DEF StartDelivery, Moves
    <3>. QED
      BY <1>1, <3>1, RightsFree DEF StartDelivery, Holders, Entitled, At
  <2>. QED
    BY <2>1, <2>2
<1>2. CASE SendSucceeds(w)
  <2>1. Moves(w, "markSent")
    BY <1>0, <1>2, OthersStay DEF SendSucceeds, Moves
  <2>2. w \in Holders
    BY <1>2 DEF SendSucceeds, Sending, Holders, Entitled
  <2>3. (mails' - mails) + (Scheduled' - Scheduled) + Right("markSent" \in Entitled)
          <= (received' - received) + (lost' - lost) + Right(w \in Holders)
    BY <1>2, <2>2 DEF SendSucceeds, Scheduled, Right, Entitled, TypeOK
  <2>. QED
    BY <2>1, <2>3, RightsPaid
<1>3. CASE SendUnavailable(w)
  <2>1. Moves(w, "record")
    BY <1>0, <1>3, OthersStay DEF SendUnavailable, Moves
  <2>. QED
    BY <1>3, <2>1, RightsFree DEF SendUnavailable, Sending, Holders, Entitled
<1>4. CASE MarkSent(w)
  BY <1>4, RightsGivenUp DEF MarkSent, TypeOK, Row
<1>5. CASE MarkFailed(w)
  BY <1>5, RightsGivenUp DEF MarkFailed, TypeOK, Row
<1>6. CASE RecordTransientFailure(w)
  <2>1. PICK pc \in {"idle", "returned", "delete"} : Moves(w, pc)
    BY <1>6, EndsStay DEF RecordTransientFailure, Moves
  <2>2. w \in Holders
    BY <1>6 DEF RecordTransientFailure, At, Holders, Entitled
  <2>3. Scheduled' - Scheduled <= 1 /\ Scheduled' - Scheduled \in Int
    BY DEF Scheduled
  <2>4. (mails' - mails) + (Scheduled' - Scheduled) + Right(pc \in Entitled)
          <= (received' - received) + (lost' - lost) + Right(w \in Holders)
    <3>1. Right(pc \in Entitled) = 0 /\ Right(w \in Holders) = 1
      BY <2>1, <2>2 DEF Right, Entitled
    <3>2. mails' - mails = 0 /\ received' - received = 0 /\ lost' - lost = 0
      BY <1>6 DEF RecordTransientFailure, TypeOK
    <3>. QED
      BY <2>3, <3>1, <3>2
  <2>. QED
    BY <2>1, <2>4, RightsPaid
<1>. QED
  BY <1>1, <1>2, <1>3, <1>4, <1>5, <1>6 DEF DeliverStep

(* ... a claim takes the row's right over to the sweeper ...               *)
LEMMA ClaimPays ==
  ASSUME TypeOK, TypeOK', RightsInv, NEW s \in Sweepers, ClaimDueRetry(s)
  PROVE  RightsInv'
<1>1. s \in Workers /\ Moves(s, "deliver")
  BY OthersStay DEF ClaimDueRetry, Moves, Workers, WorkerPc
<1>2. Scheduled' = 0 /\ Scheduled = 1
  BY DEF ClaimDueRetry, Scheduled, TypeOK, Row
<1>3. Right("deliver" \in Entitled) = 1 /\ Right(s \in Holders) \in {0, 1}
  BY DEF Right, Entitled
<1>4. mails' - mails = 0 /\ received' - received = 0 /\ lost' - lost = 0
  BY DEF ClaimDueRetry, TypeOK
<1>. QED
  BY <1>1, <1>2, <1>3, <1>4, RightsPaid

(* ... and no fault makes a right, but for the send that is thought to     *)
(* have failed.                                                            *)
LEMMA EnvironmentPays ==
  ASSUME TypeOK, TypeOK', RightsInv, Environment
  PROVE  RightsInv'
<1>1. CASE RedeliverEarly \/ RecipientLeaves
  BY <1>1 DEF RedeliverEarly, RecipientLeaves, RightsInv, Holders, Scheduled
<1>2. ASSUME NEW w \in Workers, SendAnswerLost(w) PROVE RightsInv'
  <2>1. PICK pc \in {"resend", "record"} : Moves(w, pc)
    BY <1>2, OthersStay DEF SendAnswerLost, Moves, WorkerPc
  <2>2. Right(pc \in Entitled) = 1 /\ Right(w \in Holders) = 1
    BY <1>2 DEF SendAnswerLost, Sending, Holders, Entitled, Right
  <2>3. /\ Scheduled' - Scheduled = 0 /\ received' - received = 0
        /\ mails' - mails = 1 /\ lost' - lost = 1
    BY <1>2 DEF SendAnswerLost, Scheduled, TypeOK
  <2>. QED
    BY <2>1, <2>2, <2>3, RightsPaid
<1>3. ASSUME NEW w \in Workers, MarkSentFails(w) PROVE RightsInv'
  <2>1. Moves(w, "markFailed")
    BY <1>3, OthersStay DEF MarkSentFails, Moves, WorkerPc
  <2>. QED
    BY <1>3, <2>1, RightsFree DEF MarkSentFails, Entitled
<1>4. ASSUME NEW w \in Workers, Crash(w) PROVE RightsInv'
  BY <1>4, RightsGivenUp DEF Crash
<1>. QED
  BY <1>1, <1>2, <1>3, <1>4 DEF Environment

(* The recipient gets one mail at most for each delivery of the event,     *)
(* however many handlers and sweepers retry it and whichever of them die;  *)
(* only a send whose success was lost costs one more.                      *)
THEOREM NobodyMailsTwice == Spec => []EachDeliveryMailsOnce
<1>1. Init => RightsInv
  <2> SUFFICES ASSUME Init PROVE RightsInv
    OBVIOUS
  <2>1. Holders = {}
    BY DEF Init, Holders, Entitled, IdleWorker
  <2>. QED
    BY <2>1, FS_EmptySet DEF Init, RightsInv, Scheduled
<1>2. TypeOK /\ TypeOK' /\ RightsInv /\ [Next]_vars => RightsInv'
  <2> SUFFICES ASSUME TypeOK, TypeOK', RightsInv, [Next]_vars PROVE RightsInv'
    OBVIOUS
  <2>1. CASE Publish \/ Redeliver
    BY <2>1 DEF Publish, Redeliver, RightsInv, Holders, Scheduled
  <2>2. CASE BackoffElapses
    <3>1. Scheduled' = Scheduled /\ Holders' = Holders
      BY <2>2 DEF BackoffElapses, Scheduled, Holders, TypeOK, Row
    <3>. QED
      BY <2>2, <3>1 DEF BackoffElapses, RightsInv
  <2>3. CASE UNCHANGED vars
    BY <2>3 DEF vars, RightsInv, Holders, Scheduled
  <2>. QED
    BY <2>1, <2>2, <2>3, HandlerPays, DeliverPays, ClaimPays, EnvironmentPays DEF Next
<1>3. TypeOK /\ RightsInv => EachDeliveryMailsOnce
  <2> SUFFICES ASSUME TypeOK, RightsInv PROVE EachDeliveryMailsOnce
    OBVIOUS
  <2>1. Cardinality(Holders) \in Nat /\ Scheduled \in Nat
    BY FS_CardinalityType DEF RightsInv, Scheduled
  <2>2. mails \in Nat /\ received \in Nat /\ lost \in Nat
    BY DEF TypeOK
  <2>. HIDE DEF Holders, Scheduled
  <2>. QED
    BY <2>1, <2>2 DEF RightsInv, EachDeliveryMailsOnce
<1>. QED
  BY <1>1, <1>2, <1>3, TypeCorrect, PTL DEF Spec
====
