---- MODULE AdminConsole ----
(***************************************************************************)
(* The administrators' pages over admin-service: each shows the answer to a*)
(* query with a key (a filter, a range, a job whose reasons are open), kept*)
(* by useAsyncData, while accounts and upload jobs change under it and the *)
(* administrator approves, rejects and deactivates from the list of users. *)
(*                                                                         *)
(*   backend   accounts, upload jobs and the audit log                     *)
(*   opened    the page shown, its applied key, and busyId                 *)
(*   hook      state of useAsyncData; of is the key its data answered      *)
(*   query     the request of the current effect (older ones are aborted)  *)
(*   calling   mutations under way; mounted: of the page still shown       *)
(*   reported  history: accounts whose change this page has reported as    *)
(*             done and that nobody has changed since                      *)
(*   changes   changes so far                                              *)
(***************************************************************************)
EXTENDS Integers, FiniteSets

CONSTANTS
  UnderReview,         \* dealers' accounts
  Batches,             \* 1 .. n: upload jobs
  NobodyBusy,          \* no row is busy
  MaxConsoleChanges    \* bound on changes, the administrator's and others'

ASSUME ConsoleAssumption ==
  MaxConsoleChanges \in Nat /\ IsFiniteSet(Batches) /\ Batches \subseteq Nat \ {0}

VARIABLES backend, opened, hook, query, calling, reported, changes

consoleVars == <<backend, opened, hook, query, calling, reported, changes>>

AccountStatus == {"PENDING", "VERIFIED", "REJECTED"}

BatchStatuses == {"PROCESSING", "COMPLETED", "FAILED", "PARTIAL"}

Ops == {"approve", "reject", "deactivate"}

AuditActions == {"dealer.approved", "dealer.rejected", "user.deactivated"}

(* The day a job was created on; day 2 is quiet.                           *)
CreatedOn(batch) == IF batch < 3 THEN 1 ELSE 3

(* What can be asked of each page; reasons 0 is no job expanded.           *)
KeysOf == [users |-> {"all", "PENDING"}, uploads |-> {"all", "FAILED"}, reasons |-> {0} \cup Batches,
           reports |-> {{1}, 1 .. 3}, auditLogs |-> {"all", "dealer.approved"}, dashboard |-> {"now"}]

FirstKey(at) == CASE at = "reasons" -> 0
                  [] at = "reports" -> {1}
                  [] at = "dashboard" -> "now"
                  [] OTHER -> "all"

NoQuery == [step |-> "none", rows |-> {}]

Asked == [step |-> "sent", rows |-> {}]

Mounted == [of |-> <<>>, rows |-> {}, loading |-> TRUE, error |-> FALSE]

ConsoleTypeOK ==
  /\ backend.users \in [UnderReview -> [status : AccountStatus, active : BOOLEAN]]
  /\ backend.jobs \in [Batches -> BatchStatuses]
  /\ backend.log \subseteq AuditActions \X UnderReview
  /\ opened.at \in DOMAIN KeysOf /\ opened.key \in KeysOf[opened.at] /\ opened.busy \in UnderReview \cup {NobodyBusy}
  /\ {hook.loading, hook.error} \subseteq BOOLEAN /\ query.step \in {"none", "sent", "served"}
  /\ calling \subseteq [op : Ops, id : UnderReview, step : {"sent", "done", "failed"}, mounted : BOOLEAN]
  /\ reported \subseteq UnderReview /\ changes \in 0 .. MaxConsoleChanges

ConsoleInit ==
  /\ backend = [users |-> [d \in UnderReview |-> [status |-> "PENDING", active |-> TRUE]],
               jobs |-> [b \in Batches |-> "PROCESSING"], log |-> {}]
  /\ opened = [at |-> "dashboard", key |-> "now", busy |-> NobodyBusy]
  /\ hook = Mounted /\ query = Asked /\ calling = {} /\ reported = {}
  /\ changes = 0

----
(* AdminReadsRepository and the mappers. A page of users joins account and *)
(* profile; the answers are sets of rows, at most 200 of the audit log.    *)
ListUsers(status) ==
  {[id |-> d, status |-> backend.users[d].status, active |-> backend.users[d].active] :
     d \in {x \in UnderReview : status \in {"all", backend.users[x].status}}}

ListUploads(status) ==
  {[batch |-> b, status |-> backend.jobs[b]] : b \in {x \in Batches : status \in {"all", backend.jobs[x]}}}

(* The first page of the skipped rows of a job: the failed and the partial *)
(* ones have some.                                                         *)
UploadRejections(batch) ==
  IF batch # 0 /\ backend.jobs[batch] \in {"FAILED", "PARTIAL"} THEN {[batch |-> batch, reason |-> "invalid"]} ELSE {}

InWindow(days) == {b \in Batches : CreatedOn(b) \in days}

Having(status, batches) == {b \in batches : backend.jobs[b] = status}

(* A rate to four places, in ten-thousandths.                              *)
Rate(part, whole) == IF whole = 0 THEN 0 ELSE (20000 * part + whole) \div (2 * whole)

(* One point per day, the quiet days too.                                  *)
DailyPoints(days) == [d \in days |-> Cardinality({b \in Batches : CreatedOn(b) = d})]

LoadReports(days) ==
  LET created == InWindow(days) IN
  {[jobs |-> Cardinality(created),
    errorRate |-> Rate(Cardinality(Having("FAILED", created)), Cardinality(created)),
    partialRate |-> Rate(Cardinality(Having("PARTIAL", created)), Cardinality(created)),
    failed |-> Cardinality(Having("FAILED", created)),
    partial |-> Cardinality(Having("PARTIAL", created)),
    points |-> DailyPoints(days)]}

(* The page sends the words of an action in capitals; the query compares   *)
(* without regard to case or separator.                                    *)
SearchAuditLogs(action) ==
  {[action |-> entry[1], entity |-> entry[2]] :
     entry \in {e \in backend.log : action \in {"all", e[1]}}}

(* The counts of the dashboard, read by queries of their own.              *)
LoadDashboard ==
  {[dealers |-> Cardinality(UnderReview),
    pending |-> Cardinality({d \in UnderReview : backend.users[d].status = "PENDING"}),
    byStatus |-> [s \in BatchStatuses |-> Cardinality(Having(s, Batches))]]}

RowsFor(at, key) ==
  CASE at = "users"     -> ListUsers(key)
    [] at = "uploads"   -> ListUploads(key)
    [] at = "reasons"   -> UploadRejections(key)
    [] at = "reports"   -> LoadReports(key)
    [] at = "auditLogs" -> SearchAuditLogs(key)
    [] at = "dashboard" -> LoadDashboard

----
(* useAsyncData: the request is answered by what holds now, and the answer *)
(* arrives; a failure keeps the rows there were.                           *)
QueryServed ==
  /\ query.step = "sent"
  /\ query' = [step |-> "served", rows |-> RowsFor(opened.at, opened.key)]
  /\ UNCHANGED <<backend, opened, hook, calling, reported, changes>>

Arrived ==
  /\ query.step = "served"
  /\ hook' = [of |-> <<opened.at, opened.key>>, rows |-> query.rows, loading |-> FALSE, error |-> FALSE]
  /\ query' = NoQuery
  /\ UNCHANGED <<backend, opened, calling, reported, changes>>

QueryFailed ==
  /\ query # NoQuery
  /\ hook' = [hook EXCEPT !.loading = FALSE, !.error = TRUE]
  /\ query' = NoQuery
  /\ UNCHANGED <<backend, opened, calling, reported, changes>>

(* The effect runs again: the request before is aborted.                   *)
Refetch ==
  /\ query' = Asked
  /\ hook' = [hook EXCEPT !.loading = TRUE, !.error = FALSE]

(* Mutant of ApplyKey: the query does not depend on the key.               *)
ApplyKeyOnly(key) ==
  /\ key \in KeysOf[opened.at] \ {opened.key}
  /\ opened' = [opened EXCEPT !.key = key]
  /\ UNCHANGED <<backend, hook, query, calling, reported, changes>>

(* Another key of the page: its effect depends on it.                      *)
ApplyKey(key) ==
  /\ key \in KeysOf[opened.at] \ {opened.key}
  /\ opened' = [opened EXCEPT !.key = key]
  /\ Refetch
  /\ UNCHANGED <<backend, calling, reported, changes>>

(* The tabs of the users, the status of the uploads, the range of a report *)
(* and the terms of an audit search, once they are submitted.              *)
SetTab == opened.at = "users" /\ \E tab \in {"all", "PENDING"} : ApplyKey(tab)

SetStatus == opened.at = "uploads" /\ \E status \in {"all", "FAILED"} : ApplyKey(status)

RunReport == opened.at = "reports" /\ \E days \in KeysOf.reports : ApplyKey(days)

OnSearch == opened.at = "auditLogs" /\ \E action \in KeysOf.auditLogs : ApplyKey(action)

(* "View reasons" of a job, or "Hide reasons" of the one expanded.         *)
ToggleExpanded ==
  opened.at = "reasons" /\ \E batch \in Batches : ApplyKey(IF opened.key = batch THEN 0 ELSE batch)

(* Another page, or the same one anew: nothing is kept, but mutations go   *)
(* on, and what they set later is the state of a page that is gone.        *)
OpenPage(at) ==
  /\ opened' = [at |-> at, key |-> FirstKey(at), busy |-> NobodyBusy]
  /\ hook' = Mounted /\ query' = Asked /\ reported' = {}
  /\ calling' = {[call EXCEPT !.mounted = FALSE] : call \in calling}
  /\ UNCHANGED <<backend, changes>>

----
(* AdminTable shows no rows while it loads; a report and the reasons of a  *)
(* job stay where they are.                                                *)
ShownRows == IF hook.loading /\ opened.at \notin {"reports", "reasons"} THEN {} ELSE hook.rows

(* The buttons of a row.                                                   *)
ButtonShown(op, row) == IF op = "deactivate" THEN row.active ELSE row.status = "PENDING"

RunMutation(op, row) ==
  /\ opened.at = "users" /\ row \in ShownRows
  /\ ButtonShown(op, row) /\ opened.busy # row.id
  /\ ~\E call \in calling : call.op = op /\ call.id = row.id
  /\ opened' = [opened EXCEPT !.busy = row.id]
  /\ calling' = calling \cup {[op |-> op, id |-> row.id, step |-> "sent", mounted |-> TRUE]}
  /\ changes < MaxConsoleChanges /\ changes' = changes + 1
  /\ UNCHANGED <<backend, hook, query, reported>>

(* What auth-user-service makes of an account, or no change if it refuses. *)
Mutated(op, account) ==
  CASE op = "approve" /\ account.status = "PENDING" -> [account EXCEPT !.status = "VERIFIED"]
    [] op = "reject"  /\ account.status = "PENDING" -> [account EXCEPT !.status = "REJECTED"]
    [] op = "deactivate"                            -> [account EXCEPT !.active = FALSE]
    [] OTHER -> account

AuditOf == [approve |-> "dealer.approved", reject |-> "dealer.rejected", deactivate |-> "user.deactivated"]

(* AdminMutationsService: auth first, then the audit entry. Without either *)
(* the request fails, and what was done stays done.                        *)
Perform(call) ==
  LET account == backend.users[call.id]
      changed == Mutated(call.op, account)
      refused == call.op # "deactivate" /\ account.status # "PENDING" IN
  /\ call.step = "sent"
  /\ \/ /\ ~refused
        /\ backend' = [backend EXCEPT !.users[call.id] = changed,
                                    !.log = @ \cup {<<AuditOf[call.op], call.id>>}]
        /\ \E step \in {"done", "failed"} : calling' = (calling \ {call}) \cup {[call EXCEPT !.step = step]}
     \/ /\ ~refused
        /\ backend' = [backend EXCEPT !.users[call.id] = changed]
        /\ calling' = (calling \ {call}) \cup {[call EXCEPT !.step = "failed"]}
     \/ /\ calling' = (calling \ {call}) \cup {[call EXCEPT !.step = "failed"]}
        /\ UNCHANGED backend
  /\ reported' = reported \ {call.id}
  /\ UNCHANGED <<opened, hook, query, changes>>

(* The answer: after a success the list is loaded again, and whichever row *)
(* was busy no longer is.                                                  *)
ReportDone(call) ==
  LET done == call.step = "done" /\ call.mounted IN
  /\ call.step # "sent"
  /\ calling' = calling \ {call}
  /\ opened' = IF call.mounted THEN [opened EXCEPT !.busy = NobodyBusy] ELSE opened
  /\ IF done THEN Refetch ELSE UNCHANGED <<hook, query>>
  /\ reported' = IF done THEN reported \cup {call.id} ELSE reported
  /\ UNCHANGED <<backend, changes>>

(* Others: an administrator decides or reactivates, a dealer resubmits.    *)
ChangedByOthers(d) ==
  LET account == backend.users[d] IN
  /\ \E changed \in [status : AccountStatus, active : BOOLEAN] :
       /\ \/ account.status = "PENDING" /\ changed = [account EXCEPT !.status = changed.status]
          \/ account.status = "REJECTED" /\ changed = [account EXCEPT !.status = "PENDING"]
          \/ changed = [account EXCEPT !.active = TRUE]
       /\ changed # account
       /\ backend' = [backend EXCEPT !.users[d] = changed]
  /\ reported' = reported \ {d}
  /\ changes < MaxConsoleChanges /\ changes' = changes + 1
  /\ UNCHANGED <<opened, hook, query, calling>>

JobEnds(batch) ==
  /\ backend.jobs[batch] = "PROCESSING"
  /\ \E status \in BatchStatuses \ {"PROCESSING"} : backend' = [backend EXCEPT !.jobs[batch] = status]
  /\ changes < MaxConsoleChanges /\ changes' = changes + 1
  /\ UNCHANGED <<opened, hook, query, calling, reported>>

ConsoleNext ==
  \/ QueryServed \/ Arrived \/ QueryFailed
  \/ SetTab \/ SetStatus \/ RunReport \/ OnSearch \/ ToggleExpanded
  \/ \E at \in DOMAIN KeysOf : OpenPage(at)
  \/ \E op \in Ops, row \in hook.rows : RunMutation(op, row)
  \/ \E call \in calling : Perform(call) \/ ReportDone(call)
  \/ \E d \in UnderReview : ChangedByOthers(d)
  \/ \E batch \in Batches : JobEnds(batch)
----
AtRestNow == ~hook.loading /\ ~hook.error

(* What a page shows without an error is the answer to the key it names,   *)
(* although its rows are kept while it loads another and answers of older  *)
(* requests may still be on their way.                                     *)
ShownAnswersKey == AtRestNow => hook.of = <<opened.at, opened.key>>

(* The list shows what it has reported as done: each row of such an account*)
(* is what the server has, in every view, whatever was asked meanwhile.    *)
OwnWorkShows ==
  opened.at = "users" /\ AtRestNow =>
    \A d \in reported : {row \in hook.rows : row.id = d} = {row \in ListUsers(opened.key) : row.id = d}

(* Numbers the pages make out of rates: Math.round of the rate times the   *)
(* jobs gives the jobs back, the slices of a pie make the whole, and so do *)
(* the days of a line.                                                     *)
Recovered(rate, jobs) == (2 * rate * jobs + 10000) \div 20000

SlicesOf(report) ==
  LET failed == Recovered(report.errorRate, report.jobs)
      partial == Recovered(report.partialRate, report.jobs) IN
  [failed |-> failed, partial |-> partial,
   successful |-> IF failed + partial > report.jobs THEN 0 ELSE report.jobs - failed - partial]

FiguresAddUp ==
  opened.at = "reports" => \A report \in hook.rows :
    LET slices == SlicesOf(report) IN
    /\ slices.failed = report.failed /\ slices.partial = report.partial
    /\ slices.failed + slices.partial + slices.successful = report.jobs
    /\ report.points[1] + (IF 2 \in DOMAIN report.points THEN report.points[2] + report.points[3] ELSE 0)
         = report.jobs

AdminPagesAreTrue == ShownAnswersKey /\ OwnWorkShows /\ FiguresAddUp

(* Three things the pages say that the code does not keep. A report stands *)
(* under the range it is for, and reasons under their job; the row of a    *)
(* request under way is disabled; a successful job is a completed one.     *)
RangeIsOfReport == ShownRows # {} => hook.of = <<opened.at, opened.key>>

OneRequestPerRow == \A a, b \in calling : a.mounted /\ b.mounted /\ a.id = b.id => a = b

SuccessIsCompletion ==
  opened.at = "reports" /\ AtRestNow /\ query = NoQuery => \A report \in hook.rows :
    SlicesOf(report).successful <= Cardinality(Having("COMPLETED", InWindow(opened.key)))
====
