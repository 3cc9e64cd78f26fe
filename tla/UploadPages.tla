---- MODULE UploadPages ----
(***************************************************************************)
(* Bulk upload as the dealer's browser sees it: the upload page with its   *)
(* check for a job under way and its direct transfer to storage, the status*)
(* page that polls a job until it settles, reports and exports the skipped *)
(* rows. Requests fail, answers get lost, the dealer leaves pages while    *)
(* they work; what the page started goes on and navigates when it is done. *)
(*                                                                         *)
(*   jobs     the dealer's upload jobs in the order of their creation, with*)
(*            the files storage lacks; quiet: no sign of life for          *)
(*            ACTIVE_JOB_STALE_AFTER_MS; lost: history, a request for the  *)
(*            job failed or its tab was closed                             *)
(*   uploads  calls of uploadInventory under way; onForm: the form that    *)
(*            started it is still mounted                                  *)
(*   screen   what the dealer looks at; refused: the file of a form that   *)
(*            the service refused (history)                                *)
(***************************************************************************)
EXTENDS Integers, Sequences, FiniteSets, FiniteSetsExt, Functions

CONSTANTS
  MaxUploads,      \* bound on submissions
  InvalidCounts,   \* how many rows a job may reject
  ExportSize,      \* MAX_EXPORT_PAGE_SIZE
  HistorySize      \* DEFAULT_JOBS_PAGE_SIZE

(* Pages hold something, and a job that has counted nothing rejects nothing*)
ASSUME UploadPagesAssumption ==
  /\ MaxUploads \in Nat /\ 0 \in InvalidCounts /\ InvalidCounts \subseteq Nat
  /\ ExportSize \in Nat \ {0} /\ HistorySize \in Nat \ {0}

VARIABLES jobs, uploads, screen

uploadPageVars == <<jobs, uploads, screen>>

FORMATS == {"csv", "json"}

TERMINAL_STATUSES == {"COMPLETED", "PARTIAL", "FAILED"}

Sizes == {"empty", "fits", "big"}
Inventories == [kind : FORMATS \cup {"other"}, size : Sizes]
Archives == [kind : {"zip", "other"}, size : Sizes]

Unpicked == [kind |-> "none", size |-> "none"]
Unseen == [status |-> "none", invalid |-> 0]

FreshForm ==
  [at |-> "form", checking |-> TRUE, format |-> "csv", inventory |-> Unpicked, zip |-> Unpicked,
   refused |-> Unpicked, job |-> 0, shown |-> Unseen, polling |-> FALSE, report |-> "none", export |-> <<>>]

Away == [FreshForm EXCEPT !.at = "away", !.checking = FALSE]

StatusPage(j) == [Away EXCEPT !.at = "status", !.job = j, !.polling = TRUE]

UploadPagesInit ==
  /\ jobs = <<>>
  /\ uploads = {}
  /\ screen = FreshForm

UploadPagesTypeOK ==
  /\ \A j \in DOMAIN jobs :
       /\ jobs[j].status \in TERMINAL_STATUSES \cup {"PENDING", "PROCESSING"}
       /\ jobs[j].missing \subseteq {"csv", "zip"} /\ jobs[j].invalid \in InvalidCounts
       /\ {jobs[j].published, jobs[j].counted, jobs[j].quiet, jobs[j].lost} \subseteq BOOLEAN
  /\ uploads \subseteq [pc : {"presign", "csv", "zip", "complete", "salvage"}, job : 0 .. Len(jobs),
                         format : FORMATS, file : Inventories, zip : Archives \cup {Unpicked}, onForm : BOOLEAN]
  /\ screen.at \in {"form", "status", "away"} /\ screen.job \in 0 .. Len(jobs)

Uploading == \E u \in uploads : u.onForm

Proceed(u, pc) == uploads' = (uploads \ {u}) \cup {[u EXCEPT !.pc = pc]}

End(u) == uploads' = uploads \ {u}

----
(* validateInventory and validateZip of the page, ...                      *)
ValidateInventory(file, format) == file.kind = format /\ file.size = "fits"

ValidateZip(file) == file.kind = "zip" /\ file.size # "big"

(* ... and their counterparts in the service, whose DTO wants sizes that   *)
(* are positive.                                                           *)
ValidateInventoryFile(format, file) == file.size = "fits" /\ file.kind = format

ValidateZipFile(file) == file.size = "fits" /\ file.kind = "zip"

(* findLatestActiveForDealer: pending or processing, and not quiet.        *)
Active == {j \in DOMAIN jobs : jobs[j].status \in {"PENDING", "PROCESSING"} /\ ~jobs[j].quiet}

ActiveJob == IF Active = {} THEN 0 ELSE Max(Active)

(* findByDealer: one page of the dealer's jobs, the newest first.          *)
FindByDealer(k, limit) ==
  [i \in 1 .. Min({limit, Max({0, Len(jobs) - (k - 1) * limit})})
     |-> Len(jobs) + 1 - (k - 1) * limit - i]

(* The page asks for a job under way before it shows the form; a failed    *)
(* check does not block the dealer.                                        *)
CheckActive ==
  /\ screen.at = "form" /\ screen.checking
  /\ \/ screen' = IF ActiveJob # 0 THEN StatusPage(ActiveJob) ELSE [screen EXCEPT !.checking = FALSE]
     \/ screen' = [screen EXCEPT !.checking = FALSE]
  /\ UNCHANGED <<jobs, uploads>>

FormOpen == screen.at = "form" /\ ~screen.checking /\ ~Uploading

ChooseFormat(next) ==
  /\ FormOpen /\ next # screen.format
  /\ screen' = [screen EXCEPT !.format = next, !.inventory = Unpicked]
  /\ UNCHANGED <<jobs, uploads>>

PickInventory(file) ==
  /\ FormOpen
  /\ screen' = [screen EXCEPT !.inventory = IF ValidateInventory(file, screen.format) THEN file ELSE Unpicked]
  /\ UNCHANGED <<jobs, uploads>>

PickZip(file) ==
  /\ FormOpen
  /\ screen' = [screen EXCEPT !.zip = IF ValidateZip(file) THEN file ELSE Unpicked]
  /\ UNCHANGED <<jobs, uploads>>

SubmitUpload ==
  /\ FormOpen /\ screen.inventory # Unpicked /\ Len(jobs) < MaxUploads /\ \A u \in uploads : u.job # 0
  /\ uploads' = uploads \cup {[pc |-> "presign", job |-> 0, format |-> screen.format, zip |-> screen.zip,
                               file |-> screen.inventory, onForm |-> TRUE]}
  /\ UNCHANGED <<jobs, screen>>

(* The history: the first page of listJobs. (No link leads to the others.) *)
History == FindByDealer(1, HistorySize)

(* The dealer opens another page, this one again, or a job of the history. *)
(* Uploads go on without their form.                                       *)
Leave ==
  /\ screen' \in {Away, FreshForm} \cup {StatusPage(j) : j \in Range(History)}
  /\ uploads' = {[u EXCEPT !.onForm = FALSE] : u \in uploads}
  /\ UNCHANGED jobs

(* The tab is closed: nobody finishes what it was uploading.               *)
CloseTab ==
  /\ screen' = FreshForm
  /\ jobs' = [j \in DOMAIN jobs |->
                [jobs[j] EXCEPT !.lost = @ \/ \E u \in uploads : u.job = j]]
  /\ uploads' = {}

----
(* presign: the service validates, creates the job and answers; or the     *)
(* answer is lost.                                                         *)
HasZip(u) == u.zip # Unpicked

Presign(u) ==
  /\ u.pc = "presign"
  /\ CASE ~ValidateInventoryFile(u.format, u.file) ->
            End(u) /\ screen' = [screen EXCEPT !.refused = u.file] /\ UNCHANGED jobs
       [] ValidateInventoryFile(u.format, u.file) /\ HasZip(u) /\ ~ValidateZipFile(u.zip) ->
            End(u) /\ screen' = [screen EXCEPT !.refused = u.zip] /\ UNCHANGED jobs
       [] OTHER ->
            \E lost \in BOOLEAN :
              /\ jobs' = Append(jobs,
                   [status |-> "PENDING", missing |-> IF HasZip(u) THEN {"csv", "zip"} ELSE {"csv"},
                    published |-> FALSE, counted |-> FALSE, invalid |-> 0, quiet |-> FALSE, lost |-> lost])
              /\ IF lost THEN End(u)
                 ELSE uploads' = (uploads \ {u}) \cup {[u EXCEPT !.pc = "csv", !.job = Len(jobs')]}
              /\ UNCHANGED screen

PutNext(u, part) == IF part = "csv" /\ HasZip(u) THEN "zip" ELSE "complete"

(* putDirect: a file goes straight to storage; a transfer that fails, even *)
(* when the bytes did arrive, leads to a last completeUpload.              *)
PutDirect(u, part) ==
  /\ u.pc = part /\ UNCHANGED screen
  /\ \E ok, stored \in BOOLEAN :
       /\ ok => stored
       /\ jobs' = [jobs EXCEPT ![u.job].missing = IF stored THEN @ \ {part} ELSE @]
       /\ Proceed(u, IF ok THEN PutNext(u, part) ELSE "salvage")

(* What the service makes of completeUpload: a job whose files are not     *)
(* there fails, the others are published.                                  *)
Completed(job) ==
  CASE job.status # "PENDING" -> job
    [] job.status = "PENDING" /\ job.missing # {} ->
         [job EXCEPT !.status = "FAILED", !.quiet = FALSE]
    [] OTHER -> [job EXCEPT !.published = TRUE]

(* completeUpload, served and answered, served with its answer lost, or    *)
(* never served. Only an upload whose transfers worked goes to the status  *)
(* page, wherever the dealer is by then.                                   *)
Complete(u) ==
  /\ u.pc \in {"complete", "salvage"} /\ End(u)
  /\ \/ /\ jobs' = [jobs EXCEPT ![u.job] = Completed(@)]
        /\ screen' = IF u.pc = "complete" /\ jobs'[u.job].status # "FAILED" THEN StatusPage(u.job) ELSE screen
     \/ \E served \in BOOLEAN :
          /\ jobs' = [jobs EXCEPT ![u.job] = IF served THEN Completed(@) ELSE [@ EXCEPT !.lost = TRUE]]
          /\ UNCHANGED screen

----
(* The worker, as the pages see it: it takes a published job, ...          *)
StartJob(j) ==
  /\ jobs[j].published /\ jobs[j].status = "PENDING"
  /\ jobs' = [jobs EXCEPT ![j].status = "PROCESSING", ![j].quiet = FALSE]
  /\ UNCHANGED <<uploads, screen>>

(* ... counts what was rejected, ...                                       *)
CountRows(j) ==
  /\ jobs[j].status = "PROCESSING" /\ ~jobs[j].counted
  /\ \E invalid \in InvalidCounts :
       jobs' = [jobs EXCEPT ![j].counted = TRUE, ![j].invalid = invalid, ![j].quiet = FALSE]
  /\ UNCHANGED <<uploads, screen>>

(* ... and then settles the job; one that throws is settled as it is. A    *)
(* notice that cannot be logged turns a settled job into a failed one.     *)
SettleJob(j) ==
  /\ \/ /\ jobs[j].status = "PROCESSING" /\ jobs[j].counted
        /\ jobs' = [jobs EXCEPT ![j].status = IF jobs[j].invalid = 0 THEN "COMPLETED" ELSE "PARTIAL",
                                ![j].quiet = FALSE]
     \/ /\ jobs[j].status \in {"PROCESSING", "COMPLETED", "PARTIAL"}
        /\ jobs' = [jobs EXCEPT ![j].status = "FAILED", ![j].quiet = FALSE]
  /\ UNCHANGED <<uploads, screen>>

GoQuiet(j) ==
  /\ jobs[j].status \in {"PENDING", "PROCESSING"} /\ ~jobs[j].quiet
  /\ jobs' = [jobs EXCEPT ![j].quiet = TRUE]
  /\ UNCHANGED <<uploads, screen>>

----
JobStatus(j) == [status |-> jobs[j].status, invalid |-> jobs[j].invalid]

(* poll: shows the job and goes on until it is terminal, errors or not.    *)
Poll ==
  /\ screen.at = "status" /\ screen.polling
  /\ screen' = [screen EXCEPT !.shown = JobStatus(screen.job),
                          !.polling = JobStatus(screen.job).status \notin TERMINAL_STATUSES]
  /\ UNCHANGED <<jobs, uploads>>

Settled == screen.at = "status" /\ screen.shown.status \in TERMINAL_STATUSES /\ screen.shown.invalid > 0

TotalPages(total, limit) == (total + limit - 1) \div limit

(* findRejectedRecords: one page of the rows in the order of their number. *)
RejectionsPage(j, k, limit) ==
  [i \in 1 .. Min({limit, Max({0, jobs[j].invalid - (k - 1) * limit})}) |-> (k - 1) * limit + i]

Report(rows) == IF rows = <<>> THEN "empty" ELSE "rows"

(* The report beside the counts: the first page, fetched once the job has  *)
(* settled; a failure is shown and not tried again.                        *)
LoadReport ==
  /\ Settled /\ screen.report = "none"
  /\ \/ screen' = [screen EXCEPT !.report = Report(RejectionsPage(screen.job, 1, ExportSize))]
     \/ screen' = [screen EXCEPT !.report = "error"]
  /\ UNCHANGED <<jobs, uploads>>

(* onDownloadCsv: the first page says how many there are, the others follow*)
(* and the file has their rows in order.                                   *)
DownloadCsv ==
  /\ Settled
  /\ LET pages == TotalPages(jobs[screen.job].invalid, ExportSize)
         rows[k \in 0 .. pages] ==
           IF k = 0 THEN <<>> ELSE rows[k - 1] \o RejectionsPage(screen.job, k, ExportSize)
     IN screen' = [screen EXCEPT !.export = rows[pages]]
  /\ UNCHANGED <<jobs, uploads>>

UploadPagesNext ==
  \/ CheckActive \/ SubmitUpload \/ Leave \/ CloseTab \/ Poll \/ LoadReport \/ DownloadCsv
  \/ \E format \in FORMATS : ChooseFormat(format)
  \/ \E file \in Inventories : PickInventory(file)
  \/ \E file \in Archives : PickZip(file)
  \/ \E u \in uploads : Presign(u) \/ Complete(u) \/ \E part \in {"csv", "zip"} : PutDirect(u, part)
  \/ \E j \in DOMAIN jobs : StartJob(j) \/ CountRows(j) \/ SettleJob(j) \/ GoQuiet(j)

----
(* A page that has stopped polling shows what the job ended with: the      *)
(* counts were final when the status was, and only the failed log of a     *)
(* notice can still change the status.                                     *)
StatusIsFinal ==
  screen.at = "status" /\ ~screen.polling =>
    /\ screen.shown.invalid = jobs[screen.job].invalid
    /\ screen.shown.status = jobs[screen.job].status \/ jobs[screen.job].status = "FAILED"
    /\ screen.shown.status \in TERMINAL_STATUSES
    /\ screen.report # "empty"

(* The exported file has every skipped row of the job once, in order.      *)
ExportIsComplete ==
  screen.export # <<>> => screen.export = [i \in 1 .. jobs[screen.job].invalid |-> i]

(* What the page lets the dealer submit, the service does not refuse, but  *)
(* for an empty archive: only the service looks whether it holds anything. *)
PageMirrorsService ==
  screen.refused # Unpicked => screen.refused = [kind |-> "zip", size |-> "empty"]

(* A job that waits for files nobody is sending has lost a request or the  *)
(* tab: an upload that fails in the page does not masquerade as one under  *)
(* way.                                                                    *)
AbandonedIsDecided ==
  \A j \in DOMAIN jobs :
    jobs[j].status = "PENDING" /\ ~jobs[j].published =>
      jobs[j].lost \/ \E u \in uploads : u.job = j

(* The pages and the service agree on every upload: the four above.        *)
UploadsAreFollowed == StatusIsFinal /\ ExportIsComplete /\ PageMirrorsService /\ AbandonedIsDecided
====
