---- MODULE UploadApi ----
(***************************************************************************)
(* IngestionUploadService: the requests that create the job, confirm its   *)
(* files and publish it. A request is a Node.js handler: it runs between   *)
(* awaits, and everything it read before an await may be stale after it.   *)
(*                                                                         *)
(*   req      where each request stands                                    *)
(*   route    how the job came to be: "multipart" (upload) or "presigned"  *)
(*   hasZip   whether the dealer sends a photo archive                     *)
(*   stored   the files that can be read at the paths of the job row       *)
(*   pending  published messages not yet taken by an executor              *)
(***************************************************************************)
EXTENDS IngestionStore

CONSTANTS
  Requests,  \* requests the dealer's browser sends
  Archives   \* subset of BOOLEAN: does the dealer send photos?

ASSUME ApiAssumption == Archives \subseteq BOOLEAN

VARIABLES req, route, hasZip, stored, pending

apiVars == <<req, route, hasZip, stored, pending>>

ReqPc == {"idle", "storing", "publishing", "failing",
          "checkCsv", "checkZip", "missing", "confirming", "answered", "dead"}

ApiTypeOK ==
  /\ req \in [Requests -> ReqPc]
  /\ route \in {"none", "multipart", "presigned"}
  /\ hasZip \in BOOLEAN
  /\ stored \subseteq {"csv", "zip"}
  /\ pending \in Nat

ApiInit ==
  /\ req = [q \in Requests |-> "idle"]
  /\ route = "none"
  /\ hasZip \in Archives
  /\ stored = {}
  /\ pending = 0

Files == IF hasZip THEN {"csv", "zip"} ELSE {"csv"}

Goto(q, pc) == req' = [req EXCEPT ![q] = pc]

----
(* upload: one multipart request stores the files itself.                  *)

UploadCreate(q) ==
  /\ req[q] = "idle"
  /\ job.status = "NONE"
  /\ SetStatus("PENDING")
  /\ route' = "multipart"
  /\ Goto(q, "storing")
  /\ UNCHANGED <<listing, bare, taken, rejected, loadedLog, notices, file,
                 hasZip, stored, pending>>

(* put csv, put zip, findById and updateStoragePaths, the last of which    *)
(* makes the files readable: nobody else knows the job's id yet.           *)
UploadStore(q) ==
  /\ req[q] = "storing"
  /\ \/ stored' = Files /\ Goto(q, "publishing")
     \/ /\ Faults \cap {"store", "db"} # {}
        /\ stored' \in {stored, Files}
        /\ Goto(q, "failing")
  /\ UNCHANGED <<storeVars, route, hasZip, pending>>

(* A publish may be reported failed although the queue took the message.   *)
UploadPublish(q) ==
  /\ req[q] = "publishing"
  /\ \/ pending' = pending + 1 /\ Goto(q, "answered")
     \/ /\ "publish" \in Faults
        /\ pending' \in {pending, pending + 1}
        /\ Goto(q, "failing")
  /\ UNCHANGED <<storeVars, route, hasZip, stored>>

(* The catch block: FAILED, whatever the job has become meanwhile.         *)
UploadFail(q) ==
  /\ req[q] = "failing"
  /\ \/ SetStatus("FAILED")
     \/ "db" \in Faults /\ UNCHANGED job
  /\ Goto(q, "answered")
  /\ UNCHANGED <<listing, bare, taken, rejected, loadedLog, notices, file,
                 route, hasZip, stored, pending>>

----
(* presignUpload, the browser's PUTs, and completeUpload.                  *)

PresignUpload(q) ==
  /\ req[q] = "idle"
  /\ job.status = "NONE"
  /\ SetStatus("PENDING")
  /\ route' = "presigned"
  /\ Goto(q, "answered")
  /\ UNCHANGED <<listing, bare, taken, rejected, loadedLog, notices, file,
                 hasZip, stored, pending>>

BrowserPut(f) ==
  /\ route = "presigned"
  /\ f \in Files \ stored
  /\ stored' = stored \cup {f}
  /\ UNCHANGED <<storeVars, req, route, hasZip, pending>>

(* findById: only a PENDING job goes on, any other is reported back.       *)
CompleteRead(q) ==
  /\ req[q] = "idle"
  /\ route = "presigned"
  /\ Goto(q, IF job.status = "PENDING" THEN "checkCsv" ELSE "answered")
  /\ UNCHANGED <<storeVars, route, hasZip, stored, pending>>

CompleteCheckCsv(q) ==
  /\ req[q] = "checkCsv"
  /\ Goto(q, IF "csv" \notin stored THEN "missing"
             ELSE IF hasZip THEN "checkZip" ELSE "confirming")
  /\ UNCHANGED <<storeVars, route, hasZip, stored, pending>>

CompleteCheckZip(q) ==
  /\ req[q] = "checkZip"
  /\ Goto(q, IF "zip" \in stored THEN "confirming" ELSE "missing")
  /\ UNCHANGED <<storeVars, route, hasZip, stored, pending>>

(* updateStatus FAILED on the strength of the status read at the start.    *)
CompleteFail(q) ==
  /\ req[q] = "missing"
  /\ \/ SetStatus("FAILED")
     \/ "db" \in Faults /\ UNCHANGED job
  /\ Goto(q, "answered")
  /\ UNCHANGED <<listing, bare, taken, rejected, loadedLog, notices, file,
                 route, hasZip, stored, pending>>

CompletePublish(q) ==
  /\ req[q] = "confirming"
  /\ \/ pending' = pending + 1
     \/ "publish" \in Faults /\ pending' \in {pending, pending + 1}
  /\ Goto(q, "answered")
  /\ UNCHANGED <<storeVars, route, hasZip, stored>>

RequestStep(q) ==
  \/ UploadCreate(q) \/ UploadStore(q) \/ UploadPublish(q) \/ UploadFail(q)
  \/ PresignUpload(q)
  \/ CompleteRead(q) \/ CompleteCheckCsv(q) \/ CompleteCheckZip(q)
  \/ CompleteFail(q) \/ CompletePublish(q)

ApiStep == (\E q \in Requests : RequestStep(q)) \/ (\E f \in Files : BrowserPut(f))

(* The handlers' process dies: what they were doing is never finished.     *)
InFlight(q) == req[q] \notin {"idle", "answered", "dead"}

KillRequests == req' = [q \in Requests |-> IF InFlight(q) THEN "dead" ELSE req[q]]
====
