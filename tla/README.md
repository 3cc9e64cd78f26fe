# AutoVaultLK: a TLA+ verification

AutoVaultLK is a marketplace for second-hand vehicles. Dealers register, are verified by administrators, and list vehicles by form or by uploading an inventory spreadsheet with an archive of photos, which an ETL pipeline turns into listings. Buyers search by words and filters, look at vehicles and save them. A notification service mails the outcome of what happens meanwhile.

This directory models that program: TLA+ modules translated from the source, TLC configurations that check them on small instances, and proofs that TLAPS checks for every value of the constants. Paths below are relative to the repository (`src/` is its root).

Contents: [1 Inventory](#1-inventory-of-the-system) · [2 Modules](#2-modules) · [3 Model and code](#3-how-the-models-correspond-to-the-code) · [4 Runs](#4-runs) · [5 Fairness](#5-fairness) · [6 Proofs](#6-proofs) · [7 Disagreements](#7-where-program-and-documentation-disagree) · [8 Limits](#8-what-is-left-out) · [9 Not modelled](#9-not-modelled) · [10 Plan](#10-plan)

## 1 Inventory of the system

### 1.1 ingestion-service

| part | state | operations | hard behaviours | what makes it correct |
|---|---|---|---|---|
| **Upload API** `ingestion-upload.service.ts` | the job row, objects in S3, the message it publishes | `upload` (multipart), `presignUpload` + the browser's PUTs, `completeUpload` | every await lets another request or an execution in; a publish that reports failure may have been taken; a status read before two storage checks is acted on after them | the dealer only sees a run of the job life cycle; a published job is decided |
| **Tables** `upload-job`, `rejected-record`, `etl-stage-log` repositories, `marketplace-vehicles-write.adapter.ts` | `upload_jobs`, `rejected_records`, `etl_stage_logs`, `marketplace.vehicles` with two unique indexes | `updateStatus`, `updateCounts`, `updateTotal`, upserts, `countForJob`, `succeededChunks` | single statements, no transaction around a stage; the global index on registrations is shared with other jobs | counts, status, rejections and vehicles agree |
| **File readers** `pipeline/parse` | the object in storage | detect and repair the encoding, map columns, cut a JSON array into elements while it streams | pieces end anywhere; the object is rewritten while another execution reads it, or left half written | the records are those of the dealer's file, under their own rows and columns |
| **Row stages** `normalize`, `validate`, `enrich` | artifacts of a chunk | read the cells, repair doubtful rows with a language model, reject and deduplicate, collect specs | repairs come in batches and in any order | a row keeps what was legible; one row per registration |
| **Chunk pipeline** `pipeline/` | staged artifacts of a chunk, a LOAD row of the stage log | stage, fetch, load | a batch INSERT aborts as a whole and rows are isolated one by one; a retry after a commit; artifacts are shared by the executions of a job | every row of a loaded chunk is listed or rejected |
| **Local orchestrator** `local-orchestrator.ts`, `etl-worker.service.ts`, `in-process-job-queue.ts`, `tools/run-pipeline.ts` | in memory: the skip set, chunks at work, counts | `run(jobId)`: mark, validate, split, fan out, finish, notify | executions overlap; a crash between two steps and a resumed run; failures of one chunk contained | as above, and COMPLETED means complete; a resumed run's verdict is the whole job's |
| **Step Functions executor** `etl-state-machine.asl.json`, `src/lambda/*`, `sqs-job-queue.ts` | the state machine's data (`$.parallelResult.chunks`), SQS messages | the states, with Retry and Catch | at-least-once delivery, orphan Lambdas after the Map failed, paths that do not exist on some route | as above; a failed chunk gives PARTIAL |
| **Image branch** `image-processing/` | `vehicle_images`, uploaded objects | match a photo to a vehicle, with retries | races the LOAD of the vehicle's chunk and the dealer's own edits | one primary photo; the recorded outcome is true |
| **Job status API** `job-status/` | none | status, history, paged rejections | reads while the job runs | what the upload pages show is what the job ended with |

### 1.2 notification-service

`notifications.controller.ts` takes an event over HTTP and either queues it (SQS) or handles it in the request; `sqs.consumer.ts` polls and deletes; `notification-event.handler.ts` inserts a PENDING row under the idempotency key, mails through `ses.adapter.ts`, and marks the row SENT or FAILED or schedules another attempt; `notification-retry.sweeper.ts` claims due rows. State: `notification.notifications`, one row per key. Hard: visibility timeouts shorter than a slow batch, two sweeping replicas, the adapter's timer against a late answer, updates that fail after the mail went out, rows used after they were read. Correct if a delivery mails once, SENT means mailed, and no event is forgotten.

### 1.3 auth-user-service

| part | state | hard behaviours | what makes it correct |
|---|---|---|---|
| **Sessions** `auth.service.ts`, `refresh-tokens.repository.ts` | `auth.refresh_tokens`: families, `replaced_by_id`, revocation | refreshes of one token race each other, reuse, eviction, logout; a revocation that its own exception rolls back; sessions counted before they are inserted | forks are graced; what is over stays over; a sign-in on its own restores the limit |
| **Credentials** `password.service.ts`, `email-verification.service.ts` | users, one-time tokens, `password_history` | check, hash, spend: three awaits; a handler that dies before it trims the history | a link serves those who found it unused and nobody later; no recent password |
| **Abuse protection** `auth-abuse-protection.service.ts`, `security_events` | failure counts, lock | counted before recorded; the lock is written from an old read | attempts are limited by account and by client |
| **Dealer verification** `dealer-profiles.service.ts` (with admin-service) | the profile's status | check before the transaction; answers lost between services | decisions are limited, final and on record |

### 1.4 admin-service

`admin-mutations.service.ts` passes decisions on to auth-user-service and marketplace-service, keeps an audit trail and emits notification events; repositories answer the administrators' lists, reports and dashboard; the dictionary service decides on unknown spellings. Hard: calls whose answer is lost, an event key that never changes, decisions that fail half way.

### 1.5 marketplace-service

| part | state | hard behaviours | what makes it correct |
|---|---|---|---|
| **Listings** `listing.service.ts`, `listing.repository.ts` | `marketplace.vehicles` with search text and embedding | status read before an await, whole entities saved after it; the index built in between; the embedding not read back | the index is the listing's own; the status follows its life cycle |
| **Photos** `image-upload.service.ts` | `vehicle_images` | three statements without a transaction, beside the image branch | one primary photo |
| **Search** `parser`, `groq`, `search/services`, `filters` | caches | stages claim words one after another; a language model fills gaps; filters are relaxed; several queries behind one answer | what a search is said to mean is what was typed; what was relaxed is named; facets predict |
| **Options** `search-options.service.ts` | a cache per question | overlapping loads | options are as recent as the cache allows |
| **Dictionary** with `alias-promotion.service.ts`, ingestion's `dictionary-snapshot.ts`, admin-service | entries, candidates, dismissals | three services, three copies, two ideas of equality | nothing is hidden that was not handled; both readers agree |
| **Favourites, recommendations, signed image links** | `favourites`; caches | optimistic clients; links that expire in a cache | see `SavedVehicles`, `VehiclePage` |

### 1.6 web-frontend

| part | state | hard behaviours | what makes it correct |
|---|---|---|---|
| **Session of the browser** `api/client.ts`, `auth` | local storage, cookies, CSRF value, a refresh promise per tab | tabs share storage but not the promise | a session that the service honours is not given up |
| **Account pages and guards** | the visitor, requests under way | answers after the page was left; an effect that sends a one-time link | nobody sees a page of another role; a link is not burnt by its own page |
| **Dealers' pages** | one copy of the profile, the table of listings, the listing form, the registration wizard, uploads | mutations, fetches and pollers answered in any order; two requests behind one Save | pages show what the server has, a submission gives one listing unless its requests overlap, a registration is complete |
| **Buyers' pages** | URL, draft, results; hearts; a vehicle's page; the hero's count | late and aborted answers, clicks before a render, expired links | the last wish is shown |
| **Administrators' pages** | `useAsyncData` per page, `busyId` | a page shows one key's data while it loads another's | what is shown answers the key, own work shows, figures add up |

### 1.7 The rest

`api-gateway` routes statelessly; `database` holds schema, migrations and seeds; `cloud-infrastructure`, `.github`, `performance`, `e2e` and `scripts` configure and test.

### 1.8 How the parts interact

```
 browser ──HTTP──> UploadApi ──message──> in-process queue ──> LocalOrchestrator ─┐
  │  │                │                └> SQS ─> pipe ─> Step Functions/Lambdas ──┤
  │  │                ▼                                                           ▼
  │  │           upload_jobs  <──────── status, counts ────────────  row stages, LOAD, image branch
  │  │                                                               rejected_records, stage logs,
  │  │                                                               marketplace.vehicles, vehicle_images
  │  └─HTTP──> marketplace-service (listings, photos, search, favourites) <─┘
  └─HTTP──> auth-user-service (sessions, credentials) <──decisions── admin-service <── administrators
 ingestion, admin, auth ──event──> notification-service ──> SES
```

The executors share the tables with the API and with each other; vehicles of other jobs are felt through the global unique index; the image branch shares `vehicle_images` with the dealer's requests; the dictionary is shared by three services. `PROJECT.json` lists every hazard found, at the line where it bites, with the property that covers it or the reason none does.

## 2 Modules

**Ingestion and notification** (composed systems)

| module | models | composed of |
|---|---|---|
| `IngestionStore` | the tables as seen by ONE job, the repository operations, the properties stated over the tables | |
| `UploadLifecycle` | **abstract specification**: what the dealer is promised about a job | |
| `UploadApi` | the requests: `upload`, `presignUpload`, the browser, `completeUpload` | `IngestionStore` |
| `ChunkPipeline` | one chunk through row stages and LOAD, for both executors | `IngestionStore` |
| `LocalOrchestrator` | `LocalOrchestrator.run` | `ChunkPipeline` |
| `IngestionLocal` | API + in-process queue + executions + operator reruns + crashes | `UploadApi`, `LocalOrchestrator` |
| `StepFunctions` | the state machine over the stage Lambdas | `ChunkPipeline` |
| `IngestionCloud` | API + SQS + pipe + Step Functions executions | `UploadApi`, `StepFunctions` |
| `Notifications` | the delivery of one event: intake, send, retry, sweep | |

`IngestionLocal` and `IngestionCloud` both claim to implement `UploadLifecycle`: the refinement mapping is the instance `Lifecycle` in `IngestionStore` (the status of the job row, the rows of the file, whether the file can be read, the rows whose vehicle is listed, the rows that have a rejection).

**Components with a state of their own** (each stands alone and is checked beside the others)

| module | models |
|---|---|
| `Sessions`, `Credentials`, `SignIn` | auth-user-service: refresh tokens; one-time links and passwords; limits of attempts |
| `DealerReview` | verification of a dealer across auth-user-service and admin-service |
| `Listings`, `VehicleImages` | marketplace-service: the dealer's listings; their photos beside the image branch |
| `FileReaders`, `RowStages` | ingestion: bytes to records and cells to rows (the two sections of `FileReaders`), rows to what LOAD gets |
| `Dictionary` | makes, aliases, candidates, promotion, and the two readers of them |
| `QueryParser`, `NaturalSearch`, `SearchOptions` | search: words to filters; relaxation; option lists, and pages and facets (the two sections of `SearchOptions`) |
| `BrowserSession`, `AccountPages` | the browser's session; sign-in, guards, links of mails |
| `DealerPages`, `ListingsPage`, `ListingForm`, `UploadPages` | dealers' pages; `DealerPages` has two sections, the profile and its guards and the registration wizard; `ListingForm` has two, how forms become listings and how specs become fields |
| `AdminConsole` | administrators' pages over admin-service's reads |
| `SearchPage`, `VehiclePage`, `SavedVehicles` | buyers' pages; `SearchPage` has three sections: searches, filter controls, and the landing page whose hero starts a search |

**Checking and proving**

| module | purpose |
|---|---|
| `MCIngestionLocal`, `MCIngestionCloud` | the small inventory files TLC works on |
| `MCAuthUser`, `MCMarketplace`, `MCFrontend` | components side by side in one run: the initial state chooses the part that moves, the others rest. They share no variable, so no interleaving between them is lost |
| `ChunkProofs`, `IngestionLocalProofs`, `IngestionCloudProofs`, `NotificationsProofs`, `AuthUserProofs`, `MarketplaceProofs`, `CatalogueProofs`, `FrontendProofs` | section 6 |

No module declares a RECURSIVE operator. Definitions whose comment begins with "Mutant" are deliberately wrong variants of the definition that follows. No specification uses them; each stands for a plausible bug that one of the properties detects.

## 3 How the models correspond to the code

### 3.1 `IngestionStore`

One job is modelled; other jobs appear as `taken`, the registrations they list, which they take and release at any time (`OtherJobs`). A row of the file is its number; what tells rows apart is the chunk (`ChunkOf`, the partition of `splitChunks`), the registration (`RegOf`, or `NoReg`) and the judgement of the row stages (`Quality`: `good` passes, `bad` does not, `vague` depends on what the LLM repair answers this time). These are constants, so that proofs hold for every file.

`listing` is a function of the registration because of the index on (`upload_job_id`, `registration_number`); rows without a registration are covered by no index and are a set of inserted copies (`bare`), each stamped with the execution and attempt that inserted it. `FinalStatus` is the derivation of the terminal status in `finish` and in `aggregate-results.ts`.

### 3.2 `UploadApi`

A request is a Node handler, so an action is what runs between two awaits that can fail or be overtaken. `upload`: `UploadCreate` → `UploadStore` → `UploadPublish`, with `UploadFail` for its catch block. `completeUpload`: `CompleteRead` (goes on only for PENDING) → `CompleteCheckCsv` → `CompleteCheckZip` → `CompletePublish`, or `CompleteFail`, which writes FAILED on the strength of the status read at the start. `UploadPublish` and `CompletePublish` may report failure although the message was taken. `pending` counts messages no executor has taken.

### 3.3 `ChunkPipeline`

`JudgeRows` is the row stages' verdict and its rejections, with the first row of a registration surviving (`ValidRows`); `StageRows` writes the artifact, `FetchRows` reads it back, whichever execution wrote it last. `InsertBatch` is the batch upsert; `BatchConflict` is its abort on a unique violation, after which `InsertOne` goes through the rows in order, each judged against the index at its own moment; `RecordRefused` writes the LOAD rejections and `LogLoaded` finishes the LOAD row that `succeededChunks` looks for.

### 3.4 `LocalOrchestrator` and `IngestionLocal`

`MarkProcessing`, `RejectFile`, `EmptyInventory`, `FanOut` are the straight-line part of `run`. `FanOut` takes `succeededChunks` as a snapshot (`skip`); `ClaimChunk` is a worker of `mapWithConcurrency` taking the next index and skipping a loaded chunk; `RetryLoad` and `FailChunk` are the two ways a failure in a chunk can go. `CountLoaded`, `CountRejected`, `WriteCounts`, `WriteStatus`, `Notify` are the awaits of `finish` and `notify`, apart from each other because other executions move between them. `RunThrows` is any of `run`'s own awaits rejecting (also the `log.start` that opens `notify`, outside its try), and `FailRun` the catch block. A chunk goes on working when its `run` has already failed.

`IngestionLocal` adds the in-process queue (`TakeMessage`), an operator's `run-pipeline --job` (`StartTool`), and the death of either process. With `Overlap = FALSE` an execution starts only when no other is under way.

### 3.5 `StepFunctions` and `IngestionCloud`

One disjunct per state and outcome. `exec[r].chunks` is what `$.parallelResult.chunks` holds: nothing, the list of envelopes, or the error object of the Map's Catch. `SplitNothing` is the route of a header-only file past `ProcessRows`. `MapCatches` gives up iterations that have not started their next Lambda, while Lambdas under way run to their end (`IterationStep` with `~MapRuns`). `RetryLoad` goes back to reading the rows; `AggregateThrows` is Aggregate's Retry and Catch. `StartExecution` may leave the message in the queue: delivery is at least once.

### 3.6 `Notifications`

A worker is an SQS consumer, an HTTP request without a queue, or a sweeper; it carries the row as it read it, since `deliver` works on that copy. `Receive`/`Call` → `FindByKey` → `InsertPending` → `StartDelivery` → `SendSucceeds`/`SendUnavailable`/`SendAnswerLost` → `MarkSent`, `RecordTransientFailure` or `MarkFailed`. `MarkSentFails` is the update that shares its try block with the send. `ClaimDueRetry` is the claiming transaction. The adapter's own second try is `resend`. Time is abstracted to `due`: a backoff is in the future until it elapses.

### 3.7 The components

In each of these modules an action is what a handler, an effect or a click does between two awaits (or, in the browser, two renders), and what a handler has read is carried in its own record until it uses it. The header of a module explains its variables.

* **`Sessions`**: `token` is the table in order of `created_at`; `call[c]` is a handler of login, refresh or logout with the user and the row it has loaded. `RotateTokenPair` re-reads under the row lock and decides between rotation, sibling and reuse; the revocation that `rotateTokenPair` makes before it throws is rolled back with its transaction, so only the caller's `RevokeFamily` counts. `quiet` marks handlers during whose count nobody else wrote. Time is a clock of `MaxTime` ticks with `Grace` and `TTL` as durations.
* **`Credentials`**: links are rows of the two token tables; a confirmation checks the link, hashes, compares with the history, writes the password, trims the history and spends the link in the code's order, each of which may be the last thing a dying handler did. A link remembers how many confirmations had it open when it was first marked used (`held`), and which was the newest when its issuer had revoked (`since`).
* **`SignIn`**: `lockout` is what the row says of failures and lock, `loaded` the copy a handler acts on; `overlapped` records that two failures were read before either was written, the one way the count can fall behind.
* **`DealerReview`**: `decideVerification` checks before its transaction; admin-service calls, then appends the audit row, then emits under a key; each call may lose its answer.
* **`Listings`**: `FindListing` and `LoadListing` are the two reads with their checks, `BuildIndex` the await of the embedding, `SaveListing` TypeORM's save of the columns that differ by then (`Saved`), without the embedding unless it was built. `raced` marks ids two requests worked on at once, `seen` the statuses a listing has had while requests are under way on it. `IngestionLoads` is LOAD's insert, `IngestionReloads` its upsert over the row of an earlier run, which leaves the status alone.
* **`VehicleImages`**: the image branch looks for its vehicle with retries and, failing that, for a rejection; the dealer replaces all photos or deletes one and promotes the next. `s3_path` is a row's identity, as the unique index has it.
* **`FileReaders`**: readers inspect, re-encode and read the object again while other executions do the same or die. `put` truncates a local file before it writes (`ReencodeBegin` to `ReencodePut`), so a reader may get any beginning of it (`Reads`), a dying writer leaves one, and two writers may leave a mixture (`mangled`). The scanner of JSON is fed one byte class at a time in pieces of any length, against a reference that parses the whole text.
* **`RowStages`**: `ReadRow` gives each field and a confidence, `GroqAnswered` takes any answer the language model may give, `ValidateRows` claims registrations. A vehicle type comes from the cell, from the model, or from a make with one type only. A model is named by its make, so "the model of another make" can be told.
* **`Dictionary`**: a spelling has a key (`KeyOf`, `compactKey`) and similarities; the parser's vocabulary, the promotion's entries and the page's candidates are copies taken at some time. Names are lower-case in the model.
* **`QueryParser`**: the vocabulary is a few words of each class the stages tell apart (makes, misspelt makes, models of one or two makes, body types of the dictionary and of the closed attributes, numbers, units, connectives, orders); the stages run in the code's order and claim positions.
* **`NaturalSearch`, `SearchOptions`**: filters are sets of values per field over a small catalogue; each SQL query is one read, count and items two of them, and the catalogue changes between two.
* **`ListingForm`, `UploadPages`, `VehiclePage`**: a handler that creates a listing looks for a duplicate and inserts in two steps. A file is of a kind and a size, and the checks of page and service are two operators each. A vehicle's page is mounted anew for each path: `OpenVehicle` changes the route, `MountPage` takes the page left away.
* **`BrowserSession`**: storage and cookies are shared, `refreshPromise` is not. A token is a number; cookie and CSRF value of one answer carry the same number.
* **Pages**: `useAsyncData` is modelled as written (the effect's key, kept data while loading, aborted answers, errors); a page that is left unmounts, its requests go on.

## 4 Runs

All configurations say `CHECK_DEADLOCK FALSE`: requests, executions, clicks and messages are finite in number, and when they are through the system really stops.

**The inventory files.** Rows 1 and 3 carry the same registration `CAA`; row 2 has none and passes validation only if the LLM repair answers. `TwoRows` is one chunk with rows 1 and 2, `ThreeRows` adds row 3 in a second chunk. So every kind of row the code treats differently occurs (upserted, only inserted, rejected by validation, refused by the index), together with the one relation between rows that crosses chunks. A row with quality `bad` behaves like a `vague` one whose repair failed, so it needs no row of its own. A second registration would only multiply independent copies of what `CAA` does; the theorems of section 6 hold for any number.

| run | instance | shows |
|---|---|---|
| `LocalOverlap` | one chunk, a service execution and an operator's, overlapping; database failures at every await; `CAA` contested by other jobs; 2 LOAD attempts | `TypeOK`, `LoadedChunksAreAccounted`, `CompletedListsEveryRow`, and `ImplementsLifecycle`: what the dealer sees is a run of `UploadLifecycle` |
| `LocalResume` | two chunks at work at once, every kind of file, storage failures and a crash between any two steps, then a rerun | `ResumeSkipsLoadedChunks`, `CountsMatchDatabase`, `FailedNoticeIsTrue`: loaded chunks are not loaded again, and counts, verdict and notice are the whole job's |
| `LocalDelivery` | three requests by both routes with and without photos, ambiguous publishes, failing storage, two executions | `ProcessingEnds`, `PublishedIsDecided` |
| `CloudOverlap` | two Step Functions executions of one redelivered message, database failures, orphan Lambdas | `TypeOK`, `ImplementsLifecycle` |
| `CloudLiveness` | one execution, two concurrent chunks, the API process dying at any time, storage failures | `MapResultAccountsForFile`, `ProcessingEnds`, `PublishedIsDecided` |
| `NotificationQueue` | two handlers and two sweepers on one event, both intakes; at most 3 mishaps out of crash, early redelivery, late answer, failing update, leaving recipient | `TypeOK`, `EachDeliveryMailsOnce`, `SentMeansMailed`, `PublishedIsDecided` |
| `AuthUser` | two handlers per part: one account with three tokens, its links and passwords, its failures | `TypesOK`, `ForksAreGraced`, `OverStaysOver`, `QuietSignInRestoresLimit` (`Sessions`), `CredentialsHold` (`Credentials`), `AttemptsLimited` (`SignIn`) |
| `Marketplace` | eleven parts: listings, photos, dealer review, readers, row stages, dictionary and search | `TypesOK`, `IndexIsOwn`, `LifecyclesHold`, `PhotosAreRight`, `FilesAreRead`, `RowsComeAsJudged`, `SearchIsHonest`, `ChoicesAreReal`, `SpellingsAreSettled` |
| `Frontend` | fourteen parts: every page and hook with state | `TypesOK`, `SessionSurvives`, `OwnersPagesAreTrue`, `ConsoleIsTrue`, `ListingIsAsMeant`, `PagesShowServer`, `BuyersPagesAreTrue` |
| `CloudIsolation`, `CloudHeaderOnly`, `BrowserLogout` | see section 7 | a statement of the repository that the program does not keep |

`Marketplace` and `Frontend` exchange handlers of one kind (symmetry); what they check is safety. `Frontend` does not follow a browser in which a request failed or two tabs crossed (`Followed`): `SessionSurvives` says nothing of it.

**Bounds.**

* *Ingestion.* Two executions are the fewest that overlap, and every hazard found between executions is between two. `LOAD_ATTEMPTS` is 2, as in `local-orchestrator.ts:38`. `LoadAttempts` is 2 (3 in the state machine) and `AggregateAttempts` 2 (4 there): one retry already reaches every state of the tables that a retry can leave behind. The two executions of `CloudOverlap` are interchangeable. `MaxConcurrency` is 2 where there are two chunks and concurrency is the question, 1 otherwise. Three requests suffice for a presigned upload, its confirmation and a racing second confirmation. Faults are split between runs to keep each exhaustive: database failures with overlap, crashes and storage failures with resumption, publishing failures with liveness.
* *Notification.* `MaxMishaps` 3 lets a lost answer, an early redelivery and a crash meet in one behaviour; `MAX_DELIVERY_ATTEMPTS` is 3 (5 in the code; 3 are as few as have a first, a middle and a last attempt); `MaxReceives` 5 leaves room for every redelivery three mishaps can cause.
* *auth-user-service.* Two handlers interleave at every await. `MaxTokens` 3 is a sign-in, a rotation and a sibling, or two sign-ins and a rotation; `MaxTime` 2 with `Grace` 1 passes the grace window; `TTL` 2 is reached. `MaxSessions` 1 makes the second sign-in evict. `MaxLinks` 2 is a link and its successor, `HistoryCount` 1 with three passwords a history that is trimmed, `LoginMaxAttempts` 2 with `MaxGuesses` 5 two locks and an expiry. The session and sign-in properties are proved for all values.
* *marketplace-service.* One listing and two requests (every race found is between two on one row); two photos, one branch and two edits; `MaxDecisions` 4 is two submissions with two decisions each. Bytes to the length of 6 (`MaxBytes`) include every state of the scanner: a string, an escape, nesting, a cut character and the end; the theorems hold for every length, and texts and files of every size. A file has at most two cells (`MaxCells`: two columns, or two rows), two executions and one accent: enough for a collision of columns, a row that is missing or cut, and every encounter of two writers and a reader. Three words (`MaxWords`) are what the longest claims take (a connective, a number, a unit, or a model of two words beside a make). Two vehicles, two filters, two of each kind of option and one change between queries.
* *web-frontend.* Two tabs, two requests of a kind under way, a few clicks (`MaxPanelClicks` 4, `MaxClicks` 2, `MaxSearches` 3), one change made elsewhere; `PresignExpiry` 3 with `Margin` 1 lets a cached link be handed out, withheld and expire; `InvalidCounts` {0, 3} with `ExportSize` 2 needs a second page of the export. `APPROVE_SELECTED_BATCH` is 1 (1000 in the code), so a selection of two goes in two requests of which the second may fail; `MAX_DYNAMIC_SPEC_KEYS` is 1 (20 there), so a second unknown column is cut.

**What the properties rule out**, beyond the obvious:

* `LoadedChunksAreAccounted`: a chunk is skipped for ever once its LOAD is logged. The log is written after the inserts and the rejections, by executions that share artifacts and race other jobs over registrations, so that a row could be lost in an isolation that was retried, or because the artifact came from another execution.
* `CompletedListsEveryRow`: the verdict is computed from two counts taken at different moments while chunks of other executions are at work. It is right because rejections are never removed and every row of a settled chunk is listed or rejected; a count before the fan-out has ended, or a verdict that ignores rejections, breaks it.
* `CountsMatchDatabase`: false when executions overlap (the later writer may have counted earlier) and when the database fails inside a fan-out (its tasks go on inserting after `run` has ended), hence stated for executions where neither happens.
* `MapResultAccountsForFile`: a Map that succeeded has loaded every chunk even though Load re-reads artifacts on each attempt.
* `EachDeliveryMailsOnce`: mails are bounded by deliveries plus sends whose success was not reported, however many sweepers retry.
* `PublishedIsDecided` (ingestion): the browser may confirm twice, and the later confirmation may write FAILED; still the job is decided and no message is left over.
* `ForksAreGraced`: two refreshes of one token both find it live; the re-read under the lock must leave one of them a sibling, never two rotations.
* `OverStaysOver`: reuse, a late rotation, a sibling in its grace window or an eviction could bring a family back after its last token went.
* `CredentialsHold`: of links (`LinksAreSpent`), also while confirmations race: once a link is marked used, whatever it has served and whoever is still confirming it are no more than those that had it open at that moment, so a confirmation that comes later never succeeds; and a link that lives beside a newer one was inserted after the newer's issuer had revoked, by a request that overlapped with it. That two overlapping confirmations both succeed the code does not rule out. `NoRecentPassword` survives handlers that die between write and trim, and holds as long as two password updates do not overlap.
* `AttemptsLimited`: bounds what racing guesses can gain: not more than were past the check when the account was locked.
* `IndexIsOwn`: the text is never of another edit, because it is saved with its columns; the embedding is, once two requests race, because it is not read back.
* `LifecyclesHold`: a save writes back the status its request read, so racing requests break the life cycle from step to step: an archived listing may turn LIVE although the request that does so was an edit. What remains true of every race is checked: a status comes, by the life cycle, from one the listing had since the first of the requests under way came; nothing older returns, and nothing it never was. Until two requests race, it follows step by step. A settled VERIFIED dealer is not sent back.
* `PhotosAreRight`: a photo called unmatched really had no vehicle when its turn came, whoever overlaps; and there is exactly one primary at rest until two handlers overlap or one dies between its statements: the code restores it in neither case.
* `FilesAreRead`: the pieces in which a JSON file arrives do not matter; a failed file could not have become an array. Whichever executions re-encode one object, read it half written or die over it, the rows they split are rows of the dealer's under their own numbers and columns, and only from the end may some be missing, unless two puts of a local file overlapped, after which nothing is said of the rows. Every row, in the dealer's words, is guaranteed if none read what another rewrote or left half written, the head was not cut inside a character and accents begin within it; for the last two see `CsvComesAsSaved` in section 7.
* `RowsComeAsJudged`: a rejected row does not shadow a good one with the same registration, and a row that is not accepted lacks something or comes after the accepted one; no row has more confidence than the weakest of its fields supports; a repair never replaces what was legible (the type excepted: a repaired type overrides the dealer's and is not marked).
* `SearchIsHonest`: whatever order words come in, a model is searched with its make, a number taken is not lost, no bound is invented, and what was widened is named.
* `ChoicesAreReal`: a facet's count is what choosing it finds; option lists are no older than TTL plus a load, however loads overlap.
* `SpellingsAreSettled`: a spelling that left the review was handled; the two readers agree; a promotion takes no spelling another make carries.
* `SessionSurvives`: any number of requests that find the token expired at once do not sign the user out. Two tabs whose refreshes cross may; they are excluded.
* `ListingIsAsMeant`: a submission that times out and is sent again while its first handler is still at work makes a twin (`NoTwins`, section 7). Of all runs it is checked that every twin comes from such an overlap, of two handlers of which neither saw the other's row, so a vehicle has at most as many rows within a window as requests were under way at once; and that specs are the last said.
* `PagesShowServer`: at rest the table of listings is the server's, unless a change has passed it by since it was loaded; hearts are those of the server for every vehicle whose last change was a toggle answered alone; the upload page accepts exactly what the service takes, except that it also accepts an empty archive, which the service refuses, and follows its job.
* `BuyersPagesAreTrue`: results, draft, filters and button are of what was asked last; a vehicle's page is of the vehicle in the URL, its similar vehicles are a complete ranking, and links to photos are good for longer than the margin when they are handed out.
* `OwnersPagesAreTrue`, `ConsoleIsTrue`: what a page shows at rest agrees with the server and with what was asked last, whatever answers came late or out of order. The window in which rows kept from the previous key stand under the new one is not at rest.

Each of the pages' properties is a conjunction whose parts the modules state next to the code they quote.

Each property of a passing run has at least one mutant in `PROJECT.json`: a definition of the model changed as a plausible bug would change the code, for which TLC finds the property violated under the same configuration.

## 5 Fairness

`LocalDelivery`: weak fairness of every request that has been sent, of the queue's handler and of every execution. Node resumes a handler whose await is settled and `setImmediate` runs the handler of a published message as long as the process lives; that it lives is assumed, because the code has no recovery: the queue is in memory (`in-process-job-queue.ts:24`). Dealers, operators, other jobs and faults are not fair: nobody is obliged to act, and a fault may happen any number of times.

`CloudLiveness`: the same for requests; SQS and the pipe deliver a message that is there; Step Functions goes on with an execution. The API process may die at any time, and the properties hold nevertheless.

`NotificationQueue`: workers go on (a call over HTTP is made only if a caller wants to), an invisible message becomes visible again, backoffs elapse, some process sweeps. Sweepers are immortal in this run. That is a real assumption: a sweeper that dies after `claimDueRetries` leaves a PENDING row without a next attempt, which no sweep will claim again (with a mortal sweeper TLC finds exactly that). The hazard is listed.

The other specifications state no fairness: users may stop at any time, and what is checked of them is safety.

## 6 Proofs

`tlapm` checks every proof in the eight proof modules.

| module | theorem | statement |
|---|---|---|
| `IngestionLocalProofs` | `TypeCorrect` | `Spec => []TypeOK` |
| | `InvariantHolds` | `Spec => []LocalInv`, the inductive invariant |
| | `LoadedAreAccounted` | `Spec => []LoadedChunksAreAccounted` |
| | `CompletedIsComplete` | `Spec => []CompletedListsEveryRow` |
| | `Refinement` | `Spec => ImplementsLifecycle` |
| | `ResumeSkips` | `Spec => []ResumeSkipsLoadedChunks` |
| | `CountsAreTrue` | without overlap and database failures, `Spec => []CountsMatchDatabase` |
| | `FailedNoticesAreTrue` | under the same hypotheses, `Spec => FailedNoticeIsTrue` |
| `ChunkProofs` | `ChunkStepAccounts`, `ProgressRefines` (lemmas) | a step of a chunk, by whichever executor, keeps `AccountInv`; whatever progresses without taking back is a step of `UploadLifecycle` |
| `IngestionCloudProofs` | `TypeCorrect`, `InvariantHolds` | `Spec => []TypeOK`, `Spec => []CloudInv` |
| | `MapAccountsForFile` | `Spec => []MapResultAccountsForFile` |
| | `CloudCompletedIsComplete` | `Spec => []CompletedListsEveryRow` |
| | `CloudRefinement` | `Spec => ImplementsLifecycle` |
| `NotificationsProofs` | `TypeCorrect` | `Spec => []TypeOK` |
| | `SentIsTrue` | `Spec => []SentMeansMailed` |
| | `NobodyMailsTwice` | `Spec => []EachDeliveryMailsOnce` |
| `AuthUserProofs` | `SessionsTyped` | `SessionsSpec => []SessionsTypeOK` |
| | `ForksGraced` | `SessionsSpec => []ForksAreGraced` |
| | `OverForGood` | `SessionsSpec => OverStaysOver` |
| | `QuietSignInRestores` | `SessionsSpec => QuietSignInRestoresLimit` |
| | `GuessingIsLimited` | `SignInSpec => []AttemptsLimited` |
| | `SpentStaysSpent` | `CredentialsSpec => [](LinksAreSpent /\ NoRecentPassword)` |
| | `AuthUserTyped`, `CredentialsAreSafe` | `Spec => []TypesOK`, `Spec => []CredentialsHold` (all three parts) |
| `MarketplaceProofs` | `ListingsTyped` | `ListingsSpec => []ListingsTypeOK` |
| | `IndexIsFresh` | `ListingsSpec => []IndexIsOwn` |
| | `LifecycleIsKept` | `ListingsSpec => StatusFollowsLifecycle` |
| | `DecisionsAreSound` | `DealerSpec => DecisionsStand` |
| | `ParsesAreSound` | `QueryParserSpec => []ParseIsSound` |
| | `SearchesAreHonest` | `SearchSpec => []RelaxationIsHonest` |
| | `OptionsRecent` | `SearchOptionsSpec => []OptionsAreRecent` |
| | `FacetsPredictChoices` | `FacetedSearchSpec => []FacetsPredict` |
| | `MarketplaceIndexIsFresh`, `MarketplaceLifecycles`, `MarketplaceSearch`, `MarketplaceChoices` | `Spec => []IndexIsOwn`, `Spec => LifecyclesHold`, `Spec => []SearchIsHonest`, `Spec => []ChoicesAreReal` (all eleven parts) |
| `CatalogueProofs` | `PhotosAreSound` | `ImagesSpec => [](OnePrimary /\ OutcomesAreTrue)` |
| | `RowsAreSound` | `RowStagesSpec => []RowsComeThrough` |
| | `SpellingsSettle` | `DictionarySpec => [](HiddenIsHandled /\ ServicesAgree) /\ PromotesUnclaimed` |
| | `FilesAreTheDealers` | `ReadersSpec => []RowsAreTheDealers` |
| | `RecordsAreYielded` | `StreamSpec => []YieldsTheRecords` |
| | `MarketplacePhotos`, `MarketplaceRows`, `MarketplaceFiles`, `MarketplaceSpellings` | `Spec => []PhotosAreRight`, `Spec => []RowsComeAsJudged`, `Spec => []FilesAreRead`, `Spec => SpellingsAreSettled` |
| | `MarketplaceTyped` | `Spec => []TypesOK` (all eleven parts) |
| `FrontendProofs` | `SessionIsKept` | `BrowserSpec => []SessionSurvives` |
| | `AccountPagesAreRight`, `DealerPagesAreRight`, `RegistrationComplete` | `[]AccountPagesAreTrue`, `[]DealerPagesAreTrue`, `[]RegistrationIsComplete` |
| | `OneSubmissionOneListing`, `SpecsAreAlwaysRight` | `[]SubmissionsAreOne`, `[]SpecsAreRight` |
| | `TableShowsServer`, `UploadsFollowed`, `HeartsAreRight` | `[]ListShowsServer`, `[]UploadsAreFollowed`, `[]HeartsAgree` |
| | `AdminPagesAreRight` | for fewer than 10000 jobs, `[]AdminPagesAreTrue` |
| | `ResultsAreOfTheUrl`, `FiltersAreHeldTogether`, `ButtonIsTrue`, `VehiclePageIsRight` | `[]ResultsAreWanted`, `[]FiltersHoldTogether`, `[]ButtonKeepsItsWord`, `[]VehiclePageIsTrue` |
| | `FrontendTyped` | `Spec => []TypesOK` (all fourteen parts) |
| | `SessionAlwaysSurvives`, `OwnersPagesAreRight`, `ConsoleIsRight`, `ListingsAreAsMeant`, `PagesAreTheServers`, `BuyersPagesAreRight` | `Spec => []P` for the six other properties of the run `Frontend`; `ConsoleIsRight` for fewer than 10000 jobs |

Each component also has a theorem of type correctness (`SignInTyped`, `CredentialsTyped`, `DealerTyped`, `ParserTyped`, `SearchTyped`, `OptionsTyped`, `FacetsTyped`, `ImagesTyped`, `RowsTyped`, `DictionaryTyped`, `ReadersAreTyped`, `StreamsTyped`, and for every page `BrowserTyped` to `SavedTyped`).

**Assumptions** are the named ASSUMEs of the modules, and TLC evaluates them on each run: rows are positive naturals, finitely many, registrations are finitely many, `ChunkOf`, `RegOf` and `Quality` are functions of the rows, the special values are distinct, limits are positive, service and operator executions are different; sets of handlers, photos and seeded makes are finite where they are counted; bounds of the models are naturals; a spelling is as similar to itself as can be (`DictionaryAssumption`); a page of an export holds at least one row, and a job that has counted nothing rejects nothing (`UploadPagesAssumption`); "none" is no type of vehicle; a file is of the byte classes that the lexer knows, a text of words of the lexicon (`StreamAssumption`, `ParserAssumption`); a page of results holds at least one vehicle, and a kept answer is good for some time (`FacetsAssumption`, `OptionsAssumption`). Executions, requests, faults, accounts, ids, clicks and passwords may be any sets.

**The argument about ingestion.** None of the properties is inductive. Three things have to be carried along.

* `AccountInv` (`ChunkProofs`): for every task, what has become of the rows of its chunk, given where it stands. A row of the chunk that the batch in hand does not carry has a rejection, and the same is true of the staged artifact from the moment it has been written, which is what makes the sharing of artifacts between executions harmless; while the task isolates, the rows already tried are listed or among the refused it carries; at `log` all are listed or rejected. `loadedLog` holds only chunks that are accounted for, and every vehicle fits its registration (`VehiclesSound`). Listings, rejections and the log only grow (`StoreGrows`), so the account of a task is not disturbed by the steps of others (`OthersAccount`).
* `RunAccounts` (`IngestionLocalProofs`): for every execution, what its counts tell. The chunks it skips are in `loadedLog`; once it counts, all its chunks are settled; a count above zero means that something is listed. So if no chunk failed and no rejection was counted, every row is listed, and the verdict carried to `WriteStatus` is justified by the tables. It stays so, because they only grow.
* `Started`: before the job row exists, requests, messages, executions and chunks have not begun.

`ResumeSkips` has an invariant of its own, `ResumeInv`: a batch and an artifact hold rows of their chunk only, whichever execution staged them; a chunk in an execution's skip set is never under way; and an execution has inserted nothing before it takes its skip set (`FreshRun`). It needs no assumption that executions do not overlap. `CountsAreTrue` adds that only the one execution under way changes the tables, and that no chunk is at work while it counts.

For the Step Functions deployment `ExecAccounts` says that a list of envelopes at `$.parallelResult.chunks` means that every chunk has been in `loadedLog`. As the log only grows, neither orphaned Lambdas nor a redelivered execution can take that back, although they go on writing.

`StepProgress` turns the invariants into a statement about steps (`Progress`), from which both `CompletedIsComplete` and the refinements follow.

**Notifications.** A right to mail is handed on and used up: a delivery that is received gives its handler one; a transient failure hands it to the row (`next_attempt_at`); a claim hands it to the sweeper; a mail uses it up, and a send whose success is not reported gives it back, once. Mails made and rights outstanding together never exceed deliveries and lost answers.

**Sessions.** `CallsSound` says what a handler between two awaits holds (a row that exists, a user). A step leaves the rows, edits some in place (owner, family and origin stay, and nothing inactive becomes active), or inserts one; a rotation does both. For `OverForGood`: a family that is over is left alone by each of these (`FamilyRests`), and no handler holds one of its rows but to revoke (`NobodyRevives`).

**Sign-in.** `GuessesInv`: an account is locked exactly from its limit on, in the row and in every copy a handler has loaded; while nothing overlaps, at most one handler is between its read and its write; and, by the state of the lock, wrong passwords are at most the count, or, with all whose password is being checked, within the allowance. A client's failures with its requests under way are an invariant by themselves.

**Listings.** While an id is not raced at most one request works on it, and what it has read is still so (`Undisturbed`): the row exists, its status may become what the request will write, and an entity whose embedding was not rebuilt has the row's details. Where requests race, `SeenInv`: what is seen of a listing only grows while requests are under way on it, and what each request will write comes by the life cycle from something seen.

**Notices** (`NoticeInv`). Between counting and `notify`, a verdict "FAILED" goes with an empty table, because a count of zero made it and no chunk is at work once an execution has left its fan-out; and `FinalStatus` has no other way to "FAILED". Like `CountsAreTrue` this needs that executions do not overlap and that no statement fails: with either, tasks that go on inserting make the notice false.

**Quiet sign-ins** (`CountsHold`). While nobody else writes, what a handler has counted is what the table holds, whatever it has evicted already; so the insert that follows leaves the limit, although sign-ins, siblings and rotations that raced before it may have passed it.

**Links and passwords** (`CredentialsInv`, `LinksInv`). Links need no assumption that nobody overlaps: whoever is about to insert a link has revoked those of its kind it found (`IssuersRevoked`), and each use of a link takes one from the confirmations that had it open. For passwords, while no two updates overlap, the handler past its check is alone there, with the password it loaded, and the history is either all of the past or its newest passwords, at least as many as are compared: a handler that dies before it trims leaves it longer, never shorter.

**Reviews** (`ReviewInv`). A decision that was made and is not on the trail is in the hands of a request or was lost, and a notice in the hands of a request is on the trail: these numbers add up at every step, which is what `TrailIsTrue` needs. A submission that is PENDING has no decision yet, so what passes the check before the first decision is at most every request under way.

**Photos** (`ImagesInv`). Whoever meets whom, the indexes give one row per path and at most one primary, and what a branch has recorded of a photo names a row that is there or one the dealer took down. While no two handlers have met, one is at work at a time, and may rely on the table as it found it: empty where it inserts a primary, with a primary where it inserts another photo, without one between a deletion and its promotion.

**Rows and dictionary** (`RowsInv`, `DictionaryInv`). Every row is its own reading, repaired only where the rules allow, whatever was answered for other rows of its batch; and what is accepted is each whole row whose registration no earlier whole row claims, so the first of them always comes through, and no row is trusted but as its cells or a repair deserve (`Trusted`). Entries only grow: what a reviewer has decided can be written, what was written can be dismissed, and a promotion that is alone holds entries with every spelling of its candidates that is carried by now.

**From words to filters** (`ParserInv`, `Sound`). Every stage of the parser is a walk over the positions, and a claim adds to what is understood and never takes from it (`Grown`, `WidenedTwice`): what was said before stays said, a bound becomes only wider, and a model's make is said together with it. So each stage keeps `Sound`, whatever the order of words, and what the language model is shown are the words that nobody took (`repair.consumed` is disjoint from them). **Widening** (`SearchInv`): a filter that differs from what the rules read has been dropped and is named; the ceiling is the last step, so when it goes no vehicle within it meets the rest (`NoneWithin`), unless one was sold meanwhile.

**Options and facets.** `OptionsInv` says of every load, of every kept answer and of the one that was served since when its rows are true (`ReadSince`): each row is what the catalogue had at some moment since then. An answer is good for `OptionsTTL` from the end of its load, and a load takes `MaxLoad` at the most, which gives the age that `OptionsAreRecent` allows, also when a slow load overwrites a newer answer. `FacetInv` says of a search under way that what it has read agrees with its filters as long as no vehicle came or went. That a bucket is what choosing its value adds is a statement about cardinalities: the vehicles a wider choice finds are those of the narrower one and, apart from them, those of the value.

**Files** (`ReadersInv`). Whatever runs do, what a run has split are rows in their places (`SplitSound`), since each reads a beginning of the file and a record depends on its own row only. While runs have not mixed, at most one of them rewrites the object, each other may rely on its encoding as it was inspected (`RunRelies`), and a partial object has its writer. With no two columns of one name, a record has all the cells of its row (`RecordIsCells`).

**The scanner** (`StreamSafe`). `iterateJsonArray` keeps nine fields for each byte that may arrive next, the reference (`IsArrayFile`, `ElementsOf`) looks at the whole text; what relates the two is `Scanning(t, s)`, where t is the text scanned so far. It says that exactly one of these is the case: nothing but blanks has come; a value is due after the bracket or after the last comma outside of nested values (`AwaitsValue`); a value has ended and been kept (`HasValue`); one is under way, its parts are the bytes from its first to the last, and its depth and string flags are the lexer's state within it (`Collecting`, `Shape`, `Lifted`: the state inside a value is that of the text without the outermost bracket); the array is closed and `records` are its elements (`Done`); or the text is `Hopeless`: *no* text that begins with it is an array. Hopeless is what makes the invariant inductive. The scanner notices some errors at once and others only when the value ends, or not before the end of the file (`Doomed`); that it is right to fail at last follows from what was already true at the first wrong byte. Between chunks the bytes of a character that was cut are held back, and the scanned text is what has arrived without them (`DecodedSoFar`).

**How folds are followed.** Parser, scanner and buckets are folds, and an induction theorem with an operator parameter cannot be instantiated here. The proofs use that a set of natural numbers has a least element (`LeastNatural`, from `WFMin`): for each fold a lemma gives the row of its intermediate results, one for each prefix (`WalkIsARow`, `LexedIsARow`), and what holds of the first and is handed on from each to the next holds of all, as otherwise there were a first place where it fails (`Onwards`). This gives what the parser and the lexer compute for every input.

**Pages.** Every page is proved by saying who can still be heard. *Search*: only the search of the URL (`SearchInv`); *landing page*: only the count of what is chosen, and none while the timer runs (`HomeInv`); *vehicle page*: only the fetch of the page that is mounted, while cached links keep the margin they were signed with (`VehicleInv`), and the similar vehicles are a ranking that is complete and without repetition. *Table of listings*: once every mutation of a car has been told, the answer under way or the row shown is what the server has, and a single untold one is made up for by its patch (`ListInv`). *Hearts*: a fetch that is alone brings the server's list; a click that is alone has changed just its vehicle in the list it will restore (`HeartsInv`). *Uploads*: an upload under way has a file the service takes or a job of the dealer's; a screen that polls shows no terminal status, and one that has stopped shows its job's, which only `FAILED` may replace (`UploadsInv`). *Account pages, profile, registration*: a request carries the role or link it was made with, and what it may do to the page was decided when the page was there (`AccountsInv`, `DealerPagesInv`, `RegistrationInv`). *New listing*: of the rows a handler saw when it looked none is of the same vehicle and recent, and its own are among them (`NewListingInv`); *specs*: the open form has what was said of every field it manages and what is stored of the others, and a column of the row that was dropped is noted (`SpecsInv`). *Filters*: what is rendered and what waits for the render both have a page chosen for their filters, and while nobody hurried the draft is what was rendered (`FilterInv`). *Console*: an administrator's own work is in the rows at rest and in the answer on its way (`ConsoleInv`). *Browser*: while no request failed and no tabs crossed, one refresh is at work, storage and cookies agree, and an answer on its way is of a live token (`BrowserInv`).

The properties of the components lift to the composed specifications of `MCAuthUser`, `MCMarketplace` and `MCFrontend`, since a part that does not move stutters (`SumOfParts`, `PartsRun`); so the theorems are about the very specifications and properties that TLC checks.

**What the proofs found.** `ConsoleIsTrue` could only be proved for fewer than ten thousand jobs: `admin-reads.repository.ts:223` rounds the rates it sends to four decimal places, and `AdminReportsPage.tsx:75` multiplies them by the number of jobs to get counts back. Below ten thousand the rounding restores each count exactly (`RateRecovers`); with more jobs the slices may be off by one or more. TLC's instance has a handful of jobs and cannot show it. The hazard is listed.

The models of search and readers say some things for the sake of the proofs. The state of the lexer in `FileReaders` is a mode with the brackets that are open, and its step an operator of its own (`Lex`), so that the state inside a value can be compared with that of the whole text; the two sides of a bound have names (`MinOf`, `MaxOf`).

**Only model-checked**

* liveness under fairness (`ProcessingEnds`, `PublishedIsDecided`), which is beyond the prover, and the three expected violations of section 7.

Every invariant and every action property that a passing run checks is stated by a theorem.

`CountsMatchDatabase` and `FailedNoticeIsTrue` are proved under the hypotheses named above, which are those of the run that checks them (`LocalResume`), and `ConsoleIsTrue` for fewer than ten thousand jobs.

## 7 Where program and documentation disagree

Three runs have expectation "violation"; the quotations are in `PROJECT.json`.

| run | the repository says | the program does |
|---|---|---|
| `CloudIsolation` | a chunk that breaks makes the job PARTIAL (`etl-state-machine.asl.json:101`, `:261`) | the Map's Catch puts an error object where Aggregate calls `chunks.some`: Aggregate throws on every attempt and the job is FAILED although other chunks have landed |
| `CloudHeaderOnly` | a header-only file is COMPLETED with zero counts (`:82`) | Aggregate's Parameters read a path that only `ProcessRows` creates; the job is FAILED (or stays PROCESSING) |
| `BrowserLogout` | "refresh tokens, with logout" (`auth-user-service/README.md:9`) | with an expired access token the refresh before the request changes the CSRF value the logout has already read; the guard refuses it and the session stays alive |

The following are stated in the modules as definitions that no run checks, because the code does not keep them; adding one as an invariant to a configuration of its module shows a counterexample.

| definition | the repository says | the program does |
|---|---|---|
| `RetryIsIdempotent` (`IngestionStore`) | the `succeededChunks` skip makes redelivery harmless (`sqs-job-queue.ts:34`) | only the local orchestrator asks `succeededChunks`; a second delivery inserts rows without a registration again |
| `NoRowOverwritten` (`IngestionStore`) | duplicates within a job "die here, before fan-out" (`validate-rows.stage.ts:57`) | validation sees one chunk at a time; the later upsert overwrites silently |
| `NoDoubleSend` (`Notifications`) | a caller that retries cannot cause a double send (`notifications.controller.ts:50`) | `handle` stops only for a row already SENT; a retry during the first send mails again |
| `GraceIsForRotation` (`Sessions`) | the grace window is for two tabs that race a rotation (`auth-security.constants.ts:11-16`) | any recent revocation (logout, eviction, reset) is graced as well |
| `PairIsKnown` (`RowStages`) | a model resolves under its own make only (`dictionary-snapshot.ts:64-67`) | a repaired make keeps the model of the old one |
| `BulkObeysFormBounds` (`RowStages`) | bounds of the form hold for spreadsheets (`validate-rows.stage.ts:13-18`) | bulk rows pass some numbers the DTO refuses |
| `LinkedSpellingResolves` (`Dictionary`) | "Future uploads with this spelling will resolve to" the make (`AdminDictionaryPage.tsx:65-69`) | the snapshot counts a make once per alias; two aliases that differ only in spaces resolve to nothing |
| `CsvComesAsSaved` (`FileReaders`) | "Save as CSV (UTF-8). Excel's "Save As CSV" also works" (`BulkUploadGuide.tsx:91`) | the encoding is judged by the first 64 KB (`csv-reader.ts:28`, `:67-81`): a Windows-1252 file whose accents begin later is read as UTF-8 and gets replacement characters; a UTF-8 file whose head ends inside a character is re-encoded and garbled |
| `NoTwins` (`ListingForm`) | "a client that timed out and resubmitted must not end up with two identical listings" (`listing.service.ts:39-40`) | `findRecentDuplicate` and `create` are two awaits without a lock or a unique index: the second request looks before the first has inserted, and both insert |
| `CreatedIsListed` (`ListingForm`) | "Identical resubmissions inside this window are treated as one listing" (`listing.service.ts:21`) | the guard compares seven columns: a second vehicle of the same kind is answered with success and never listed |
| `MileageIsSimilar` (`VehiclePage`) | "Similar mileage - within 20%" (`recommendations.repository.ts:171`) | the quotient of two integers is cut: anything below twice the mileage counts |
| `OnlyTheGate` (`DealerPages`) | until they are VERIFIED dealers get the gate only (`DealerDashboardPage.tsx:65-68`) | `/dealer/profile` has no guard (`App.tsx:107`) |
| `ReviewCanBeSent` (`DealerPages`) | every step is responsible for its fields (`DealerRegisterPage.tsx:22`) | a refinement is skipped while a field is missing, so Review may be reached with errors and its button do nothing |
| `RangeIsOfReport`, `OneRequestPerRow`, `SuccessIsCompletion` (`AdminConsole`) | a report stands under its range; a busy row is disabled; "Successful" jobs are completed | kept figures appear under the new heading until the answer; one `busyId` for all rows; the slice is all that is not failed or partial |

Other behaviour a reader of the code would not expect, all of it in the models:

* *Sessions and accounts.* Reuse detection inside `rotateTokenPair` is rolled back by its own exception; the caller revokes again. Google sign-in reactivates an account an administrator deactivated. Dealer registrations are limited by the failures of buyers' registrations; limits of resets and resends never fire. A logout racing a refresh in one tab brings the session back; refreshes of two tabs can cross on the CSRF value and sign out every tab. A mail that could not be sent leaves the older links dead.
* *Dealers and listings.* A resubmission that read an earlier status can send a VERIFIED dealer back to PENDING; the second rejection of a dealer has the key of the first and is not mailed. A created listing is LIVE at once (`dto.status ?? 'LIVE'`, `listing.service.ts:52`), though `listings.api.ts:39` says it waits for review. Archiving and unarchiving publishes a listing that was PENDING_REVIEW or DRAFT. A redelivered job places photos again that the dealer deleted; a photo may be skipped because a duplicate row of its registration was rejected. A PATCH of the whole form overwrites what another tab changed, and blank optional texts are left out of it.
* *Uploads.* A head that ends inside a character makes a valid UTF-8 file be re-encoded; accents beyond the head never are; overlapping executions can encode twice, read a file that another is still writing and lose its end, or mix their writes; an execution that dies over a put leaves half a file. An empty archive passes the upload page and is refused by the service. A repair naming a row outside its batch is applied. An upload whose PUT failed after its bytes arrived is published while the page says it failed. A notice whose log fails turns COMPLETED into FAILED after the page stopped polling.
* *Search.* A misspelt make is recognised with any following word attached, which is then lost; "between 3 and 5 million" gives a minimum of 3; "double cab" is consumed and filters nothing; of models of two makes the first is kept. `priceCeilingExceeded` is set by a plain relaxation although the price was not raised. A query parameter `=false` is read as true. Facet counts leave out the rank gate of searches by words.
* *Pages.* A search by words from the hero drops the chosen make and budget while the chips show them. A price typed just before "Clear all" comes back. A failed heart restores an older list as a whole. Answers to a dealer's save whose other half failed drop typed details. Links to photos die while a vehicle's page stays open.

## 8 What is left out

* **Statements are atomic.** A statement that fails leaves no effect; one that succeeds and whose answer is lost is a failure of the next step. Two INSERTs of the same job that meet in the global index while both are in flight are not modelled.
* **In the ingestion models the row stages are one step.** PARSE_NORMALIZE, the normalisation by LLM, VALIDATE_ROWS, ENRICH and EMBED write artifacts whose keys hold stage and chunk; which of them an execution had reached when it failed makes no difference to anything stated there. What they compute is in `RowStages`, `ListingForm` and `Dictionary`.
* **Dealers editing or deleting listings while their job runs** are left out of the ingestion models: after that, "listed" is no longer what the job is about. They are in `Listings` and `VehicleImages`.
* **Requests refused before a job exists** (unverified dealer, wrong format, too large) change nothing.
* **A failing fetch in `validateFile`** is treated as an exception of `run` or of the Lambda; a missing object counts as an unreadable file.
* **`FAILED` is unconstrained** in `UploadLifecycle`: the catch blocks of the API, of `run` and of the state machine write it over anything, also over COMPLETED. The models contain those paths; the abstract specification admits them rather than hiding them.
* **Step Functions' retries of Lambda service faults**, and of row stages whose effects are upserts of the same rows, are not told apart from first attempts.
* **Notifications**: templates, the list endpoint and an unconfigured mail adapter (it logs instead of mailing, so `SentMeansMailed` is about a configured one). The adapter throws `SesUnavailableError` only, so the handler's branch for permanent errors is reached by a vanished recipient and by a failing `markSent`.
* **Data is small.** Words, cells, specs, prices and similarities are members of small sets that have one member for each case the code tells apart; what the language model answers is any member. JSON.parse is abstracted to matching brackets and closed strings. SQL ranking is abstracted to what a filter or an order does to a set.
* **The components of the three sum runs do not act on each other.** Where two do share state in the program (photos and the image branch, dictionary and search, review and audit trail, browser and refresh) they are in one module.

## 9 Not modelled

* `api-gateway`: it routes, authenticates and limits without state that outlives a request, except for counters of a library.
* `components/ui`, `components/layout` of web-frontend: they render what they are given.
* Embedding vectors, prompts and SQL text: numbers and wording that no property here tells apart.
* Migrations and seeds: the indexes, columns and aliases the models rely on come from them, but they run once.
* Terraform, CI, `performance`, `e2e`, `scripts`, data and vehicle generators: configuration and test tools.

## 10 Plan

Done: ingestion with both executors and its abstract specification, notification, sessions and accounts, dealer review, listings, photos, search, dictionary and the pages, with proofs for every property of a passing run except liveness. Next:

1. The header-only and isolation runs of the cloud executor restated as theorems: under which data each Aggregate route ends as the documentation says.
2. Compose `DealerReview` with `Notifications` through the idempotency key, and `BrowserSession` with `Sessions`, as refinements: the browser's `active`/`rotated` are what `Sessions` makes of one family.
3. An abstract specification of a session (a line of tokens of which the latest is good) that `Sessions` implements while nothing is graced.
