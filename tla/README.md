# A verification development for Thirdeye

Thirdeye (`goengine/`) collects Government Orders from the web sites of Tamil Nadu,
archives the PDFs, extracts fields from them, has people review the fields and publishes
what was approved. A server (FastAPI over SQLite or Turso) holds the registry, the review
workflow and the public portal; agents on other machines crawl, download and parse, and push
what they find to the server.

This directory models that program in TLA+, model-checks the models with TLC and proves
theorems about them with TLAPS. `PROJECT.json` maps every definition to the lines it stands for.

## 1. Inventory

Everything below is under `src/goengine/`.

### How the parts run

* The server's routes are synchronous functions that FastAPI runs in a pool of threads, each
  with its own connection (`workbench/deps.py get_conn`).
* Connections are opened with `isolation_level=None` (`db.py:198`): every SQL statement
  commits by itself. `db.transaction()` exists and nobody calls it. So the atomic step of
  every module here is ONE STATEMENT, and a handler is a sequence of them which other
  handlers, and a crash, may come between.
* An agent (`cli.py cmd_agent_daemon`) is a single-threaded process with a local database of
  its own; it talks to the server only by HTTP, and posts may be lost, answered late or
  repeated (`_post_with_retry`).
* `utcnow()` has a resolution of one second.

### Components

| Component | State | Operations | What is hard | What makes it correct |
|---|---|---|---|---|
| extraction queue (`operations/extraction_queue.py`, `workbench/agent_routes.py`) | `extraction_requests` | enqueue (3 kinds), claim, progress, yield, complete, cancel, delete by a reset | every operation reads, then writes; two agents, administrators and a reset interleave | one agent per request, a finished request stays finished, each subject pending once, the queue drains |
| agent daemon (`cli.py`) | the loop's position, its local database | poll, work a source, report, yield, complete, fail | lost posts and answers, retries, crashes on both sides | no two agents on one request, COMPLETED only when everything was tried, every slice ends, a cancellation stops the agent |
| document sync and ingest (`pipeline.py`, `agent_routes.py sync_document`, `cli.py _sync_documents`) | agent: `agent_synced_at`, `agent_sync_error`; server: documents, extractions, records | push one document with its OCR text, store, record, parse, recover an OCR gap | lost answers and repeated pushes, a crash between two statements, stamps with one second | a document reaches the server once, its text is not lost, a reviewed record is not replaced |
| repository and acquisition (`repository.py`, `acquisition.py`) | `documents`, files, blobs | store, record a version, verify, acquire, redownload | content that changes and changes back | every version kept, versions numbered without gaps, one failure never stops a batch |
| crawler (`discovery/crawler.py`, `discovery/adapters/`) | `discovered_documents`, `crawl_runs`, `crawl_evidences` | crawl a source, register links, set status, pending downloads | budgets, cyclic listings, a page that fails half way, two crawls at once | every link registered once, a run that reports what it saw, no status ahead of what exists |
| fetching and diagnostics (`fetching.py`, `operations/network_diagnosis.py`, `network_diagnostics.py`) | diagnostic jobs, `network_connectivity_tests` | get with its TLS fallback, the staged probe, a background job over all targets | every way a request can end, a redeploy under a job | no unverified read unless allowed, a completed job is whole |
| review (`review.py`, `operations/review.py`, `operations/backlog_campaigns.py`, `go_identity.py`) | `go_records`, `go_fields`, `escalations`, `backlog_campaigns` | list a queue, decide or reprocess a selection, correct, approve, reject, escalate, run a campaign, compute the identity | check-then-act by two reviewers, a selection worked off later | no value lost, no gap approved without the override, an identity made of what the record said |
| revisions (`operations/republish.py`) | `go_record_revisions` | request, submit, approve, reject | two drafts of one record | a reviewer who is not the editor, versions that only grow |
| publication and geography (`operations/publication.py`, `geography.py`, `departments.py`) | states, districts, departments | add, set status, refresh certification, publish, unpublish | the certification checked is stale when used | what is published has its evidence on record |
| source registry (`registry.py`, `operations/sources.py`) | sources, source versions | create, edit, retire, clone, advance | a version number read, then written | no edit loses what it replaces |
| source certification (`certification/sources.py`, `operations/jobs.py`) | certifications, jobs | certify one, certify all | two certifications of one district at once | a failure shows at every district it concerns |
| golden set and benchmark (`certification/`, `benchmark.py`) | golden documents, annotations, runs | add, annotate, score, calibrate | supersession by two people, documents that change while they are scored | the newest annotation in force, a run that accounts for every field |
| reset and deduplication (`operations/reset.py`, `operations/dedup.py`, `operations/ocr_recovery.py`) | most tables | delete what may be deleted, in an order that keeps foreign keys | a statement that fails half way | nothing dangling, archived documents kept |
| triage and quality (`operations/triage.py`, `operations/quality.py`) | none | sort records into queues, score, count | several queries over the same rows | the numbers agree, what is listed as ready can be approved |
| accounts (`operations/auth.py`, `agent_auth.py`, `citizen.py`, `engagement.py`) | users, sessions, keys, citizens, bookmarks, downloads | set up, add, log in, expire, revoke, bookmark, download | deactivation, revocation and a reset between two statements | an administrator remains, a revocation stands, references hold |

Section 6 says what is not modelled.

### How they interact

A cancellation, a resync and a reset reach an agent only through `extraction_requests`: the agent
sees them in the answer to its next progress report. The agent's documents reach the server
through `sync_document`, which runs the same `ingest_document_bytes` as a manual upload, which
calls the repository, the parser and the crawler's `set_status`. A correction or an approval in
review recomputes the identity. A certification run refreshes the districts that publication reads. A
reset deletes what all of them wrote, then enqueues a resync.

## 2. Modules

| Module | What it is | Code |
|---|---|---|
| `RequestLifecycle` | what the queue promises: abstract specification, every operation one step | docstrings and code of `extraction_queue.py` |
| `ExtractionQueue` | the handlers, statement by statement | `extraction_queue.py`, `agent_routes.py:165-217`, `operations_routes.py:431-471`, `743-757`, `reset.py:49,114` |
| `ExtractionQueueHistory` | `ExtractionQueue` with two history variables: the subjects that may have been enqueued twice, the threads that act on what no longer holds | |
| `MCExtractionQueue` | instances of it, in lanes | |
| `ExtractionQueueProofs` | theorems about it; its steps are those of `RequestLifecycle`, but for the threads another has overtaken | |
| `AgentDaemon` | the agents, composed with `ExtractionQueue` | `cli.py:459-1041` |
| `AgentDaemonHistory` | `AgentDaemon` with two history variables: the requests a yield without a caller put back, and those some agent has worked through | |
| `MCAgentDaemon` | instances of `AgentDaemon` | |
| `MCAgentDaemonHistory` | instances of `AgentDaemonHistory`, in lanes | |
| `AgentDaemonProofs` | theorems: types of the composition; it queues as `ExtractionQueue` does; an id that names one request, no two agents on one request, an honest completion | |
| `DocumentArchive` | documents and records on the server: archive, parse, reprocess, decide, clean up | `repository.py:445-520`, `acquisition.py`, `pipeline.py`, `review.py`, `operations/dedup.py`, `agent_routes.py` |
| `MCDocumentArchive` | instances of it | |
| `DocumentArchiveProofs` | theorems about it | |
| `DocumentSync` | agents that push documents and OCR text, composed with `DocumentArchive` | `cli.py` (sync), `operations/ocr_recovery.py` |
| `MCDocumentSync` | instances of it | |
| `DocumentSyncProofs` | theorems about the composition | |
| `RecordReview` | fields, corrections, decisions, identity and revisions of a record | `review.py`, `go_identity.py`, `operations/republish.py`, `extraction/metadata.py:550-660`, `workbench/app.py:858-1092` |
| `RecordReviewHistory` | `RecordReview` with a history variable: the records whose identities were computed at once | |
| `MCRecordReview` | instances of it, in lanes | |
| `RecordReviewProofs` | theorems about it | |
| `Publication` | source registry, certification, geography, publication | `registry.py`, `operations/sources.py`, `certification/sources.py`, `operations/geography.py`, `departments.py`, `publication.py` |
| `PublicationHistory` | `Publication` with two history variables: where calls met or were cut off | |
| `MCPublication` | instances of it, in lanes | |
| `PublicationProofs` | theorems about it | |
| `Fetching` | operators: what one fetch returns or raises, and the cause it is given | `fetching.py`, `operations/network_diagnosis.py` |
| `Discovery` | crawls, downloads and parse runs of the command line, over `Fetching` | `discovery/crawler.py`, both adapters, `acquisition.py`, `pipeline.py` |
| `Diagnostics` | background diagnostic jobs, over `Fetching` | `operations/network_diagnostics.py` |
| `Acquisition` | `Discovery` and `Diagnostics` beside each other | |
| `MCAcquisition` | instances of it, in scenes | |
| `AcquisitionProofs` | theorems about it | |
| `Accounts` | staff, agent keys, citizens, downloads, and a reset under them | `operations/auth.py`, `agent_auth.py`, `citizen.py`, `reset.py`, `workbench/app.py`, `deps.py` |
| `Evaluation` | golden set, certification benchmark, failures, calibration | `certification/golden.py`, `benchmark.py`, `failures.py`, `calibration.py` |
| `ReviewDesk` | queues, selections, escalations, campaigns, cleanup, scores and counts | `operations/triage.py`, `review.py`, `quality.py`, `dedup.py`, `backlog_campaigns.py`, `workbench/app.py:879-1021` |
| `Workbench` | `Accounts`, `Evaluation` and `ReviewDesk` side by side | |
| `MCWorkbench` | instances of it, in scenes | |
| `WorkbenchProofs` | theorems about it | |

`AgentDaemon` is composed with `ExtractionQueue` and `DocumentSync` with `DocumentArchive`. `RecordReview`, `DocumentArchive` and `ReviewDesk`
look at the same tables with different questions: the values of one record, the rows of one document, the selection of many records; what one of
them abstracts (a value, the extraction, the identity) another has. `Publication` takes from them only whether a document was
filed and a record approved.

### ExtractionQueue

`row[i]` is the row of `extraction_requests` with id `i` (`Null` when there is none): its kind, its
department filter (`scope`), its status, the agent key that claimed it, whether `started_at` is set,
whether the error says that an administrator cancelled it, and `sources_completed` (`done`; the
other counters behave like it). `lastId` is the AUTOINCREMENT counter: an id is never used
again, even after a reset. `call[h]` is what server thread `h` is doing: the operation, the agent
key, the id and the fields of the body, the statement it executes next (`pc`), the status its SELECT
saw (`seen`), and the answer.

An `Arrive...` action starts a handler on a free thread; the other actions are one statement each:
`FindPending`/`Insert` (enqueue), `ClaimSelect`/`ClaimUpdate`/`ClaimLoad` (claim),
`Require` (`_require_claiming_agent`), `ReportRead`/`ReportWrite`, `YieldRead`/`YieldWrite`,
`CompleteRead`/`CompleteWrite`, `CancelRead`/`CancelWrite`, `ResetDelete`. `Return` sends the answer.
`ServerCrash` stops every handler where it is. `Routes` restricts the operations in use, so that a run can
look at one question at a time.

Left out: the audit rows, the time stamps other than `started_at`, the joins that turn ids into names in
`claim_payload`, the permissions of the caller (`RequireCertify`, `can_act_on_state`).

### ExtractionQueueHistory

An enqueue looks for a pending request in one statement (`FindPending`) and inserts in a later one, and nothing in the table refuses a second one. The variable `doubled`, which no step looks at, holds the subjects (a resync, the
OCR recovery of one scope) of which two calls found nothing pending before either inserted (`Together`), or of which a late report or yield made an ended request pending again (`Revived`), until none of the
subject is pending or about to be (`Drained`). `OnePendingPerSubject` promises of every other subject that it is pending once, with any number of calls at work.

Every handler reads first and writes later, in autocommitted statements of their own. `Promise(c)` is what a thread has established when it reaches its next statement (it is the claimant, the status is still the one it saw, no request of
the subject is pending), and the variable `overtaken` holds the threads whose promise a step of another thread has broken (`Loses`), until they have read it anew or are done. `StepsOfLifecycle` says that every step is
one operation of `RequestLifecycle`, or nothing that it sees, but for the steps of such threads: within one handler the guards of `extraction_queue.py` are complete, between two nothing keeps them true. With one thread nobody is ever
overtaken, and it is the refinement that `queue_serial` checks.

### AgentDaemon

`agent[a]` is where the loop of agent `a` stands: the post it is about to make or waits for (`pc`), or
`"work"`, `"parse"` and `"cleanup"` between posts; the request it holds; the source it is at; the sources done and
failed; the passes of discovery in a row that found nothing there (`empty`) and whether this round brought anything (`fresh`); the attempts made; and
the server thread that serves its post. `work[a][s]` counts the documents of source `s` in the agent's own database that have no record yet: it
survives slices and crashes, as the code relies on.

`Round` is a pass of discovery (until `ExhaustedAfter` passes in a row found nothing), a batch of downloads and the report on them; any pass may find more, and a slice begins at the first source again. `Parse` is one turn of the loop of
`cli.py:701`: it takes the oldest document without a record and reports. A document whose parse fails gets no record (`pipeline.py:182-199` counts it as processed), so it is the oldest the next time too: the sources in `Unreadable` are those whose documents
are such. Behind the loop the source is finished (`FinishSource`, when discovery is over and the round brought nothing) or another round begins (`RoundEnds`). `BudgetSpent` hands the request back. The budget is
wall-clock time and anything uses it up, an empty pass as well, so it may be spent whenever it is looked at: before a source and after a round, never in the parse loop.

A post and its answer are two actions with the server's statements in between; `PostLost` and `AnswerLost` lose one
of them, `AgentCrash` and `ServerDown` restart a side. What happens then is `Lost`: another attempt when the post is one
that `_post_with_retry` makes, the failure of the source when the exception is caught per source
(`cli.py:770-783`), the failure of the request otherwise. An answer 403 or 404 to a report counts as still active, as
`_report_progress` has it.

`Abandon` says whether a caller may give up on a call that the server is still executing (a client timeout of 120
seconds against a thread that is stuck). Both runs set it to TRUE, and the theorems assume nothing about it.

### AgentDaemonHistory

An agent that gives up on a yield after 120 seconds sends it again, fails, polls and may get the same request while the server still executes the first. `strayed` holds the requests that a yield without a caller has put back in the queue
(`StrayYield`); `ExclusiveWork` speaks of the others. `tried` holds the requests that some agent has got behind the last source of; `HonestCompletion` says that no other is ever COMPLETED, however late a completion is carried out. No step looks at
either.

### DocumentArchive

`link[u]` is the status of the row of `discovered_documents` of a URL (a pair of source and url); `doc[d]` is a row of
`documents`: its URL, its content, its version, the row it supersedes, and the content of its blob, the durable copy.
`rec[r]` is a row of `go_records` together with the extraction it was made from: its document, whether pages without text
remain (`needsOcr`), whether its fields were written, its review status. `disk` is the content-addressed directory, which a
redeploy loses (`Crash({})`). A content stands for the bytes of a PDF and their SHA256. `call[h].pc` names the
next statement of thread `h`, as in `ExtractionQueue`.

An operation is a chain of these statements. Sync and ingest: `FindLink`, `InsertLink`, `Store`, `FindLatest`,
`InsertDocument`, `SetDownloaded`, then `LookUp`, and, when a record has to be made, `Extract`, `InsertRecord`, `InsertFields`,
`SetParsed`, the removal of the record it replaces (`DropFields`, `DropRecord`), and for a sync `StoreBlob`. Acquire: `Fetched`
(or `FetchRejected`, `FetchFailed`) and the chain from `Store` to `SetDownloaded`. Parse: the chain from `Extract`. Reprocess: `ReprocessRead`
and the same chain. Approve and reject: `DecideRead`, `DecideWrite`, `DecideMark`. Cleanup: `ListDuplicates` and one removal after the other.

Abstractions. `Extract` stands for the extraction, the OCR and the categories: their rows are read by the handler that wrote them
only, until the record is there. It may fail: a PDF that no backend can open ends the handler with a 500, and the document stays without a record (`text.py:217`). Whether OCR finds text is a choice (`StillWeak`). `set_status` reads and
writes unless the value is there: both amount to one write. Answers other than a sync's are dropped, because nobody acts on them. Corrections,
escalations and revisions, the rows a reset deletes, and the compute of the identity are not in this module.

### DocumentSync

`local[a][u]` is the document an agent holds for a URL in its own database: the content, the OCR text found,
`agent_synced_at` set (`synced`), `agent_sync_error` set (`error`), and whether the OCR ran before the sync, in the same second or after it (`ran`: both `ran_at`
and `agent_synced_at` are whole seconds). `todo[a]` is the rest of a batch of `_sync_documents`, `post[a]` the post it waits for. `Push` starts the
server's handler; `Answered` is the answer, `PostLost`, `GiveUp` (the 120 seconds of httpx), `AgentCrash` and `ServerCrash` are what may come instead; after
`GiveUp` the server carries on and `Discard` drops its answer. `StartBatch` reopens the documents that
have OCR text the server lacks (`ReopenGaps`); `RetryFailed` and `ResyncAll` are the operator's commands. `Visit` lets reviewers decide records and
staff start a cleanup on the same server meanwhile.

### RecordReview

`rec[r]` is the status, version and identity of a record, and whether it was approved with the override; `rows[r][n]` are the rows of `go_fields` of
field `n` in the order of their ids, each with its value, the row that superseded it and the revision in whose name it was written (the audit trail says so); `rev[v]` is a row of
`go_record_revisions`. An identity is the pair of values it was computed from, with `own` for the suffix `-R<id>` given on a collision; `go_url_slug` follows
from it. Values are abstract: all that matters of one is whether it parses.

The chains: parse is `InsertRecord`, `InsertField` for every field found, identity; correct is `FieldRead`, `InsertRow`, `Supersede`, and the identity when
the field belongs to it; the identity is `IdRead`, `IdCheck`, `IdWrite`; approve and reject are `DecideRead`, `DecideWrite`; a revision is requested by `RequestRead`,
`RequestWrite`, submitted by `SubmitRead`, `SubmitWrite`, approved by `RevisionRead`, `RecordRead`, the statements of a correction for each change, `VersionWrite`,
`RevisionWrite`, and rejected by `RevisionRead`, `RevisionWrite`. `recompute` is the command `backfill-identity`. Left out: the candidates that lost, evidence and confidence of a
value, escalations, the link's status (in `DocumentArchive`), the deletion of records (there as well).

### RecordReviewHistory

An identity is compared with those of all other records in `IdCheck` and written in `IdWrite`, and no index makes it unique. The variable `tied`, which no step looks at, holds the records for which two calls were between these
two statements with the same identity at the same moment (`Tied`). `IdsUnique` promises of every other record that its URL is its own, whatever is parsed, corrected and recomputed beside it.

### Publication

`src`, `versions`, `certs` are the tables of the source registry; `state`, `dist`, `dept` those of the geography; `filed` and `approved` stand for what ingest and
review contribute: whether a source has documents in a bucket of `categorize.py`, whether a record of the bucket is approved, now, once or never. A handler is
a chain of statements as elsewhere: creation (`InsertSource`, `SetScope`, then the version), an edit (`EditRead`, `EditWrite`, `VersionRead`, `VersionInsert`, in
that order, so that the history row describes the row after the edit), a certification (`CertifyRead` with the outcome of the five checks, `CertifyInsert`, `CertifyWrite`,
the lifecycle, then `AffectedRead` and one refresh per district: `RefreshRead`, `RefreshBefore`, `RefreshWrite`, `AdvanceRead`, `StatusRead`, `StatusWrite`), the two gates
of publication (`PublishRead`, `PublishCount`, `PublishWrite`; `CoveredRead`, `ApprovedRead`, `DepartmentWrite`). The command line certifies many sources and refreshes once at the end.

### PublicationHistory

Nothing locks a district or a source between the statements of a request, so two calls that meet at one can leave it wrong (section 3). How far the harm goes is what `PublicationHistory` says. It adds two
variables that no step looks at. `shaken` holds the districts at which two calls that had it to refresh met (`Crossed`), one was cut off by a crash or by an error at an earlier district of its list (`GivenUp`), or
a source joined that had failed before it got its scope (`JoinedLate`); a refresh that has the district to itself takes it out again (`Reread`), since it computes the status from all its sources. `torn` holds the sources that
two calls were writing at once (`Overlaid`) or a crash interrupted, until a version is written whose number is beyond all others (`Reversioned`). `FailureShows` and `EditsKept` promise of all the other districts and
sources what the code means them to have, with any number of calls at work elsewhere. A step of `PublicationHistory` is a step of `Publication` (theorem `HistoryImplements`).

### Fetching, Discovery, Diagnostics

`Fetching` has no state: `Get(n, verify, fallback, enforce)` is what `HttpFetcher.get` returns or raises under a condition `n`, which says how the request, the staged
probe that follows a failed connection, and the repetition without certificate verification end. `why` is the classification: the last stage reached, the stage that failed, the
root cause and how sure it is. An exception that nobody converts is `Escaped`.

`Discovery` has the tables a crawl reads and writes and, for each process, the command it is in (`call`) and those it still makes (`agenda`). Pages are sequences of abstract anchors; both
adapters are operators on them. A crawl is `StartRun`, then `FetchPage` for each page of the queue (`MorePages`, `SkipVisited`), `LookUpLink` and `InsertLink` for each document, `FollowLinks`,
and `CloseRun`, `MarkCrawled`. A download is `Acquire` and the two statements of `set_status`; a parse run is `Parse` and the same. The administrator disables a source or changes its TLS columns in between.

`Diagnostics` is a background job: `Plan` announces the targets, `TestTarget` writes a row and `CountTarget` the counter, `ConcludeNext` compares each with the controls. `JobFails` is an exception, `Redeploy` the
end of the daemon threads.

### Accounts

One variable per table; `session[b]` and `visit[b]` are the rows that the cookies of browser `b` name. `request[b]` is the request a browser waits for; a statement that
a UNIQUE or foreign key constraint refuses ends it (`500`). Requests of one statement are one action; those that read first are two (`LookUpUser`, `InsertUser`; `IsSaved`, `ToggleSaved`;
`Setup`; `MaySetActive`, `WriteActive`; `Download`, `LogDownload`, `LogEvent`). A reset is a chain in the order of `reset.py`. `Restart` is a deployment, which bootstraps an administrator and an agent key
from the environment; `DatabaseLost` is a deployment without a persistent disk.

### Evaluation

`annotation` is the table in the order of ids, with the row that superseded each (`next`). `row[d][f]` is what a record of document `d` says about field `f`: a value, the extractor's confidence, whether
it was found among citations. A worker annotates (`FindCurrent`, `InsertAnnotation`, `SupersedeAnnotation`), ingests (`Ingest` is the INSERT of the extraction, `LookUpRecord`, `InsertRecord` and `InsertField` the statements behind it), or runs the benchmark; a reviewer's `Correct` is the INSERT of the new row, which
`load_fields` prefers from then on, so that the UPDATE of the old one changes nothing here. The benchmark is `ReadAnnotations` for each document, then `Score`,
which compares it with what is stored at that moment, and at the end the run row, a row for each failure and one for each confidence bucket. Counts are exact; ratios are compared as products.

### ReviewDesk

`entry` is `go_records` with the shape of the extraction each was made from: which core fields were found and how surely, how many optional ones, the two confidences, whether pages needed OCR, what the
subject reads like. `rows[r][f]` are the rows of `go_fields`, `weak`, `strong` or `out` (superseded). `desk[p]` is what a reviewer waits for: the queue listed, the selection still to do, what was processed, skipped and failed.
Listing is `ListQueue` and `ListFields` (the two SELECTs of the triage), ticking is `Submit`, the loop is `RequireRecord` and the statements of the operation, `ShowCounts` ends it. Corrections, escalations, campaigns
and the cleanup of duplicates are chains beside it. `QualityScore`, `QualityCategory`, `ConfidenceLabel`, `Segment`, `Successful`, `DepartmentTables`, `FunnelDuplicates` and `Progress` are the
numbers of the dashboards, each computed as its own query computes it; scores are times ten. The table of departments shows the `TableSize` departments with the most blockers (five, `triage.py:194`), and of two with equally many either, hence a set of tables;
its numbers add up to the backlog that is not ready only while no more departments than that have blockers. A ghost, `stripped`, remembers the records whose fields a cleanup deleted.

## 3. Runs

| Run | Module | Properties | Question |
|---|---|---|---|
| `queue_serial` | `MCExtractionQueue` | `ImplementsLifecycle` | does the queue, one handler at a time, do what its docstrings promise? (refinement of `RequestLifecycle`) |
| `queue_concurrent` | `MCExtractionQueue` | `OnePendingPerSubject`, `HandOver`, `StepsOfLifecycle` | what survives two handlers interleaving statement by statement? Who departs from the lifecycle, other than a thread that has been overtaken? Is a resync or a recovery ever pending twice, other than by two enqueues at once or a late write? |
| `queue_cancel_race` | `MCExtractionQueue` | `TerminalIsFinal` (violated) | is a cancelled request ever written over? |
| `daemon_safety` | `MCAgentDaemonHistory` | `IdsNameOneRequest`, `ExclusiveWork`, `HonestCompletion` | does one lost exchange, a call that goes on without its caller, a crash or a reset put two agents on a request, complete one that is not, or another kind of work behind an id? |
| `daemon_progress` | `MCAgentDaemon` | `SlicesEnd`, `CancelStops` | does every slice end, and a cancellation stop the agent, whatever is found, lost or cannot be parsed? |
| `archive_concurrent` | `MCDocumentArchive` | `LinkIsTrue`, `AnswerIsTrue`, `NewestKept` | two threads on one document, with crashes and redeploys: is what the rows and answers say true? |
| `archive_reappears` | `MCDocumentArchive` | `ChangeIsNewVersion` (violated) | does content that changes, and changes back, become the latest version? |
| `sync_delivery` | `MCDocumentSync` | `SyncedIsDurable`, `Lineage`, `TextArrives` | is what an agent thinks delivered delivered, and does OCR text arrive, while records are approved and cleaned up? |
| `review_concurrent` | `MCRecordReview` | `LatestLives`, `ApprovedComplete`, `NothingFabricated`, `RepublishedApplied`, `VersionExplained`, `IdsUnique` | two threads on one record, or two people on two revisions, with crashes: is a value lost, a gap approved, an identity made up, a revision shown as republished that is not live? Two records: do they ever share a permanent URL whose identities were not computed at once? |
| `publication` | `MCPublication` | `TypeOK`, `PublishedHasEvidence`, `FailureShows`, `EditsKept` | does what is published rest on a certification and an approval on record, whatever was certified, retired or refreshed meanwhile? Where no two calls met, does a failure show and is every edit in the history? |
| `acquisition` | `MCAcquisition` | `TypesOK`, `DiscoveredOnce`, `RunMatchesEvidence`, `BypassAllowed`, `StatusEarned`, `CompletedIsWhole`, `CommandsEnd` | do crawls, downloads, parse runs and diagnostic jobs report what happened, whatever a request ends with, and end? |
| `workbench` | `MCWorkbench` | `TypesOK`, `AdministratorRemains`, `OnlyCitizensCounted`, `LatestAnnotationLives`, `RunAccounts`, `ReadyIsApprovable`, `NumbersAgree`, `RevocationStands` | the people: accounts and keys, citizens under a reset, annotators and a benchmark, reviewers on a selection |

### What the violations show

* `queue_cancel_race` (`TerminalIsFinal`): a progress report reads CLAIMED or RUNNING, an administrator cancels (FAILED), the report then writes
  RUNNING: the cancelled request is alive again. The docstring of `report_progress` promises the opposite (`extraction_queue.py:215`). `yield_request` and `complete_request` read and write in the same way; they are not
  among the run's routes. An `AND status NOT IN ('COMPLETED', 'FAILED')` in the three UPDATEs, as `claim_next` has its condition, would close it.
* `archive_reappears` (`ChangeIsNewVersion`): a URL serves A, then B, then A again. `record_document` (`repository.py:478`) compares with the latest
  version only and inserts; the third row violates `UNIQUE (discovered_id, sha256)`, the sync is answered 500 and the latest version stays B. In
  `acquire_pending` the same error leaves the loop and aborts the batch.

### Observed while modelling, not among the runs

Queue and agents

* Requests do not take turns, which the docstring of `yield_request` promises: `claim_next` orders by id and a yield keeps the id, so the older of two
  requests is claimed again right after its yield.
* The answer to a claim is lost, or the agent stops after it: the request stays CLAIMED by an agent
  that does not know, and only an administrator can free it. A stuck resync request also absorbs every later one, including the one a reset
  enqueues. No property says that every request ends, because it does not.
* A yield that is executed after the agent gave up on it, failed, polled and claimed the request again puts the request back in the queue while the agent works on it, and another agent may get it. Such a request is in
  `strayed`; `ExclusiveWork` speaks of the others.
* A PDF that cannot be parsed keeps the parse loop of `cli.py:701-706` going for ever: it is the oldest document without a record again and again, and the loop has no look at the time budget. A cancellation ends it, since every turn
  reports; but after a reset deleted the request (404), or once another agent holds it (403), not even that reaches the agent. `SlicesEnd` speaks of the agents that are not at such a document.
* A request may yield for ever: each slice starts at the first source again, and the passes that find nothing use up the wall-clock budget too (`cli.py:636`, `751`).
* A progress report that is carried out after the yield of its slice leaves a request RUNNING that belongs to nobody; only a cancellation ends it.
* Two enqueues of one subject look before either inserts, and it is pending twice; so it is when a report or a yield that read an older request before it was cancelled puts it back beside a newer one. Such a subject is in `doubled` until
  all its requests have ended; `OnePendingPerSubject` speaks of the others.

Documents

* A recovery of an OCR gap reads the newest record as pending (`pipeline.py:321`), a reviewer approves it, the recovery deletes it, decision and all. A cleanup deletes what it listed in the same way.
* With two threads two syncs of new bytes count up from the same version, which is given twice. `Lineage` still holds (it is proved).
* Text found in the second of the sync is never sent: `ran_at > agent_synced_at` is false (`ocr_recovery.py:57`). `TextArrives` leaves such text out (`ran # "same"`).
* Text that arrives after its record was approved or rejected is lost: a sync recovers pending records only (`pipeline.py:321-326`) and answers 200 all the same, so the agent marks the document synced and never sends it again. The comment
  above it (`pipeline.py:307-318`) means such text to get through. `TextArrives` names this as its other exception (`DecidedWithout`), and has no third.
* A PDF that no backend can open leaves a document without a record; the sync is answered 500 and the agent keeps the error.
* A sync of bytes that are there already sets a link that was parsed or verified back to downloaded, against the lifecycle of `schema.sql:64`.
* A cleanup keeps the newest record of a document, even when an older one has the text the newest lacks.
* A crash between the record and its fields leaves a record without fields, which the next sync of the bytes takes for complete.
* A crawl that registers a link between `FindLink` and `InsertLink` makes the sync fail with a 500; the next one succeeds.

Review

* Two identities that are computed at once do not see each other, and two records get one permanent URL. Such records are in `tied`; `IdsUnique` speaks of the others.
* Recomputing an identity is not the no-op that `migrate_department_code` promises: a record with the suffix `-R<id>` loses it, and its URL moves, once the record it
  collided with has been corrected.
* A revision whose second change fails (a budget the extraction never found, hence no page: `republish.py:160`) leaves its first change live and stays open; rejecting it does not take the change back.
* Two drafts of a record get the same version; approving the older one last takes `current_version` back. A record that was rejected meanwhile is republished all the same.
* With two threads the status of a revision is that of the last writer: a submission that read DRAFT turns REPUBLISHED into REVISION_PENDING_REVIEW.
* Two corrections of one field at once leave two live values, and so does a crash between `InsertRow` and `Supersede`.
* An escalation or a field that arrives between the DELETEs of a cleanup makes the last of them fail (500), and the record stays, without its fields. That is why `ReadyIsApprovable` excepts the records in `stripped`.
* An approval whose record is removed between its read and its UPDATE counts as processed, though nothing was approved. A cleanup deletes an open escalation together with its duplicate.
* A batch approves a record that somebody rejected after it was listed: the loop looks at the fields again and not at the status. The removal of a gap record by a sync (`pipeline.py:321-333`) and a reset take
  records as a cleanup does; `ReviewDesk` has the cleanup only.
* The table of departments shows five (`triage.py:194`, `review_dashboard.py:116`), so what it counts is less than the backlog as soon as more of the departments have blockers. `NumbersAgree` says so (`TablesAgree`).
* Two campaigns started at once are both active. A campaign whose target is not below the backlog at its start shows 0 % though its target is met: `NumbersAgree` speaks of the others.
* `_affected_records` (`ocr_recovery.py`) speaks of pending records and does not look at the status. The level of a department in `quality.py` uses a search that also hits records of others.

Sources and publication

* Retiring the last certified source, disabling or creating one does not refresh the districts: a district stays CERTIFIED, and can be published, on a source that is gone (`sources.py:159`).
* Two certifications of one district at once: the older result may be written last and leave it CERTIFIED over a failed source. That district is in `shaken` until the
  next refresh that has it to itself; `FailureShows` speaks of the others.
* A refresh of several districts stops at the first whose status can no longer advance as it was read (somebody set it, or published the district, since), and leaves the ones behind it unrefreshed; the failure does not
  show there (`GivenUp`; `geography.py:264`).
* A source created with a scope is registered first and given its scope by a statement of its own: certified in between, it fails without any district to show it, and counts toward its districts a moment later
  without their being refreshed (`JoinedLate`; `sources.py:71`).
* Two edits of one source at once take the same version number, and the second's history row is refused after its UPDATE; a stop between UPDATE and history row loses the version; sources
  registered by the command line have no history row to begin with, so their first edit loses version 1.
  `EditsKept` speaks of sources with a version, outside `torn`.
* A test or a certification that read the lifecycle before a retirement revives a RETIRED source. `unpublish_district` writes CERTIFIED whatever the status was. The statuses of states and
  districts are read, compared and written in two statements.

Fetching, crawling, diagnosing

* A connection that is reset during the probe's handshake raises out of the probe (`network_diagnosis.py:285`), through the crawl, whose run stays `running`.
* A response 403, 404 or 5xx has no failure stage, so the comparison calls its target healthy (`network_diagnostics.py:120`).
* A reset turns every rejected link into downloaded, whether or not it ever was (`reset.py:79-80`); resets are not among the actors of `Discovery` and `DocumentArchive`, so `StatusEarned` and `LinkIsTrue` speak of the time between two of them.
* A transient failure at download rejects the document for good; a `RepositoryError` leaves `acquire_pending`. Whatever goes wrong in the fallback of a TLS failure is reported as a TLS failure.
* After a redeploy a diagnostic job stays QUEUED or RUNNING for ever. `crawl_runs.downloaded_count` is never written.

People

* Two administrators who deactivate each other at once lock everyone out: the second was an administrator when asking and is none when it is written. `AdministratorRemains` says that nothing else does. Two first setups at once make two administrators.
* A browser logged in as staff and as citizen gets a 500 on a download: the log takes one of the two.
* A citizen who is active while a reset runs stops it half-way with a foreign key.
* Two annotators at once leave two annotations in force; annotating the older one's value again is then taken for a repetition, although the newest counts.
* A benchmark stopped between the run row and its failures leaves a run that looks complete. The confidences 0.3, 0.6 and 0.7 fall in the bucket below theirs (float division). It reads corrections of
  reviewers as values of the extractor (`benchmark.py:11`), counts a wrong value twice in `support`, and meets every target when nothing was scored.

### Bounds, and why they are enough

Two requests are needed for an order among requests and for a duplicate; a third adds no new pair. Two agents are needed for a race. Two threads
are needed for an interleaving, and every race found or excluded here is between two handlers. `queue_concurrent` has four lanes.
The first has one request and everything that may arrive; `HandOver`, and most of `StepsOfLifecycle`, speak of one row at a time. `OnePendingPerSubject` and the order of the queue relate two: the others have two requests, enqueued while one is
reported, while one yields, and, of both kinds, while a reset deletes them. `MaxDone` and the counter `done` only matter for what a report copies.

In the daemon runs one fault (`MaxFaults`) per behaviour lets each loss, abandoned call and crash meet each state of the other side, and `Attempts = 2` makes a retry happen; a post that is not retried fails at once. That all attempts fail takes two faults and is left to the proofs. `daemon_safety` has two lanes. "retry" has one request and every fault: two
agents, one of which may get it while the other, or a call of the other's, still has it. "reset" has two requests with a reset between them, no work and no retries: ids and what they name are all that matters there. One source with one document (`NSources`, `MaxWork`) makes the slices two.
`daemon_progress` has one agent, because what ends an agent's slice are its own steps and those of the threads, which another agent could only keep busy; two threads, one for the agent and one for an administrator, who enqueues, and cancels whatever
is queued or worked on; and two sources, of which one is readable and may be found more and more in, and one unreadable. A reset is left out: the request it deletes cannot be cancelled any more, and the agent goes on with its slice as without it.
`Symmetry` is used over agents and threads, and only where no
liveness property is checked.

`archive_concurrent` has one URL, one content, three records, two threads and all operations but reject (which differs from approve in the value it
writes): the properties relate the rows of one URL. Three records are one to keep, one duplicate and one being made. Several contents, hence several versions, are in
`sync_delivery` and `archive_reappears`. `sync_delivery` has two agents with their own copies, two contents, one of them scanned, one thread, one fault and one
command of an operator (`Rounds`); there an agent's view and the server's diverge. Records are approved and duplicates cleaned up in between; a rejection differs in the value it writes, and text that OCR calls poor leaves the gap open, so both are
left to the proofs, which have them. It says `CHECK_DEADLOCK FALSE` because the agents do stop
once every document is pushed or in error. Ids (`DocIds`, `RecIds`) are bounded by `Room`, which lets a call that may insert arrive only while an id is left for it.

`review_concurrent` has three rows for each field (`MaxRows`): the extracted one and one by each of two threads that race. A behaviour stays in one of five lanes. In the first one record is parsed,
corrected, decided and recomputed; in another it is published and has two revisions of two changes each, so that approvals overlap, die between the changes and take versions from
each other, with two people, because a requester may not approve; a lane with one revision also rejects it, while it is being approved. Their properties speak of one record at a time. `IdsUnique` relates two, and has two lanes with two records, which are parsed
and corrected at once in one and parsed and recomputed at once in the other: their identities meet and part, unseen by each other or not. Two rows for each field are enough there, the one found and its correction.

`publication` has one state, two districts, one department and two sources (one of the district, one of its state) in fourteen lanes: two certifications against publication, with crashes; retirement; the department's gate;
refreshes against a status set by hand, of one district and of two (so that one is given up), and of two with crashes; two sources of one district; a source certified before it has its scope; creation, clones and edits, one at a time and two, with crashes; the
command line with a source disabled under it; and the registry and geography alone. The properties relate one district to its sources, or one source to its versions; two sources of different scope are all the ways there
are to concern a district, and two districts make a list on which one can be given up. Two handlers suffice for two calls to meet, and versions go up to three, so that one torn can be repaired.

`acquisition` has two sources with real adapters and one without, five pages that link to one another in cycles, three documents, and runs until `MaxRuns`; the first request of a crawl meets a few representative conditions,
a job of `Diagnostics` all of them. Its scenes are two crawls of one source, a crawl of all, two downloads and parsers with crashes, one process doing everything, crawls under an administrator, and a job with
redeployments. `MaxPages` is below the number of pages, so that the budget ends a crawl.

`workbench` has eight scenes. Staff: two browsers and two accounts, so that activations, logins and set-ups overlap, two administrators deactivate each other, and the exception of `AdministratorRemains` occurs. Keys: restarts and revocations. Citizens and reset: two browsers, one citizen, one order, two downloads; in the reset's
scene one browser is the administrator's, and events are left out, because a reset keeps them by design. Annotators: two people, one field, four annotations. Benchmark: one worker runs it over two documents while the other annotates, ingests and corrects. Batch: one
reviewer approves what was listed as ready while the other corrects a record of it, reprocesses and removes duplicates. Desk: one decides and escalates,
the other resolves, runs a campaign and removes duplicates, a PDF comes and goes. There are two departments and a table for one (`TableSize`), so that the table is too short in some states and long enough in others.

The runs with `CHECK_DEADLOCK FALSE` are those whose commands, agents or people do stop: commands end, documents are all pushed, the bounded tables are full.

### Fairness

`Fairness` of `AgentDaemon` says that a thread executes the handler it began (`WF` of `Server`), that an agent keeps running its loop (`WF` of its local
steps and of receiving an answer), and that an agent's post finds a free thread in the end (`SF` of `Post`: threads are busy and free again and again,
and FastAPI's pool queues what waits). `WF` of the local steps includes that every pass of discovery, batch of downloads and parse ends; they have time-outs of their own. `SF` of `BudgetSpent` is the clock: a budget of thirty minutes that is looked at again and again is found
spent at last, whatever the agent did in between. Nothing is assumed of administrators or faults, nor that a source is ever exhausted. `Fairness` of `DocumentSync` is of the same kind: `WF` of an
agent's next batch, of receiving an answer and of the server's statements, `SF` of a post. An agent downloads, parses or retries when it wants to, or never; reviewers and cleanups come when they like (`Visit`).
`DiscFairness` of `Discovery` is `WF` of each process's next statement: a command that was started is executed. The other modules have no liveness property and assume nothing.

## 4. Theorems

The theorems hold for every value of the constants that the named assumptions of the modules allow (ids are positive numbers, `Null` is none of the values, the routes
in use are routes). They are about safety; liveness and ENABLED are beyond the prover and stay with the runs.

| Module | Theorems | Argument |
|---|---|---|
| `ExtractionQueueProofs` | `TypeCorrect`, `QueuedUnclaimedCorrect`, `HandOverCorrect`, `StepsOfLifecycleCorrect`, `OnePendingCorrect` | `TypeOK` is inductive as it stands, once what may arrive is described (`Fresh`); it says of a handler past its read that the status it saw lets it write. `StepEffect` classifies what a step may do to a row (`Effect`: untouched, created, deleted, handed out, taken back, recorded); `QueuedUnclaimed` and `HandOver` follow from it, row by row. `OnePendingCorrect` is about `HistorySpec`, with any number of threads: a subject outside `doubled` is pending at most once, and while a call is about to insert a request of it, none is pending and no other call is about to (`Clear`). Every statement that adds to what is pending is an insertion, or a late write, and then the subject goes into `doubled`; it leaves when nothing of it is left, and all begins anew. `StepsOfLifecycleCorrect` is about `HistorySpec` as well: every thread outside `overtaken` has its `Promise` (`Grounded`): its own statement keeps it (`StatementPromise`), another's that breaks it is what puts the thread into `overtaken`. With its promise every statement of a thread is a step of `RequestLifecycle` or a stutter. |
| `AgentDaemonProofs` | `DaemonTypeCorrect`, `DaemonQueues`, `IdsNameOneRequestCorrect`, `ExclusiveWorkCorrect`, `HonestCompletionCorrect` | `Base`: an agent waits for the thread that serves its own post about its request. Every step of the composition is a step of the queue or leaves it alone, so the theorems above hold of the agents too. Nothing is assumed of `Abandon`, the faults or the number of threads. For `IdsNameOneRequestCorrect` what an agent was told of a request's kind stays true (`Named`): a row keeps its kind and an id never comes back. `ExclusiveWorkCorrect` is about `StraySpec`: a request outside `strayed` has at most one holder, the agent past its
claim or the thread whose claim is being answered (`OneHolder`), its claimant is that holder (`Held`), and a yield that is under way for a caller that still waits for it is the holder's (`YieldHeld`). For `HonestCompletionCorrect` the invariant adds `Tried` (each source the agent is past was worked through or
given up), that a completion under way is about a request in `tried` (`Truthful`, whoever waits for it or nobody), and that a post made as a failure is never written as a success. |
| `DocumentArchiveProofs` | `ArchiveTypeCorrect`, `NewestKeptCorrect`, `LineageCorrect`, `LinkIsTrueCorrect`, `AnswerIsTrueCorrect` | `Inv` is `Stored` (what is true of the tables) and `Promise(call[h])` for every thread: what a handler at its `pc` still knows of rows it read earlier, e.g. that the record it will replace has a newer one. Every promise is stable under `Grows` (documents are only added, a record goes only where a newer one of its document stays), and every statement satisfies `Grows`; so a step has to be examined for its own thread only. No bound on threads, rows or crashes. |
| `DocumentSyncProofs` | `SyncTypeCorrect`, `SyncArchives`, `SyncedIsDurableCorrect` | `SyncArchives` maps every step of the composition to a step of the archive or a stutter, which lifts the archive's theorems. `SyncInv` adds that the thread an agent waits for serves its post and its bytes (`Attended`) and no two agents wait for one thread (`Apart`); with `AnswerIsTrue` an answer 200 is then about the agent's own document. |
| `RecordReviewProofs` | `TypeCorrect`, `NewestRowLives`, `ApprovalIsComplete`, `IdentityIsFound`, `RepublishedMeansApplied`, `VersionHasRevision`, `OneUrlPerRecord` | Nothing here holds a lock. What saves the properties is that the tables only grow (`Grows`): a row of a field keeps its value, and the newest row of a field is never superseded. `Knows` says for each `pc` what a handler has read and relies on (the core fields are there, the values of the identity were in the record, every change of the revision was made or is still to be made), and `Grows` keeps it true until the write. `OneUrlPerRecord` is about `HistorySpec`, with any number of calls at once. Its invariant `Unshared` adds that what `IdCheck` saw to be free still is when `IdWrite` writes it, unless a record that has it is `tied` (`Free`), and that two calls about to write one identity have tied their records (`Ties`). |
| `PublicationProofs` | `PublicationTypeCorrect`, `PublishedEvidence`, `HistoryImplements`, `FailureStaysShown`, `EditsLeaveHistory` | Evidence lasts (`Grows`): a recorded certification stays recorded, a source that covers a district goes on covering it, that a record was once approved does not become false. So what a handler read before it publishes (`Knows`) holds when it writes, whatever is certified, refreshed, retired or stopped in between. The one step that could take a source away from a district, the one that gives a new source its scope, is excluded by `Scoping`: the source had none, and one thread only is about to write it. Any routes, any crashes. The last two are about `HistorySpec`, with any number of calls at once and any crashes. For `FailureStaysShown`, of the districts outside `shaken`: one that reads CERTIFIED over a source that failed is on the list of a call (`Settled`), no two calls have it (`Undivided`), and so what that call has computed is still true when it writes (`Attentive`). What a call has to refresh it goes on having (`StillOwed`), and the refresh that takes a district out of `shaken` begins all this anew. For `EditsLeaveHistory`, of the sources outside `torn`: what the source says is in its history under its number, or a call is about to put it there (`Whole`), with what the source says now and under a number above all it has (`Keeping`). |
| `AcquisitionProofs` | `TypesHold`, `DocumentsDiscoveredOnce`, `RunsMatchEvidence`, `BypassOnlyAllowed`, `StatusesEarned`, `CompletedWhole` | The fetcher first: whatever a request ends with, `Get` reads without verification only where that is allowed (`Careful`), by cases over the classification. A job keeps its counter and its tests in step (`Counts`). For a crawl the invariant says what its process has counted of the run it owns (`Tallies`: pages are the responses logged, what is new are the rows that name the run, what a page linked is on file or still to do), that no two processes own a run (`Apart`), and that a finished run says the same of itself (`Told`); `CloseRun` hands the one to the other. A batch knows what was reached with the document at its head (`Reached`), so the status written after it is earned. |
| `WorkbenchProofs` | `WorkbenchTypesHold`, `RevocationIsFinal`, `AdministratorStays`, `OnlyCitizensCount`, `LatestAnnotationStays`, `RunsAccount`, `ReadyStaysApprovable`, `NumbersStayInStep` | One invariant for each of the three parts, which share no variable. Accounts (`AccountInv`): the tables with their foreign keys, and what a request has read that no other takes back (`Fits`). For `AdministratorStays` a deactivation past its check is never of the one who asked; so when it is written, either that one is still an administrator and remains, or has ceased to be one, which is the exception. `OnlyCitizensCount` assumes that no reset runs (`CountingSpec`), since a reset keeps the events and drops the log: logs are at least events plus requests that still have to count (`Covered`). Evaluation: a run under way has one mark for each field of each document it scored, against an annotation that stands (`Keeps`, `Tally`, `Scoring`); once the run row is there nobody else writes rows of its number, and those it has written are those of the marks no longer to do (`Reports`). `RunAccounts` compares sums; each is shown to be the size of a set of marks or of pairs, and two are equal by a bijection between their sets. Review desk: a record that was listed as ready keeps a row of every core field (`Sound`) because rows are only added and a cleanup marks what it takes (`Advances`), so a selection skips nothing else (`Readied`); the last row of a field is in force (`LastInForce`). `NumbersAgree` takes `LabelsStayEarned` (from rows in force to the label), `ProgressIsShown`, the departments of the table (a table that has room shows every department with a blocker, one that has not leaves one out) and counts by bijection. |

The strengthened invariants were model-checked on the instances of the runs before they were proved.

The type invariants `TypeOK` of `ExtractionQueue`, `DocumentArchive` and `RecordReview`, `DaemonTypeOK` and `SyncTypeOK`, and `QueuedUnclaimed` are proved (`TypeCorrect`, `ArchiveTypeCorrect`, `TypeCorrect`, `DaemonTypeCorrect`, `SyncTypeCorrect`, `QueuedUnclaimedCorrect`) and not among the properties of the runs.

`Target` of `Evaluation` is assumed to be between 90 and 100 percent for every field, as `TARGETS` has it (`certification/benchmark.py:38`, 90 to 99); that is why a run that met its targets has failures in at most one of ten documents for each field.

Only model-checked are the liveness properties `SlicesEnd`, `CancelStops`, `TextArrives` and `CommandsEnd`, and the refinement `ImplementsLifecycle` of one thread, of which `StepsOfLifecycleCorrect` is the general form: they rest on fairness, and ENABLED is out of the prover's reach. No theorem rests on an induction over
data: a count is the size of a set, two counts are compared by a bijection, what is built up one element at a time is carried by the invariant of the behaviour that builds it, and an argument over the numbers takes a least counterexample (`WFMin`).

## 5. What is done and what is left

Each module is written so that it can be proved about: constants with assumptions, one action per operation, no RECURSIVE operator in a module that is proved about.

| Part | Modules | What it states | State |
|---|---|---|---|
| queue and agents | `RequestLifecycle`, `ExtractionQueue`, `ExtractionQueueHistory`, `AgentDaemon`, `AgentDaemonHistory` | the abstract lifecycle, nothing queued twice, exclusive work, honest completion, progress | checked; safety proved |
| documents | `DocumentArchive`, `DocumentSync` | durable, versioned, delivered once | checked; safety proved |
| records | `RecordReview`, `RecordReviewHistory` | no value lost, a complete approval, an identity made of what the record said and its own, revisions applied as a whole | checked and proved |
| publication | `Publication`, `PublicationHistory` | published on evidence; no lost edit and a failure that shows, where no two calls met | checked and proved |
| acquisition | `Fetching`, `Discovery`, `Diagnostics` | each link once, a run that reports what it saw, no status unearned, commands end | checked; safety proved |
| people | `Accounts`, `Evaluation`, `ReviewDesk` | revocations, references and the last administrator; annotations and benchmarks; selections and the numbers of the dashboards | checked and proved |

Left, in this order: a reset under the archive and the crawler (`reset.py:79-80`); the readiness and
certification levels of departments in `quality.py`; the integrity sweep of the repository.

## 6. Not modelled

* The data of an extraction: the regular expressions, dictionaries and weights that pick a value from a page (`extraction/patterns.py`, `text.py`, `ocr.py`, most of `metadata.py`) and of the categories (`categorize.py`). Whether
  a field is found, how surely, and whether OCR finds text are choices of the models.
* The database layer (`db.py`, `turso_db.py`). A statement is taken to be atomic and durable when it returns, with unique and foreign keys enforced, which is what the code above it assumes.
* Pages that only read: the listings and searches of the workbench, the public portal (`public.py`), analytics and intelligence (`operations/analytics.py`, `intelligence.py`), except for the numbers `ReviewDesk` computes.
* The readiness of departments, the coverage over years and the certification levels in `quality.py`: sums over rows that nothing else reads. The integrity sweep of the repository, which recomputes
  hashes and files the result.
* `goengine/benchmark.py`, a command that times the pipeline and stores nothing; the delay per host in `fetching.py`, a sleep.
* The audit log (append-only rows beside every change), e-mail, backup, sample data, configuration and the wording of messages.
* Permissions of a caller by role and state (`RequireCertify`, `can_act_on_state`): outside `Accounts` the models let everyone call everything, apart from the rule that an
  editor may not approve a revision. They restrict who may call, not what a call does.
