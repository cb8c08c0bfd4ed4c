# GuardPipe, specified

GuardPipe is a modular monolith in Go: an API and a worker role of the same
binary over PostgreSQL and Redis, with a browser frontend. A user requests a
scan of a repository or of a live target; the API charges tokens, writes the
scan and one job per engine, and queues the jobs in Redis; workers run the
engines, store what they find, score the scan and announce it. Around that
stand billing, schedules, live scanning (a GitHub push starts a scan),
notifications, identity, organisations, projects and a language model.

This directory holds TLA+ modules translated from that code, TLC
configurations that check them on small instances, and proofs that TLAPS
checks for every instance. Paths below are relative to `src/`; where nothing
else is said, under `src/internal/`.

    tlc -workers 2 -config scan_safety.cfg MCScanLifecycle.tla
    tlc -workers 2 -config requests.cfg MCRequests.tla
    tlc -workers 2 -config engines.cfg MCEngines.tla
    for m in *_proofs.tla; do tlapm $m; done

## 1. The system

### Components, their state and what makes them correct

| component | state | operations | correct when | module |
|---|---|---|---|---|
| orchestrator: service, workers, sweeper (`modules/orchestrator/{service,worker,cancel}.go`) | goroutines' locals; everything else is in the stores | CreateScan, CancelScan, worker loop, SweepOrphanedJobs, FinalizeStuckScans | no job is run twice; every scan ends, once, when its last job does; what is shown, scored and announced agrees; the tokens of work not done come back | `ScanLifecycle` |
| scan and job rows (`store/repo/{scan,scan_job,job_result}_repo.go`) | `scans`, `scan_jobs`, `findings`, `risk_assessments` | one statement or one transaction each | the transaction that closes the last job finalises the scan | `ScanLifecycle` |
| job queue (`adapters/queue/jobqueue.go`) | two Redis lists | Enqueue, Claim, Ack | a job is in at most one worker's hands | `ScanLifecycle` |
| billing (`modules/billing`, `store/repo/billing_repo.go`) | subscription, token buckets, ledger, checkouts of an organisation | Charge, ChargeAI, RefundJob, checkouts, renewal, operator adjustments | the ledger explains the buckets; nothing is overdrawn, paid or refunded twice; no paid month for free | `Billing` |
| workspace cache (`modules/orchestrator/workspace.go`) | one clone per scan with a reference count | acquire, releaseRef | cloned once, there while anybody reads it, removed after the last | `Workspace` |
| sandboxes (`adapters/k8spentestsandbox`, `k8strivyscanner`, `k8scodescanscanner`) | Jobs, ConfigMaps, Secrets, NetworkPolicies in Kubernetes | create, poll, delete, sweep at start | a script is fenced until its Job is told to go; nothing of a run lingers | `Sandboxes` |
| Docker host (`adapters/dockerx`, `sandbox`, `pentestsandbox`, `trivy`, `sonarqube`) | containers, images, word lists | create, wait, logs, remove, sweep at start | a run takes its own away; what it returns as complete is complete | `Docker` |
| dependency engine and advisories (`engines/depscan`, `modules/advisory`, `adapters/osv`) | a cache of answers | parse, look up in batches, resolve, report | what is known of an installed package is reported by every run | `Dependencies` |
| Kubernetes engine (`engines/k8sscan`) | none | discover, render, parse, evaluate | a manifest is judged the same wherever it stands | `Kubernetes` |
| pipeline and document engines (`engines/cicdscan`, `engines/docreview`, `modules/ai`) | none | discover, rules, review by the model, validate | the model adds to what the rules find and takes nothing away | `Pipelines`, `Reviews` |
| code and container engines (`engines/codescan`, `engines/containerscan`), catalogue of rules (`modules/advisory`) | SonarQube's project, rows of `rules` | analyse, poll, page through issues; scan files and image; sync and switch rules | what is open in the commit analysed is reported | `Scanners` |
| pentest engine (`engines/pentest`) | the state a run hands from stage to stage | stages, correlation, confidence | each issue is one row; a tool that fails or is cut short loses only what rests on it | `Pentest`, `PentestTools` |
| pentest read model and its handlers (`modules/pentest`, `reporting/pentest`, `transport/http/handler/pentest_handler.go`) | nine tables, files of evidence and reports | IngestScanResult, downloads, lists | what is on record is all of a run, and shown to its organisation only | `PentestRecords` |
| scoring (`modules/scoring`) | none | Compute | more findings never look better | `Scoring` |
| schedules (`modules/orchestrator/schedule*.go`) | `scan_schedules` | create, update, delete, the tick of each replica | a due slot fires once on a replica, and the schedule moves on | `Schedules` |
| screens of scans (`frontend/src/components/project/ScanLauncher.tsx`, `pages/ScanDetailPage.tsx`, `stores/activeScansStore.ts`; the queries in `modules/orchestrator/{service,progress_store}.go`) | what a page has been told so far; percentages of one process | estimate, launch, poll, cancel, announce | a scan costs what was shown; a page ends on what the scan ended with | `ScanRequests`, `ScanWatch` |
| notification: outbox (`modules/notification/{service,sender}.go`) | feed, outbox rows with a lease | ScanFinished, claim, send, mark, retry | a report is mailed, once but for leases that ran out | `Outbox` |
| notification: addresses (`modules/notification/service.go`) | `user_notification_settings` | change, resend, confirm | reports go where somebody opened the link | `Addresses` |
| live scanning (`modules/livescan`, `adapters/queue/livescan.go`) | markers, debounce windows and counters in Redis | webhook, window worker, switch | a push is scanned, once, within the limits | `LiveScan` |
| identity: accounts (`modules/identity`, suspension in `modules/admin`) | `users`, `organizations` | register, log in, lock, suspend | wrong passwords lock, suspension is immediate | `Accounts` |
| identity: sessions | `refresh_tokens` | refresh, log out, switch | a session has one live token, a revoked one none | `Sessions` |
| browser (`frontend/src/stores/authStore.ts`, `frontend/src/lib/apiClient.ts`, `transport/http/handler/auth_handler.go`) | a tab's token and user, the refresh cookie | call, refresh, repeat, switch, log out | a tab shows what it acts on; the client does not end its own session | `Browser` |
| organisation and collaborators (`modules/organization`, `modules/project`) | members, roles, invites | change, remove, invite, answer | an admin remains; an invite is answered once | `Members` |
| project (`modules/project`, flags in `modules/admin`) | project, repository, credential, target, documents | create, update, archive, attach, attest, revoke | what is attested is on record; nothing comes back by itself | `Projects` |
| AI service, assistant (`modules/ai`, `modules/assist`, `adapters/gemini`) | cache, index into a pool of keys | quote, complete, rotate, charge | every key is tried; an answer is paid for, once | `Assistant` |
| the processes (`cmd/guardpipe/main.go`, `platform/config`, `store/migrate.go`) | what each has open, its loops and server; the version of the schema and the catalogue of rules, shared | load settings, migrate, sync rules, wire, serve, drain, close | nobody works before the database has what it needs, and nothing is closed under who still uses it | `Deployment` |
| audit, reporting, vcs, admin's reads | rows or caches with one writer | CRUD, reads, rendering, clients | single statements | not modelled |
| other adapters, other handlers, platform, other screens, infra | none of the system's own | input and output, routing | outside what a state machine says | not modelled |

### How they interact

    GitHub push --> LiveScan --+           Schedules (each replica ticks)
                               v               v
    API request ----------- CreateScan --> billing.Charge --> scans, scan_jobs --> Redis list
                                             ^                    ^                |
                                             | RefundJob          | rows           | BLMOVE
    CancelScan ------- cancel_requested -----|--------------------|--> watcher --> worker
                                             |                    |                |  Workspace,
    sweeper (one per replica) ---------------+----persist---------+<---persist-----+  Sandboxes, Pentest
                                                                  |
                                      the actor that finalised:  score --> announce --> Outbox

    worker --> engine: Dependencies | Kubernetes | Reviews | Scanners | PentestTools
                           |              |           |          |            |
                        OSV.dev         helm     language     SonarQube,   scripts in Docker
                        + cache                  model        Trivy        or Sandboxes
               pentest: PentestTools --> PentestRecords (evidence, reports, rows) <-- API reads

The workers and the sweeper share code (`persist`, `afterFinalize`) and rows,
never memory, but for the clone cache of one process. The one lock among them is
the scan's row lock inside `PersistJobResult` and `FinalizeStuckScans`; the one
lock in billing is the organisation's row lock in `withOrg`. Cancellation is a
flag that the worker polls. A worker that shuts down cancels the context of
everything it does, so a shutdown is a crash as far as the stores can tell.

The request handlers of identity, organisation, project, notification and
livescan hold no lock and no transaction: they read rows, decide, and write in
statements of their own. Whatever two of them may do to each other happens
between a read and a write.

### What is hard

Jobs of a scan end at the same time on different replicas. Sweepers act on lists
they have read earlier. A worker may die, or fail to write, between any two
statements, and may merely be slow when it is taken for dead. Redis and
PostgreSQL are not updated together. Operations on an account read the clock
before they wait for the lock. Renewals catch up on months in passes. Every
replica ticks, sweeps and sends. Requests act on rows that have changed since.
A browser's calls, refreshes and tabs overtake each other. Each of these is a
hazard in `PROJECT.json`, at the line where it bites, with the properties that
would catch it going wrong.

## 2. Plan

| | module | what it states | status |
|---|---|---|---|
| 1 | `ScanLifecycle` | scans and jobs from payment to announcement, with faults | checked, safety core proved |
| 2 | `ScanPromise`, `ScanRefinement` | what a requester is promised; the lifecycle implements it | checked, proved |
| 3 | `Billing` | the token account | checked, proved |
| 4 | `Workspace`, `Sandboxes`, `Schedules`, `Outbox`, `Pentest`, `Scoring` | what goes on around the jobs in a worker process; composed by `MCWorkerServices` | checked; all but `Scoring` proved |
| 5 | `LiveScan`, `Members`, `Accounts`, `Sessions`, `Projects`, `Addresses`, `Browser`, `Assistant` | what people and GitHub ask of the API; composed by `MCRequests`. `Identity` composes `Accounts`, `Sessions` and `Browser` | checked, proved |
| 6 | `Dependencies`, `Kubernetes`, `Pipelines`, `Reviews`, `Docker`, `Scanners`, `PentestTools` | what the engines make of a repository or a site, and of the tools they ask; composed by `MCEngines`. `PentestTools` implements `Pentest` | checked; `Docker` proved |
| 7 | `PentestRecords` | what a pentest leaves on record, and who is shown it; with the modules of 4 | checked |
| 8 | `Deployment` | processes over one database, from their settings to their end; with `Schedules` and `Outbox` in `WorkerReplicas` | checked, proved |
| 9 | `ScanRequests`, `ScanWatch` | what a launcher shows of a scan to come and a page of one that runs; with the modules of 5 | checked |
| 10 | `ScanOutcome_proofs` | what a scan promises and leaves behind: findings, counts, score, refunds, announcement | proved |
| 11 | `Billing_proofs`, `WorkerServices_proofs`, `WorkerReplicas_proofs`, `Requests_proofs`, `Projects_proofs`, `Identity_proofs` | the safety properties of the account, of what workers share and do beside each other, and of what is asked from outside | proved |

Of what is left, `PentestRecords` comes first: nine tables written by two runs and read by
several requests, whose invariant has to say of each page which rows it has seen.

## 3. The modules

In every module an action is one step nothing can come in between: a statement,
a transaction, a Redis command or script, a section under a mutex, a call to a
remote system; together with everything local that the handler does up to the
next one. Faults are alternatives of the step they strike or actions of their
own, and counted against a bound. A flag that no code keeps (`stale`, `raced`,
`overrun`, `crossed`, ...) records that one request acted on what another has
changed since: properties with an exception name it, so that the exception is
exactly the behaviour the code has no guard against, and everything else is
still checked.

Operators whose comment says "Instead:" are plausible mistakes in the operator
that follows. They are used by no action: they are kept to see that the
properties tell them from the code.

### ScanLifecycle

| action | code |
|---|---|
| `Charge`, `InsertScan`, `InsertJob`, `Enqueue`, `RefundRest` | CreateScan, statement by statement; `apc` and `apiTodo` are its program counter and loops. The guards before the charge (project, target, attestations, engines) decide whether there is a request at all |
| `ApiCrash` | the process or the request ends in between |
| `CancelScan` | CancelScan |
| `Claim`, `Ack` | jobqueue.go: BLMOVE and LREM |
| `Load`, `MarkRunning`, `MarkStarted`, `Prepare`, `RunEngine` | processJob, from one write to the next |
| `Persist`, `Refund`, `Score`, `Tell` | persist, the transaction in PersistJobResult, RefundJob, finalizeScoring, ScanFinished; shared by workers and sweepers as in the code |
| `ListOrphans`, `SweepOne`, `ListStuck`, `FinalizeStuck` | one sweep, first SweepOrphanedJobs, then FinalizeStuckScans |
| `AgeOut` | a running job's `started_at` falls behind engine deadline and grace. For a job that a worker holds this is the fault `"slow"` |
| `Crash`, `RedisFlush` | the faults that are nobody's step |

Every other fault is an alternative of the step it strikes: `Fault("db")` fails
a statement or a commit, `Fault("redis")` a command, `Fault("lostreply")` lets a
push take effect and report an error. `Faults` says which kinds an instance has,
`MaxFaults` how many.

What is abstracted:

- A job's status and its error reason are one value, the outcome, as far as
  refunds and findings tell outcomes apart.
- The findings of a scan are represented by the jobs that emitted them;
  `counts` is the set of jobs whose findings were counted; a score is the set it
  was computed from. `Pentest` looks inside one job, `Scoring` inside a score.
- Tokens are the jobs that were charged or refunded. `Billing` says why a refund
  is what was paid, once.
- The two Redis lists are a sequence and a set: nobody reads the second one in
  an order, or at all.
- The deadline is a set: the running jobs that are past it.
- Reads change nothing and are left out, those of a handler being part of its
  next write. Progress percentages are left out.

### ScanPromise and ScanRefinement

`ScanPromise` is what a requester may rely on, with no worker, sweeper, queue or
fault in sight: jobs appear only while their scan is open, a closed job stays
closed, and a scan ends in the very step that closes its last job, the way the
user asked by then. `ScanRefinement` maps a scan's and a job's status to it
(queued and running are both open) and states `ImplementsPromise`.
`Inherited` is for the scans that FinalizeStuckScans exists for: those an older
release left open with every job closed.

### Billing

The account of one organisation; organisations share nothing. Each operation is
one transaction under the organisation's lock, so it is one action, and an
operation that fails rolls back, so a failure is no action. What does interleave
is time: `now` is read before the lock is waited for, so an action takes any of
the `Recent` instants, up to `MaxLag` old.

| action | code, `modules/billing/service.go` |
|---|---|
| `Read` | every operation that only reads, through withOrg and freshSubscription |
| `Charge`, `ChargeAI`, `RefundJob` | the same names |
| `StartCheckout`, `GetCheckout`, `Decline`, `Confirm` | StartCheckout with priceItem, GetCheckout, ConfirmDemo with fulfil |
| `SetCancel` | SetCancelAtPeriodEnd |
| `RenewDue` | RenewDue for one of the organisations it listed, with renewLocked |
| `AdminAdjust`, `AdminAdvanceCycle` | the same names |

The helpers `AddBucket`, `MoveTokens`, `Expire`, `GrantPlan` are the code's own,
as functions from a book to a book. A ledger entry is its idempotency key, its
bucket and its delta. `MoveTokens` posts all rows that one loop of the code
writes, for no two of them share a key or a bucket: those of `ExpireAll`, of a
refund (`Refunds`), and of the loop that takes what is owed from the buckets in
the order of their expiry (`Drain`). A `Piece` of it is said without the loop: what
the buckets `Ahead` leave to pay, as far as this one has it. Only the lines of a
charge (`PayLines`) and the grants of a renewal (`Renewed`) are folds, since each
starts from what the one before has left. Prices and grants are
constants, the code's numbers divided down. QuoteScan's arithmetic is left to its
tests. `Length` of a plan in months and `GrantsPerPass` (13 in the code) are
constants too.

`AddMonths` is time.AddDate, the same day some months on, where a day that the month
does not have counts on into the next: a month after the last of January is in
March. So months have lengths of their own (`MonthStarts` says when each starts,
the same every year), and twelve steps of a month, which is how grants follow each
other, may end later than one step of twelve, which is the period.

### What a worker process does besides (composed by MCWorkerServices)

| module | actions | code |
|---|---|---|
| `Workspace` | `CreateEntry`, `JoinEntry`, `TakeOutcome`, `GiveUpWaiting`, `ReleaseRef`, `RemoveDirectory` | the sections of acquire and releaseRef under the mutex, and what happens outside it (`modules/orchestrator/workspace.go`) |
| | `MakeDirectory`, `FinishClone`; `Stop` | prepareWorkspace; the process ends in an orderly way or not |
| `Sandboxes` | `TakeSlot`, `Make`, `End`, `PodSeen`, `TimeOut`, `Unmake`, `ReleaseSlot`, and `MakeFails`, `PollFails` | Run of the three runners, one call to the API server each |
| | `StartProcess`, `Sweep`, `SweepFails`, `Crash` | main.go's sweeps when any role starts; SweepOrphans |
| | `StartPod`, `EndPod`, `RemoveJob`, `CollectGarbage` | what Kubernetes does on its own (external) |
| `Schedules` | `ListSchedule`, `ReadSchedule`, `CreateScheduledScan`, `SkipScheduledScan`, `RecordRun` | tick, TriggerSchedule, recordScheduleOutcome, on each replica |
| | `ReadForUpdate`, `WriteUpdate`, `DeleteSchedule`, `TimePasses`, `LoseTick` | the handlers; the clock; a crash |
| `Outbox` | `TellFeed`, `QueueEmail`, `LoseAnnouncement` | ScanFinished, statement by statement |
| | `ClaimEmails`, `SendEmail`, `MarkEmail`, and `SendUnanswered`, `MarkFails`, `DropBatch`; `ComeDue` | RunOnce and deliver of a sender; a lease or a backoff runs out |
| `Deployment` | `Boot` (with `Accepted`), `LookAtSchema`, `ApplyMigration`, `MigrationIsThere`, `OpenDatabase`, `OpenRedis`, `BringRule`, `NoTableOfRules`, `OpenDocker`, `ChooseCodeScanner`, `ChooseImageScanner`, `ConnectModel`, `ChooseSandbox`, `WireServices`, `StartLoops`, `Serve`, `ListenForSignals`; `StepFails` | run of main.go, from Load to waitForShutdown, by what may fail or what another process may see |
| | `TakeRequest`, `AnswerRequest`, `ServerFails` | the HTTP server |
| | `Signal`, `SeeServerError`, `CloseListener`, `Drained`, `Deadline`, `LoopsReturn`, `CloseLast`, `Exit`; `Die` | waitForShutdown and the deferred calls; a crash, or a signal before Notify |
| `Pentest` | one action per stage, from `Recon` to `VulnDetect`, `Correlate`, `Confidence`; `EndEarly` | engines/pentest/stages; a deadline or a cancellation |
| | `Ingest`, `Persist`, `LoseRun` | IngestScanResult in one step, insertFindings; a crash or a failed commit |
| `PentestRecords` | `CaptureEvidence`, `EvidenceFails`, `HandOver` | the evidence stage of a run and the end of its pipeline |
| | `CreateScan`, `CreateAsset`, `CreateService`, `CreateEndpoint`, `CreateToolRun`, `CreateFinding`, `CreateEvidence`, `StoreReport`, `UpsertReport`, `UpsertSurface`, `CreateAuditLog`, `IngestFails` | IngestScanResult, statement by statement, file by file |
| | `ResolvePentestScan`, `RefuseScan`, `GetScan`, `GetAttackSurface`, `ListAssets`, `ListServices`, `ListEndpoints`, `ListFindings`, `GetFinding`, `ListEvidenceForFinding`, `DownloadEvidence`, `ListReports`, `GetReport`, `DownloadReport`, `GetAuthorization`, `Answered` | the handlers, a query at a time, with the responses they make of the rows |
| `Scoring` | `Found`, `Fixed`, `EndedOtherwise` | one finding more or less, one job that ended otherwise: `Score` and `Verdict` are Compute |

`Workspace` names a clone by the job that created its entry, so that "the clone a
job reads" and "the clone that is on disk" can differ. `Sandboxes` counts a Job
as gone when deleted and its pod as gone later, as Kubernetes does; `Objects` is
what a run makes, in that order. `Deployment` is about the order in which a
process opens and closes what its loops and requests use, and about processes
that come up over a database another one is still preparing; what the loops do
is in the other modules, and the sweeps of a start are in `Sandboxes`. In
`Schedules` a cron expression is the time between its runs; a slot is the
`next_run_at` it was listed with. `Scoring` does the code's integer arithmetic on
the code's numbers; raw scores are rounded to thousandths.

`PentestRecords` begins where `Pentest` ends: two runs may be of one scan (a job
that was queued twice), two scans of one project. The identifier of a row in
`pentest_scans` is the run that inserted it, so "the row of the scan" and "the run
whose rows these are" can differ. A file that is asked for by a key nobody wrote
is `NoFile`, which is what lets a property say that it never happens.

### What the engines do (composed by MCEngines)

| module | actions | code |
|---|---|---|
| `Dependencies` | `TakeInventory`, `StopDependencies`, `SweepSecrets`, `EmitAdvisories` | depscan's Run with its five parsers, its hygiene rules and its sweep for credentials |
| | `ReadCache`, `AskBatch`, `BatchFails`, `Resolve` | Lookup of the advisory service and OSV.dev's client: cached answers first, the rest in batches, then each advisory |
| | `Publish`, `Expire` | OSV.dev learns of an advisory (external); an answer's time in the cache ends |
| `Kubernetes` | `DiscoverManifests`, `RenderChart`, `AddTemplate`, `K8Interrupted`, `K8Evaluate` | k8sscan's Run: files, charts through helm, documents, the rules over the graph of all |
| `Reviews` (with `Pipelines`) | `StartPipeline`, `EvaluateNext`, `StopRules`, `AskForMore`, `ReviewWorkflow`, `EndReview` | cicdscan's Run: `EvaluateWorkflow` of `Pipelines` is its rules, then the model, workflow by workflow |
| | `StartDocuments`, `ReviewDocument`, `StopDocuments`, `EndDocumentsEarly`, `EndDocuments` | docreview's Run: documents uploaded, then those of the repository, to a limit |
| `Scanners` | `StartCode`, `Analyze`, `SeeTask`, `ReadPage`, `EmitCode`, `FailCode`, `EndCode` | codescan's Run with SonarQube's client: analyse, wait for the task, page through issues and hotspots |
| | `StartImage`, `ScanConfig`, `EmitImage`, `AllConfigEmitted`, `TakeImage`, `ScanImage`, `FailImage`, `EndImage` | containerscan's Run: the Dockerfiles, then the image built or named |
| | `Process`, `ReviewHotspot`, `Push`; `CatalogueStep` | SonarQube, its users and git (external); rules that code syncs, runs register and operators switch |
| `Docker` | `Begin`, `WriteList`, `BuildImage`, `Pull`, `CreateContainer`, `StartContainer`, `StartsNothing`, `Wait`, `ReadLogs`, `Undo`, `FinishRun`, and `TimeIsUp`, `CallFails` | a run on a Docker host: a call to the daemon each, undone by what it deferred |
| | `StartHost`, `SweepOne`, `SweepStops`, `SweepEnds`, `CrashHost`; `Exit` | the sweep when a process starts; a crash; the container ends (external) |
| `PentestTools` | `RunStage`, one operator per stage (`Recon` to `VulnDetect`, correlation, confidence, `Evidence`), `EndRunEarly`, `EndRun` | engines/pentest/stages: which tool is asked about what, and what is made of its output |

What a repository holds, what a tool would say of it and what a site serves is
input: a record with as much of it as the rules, the parsers and the stages tell
apart. A finding is its fingerprint (`modules/orchestrator/fingerprint.go`), so
two findings that the insert takes for one are one here as well. In `PentestTools`
any call of a stage may fail, up to a bound; what a failed call would have
registered is not there for the stages that follow.

`PentestTools` implements `Pentest`: `AsPentest` maps its variables to those of
the module without tools, and `RunAsPromised` is the statement. `Pentest` is thus
the abstract specification of a run (each stage may come by some of what there is),
on which the properties of correlation and storage are checked.

### What people and GitHub ask (composed by MCRequests)

| module | actions | code |
|---|---|---|
| `LiveScan` | `Push`, `Receive`, `ReceiveFails`, `EnableAgain`, `Disable` | GitHub's deliveries (external), service.go |
| | `PopEvent`, `ArmPending`, `ListDue`, `ClaimWindow`, `CountTrigger`, `ExpireCounter`, `DropOverLimit`, `CheckTokens`, `MarkCommit`, `MarkCommitFails`, `CreateScan`, `CreateScanRefused`, `LoseWork` | HandleQueuedEvent, FireDue and fire of a worker, one Redis command, script or statement each |
| | `WindowEnds`, `HourEnds`, `Spend` | clocks, other charges |
| `Members` | `CheckChange`/`WriteChange`, `CheckInvite`, `CheckAccept`/`Join`, `CheckClose`/`WriteStatus`, `RemoveCollaborator`, `Expire`, `CutShort` | organization/service.go, and the collaborators of project/service.go; each operation reads, then writes |
| `Accounts` | `CheckAddress`, `FoundOrganisation`, `CreateUser` | Register |
| | `ReadUser`, `ReadOrganisation`, `WrongPassword`, `RightPassword`, `LockRunsOut` | Login |
| | `SuspendUserOrOrganization`, `Reinstate`, `CheckUser`, `CheckOrganisation`, `AcCutShort` | admin/service.go; CheckSuspension, which every request passes |
| `Sessions` | `ReadToken`, `ConsumeToken`, `ReadRole`, `IssueToken`, `RevokeFamily`, `ReadForLogout`, `StartSession`, `ChangeAccess`, `Age`, `DropRequest` | Refresh, Logout and the token pairs of a switch, statement by statement |
| `Projects` | `CreateProject`, `FirstAttachFails`, `DeleteProject`, `ReadProject`/`WriteProject` | Create, Update, Archive |
| | `ReadForAttach`, `ValidateRepository`, `UpsertRepository`, `StoreCredential`, `RefuseToken`, `GetCloneInfo`, `ShallowClone`, `MarkCredentialInvalid` | AttachRepository, the credential and the worker that clones with it |
| | `RegisterTarget`, `Attest`, `RevokeTarget`, `SetFlag`, `AdminRevokeTarget`, `CountDocuments`, `CreateDocument`, `DeleteDocument`, `PjCutShort` | targets, an operator's flag, documents |
| `Addresses` | `ReadForChange`, `ReadForResend`, `UseAccountEmail`, `SetPendingEmail`, `SendLink`, `Open`, `Lapse`, `CutOff` | notification/service.go and the settings' row |
| `Browser` | `StartCall`, `ServeCall`, `Arrives`, `ArrivesRefused`, `ArrivesExpired`, `AwaitRefresh`, `Resume`, `ServeRefresh`, `RefreshArrives`, `RefreshRefused`, `RefreshAwaitsItself`, `NewSession`, `ServeLogout` | request() and the store of a tab, the session handlers |
| | `AccessExpires`, `SessionIdlesOut`, `CookieIdlesOut`, `LoseCall`, `LoseRefresh`, `Reload` | time, the network, the user |
| `Assistant` | `Quote`, `StartPass`, `LookUp`, `TakeKey`, `QuotaRefusal`, `Rotate`, `Repair`, `Answer`, `GiveUp`, `ChargeCommand`, `Reply` | assist.Run, ai.Run, gemini's Complete; each access to account, cache or pool index |
| | `QuotaChanges`, `CacheExpires`, `SpendElsewhere`, `Restart` | what others do to them |
| `ScanRequests` | `Toggle`, `Choose`, `RefreshBilling`, `RefreshProject`, `TimerFires`, `EstimateArrives`, `LoseEstimate`, `RunAll`, `RunPicked`, `AttestFirst` | ScanLauncher with its two estimates and its two buttons |
| | `ServeEstimate`, `ServeCreate`, `Change` | PreviewScan and CreateScan up to the payment, a read at a time; others who change the project, the balance or the plan |
| `ScanWatch` | `OpenPage`, `PollAgain`, `ShowBoth`, `ShowError`, `ShowFindings`, `FindingsFail`, `ClickCancel`, `CancelFails`, `CancelArrives` | ScanDetailPage |
| | `StartIndicator`, `StartTick`, `TickArrives`, `FailTick`, `TickDropped`, `LookUpScan`, `LookUpFails`, `StopIndicator`, `SwitchSession` | activeScansStore with the indicator that starts and stops it |
| | `Serve`, `Refuse`, `ServeCancel`, `ServeTick` | GetScan, GetProgress, ListActiveScans, row by row |
| | `BeginScan`, `AddJob`, `RunJob`, `ReportProgress`, `CloseJob`, `ClearProgress`, `CancelElsewhere` | the scans, which go on as `ScanPromise` says |

`LiveScan` is about one branch. A scan for a pull request that is opened from it clones that
branch, as one for a push does (`livescan/worker.go:112` and `:221`).

`Browser` takes what the server does for one call as one step and leaves the
statements of a refresh to `Sessions`; a tab runs one continuation at a time, up
to the next `await`. A token's scope is the organisation or project it acts on,
and each tab keeps a `user` beside it. The jar holds one cookie for all tabs, so the model
remembers which tab's answer set it (`broughtBy`), and of a refresh whose cookie it took
along. A tab whose switch was answered and whose question after it was not is `halfSwitched`.
`Assistant` is one process: the cache and
the pool are in memory.

`Identity` is `Accounts`, `Sessions` and `Browser` with the property about all three. `ScanRequests`
does the arithmetic of prices (multiplier of a preset, rounding up to fifties) on the
code's numbers, since what it is about is that two callers do it alike.
`ScanWatch` has `ScanPromise` for its world: each step that changes a scan is one of
the promise's, and a query reads it in as many steps as it has statements, so that
what a page is told may be of several moments.

### The composing modules

The modules of one table share no state, so nothing is gained by interleaving
them. `MCWorkerServices`, `MCEngines` and `MCRequests` have a variable `part` that says which
one a behaviour is about, and let the others stand still; some modules have
several parts with different bounds (a browser with one tab and faults, or with
two tabs and none; the pipelines and the documents of `Reviews`). The composing
modules state the type invariant of all their
modules in one property; in `MCRequests` that is the type of the module that moves, for
the others stay as `RqInit` has left them. `MCScanLifecycle` and `MCBilling` give the constants of
the other two.

## 4. What the runs check

| run | instance | what it shows |
|---|---|---|
| `scan_safety` | one scan of two engines, two workers, a sweeper; up to three crashes, failed statements, failed Redis commands or flushes at any step | No job is queued or claimed twice (`ClaimedOnce`). A finished scan has no open job, no scan is left open with all jobs closed (`ScanEndsWithItsJobs`), and each ends as it was asked to (`ImplementsPromise`). Counts, findings and score belong together (`ResultsBelongTogether`); at most one announcement; no refund for work the client got |
| `scan_overrun` | a scan and a stuck one, a worker, two sweepers; two of slow worker, lost reply, failed statement, crash | The inductive invariant `IInv`, and what remains true when two actors close the same job: no ending is revised (`FinishedScanIsFinal`), no cancelled scan is scored |
| `scan_liveness` | as the first, one crash, failed statement or failed command, with fairness | `WorkComesToAnEnd`: a running job is closed in the end, a created scan finishes unless one of its jobs never reached a worker. `AftermathComes`: without a fault, a finished scan is announced and unserved jobs are refunded |
| `billing` | months of two ticks and of one. What spends: two scans (one not in the free plan), a command, a checkout of a month or a pack, an adjustment, around the end of a long month. What pays: two checkouts for plans over four ticks or one over five, renewals by passes of two grants, cancellations, one advanced cycle. Operations up to a tick late | `BooksBalance`: the ledger explains every bucket, and none is overdrawn or overfilled, so the table's CHECK never stops an operation. `PaidAndRefundedInFull`: charges, refunds and commands are whole and happen once. `NobodyRidesFree`: a plan's grant is never made for a month nobody paid for. `LapsedPlanIsDue`: a plan is on the ticker's list within a month of the end of its period. `ClosedCheckoutStaysClosed` |
| `worker_services` | two processes over an empty database, of all roles, one of which may leave the migrations to the other; four jobs of two scans and their clones; a script or a code scan and two processes that sweep; a schedule on two replicas; two reports and two senders; a pentest; two runs that put theirs on record while three people read; the scores of two engines; a fault in each | `SharedClone`: who reads, reads a clone that is there, all of a scan the same, and the last removes it. `FencedAndCleared`: a script is fenced until its run, or the sweep of its own process, has told its Job to go, and nothing of a run stays. `ReplicasInStep`: no replica fires twice and no report is sent twice, but for what crashes and leases cost, and no process works before the database has the tables and rules it needs, or with something it has closed. `OneRowPerIssue`: what a pentest finds is what is stored. `PentestOnRecord`: two runs do not mix, what has a row can be downloaded, what is audited is whole, every page tells the same, nobody sees another organisation's. `MoreIsNeverBetter`: scores. `ServicesDoTheirWork`: waiting jobs go on, due schedules move on, reports are mailed or given up |
| `requests` | two workers, requests, calls or tabs at a time, each read and each write a step, with a fault | `PushesScannedOnce`, `LiveScansStayWithinLimits`: live scanning. `MembersInOrder`: an admin remains, an invite is answered once. `SignedInInOrder`: locks, founders, suspensions; one live refresh token; a tab shows what it acts on, and the client does not end its own session. `ReportsGoWhereVerified`: addresses. `OnlyAStaleReadUndoes`: a project. `ScreensInOrder`: a scan's engines and price are those that were shown, as long as nothing has changed; a page that stops polling shows how its scan ended, 100 percent means over, and the indicator tells of a scan once it is over and once. `AskedAndPaidFor`: the language model |
| `engines` | two scans each of small repositories and images, a Docker host with two processes, a pentest of four sites; outages, expiring answers, failing calls, tools that fail or are cut short | `AdvisoriesReported`: what OSV.dev knew of an installed package is reported, whatever other runs left in the cache. `ManifestsJudgedAlike`: order, files and charts make no difference. `TheModelOnlyAdds`: rules stand alone, uploads come first. `HostKeptClean`. `ToolsReportWhatIsThere`: two scans that share SonarQube report their own commit, images what is in them, a pentest loses to a tool that fails or is cut short only what rests on it. `RunAsPromised`: `PentestTools` implements `Pentest` |

The five remaining runs each look for one counterexample, and TLC finds it: see
section 6.

### Bounds, and why they are enough

- *One scan in `scan_safety` and `scan_liveness`.* Scans meet in the queue only,
  and `Claim` does not look at a job's scan. Two jobs and two workers are what it
  takes for two results of one scan to race. Two scans are in `scan_overrun`,
  where the sweeper's second half needs one. The theorems of section 5 have no
  bound.
- *Three faults* are enough to lose a worker, then its successor's write, then
  the sweeper's. With the fault kinds of `scan_safety` separated from those of
  `scan_overrun` each run stays around half a million states.
- *Symmetry* of the workers in `scan_safety`, the sweepers in `scan_overrun`, the
  checkouts in `billing` and the two of every kind in `requests`, runs without
  liveness properties; the members of these sets are nowhere compared or
  ordered. (`Subject` chooses among scans, which are not permuted.)
- *Time.* `MaxTime` ticks. In the billing runs a calendar year is a month of two ticks
  and one of one, so that a date may be one that the next month does not have, and a
  plan for a "year" lasts two months. Spending needs one month boundary, on both
  sides of which every operation occurs, late ones included. Plans need three or
  four: two months, a renewal after them and one more for a pass that catches up.
  `MaxLag` of half a month is far more than a transaction waits.
- *Amounts* are small, chosen so that a charge spans two buckets, a correction
  exceeds a bucket, a command may be paid from two, and the free grant does not
  cover both scans.
- *`GrantsPerPass` of 2* makes a pass end before it has caught up, which thirteen
  would not do in four months.
- *Workspace*: three jobs of one scan, so that one creates the entry, one joins,
  and one comes between the last release and the removal; a fourth of another
  scan for what must not be shared.
- *Sandboxes*: one object of each kind is all the three runners create; a run and
  another process whose sweep meets it; three starts, so that each process can
  start, crash and come back.
- *Deployment*: two processes, one per kind of setting; two migrations, the first of
  which makes the table of rules, and two rules, so that a process can come
  between any two of them; one request in hand, three starts, one step that fails.
- *Schedules, Outbox*: two replicas and senders; two due times and one edit; two
  reports in a batch of two and a lease that lapses once; two attempts, so that
  one retries and one gives up.
- *Pentest*: two ports and two files, which is what it takes for every scope of
  deduplication to join or to separate two findings, and a finding from each
  stage that has any.
- *PentestRecords*: one run that found much and one that found little, so that rows
  of one cannot pass for the other's; of one scan or of two, in one organisation;
  three who ask: a member, a collaborator of one of the projects, a stranger. Two runs of
  one scan go on together; the run of another scan follows the first, for their
  rows never meet. `topFindingsLimit` of 1 (10 in the code) cuts a list of two.
- *Engines*: each checkout, commit, image or site holds what one rule, parser or stage
  has to tell apart from another's: two manifests that name one package, with and
  without lockfile; a chart inside a chart; a workflow each rule fires on and one where
  none does; an image that is built, named, or neither; four sites and three
  presets. Two scans meet where they share something (the cache of answers,
  SonarQube's project, the Docker host) and are one where they do not. Two tools
  fail or are cut short: one, and one that would have made up for it. What a tool that
  is cut short has said is any part of what it would have said.
- *Scoring*: up to where three criticals and the weights of two engines pass every
  floor and threshold; each smaller set of findings is a state.
- *The requests' modules*: two at a time. A third would read either what the first
  or what the second wrote. One fault; a lock of two failures; a session of three
  tokens (one presented again, its successor, and one more by mistake); two
  addresses with two links, an older and a newer one; two documents, so that two
  uploads meet at the limit; one tab with a fault (after which no session follows one
  that has ended), or two tabs with two families and none, which switch to a shared
  project only; two keys, so that two refusals skip one.
- *The screens*: two engines of which one needs a target and a plan, one price that
  a setting doubles, one ceiling that turns it down, one change by others between any
  two steps; two scans, one of which a collaborator may see, a list with room for
  one, one failed answer, two overlapping ticks (failures and overlaps with one scan only).
- Deadlock is checked in the scan runs: a cancel request is always possible on a
  scan that exists, and a request that never came is always possible. The billing
  runs stop when the clock does and everything is sold; the composing runs when
  there is no more to ask, to fire or to send. It is off there.

### Fairness

`FairSpec` asks for weak fairness of each worker's steps, each sweeper's, the
request handler's once it has begun, and of time (`AgeOut` without the fault).
Why the code justifies it: each worker is a goroutine looping over a blocking
pop (`worker.go` Start and runWorker); each engine runs under a deadline and the
panic of one is recovered; the sweeper is a ticker loop
(StartOrphanSweeper); the handler is straight-line code; `started_at` is compared
with the wall clock. The clone in `Prepare` has no deadline of its own; its
fairness is that `git` ends. Weak fairness is enough, since no step of an actor
is disabled by another actor for good and then enabled again: an idle worker's
claim is, when another worker takes the job, and then there was nothing to do.
Nobody is obliged to request a scan (`Charge`) or to cancel one, and no fault has
to happen.

`scan_liveness` states its conclusions with what the code can really promise:
a scan's end excepts one with a stranded job, in the database but neither in
Redis nor with a worker, for nothing in the code looks for these;
announcements and refunds are promised for behaviours without a fault, for the
steps after the commit are not retried.

`MCFairness` of `worker_services` asks the same of the goroutine of each
repository job (it does not wait for more than the clone, a channel or its
context), of each replica's ticker (`scheduler.go` Start), of each sender's
(`sender.go` Start), of ScanFinished once it has begun, and that a lease or a
backoff, which are compared with the clock, run out. Nobody has to edit a
schedule, and no fault has to happen. The pentest, its records, the sandboxes, the scores and
all of `requests` and `engines` are checked for safety only: a handler that ends is no
promise to anybody else, and that an engine ends is `scan_liveness`' subject.

## 5. What is proved

A theorem holds for any sets of scans, jobs, workers, requests, processes, any
bounds and any number of faults, from the module's `...Assumption` and what the
table says. Each invariant was model-checked before it was proved. Modules of
proofs have one lemma for each action, or for a group of actions that change the
same things; a theorem `...Inductive` puts them together, and the others follow
from it.

| theorem | states | with |
|---|---|---|
| **`ScanLifecycle_proofs`** | | |
| `Inductive` | `Spec => []IInv` | |
| `TypeCorrect` | `Spec => []TypeOK` | |
| `EveryJobClaimedOnce` | `Spec => []ClaimedOnce` | |
| `ScansEndWithTheirJobs` | `Spec => []ScanEndsWithItsJobs` | |
| `FinishedForGood` | `Spec => FinishedScanIsFinal` | |
| **`ScanOutcome_proofs`** | | |
| `KeepsThePromise` | `Spec => ImplementsPromise` | |
| `CancelledNeverScored` | `Spec => []CancelledScanHasNoScore` | |
| `NobodyOverlaps` | `Spec => []AloneInv` | no `"slow"` |
| `ResultsAgree` | `Spec => []ResultsBelongTogether` | no `"slow"` |
| `RefundsAreDeserved` | `Spec => []RefundedOnlyIfUnserved` | neither `"slow"` nor `"lostreply"` |
| `AnnouncedOnce` | `Spec => []AnnouncedAtMostOnce` | no `"slow"`, and `LoneSweeper` |
| **`Billing_proofs`** | | |
| `BillingInductive` | `Spec => []BillingInv` | |
| `BooksAlwaysBalance` | `Spec => []BooksBalance` | |
| `PaidAndRefunded` | `Spec => []PaidAndRefundedInFull` | |
| `LapsedIsDue` | `Spec => []LapsedPlanIsDue` | |
| `ClosedStaysClosed` | `Spec => ClosedCheckoutStaysClosed` | |
| `NobodyFree` | `Spec => []NobodyRidesFree` | |
| **`WorkerServices_proofs`** | | |
| `WorkspaceInductive`, `WorkspaceTypes` | `WsInv`, `WsTypeOK` | |
| `CloneIsShared` | `WsSpec => []SharedClone` | |
| `SandboxesInductive`, `SandboxesTypes` | `SbInv`, `SbTypeOK` | |
| `ToolsFencedAndCleared` | `SbSpec => []FencedAndCleared` | |
| `HostStaysClean` | `DkSpec => []HostKeptClean` | |
| `OneRowEach` | `PtSpec => []OneRowPerIssue` | |
| **`WorkerReplicas_proofs`** | | |
| `SchedulesInductive`, `SchedulesTypes` | `ScInv`, `ScTypeOK` | |
| `SlotsFireOnce` | `ScSpec => []FiresASlotOnce` | |
| `OutboxInductive`, `OutboxTypes` | `ObInv`, `ObTypeOK` | |
| `ReportsMailedOnce` | `ObSpec => []EmailedOnce` | |
| `DeploymentInductive`, `DeploymentTypes` | `DpInv`, `DpTypeOK` | |
| `DeploymentInOrder` | `DpSpec => []ProcessesInOrder` | |
| `ReplicasStayInStep` | `RpSpec => []ReplicasInStep`, the three together | |
| **`Requests_proofs`** | | |
| `AssistantInductive`, `AssistantTypes` | `AsInv`, `AsTypeOK` | |
| `EveryAnswerPaidFor` | `AsSpec => []AskedAndPaidFor` | |
| `LiveScanInductive` | `LsSpec => []LsInv` | |
| `PushesAreScannedOnce` | `LsSpec => []PushesScannedOnce` | |
| `LimitsHold` | `LsSpec => []LiveScansStayWithinLimits` | |
| **`Projects_proofs`** | | |
| `ProjectsInductive`, `ProjectsTypes` | `PjInv`, `PjTypeOK` | |
| `StaleReadsAlone` | `PjSpec => []OnlyAStaleReadUndoes` | |
| `MembersStayInOrder` | `MbSpec => []MembersInOrder` | |
| **`Identity_proofs`** | | |
| `IdentityInductive` | `IdSpec => []IdInv` | |
| `SignedInStaysInOrder` | `IdSpec => []SignedInInOrder` | |
| `ReportsStayVerified` | `AdSpec => []ReportsGoWhereVerified` | |

### The lifecycle

`LifecycleAssumption`: each job belongs to a scan, each scan has a job, workers
are not sweepers, `NoJob` is no job. That a finished scan has no open job is not
inductive: MarkRunning sets a job to running whatever its status and its scan's.
What saves it is that the worker about to do so is the only one that ever has the
job, and that the job's row has said queued since before it was in Redis; so its
scan cannot have finished. `IInv` says just that, in parts:

- `ActorsOK`: an actor at a point of its loop holds what that point needs.
- `RowsOK`: rows are written in the order scan, job, queue, and CreateScan's loop
  knows which are; a job it has yet to queue is untouched.
- `ClaimsOK`: `ClaimedOnce`, and that a job in Redis, or with a worker that has not
  marked it yet, is queued in the database. With it `Enqueue` cannot queue a job
  again, and `MarkRunning` strikes a scan that is open.
- `SweepOK`: what sweepers have on their lists was started, or is stuck from
  before; a stale list never holds a job that a worker may still find queued.
- `LegacyOK`: scans stuck from before have all jobs closed, and stay so.
- the two properties themselves: a scan ends when its last job closes, and then.

`FinishedForGood` and the refinement are then about single steps: the only ones
that touch a scan's status are InsertScan, MarkStarted, Persist and
FinalizeStuck, and the last two only on open scans. A second result for a closed
job (a slow worker, a second sweeper) maps to a stutter of the promise.

### What a scan leaves behind

`CancelledNeverScored` rests on the re-read in finalizeScoring: a score is only
written for a scan that is completed, and `FinalStep` of the lifecycle says that
it stays so. It holds for all faults.

The other three are false as soon as a live worker is slower than the orphan
deadline (run `slow_worker` shows one of them), so they assume that `"slow"` is
not among `Faults`; with it, they are invariants of `Spec` with all other faults.
What they have in common is `AloneInv`:

- a job on a sweeper's list, or past its deadline, is in no worker's hands
  (`SweptAlone`);
- so a worker that has marked a job running finds it as it left it (`HoldsOK`), and
  a sweeper stores nothing but that a job was lost (`LosesOK`).

So nothing is stored for a job that was closed behind its worker's back, and
`ResultsBelongTogether` is a conjunct away. `RefundsInv` follows a refunded job
back to everyone who could still run it: CreateScan refunds only what it has not
queued, persist only what it has just closed. This needs a push that fails to
have no effect, hence no `"lostreply"`. `AnnounceInv` says who may have a scan in
`won`: one actor, and only if the scan has finished or a commit of his has failed
with the job that keeps it open still in his hands (`Believes`). Two sweepers
with the same list could both believe so, one wrongly, which is why the theorem
has `LoneSweeper` (a single sweeper, if statements may fail at all); TLC finds the
counterexample with two sweepers, a crash and a failed commit (section 6). The
assumptions of all three are true of `scan_safety`, which checks the properties.

### The account

`BillingAssumption`: prices, grants and lengths are positive, jobs are those of the
scans. `LinesAssumption`: a scan that is charged has a job, and no job is charged
twice (Charge returns at once when there are no lines; a job's id is a new UUID).
`CalendarAssumption`: a month ends where the next one starts, none lasts more than
twice as long as another, and all years are alike. `PeriodAssumption`: a plan is paid for
by the month or by the year, and no pack is called like one. Nothing bounds the number of
buckets, rows, charges or refunds, nor how old the clock reading of an operation is.

`BooksBalance` says that a bucket holds neither less than nothing nor more than was
put in. That is not inductive: a refund gives tokens back to a bucket whatever
has become of it, and only what has been debited from it and when says that they
fit. The invariant is that the book is `Good`:

- `Explained`: what is left in a bucket is the sum of its rows;
- `Covered`: what is left is not negative, and with all debits given back that have
  no refund yet it is at most the amount. A debit moves tokens from the one to
  the other, a refund moves them back, an expiry and a correction only take;
- `KeysDiffer`, `DebitsOwn`: a key is in the ledger once, and names the job and the
  bucket of its row, so that a second refund meets the key of the first.

`PaidAndRefundedInFull` needs that the book is also `Settled`:

- the debits of a scan's jobs are all there, each amounting to its price, or none is;
- the refunds of a job are none, or the mirror image of its debits (`Mirrored`);
- a command's rows are none, or amount to its price with the command's own key among
  them (`Answered`), which is how the next try finds it.

So a second refund posts nothing, and a scan that is charged has no debit of any of
its jobs, though Charge asks for the first one only. That a payment takes exactly
what is owed is an induction over the spendable buckets, each with all that are
`Ahead` of it: the last of them (`LastExists`) takes what the others leave
(`LastTakes`), and in the end the balance is less by what was owed (`DrainPays`).
Over the lines of a scan it follows that a balance that covers the sum covers each
line when its turn comes (`OneLine`, `ChargedSettled`); the check of the sum before
the first line is all there is against half a payment.

`LapsedPlanIsDue` says that a list made from grants misses no plan that has ended. The
invariant is `InStep`: the next grant of a paid plan is at most a month after the end
of its period, and exactly at it for a plan paid by the month. A turn of a renewal
moves the grant only of a period that is not over, and by at most the longest month
(`MonthsLater`, from `MonthsFollow`, which steps across the end of a year). One that
is over it ends, or prolongs together with the grant: several months are no shorter
than the longest one, which is what `CalendarAssumption` is for, and one month is the
same month for both (`NextInStep`). An operator moves both dates by as much
(`ShiftedInStep`).

`NobodyRidesFree` counts the grants of paid plans. How many there are says nothing of how many are
to come, so the invariant `FairInv` adds those that the schedule has left
(`InBudget`): the grants made and `GrantsUntil` the end of the period are no more than
the months paid for, with a year for every advanced cycle, and what is left of a period
is never longer than a year. A turn makes one grant and must leave one less to make
(`TurnInBudget`, from `OneGrantLess`), a renewal is such turns (`RenewedInBudget`), and
a period nobody paid for again ends in the free plan, whose grants do not count. A purchase starts
its schedule anew and brings as many months as it adds (`BoughtInBudget`, `GrantsOfAYear`); an
advanced cycle moves both dates to now, so that it gives one period away and no second
(`AdvancedInBudget`). `OneGrantLess` is where the calendar comes in: from a day that the
next month does not have, AddDate counts on into the one after it, which passes over a
month and never grants one twice. It takes that an instant is in one month only (`OneMonth`), that
`MonthOf` finds it (`InMonth`), and that years repeat (`YearsRepeat`, from the
uniqueness of quotient and remainder, `Quotient`).

There is one lemma for what only takes (`SpendingGood`, for `Drain` and
`ExpireAll`: from no bucket more than it has), one for refunds (`RefundGood`) and
one for new buckets (`AddBucketGood`).

A balance is a sum over a set, so this needs induction over data. The theorems on
induction of the library take an operator as a parameter, which no prover here
instantiates; but that the order of the naturals is well-founded is a fact about
sets. From it follow that a set of naturals has a least element (`Least`), and
induction with a *set* in place of the predicate (`Steps`, `SetInduction`). Thus a
fold over a finite set exists, is unique and does not depend on the order
(`SumExists`, `SumUnique`, `SumPart`), and `SumInt`, `SumLess` and
`SumEmpty` are all that the rest uses. The two folds over sequences are unrolled, value by value, into
functions of the position (`PaidLineByLine`, `RenewedTurnByTurn`).

`ClosedStaysClosed` is about single steps: all that change a checkout find it pending
or not opened yet.

### Clones, sandboxes

*Workspace* (`WorkspaceAssumption`: finitely many jobs, each of a scan). That a
reader's directory exists is kept by a counter, so the invariant has to say what
it counts: `CountsOK`, the reference count of an entry is the number of jobs that
joined it and have not released it. With `HoldersOK` (an entry somebody holds is
the one in the map) and `DisksOK` (a directory that is held is there, and one that
is there is held or about to go) the last release is the last, and a job that
comes after it clones anew. The lemmas `Joining` and `Leaving` are the two facts
about cardinalities this takes.

*Sandboxes* (`SandboxesAssumption`). For each run: the objects it has made are
the first of its list (`CountOK`, `LeftOK`); a script's list ends with its Job,
after its policy, so a Job is there only behind a policy (`JobBehindFence`). For a
run that died with its process: what is left is what that process's next start
has yet to come to (`ToBeSwept`), since a start sweeps Jobs before policies. A
process that is starting has no run of its own in flight (`IdleOK`). A pod is never
without its Job (`PodOK`), so that one without a policy belongs to a Job that was told
to go. Runs that another process's sweep has struck (`disturbed`), and those of which a
call that failed may have left something, a deletion that did nothing or a creation that
did something all the same (`leaked`), are exempt, as in the property.

*The Docker host* (`DockerAssumption`). A run notes what it makes in the step that makes
it, so whatever is there is noted until it is undone (`DkNoted`), or it is a stray one, left
by a call that failed. A run that is over has nothing noted, hence nothing there. Of a script lost
with its process the container is there until the next start of that process lists it, since
a start lists all scripts' containers, and whatever a sweep passes over is a stray one
(`DkSwept`). A process that has runs in flight has swept and does not sweep, so a container
killed under its run was killed by another process's sweep (`DkEnds`), which is the one way
in which a result can be complete without the tool's own end.

*A pentest* (`PentestAssumption`). `PtInv` follows the findings down the pipeline: found is
pending until Correlation, then the groups are `Merge(found)`, and from Confidence on they are what was
emitted (`OnItsWay`); whoever ends early has emitted all of it or none. `GroupIsIssue` is the one
fact about keys: `DedupKey` together with the rule is `SameIssue`, since a rule has one scope.
That two issues may share a fingerprint is not excluded, and the theorem says so with `Outdone`.

### Schedules, outbox, processes

That a slot fires once and a report is mailed once is no matter of a lock: any replica
may do either at any time. So the invariants are budgets. What a replica has fired of a
slot, and what may still make it fire (the tick that has it in hand, the row while it
says that the slot is due and the replica has not seen it, an edit that has read it), is
at most one and the faults and edits so far (`Budget` of `ScInv`). What was delivered of
a report, the senders that hold it and may still get it delivered, and the row while
somebody may claim it, is at most one and the faults and lapsed leases (`MailBudget` of
`ObInv`). A step that fires or delivers uses up what might have; what puts it back is a
fault, an edit or a lapse. `SchedulesAssumption`: the time between two runs of
a cron is not zero.

`DeploymentAssumption`: there are rules, and one of the migrations makes their
table. Nothing a process relies on is ever taken back by another: migrations and
rules only become more, which is monotonic, so the invariant is one of a single
process (`InOrder`), kept by the steps of the others (lemma `OneAtATime`). Its
parts follow run: past the migrations all are applied if it migrates
(`MigratedOK`), past the rules all are there (`RulesOK`), past each client it is
open, and closed again only after the loops were told to stop (`OpenOK`), and no
request outlives the drain but for the deadline or a server that failed
(`WorkOK`). What a process closes last it opened first: `CloseLast` takes the
greatest of `Turn`, so `"workers"`, which tells the loops, goes before all clients.

### Assistant, live scanning

*Assistant* (`AssistantAssumption`: there is a key and a price, commands are not
passes). That who gives up was refused by every key is a matter of positions: as
long as nobody else has moved the pool's index, the keys a request has tried are
the `tries` behind it (`PoolOK`, lemmas `TurnsAdvance` and `BehindGrows`), and after
as many rotations as there are keys that is all of them. `BooksOK` and `PaidOK`:
what was charged is the price of what was paid, once each, and a command that is
answered was paid before.

*Live scanning* (`LiveScanAssumption`: bounds are numbers, and there is an hourly limit, for
0 stands for none in the code). A push is handed on from the
queue to a worker, to the window, to a worker again, and no two of these are one step.
`NoneLost` says where it is: the commit, or a later one of the branch, is queued, with
a worker, in the window, or answered by a scan or by a record of its refusal, unless a
fault or the switch has excused its loss; a marker has its scan, or a worker about to
create it. Against too many scans there are two tallies. The scans of a commit and the
workers about to create one are no more than the commit's marker and the faults
(`AllOnce`); those of an hour and the triggers of that hour that may become one are no
more than the counter has counted, nor than the limit (`AllHours`): a trigger that is
over the limit is in neither, and a crash only takes from both. Who is about to pay saw
a balance above the floor or was overtaken by somebody who paid (`Paying`).

### Projects, members, identity, addresses

These are requests that read, decide and write without a lock. In each module but `Browser`
whoever writes a row marks the others that have read it; the invariant says what holds
of those that are not marked.

*Projects* (`ProjectsAssumption`). Each operation reads, and writes later.
`PendingOK` says of each request under way that what it read still holds, or that
it is marked stale; every write of a row marks the others that have read it. So
either a stale request has written (`overrun`), or the four properties hold. The
properties promise nothing after an overrun, and neither does the invariant.

*Members* (`MembersAssumption`). A demotion looks for another admin before it writes.
Until one demotion has overtaken another, there is an admin, and each request that has
looked and was not overtaken leaves one (`LeavesOne`): a promotion only adds to what is
left, a demotion marks the others. An invite nobody has raced for has one request at a time,
which still finds the status it has read (`InviteOK`); what was accepted was used, and
what was used says so, is about to, or was cut short.

*Accounts* (`AccountsAssumption`). The count a login has read is the row's until another
login writes it (`RequestsOK`), so as long as none was miscounted the row counts the wrong
passwords, and it is locked exactly from the last on (`CountOK`). An organisation that has
no account yet belongs to a registration under way, or one that was cut short or beaten:
`FoundersOK` counts them. Whom a request found suspended at one of its two looks it does
not let in.

*Sessions* (`SessionsAssumption`). Between the statement that consumes a token and the one
that inserts its successor a session has no live token and is owed one. `LiveOK` says
that a session's live tokens and the one it is owed have room: one, none once it is revoked,
and one more for each that a stale request has issued (`Room`). Of the requests nobody
has overtaken at most one owes (`OneOwes`), since who consumes a token marks all others that
have it; who revokes a session marks them too, so none is owed afterwards.

*Browser* (`BrowserAssumption`). No row is read here and written later; what lags is what
calls and refreshes carry. `CallOK`, `AnswerOK`, `RenewalOK` and `FlightOK` say what each of them
is at: a call that waits, waits for the one refresh of its tab, and an answer is about what was
asked. `TokensKnown`: the server has issued every token there is, so none is ahead of its
session. That no token comes twice then rests on where the latest one is (`NothingTwice`):
refreshes carry different tokens, one that is sent carries the latest, a token that an
answer brings is the latest and nobody has it yet, and the cookie is the latest unless a
refresh has it and is answered with the next. What a tab shows rests on `TabOK`: it shows
what its access token acts on, or a call under way will say (`ShowsOrAsks`), that call is
about the token the tab has (`AsksAbout`), and a cookie the tab has set itself, in the jar or
with a refresh, is for what it acts on (`Agrees`). It is promised only of tabs where no answers
overtook each other, and which got an answer when they asked, after a switch, who the user is
(the others are `halfSwitched`, see section 6); the lemmas say of each step which answers those are. The
attempt to prove an earlier form of this failed for a reason beyond the bounds of
the run: a tab could take the cookie for its own because it was for a session the tab
had started, although the late answer to another tab's refresh had put it back. That
is why the model says who set the cookie, and excepts a tab that refreshes with a
cookie another tab has set.

*Addresses* (`AddressesAssumption`). `LinkOK`: the link in the row was made for the address that
waits, which is why confirming it is safe whatever happened since it was mailed;
`BackOK`: who went back to the account's address and was alone is done, and no address waits, or
is about to be.

### What stays model-checked, and why

- Liveness (`WorkComesToAnEnd`, `AftermathComes`, `ServicesDoTheirWork`), which rests on
  fairness, and TLAPS does not do that.
- `PentestTools`, `Scoring` and the engines' modules but `Docker`: their properties
  compare what folds over inputs compute, input by input, which is induction over
  data and not an invariant that is kept by a step.
- `PentestRecords`: what two runs leave in nine tables and what a reader is told of them
  meanwhile; and `ScanRequests`, `ScanWatch`: what a page has been told is of several
  moments, and so are their invariants.
- `QueuedJobLeavesQueue` and the other four properties that a run violates, for they are
  false.
- The type invariants of the composing modules are conjunctions of those of their
  parts. Those of the modules proved about are part of their inductive invariants, without
  the bounds of the instances.

No module uses RECURSIVE operators.

## 6. Where the code and its documents disagree

Each of these is a run that TLC ends with a counterexample.

| run | the document says | the code does |
|---|---|---|
| `ack_before_persist` | a job is acknowledged once its result is stored, never before (`adapters/queue/jobqueue.go:57`) | runWorker acknowledges however processJob returned; one failed statement, and the job is off the list with its row queued or running |
| `no_recovery_sweep` | a flushed Redis only costs time: a sweep at startup queues the jobs again (`documentation/04-backend-architecture.md:317` of the repository) | nothing calls Requeue or ListProcessing; a queued job stays queued for good |
| `ghost_finalise` | PersistJobResult returns true exactly when it finalised the scan (`store/repo/job_result_repo.go:40`) | the flag is set inside the transaction and survives a failed commit; the worker scores and announces. The re-read in finalizeScoring and in ScanFinished makes it harmless as long as the scan stays open, which `scan_safety` checks along |
| `slow_worker` | a succeeded job stays paid for (`worker.go:516`), and what is past the orphan deadline is not running anywhere (`cancel.go:60`) | the engine's deadline starts after the clone and the orphan deadline before it; a slow clone is declared lost and refunded, then succeeds |
| `annual_downgrade` | a running year is not turned into a month (`modules/billing/service_test.go:274`) | the refusal is checked when a checkout is opened, not when it is confirmed |

`LapsedPlanIsDue` gives a plan a month because the code does: DueOrgs "lists orgs whose
next grant or period end is due" (`modules/billing/types.go:133`), but its query
(`store/repo/billing_repo.go:79`) looks at the next grant and at expired buckets
only. The grants of a year bought on the 31st drift past the end of that year, and
the plan stays for the days between.

In the same way `ResultsBelongTogether` holds in `scan_safety` and not with slow
workers: a late result replaces a job's findings after the scan has been counted
and scored. So does `AnnouncedAtMostOnce`, which needs a failed commit to fail, and somebody
else at the same job: an actor that wrongly believes it finalised the scan finds
it finished when it re-reads it, and announces it a second time. The somebody is
a sweeper beside a slow worker, or a second sweeper after a worker died with the
last job of the scan; with one sweeper and no slow worker there is nobody
(theorem `AnnouncedOnce`).
`RefundedOnlyIfUnserved` fails too when a push takes effect and reports an error:
the API then refunds a job that will run.

The other modules have the same kind of edges. Their properties name them as
exceptions, so that what is left is checked; they are collected here.

- *Pentest.* Two issues of one rule at the same ports (two files on one server)
  stay two groups (`engines/pentest/correlation/dedupscope.go:30`) and get one
  fingerprint (`stages/confidence.go:64`): the insert keeps one row, while the
  read model keeps both. A pentest that is cancelled or runs out of time before
  Confidence keeps nothing of what it found, though the worker says that what was
  emitted is kept (`worker.go:405`): nothing has been emitted by then.
- *Pentest tools* (paths in `engines/pentest`). Names that were discovered are never probed, say
  `checks/rules.go:146` and `checks/subdomains.go:83`; PortDiscovery has nmap ask
  about those that were validated (`stages/portdiscovery.go:42`), and finds
  nothing, for the script is given no TARGET_IP
  (`adapters/pentestsandbox/runner.go:123`). The bare-root sweep of nuclei without an HTTP port has no
  TARGET_PORT either (`stages/vulndetect.go:163`). A port that nmap calls "ssl"
  is an HTTP service only if httpx says so. An endpoint is validated when it
  answers at all. Once any is, templates for the root are not tried. A tool that runs
  out of time is no failure: RunScript (`pipeline/state.go:284`) hands on what it has said
  and does not look at TimedOut. So a naabu that is cut short narrows nmap, and all
  that comes after, to the ports it had come to (`stages/recon.go:40`), where one that fails narrows
  nothing; and of a response whose headers are read in part the rest counts as missing. No finding
  reaches the band "confirmed", for a group has findings of one tool.
- *Pentest records* (`modules/pentest`). The comment that nothing calls IngestScanResult
  (`ingest.go`) is older than the worker that does. A second ingest of a run,
  which the comments provide for, stops at the insert of the scan's row, which
  tolerates no other; an ingest that stops leaves a row whose counts are of rows that are
  not there. `pentest_findings.finding_id` is said to name a finding already
  stored (migration 00025); the ingest runs before SaveJobResult, which may
  keep only one of two. The roll-up of the attack surface counts services with a name as HTTP
  services, the reports count ports; assets and open ports agree.
  RecordAuthorization has no caller, so that GetAuthorization finds nothing.
  A cookie's findings merge over a scan and name the first cookie.
- *Dependencies.* A lockfile that cannot be parsed makes the parser fall back, says
  `documentation/05`; a bad package-lock.json or composer.lock fails the job. The flag
  "advisory_data_unavailable" that a result is to carry when OSV.dev cannot be
  reached stays inside the engine, which passes over the dependency: the job
  does not show it. A lockfile of the old npm format is passed over for
  package.json (as `parse_npm.go:26` says), so what it pins transitively is
  not looked up.
- *Rules.* An operator who turns a rule off (`rules.enabled`) changes what is
  listed; no engine asks.
- *Kubernetes.* The check for PSS is said to use a fuller list of capabilities than
  the rule for workloads (`engines/k8sscan/rules/workload.go:14`); it uses the same four. Missing requests are
  documented as a finding and only limits are looked at. Files beside the
  templates of a chart are scanned by nobody. Templates are joined in the order of
  a map, so that a ServiceAccount described by two of them is judged by either.
- *Pipelines.* The model reviews workflows that do not parse, says
  `engines/cicdscan/discover.go:12`; only parsed ones reach it. That the model failed
  shows in the job's statistics and nowhere else. That documents could not be
  fetched is logged (`worker.go:357`), and the job goes on without.
- *Docker.* Containers of trivy and sonarqube are labelled so that a crashed run leaks
  none; nothing sweeps their labels, nor images, nor word lists. A sweep stops
  at the first removal that fails. It takes containers of other live processes
  with it. An image whose build's progress could not be read is not removed.
- *Images.* On Docker `trivy config` is run over all of the checkout
  (`adapters/trivy/scanner.go:112`), Dockerfiles of vendored code included; on Kubernetes the
  Dockerfiles outside `skipDirs` are sent to it (`adapters/k8strivyscanner/scanner.go:340`), so
  that the same commit has more findings on the one than on the other.
- *SonarQube.* Its project's key is of GuardPipe's project, so that two scans at a time
  analyse into one; a scan that pages while another's analysis lands reads some of
  each. On Kubernetes the scanner clones again and may analyse a later commit
  than the scan says.
- *Sandboxes.* Every process that starts sweeps, whatever its role, and what it
  sweeps is not only its own: a restart of the API removes the objects of a
  worker's running tool. A Job is deleted before its NetworkPolicy, but deleting
  it returns before the pod is gone, at the end of a run as in a sweep, so a pod that
  is being stopped outlives its fence. A Job whose creation took effect and reported an
  error (its answer was lost) is not deleted by the run, but its policy is
  (`adapters/k8spentestsandbox/runner.go:170`): the script runs without, up to the
  deadline of the Job.
- *Outbox.* An email is queued after the feed entry, in a statement of its own: a
  fault in between loses it for good, and the feed shows the scan as told.
- *Live scanning.* A delivery is marked as seen before it is queued, and a due
  window is taken off Redis before its scan is created; a fault in between loses
  the push, and GitHub's redelivery is a duplicate. INCR and EXPIRE are two
  commands: a fault in between blocks a project's live scans until somebody
  removes the counter.
- *Members.* Two admins who step down at a time leave an organisation without
  one. RevokeCollaboratorInvite does not look at the invite's status, unlike its
  counterpart for organisations, so an accepted invite can be revoked (the
  collaborator stays).
- *Accounts.* The count of failed logins is written from a row read before the
  password was verified: of two wrong passwords at a time one is not counted, and
  a late one below the limit clears the lock another has set. A registration
  that fails, or is overtaken, after its organisation was founded leaves that
  organisation without a member.
- *Sessions.* `refresh_tokens` does not say which project a token was for, so a
  session switched to a shared project comes back from a refresh acting on the
  owner's organisation, if the user is a member of it, or is signed out. Two refreshes
  that read one token at a time both get a successor.
- *Projects.* Update and Archive write the row they read: an archived project comes back
  with an update that had read it before. A revoked target can be attested
  again. SetCredential leaves the mark of a refused token, and the next attach
  clears it. The document limit is counted before the insert.
- *Addresses.* Choosing the address that is already verified leaves the pending
  one waiting: its link still replaces it.
- *Browser.* A refresh token that has expired under its cookie is answered with
  `auth.token_expired`, which request() treats, for `/auth/refresh` too, by
  awaiting the refresh under way: itself. apiClient.ts:56 promises null for a
  dead session; the tab waits until it is loaded anew. A refresh in flight when a
  switch is answered puts the tab back to the old organisation, and one in flight
  when a logout is answered signs it in again. Tabs share the cookie: one that
  refreshes after another has switched acts on another organisation than it
  shows; and the late answer to one tab's refresh puts the cookie of the session it
  belongs to in place of the one a second tab has just got by switching, which then
  goes back to the old organisation with its next refresh. The user's `orgId` is to be the
  organisation the session is active in (`stores/authStore.ts:20`); switchOrg and switchProject
  (lines 135 and 142) store the new token before they ask for the user, and where that question fails
  they throw: the tab acts on the new organisation and shows the old one until it
  switches again, logs in or is loaded anew (`halfSwitched`).
- *Processes.* A process that is started without migrations (the worker of
  `deploy/k8s`) works as soon as the table of rules is there, while another
  process may still be at the migrations after it; only those that migrate
  themselves wait for all. `/readyz` is to fail until migrations are complete
  (`store/migrate.go:24`), and pings PostgreSQL. Jobs in hand are to end within the
  shutdown's deadline (`documentation/04-backend-architecture.md` section 10);
  run waits for requests, and tells the loops to stop without waiting for them. A
  signal that arrives when the server listens already and waitForShutdown has not
  begun ends the process at once.
- *Launching a scan.* The price follows the name of a preset: a "deep" whose settings were
  touched is "custom", at the price of "standard". Estimates are asked anew when the choice
  changes, not when the page's copy of the project does, so that a button may show the price
  of engines that can no longer run. "Run everything" sends no settings while the page's
  copy has no target; the scan is priced for the preset that is taken instead. Nothing in
  AttestTarget asks whether there is anything to attest.
- *The page of a scan.* GetProgress is polled beside GetScan, and only the latter decides
  when to stop, so that the progress shown at the end may still say "running". A cancel that is
  answered after the last poll starts a new round, which drops the request for the findings; so
  does one that fails: the page says that it is loading them until it is loaded anew.
  `LiveProgress` lives in the process of the worker; where API and workers are
  processes of their own (`deploy/k8s`) the API knows none of it, and shows the time elapsed.
- *The indicator.* Its ticks overlap when one takes longer than the interval; a list that
  arrives after a newer one makes it tell of a scan twice, and one asked for in another
  organisation and answered after the switch becomes what the next is compared with. The query
  takes the newest 25 of the organisation and then those the user may see, so a collaborator's
  scan can be left out. Told before it was scored, a scan is announced as a success whatever
  its risk.
- *Assistant.* Two requests that are refused the same key both move the pool on,
  which skips one that may be good: "continuing until either a key succeeds or
  the whole pool has been tried" (`adapters/gemini/client.go`) holds for one
  request at a time.

## 7. What is not modelled

- *Patterns, texts and templates of the engines*: which strings a regular
  expression matches is a property of an input (a line "matches" a pattern or
  not); severities, remediations, references and the scripts of the tools are data. Networks and
  firewall rules of a Docker container are contents of a call.
- *Reporting, audit, vcs, an operator's reads.* Texts and documents
  computed from what is stored, an append-only log, and a thin client of
  GitHub. (The reports of a pentest are in `PentestRecords`, for they are stored.)
- *HTTP transport beyond the session, the scans and the pentests*: decoding, data transfer
  objects, validation and routing hold no state. *Frontend beyond the session, the
  launcher, a scan's page and the indicator*: screens render what they fetch.
- *Authorisation.* Whether the caller may ask at all is decided before any of the
  steps here and is left out of them; roles matter in `Members` and `Sessions`
  only as far as they change.
- *Identifiers, errors, logging, the statements of the migrations, infrastructure as
  code.* Which settings a process accepts, and when migrations run, is in
  `Deployment`.

The map of `PROJECT.json` says which lines a definition stands for. Most of the
others are screens, texts, rendering, data transfer and SQL that reads, where a
definition could only repeat the text. What keeps state or meets another actor
is modelled. `PROJECT.json` lists every part with its reason.
