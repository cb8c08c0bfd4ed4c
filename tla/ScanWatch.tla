----------------------------- MODULE ScanWatch -----------------------------
(***************************************************************************)
(* What a user sees of a scan that runs: the queries of the orchestrator   *)
(* (orchestrator/service.go, progress_store.go), the page of one scan that *)
(* polls two of them (frontend/src/pages/ScanDetailPage.tsx), and the      *)
(* indicator that watches every running scan from any page and tells when  *)
(* one has finished (frontend/src/stores/activeScansStore.ts).             *)
(*                                                                         *)
(* The scans run as ScanPromise says, which ScanLifecycle implements; the  *)
(* queries read them row by row, while they go on. A query is a read: what *)
(* a caller drops has no effect.                                           *)
(*                                                                         *)
(* Left out: the results of an engine past its time, which change a job    *)
(* that is over (see ScanLifecycle); the percentages in the indicator, made*)
(* by the query the page makes; the page of a hundred that listFindings    *)
(* asks for; reports, and everything a row says beyond its status.         *)
(***************************************************************************)
EXTENDS Integers, Sequences, FiniteSets

CONSTANTS
    SwScans,
    SwJobs,
    SwScanOf,      \* the scan of each job
    PageScan,      \* the scan whose page may be open
    Shared,        \* scans of the project that another organisation's member works on
    Reported,      \* percentages an engine reports
    Elapsed,       \* percentages of the time an engine is given, elapsed
    SwTicks,       \* ticks of the indicator that may be under way together
    MaxActive,     \* maxActiveScans
    MaxSwFaults    \* bound: requests that fail, and changes of session

ASSUME ScanWatchAssumption ==
    /\ SwScanOf \in [SwJobs -> SwScans] /\ PageScan \in SwScans /\ Shared \subseteq SwScans
    /\ Reported \subseteq Int /\ Elapsed \subseteq Nat
    /\ {MaxActive, MaxSwFaults} \subseteq Nat

VARIABLES
    scanRow,    \* of each scan, its status as ScanPromise has it
    jobRow,     \* of each job, the same
    wish,       \* cancel_requested
    newest,     \* the scans by created_at, newest first
    begun,      \* jobs that were marked running
    found,      \* findings stored for a job
    live,       \* LiveProgress: what an engine last reported
    together,   \* the workers run in the process that answers
    page,       \* ScanDetailPage: what it is at and what it shows
    asks,       \* its requests: getScan, getProgress, listFindings
    viewer,    \* whose token the browser holds
    store,      \* activeScansStore
    tick,       \* its ticks under way
    pending,    \* announceFinished calls under way, of each scan
    toasts,     \* toasts pushed, of each scan
    interrupted,  \* the page dropped its request for the findings, or that failed
    watched,    \* scans seen in flight since the indicator's last baseline
    crowded,    \* scans that a list left out for its length
    forgiven,    \* scans whose end the user was looking at, or could not be told
    jumbled,    \* a list came after one read later, or after the organisation was left
    swFaults

Promise == INSTANCE ScanPromise
               WITH Scans <- SwScans, Jobs <- SwJobs, ScanOf <- SwScanOf, Inherited <- {},
                    phase <- scanRow, job <- jobRow

WorldVars == <<scanRow, jobRow, wish, newest, begun, found, live, together>>
PageVars == <<page, asks, interrupted>>
IndicatorVars == <<viewer, store, tick, pending, toasts, watched, crowded, forgiven, jumbled>>
SwVars == <<WorldVars, PageVars, IndicatorVars, swFaults>>

Over == {"completed", "cancelled"}
NoReport == -1
JobsOfScan(s) == {j \in SwJobs : SwScanOf[j] = s}
Count(c, jobs) == Cardinality({j \in jobs : c[j] = 1})

(***************************************************************************)
(* What the queries answer                                                 *)
(* (An operator whose comment says "instead" is a plausible mistake in the *)
(* operator it precedes; only the mutants use it.)                         *)
(***************************************************************************)

ScanStatus(s) ==
    IF scanRow[s] # "open" THEN scanRow[s]
    ELSE IF \E j \in JobsOfScan(s) : j \in begun THEN "running" ELSE "queued"

JobStatus(j) ==
    CASE jobRow[j] = "absent" -> "none"
      [] jobRow[j] = "closed" -> "over"
      [] jobRow[j] = "open" -> IF j \in begun THEN "running" ELSE "queued"

\* A query on its way: the statements it has made, and what they found.
NoQuery == [at |-> "none"]
Refused == [at |-> "refused"]
Query(what) == [at |-> "scan", for |-> what, status |-> "none",
                jobs |-> [j \in SwJobs |-> "none"], count |-> [j \in SwJobs |-> 0],
                pct |-> [j \in SwJobs |-> 0]]
Answered(q) == q.at = "answered"

\* getOwnedScan
ReadScan(q, s) == [q EXCEPT !.status = ScanStatus(s),
                            !.at = IF q.for = "findings" THEN "list" ELSE "jobs"]

\* ListByScan
ReadJobs(q, s) ==
    [q EXCEPT !.jobs = [j \in SwJobs |-> IF SwScanOf[j] = s THEN JobStatus(j) ELSE "none"],
              !.at = "counts"]
JobsIn(q) == {j \in SwJobs : q.jobs[j] # "none"}

\* elapsedFallbackPct: min(max(pct, 1), 95).
ElapsedFallbackPct(pct) == CASE pct < 1 -> 1 [] pct > 95 -> 95 [] OTHER -> pct

\* runningJobProgress: what the engine reported to this process, or the time.
RunningPct(j) == IF together /\ live[j] # NoReport THEN {live[j]}
                 ELSE {ElapsedFallbackPct(pct) : pct \in Elapsed}

\* The share of a job in the progress, by the status read before.
JobPct(status, j) ==
    CASE status = "over" -> {100}
      [] status = "running" -> RunningPct(j)
      [] status \in {"queued", "none"} -> {0}

\* CountByJob of the jobs (a count changes once, as its job ends), and in
\* GetProgress their percentages.
CountJobs(q, pct) == [q EXCEPT !.count = [j \in SwJobs |-> IF j \in JobsIn(q) THEN found[j] ELSE 0],
                               !.pct = pct, !.at = "answered"]
Pcts(q) == IF q.for = "progress"
           THEN {pct \in [SwJobs -> UNION {JobPct(q.jobs[j], j) : j \in SwJobs}] :
                    \A j \in SwJobs : pct[j] \in JobPct(q.jobs[j], j)}
           ELSE {q.pct}

\* ListFindings: those of the scan in one statement.
ListAll(q, s) == [q EXCEPT !.count = [j \in SwJobs |-> IF SwScanOf[j] = s THEN found[j] ELSE 0],
                           !.at = "answered"]

\* The next statement of a query; GetScan and GetProgress read the scan first.
QueryStep(q, s) ==
    CASE q.at = "scan"   -> {ReadScan(q, s)}
      [] q.at = "jobs"   -> {ReadJobs(q, s)}
      [] q.at = "counts" -> {CountJobs(q, pct) : pct \in Pcts(q)}
      [] q.at = "list"   -> {ListAll(q, s)}
      [] OTHER -> {}

\* Total[jobs] is the sum of a query's percentages.
PctSum(q) ==
    LET Total[js \in SUBSET SwJobs] ==
            IF js = {} THEN 0
            ELSE LET j == CHOOSE j \in js : TRUE IN q.pct[j] + Total[js \ {j}]
    IN Total[JobsIn(q)]

\* progress_pct: the mean, as integers divide.
OverallPct(q) == IF JobsIn(q) = {} THEN 0 ELSE PctSum(q) \div Cardinality(JobsIn(q))

(***************************************************************************)
(* Scans run                                                               *)
(***************************************************************************)

BeginScan(s) ==
    /\ Promise!Begin(s)
    /\ newest' = <<s>> \o newest
    /\ UNCHANGED <<begun, found, live, together, PageVars, IndicatorVars, swFaults>>

AddJob(j) ==
    /\ Promise!Add(j)
    /\ UNCHANGED <<newest, begun, found, live, together, PageVars, IndicatorVars, swFaults>>

RunJob(j) ==
    /\ jobRow[j] = "open" /\ j \notin begun
    /\ begun' = begun \cup {j}
    /\ UNCHANGED <<scanRow, jobRow, wish, newest, found, live, together, PageVars,
                   IndicatorVars, swFaults>>

\* Instead: what the engine says is what is shown.
Unclamped(pct) == pct
\* Set: "an engine's own self-reported progress can never claim the terminal 100%".
Clamped(pct) == IF pct < 0 THEN 0 ELSE IF pct > 99 THEN 99 ELSE pct

ReportProgress(j, pct) ==
    /\ j \in begun /\ jobRow[j] = "open"
    /\ live' = [live EXCEPT ![j] = Clamped(pct)]
    /\ UNCHANGED <<scanRow, jobRow, wish, newest, begun, found, together, PageVars,
                   IndicatorVars, swFaults>>

\* PersistJobResult: a job that ran may have found something.
CloseJob(j, n) ==
    /\ Promise!Close(j)
    /\ n = 1 => j \in begun
    /\ found' = [found EXCEPT ![j] = n]
    /\ UNCHANGED <<newest, begun, live, together, PageVars, IndicatorVars, swFaults>>

\* Clear, after the result was stored and the tokens were refunded.
ClearProgress(j) ==
    /\ jobRow[j] = "closed" /\ live[j] # NoReport
    /\ live' = [live EXCEPT ![j] = NoReport]
    /\ UNCHANGED <<scanRow, jobRow, wish, newest, begun, found, together, PageVars,
                   IndicatorVars, swFaults>>

\* CancelScan, from somewhere else.
CancelElsewhere(s) ==
    /\ Promise!Wish(s) /\ ~wish[s]
    /\ UNCHANGED <<newest, begun, found, live, together, PageVars, IndicatorVars, swFaults>>

SwFault == swFaults < MaxSwFaults /\ swFaults' = swFaults + 1

(***************************************************************************)
(* The page of a scan                                                      *)
(***************************************************************************)

NoAsks == [scan |-> NoQuery, progress |-> NoQuery, findings |-> NoQuery]
Closed == [at |-> "closed", cancel |-> "no", findings |-> "unasked", listed |-> 0,
           scan |-> NoQuery, progress |-> NoQuery]

\* tick: getScan and getProgress go out together.
BothAsked == [asks EXCEPT !.scan = Query("scan"), !.progress = Query("progress")]

OpenPage ==
    /\ page = Closed /\ scanRow[PageScan] # "absent"
    /\ page' = [page EXCEPT !.at = "asking"]
    /\ asks' = BothAsked
    /\ UNCHANGED <<WorldVars, IndicatorVars, interrupted, swFaults>>

PollAgain ==
    /\ page.at = "waiting"
    /\ page' = [page EXCEPT !.at = "asking"]
    /\ asks' = BothAsked
    /\ UNCHANGED <<WorldVars, IndicatorVars, interrupted, swFaults>>

Serve(what) ==
    /\ \E q \in QueryStep(asks[what], PageScan) : asks' = [asks EXCEPT ![what] = q]
    /\ UNCHANGED <<WorldVars, IndicatorVars, page, interrupted, swFaults>>

\* A request fails: lost, or the session may no longer see the scan.
Refuse(what) ==
    /\ asks[what].at \notin {"none", "answered", "refused"} /\ SwFault
    /\ asks' = [asks EXCEPT ![what] = Refused]
    /\ UNCHANGED <<WorldVars, IndicatorVars, page, interrupted>>

\* Instead: either answer ends the polling.
EndsPollingOfEither(q, p) == q.status \in Over \/ p.status \in Over
\* The scan's status alone does.
EndsPolling(q, p) == q.status \in Over

\* Both arrived: they are shown together, and a scan that is over is asked for
\* its findings, once.
ShowBoth ==
    LET ends == EndsPolling(asks.scan, asks.progress)
        lists == asks.scan.status \in Over /\ page.findings = "unasked" IN
    /\ page.at = "asking" /\ Answered(asks.scan) /\ Answered(asks.progress)
    /\ page' = [page EXCEPT !.scan = asks.scan, !.progress = asks.progress,
                            !.at = IF ends THEN "stopped" ELSE "waiting",
                            !.findings = IF lists THEN "asked" ELSE @]
    /\ asks' = [NoAsks EXCEPT !.findings = IF lists THEN Query("findings") ELSE asks.findings]
    /\ UNCHANGED <<WorldVars, IndicatorVars, interrupted, swFaults>>

\* One failed: the page shows an error from then on, and polls no more.
ShowError ==
    /\ page.at = "asking" /\ \E w \in {"scan", "progress"} : asks[w].at = "refused"
    /\ page' = [page EXCEPT !.at = "error"]
    /\ asks' = NoAsks
    /\ UNCHANGED <<WorldVars, IndicatorVars, interrupted, swFaults>>

ShowFindings ==
    /\ Answered(asks.findings)
    /\ page' = [page EXCEPT !.findings = "shown",
                            !.listed = Count(asks.findings.count, SwJobs)]
    /\ asks' = [asks EXCEPT !.findings = NoQuery]
    /\ UNCHANGED <<WorldVars, IndicatorVars, interrupted, swFaults>>

\* Nobody asks again: findingsLoadedFor holds the scan.
FindingsFail ==
    /\ asks.findings.at = "refused"
    /\ asks' = [asks EXCEPT !.findings = NoQuery]
    /\ interrupted' = TRUE
    /\ UNCHANGED <<WorldVars, IndicatorVars, page, swFaults>>

\* handleCancel is there while the scan shown is not over.
ClickCancel ==
    /\ page.at \in {"asking", "waiting"} /\ page.scan # NoQuery
    /\ page.scan.status \notin Over /\ page.cancel = "no"
    /\ page' = [page EXCEPT !.cancel = "sent"]
    /\ UNCHANGED <<WorldVars, IndicatorVars, asks, interrupted, swFaults>>

\* CancelScan
ServeCancel ==
    /\ page.cancel = "sent"
    /\ Promise!Wish(PageScan)
    /\ page' = [page EXCEPT !.cancel = "done"]
    /\ UNCHANGED <<newest, begun, found, live, together, IndicatorVars, asks, interrupted,
                   swFaults>>

CancelFails ==
    /\ page.cancel = "sent" /\ SwFault
    /\ page' = [page EXCEPT !.cancel = "no"]
    /\ UNCHANGED <<WorldVars, IndicatorVars, asks, interrupted>>

\* pollKey: the effect starts over, and answers to the old one are dropped, those
\* with the findings included.
CancelArrives ==
    /\ page.cancel = "done"
    /\ page' = [page EXCEPT !.cancel = "no", !.at = IF @ = "error" THEN @ ELSE "asking"]
    /\ asks' = IF page.at = "error" THEN NoAsks ELSE [BothAsked EXCEPT !.findings = NoQuery]
    /\ interrupted' = (interrupted \/ asks.findings # NoQuery)
    /\ UNCHANGED <<WorldVars, IndicatorVars, swFaults>>

(***************************************************************************)
(* The indicator of running scans                                          *)
(***************************************************************************)

Sessions == {"owner", "collaborator", "stranger"}
\* user.orgId: a collaborator acts in the organisation that shares the project.
OrgOf(s) == IF s = "stranger" THEN "other" ELSE "home"
VisibleTo(s) == CASE s = "owner" -> SwScans [] s = "collaborator" -> Shared [] s = "stranger" -> {}

NoBaseline == {"none"}
NoTick == [at |-> "idle", for |-> "nobody", ids |-> {}, after |-> {}, stale |-> FALSE]
Stopped == [on |-> FALSE, scans |-> {}, known |-> NoBaseline, org |-> "none"]

\* ListActiveByOrg, then the project of a collaborator's session.
Newest == SelectSeq(newest, LAMBDA s : scanRow[s] = "open")
Listed == {Newest[i] : i \in 1 .. (IF Len(Newest) < MaxActive THEN Len(Newest) ELSE MaxActive)}
ListActiveScans(s) == IF s = "stranger" THEN {} ELSE Listed \cap VisibleTo(s)

Sent == [NoTick EXCEPT !.at = "sent", !.for = viewer]

\* start: with its first tick.
StartIndicator(t) ==
    /\ ~store.on /\ tick[t] = NoTick
    /\ store' = [store EXCEPT !.on = TRUE, !.org = OrgOf(viewer)]
    /\ tick' = [tick EXCEPT ![t] = Sent]
    /\ UNCHANGED <<WorldVars, PageVars, viewer, pending, toasts, watched, crowded, forgiven,
                   jumbled, swFaults>>

\* A timer, or refresh: the list is asked for with the session of the moment.
StartTick(t) ==
    LET fresh == OrgOf(viewer) # store.org IN
    /\ store.on /\ tick[t] = NoTick
    /\ store' = IF fresh THEN [store EXCEPT !.known = NoBaseline, !.org = OrgOf(viewer)] ELSE store
    /\ tick' = [tick EXCEPT ![t] = Sent]
    /\ watched' = IF fresh THEN {} ELSE watched
    /\ UNCHANGED <<WorldVars, PageVars, viewer, pending, toasts, crowded, forgiven, jumbled,
                   swFaults>>

ServeTick(t) ==
    /\ tick[t].at = "sent"
    /\ tick' = [tick EXCEPT ![t].at = "listed", ![t].ids = ListActiveScans(tick[t].for),
                            ![t].after = {u \in SwTicks : tick[u].at = "listed"}]
    /\ crowded' = crowded \cup ({s \in SwScans : scanRow[s] = "open"} \ Listed)
    /\ UNCHANGED <<WorldVars, PageVars, viewer, store, pending, toasts, watched, forgiven, jumbled,
                   swFaults>>

FailTick(t) ==
    /\ tick[t].at \in {"sent", "listed"} /\ SwFault
    /\ tick' = [u \in SwTicks |-> IF u = t THEN NoTick
                                  ELSE [tick[u] EXCEPT !.after = @ \ {t}]]
    /\ UNCHANGED <<WorldVars, PageVars, viewer, store, pending, toasts, watched, crowded, forgiven,
                   jumbled>>

\* Scans that have left the list since the baseline: none without one.
Gone(t) == IF store.known # NoBaseline /\ store.org = OrgOf(tick[t].for)
           THEN store.known \ tick[t].ids ELSE {}

\* A list arrives: the scans gone from it are looked up, but for one whose page
\* is open, and the others are the next baseline.
TickArrives(t, open) ==
    LET ids == tick[t].ids
        told == Gone(t) \ open IN
    /\ tick[t].at = "listed" /\ store.on
    /\ open \subseteq Gone(t)
    /\ store' = [store EXCEPT !.scans = ids, !.known = ids]
    /\ pending' = [s \in SwScans |-> pending[s] + IF s \in told THEN 1 ELSE 0]
    /\ tick' = [u \in SwTicks |->
                   IF u = t THEN NoTick
                   ELSE [tick[u] EXCEPT !.after = @ \ {t}, !.stale = @ \/ u \in tick[t].after]]
    /\ watched' = IF store.org = OrgOf(tick[t].for) THEN watched \cup ids ELSE watched
    /\ forgiven' = forgiven \cup open \cup (Gone(t) \ VisibleTo(tick[t].for))
    /\ jumbled' = (jumbled \/ tick[t].stale \/ store.org # OrgOf(tick[t].for))
    /\ UNCHANGED <<WorldVars, PageVars, viewer, toasts, crowded, swFaults>>

\* After stop, what arrives is dropped.
TickDropped(t) ==
    /\ tick[t].at = "listed" /\ ~store.on
    /\ tick' = [u \in SwTicks |-> IF u = t THEN NoTick ELSE [tick[u] EXCEPT !.after = @ \ {t}]]
    /\ UNCHANGED <<WorldVars, PageVars, viewer, store, pending, toasts, watched, crowded, forgiven,
                   jumbled, swFaults>>

\* Instead: whatever has left the list has finished.
ToldAnyway(status) == TRUE
\* announceFinished says something of a scan that is over only.
Told(status) == status \in Over

\* announceFinished has its scan, which the session may see or not.
LookUpScan(s) ==
    LET seen == s \in VisibleTo(viewer) IN
    /\ pending[s] > 0
    /\ pending' = [pending EXCEPT ![s] = @ - 1]
    /\ toasts' = [toasts EXCEPT ![s] = @ + IF seen /\ Told(ScanStatus(s)) THEN 1 ELSE 0]
    /\ forgiven' = IF seen THEN forgiven ELSE forgiven \cup {s}
    /\ UNCHANGED <<WorldVars, PageVars, viewer, store, tick, watched, crowded, jumbled, swFaults>>

LookUpFails(s) ==
    /\ pending[s] > 0 /\ SwFault
    /\ pending' = [pending EXCEPT ![s] = @ - 1]
    /\ forgiven' = forgiven \cup {s}
    /\ UNCHANGED <<WorldVars, PageVars, viewer, store, tick, toasts, watched, crowded, jumbled>>

StopIndicator ==
    /\ store.on /\ SwFault
    /\ store' = Stopped
    /\ watched' = {}
    /\ UNCHANGED <<WorldVars, PageVars, viewer, tick, pending, toasts, crowded, forgiven, jumbled>>

SwitchSession(s) ==
    /\ viewer # s /\ SwFault
    /\ viewer' = s
    /\ UNCHANGED <<WorldVars, PageVars, store, tick, pending, toasts, watched, crowded, forgiven,
                   jumbled>>

(***************************************************************************)
(* The two together                                                        *)
(***************************************************************************)

SwInit ==
    /\ Promise!Init
    /\ newest = <<>> /\ begun = {} /\ together \in BOOLEAN
    /\ found = [j \in SwJobs |-> 0] /\ live = [j \in SwJobs |-> NoReport]
    /\ page = Closed /\ asks = NoAsks /\ interrupted = FALSE
    /\ viewer \in Sessions /\ store = Stopped /\ tick = [t \in SwTicks |-> NoTick]
    /\ pending = [s \in SwScans |-> 0] /\ toasts = [s \in SwScans |-> 0]
    /\ watched = {} /\ crowded = {} /\ forgiven = {} /\ jumbled = FALSE
    /\ swFaults = 0

RunsOn ==
    \/ \E s \in SwScans : BeginScan(s) \/ CancelElsewhere(s)
    \/ \E j \in SwJobs : AddJob(j) \/ RunJob(j) \/ ClearProgress(j)
    \/ \E j \in SwJobs, n \in {0, 1} : CloseJob(j, n)
    \/ \E j \in SwJobs, p \in Reported : ReportProgress(j, p)

PageStep ==
    \/ OpenPage \/ PollAgain \/ ShowBoth \/ ShowError \/ ShowFindings \/ FindingsFail
    \/ \E w \in {"scan", "progress", "findings"} : Serve(w) \/ Refuse(w)
    \/ ClickCancel \/ ServeCancel \/ CancelFails \/ CancelArrives

IndicatorStep ==
    \/ StopIndicator
    \/ \E t \in SwTicks : StartIndicator(t) \/ StartTick(t) \/ ServeTick(t)
    \/ \E t \in SwTicks : FailTick(t) \/ TickDropped(t)
    \/ \E t \in SwTicks : \E open \in SUBSET Gone(t) : TickArrives(t, open)
    \/ \E s \in SwScans : LookUpScan(s) \/ LookUpFails(s)
    \/ \E s \in Sessions : SwitchSession(s)

SwNext == RunsOn \/ PageStep \/ IndicatorStep

SwSpec == SwInit /\ [][SwNext]_SwVars

Ats == {"scan", "jobs", "counts", "list"}
Answers == {"queued", "running", "none"} \cup Over
Queries ==
    [at: Ats \cup {"answered"}, for: {"scan", "progress", "findings"}, status: Answers,
     jobs: [SwJobs -> {"none", "queued", "running", "over"}],
     count: [SwJobs -> {0, 1}], pct: [SwJobs -> 0 .. 100]]

\* Every variable has its type.
SwTypeOK ==
    /\ Promise!PromiseTypeOK
    /\ begun \subseteq SwJobs /\ together \in BOOLEAN
    /\ newest \in Seq(SwScans) /\ Len(newest) <= Cardinality(SwScans)
    /\ found \in [SwJobs -> {0, 1}] /\ live \in [SwJobs -> {NoReport} \cup 0 .. 100]
    /\ page.at \in {"closed", "asking", "waiting", "stopped", "error"}
    /\ page.cancel \in {"no", "sent", "done"} /\ page.findings \in {"unasked", "asked", "shown"}
    /\ page.listed \in 0 .. Cardinality(SwJobs)
    /\ {page.scan, page.progress} \subseteq {NoQuery} \cup Queries
    /\ asks \in [{"scan", "progress", "findings"} -> {NoQuery, Refused} \cup Queries]
    /\ interrupted \in BOOLEAN
    /\ viewer \in Sessions /\ store.on \in BOOLEAN /\ store.scans \subseteq SwScans
    /\ store.known = NoBaseline \/ store.known \subseteq SwScans
    /\ store.org \in {"none", "home", "other"}
    /\ tick \in [SwTicks -> [at: {"idle", "sent", "listed"}, for: Sessions \cup {"nobody"},
                             ids: SUBSET SwScans, after: SUBSET SwTicks, stale: BOOLEAN]]
    /\ {pending, toasts} \subseteq [SwScans -> Nat]
    /\ {watched, crowded, forgiven} \subseteq SUBSET SwScans /\ jumbled \in BOOLEAN
    /\ swFaults \in 0 .. MaxSwFaults

(***************************************************************************)
(* Properties                                                              *)
(***************************************************************************)

\* A page that has stopped polling shows the end of its scan: the status it
\* ended with, every engine over, the findings each left.  Its list of findings
\* is theirs, and misses for good only when a cancel that arrived after the end
\* dropped the request, or that failed (tick and handleCancel of ScanDetailPage;
\* GetScan reads the scan before its jobs, GetProgress does not decide).
LastWord ==
    page.at = "stopped" =>
        /\ page.scan.status = scanRow[PageScan]
        /\ \A j \in JobsOfScan(PageScan) :
              jobRow[j] # "absent" =>
                 page.scan.jobs[j] = "over" /\ page.scan.count[j] = found[j]
        /\ page.findings = "shown" => page.listed = Count(found, JobsOfScan(PageScan))
        /\ page.findings # "shown" => interrupted \/ asks.findings # NoQuery

\* An answer of 100 percent means that every engine in it was over, whatever an
\* engine reports of itself and however its time has passed, and a scan that is
\* over never answers less (GetProgress, LiveProgress.Set, elapsedFallbackPct).
HundredMeansOver ==
    \A q \in {asks.progress, page.progress} :
        (Answered(q) /\ JobsIn(q) # {}) =>
            /\ OverallPct(q) = 100 => \A j \in JobsIn(q) : q.jobs[j] = "over"
            /\ q.status \in Over => OverallPct(q) = 100

\* The indicator tells of a scan only when it is over, and of one it watched that
\* is over and gone from its list it has told, once: unless lists came out of
\* their order or after a change of organisation, left it out for its length, or
\* its page was open, or it could not be looked up (tick, announceFinished).
ToastsTellTheTruth ==
    \A s \in SwScans :
        /\ toasts[s] > 0 => scanRow[s] \in Over
        /\ toasts[s] > 1 => jumbled \/ s \in crowded \cup forgiven
        /\ (s \in watched \ store.scans /\ scanRow[s] \in Over) =>
              pending[s] + toasts[s] > 0 \/ s \in crowded \cup forgiven \/ jumbled

\* What is shown of a scan is what it is.
ScansShownAsTheyAre == LastWord /\ HundredMeansOver /\ ToastsTellTheTruth
=============================================================================
