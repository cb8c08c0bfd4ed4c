--------------------------- MODULE ScanLifecycle ---------------------------
(***************************************************************************)
(* The life of a scan and of its jobs: the API call that charges, inserts  *)
(* and queues them (orchestrator/service.go), the pool of workers that     *)
(* runs them (orchestrator/worker.go), the sweeper that closes what a dead *)
(* worker left behind (orchestrator/cancel.go), the transaction every job  *)
(* result goes through (store/repo/job_result_repo.go) and the Redis       *)
(* hand-over between the two (adapters/queue/jobqueue.go).                 *)
(*                                                                         *)
(* One action is one statement or transaction on shared state; everything  *)
(* a handler does between two of them is local and part of the first.      *)
(* Findings are represented by the jobs that emitted them, token amounts   *)
(* by the jobs that were charged.                                          *)
(***************************************************************************)
EXTENDS Naturals, Sequences

CONSTANTS
    Scans,        \* scans that may be requested, or were in the past
    Jobs,         \* their jobs, one per requested engine
    ScanOf,       \* the scan of each job
    Workers,      \* worker goroutines, over all replicas
    Sweepers,     \* orphan sweepers, one per replica of the worker role
    LegacyStuck,  \* scans an older release left open with every job closed
    Faults,       \* the kinds of fault the environment may inject
    MaxFaults,    \* bound: how many faults a behaviour may contain
    NoJob         \* "no job" for an actor that holds none

(***************************************************************************)
(* The outcome of a closed job is its status together with its             *)
(* error_reason, as far as refunds and findings tell them apart:           *)
(*   stopped         cancelled, cancelled_while_running                    *)
(*   unavailable     failed before the engine ran (workspace, credential,  *)
(*                   target, engine not registered)                        *)
(*   failed          failed, engine_error or timeout                       *)
(*   rebinding       failed, dns_rebinding_suspected                       *)
(*   lost            failed, worker_lost                                   *)
(*   lost_cancelled  cancelled, worker_lost                                *)
(***************************************************************************)
Outcomes == {"succeeded", "skipped", "cancelled", "stopped", "unavailable",
             "failed", "rebinding", "lost", "lost_cancelled"}

\* What an engine that was started can end with, cancellation apart.
EngineOutcomes == {"succeeded", "failed", "rebinding"}

\* Outcomes whose result carries the findings collected so far.
Emitting == EngineOutcomes \cup {"stopped"}

\* The user gets the tokens back: not for a success, not for an engine the
\* user stopped, not for a target that looks like a rebinding one. (Operators
\* named RefundableEven..., ...Again and the like, here and below, are plausible
\* bugs of the operator they precede; only the mutants use them.)
RefundableEvenStopped(o) == o \in Outcomes \ {"succeeded", "rebinding"}
Refundable(o) == o \in Outcomes \ {"succeeded", "stopped", "rebinding"}

JobStatuses  == {"none", "queued", "running"} \cup Outcomes
ScanStatuses == {"none", "queued", "running", "completed", "cancelled"}
Actors       == Workers \cup Sweepers

WorkerPcs  == {"idle", "load", "mark", "start", "prepare", "run",
               "persist", "refund", "score", "tell", "ack"}
SweeperPcs == {"idle", "sweep", "persist", "refund", "score", "tell", "stuck"}
ApiPcs     == {"none", "row", "jobs", "queue", "refund", "done"}

\* "crash"     a process dies or is shut down: its context is cancelled, so
\*             whatever it was doing writes nothing more
\* "db"        a database statement or commit fails
\* "redis"     a Redis command fails without effect
\* "lostreply" a Redis push takes effect but reports an error
\* "flush"     Redis loses its data
\* "slow"      a live worker takes longer than the orphan deadline
FaultKinds == {"crash", "db", "redis", "lostreply", "flush", "slow"}

JobsOf(s) == {j \in Jobs : ScanOf[j] = s}

ASSUME LifecycleAssumption ==
    /\ ScanOf \in [Jobs -> Scans]
    /\ \A s \in Scans : JobsOf(s) # {}
    /\ Workers \cap Sweepers = {}
    /\ LegacyStuck \subseteq Scans
    /\ Faults \subseteq FaultKinds
    /\ MaxFaults \in Nat
    /\ NoJob \notin Jobs

VARIABLES
    jobStatus,   \* scan_jobs.status and error_reason; "none": no row
    stale,       \* running jobs whose started_at is past deadline and grace
    scanStatus,  \* scans.status; "none": no row
    cancelReq,   \* scans.cancel_requested
    findings,    \* jobs whose findings are stored
    counts,      \* scans.finding_counts: the jobs whose findings it counts
    assessment,  \* risk_assessments: what the stored score was computed from
    announced,   \* how often ScanFinished did something for a scan
    charged,     \* jobs with a debit in the token ledger
    refunded,    \* jobs with a refund in the token ledger
    pending,     \* the Redis list of jobs to claim, oldest first
    processing,  \* the Redis list of claimed jobs
    apc,         \* where CreateScan is for each scan
    apiTodo,     \* the jobs its current loop still has to visit
    pc,          \* where each worker and sweeper is
    cur,         \* the job it holds
    res,         \* the outcome it is about to persist
    won,         \* scans it finalised and has yet to score and announce
    todo,        \* sweeper: orphaned jobs it listed and has yet to close
    stuckTodo,   \* sweeper: stuck scans it listed and has yet to finalise
    faultsLeft

dbVars    == <<jobStatus, stale, scanStatus, cancelReq, findings, counts>>
afterVars == <<assessment, announced>>
tokenVars == <<charged, refunded>>
queueVars == <<pending, processing>>
apiVars   == <<apc, apiTodo>>
actorVars == <<pc, cur, res, won, todo, stuckTodo>>
vars == <<dbVars, afterVars, tokenVars, queueVars, apiVars, actorVars, faultsLeft>>

InFlight == {"queued", "running"}

Open(s)    == scanStatus[s] \in InFlight
Closed(j)  == jobStatus[j] \in Outcomes
Held(j)    == \E w \in Workers : cur[w] = j
Pending(j) == \E p \in DOMAIN pending : pending[p] = j

Fault(kind) ==
    /\ kind \in Faults
    /\ faultsLeft > 0
    /\ faultsLeft' = faultsLeft - 1
Fine == faultsLeft' = faultsLeft

Init ==
    /\ jobStatus = [j \in Jobs |-> IF ScanOf[j] \in LegacyStuck THEN "succeeded" ELSE "none"]
    /\ stale = {}
    /\ scanStatus = [s \in Scans |-> IF s \in LegacyStuck THEN "running" ELSE "none"]
    /\ cancelReq = [s \in Scans |-> FALSE]
    /\ findings = {j \in Jobs : ScanOf[j] \in LegacyStuck}
    /\ counts = [s \in Scans |-> {}]
    /\ assessment = [s \in Scans |-> {}]
    /\ announced = [s \in Scans |-> 0]
    /\ charged = {j \in Jobs : ScanOf[j] \in LegacyStuck}
    /\ refunded = {}
    /\ pending = <<>>
    /\ processing = {}
    /\ apc = [s \in Scans |-> IF s \in LegacyStuck THEN "done" ELSE "none"]
    /\ apiTodo = [s \in Scans |-> {}]
    /\ pc = [a \in Actors |-> "idle"]
    /\ cur = [a \in Actors |-> NoJob]
    /\ res = [a \in Actors |-> "none"]
    /\ won = [a \in Actors |-> {}]
    /\ todo = [a \in Actors |-> {}]
    /\ stuckTodo = [a \in Actors |-> {}]
    /\ faultsLeft = MaxFaults

-----------------------------------------------------------------------------
(***************************************************************************)
(* CreateScan: pay, insert the scan, insert its jobs one by one, queue     *)
(* them one by one. A failure refunds the jobs that will not run; the rows *)
(* already written stay.                                                   *)
(***************************************************************************)

\* One transaction debits every job, or the scan is refused and nothing exists.
Charge(s) ==
    /\ apc[s] = "none"
    /\ \/ /\ charged' = charged \cup JobsOf(s)
          /\ apc' = [apc EXCEPT ![s] = "row"]
       \/ /\ apc' = [apc EXCEPT ![s] = "done"]
          /\ UNCHANGED charged
    /\ Fine
    /\ UNCHANGED <<dbVars, afterVars, refunded, queueVars, apiTodo, actorVars>>

\* scans.Create: the INSERT and a separate count; when only the count fails
\* the row is there and the caller sees an error all the same.
InsertScan(s) ==
    /\ apc[s] = "row"
    /\ \/ /\ scanStatus' = [scanStatus EXCEPT ![s] = "queued"]
          /\ apc' = [apc EXCEPT ![s] = "jobs"]
          /\ Fine
       \/ /\ Fault("db")
          /\ scanStatus' \in {scanStatus, [scanStatus EXCEPT ![s] = "queued"]}
          /\ apc' = [apc EXCEPT ![s] = "refund"]
    /\ apiTodo' = [apiTodo EXCEPT ![s] = JobsOf(s)]
    /\ UNCHANGED <<jobStatus, stale, cancelReq, findings, counts,
                   afterVars, tokenVars, queueVars, actorVars>>

\* jobs.CreateMany: one INSERT per job and no transaction around them.
InsertJob(s) ==
    /\ apc[s] = "jobs"
    /\ \/ \E j \in apiTodo[s] :
             /\ jobStatus' = [jobStatus EXCEPT ![j] = "queued"]
             /\ LET rest == apiTodo[s] \ {j} IN
                IF rest = {}
                THEN /\ apc' = [apc EXCEPT ![s] = "queue"]
                     /\ apiTodo' = [apiTodo EXCEPT ![s] = JobsOf(s)]
                ELSE /\ apiTodo' = [apiTodo EXCEPT ![s] = rest]
                     /\ UNCHANGED apc
             /\ Fine
       \/ /\ Fault("db")
          /\ apc' = [apc EXCEPT ![s] = "refund"]
          /\ apiTodo' = [apiTodo EXCEPT ![s] = JobsOf(s)]
          /\ UNCHANGED jobStatus
    /\ UNCHANGED <<stale, scanStatus, cancelReq, findings, counts,
                   afterVars, tokenVars, queueVars, actorVars>>

\* queue.Enqueue of one job. An error sends the remaining jobs, this one
\* included, to the refund loop, whether or not Redis took the push.
Enqueue(s) ==
    /\ apc[s] = "queue"
    /\ \/ \E j \in apiTodo[s] :
             /\ pending' = Append(pending, j)
             /\ apiTodo' = [apiTodo EXCEPT ![s] = @ \ {j}]
             /\ apc' = [apc EXCEPT ![s] = IF apiTodo[s] = {j} THEN "done" ELSE "queue"]
             /\ Fine
       \/ /\ Fault("redis")
          /\ apc' = [apc EXCEPT ![s] = "refund"]
          /\ UNCHANGED <<pending, apiTodo>>
       \/ /\ Fault("lostreply")
          /\ \E j \in apiTodo[s] : pending' = Append(pending, j)
          /\ apc' = [apc EXCEPT ![s] = "refund"]
          /\ UNCHANGED apiTodo
    /\ UNCHANGED <<dbVars, afterVars, tokenVars, processing, actorVars>>

\* refundAll, or the loop over the jobs that were not queued: RefundJob gives
\* back what was debited, once, and its error is ignored.
RefundRest(s) ==
    /\ apc[s] = "refund"
    /\ \E j \in apiTodo[s] :
          /\ \/ refunded' = refunded \cup ({j} \cap charged) /\ Fine
             \/ Fault("db") /\ UNCHANGED refunded
          /\ apiTodo' = [apiTodo EXCEPT ![s] = @ \ {j}]
          /\ apc' = [apc EXCEPT ![s] = IF apiTodo[s] = {j} THEN "done" ELSE "refund"]
    /\ UNCHANGED <<dbVars, afterVars, charged, queueVars, actorVars>>

\* The API process dies, or its request is cancelled, in the middle.
ApiCrash(s) ==
    /\ apc[s] \notin {"none", "done"}
    /\ Fault("crash")
    /\ apc' = [apc EXCEPT ![s] = "done"]
    /\ apiTodo' = [apiTodo EXCEPT ![s] = {}]
    /\ UNCHANGED <<dbVars, afterVars, tokenVars, queueVars, actorVars>>

\* CancelScan sets the flag of any scan that exists, finished or not.
CancelScan(s) ==
    /\ scanStatus[s] # "none"
    /\ cancelReq' = [cancelReq EXCEPT ![s] = TRUE]
    /\ Fine
    /\ UNCHANGED <<jobStatus, stale, scanStatus, findings, counts,
                   afterVars, tokenVars, queueVars, apiVars, actorVars>>

-----------------------------------------------------------------------------
(***************************************************************************)
(* The worker loop.                                                        *)
(***************************************************************************)

Goto(a, p) == pc' = [pc EXCEPT ![a] = p]

\* Leave the current job with an outcome to persist.
Finish(a, outcome) ==
    /\ res' = [res EXCEPT ![a] = outcome]
    /\ Goto(a, "persist")

\* The pending list after a claim: BLMOVE removes what it returns.
AfterPeek  == pending
AfterClaim == Tail(pending)

\* Queue.Claim: BLMOVE takes the oldest pending job and marks it claimed.
Claim(w) ==
    /\ pc[w] = "idle"
    /\ pending # <<>>
    /\ cur' = [cur EXCEPT ![w] = Head(pending)]
    /\ pending' = AfterClaim
    /\ processing' = processing \cup {Head(pending)}
    /\ Goto(w, "load")
    /\ Fine
    /\ UNCHANGED <<dbVars, afterVars, tokenVars, apiVars, res, won, todo, stuckTodo>>

\* Load the job and its scan: a cancelled scan's job is closed unrun, an
\* unknown engine's job fails, a failed read abandons the job.
Load(w) ==
    /\ pc[w] = "load"
    /\ \/ /\ cancelReq[ScanOf[cur[w]]]
          /\ Finish(w, "cancelled") /\ Fine
       \/ /\ ~cancelReq[ScanOf[cur[w]]]
          /\ Finish(w, "unavailable") /\ Fine
       \/ /\ ~cancelReq[ScanOf[cur[w]]]
          /\ Goto(w, "mark") /\ Fine /\ UNCHANGED res
       \/ /\ Fault("db")
          /\ Goto(w, "ack") /\ UNCHANGED res
    /\ UNCHANGED <<dbVars, afterVars, tokenVars, queueVars, apiVars, cur, won, todo, stuckTodo>>

\* Jobs.MarkRunning has no status guard and restarts the job's clock.
MarkRunning(w) ==
    /\ pc[w] = "mark"
    /\ \/ /\ jobStatus' = [jobStatus EXCEPT ![cur[w]] = "running"]
          /\ stale' = stale \ {cur[w]}
          /\ Goto(w, "start") /\ Fine
       \/ /\ Fault("db")
          /\ Goto(w, "ack")
          /\ UNCHANGED <<jobStatus, stale>>
    /\ UNCHANGED <<scanStatus, cancelReq, findings, counts, afterVars, tokenVars,
                   queueVars, apiVars, cur, res, won, todo, stuckTodo>>

\* Scans.MarkStarted only moves a queued scan; its error is ignored.
MarkStarted(w) ==
    /\ pc[w] = "start"
    /\ \/ /\ scanStatus' = [scanStatus EXCEPT ![ScanOf[cur[w]]] =
                               IF @ = "queued" THEN "running" ELSE @]
          /\ Fine
       \/ Fault("db") /\ UNCHANGED scanStatus
    /\ Goto(w, "prepare")
    /\ UNCHANGED <<jobStatus, stale, cancelReq, findings, counts, afterVars, tokenVars,
                   queueVars, apiVars, cur, res, won, todo, stuckTodo>>

\* Target lookup or clone, then Applicable: no deadline and no cancel watch yet.
Prepare(w) ==
    /\ pc[w] = "prepare"
    /\ \/ \E o \in {"unavailable", "skipped"} : Finish(w, o)
       \/ Goto(w, "run") /\ UNCHANGED res
    /\ Fine
    /\ UNCHANGED <<dbVars, afterVars, tokenVars, queueVars, apiVars, cur, won, todo, stuckTodo>>

\* The engine ends by itself, by its deadline or by a panic; or the watcher
\* sees the cancel flag first, and then the job counts as stopped whatever
\* the engine returns.
RunEngine(w) ==
    /\ pc[w] = "run"
    /\ \/ \E o \in EngineOutcomes : Finish(w, o)
       \/ cancelReq[ScanOf[cur[w]]] /\ Finish(w, "stopped")
    /\ Fine
    /\ UNCHANGED <<dbVars, afterVars, tokenVars, queueVars, apiVars, cur, won, todo, stuckTodo>>

\* Queue.Ack follows processJob however it returned.
Ack(w) ==
    /\ pc[w] = "ack"
    /\ \/ processing' = processing \ {cur[w]} /\ Fine
       \/ Fault("redis") /\ UNCHANGED processing
    /\ cur' = [cur EXCEPT ![w] = NoJob]
    /\ res' = [res EXCEPT ![w] = "none"]
    /\ Goto(w, "idle")
    /\ UNCHANGED <<dbVars, afterVars, tokenVars, pending, apiVars, won, todo, stuckTodo>>

-----------------------------------------------------------------------------
(***************************************************************************)
(* persist, for workers and sweepers alike: the result transaction, the    *)
(* refund, and for the actor that finalised the scan its score and its     *)
(* announcement.                                                           *)
(***************************************************************************)

\* Where an actor goes once it is through with its job or its stuck scans.
Resume(a) == IF a \in Workers THEN "ack"
             ELSE IF cur[a] = NoJob THEN "idle" ELSE "sweep"

ReturnTo(a, p) ==
    /\ Goto(a, p)
    /\ IF p = "sweep"
       THEN /\ cur' = [cur EXCEPT ![a] = NoJob]
            /\ res' = [res EXCEPT ![a] = "none"]
       ELSE UNCHANGED <<cur, res>>

\* The flag decides, whatever the jobs' own outcomes are.
FinalStatusOfJobs(s) == IF \E j \in JobsOf(s) : jobStatus[j] = "cancelled"
                        THEN "cancelled" ELSE "completed"
FinalStatus(s) == IF cancelReq[s] THEN "cancelled" ELSE "completed"

\* After a job, its refund or an announcement: the scans it finalised first.
OnwardUnaware(a) == Resume(a)
Onward(a) == IF won'[a] # {} THEN "score" ELSE Resume(a)

\* finalizeScanIfComplete, given the job statuses its transaction sees.
FinalizesAgain(s, status) ==
    \A k \in JobsOf(s) : status[k] \notin InFlight
FinalizesUnlocked(s, status) ==
    Open(s) /\ \A k \in JobsOf(s) : jobStatus[k] \notin InFlight
FinalizesUnlessRunning(s, status) ==
    Open(s) /\ \A k \in JobsOf(s) : status[k] # "running"
Finalizes(s, status) ==
    Open(s) /\ \A k \in JobsOf(s) : status[k] \notin InFlight

\* PersistJobResult: one transaction under the scan's row lock, without
\* looking at the status the job has. A failed statement or commit rolls it
\* back; a failed commit still leaves the caller believing it finalised.
Persist(a) ==
    LET j == cur[a]
        s == ScanOf[j]
        after == [jobStatus EXCEPT ![j] = res[a]]
        ends == Finalizes(s, after)
    IN
    /\ pc[a] = "persist"
    /\ \/ /\ jobStatus' = after
          /\ stale' = stale \ {j}
          /\ findings' = IF res[a] \in Emitting THEN findings \cup {j} ELSE findings
          /\ IF ends
             THEN /\ scanStatus' = [scanStatus EXCEPT ![s] = FinalStatus(s)]
                  /\ counts' = [counts EXCEPT ![s] = findings' \cap JobsOf(s)]
                  /\ won' = [won EXCEPT ![a] = {s}]
             ELSE UNCHANGED <<scanStatus, counts, won>>
          /\ Fine
       \/ /\ Fault("db")
          /\ \/ UNCHANGED won
             \/ ends /\ won' = [won EXCEPT ![a] = {s}]
          /\ UNCHANGED <<jobStatus, stale, findings, scanStatus, counts>>
    /\ ReturnTo(a, IF Refundable(res[a]) THEN "refund" ELSE Onward(a))
    /\ UNCHANGED <<cancelReq, afterVars, tokenVars, queueVars, apiVars, todo, stuckTodo>>

\* RefundJob: what was debited and not yet given back. Its error is logged.
Refund(a) ==
    /\ pc[a] = "refund"
    /\ \/ refunded' = refunded \cup ({cur[a]} \cap charged) /\ Fine
       \/ Fault("db") /\ UNCHANGED refunded
    /\ UNCHANGED <<dbVars, afterVars, charged, queueVars, apiVars, won, todo, stuckTodo>>
    /\ ReturnTo(a, Onward(a))

\* The finalised scan whose turn it is.
Subject(a) == CHOOSE s \in won[a] : TRUE

\* Only a completed scan is scored.
ScorableIfFinished(s) == ~Open(s)
Scorable(s) == scanStatus[s] = "completed"

\* finalizeScoring re-reads the scan and scores a completed one from the
\* findings and jobs stored by now. Any error is logged and swallowed.
Score(a) ==
    /\ pc[a] = "score"
    /\ LET s == Subject(a) IN
       \/ /\ assessment' = IF Scorable(s)
                           THEN [assessment EXCEPT ![s] = {findings \cap JobsOf(s)}]
                           ELSE assessment
          /\ Fine
       \/ Fault("db") /\ UNCHANGED assessment
    /\ Goto(a, "tell")
    /\ UNCHANGED <<dbVars, announced, tokenVars, queueVars, apiVars, cur, res, won, todo, stuckTodo>>

\* Notifier.ScanFinished ignores a scan that is not terminal.
Tell(a) ==
    /\ pc[a] = "tell"
    /\ LET s == Subject(a) IN
       /\ \/ /\ announced' = IF Open(s) THEN announced
                             ELSE [announced EXCEPT ![s] = @ + 1]
             /\ Fine
          \/ Fault("db") /\ UNCHANGED announced
       /\ won' = [won EXCEPT ![a] = @ \ {s}]
    /\ ReturnTo(a, Onward(a))
    /\ UNCHANGED <<dbVars, assessment, tokenVars, queueVars, apiVars, todo, stuckTodo>>

-----------------------------------------------------------------------------
(***************************************************************************)
(* The orphan sweeper, and time.                                           *)
(***************************************************************************)

\* What it takes for a running job to pass its engine's deadline and the
\* grace: a dead worker, or one that is slow. The deadline covers the engine
\* only, while the clock starts before the clone.
OutlivesWithoutGrace(j) == Fine
Outlives(j) == IF Held(j) THEN Fault("slow") ELSE Fine

\* A running job's started_at falls behind its engine's deadline and the grace.
AgeOut(j) ==
    /\ jobStatus[j] = "running" /\ j \notin stale
    /\ Outlives(j)
    /\ stale' = stale \cup {j}
    /\ UNCHANGED <<jobStatus, scanStatus, cancelReq, findings, counts,
                   afterVars, tokenVars, queueVars, apiVars, actorVars>>

\* The running jobs that are too old, whether or not a cancel was asked for.
OrphansOfCancelled == {j \in stale : jobStatus[j] = "running" /\ cancelReq[ScanOf[j]]}
Orphans == {j \in stale : jobStatus[j] = "running"}

\* SweepOrphanedJobs lists them.
ListOrphans(z) ==
    /\ pc[z] = "idle"
    /\ \/ /\ todo' = [todo EXCEPT ![z] = Orphans]
          /\ Fine
       \/ Fault("db") /\ UNCHANGED todo
    /\ Goto(z, "sweep")
    /\ UNCHANGED <<dbVars, afterVars, tokenVars, queueVars, apiVars, cur, res, won, stuckTodo>>

\* It closes them one by one, from that list: the job is not read again.
SweepOne(z) ==
    /\ pc[z] = "sweep"
    /\ \E j \in todo[z] :
          /\ todo' = [todo EXCEPT ![z] = @ \ {j}]
          /\ \/ /\ cur' = [cur EXCEPT ![z] = j]
                /\ Finish(z, IF cancelReq[ScanOf[j]] THEN "lost_cancelled" ELSE "lost")
                /\ Fine
             \/ Fault("db") /\ UNCHANGED <<cur, pc, res>>
    /\ UNCHANGED <<dbVars, afterVars, tokenVars, queueVars, apiVars, won, stuckTodo>>

\* FinalizeStuckScans lists the open scans that have jobs, all of them closed.
Stuck == {s \in Scans : /\ Open(s)
                        /\ \E j \in JobsOf(s) : jobStatus[j] # "none"
                        /\ \A j \in JobsOf(s) : jobStatus[j] \notin InFlight}

ListStuck(z) ==
    /\ pc[z] = "sweep"
    /\ todo[z] = {}
    /\ \/ /\ stuckTodo' = [stuckTodo EXCEPT ![z] = Stuck]
          /\ Goto(z, IF Stuck = {} THEN "idle" ELSE "stuck")
          /\ Fine
       \/ /\ Fault("db")
          /\ Goto(z, "idle")
          /\ UNCHANGED stuckTodo
    /\ UNCHANGED <<dbVars, afterVars, tokenVars, queueVars, apiVars, cur, res, won, todo>>

\* It finalises each in a transaction of its own; an error ends the loop and
\* the scans done so far are scored and announced.
FinalizeStuck(z) ==
    /\ pc[z] = "stuck"
    /\ \E s \in stuckTodo[z] :
          \/ /\ IF Finalizes(s, jobStatus)
                THEN /\ scanStatus' = [scanStatus EXCEPT ![s] = FinalStatus(s)]
                     /\ counts' = [counts EXCEPT ![s] = findings \cap JobsOf(s)]
                     /\ won' = [won EXCEPT ![z] = @ \cup {s}]
                ELSE UNCHANGED <<scanStatus, counts, won>>
             /\ stuckTodo' = [stuckTodo EXCEPT ![z] = @ \ {s}]
             /\ Fine
          \/ /\ Fault("db")
             /\ stuckTodo' = [stuckTodo EXCEPT ![z] = {}]
             /\ UNCHANGED <<scanStatus, counts, won>>
    /\ Goto(z, IF stuckTodo'[z] # {} THEN "stuck"
               ELSE IF won'[z] # {} THEN "score" ELSE "idle")
    /\ UNCHANGED <<jobStatus, stale, cancelReq, findings, afterVars, tokenVars,
                   queueVars, apiVars, cur, res, todo>>

-----------------------------------------------------------------------------
(***************************************************************************)
(* Faults that are nobody's step.                                          *)
(***************************************************************************)

\* A worker process dies, is killed, or is told to stop: whatever the actor
\* was doing ends there, since every later call runs on a cancelled context.
Crash(a) ==
    /\ pc[a] # "idle"
    /\ Fault("crash")
    /\ Goto(a, "idle")
    /\ cur' = [cur EXCEPT ![a] = NoJob]
    /\ res' = [res EXCEPT ![a] = "none"]
    /\ won' = [won EXCEPT ![a] = {}]
    /\ todo' = [todo EXCEPT ![a] = {}]
    /\ stuckTodo' = [stuckTodo EXCEPT ![a] = {}]
    /\ UNCHANGED <<dbVars, afterVars, tokenVars, queueVars, apiVars>>

\* Redis is restarted without its data.
RedisFlush ==
    /\ Fault("flush")
    /\ pending' = <<>>
    /\ processing' = {}
    /\ UNCHANGED <<dbVars, afterVars, tokenVars, apiVars, actorVars>>

ApiStep(s) == InsertScan(s) \/ InsertJob(s) \/ Enqueue(s) \/ RefundRest(s)

WorkerStep(w) ==
    \/ Claim(w) \/ Load(w) \/ MarkRunning(w) \/ MarkStarted(w) \/ Prepare(w)
    \/ RunEngine(w) \/ Persist(w) \/ Refund(w) \/ Score(w) \/ Tell(w) \/ Ack(w)

SweeperStep(z) ==
    \/ ListOrphans(z) \/ SweepOne(z) \/ Persist(z) \/ Refund(z)
    \/ ListStuck(z) \/ FinalizeStuck(z) \/ Score(z) \/ Tell(z)

Next ==
    \/ \E s \in Scans : Charge(s) \/ ApiStep(s) \/ ApiCrash(s) \/ CancelScan(s)
    \/ \E w \in Workers : WorkerStep(w)
    \/ \E z \in Sweepers : SweeperStep(z)
    \/ \E j \in Jobs : AgeOut(j)
    \/ \E a \in Actors : Crash(a)
    \/ RedisFlush

Spec == Init /\ [][Next]_vars

(***************************************************************************)
(* Goroutines are scheduled, an engine ends by its deadline at the latest, *)
(* a request handler runs on once started, and time passes. Nobody has to  *)
(* ask for a scan or for its cancellation, and no fault has to happen.     *)
(***************************************************************************)
FairSpec ==
    /\ Spec
    /\ \A s \in Scans : WF_vars(ApiStep(s))
    /\ \A w \in Workers : WF_vars(WorkerStep(w))
    /\ \A z \in Sweepers : WF_vars(SweeperStep(z))
    /\ \A j \in Jobs : WF_vars(AgeOut(j) /\ Fine)

-----------------------------------------------------------------------------
(***************************************************************************)
(* Properties.                                                             *)
(***************************************************************************)

Terminal(s) == scanStatus[s] \in {"completed", "cancelled"}

\* Every variable stays within the values its column, list or local has.
TypeOK ==
    /\ jobStatus \in [Jobs -> JobStatuses]
    /\ stale \subseteq Jobs
    /\ scanStatus \in [Scans -> ScanStatuses]
    /\ cancelReq \in [Scans -> BOOLEAN]
    /\ findings \subseteq Jobs
    /\ counts \in [Scans -> SUBSET Jobs]
    /\ assessment \in [Scans -> SUBSET SUBSET Jobs]
    /\ announced \in [Scans -> Nat]
    /\ charged \subseteq Jobs
    /\ refunded \subseteq Jobs
    /\ pending \in Seq(Jobs)
    /\ processing \subseteq Jobs
    /\ apc \in [Scans -> ApiPcs]
    /\ apiTodo \in [Scans -> SUBSET Jobs]
    /\ pc \in [Actors -> WorkerPcs \cup SweeperPcs]
    /\ cur \in [Actors -> Jobs \cup {NoJob}]
    /\ res \in [Actors -> Outcomes \cup {"none"}]
    /\ won \in [Actors -> SUBSET Scans]
    /\ todo \in [Actors -> SUBSET Jobs]
    /\ stuckTodo \in [Actors -> SUBSET Scans]
    /\ faultsLeft \in Nat

\* A job is queued at most once and worked on by at most one worker, and not
\* both: no interleaving of claims, crashes and acks runs an engine twice.
ClaimedOnce ==
    /\ \A p, q \in DOMAIN pending : pending[p] = pending[q] => p = q
    /\ \A w \in Workers : ~Pending(cur[w])
    /\ \A v, w \in Workers : cur[v] = cur[w] /\ cur[v] # NoJob => v = w

\* A scan is only finished when each of its jobs is: MarkRunning, which has no
\* status guard, never runs behind a finished scan's back.
FinishedScanHasNoOpenJob ==
    \A s \in Scans : Terminal(s) =>
        \A j \in JobsOf(s) : jobStatus[j] \notin InFlight

\* The row lock in PersistJobResult does its work: no scan is left open with
\* every job closed, except those an older release left behind.
NoNewStuckScan == Stuck \subseteq LegacyStuck

\* A scan is finished exactly when its jobs are, whoever closes the last two of
\* them at once, and whatever is marked running late.
ScanEndsWithItsJobs == FinishedScanHasNoOpenJob /\ NoNewStuckScan

\* A finished scan's status and finding counts never change again, whichever
\* worker, sweeper or late cancel request comes after the first finaliser.
FinishedScanIsFinal ==
    [][\A s \in Scans : Terminal(s) =>
          scanStatus'[s] = scanStatus[s] /\ counts'[s] = counts[s]]_vars

CountsMatchFindings ==
    \A s \in Scans : Terminal(s) => counts[s] = findings \cap JobsOf(s)

ScoreMatchesCounts ==
    \A s \in Scans : assessment[s] # {} =>
        scanStatus[s] = "completed" /\ assessment[s] = {counts[s]}

\* The counts a finished scan shows are those of the findings stored for it,
\* and its score was computed from those very findings: what three transactions
\* leave behind belongs together, whatever another job's actor stored between
\* them.
ResultsBelongTogether == CountsMatchFindings /\ ScoreMatchesCounts

\* A cancelled scan has no score: finalizeScoring re-reads the status.
CancelledScanHasNoScore ==
    \A s \in Scans : scanStatus[s] # "completed" => assessment[s] = {}

\* At most one actor announces a scan.
AnnouncedAtMostOnce == \A s \in Scans : announced[s] <= 1

\* Outcomes the client pays for.
Delivered == {"succeeded", "stopped", "rebinding"}

\* Tokens go back only for work the client did not get: a job whose tokens
\* were given back, by the API, its worker or a sweeper, never counts as
\* succeeded, stopped by the user or refused for its target.
RefundedOnlyIfUnserved ==
    \A j \in Jobs : j \in refunded => jobStatus[j] \notin Delivered

\* Queued in the database, but neither in Redis nor in a worker's hands.
Stranded(j) ==
    \/ jobStatus[j] = "none"
    \/ /\ jobStatus[j] = "queued"
       /\ ~Held(j) /\ ~Pending(j)

\* A job some worker started is closed in the end, by that worker or, if it
\* died or could not write its result, by a sweeper; and a scan that was created
\* finishes, unless one of its jobs never reached a worker: nothing but a
\* stranded job keeps a scan open for good.
WorkComesToAnEnd ==
    /\ \A j \in Jobs : jobStatus[j] = "running" ~> Closed(j)
    /\ \A s \in Scans :
           Open(s) /\ apc[s] = "done" ~> Terminal(s) \/ \E j \in JobsOf(s) : Stranded(j)

\* Without a fault, a finished scan is announced ...
FinishedScanAnnounced ==
    \A s \in Scans : Terminal(s) ~> announced[s] > 0 \/ faultsLeft < MaxFaults

\* ... and a job that was paid for and not delivered is refunded.
UnservedJobRefunded ==
    \A j \in Jobs :
        Closed(j) /\ jobStatus[j] \notin Delivered /\ j \in charged
            ~> j \in refunded \/ faultsLeft < MaxFaults

\* What follows the commit one by one, and is retried by nobody, does follow:
\* whoever finishes a scan refunds and announces, a worker or a sweeper.
AftermathComes == FinishedScanAnnounced /\ UnservedJobRefunded

-----------------------------------------------------------------------------
(***************************************************************************)
(* The inductive invariant: what each actor may rely on at each point.     *)
(***************************************************************************)

\* An actor at a point of its loop holds what that point needs.
WorkerOK(w) ==
    /\ pc[w] \in WorkerPcs
    /\ pc[w] = "idle" <=> cur[w] = NoJob
    /\ pc[w] = "persist" => res[w] \in Outcomes

SweeperOK(z) ==
    /\ pc[z] \in SweeperPcs
    /\ pc[z] \in {"persist", "refund"} => cur[z] # NoJob
    /\ pc[z] = "persist" => res[z] \in Outcomes

ActorsOK == (\A w \in Workers : WorkerOK(w)) /\ (\A z \in Sweepers : SweeperOK(z))

\* The API has yet to queue this job, or may yet have to.
Unqueued(j) ==
    LET s == ScanOf[j] IN
    apc[s] \in {"none", "row", "jobs"} \/ (apc[s] = "queue" /\ j \in apiTodo[s])

\* Rows appear in order: a job's after its scan's and before its place in the
\* queue, and CreateScan knows which rows it has written.
ScanRowOK(s) ==
    /\ apiTodo[s] \subseteq JobsOf(s)
    /\ apc[s] \in {"none", "row"} => scanStatus[s] = "none"
    /\ apc[s] = "jobs" => scanStatus[s] = "queued"
    /\ apc[s] = "queue" => scanStatus[s] # "none"

JobRowOK(j) ==
    /\ jobStatus[j] # "none" => scanStatus[ScanOf[j]] # "none"
    /\ apc[ScanOf[j]] = "jobs" => (jobStatus[j] = "none" <=> j \in apiTodo[ScanOf[j]])
    /\ apc[ScanOf[j]] = "queue" => jobStatus[j] # "none"
    /\ Unqueued(j) => jobStatus[j] \in {"none", "queued"}

RowsOK == (\A s \in Scans : ScanRowOK(s)) /\ (\A j \in Jobs : JobRowOK(j))

\* A job reaches Redis and the workers once, after its row, and is queued in
\* the database until its worker says otherwise.
PendingOK(j) == Pending(j) => jobStatus[j] = "queued" /\ ~Unqueued(j)

ClaimOK(w) ==
    /\ pc[w] # "idle" => jobStatus[cur[w]] # "none" /\ ~Unqueued(cur[w])
    /\ pc[w] \in {"load", "mark"} => jobStatus[cur[w]] = "queued"

ClaimsOK ==
    /\ ClaimedOnce
    /\ \A j \in Jobs : PendingOK(j)
    /\ \A w \in Workers : ClaimOK(w)

\* Sweepers only ever see jobs that were started, and scans left stuck.
Started(j) == jobStatus[j] \notin {"none", "queued"}

SweptOK(z) ==
    /\ \A j \in todo[z] : Started(j)
    /\ cur[z] # NoJob => Started(cur[z])
    /\ stuckTodo[z] \subseteq LegacyStuck

SweepOK == (\A j \in stale : Started(j)) /\ (\A z \in Sweepers : SweptOK(z))

\* A scan left stuck by an older release has its jobs closed and stays so.
LegacyOK ==
    \A s \in LegacyStuck : apc[s] = "done" /\ \A j \in JobsOf(s) : Closed(j)

IInv ==
    /\ TypeOK /\ ActorsOK /\ RowsOK /\ ClaimsOK /\ SweepOK /\ LegacyOK
    /\ FinishedScanHasNoOpenJob /\ NoNewStuckScan

-----------------------------------------------------------------------------
(***************************************************************************)
(* What comments and documents say and the code does not keep.             *)
(***************************************************************************)

\* jobqueue.go:57: a job is acknowledged once its result is stored, never before.
AckedOnlyWhenPersisted ==
    [][\A j \in processing \ processing' : Closed(j)]_vars

\* 04-backend-architecture.md:317: a flushed Redis only delays the queued jobs.
QueuedJobLeavesQueue ==
    \A j \in Jobs : jobStatus[j] = "queued" /\ apc[ScanOf[j]] = "done"
                        ~> jobStatus[j] # "queued"

\* job_result_repo.go:42: the caller is told it finalised a scan exactly when
\* it did.
ReportsOnlyWhatItFinalised == \A a \in Actors : \A s \in won[a] : Terminal(s)

\* worker.go:516: a succeeded job stays paid for.
SucceededStaysPaid ==
    \A j \in Jobs : jobStatus[j] = "succeeded" => j \notin refunded

=============================================================================
