----------------------------- MODULE Workspace -----------------------------
(***************************************************************************)
(* The clone the repository jobs of a scan share inside one worker         *)
(* process: workspaceCache (orchestrator/workspace.go), as processJob      *)
(* uses it and with the clone of prepareWorkspace (worker.go).             *)
(*                                                                         *)
(* Every section of acquire and releaseRef that runs under the cache's     *)
(* mutex is one action; the clone and the removal of the directory run     *)
(* outside it and are actions of their own.  A job acquires once, so a     *)
(* sharedWorkspace, and the directory it was cloned into, goes by the name *)
(* of the job that created it.                                             *)
(*                                                                         *)
(* Left out: what is in the clone, and docreview's way on without one (it  *)
(* holds no clone, like a job that failed here).                           *)
(***************************************************************************)
EXTENDS Naturals, FiniteSets

CONSTANTS
    ClonedScans,  \* the scans of this process
    RepoJobs,     \* their repository jobs
    ScanOf,       \* the scan of each job
    NoJob         \* "no entry in the map", "no workspace joined"

ASSUME WorkspaceAssumption ==
    /\ IsFiniteSet(RepoJobs)
    /\ ScanOf \in [RepoJobs -> ClonedScans]
    /\ NoJob \notin RepoJobs

VARIABLES
    byScan,       \* workspaceCache.byScan: the workspace a scan's jobs join
    refCount,     \* sharedWorkspace.refCount
    clone,        \* sharedWorkspace: not there, before close(ready), or its outcome
    jobAt,        \* where a job stands in processJob
    joined,       \* the workspace a job acquired
    disk,         \* the directories under WorkspaceRoot
    procState     \* "up", "stopping" once the context is cancelled, "crashed"

WsVars == <<byScan, refCount, clone, jobAt, joined, disk, procState>>

JobPlaces == {"start", "cloning", "waiting", "reading", "dropping", "removing", "done"}

WsTypeOK ==
    /\ byScan \in [ClonedScans -> RepoJobs \cup {NoJob}]
    /\ refCount \in [RepoJobs -> 0 .. Cardinality(RepoJobs)]
    /\ clone \in [RepoJobs -> {"none", "preparing", "ok", "failed"}]
    /\ jobAt \in [RepoJobs -> JobPlaces]
    /\ joined \in [RepoJobs -> RepoJobs \cup {NoJob}]
    /\ disk \subseteq RepoJobs
    /\ procState \in {"up", "stopping", "crashed"}

WsInit ==
    /\ byScan = [s \in ClonedScans |-> NoJob]
    /\ refCount = [j \in RepoJobs |-> 0]
    /\ clone = [j \in RepoJobs |-> "none"]
    /\ jobAt = [j \in RepoJobs |-> "start"]
    /\ joined = [j \in RepoJobs |-> NoJob]
    /\ disk = {}
    /\ procState = "up"

(***************************************************************************)
(* acquire                                                                 *)
(* (An operator whose comment says "instead" is a plausible mistake in the *)
(* operator it precedes; only the mutants use it.)                         *)
(***************************************************************************)

\* The first job of the scan to come makes the entry; the reference is
\* counted under the same lock.
CreateEntry(j) ==
    /\ procState # "crashed" /\ jobAt[j] = "start"
    /\ byScan[ScanOf[j]] = NoJob
    /\ byScan' = [byScan EXCEPT ![ScanOf[j]] = j]
    /\ refCount' = [refCount EXCEPT ![j] = @ + 1]
    /\ clone' = [clone EXCEPT ![j] = "preparing"]
    /\ joined' = [joined EXCEPT ![j] = j]
    /\ jobAt' = [jobAt EXCEPT ![j] = "cloning"]
    /\ UNCHANGED <<disk, procState>>

\* Every other job joins it, whatever has become of it meanwhile.
JoinEntry(j) ==
    LET w == byScan[ScanOf[j]] IN
    /\ procState # "crashed" /\ jobAt[j] = "start" /\ w # NoJob
    /\ refCount' = [refCount EXCEPT ![w] = @ + 1]
    /\ joined' = [joined EXCEPT ![j] = w]
    /\ jobAt' = [jobAt EXCEPT ![j] = "waiting"]
    /\ UNCHANGED <<byScan, clone, disk, procState>>

\* prepare: a fresh directory for the clone to go into
MakeDirectory(j) ==
    /\ procState # "crashed"
    /\ jobAt[j] = "cloning" /\ j \notin disk
    /\ disk' = disk \cup {j}
    /\ UNCHANGED <<byScan, refCount, clone, jobAt, joined, procState>>

\* What the job does next with a clone, or without
AfterPrepare(outcome) == IF outcome = "ok" THEN "reading" ELSE "dropping"

\* prepare returns and ready is closed. A clone that fails has removed its
\* own directory, and one whose preconditions fail never made it.
FinishClone(j, outcome) ==
    /\ procState # "crashed"
    /\ jobAt[j] = "cloning"
    /\ outcome = "ok" => j \in disk
    /\ clone' = [clone EXCEPT ![j] = outcome]
    /\ disk' = IF outcome = "ok" THEN disk ELSE disk \ {j}
    /\ jobAt' = [jobAt EXCEPT ![j] = AfterPrepare(outcome)]
    /\ UNCHANGED <<byScan, refCount, joined, procState>>

IsReady(w) == clone[w] \in {"ok", "failed"}

\* ready was closed: the job takes the outcome it shares.
TakeOutcome(j) ==
    /\ procState # "crashed"
    /\ jobAt[j] = "waiting" /\ IsReady(joined[j])
    /\ jobAt' = [jobAt EXCEPT ![j] = AfterPrepare(clone[joined[j]])]
    /\ UNCHANGED <<byScan, refCount, clone, joined, disk, procState>>

AfterGivingUp == "dropping"

\* The other arm of the select: the context ends first.
GiveUpWaiting(j) ==
    /\ procState = "stopping"
    /\ jobAt[j] = "waiting"
    /\ jobAt' = [jobAt EXCEPT ![j] = AfterGivingUp]
    /\ UNCHANGED <<byScan, refCount, clone, joined, disk, procState>>

(***************************************************************************)
(* releaseRef, by a job that is done reading or that got no clone          *)
(***************************************************************************)

IsLast(w) == refCount[w] = 1

\* Instead: whoever cloned cleans up.
RemovesOwn(j) == joined[j] = j /\ clone[j] = "ok"
\* The directory goes with the last reference.
Removes(j) == IsLast(joined[j]) /\ clone[joined[j]] = "ok"

\* So does the entry, if it is still this workspace.
Unlists(j) == IsLast(joined[j]) /\ byScan[ScanOf[j]] = joined[j]

\* Instead: the deferred release follows an explicit one.
AfterReleaseAgain == "dropping"
AfterRelease == "done"

ReleaseRef(j) ==
    /\ procState # "crashed"
    /\ jobAt[j] \in {"reading", "dropping"}
    /\ refCount' = [refCount EXCEPT ![joined[j]] = @ - 1]
    /\ byScan' = IF Unlists(j) THEN [byScan EXCEPT ![ScanOf[j]] = NoJob] ELSE byScan
    /\ jobAt' = [jobAt EXCEPT ![j] = IF Removes(j) THEN "removing" ELSE AfterRelease]
    /\ UNCHANGED <<clone, joined, disk, procState>>

\* RemoveAll, after the lock is given back
RemoveDirectory(j) ==
    /\ procState # "crashed"
    /\ jobAt[j] = "removing"
    /\ disk' = disk \ {joined[j]}
    /\ jobAt' = [jobAt EXCEPT ![j] = "done"]
    /\ UNCHANGED <<byScan, refCount, clone, joined, procState>>

\* The process is told to stop, or dies: the directories outlive it.
Stop ==
    /\ procState = "up"
    /\ procState' \in {"stopping", "crashed"}
    /\ UNCHANGED <<byScan, refCount, clone, jobAt, joined, disk>>

\* What a job does to get the clone, and to give it back
WsAcquire(j) == CreateEntry(j) \/ JoinEntry(j)
WsStep(j) ==
    \/ MakeDirectory(j)
    \/ \E outcome \in {"ok", "failed"} : FinishClone(j, outcome)
    \/ TakeOutcome(j) \/ GiveUpWaiting(j)
    \/ ReleaseRef(j) \/ RemoveDirectory(j)

WsNext == (\E j \in RepoJobs : WsAcquire(j) \/ WsStep(j)) \/ Stop

WsSpec == WsInit /\ [][WsNext]_WsVars

(***************************************************************************)
(* Properties                                                              *)
(***************************************************************************)

ReadersHaveTheClone ==
    \A j \in RepoJobs :
        procState # "crashed" /\ jobAt[j] = "reading" => joined[j] \in disk

\* The jobs of one scan that read at the same time read the same clone ...
OneCloneForAll ==
    \A j, k \in RepoJobs :
        /\ ScanOf[j] = ScanOf[k]
        /\ {jobAt[j], jobAt[k]} \subseteq {"cloning", "waiting", "reading"}
        => joined[j] = joined[k]

\* ... and whichever of them is the last to go cleans up: a process that ends
\* its jobs leaves no directory and no entry behind; only a crash does.
OnlyACrashLeavesAClone ==
    /\ procState # "crashed"
    /\ \A j \in RepoJobs : jobAt[j] \in {"start", "done"}
    => disk = {} /\ \A s \in ClonedScans : byScan[s] = NoJob

\* The jobs of one scan share one clone, however their acquires, failures and
\* removals fall together: nobody else's release removes it between a job's
\* acquire and its own release ("the directory is removed only after every
\* acquirer has released it"), and nobody is left to forget it.
SharedClone == ReadersHaveTheClone /\ OneCloneForAll /\ OnlyACrashLeavesAClone

\* The job that waits for another's clone is not left waiting: it gets the
\* clone, the error or its context's end.
NoJobWaitsForever ==
    \A j \in RepoJobs :
        jobAt[j] = "waiting" ~> jobAt[j] # "waiting" \/ procState = "crashed"
=============================================================================
