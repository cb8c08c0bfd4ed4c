----------------------------- MODULE Sandboxes -----------------------------
(***************************************************************************)
(* The Kubernetes objects a tool runs in: the Job, ConfigMap and           *)
(* NetworkPolicy of a pentest script (adapters/k8spentestsandbox), the Job *)
(* and the ConfigMap or Secret it owns of an image or code scan            *)
(* (adapters/k8strivyscanner, k8scodescanscanner), and the sweep every     *)
(* process does when it starts (cmd/guardpipe/main.go).                    *)
(*                                                                         *)
(* One action per call to the API server; what Kubernetes does on its own  *)
(* is an action too.  Deleting a Job returns before its pod is gone.       *)
(*                                                                         *)
(* Left out: what a tool prints, how many runs of a process wait for a     *)
(* slot of its semaphore, that each sweep is of its own label, and that a  *)
(* call that was given up may take effect later still.                     *)
(***************************************************************************)
EXTENDS Naturals, Sequences, FiniteSets

CONSTANTS
    Processes,     \* replicas, of whatever role
    ToolRuns,      \* calls of Run, of run and of Analyze
    RunBy,         \* the process of each
    Fenced,        \* scripts that may reach the target only
    WithFile,      \* runs that hand the pod a file, or a credential
    JobFirst,      \* image and code scans: the Job owns what comes after it
    MaxStarts,     \* bound: starts of processes
    MaxSbFaults    \* bound: calls to the API server that fail

ASSUME SandboxesAssumption ==
    /\ RunBy \in [ToolRuns -> Processes]
    /\ Fenced \cup WithFile \cup JobFirst \subseteq ToolRuns
    /\ Fenced \cap JobFirst = {}
    /\ {MaxStarts, MaxSbFaults} \subseteq Nat

VARIABLES
    process,    \* "down", "up", or which objects its sweep has come to
    run,        \* where each run stands, and how many objects it has made
    outcome,    \* what a run that is over reported
    job,        \* the Job of a run
    pod,        \* and its pod
    config,     \* runs whose ConfigMap or Secret is there
    policy,     \* runs whose NetworkPolicy is there
    disturbed,  \* runs that lost something to the sweep of another process
    leaked,     \* runs that a failed call may have left something of
    starts,     \* starts of processes so far
    sbFaults    \* failed calls so far

SbVars == <<process, run, outcome, job, pod, config, policy, disturbed, leaked, starts, sbFaults>>
Cluster == <<job, pod, config, policy>>

NotRun == [at |-> "idle", made |-> 0]
InFlight(r) == run[r].at \in {"making", "waiting", "unmaking"}

SbTypeOK ==
    /\ process \in [Processes -> {"down", "up", "job", "config", "policy"}]
    /\ run \in [ToolRuns -> [at : {"idle", "making", "waiting", "unmaking", "done", "lost"},
                             made : 0 .. 3]]
    /\ outcome \in [ToolRuns -> {"none", "complete", "timedout", "error"}]
    /\ job \in [ToolRuns -> {"none", "active", "deleting"}]
    /\ pod \in [ToolRuns -> {"none", "running", "ended", "gone"}]
    /\ config \subseteq ToolRuns /\ policy \subseteq ToolRuns /\ disturbed \cup leaked \subseteq ToolRuns
    /\ starts \in 0 .. MaxStarts /\ sbFaults \in 0 .. MaxSbFaults

SbInit ==
    /\ process = [p \in Processes |-> "down"]
    /\ run = [r \in ToolRuns |-> NotRun]
    /\ outcome = [r \in ToolRuns |-> "none"]
    /\ job = [r \in ToolRuns |-> "none"] /\ pod = [r \in ToolRuns |-> "none"]
    /\ config = {} /\ policy = {} /\ disturbed = {} /\ leaked = {}
    /\ starts = 0 /\ sbFaults = 0

(***************************************************************************)
(* A run                                                                   *)
(* (An operator whose comment says "instead" is a plausible mistake in the *)
(* operator it precedes; only the mutants use it.)                         *)
(***************************************************************************)

\* Instead: the Job comes first whoever makes it.
ObjectsJobFirst(r) ==
    IF r \in WithFile
    THEN IF r \in Fenced THEN <<"job", "config", "policy">> ELSE <<"job", "config">>
    ELSE IF r \in Fenced THEN <<"job", "policy">> ELSE <<"job">>
\* What a run makes, in this order, and unmakes in the opposite one: every
\* object is deleted by a defer next to its creation.
Objects(r) ==
    IF r \in JobFirst
    THEN IF r \in WithFile THEN <<"job", "config">> ELSE <<"job">>
    ELSE IF r \in WithFile
         THEN IF r \in Fenced THEN <<"config", "policy", "job">> ELSE <<"config", "job">>
         ELSE IF r \in Fenced THEN <<"policy", "job">> ELSE <<"job">>

\* The process has a slot for one more run.
TakeSlot(r) ==
    /\ process[RunBy[r]] = "up" /\ run[r] = NotRun
    /\ run' = [run EXCEPT ![r].at = "making"]
    /\ UNCHANGED <<process, outcome, Cluster, disturbed, leaked, starts, sbFaults>>

Appears(r, kind) ==
    /\ job' = IF kind = "job" THEN [job EXCEPT ![r] = "active"] ELSE job
    /\ config' = IF kind = "config" THEN config \cup {r} ELSE config
    /\ policy' = IF kind = "policy" THEN policy \cup {r} ELSE policy

Make(r) ==
    LET n == run[r].made + 1 IN
    /\ run[r].at = "making"
    /\ Appears(r, Objects(r)[n])
    /\ run' = [run EXCEPT ![r] = [at |-> IF n = Len(Objects(r)) THEN "waiting" ELSE "making",
                                  made |-> n]]
    /\ UNCHANGED <<process, outcome, pod, disturbed, leaked, starts, sbFaults>>

End(r, result) ==
    /\ run' = [run EXCEPT ![r].at = "unmaking"]
    /\ outcome' = [outcome EXCEPT ![r] = result]
    /\ UNCHANGED <<process, Cluster, disturbed, leaked, starts>>

\* A create that failed may have taken effect: its answer was lost, or came after
\* the time was up. No defer knows of the object, those of the others run: a Job
\* that came about goes on without its policy.
MakeFails(r, took) ==
    /\ run[r].at = "making" /\ sbFaults < MaxSbFaults
    /\ sbFaults' = sbFaults + 1
    /\ Appears(r, IF took THEN Objects(r)[run[r].made + 1] ELSE "nothing")
    /\ leaked' = IF took THEN leaked \cup {r} ELSE leaked
    /\ run' = [run EXCEPT ![r].at = "unmaking"]
    /\ outcome' = [outcome EXCEPT ![r] = "error"]
    /\ UNCHANGED <<process, pod, disturbed, starts>>

\* waitForPodCompletion asks for the pod until it has ended, a question fails,
\* or the time is up; a pod that is not there is waited for.
PodSeen(r) ==
    /\ run[r].at = "waiting" /\ pod[r] = "ended"
    /\ sbFaults' = sbFaults
    /\ End(r, "complete")
PollFails(r) ==
    /\ run[r].at = "waiting" /\ sbFaults < MaxSbFaults
    /\ sbFaults' = sbFaults + 1
    /\ End(r, "error")
\* A script that ran out of time is a result; a scan that did is an error.
TimeOut(r) ==
    /\ run[r].at = "waiting"
    /\ sbFaults' = sbFaults
    /\ End(r, IF r \in JobFirst THEN "error" ELSE "timedout")

\* The defers, the last one made first, and the slot at the very end; their
\* errors are ignored.
Unmake(r, works) ==
    LET n == run[r].made
        kind == Objects(r)[n]
    IN
    /\ run[r].at = "unmaking" /\ n > 0
    /\ ~works => sbFaults < MaxSbFaults
    /\ sbFaults' = IF works THEN sbFaults ELSE sbFaults + 1
    /\ leaked' = IF works THEN leaked ELSE leaked \cup {r}
    /\ job' = IF works /\ kind = "job" /\ job[r] = "active"
              THEN [job EXCEPT ![r] = "deleting"] ELSE job
    /\ config' = IF works /\ kind = "config" THEN config \ {r} ELSE config
    /\ policy' = IF works /\ kind = "policy" THEN policy \ {r} ELSE policy
    /\ run' = [run EXCEPT ![r].made = n - 1]
    /\ UNCHANGED <<process, outcome, pod, disturbed, starts>>
ReleaseSlot(r) ==
    /\ run[r].at = "unmaking" /\ run[r].made = 0
    /\ run' = [run EXCEPT ![r].at = "done"]
    /\ UNCHANGED <<process, outcome, Cluster, disturbed, leaked, starts, sbFaults>>

(***************************************************************************)
(* Kubernetes                                                              *)
(***************************************************************************)

\* A pod starts once the volume it mounts is there.
StartPod(r) ==
    /\ job[r] = "active" /\ pod[r] = "none" /\ (r \in WithFile => r \in config)
    /\ pod' = [pod EXCEPT ![r] = "running"]
    /\ UNCHANGED <<process, run, outcome, job, config, policy, disturbed, leaked, starts, sbFaults>>

\* It ends, or ActiveDeadlineSeconds takes it away, started or not.
EndPod(r, how) ==
    /\ job[r] = "active"
    /\ \/ how = "ended" /\ pod[r] = "running"
       \/ how = "gone" /\ pod[r] \in {"none", "running"}
    /\ pod' = [pod EXCEPT ![r] = how]
    /\ UNCHANGED <<process, run, outcome, job, config, policy, disturbed, leaked, starts, sbFaults>>

\* A deleted Job goes once its pod has gone; a Job that is over goes after
\* TTLSecondsAfterFinished (longer than a run takes to ask).
RemoveJob(r) ==
    /\ \/ job[r] = "deleting"
       \/ job[r] = "active" /\ pod[r] \in {"ended", "gone"} /\ ~InFlight(r)
    /\ job' = [job EXCEPT ![r] = "none"]
    /\ pod' = [pod EXCEPT ![r] = "gone"]
    /\ UNCHANGED <<process, run, outcome, config, policy, disturbed, leaked, starts, sbFaults>>

\* What a Job owned is collected after it.
CollectGarbage(r) ==
    /\ r \in JobFirst \cap config /\ job[r] = "none"
    /\ config' = config \ {r}
    /\ UNCHANGED <<process, run, outcome, job, pod, policy, disturbed, leaked, starts, sbFaults>>

(***************************************************************************)
(* Processes: SweepOrphans when one starts, whatever its role              *)
(***************************************************************************)

StartProcess(p) ==
    /\ process[p] = "down" /\ starts < MaxStarts
    /\ process' = [process EXCEPT ![p] = "job"]
    /\ starts' = starts + 1
    /\ UNCHANGED <<run, outcome, Cluster, disturbed, leaked, sbFaults>>

\* Instead: what belongs to a Job goes with the Job.
AfterSweepOfJobsOnly(stage) == "up"
\* Jobs, then ConfigMaps, then NetworkPolicies, each by their label
AfterSweepOf(stage) == CASE stage = "job" -> "config" [] stage = "config" -> "policy"
                         [] OTHER -> "up"

\* What of a kind is there, bar what a Job owns
Present(kind) == CASE kind = "job" -> {r \in ToolRuns : job[r] = "active"}
                   [] kind = "config" -> config \ JobFirst
                   [] OTHER -> policy

\* Whose they are is not asked: runs of other processes lose theirs too.
SweepAway(p, runs) ==
    LET kind == process[p] IN
    /\ kind \in {"job", "config", "policy"}
    /\ job' = [r \in ToolRuns |-> IF kind = "job" /\ r \in runs THEN "deleting" ELSE job[r]]
    /\ config' = IF kind = "config" THEN config \ runs ELSE config
    /\ policy' = IF kind = "policy" THEN policy \ runs ELSE policy
    /\ disturbed' = disturbed \cup {r \in runs : RunBy[r] # p}

Sweep(p) ==
    /\ SweepAway(p, Present(process[p]))
    /\ process' = [process EXCEPT ![p] = AfterSweepOf(@)]
    /\ UNCHANGED <<run, outcome, pod, leaked, starts, sbFaults>>

\* A call fails, after some were deleted. One for the Jobs ends the sweep, any
\* other is passed over, and the process starts all the same.
SweepFails(p, some) ==
    /\ sbFaults < MaxSbFaults
    /\ SweepAway(p, some)
    /\ process' = [process EXCEPT ![p] = IF @ = "job" THEN "up" ELSE AfterSweepOf(@)]
    /\ leaked' = leaked \cup {r \in ToolRuns : RunBy[r] = p /\ run[r].at = "lost"}
    /\ sbFaults' = sbFaults + 1
    /\ UNCHANGED <<run, outcome, pod, starts>>

\* A process dies, and its runs with it; what they made stays.
Crash(p) ==
    /\ process[p] # "down"
    /\ process' = [process EXCEPT ![p] = "down"]
    /\ run' = [r \in ToolRuns |-> IF RunBy[r] = p /\ InFlight(r) THEN [run[r] EXCEPT !.at = "lost"]
                                  ELSE run[r]]
    /\ UNCHANGED <<outcome, Cluster, disturbed, leaked, starts, sbFaults>>

SbRun(r) ==
    \/ TakeSlot(r) \/ Make(r) \/ PodSeen(r) \/ TimeOut(r) \/ ReleaseSlot(r)
    \/ PollFails(r)
    \/ \E took \in BOOLEAN : MakeFails(r, took)
    \/ \E works \in BOOLEAN : Unmake(r, works)
SbKubernetes(r) ==
    \/ StartPod(r) \/ RemoveJob(r) \/ CollectGarbage(r)
    \/ \E how \in {"ended", "gone"} : EndPod(r, how)

SbNext ==
    \/ \E r \in ToolRuns : SbRun(r) \/ SbKubernetes(r)
    \/ \E p \in Processes :
         \/ StartProcess(p) \/ Sweep(p) \/ Crash(p)
         \/ \E some \in SUBSET Present(process[p]) : SweepFails(p, some)

SbSpec == SbInit /\ [][SbNext]_SbVars

(***************************************************************************)
(* Properties                                                              *)
(***************************************************************************)

\* A script that may reach only its target runs behind its NetworkPolicy from its
\* pod's first moment until its run, or the sweep of its own process after a crash,
\* has told its Job to go, however the run ends. From then on neither waits for the
\* pod, and the policy may go before it. While the Job is there only the sweep of
\* another process takes the policy, or a failed call: a delete of the Job that did
\* nothing, or a create of it that did something.
FencedWhileItRuns ==
    \A r \in Fenced \ (disturbed \cup leaked) :
        pod[r] = "running" /\ r \notin policy =>
            job[r] = "deleting" /\ run[r].at \in {"unmaking", "done", "lost"}

\* Once every process has started again and no run is in flight, nothing of a
\* run is left, however its process ended: "a container/Job leaked by a crash
\* should never linger".
NothingLeftBehind ==
    /\ \A p \in Processes : process[p] = "up"
    /\ \A r \in ToolRuns : ~InFlight(r) /\ job[r] # "deleting"
    => \A r \in ToolRuns \ leaked :
          /\ job[r] = "none"
          /\ r \notin policy
          /\ r \in config => r \in JobFirst

\* A script runs behind its policy until its Job is told to go, and nothing of a
\* tool is left once its process, or the sweep of another, is through with it,
\* although a crash comes anywhere.
FencedAndCleared == FencedWhileItRuns /\ NothingLeftBehind
=============================================================================
