------------------------------- MODULE Docker -------------------------------
(***************************************************************************)
(* What the tools of a worker leave on a Docker host: a pentest script's   *)
(* container and the word list it mounts (adapters/pentestsandbox over     *)
(* adapters/sandbox), the container of a scanner (adapters/trivy,          *)
(* adapters/sonarqube), and the image the container engine builds to have  *)
(* it scanned.  Sandboxes is the same of a Kubernetes cluster.             *)
(*                                                                         *)
(* One action per call to the daemon (adapters/dockerx); what the daemon   *)
(* does on its own is an action too.  Left out: what a container may       *)
(* reach and use, and what a tool prints.                                  *)
(***************************************************************************)
EXTENDS Naturals, FiniteSets

CONSTANTS
    DockerHosts,   \* processes that share the daemon
    DockerRuns,    \* calls of Run, of ScanConfig, ScanImage and Analyze
    KindOf,        \* "script", "scanner", or "image": a scan of what it builds
    HostOf,        \* the process of each
    AtRoot,        \* image runs whose Dockerfile is in the checkout's root
    MaxDkStarts,   \* bound: starts of processes
    MaxDkFaults    \* bound: calls to the daemon that fail

ASSUME DockerAssumption ==
    /\ KindOf \in [DockerRuns -> {"script", "scanner", "image"}]
    /\ HostOf \in [DockerRuns -> DockerHosts]
    /\ {MaxDkStarts, MaxDkFaults} \subseteq Nat

VARIABLES
    host,        \* "down", "sweeping" or "up"
    listed,      \* containers a sweep has listed and not come to
    dkRun,       \* where a run stands, what it is to undo, whether its time is up
    dkResult,    \* what a run that is over returned
    container,   \* the container of a run
    images,      \* runs whose built image is there
    wordlists,   \* runs whose list of words or URLs is there
    cut,         \* runs that a sweep of another process killed
    stray,       \* runs a failed call left something of, or a sweep did not come to
    dkStarts, dkFaults

DkVars == <<host, listed, dkRun, dkResult, container, images, wordlists, cut, stray,
            dkStarts, dkFaults>>
Host == <<container, images, wordlists>>

NoDkRun == [at |-> "idle", undo |-> {}, context |-> "live"]
DkInFlight(r) == dkRun[r].at \notin {"idle", "done", "lost"}

DkInit ==
    /\ host = [p \in DockerHosts |-> "down"] /\ listed = [p \in DockerHosts |-> {}]
    /\ dkRun = [r \in DockerRuns |-> NoDkRun] /\ dkResult = [r \in DockerRuns |-> "none"]
    /\ container = [r \in DockerRuns |-> "none"]
    /\ images = {} /\ wordlists = {} /\ cut = {} /\ stray = {}
    /\ dkStarts = 0 /\ dkFaults = 0

Fault == dkFaults < MaxDkFaults /\ dkFaults' = dkFaults + 1
NoFault == dkFaults' = dkFaults

(***************************************************************************)
(* A run                                                                   *)
(* (An operator whose comment says "instead" is a plausible mistake in the *)
(* operator it precedes; only the mutants use it.)                         *)
(***************************************************************************)

\* What comes before the container
First(r) == CASE KindOf[r] = "script" -> "wordlist" [] KindOf[r] = "image" -> "build" [] OTHER -> "pull"

Goto(r, at) == dkRun' = [dkRun EXCEPT ![r].at = at]
Return(r, result) ==
    /\ Goto(r, "undo")
    /\ dkResult' = [dkResult EXCEPT ![r] = result]

Begin(r) ==
    /\ host[HostOf[r]] = "up" /\ dkRun[r] = NoDkRun
    /\ Goto(r, First(r))
    /\ UNCHANGED <<host, listed, dkResult, Host, cut, stray, dkStarts, dkFaults>>

\* The job's context ends, or the run's own time is up.
TimeIsUp(r) ==
    /\ DkInFlight(r) /\ dkRun[r].context = "live" /\ dkRun[r].at # "undo"
    /\ dkRun' = [dkRun EXCEPT ![r].context = "over"]
    /\ UNCHANGED <<host, listed, dkResult, Host, cut, stray, dkStarts, dkFaults>>

\* resolveWordlist, writeURLList: a file of this run alone
WriteList(r) ==
    /\ dkRun[r].at = "wordlist"
    /\ dkRun' = [dkRun EXCEPT ![r].at = "pull", ![r].undo = {"wordlist"}]
    /\ wordlists' = wordlists \cup {r}
    /\ UNCHANGED <<host, listed, dkResult, container, images, cut, stray, dkStarts, dkFaults>>

\* In the root of the checkout first, then in the Dockerfile's directory. A build
\* whose progress cannot be read to its end may have worked all the same.
BuildImage(r, how) ==
    /\ dkRun[r].at \in {"build", "rebuild"}
    /\ how # "built" => Fault
    /\ how = "built" => NoFault /\ dkRun[r].context = "live"
    /\ images' = IF how = "failed" THEN images ELSE images \cup {r}
    /\ stray' = IF how = "unread" THEN stray \cup {r} ELSE stray
    /\ IF how = "built"
       THEN dkRun' = [dkRun EXCEPT ![r].at = "pull", ![r].undo = {"image"}] /\ UNCHANGED dkResult
       ELSE IF dkRun[r].at = "build" /\ r \notin AtRoot
            THEN Goto(r, "rebuild") /\ UNCHANGED dkResult
            ELSE Return(r, "error")
    /\ UNCHANGED <<host, listed, container, wordlists, cut, dkStarts>>

\* A call with a context that is over fails.
CallFails(r) ==
    /\ dkRun[r].at \in {"wordlist", "build", "rebuild", "pull", "create", "start"}
    /\ \/ Fault
       \/ NoFault /\ dkRun[r].context = "over" /\ dkRun[r].at # "wordlist"
    /\ Return(r, "error")
    /\ UNCHANGED <<host, listed, Host, cut, stray, dkStarts>>

\* The scanner's image; a sandbox image that is there is not pulled.
Pull(r) ==
    /\ dkRun[r].at = "pull" /\ dkRun[r].context = "live"
    /\ Goto(r, "create")
    /\ UNCHANGED <<host, listed, dkResult, Host, cut, stray, dkStarts, dkFaults>>

\* A container may be there although its creation failed; nobody knows its ID then.
CreateContainer(r, works) ==
    /\ dkRun[r].at = "create"
    /\ IF works THEN NoFault /\ dkRun[r].context = "live" ELSE Fault
    /\ container' = [container EXCEPT ![r] = "created"]
    /\ IF works
       THEN /\ dkRun' = [dkRun EXCEPT ![r].at = "start", ![r].undo = @ \cup {"container"}]
            /\ UNCHANGED <<dkResult, stray>>
       ELSE Return(r, "error") /\ stray' = stray \cup {r}
    /\ UNCHANGED <<host, listed, images, wordlists, cut, dkStarts>>

StartContainer(r) ==
    /\ dkRun[r].at = "start" /\ dkRun[r].context = "live" /\ container[r] = "created"
    /\ Goto(r, "wait")
    /\ container' = [container EXCEPT ![r] = "running"]
    /\ UNCHANGED <<host, listed, dkResult, images, wordlists, cut, stray, dkStarts, dkFaults>>
\* Somebody swept it away before it was started.
StartsNothing(r) ==
    /\ dkRun[r].at = "start" /\ container[r] = "none"
    /\ Return(r, "error")
    /\ UNCHANGED <<host, listed, Host, cut, stray, dkStarts, dkFaults>>

\* WaitContainer returns: it has ended, the time is up, or asking failed.
Wait(r) ==
    /\ dkRun[r].at = "wait"
    /\ \/ container[r] \in {"exited", "killed", "none"} /\ Goto(r, "logs") /\ NoFault
       \/ dkRun[r].context = "over" /\ Goto(r, "logs of a late one") /\ NoFault
       \/ Fault /\ Goto(r, "logs of a lost one")
    /\ UNCHANGED <<host, listed, dkResult, Host, cut, stray, dkStarts>>

\* A script whose time is up is a result, even if it has ended; for a scanner only
\* a run that has ended well is.
ResultOf(r, ended) ==
    CASE KindOf[r] = "script" /\ dkRun[r].context = "over" -> "timedout"
      [] dkRun[r].at # "logs" -> "error"
      [] KindOf[r] # "script" /\ ended = "badly" -> "error"
      [] OTHER -> "complete"

\* Whatever has become of the context: the logs are read, and come first.
ReadLogs(r, ended) ==
    /\ dkRun[r].at \in {"logs", "logs of a late one", "logs of a lost one"}
    /\ \/ container[r] # "none" /\ NoFault
          /\ Return(r, ResultOf(r, ended))
       \/ container[r] = "none" /\ NoFault /\ Return(r, "error")
       \/ Fault /\ Return(r, "error")
    /\ UNCHANGED <<host, listed, Host, cut, stray, dkStarts>>

\* Instead: with the context of the run.
RemovedInTime(r) == dkRun[r].context = "live"
\* The defers remove with a context of their own: the run's may be over.
RemovedAnyway(r) == TRUE

\* Its errors are ignored.
Undo(r, what, works) ==
    /\ dkRun[r].at = "undo" /\ what \in dkRun[r].undo
    /\ what # "container" => "container" \notin dkRun[r].undo
    /\ ~works => Fault
    /\ works => NoFault
    /\ dkRun' = [dkRun EXCEPT ![r].undo = @ \ {what}]
    /\ stray' = IF works THEN stray ELSE stray \cup {r}
    /\ LET gone == works /\ (what = "wordlist" \/ RemovedAnyway(r))
       IN /\ container' = IF gone /\ what = "container" THEN [container EXCEPT ![r] = "none"] ELSE container
          /\ images' = IF gone /\ what = "image" THEN images \ {r} ELSE images
          /\ wordlists' = IF gone /\ what = "wordlist" THEN wordlists \ {r} ELSE wordlists
    /\ UNCHANGED <<host, listed, dkResult, cut, dkStarts>>

FinishRun(r) ==
    /\ dkRun[r].at = "undo" /\ dkRun[r].undo = {}
    /\ Goto(r, "done")
    /\ UNCHANGED <<host, listed, dkResult, Host, cut, stray, dkStarts, dkFaults>>

Exit(r) ==
    /\ container[r] = "running"
    /\ container' = [container EXCEPT ![r] = "exited"]
    /\ UNCHANGED <<host, listed, dkRun, dkResult, images, wordlists, cut, stray, dkStarts, dkFaults>>

(***************************************************************************)
(* Processes                                                               *)
(***************************************************************************)

\* Containers that carry the sandbox's label, whoever made them; a scanner's have
\* labels nobody looks for, and images and lists of words none.
Sweepable == {r \in DockerRuns : KindOf[r] = "script" /\ container[r] # "none"}

StartHost(p) ==
    /\ host[p] = "down" /\ dkStarts < MaxDkStarts
    /\ dkStarts' = dkStarts + 1
    /\ host' = [host EXCEPT ![p] = "sweeping"]
    /\ listed' = [listed EXCEPT ![p] = Sweepable]
    /\ UNCHANGED <<dkRun, dkResult, Host, cut, stray, dkFaults>>

EndSweep(p, passedOver) ==
    /\ host' = [host EXCEPT ![p] = "up"]
    /\ listed' = [listed EXCEPT ![p] = {}]
    /\ stray' = stray \cup passedOver

\* A forced removal kills first: who waits for the container may read what it
\* printed before it is gone.
SweepOne(p, r) ==
    /\ host[p] = "sweeping" /\ r \in listed[p] /\ container[r] # "none"
    /\ cut' = IF HostOf[r] # p THEN cut \cup {r} ELSE cut
    /\ IF container[r] = "running"
       THEN container' = [container EXCEPT ![r] = "killed"] /\ UNCHANGED listed
       ELSE /\ container' = [container EXCEPT ![r] = "none"]
            /\ listed' = [listed EXCEPT ![p] = @ \ {r}]
    /\ UNCHANGED <<host, dkRun, dkResult, images, wordlists, stray, dkStarts, dkFaults>>

\* The first removal that fails ends it, also one of a container that its own run
\* has removed meanwhile; the process starts all the same.
SweepStops(p, r) ==
    /\ host[p] = "sweeping" /\ r \in listed[p]
    /\ IF container[r] = "none" THEN NoFault ELSE Fault
    /\ EndSweep(p, listed[p])
    /\ UNCHANGED <<dkRun, dkResult, Host, cut, dkStarts>>

SweepEnds(p) ==
    /\ host[p] = "sweeping" /\ listed[p] = {}
    /\ EndSweep(p, {})
    /\ UNCHANGED <<dkRun, dkResult, Host, cut, dkStarts, dkFaults>>

CrashHost(p) ==
    /\ host[p] # "down"
    /\ host' = [host EXCEPT ![p] = "down"]
    /\ listed' = [listed EXCEPT ![p] = {}]
    /\ dkRun' = [r \in DockerRuns |-> IF HostOf[r] = p /\ DkInFlight(r) THEN [NoDkRun EXCEPT !.at = "lost"]
                                      ELSE dkRun[r]]
    /\ UNCHANGED <<dkResult, Host, cut, stray, dkStarts, dkFaults>>

DkStep(r) ==
    \/ Begin(r) \/ TimeIsUp(r) \/ WriteList(r) \/ CallFails(r) \/ Pull(r)
    \/ \E how \in {"built", "failed", "unread"} : BuildImage(r, how)
    \/ \E works \in BOOLEAN : CreateContainer(r, works)
    \/ StartContainer(r) \/ StartsNothing(r) \/ Wait(r)
    \/ \E ended \in {"well", "badly"} : ReadLogs(r, ended)
    \/ \E what \in {"container", "image", "wordlist"}, works \in BOOLEAN : Undo(r, what, works)
    \/ FinishRun(r)
DkNext ==
    \/ \E r \in DockerRuns : DkStep(r) \/ Exit(r)
    \/ \E p \in DockerHosts :
         \/ StartHost(p) \/ SweepEnds(p) \/ CrashHost(p)
         \/ \E r \in DockerRuns : SweepOne(p, r) \/ SweepStops(p, r)

DkSpec == DkInit /\ [][DkNext]_DkVars

(***************************************************************************)
(* Properties                                                              *)
(***************************************************************************)

DkTypeOK ==
    /\ host \in [DockerHosts -> {"down", "sweeping", "up"}]
    /\ listed \in [DockerHosts -> SUBSET DockerRuns]
    /\ \A r \in DockerRuns :
         /\ dkRun[r].undo \subseteq {"container", "image", "wordlist"}
         /\ dkRun[r].context \in {"live", "over"}
         /\ dkResult[r] \in {"none", "complete", "timedout", "error"}
         /\ container[r] \in {"none", "created", "running", "exited", "killed"}
    /\ images \cup wordlists \cup cut \cup stray \subseteq DockerRuns
    /\ dkStarts \in 0 .. MaxDkStarts /\ dkFaults \in 0 .. MaxDkFaults

\* A run removes its container, its image and its list of words before it is
\* over, also when its time is up; what stays is what a call that failed left, or
\* a process that died: and then never the container of a script once every
\* process has started again. ("so a crashed or timed-out run never leaks a
\* container": adapters/dockerx/client.go)
NothingLeftOnTheHost ==
    \A r \in DockerRuns \ stray :
        LET left == container[r] # "none" \/ r \in images \/ r \in wordlists
        IN /\ dkRun[r].at = "done" => ~left
           /\ (\A p \in DockerHosts : host[p] = "up") /\ dkRun[r].at = "lost" /\ KindOf[r] = "script"
                => container[r] = "none"

\* What a run returns as complete is what its tool had to say by its own end: not
\* of one that still runs because asking for it failed, or its time was up, and
\* not of one killed under it, unless another process started meanwhile.
\* (adapters/sandbox, trivy, sonarqube)
CompleteMeansEnded ==
    \A r \in DockerRuns : dkResult[r] = "complete" /\ "container" \in dkRun[r].undo =>
        container[r] = "exited" \/ r \in cut

HostKeptClean == NothingLeftOnTheHost /\ CompleteMeansEnded
=============================================================================
