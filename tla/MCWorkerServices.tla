-------------------------- MODULE MCWorkerServices --------------------------
(***************************************************************************)
(* What goes on in a worker process but for the jobs themselves: how it    *)
(* comes up and goes down, the clones they share, the sandboxes their      *)
(* tools run in, a pentest and what is kept of it, the scores, the         *)
(* schedules and the outbox.  They share no state, so a behaviour is one   *)
(* of one of them: part says which, and the others stand still.            *)
(***************************************************************************)
EXTENDS Workspace, Sandboxes, WorkerReplicas, Pentest, PentestRecords, Scoring, TLC

CONSTANTS j1, j2, j3, j4, c1, c2, w1, w2, m1, m2, script, scan,
          root, backup, dump, intranet, www, code, pentest,
          early, late, s1, s2, p1, p2, o1, o2, cipher, csp, rotate

ThreeAndOne == (j1 :> c1) @@ (j2 :> c1) @@ (j3 :> c1) @@ (j4 :> c2)
OnTheFirst == [r \in {script, scan} |-> w1]

\* What the stages of a pentest can come by: two files of one kind on a port,
\* two ports with weak TLS and with headers missing, and what nuclei matches at a
\* file or, without any, at the root.
At443(by, rule, scope, url) ==
    [by |-> by, rule |-> rule, scope |-> scope, port |-> 443, url |-> url, base |-> url]
PentestFindings ==
    LET tls    == At443("fingerprint", "tls.weak-cipher", "per_host_port", root)
        header == At443("headers", "headers.csp-missing", "per_scan", root)
    IN {[At443("asset_discovery", "recon.subdomains", "per_scan", root) EXCEPT !.port = 0],
        At443("directory_enum", "disclosure.backup", "per_endpoint", backup),
        At443("directory_enum", "disclosure.backup", "per_endpoint", dump),
        tls, [tls EXCEPT !.port = 8443], header, [header EXCEPT !.port = 8443],
        [At443("nuclei", "nuclei.exposure", "per_endpoint", backup) EXCEPT !.port = 0],
        [At443("nuclei", "nuclei.exposure", "per_endpoint", root) EXCEPT !.port = 0]}

\* What two replicas may be started with: one does everything and migrates, or is
\* refused; the other is a worker or an api of the Kubernetes deployment, or is
\* refused for another reason.
SettingsOfTwo ==
    LET alone  == [role |-> "all", migrate |-> TRUE, secrets |-> "good", ai |-> "on",
                   backend |-> "docker", image |-> FALSE, billing |-> "demo", mail |-> "off",
                   address |-> TRUE, pace |-> TRUE]
        worker == [alone EXCEPT !.role = "worker", !.migrate = FALSE, !.backend = "kubernetes",
                                !.image = TRUE, !.mail = "ses", !.billing = "off", !.ai = "off"]
    IN (w1 :> {alone, [alone EXCEPT !.secrets = "short"], [alone EXCEPT !.ai = "keyless"],
               [alone EXCEPT !.role = "other"]})
    @@ (w2 :> {worker, [worker EXCEPT !.role = "api", !.migrate = TRUE],
               [worker EXCEPT !.image = FALSE], [worker EXCEPT !.address = FALSE],
               [worker EXCEPT !.billing = "stripe"]})

\* Findings of two engines, up to where the weighted score passes a floor.
FindingsOfTwo ==
    (code :> [secret |-> 1, critical |-> 3, high |-> 4, medium |-> 0, low |-> 0]) @@
    (pentest :> [secret |-> 0, critical |-> 1, high |-> 0, medium |-> 1, low |-> 0])
WeightsOfTwo == (code :> 22) @@ (pentest :> 8)

\* Two runs of one scan, or of two scans of an organisation; who asks may see
\* both, the second alone, or neither.
ScansOfRuns  == (early :> {s1}) @@ (late :> {s1, s2})
ProjectOfTwo == (s1 :> p1) @@ (s2 :> p2)
OneOrg       == (p1 :> o1) @@ (p2 :> o1)
ThreeActors  == [org : {o1}, project : {AnyProject, p2}] \cup [org : {o2}, project : {AnyProject}]

\* What two runs come by: names that are validated or not, ports with and without
\* a service, a path found twice, a critical group that two signals disagree on;
\* and a single port with nothing to say of it.
GroupOf(id, family, severity, conflicting) ==
    [id |-> id, family |-> family, severity |-> severity, certainty |-> "high",
     tools |-> {script}, places |-> {443}, captured |-> TRUE, conflicting |-> conflicting,
     remedy |-> rotate]
MuchAndLittle ==
    LET Name(value, validated) == [value |-> value, validated |-> validated]
        Port(port, name) == [port |-> port, name |-> name]
    IN (early :> {[assets |-> <<Name(www, TRUE), Name(intranet, FALSE)>>,
                   services |-> <<Port(443, "http"), Port(22, None)>>,
                   paths |-> <<backup, backup>>, runs |-> <<script>>,
                   groups |-> <<GroupOf(cipher, "tls", "medium", FALSE),
                                GroupOf(csp, "disclosure", "critical", TRUE)>>,
                   subdomains |-> 1, http |-> {443}]})
    @@ (late :> {[assets |-> <<>>, services |-> <<Port(443, "http")>>, paths |-> <<>>, runs |-> <<>>,
                  groups |-> <<>>, subdomains |-> 0, http |-> {443}]})

VARIABLE part

Pentests == <<PtVars, PrVars>>
MCVars == <<WsVars, SbVars, ScVars, ObVars, Pentests, SrVars, DpVars, part>>

MCInit ==
    /\ part \in {"workspace", "script", "scan", "schedules", "outbox", "pentest", "records",
                "scores", "processes"}
    /\ WsInit /\ SbInit /\ ScInit /\ ObInit /\ PtInit /\ PrInit /\ SrInit /\ DpInit
    /\ part # "scores" => \A e \in Scored : ended[e] = "succeeded"
    /\ part # "records" => \A r \in PrRuns : prRun[r].scan = s1
    /\ part # "schedules" => schedule.cron = CHOOSE c \in Crons : TRUE

\* An answer is looked at where it is given: it does not change any more. Two runs
\* of one scan go on together, the run of another scan follows.
Records ==
    /\ IF prAsk.at \in {"answered", "refused"} THEN Answered ELSE PrNext
    /\ prRun[early].at = "over" \/ prRun[early].scan = prRun[late].scan
       \/ prRun'[late] = prRun[late]

MCNext ==
    /\ part' = part
    /\ \/ /\ part = "workspace" /\ WsNext
          /\ UNCHANGED <<SbVars, ScVars, ObVars, Pentests, SrVars, DpVars>>
       \/ /\ part = "script" /\ SbNext /\ run'[scan] = NotRun
          /\ UNCHANGED <<WsVars, ScVars, ObVars, Pentests, SrVars, DpVars>>
       \/ /\ part = "scan" /\ SbNext /\ run'[script] = NotRun
          /\ UNCHANGED <<WsVars, ScVars, ObVars, Pentests, SrVars, DpVars>>
       \/ /\ part = "schedules" /\ ScNext
          /\ UNCHANGED <<WsVars, SbVars, ObVars, Pentests, SrVars, DpVars>>
       \/ /\ part = "outbox" /\ ObNext
          /\ UNCHANGED <<WsVars, SbVars, ScVars, Pentests, SrVars, DpVars>>
       \/ /\ part = "pentest" /\ PtNext
          /\ UNCHANGED <<WsVars, SbVars, ScVars, ObVars, PrVars, SrVars, DpVars>>
       \/ /\ part = "records" /\ Records
          /\ UNCHANGED <<WsVars, SbVars, ScVars, ObVars, PtVars, SrVars, DpVars>>
       \/ /\ part = "scores" /\ SrNext
          /\ UNCHANGED <<WsVars, SbVars, ScVars, ObVars, Pentests, DpVars>>
       \/ /\ part = "processes" /\ DpNext
          /\ UNCHANGED <<WsVars, SbVars, ScVars, ObVars, Pentests, SrVars>>

\* Goroutines run, tickers tick and time passes; a request that may come and a
\* fault that may happen are nobody's promise.
MCFairness ==
    /\ \A j \in RepoJobs : WF_WsVars(part = "workspace" /\ WsStep(j))
    /\ \A r \in Replicas : WF_ScVars(part = "schedules" /\ ScTick(r))
    /\ \A z \in Senders : WF_ObVars(part = "outbox" /\ ObSend(z))
    /\ \A s \in FinishedScans :
         WF_ObVars(part = "outbox" /\ ObTell(s)) /\ WF_ObVars(part = "outbox" /\ ComeDue(s))

MCSpec == MCInit /\ [][MCNext]_MCVars /\ MCFairness

\* Every variable of the eight has its type.
ServicesTypeOK ==
    WsTypeOK /\ SbTypeOK /\ ScTypeOK /\ ObTypeOK /\ PtTypeOK /\ PrTypeOK /\ SrTypeOK /\ DpTypeOK

\* Whatever a worker has been asked to do besides its jobs is done some time: a
\* job waits for its clone no longer than the clone takes, a due schedule moves
\* on, a report is mailed or given up on.
ServicesDoTheirWork == NoJobWaitsForever /\ DueScheduleMovesOn /\ ReportIsMailed
=============================================================================
