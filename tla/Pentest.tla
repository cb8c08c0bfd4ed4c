------------------------------ MODULE Pentest -------------------------------
(***************************************************************************)
(* One run of the pentest engine by a worker: the stages of its pipeline   *)
(* (engines/pentest/stages), the findings they buffer, the groups the      *)
(* Correlator makes of them and Confidence emits, and what the worker      *)
(* keeps when the run is over (orchestrator/worker.go): the findings in    *)
(* findings, where a fingerprint is unique in a scan, and the read model   *)
(* that IngestScanResult writes beforehand.                                *)
(*                                                                         *)
(* A stage is an action.  A script that fails or that the configuration    *)
(* switches off is one that finds nothing, one that times out may find     *)
(* less.  All findings are about the target host; a group is the set of    *)
(* findings it was made of.                                                *)
(*                                                                         *)
(* Left out: the tools, the score of a group, the rows of the read model,  *)
(* and a job closed by somebody else while it runs (ScanLifecycle).        *)
(***************************************************************************)
EXTENDS Naturals, FiniteSets, Sequences

CONSTANTS
    Ports,       \* ports of the target
    Urls,        \* what there may be to find at the target
    Root,        \* the target itself, as a URL
    Subdomains,  \* names that may turn up
    Public,      \* those that resolve to an address that may be scanned
    Detectable   \* findings a stage can come by, with where and how they merge

Scopes == {"per_scan", "per_host", "per_host_port", "per_endpoint"}

ASSUME PentestAssumption ==
    /\ 0 \notin Ports /\ Public \subseteq Subdomains
    /\ \A f \in Detectable :
         /\ f.by \in {"asset_discovery", "directory_enum", "fingerprint", "headers", "nuclei"}
         /\ f.scope \in Scopes /\ f.port \in Ports \cup {0} /\ {f.url, f.base} \subseteq Urls \cup {Root}
    /\ \A f, g \in Detectable : f.rule = g.rule => f.scope = g.scope
    /\ \E f \in Detectable : f.by = "asset_discovery" /\ f.port = 0

VARIABLES
    stage,    \* the next stage, by its place in Pipeline
    names,    \* state.Assets: the subdomains among them
    ports,    \* state.OpenPorts, state.HTTPPorts from service_discovery on
    urls,     \* state.DiscoveredEndpoints, then ValidatedEndpoints
    found,    \* all that was ever given to state.Emit
    pending,  \* state.PendingFindings
    groups,   \* state.CorrelatedFindings
    emitted,  \* what EmitDirect has handed the worker
    fate,     \* how the run ended, as the worker sees it
    model,    \* how much of the read model has been written
    closed,   \* the job's result is committed
    stored    \* rows of findings, by the group they are about

PtVars == <<stage, names, ports, urls, found, pending, groups, emitted, fate, model, closed,
            stored>>

Pipeline == <<"target_intake", "recon", "asset_discovery", "asset_validation",
    "port_discovery", "service_discovery", "endpoint_discovery", "directory_enum",
    "endpoint_validation", "fingerprint", "vuln_detect", "correlation", "confidence",
    "evidence", "report_handoff">>

At(name) == stage <= Len(Pipeline) /\ Pipeline[stage] = name

PtTypeOK ==
    /\ stage \in 1 .. Len(Pipeline) + 1
    /\ names \subseteq Subdomains /\ ports \subseteq Ports /\ urls \subseteq Urls
    /\ found \subseteq Detectable /\ pending \subseteq found
    /\ groups \subseteq SUBSET found /\ emitted \subseteq SUBSET found /\ stored \subseteq emitted
    /\ fate \in {"running", "succeeded", "failed", "cancelled", "died"}
    /\ model \in {"none", "begun", "complete", "given up"} /\ closed \in BOOLEAN

PtInit ==
    /\ stage = 1 /\ names = {} /\ ports = {} /\ urls = {}
    /\ found = {} /\ pending = {} /\ groups = {} /\ emitted = {}
    /\ fate = "running" /\ model = "none"
    /\ closed = FALSE /\ stored = {}

(***************************************************************************)
(* The stages                                                              *)
(***************************************************************************)

\* Pipeline.Run goes from stage to stage as long as its context lives; a stage
\* that fails is skipped with what it has found so far.
EnterStage(name) ==
    /\ At(name) /\ fate = "running"
    /\ stage' = stage + 1
    /\ UNCHANGED <<fate, model, closed, stored>>

\* State.Emit: buffered for Correlation
Buffer(new) == found' = found \cup new /\ pending' = pending \cup new

\* What stages by, on the ports that answer, can find
Findable(by) == {f \in Detectable : f.by = by /\ f.port \in ports \cup {0}}

\* Stages that change nothing but the read model: intake pins addresses, port
\* discovery lists the ports of other names, evidence and the report are drawn
\* up from the groups.
PassStage(name) ==
    /\ name \in {"target_intake", "port_discovery", "evidence", "report_handoff"}
    /\ EnterStage(name)
    /\ UNCHANGED <<names, ports, urls, found, pending, groups, emitted>>

\* nmap's ports, or naabu's when nmap fails
Recon ==
    /\ EnterStage("recon")
    /\ ports' \in SUBSET Ports
    /\ UNCHANGED <<names, urls, found, pending, groups, emitted>>

\* One finding is about all names; of the others each is about one of them.
AssetDiscovery ==
    /\ EnterStage("asset_discovery")
    /\ names' \in SUBSET Subdomains
    /\ \E about \in SUBSET Findable("asset_discovery") :
         /\ (about = {}) = (names' = {})
         /\ Buffer(about)
    /\ UNCHANGED <<ports, urls, groups, emitted>>

\* Those that resolve, and to nothing that must not be scanned
AssetValidation ==
    /\ EnterStage("asset_validation")
    /\ names' \in SUBSET (names \cap Public)
    /\ UNCHANGED <<ports, urls, found, pending, groups, emitted>>

\* The open ports that speak HTTP; without any, nmap looks for itself.
ServiceDiscovery ==
    /\ EnterStage("service_discovery")
    /\ ports' \in SUBSET (IF ports = {} THEN Ports ELSE ports)
    /\ UNCHANGED <<names, urls, found, pending, groups, emitted>>

EndpointDiscovery ==
    /\ EnterStage("endpoint_discovery")
    /\ \E crawled \in SUBSET (IF ports = {} THEN {} ELSE Urls) : urls' = urls \cup crawled
    /\ UNCHANGED <<names, ports, found, pending, groups, emitted>>

\* What ffuf finds served, of which some is a finding
DirectoryEnum ==
    /\ EnterStage("directory_enum")
    /\ \E served \in SUBSET Urls :
         /\ urls' = urls \cup served
         /\ \E hits \in SUBSET {f \in Findable("directory_enum") : f.url \in served} : Buffer(hits)
    /\ UNCHANGED <<names, ports, groups, emitted>>

EndpointValidation ==
    /\ EnterStage("endpoint_validation")
    /\ urls' \in SUBSET urls
    /\ UNCHANGED <<names, ports, found, pending, groups, emitted>>

Fingerprint ==
    /\ EnterStage("fingerprint")
    /\ \E weak \in SUBSET Findable("fingerprint") : Buffer(weak)
    /\ UNCHANGED <<names, ports, urls, groups, emitted>>

\* runNuclei sweeps the endpoints that were confirmed or, without any, the root.
Swept == IF urls # {} THEN urls ELSE {Root}

\* runHeaders, runMisconfig and runNuclei
VulnDetect ==
    /\ EnterStage("vuln_detect")
    /\ \E missing \in SUBSET Findable("headers"),
          matched \in SUBSET {f \in Findable("nuclei") : f.base \in Swept} :
         Buffer(missing \cup matched)
    /\ UNCHANGED <<names, ports, urls, groups, emitted>>

(***************************************************************************)
(* Correlation and Confidence                                              *)
(* (An operator whose comment says "instead" is a plausible mistake in the *)
(* operator it precedes; only the mutants use it.)                         *)
(***************************************************************************)

\* Instead: what an endpoint is found at is its port.
DedupKeyByPort(f) ==
    IF f.scope \in {"per_host_port", "per_endpoint"} THEN <<f.port>> ELSE <<>>

\* dedupKey: all findings are about one host
DedupKey(f) ==
    CASE f.scope = "per_host_port" -> <<f.port>>
      [] f.scope = "per_endpoint"  -> <<f.url>>
      [] OTHER                     -> <<>>

\* Correlator.Merge
Merge(findings) ==
    {{g \in findings : g.rule = f.rule /\ DedupKey(g) = DedupKey(f)} : f \in findings}

Correlate ==
    /\ EnterStage("correlation")
    /\ groups' = Merge(pending) /\ pending' = {}
    /\ UNCHANGED <<names, ports, urls, found, emitted>>

\* toDomainFinding, EmitDirect: from here on the worker has the findings.
Confidence ==
    /\ EnterStage("confidence")
    /\ emitted' = groups
    /\ UNCHANGED <<names, ports, urls, found, pending, groups>>

(***************************************************************************)
(* The worker                                                              *)
(***************************************************************************)

PtKept == <<stage, names, ports, urls, found, pending, groups, emitted>>

\* What the engine had in memory goes with it; the worker has what was emitted.
DropState == names' = {} /\ ports' = {} /\ urls' = {} /\ pending' = {} /\ groups' = {}

\* Before a stage the context is found cancelled or expired, intake refuses the
\* target, or the engine panics.
EndEarly(how) ==
    /\ fate = "running" /\ stage <= Len(Pipeline) /\ how \in {"failed", "cancelled"}
    /\ fate' = how
    /\ DropState
    /\ UNCHANGED <<stage, found, emitted, model, closed, stored>>

\* The cancellation of a user counts even after the last stage.
EndOfPipeline(how) ==
    /\ fate = "running" /\ stage > Len(Pipeline) /\ how \in {"succeeded", "cancelled"}
    /\ fate' = how
    /\ DropState
    /\ UNCHANGED <<stage, found, emitted, model, closed, stored>>

\* IngestScanResult: the header, then all that refers to it; when a statement
\* fails the worker goes on without.
Ingest ==
    /\ fate = "succeeded" /\ ~closed /\ model \in {"none", "begun"}
    /\ \/ model = "none" /\ model' = "begun"
       \/ model = "begun" /\ model' = "complete"
       \/ model' = "given up"
    /\ UNCHANGED <<PtKept, fate, closed, stored>>

\* toDomainFinding: of the places of a group only host and port count.
FingerprintOf(G) ==
    LET f == CHOOSE f \in G : TRUE
    IN <<f.rule, f.scope, {g.port : g \in G}>>

\* SaveJobResult: of the findings with one fingerprint the first is kept.
Persist ==
    /\ \/ fate \in {"failed", "cancelled"}
       \/ fate = "succeeded" /\ model \in {"complete", "given up"}
    /\ ~closed
    /\ \E rows \in SUBSET emitted :
         /\ \A G \in emitted : \E H \in rows : FingerprintOf(H) = FingerprintOf(G)
         /\ \A G, H \in rows : FingerprintOf(H) = FingerprintOf(G) => G = H
         /\ closed' = TRUE /\ stored' = rows
    /\ UNCHANGED <<PtKept, fate, model>>

\* The process dies, or the transaction fails: the sweeper will close the job.
LoseRun ==
    /\ ~closed /\ fate # "died"
    /\ fate' = "died"
    /\ DropState /\ found' = {} /\ emitted' = {}
    /\ UNCHANGED <<stage, model, closed, stored>>

PtStep ==
    \/ \E n \in {"target_intake", "port_discovery", "evidence", "report_handoff"} : PassStage(n)
    \/ Recon \/ AssetDiscovery \/ AssetValidation
    \/ ServiceDiscovery
    \/ EndpointDiscovery \/ DirectoryEnum \/ EndpointValidation
    \/ Fingerprint \/ VulnDetect
    \/ Correlate \/ Confidence
    \/ \E h \in {"succeeded", "cancelled"} : EndOfPipeline(h)
    \/ Ingest \/ Persist

PtNext ==
    \/ PtStep
    \/ \E h \in {"failed", "cancelled"} : EndEarly(h)
    \/ LoseRun

PtSpec == PtInit /\ [][PtNext]_PtVars

(***************************************************************************)
(* Properties                                                              *)
(***************************************************************************)

\* Two findings are one issue: what DedupScope says of each scope
SameIssue(f, g) ==
    /\ f.rule = g.rule
    /\ f.scope = "per_host_port" => f.port = g.port
    /\ f.scope = "per_endpoint" => f.url = g.url

Issue(f) == {g \in found : SameIssue(f, g)}

PortsOf(G) == {g.port : g \in G}

\* An issue of the same rule at the same ports stands for this one.
Outdone(f) ==
    /\ Issue(f) \notin stored
    /\ \E G \in stored : PortsOf(G) = PortsOf(Issue(f)) /\ \A g \in G : g.rule = f.rule

\* When the result of a run is committed, whatever any stage came by is in one
\* row and each row is about one issue, with two exceptions. A run that ended
\* before Confidence keeps nothing, although nothing was wrong with what it had
\* found. And of two issues of a rule at the same ports, two files on one server,
\* one is kept: their groups have one fingerprint.
OneRowPerIssue ==
    closed =>
        /\ \A G \in stored : \E f \in found : G = Issue(f)
        /\ fate = "succeeded" \/ emitted # {} =>
             \A f \in found : Issue(f) \in stored \/ Outdone(f)
=============================================================================
