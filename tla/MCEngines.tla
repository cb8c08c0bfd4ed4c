------------------------------ MODULE MCEngines ------------------------------
(***************************************************************************)
(* The engines at work, and the Docker host some of their tools run on.    *)
(* They share no state, so a behaviour is one of one of them: part says    *)
(* which, and the others stand still.                                      *)
(*                                                                         *)
(* What they are given (checkouts, manifests, workflows, documents,        *)
(* answers of the language model, commits and images) is little, but such  *)
(* that what an engine has to tell apart is there: each section says what  *)
(* its samples have that a plain one has not.                              *)
(***************************************************************************)
EXTENDS Dependencies, Kubernetes, Reviews, Docker, Scanners, PentestTools, TLC

CONSTANTS d1, d2, p1, p2, tool, analyse, build

(***************************************************************************)
(* Dependencies: a package both declared and locked, one that only the     *)
(* lockfile has, one name in two ecosystems, a manifest that does not      *)
(* parse, two secrets on lines of the same name                            *)
(***************************************************************************)

Locks == {[name |-> "lib", number |-> "1"], [name |-> "sub", number |-> "2"]}
Declares(dir, eco, lock) ==
    [dir |-> dir, eco |-> eco, noise |-> FALSE, text |-> "ok", lock |-> lock,
     direct |-> ("lib" :> <<"^", "1">>), locked |-> IF lock = "none" THEN {} ELSE Locks]
LocksOne(m) == [m EXCEPT !.locked = {[name |-> "lib", number |-> "1"]}]
Password(value) ==
    [name |-> "password", value |-> value, quoted |-> TRUE, byName |-> TRUE, placeholder |-> FALSE]
Settings ==
    [path |-> "x", kind |-> "plain", noise |-> FALSE, readable |-> TRUE, binary |-> FALSE,
     lines |-> {Password("a"), Password("b")}]
Holds(manifests) == [walkable |-> TRUE, manifests |-> manifests, files |-> {Settings}]

SomeCheckouts ==
    {Holds({Declares("web", "npm", "ok")}),
     Holds({LocksOne(Declares("web", "npm", "old")), LocksOne(Declares("app", "composer", "ok"))}),
     Holds({Declares("web", "pypi", "none"), [Declares("svc", "go", "ok") EXCEPT !.text = "bad"]})}

About(eco, name, numbers, fixedIn) ==
    [eco |-> eco, name |-> name, numbers |-> numbers, fixedIn |-> fixedIn]
SomeAdvisories ==
    ("g1" :> About("npm", "lib", {"1"}, {})) @@
    ("g2" :> About("npm", "sub", {"2"}, {"lib"})) @@
    ("g3" :> About("npm", "lib", {"1", "2"}, {"lib"})) @@
    ("g4" :> About("composer", "lib", {"1", "2"}, {"lib"}))

(***************************************************************************)
(* Kubernetes: one workload in two overlays, an init container that may do *)
(* more than the others, a chart whose policy and account come after the   *)
(* workload, charts in charts                                              *)
(***************************************************************************)

Safe(name) ==
    [name |-> name, init |-> FALSE, image |-> "app", digest |-> TRUE, privileged |-> "unset",
     privEsc |-> "false", runAsNonRoot |-> "unset", runAsUser |-> "unset", adds |-> {},
     dropsAll |-> TRUE, readOnly |-> "true", limits |-> TRUE, probed |-> TRUE, seccomp |-> FALSE,
     envFrom |-> <<>>]
Described(kind, name, spec) ==
    [apiVersion |-> TRUE, kind |-> kind, namespace |-> "", name |-> name, typed |-> TRUE,
     spec |-> spec]
Web(containers) ==
    Described("Deployment", "web",
        [hostNetwork |-> FALSE, hostPID |-> FALSE, hostIPC |-> FALSE, volumes |-> <<>>,
         account |-> "", token |-> "unset", runAsNonRoot |-> "true", runAsUser |-> "other",
         seccomp |-> TRUE, containers |-> containers])
YAML(path, documents) ==
    [path |-> path, under |-> {}, noise |-> FALSE, readable |-> TRUE, text |-> "ok",
     documents |-> documents]
Template(name, document) ==
    [name |-> name, helper |-> FALSE, text |-> "ok", documents |-> <<document>>]
Chart(dir, templates) ==
    [dir |-> dir, vendoredBy |-> {}, noise |-> FALSE, loads |-> TRUE, declared |-> {},
     vendored |-> {}, renders |-> TRUE, templates |-> templates]

Account(token) == Described("ServiceAccount", "default", [token |-> token])
Policy ==
    Described("NetworkPolicy", "deny",
        [policyTypes |-> {"Egress"}, egress |-> <<[to |-> TRUE, ports |-> FALSE],
                                                  [to |-> FALSE, ports |-> FALSE]>>])
AnyRole ==
    [verbs |-> {"*", "bind", "get", "create"}, apiGroups |-> {""},
     resources |-> {"pods", "roles", "secrets", "pods/exec"}]
ForAdmins ==
    [roleRef |-> <<"ClusterRole", "cluster-admin">>,
     subjects |-> <<<<"User", "default">>, <<"ServiceAccount", "default">>>>]
Init(more) == [more EXCEPT !.init = TRUE]

Overlays ==
    [walkable |-> TRUE, charts |-> <<>>,
     files |-> <<YAML("dev", <<Web({Safe("app"), Init([Safe("up") EXCEPT !.adds = {"SYS_ADMIN", "KILL"}])})>>),
                 YAML("prod", <<Web({Safe("app")}), Account("false"), Policy>>),
                 [YAML("odd", <<>>) EXCEPT !.text = "templated"],
                 [YAML("odder", <<>>) EXCEPT !.text = "bad"]>>]
InitAsRoot ==
    [walkable |-> TRUE, charts |-> <<>>,
     files |-> <<YAML("web",
         <<Web({Safe("app"), Init([Safe("up") EXCEPT !.runAsUser = "root"])}),
           Described("ClusterRole", "all", [rules |-> <<AnyRole>>]),
           Described("RoleBinding", "all", ForAdmins),
           Described("Service", "web", [type |-> "NodePort", sourceRanges |-> {}]),
           Described("Secret", "key", [data |-> {}, stringData |-> {"key"}])>>)>>]
WithCharts(templates) ==
    [walkable |-> TRUE,
     charts |-> <<Chart("web", templates), [Chart("web/charts/db", {}) EXCEPT !.vendoredBy = {"web"}],
                  [Chart("x", {}) EXCEPT !.declared = {"db"}]>>,
     files |-> <<[YAML("web/crds", <<Web({})>>) EXCEPT !.under = {"web"}]>>]
Ordered ==
    WithCharts({Template("web", Web({[Safe("app") EXCEPT !.privileged = "true"]})),
                Template("net", Policy), Template("account", Account("false"))})
DescribedTwice ==
    WithCharts({Template("web", Web({Safe("app")})),
                Template("a", Account("false")), Template("b", Account("true"))})
SomeManifests ==
    {Overlays, InitAsRoot, Ordered, DescribedTwice, [Overlays EXCEPT !.walkable = FALSE]}

(***************************************************************************)
(* Reviews: a workflow that does not parse between two that do, rules that *)
(* fire near what the model points at, uploaded documents and those of the *)
(* repository, more than the cap; answers that echo, that are too long and *)
(* that name a rule nobody has                                             *)
(***************************************************************************)

RunStep(name, patterns, line) ==
    [name |-> name, uses |-> [form |-> "none", org |-> "", action |-> "", ref |-> ""],
     run |-> patterns, with |-> "", secretInIf |-> FALSE, writes |-> FALSE, line |-> line]
UsesStep(org, action, ref, with, line) ==
    [RunStep("", {}, line) EXCEPT
        !.uses = [form |-> "action", org |-> org, action |-> action, ref |-> ref], !.with = with]
WorkflowJob(id, steps, line) ==
    [id |-> id, steps |-> steps, line |-> line, permissions |-> NoPermissions,
     runsOn |-> {"hosted"}, container |-> "none", uses |-> FALSE, inherit |-> FALSE]
Workflow(path, triggers, jobs) ==
    [path |-> path, readable |-> TRUE, text |-> "ok", triggers |-> triggers,
     permissions |-> [NoPermissions EXCEPT !.present = TRUE, !.contents = "write"],
     namesDownload |-> FALSE, jobs |-> jobs]
Ci ==
    Workflow("ci", {"pull_request"},
        {WorkflowJob("build", {UsesStep("actions", "checkout", "sha", "", 12),
                               RunStep("", {"echo secret"}, 14)}, 10),
         [WorkflowJob("own", {}, 20) EXCEPT !.runsOn = {"own"}]})
Release ==
    [Workflow("release", {"pull_request_target", "workflow_run"},
        {WorkflowJob("build", {UsesStep("actions", "checkout", "v4", "head ref", 12),
                               UsesStep("acme", "x", "v4", "", 13)}, 10),
         [WorkflowJob("deploy", {[RunStep("push", {"npm install"}, 40) EXCEPT !.writes = TRUE]}, 30)
            EXCEPT !.container = "tag"]})
     EXCEPT !.permissions = NoPermissions, !.namesDownload = TRUE]
Document(path, dir) ==
    [path |-> path, dir |-> dir, excluded |-> FALSE, generated |-> FALSE, isText |-> TRUE,
     readable |-> TRUE]
ToReview ==
    [listed |-> TRUE, workflows |-> <<Ci, [Ci EXCEPT !.path = "bad", !.text = "bad"], Release>>,
     documents |-> <<Document("README.md", "root"), Document("docs/a", "docs"),
                     Document("src/b", "src")>>,
     uploaded |-> <<Document("up1", ""), Document("up2", "")>>]
SomeRepositories ==
    {ToReview, [ToReview EXCEPT !.listed = FALSE],
     [ToReview EXCEPT !.workflows = <<>>, !.documents = <<>>, !.uploaded = <<>>]}

Says(rule, hint, title) == [rule |-> rule, hint |-> hint, title |-> title]
AnswerOf(findings) == [shape |-> "filled", echo |-> FALSE, oversize |-> FALSE, findings |-> findings]
Echo == [AnswerOf({Says("q", 0, "a")}) EXCEPT !.echo = TRUE, !.oversize = TRUE]
SomeAnswers ==
    {NoAnswer, AnswerOf({}), AnswerOf({Says("q", 0, "a"), Says("z", 13, "a"), Says("d", 25, "b")}),
     Echo, [AnswerOf({}) EXCEPT !.shape = "bad"], [AnswerOf({}) EXCEPT !.oversize = TRUE]}

(***************************************************************************)
(* Scanners: one issue in two lines, one hotspot in two files, a commit    *)
(* without sources; Dockerfiles that cannot be read, that no build can do  *)
(* and whose last stage comes from others, one alias used twice, one in a  *)
(* skipped directory, alone and before others                              *)
(***************************************************************************)

Issue(rule, path, text, line) == [rule |-> rule, path |-> path, text |-> text, line |-> line]
Commit(issues, hotspots, dockerfiles) ==
    [sources |-> TRUE, issues |-> issues, hotspots |-> hotspots, dockerfiles |-> dockerfiles]
SomeCommits ==
    <<Commit({Issue("S1", "a", "sql", 1), Issue("S1", "a", "sql", 9)},
             {Issue("S2", "a", "rnd", 1), Issue("S2", "b", "rnd", 1)}, <<>>),
      Commit({Issue("S3", "b", "xss", 3)}, {Issue("S2", "b", "rnd", 1)}, <<>>),
      [Commit({}, {}, <<>>) EXCEPT !.sources = FALSE]>>

Stage(from, as) == [from |-> from, as |-> as]
Dockerfile(path, stages) ==
    [path |-> path, skipped |-> FALSE, readable |-> TRUE, size |-> 1, builds |-> "root",
     stages |-> stages, misconfigured |-> {<<"DS002", path, "root">>},
     inImage |-> {<<"CVE", "openssl", "1">>, <<"CVE", "libssl", "1">>}]
Api == Dockerfile("api", <<Stage("golang", "build"), Stage("alpine", "base"), Stage("base", "")>>)
OnScratch == [Dockerfile("web", <<Stage("node", "build"), Stage("scratch", "")>>) EXCEPT !.builds = "own"]
ByArgument == [Dockerfile("nop", <<Stage("$ARG", "build"), Stage("build", "")>>) EXCEPT !.builds = "nowhere"]
Unreadable == [Dockerfile("x", <<>>) EXCEPT !.readable = FALSE]
SkippedOne == [Dockerfile("vendor", <<>>) EXCEPT !.skipped = TRUE]
AliasTwice ==
    Dockerfile("tw", <<Stage("golang", "a"), Stage("a", "b"), Stage("alpine", "a"), Stage("b", "c"),
                       Stage("c", "")>>)
OnUnknown == Dockerfile("odd", <<Stage("nowhere", "")>>)
Containers(dockerfiles) == Commit({}, {}, dockerfiles)
SomeContainers ==
    <<Containers(<<SkippedOne, Api, OnScratch>>), Containers(<<OnScratch, Unreadable>>),
      Containers(<<ByArgument>>), Containers(<<Unreadable>>), Containers(<<AliasTwice>>),
      Containers(<<OnUnknown>>), Containers(<<Api, OnScratch, Api, OnScratch>>), Containers(<<SkippedOne>>)>>
SomeImages ==
    [base |-> {}, alpine |-> {<<"CVE2", "musl", "1">>}, golang |-> {<<"CVE3", "go", "1">>}, node |-> {}]

SomeRules == <<"DEP1", "S1">>

\* The commits of the code engine, then those of the container engine
FirstContainers == Len(SomeCommits) + 1
AllCommits == SomeCommits \o SomeContainers

(***************************************************************************)
(* Pentests: a server with TLS beside one on an unusual port, which only   *)
(* its answers tell to be HTTP, a path only crawls know, a path that two   *)
(* tools hit, names that may not be scanned; two with TLS of which nmap    *)
(* takes one for a server; a host without any; and nothing                 *)
(***************************************************************************)

PortAt(number, guess, service) ==
    [number |-> number, guess |-> guess, service |-> service, answers |-> TRUE, usual |-> TRUE,
     weak |-> {}, missing |-> {}, cors |-> FALSE, methods |-> FALSE, vulns |-> {}]
Serves(n, path, kind, lists) == [url |-> <<n, path>>, kind |-> kind, lists |-> lists]
Named(name, under, public) ==
    [name |-> name, under |-> under, sensitive |-> name = "vpn", public |-> public]
Matching(id, category, presets, base, at) ==
    [id |-> id, category |-> category, presets |-> presets, base |-> base, at |-> at]
AtEveryPreset == {"stealth", "standard", "deep"}

NothingThere ==
    [ports |-> <<>>, served |-> {}, links |-> <<>>, archived |-> <<>>, words |-> <<>>,
     passive |-> {}, brute |-> {}, templates |-> {}]
WithTLS ==
    [PortAt(443, "https", "https") EXCEPT
        !.weak = {"protocol"}, !.missing = {"hsts"}, !.vulns = {"CVE"}, !.methods = TRUE]
OddPort == [PortAt(9000, "cslistener", "http") EXCEPT !.usual = FALSE, !.missing = {"csp"}]
TwoServers ==
    [ports     |-> <<WithTLS, OddPort>>,
     served    |-> {Serves(443, "env", "env", {"curated"}), Serves(443, "old", "backup", {}),
                    Serves(443, "admin", "page", {"default-admin-paths"})},
     links     |-> <<<<443, "">>, <<443, "old">>, <<9000, "old">>>>,
     archived  |-> <<<<443, "old">>>>,
     words     |-> <<"team">>,
     passive   |-> {Named("vpn", TRUE, TRUE), Named("other", FALSE, TRUE)},
     brute     |-> {Named("vpn", TRUE, TRUE), Named("intra", TRUE, FALSE)},
     templates |->
        {Matching("t1", "exposures", AtEveryPreset, <<443, "old">>, <<443, "old">>),
         Matching("t2", "cves", AtEveryPreset, <<443, "">>, <<443, "env">>),
         Matching("t3", "default-logins", {"standard", "deep"}, <<9000, "">>, <<9000, "">>)}]
TwoWithTLS ==
    [NothingThere EXCEPT
        !.ports = <<[PortAt(8443, "https-alt", "https") EXCEPT !.weak = {"cipher"}],
                    [PortAt(9443, "tungsten", "ssl") EXCEPT !.weak = {"protocol"}, !.cors = TRUE]>>]
OnlySSH ==
    [NothingThere EXCEPT !.ports = <<[PortAt(22, "ssh", "ssh") EXCEPT !.answers = FALSE]>>,
                         !.archived = <<<<22, "old">>>>]
SomeSites == {TwoServers, TwoWithTLS, OnlySSH, NothingThere}

Configured(preset, tier, subdomains, categories) ==
    [preset |-> preset, tier |-> tier, subdomains |-> subdomains, categories |-> categories]
SomeConfigs ==
    {Configured("stealth", "small", FALSE, <<"exposures", "misconfiguration">>),
     Configured("standard", "medium", TRUE, <<"exposures", "misconfiguration", "cves">>),
     Configured("deep", "large", TRUE,
                <<"exposures", "misconfiguration", "cves", "default-logins">>)}
SomeCaps == [small |-> 1, medium |-> 1, large |-> 2]

(***************************************************************************)
(* Docker: two of a pentest's tool and a scanner, which one process runs,  *)
(* and the scan of an image that another builds                            *)
(***************************************************************************)

OneOfAKind == (tool :> "script") @@ (analyse :> "scanner") @@ (build :> "image")
OnTwoHosts == (tool :> p1) @@ (analyse :> p1) @@ (build :> p2)

-----------------------------------------------------------------------------
VARIABLE part

EnVars == <<DsVars, K8Vars, RvVars, SnVars, DkVars, PtlVars, part>>

EnInit ==
    /\ part \in {"dependencies", "manifests", "pipelines", "documents", "analyses", "images",
                 "docker", "pentest"}
    /\ DsInit /\ K8Init /\ RvInit /\ SnInit /\ DkInit /\ PtlInit
    /\ part # "pentest" => ptSite = NothingThere /\ ptConfig.preset = "stealth"
    /\ part \notin {"pipelines", "documents"} => aiConfigured
    /\ part \notin {"analyses", "images"} => backend = "docker"
    /\ IF part = "images" THEN tip >= FirstContainers ELSE tip = 1

\* The code engine's commits come one after the other, with what SonarQube and
\* its users do meanwhile; the container engine has any of its own, and one scan,
\* with the catalogue beside it.
Analyses ==
    \/ \E s \in WrappedScans : CodeStep(s)
    \/ \E how \in {"success", "failed"} : Process(how)
    \/ ReviewHotspot
    \/ Push /\ tip' < FirstContainers
Images == CatalogueStep \/ ImageStep(d1)

TwoRuns == DkNext /\ \E r \in DockerRuns : dkRun'[r] = NoDkRun

EnNext ==
    /\ part' = part
    /\ \/ part = "dependencies" /\ DsNext /\ UNCHANGED <<K8Vars, RvVars, SnVars, DkVars, PtlVars>>
       \/ part = "manifests" /\ K8Next /\ UNCHANGED <<DsVars, RvVars, SnVars, DkVars, PtlVars>>
       \/ part = "pipelines" /\ (\E s \in ReviewedScans : PipelineStep(s))
          /\ UNCHANGED <<DsVars, K8Vars, SnVars, DkVars, PtlVars>>
       \/ part = "documents" /\ (\E s \in ReviewedScans : DocumentStep(s))
          /\ UNCHANGED <<DsVars, K8Vars, SnVars, DkVars, PtlVars>>
       \/ part = "analyses" /\ Analyses /\ UNCHANGED <<DsVars, K8Vars, RvVars, DkVars, PtlVars>>
       \/ part = "images" /\ Images /\ UNCHANGED <<DsVars, K8Vars, RvVars, DkVars, PtlVars>>
       \/ part = "docker" /\ TwoRuns /\ UNCHANGED <<DsVars, K8Vars, RvVars, SnVars, PtlVars>>
       \/ part = "pentest" /\ PtlNext /\ UNCHANGED <<DsVars, K8Vars, RvVars, SnVars, DkVars>>

EnSpec == EnInit /\ [][EnNext]_EnVars

\* Every variable of the six has its type.
EnginesTypeOK == DsTypeOK /\ K8TypeOK /\ RvTypeOK /\ SnTypeOK /\ DkTypeOK /\ PtlTypeOK

\* What engines make of the tools they wrap is what is there: two scans that share
\* SonarQube (codescan) and image scans report what was so while they ran, a
\* pentest loses to a tool that fails or is cut short only what rests on it, and
\* says what it covered.
ToolsReportWhatIsThere == ScannersReportWhatIsThere /\ ToolsLoseOnlyTheirOwn /\ CoverageTellsAll
=============================================================================
