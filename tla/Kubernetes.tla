----------------------------- MODULE Kubernetes -----------------------------
(***************************************************************************)
(* The Kubernetes engine (engines/k8sscan): the manifests it finds in a    *)
(* checkout and renders out of its charts, and the rules it puts to them.  *)
(*                                                                         *)
(* A finding is its fingerprint: rule, normalised place, evidence.  A      *)
(* setting is "true", "false" or "unset".  A file knows the chart          *)
(* directories it is under; the checkout's own directory is not one of     *)
(* them, since only the directories below it are passed over.              *)
(*                                                                         *)
(* Left out: texts, lines, attack paths; confidence, CWE.                  *)
(***************************************************************************)
EXTENDS Naturals, Sequences

LOCAL INSTANCE SequencesExt

CONSTANTS
    K8Scans,      \* scans with a Kubernetes job
    K8Checkouts   \* what there may be to scan

VARIABLES
    k8run,   \* the state of each run
    k8rows   \* rows of findings, by scan

K8Vars == <<k8run, k8rows>>

(***************************************************************************)
(* Findings                                                                *)
(* (An operator whose comment says "instead" is a plausible mistake in the *)
(* operator it precedes; only the mutants use it.)                         *)
(***************************************************************************)

\* Rules: what is not in the catalogue panics.
K8Severity(rule) ==
    CASE rule \in {"cluster-admin-binding", "secrets-read-cluster-wide", "escalate-bind",
                   "privileged", "literal-in-manifest"} -> "critical"
      [] rule \in {"wildcard-verbs", "wildcard-resources", "wildcard-apigroups", "pod-create",
                   "impersonate", "exec-attach", "allow-priv-escalation", "runs-as-root",
                   "dangerous-capabilities", "host-network", "host-pid-ipc",
                   "hostpath-mount"} -> "high"
      [] rule \in {"default-sa-bound", "caps-not-dropped", "writable-root-fs",
                   "no-resource-limits", "automount-sa-token", "default-sa-used",
                   "mutable-image-tag", "no-networkpolicy", "allow-all-egress",
                   "nodeport-service", "loadbalancer-no-source-ranges"} -> "medium"
      [] rule = "env-from-secret-all" -> "low"
      [] rule \in {"no-probes", "psa-level"} -> "informational"

\* Wherever its file is, a resource is its kind, namespace and name.
K8NormalizedLocation(m, field) == <<m.kind, m.namespace, m.name, field>>
SensitiveHostPaths == {"/", "/etc", "/var/run/docker.sock"}

K8Finding(m, rule, field, evidence) ==
    [rule |-> rule, place |-> K8NormalizedLocation(m, field), evidence |-> evidence,
     severity |-> IF rule = "hostpath-mount" /\ evidence \in SensitiveHostPaths
                  THEN "critical" ELSE K8Severity(rule)]

\* The findings of the checks that fired: pairs of a condition and a finding
Fired(checks) == {c[2] : c \in {c \in checks : c[1]}}

(***************************************************************************)
(* Workloads                                                               *)
(***************************************************************************)

IsWorkload(m) ==
    m.typed /\ m.kind \in {"Pod", "Deployment", "StatefulSet", "DaemonSet", "ReplicaSet",
                           "Job", "CronJob"}

DangerousCapabilities == {"SYS_ADMIN", "NET_ADMIN", "SYS_PTRACE", "SYS_MODULE"}
AddedDangerousCapabilities(c) == c.adds \cap DangerousCapabilities

\* A container's own setting goes before the pod's.
RunsAsRoot(m, c) ==
    LET Effective(field) == IF c[field] # "unset" THEN c[field] ELSE m.spec[field]
    IN Effective("runAsUser") = "root" \/ Effective("runAsNonRoot") # "true"

\* The token is mounted unless the pod says not or else the first account of its
\* name in its namespace that says anything; "" is a namespace of its own.
EffectiveAutomountToken(graph, m) ==
    LET name == IF m.spec.account = "" THEN "default" ELSE m.spec.account
        said == {i \in DOMAIN graph :
                   /\ graph[i].kind = "ServiceAccount" /\ graph[i].typed
                   /\ graph[i].namespace = m.namespace /\ graph[i].name = name
                   /\ graph[i].spec.token # "unset"}
    IN IF m.spec.token # "unset" THEN m.spec.token = "true"
       ELSE said # {} => graph[CHOOSE i \in said : \A k \in said : i <= k].spec.token = "true"

PodLevelFindings(graph, m) ==
    LET p == m.spec
        F(rule, field, evidence) == K8Finding(m, rule, field, evidence)
    IN Fired({<<p.hostNetwork, F("host-network", "hostNetwork", "true")>>,
              <<p.hostPID \/ p.hostIPC, F("host-pid-ipc", "spec", <<p.hostPID, p.hostIPC>>)>>,
              <<EffectiveAutomountToken(graph, m),
                F("automount-sa-token", "automountServiceAccountToken", "not disabled")>>,
              <<p.account \in {"", "default"},
                F("default-sa-used", "serviceAccountName", "default")>>})
       \cup {F("hostpath-mount", <<"volumes", i>>, p.volumes[i]) :
               i \in {i \in DOMAIN p.volumes : p.volumes[i] # "none"}}

ContainerLevelFindings(m, c) ==
    LET F(rule, field, evidence) == K8Finding(m, rule, <<c.name, field>>, evidence)
    IN Fired({<<c.privileged = "true", F("privileged", "privileged", "true")>>,
              <<c.privEsc # "false",
                F("allow-priv-escalation", "allowPrivilegeEscalation", "not false")>>,
              <<RunsAsRoot(m, c), F("runs-as-root", "runAsNonRoot", "not enforced")>>,
              <<AddedDangerousCapabilities(c) # {},
                F("dangerous-capabilities", "add", AddedDangerousCapabilities(c))>>,
              <<~c.dropsAll, F("caps-not-dropped", "drop", "does not include ALL")>>,
              <<c.readOnly # "true", F("writable-root-fs", "readOnlyRootFilesystem", "not true")>>,
              <<~c.limits, F("no-resource-limits", "limits", "unset")>>,
              <<~c.digest, F("mutable-image-tag", "image", c.image)>>,
              <<~c.probed, F("no-probes", "", "neither configured")>>})

AllContainers(p) == p.containers

HasRuntimeDefaultSeccomp(p) == p.seccomp \/ \E c \in p.containers : ~c.init /\ c.seccomp

EvaluatePSS(m) ==
    LET p == m.spec
        all == AllContainers(p)
        baseline ==
            /\ ~p.hostNetwork /\ ~p.hostPID /\ ~p.hostIPC
            /\ \A i \in DOMAIN p.volumes : p.volumes[i] = "none"
            /\ \A c \in all : c.privileged # "true" /\ AddedDangerousCapabilities(c) = {}
        restricted ==
            /\ \A c \in all : c.privEsc = "false" /\ ~RunsAsRoot(m, c) /\ c.dropsAll
            /\ HasRuntimeDefaultSeccomp(p)
    IN IF ~baseline THEN "privileged" ELSE IF ~restricted THEN "baseline" ELSE "restricted"

PsaLevelFinding(m) == K8Finding(m, "psa-level", "psa-level", EvaluatePSS(m))

EvaluateWorkload(graph) ==
    UNION {PodLevelFindings(graph, m) \cup {PsaLevelFinding(m)} \cup
           UNION {ContainerLevelFindings(m, c) : c \in m.spec.containers} :
               m \in {graph[i] : i \in {i \in DOMAIN graph : IsWorkload(graph[i])}}}

(***************************************************************************)
(* Roles, bindings, networks and secrets                                   *)
(***************************************************************************)

EvaluatePolicyRule(m, i) ==
    LET r == m.spec.rules[i]
        F(rule, field, evidence) == K8Finding(m, rule, <<i, field>>, evidence)
    IN Fired({<<"*" \in r.verbs, F("wildcard-verbs", "verbs", r.verbs)>>,
              <<"*" \in r.resources, F("wildcard-resources", "resources", r.resources)>>,
              <<"*" \in r.apiGroups, F("wildcard-apigroups", "apiGroups", r.apiGroups)>>,
              <<m.kind = "ClusterRole" /\ "secrets" \in r.resources
                  /\ r.verbs \cap {"get", "list", "watch"} # {},
                F("secrets-read-cluster-wide", "", r.verbs)>>,
              <<"pods" \in r.resources /\ "create" \in r.verbs,
                F("pod-create", "", "create pods")>>,
              <<r.resources \cap {"roles", "clusterroles"} # {}
                  /\ r.verbs \cap {"escalate", "bind"} # {},
                F("escalate-bind", "", r.verbs)>>,
              <<"impersonate" \in r.verbs, F("impersonate", "", "impersonate")>>,
              <<r.resources \cap {"pods/exec", "pods/attach"} # {} /\ "create" \in r.verbs,
                F("exec-attach", "", r.resources)>>})

ClusterAdminBinding(m) ==
    Fired({<<m.spec.roleRef = <<"ClusterRole", "cluster-admin">>,
             K8Finding(m, "cluster-admin-binding", "roleRef", "cluster-admin")>>})

\* Only the first of the subjects
DefaultSABound(m) ==
    LET bound == {i \in DOMAIN m.spec.subjects :
                    m.spec.subjects[i] = <<"ServiceAccount", "default">>}
    IN {K8Finding(m, "default-sa-bound", <<"subjects", i>>, "default") :
          i \in {i \in bound : \A k \in bound : i <= k}}

OfKinds(graph, kinds) ==
    {graph[i] : i \in {i \in DOMAIN graph : graph[i].typed /\ graph[i].kind \in kinds}}

EvaluateRBAC(graph) ==
    UNION {UNION {EvaluatePolicyRule(m, i) : i \in DOMAIN m.spec.rules} :
             m \in OfKinds(graph, {"Role", "ClusterRole"})}
    \cup UNION {ClusterAdminBinding(m) \cup DefaultSABound(m) :
                  m \in OfKinds(graph, {"RoleBinding", "ClusterRoleBinding"})}

\* Instead: those that have come up before the workload.
NetworkPoliciesSoFar(graph, m) ==
    LET at == CHOOSE i \in DOMAIN graph : graph[i] = m
    IN {n \in OfKinds(SubSeq(graph, 1, at), {"NetworkPolicy"}) : n.namespace = m.namespace}
\* networkPoliciesFor: the graph is whole before any rule is put to it.
NetworkPoliciesFor(graph, m) ==
    {n \in OfKinds(graph, {"NetworkPolicy"}) : n.namespace = m.namespace}

NoNetworkPolicy(graph, m) ==
    Fired({<<NetworkPoliciesFor(graph, m) = {},
             K8Finding(m, "no-networkpolicy", "namespace", "no NetworkPolicy in namespace")>>})

\* A rule of the list that names neither destinations nor ports
AllowAllEgress(m) ==
    {K8Finding(m, "allow-all-egress", <<"egress", i>>, i) :
       i \in {i \in DOMAIN m.spec.egress :
                "Egress" \in m.spec.policyTypes /\ ~m.spec.egress[i].to /\ ~m.spec.egress[i].ports}}

ServiceFindings(m) ==
    Fired({<<m.spec.type = "NodePort", K8Finding(m, "nodeport-service", "type", "NodePort")>>,
           <<m.spec.type = "LoadBalancer" /\ m.spec.sourceRanges = {},
             K8Finding(m, "loadbalancer-no-source-ranges", "loadBalancerSourceRanges", "unset")>>})

LiteralSecret(m) ==
    LET field == IF m.spec.stringData # {} THEN "stringData" ELSE "data"
    IN Fired({<<m.spec.stringData # {} \/ m.spec.data # {},
                K8Finding(m, "literal-in-manifest", field, field)>>})

EnvFromSecret(m) ==
    UNION {{K8Finding(m, "env-from-secret-all", <<c.name, "envFrom", i>>, c.name) :
              i \in {i \in DOMAIN c.envFrom : c.envFrom[i] = "secretRef"}} : c \in m.spec.containers}

EvaluateNetwork(graph) ==
    UNION {NoNetworkPolicy(graph, m) \cup EnvFromSecret(m) :
             m \in {graph[i] : i \in {i \in DOMAIN graph : IsWorkload(graph[i])}}}
    \cup UNION {AllowAllEgress(m) : m \in OfKinds(graph, {"NetworkPolicy"})}
    \cup UNION {ServiceFindings(m) : m \in OfKinds(graph, {"Service"})}
    \cup UNION {LiteralSecret(m) : m \in OfKinds(graph, {"Secret"})}

(***************************************************************************)
(* Finding the manifests                                                   *)
(***************************************************************************)

\* A chart vendored by another is rendered with it.
ChartRoots(c) ==
    LET found == {h \in ToSet(c.charts) : ~h.noise}
    IN SelectSeq(c.charts, LAMBDA h : h \in found /\ \A o \in found : o.dir \notin h.vendoredBy)

\* parseDocuments: all of a file or nothing of it; what lacks apiVersion or kind
\* is no resource.
ParseDocuments(f) ==
    IF f.text # "ok" THEN <<>> ELSE SelectSeq(f.documents, LAMBDA d : d.apiVersion /\ d.kind # "")

\* The walk comes by all files but those below a chart; one that cannot be read
\* is passed over.
Walked(c) ==
    SelectSeq(c.files, LAMBDA f : /\ ~f.noise /\ f.readable
                                  /\ \A h \in ToSet(ChartRoots(c)) : h.dir \notin f.under)

\* discoverManifests
Discovered(c) == FlattenSeq([i \in DOMAIN Walked(c) |-> ParseDocuments(Walked(c)[i])])
NotParsed(c) == {<<f.text, f.path>> : f \in {f \in ToSet(Walked(c)) : f.text # "ok"}}

\* A directory that cannot be walked leaves neither charts nor manifests.
K8Applicable(c) == c.walkable /\ (ChartRoots(c) # <<>> \/ Discovered(c) # <<>>)

\* renderHelmChart: why a chart is passed over
HelmSkip(h) ==
    CASE ~h.loads -> "helm_render_failed"
      [] h.loads /\ h.declared \ h.vendored # {} -> "helm_dependency_unresolved"
      [] h.loads /\ h.declared \subseteq h.vendored /\ ~h.renders -> "helm_render_failed"
      [] OTHER -> "none"

(***************************************************************************)
(* A run                                                                   *)
(***************************************************************************)

K8NoRun == [at |-> "waiting", checkout |-> "none", charts |-> <<>>, templates |-> {},
            graph |-> <<>>, skipped |-> {}]

K8Init ==
    /\ k8run = [s \in K8Scans |-> K8NoRun]
    /\ k8rows = [s \in K8Scans |-> {}]

DiscoverManifests(s, c) ==
    /\ k8run[s].at = "waiting"
    /\ k8run' = [k8run EXCEPT ![s] =
          IF K8Applicable(c)
          THEN [at |-> "charts", checkout |-> c, charts |-> ChartRoots(c), templates |-> {},
                graph |-> Discovered(c), skipped |-> NotParsed(c)]
          ELSE [K8NoRun EXCEPT !.at = "skipped", !.checkout = c]]
    /\ UNCHANGED k8rows

RenderChart(s) ==
    LET r == k8run[s]
        h == Head(r.charts)
    IN /\ r.at = "charts" /\ r.templates = {} /\ r.charts # <<>>
       /\ k8run' = [k8run EXCEPT
             ![s].charts = Tail(@),
             ![s].skipped = IF HelmSkip(h) = "none" THEN @ ELSE @ \cup {<<HelmSkip(h), h.dir>>},
             ![s].templates = IF HelmSkip(h) = "none" THEN {t \in h.templates : ~t.helper} ELSE {}]
       /\ UNCHANGED k8rows

\* The templates of a chart are a map: they come in any order. One whose output
\* does not parse is passed over.
AddTemplate(s, t) ==
    /\ k8run[s].at = "charts" /\ t \in k8run[s].templates
    /\ k8run' = [k8run EXCEPT ![s].templates = @ \ {t}, ![s].graph = @ \o ParseDocuments(t)]
    /\ UNCHANGED k8rows

\* The job's context ends: looked at after the walk and before each chart.
K8Interrupted(s) ==
    LET r == k8run[s]
    IN /\ r.at = "charts" /\ r.templates = {}
       /\ r.charts # <<>> \/ ChartRoots(r.checkout) = <<>>
       /\ k8run' = [k8run EXCEPT ![s].at = "failed"]
       /\ UNCHANGED k8rows

\* The three families, once the graph is whole; the worker stores what was emitted.
K8Evaluate(s) ==
    LET r == k8run[s]
    IN /\ r.at = "charts" /\ r.templates = {} /\ r.charts = <<>>
       /\ k8rows' = [k8rows EXCEPT ![s] =
             EvaluateRBAC(r.graph) \cup EvaluateWorkload(r.graph) \cup EvaluateNetwork(r.graph)]
       /\ k8run' = [k8run EXCEPT ![s].at = "succeeded"]

K8Step(s) ==
    \/ \E c \in K8Checkouts : DiscoverManifests(s, c)
    \/ RenderChart(s)
    \/ \E t \in k8run[s].templates : AddTemplate(s, t)
    \/ K8Interrupted(s)
    \/ K8Evaluate(s)

K8Next == \E s \in K8Scans : K8Step(s)
K8Spec == K8Init /\ [][K8Next]_K8Vars

(***************************************************************************)
(* Properties                                                              *)
(***************************************************************************)

K8TypeOK ==
    \A s \in K8Scans :
      /\ k8run[s].at \in {"waiting", "charts", "succeeded", "failed", "skipped"}
      /\ k8run[s].templates # {} => k8run[s].at = "charts"
      /\ k8rows[s] # {} => k8run[s].at = "succeeded"

Of(rows, key, rules) ==
    {r \in rows : r.rule \in rules /\ SubSeq(r.place, 1, 3) = key}

BaselineRules == {"host-network", "host-pid-ipc", "hostpath-mount", "privileged",
                  "dangerous-capabilities"}
RestrictedRules == {"allow-priv-escalation", "runs-as-root", "caps-not-dropped"}

\* Two accounts of one name in one chart that say different things: whichever
\* template comes first is believed.
Ambiguous(c) ==
    \E h \in ToSet(ChartRoots(c)) : \E t, u \in h.templates :
      \E i \in DOMAIN t.documents, k \in DOMAIN u.documents :
        LET d == t.documents[i]
            e == u.documents[k]
        IN /\ t # u /\ d.kind = "ServiceAccount" /\ e.kind = "ServiceAccount"
           /\ d.name = e.name /\ d.namespace = e.namespace /\ d.spec.token # e.spec.token

\* Two scans of one commit find the same, in whatever order the templates of a
\* chart come up, unless one service account is described twice. The level a workload is given
\* agrees with the rules that fired on it, its init containers included: no
\* level is better than its worst finding, and none is worse without a
\* finding to show for it. (Two workloads of one name are one in the rows.) And
\* what was not looked at is named: a workload in a file that is not below a
\* chart or in a chart's template has its level, or the file or the chart is in
\* the list of what was skipped. Files that cannot be read and templates whose output does
\* not parse are the exceptions.
ManifestsJudgedAlike ==
    \A s \in K8Scans : k8run[s].at = "succeeded" =>
      LET c == k8run[s].checkout
          rows == k8rows[s]
          levels(key) == {r.evidence : r \in Of(rows, key, {"psa-level"})}
          keys == {SubSeq(r.place, 1, 3) : r \in {r \in rows : r.rule = "psa-level"}}
          judged(f) == \A i \in DOMAIN f.documents :
              LET d == f.documents[i]
              IN d.apiVersion /\ IsWorkload(d) => <<d.kind, d.namespace, d.name>> \in keys
      IN /\ \A t \in K8Scans : k8run[t].at = "succeeded" /\ k8run[t].checkout = c =>
               rows = k8rows[t] \/ Ambiguous(c)
         /\ \A key \in keys :
              /\ levels(key) = {"restricted"} =>
                   Of(rows, key, BaselineRules \cup RestrictedRules) = {}
              /\ levels(key) = {"baseline"} => Of(rows, key, BaselineRules) = {}
              /\ "privileged" \in levels(key) =>
                   \E r \in Of(rows, key, BaselineRules) : r.severity \in {"high", "critical"}
         /\ \A f \in ToSet(c.files) :
              \/ f.noise \/ ~f.readable \/ f.under # {}
              \/ IF f.text = "ok" THEN judged(f) ELSE <<f.text, f.path>> \in k8run[s].skipped
         /\ \A h \in ToSet(ChartRoots(c)) :
              \/ \E why \in {"helm_render_failed", "helm_dependency_unresolved"} :
                    <<why, h.dir>> \in k8run[s].skipped
              \/ \A t \in h.templates : t.helper \/ t.text # "ok" \/ judged(t)
=============================================================================
