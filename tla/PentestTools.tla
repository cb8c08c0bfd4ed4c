---------------------------- MODULE PentestTools ----------------------------
(***************************************************************************)
(* What the tools of a pentest find at a site, stage by stage              *)
(* (engines/pentest: stages, checks, correlation), when some of their      *)
(* calls fail.  Pentest is the same run without the tools: it says what    *)
(* any stage may come by, this module what these do, and is shown to       *)
(* implement it.                                                           *)
(*                                                                         *)
(* A site is what is truly there: the open ports, the files they serve,    *)
(* what crawls and archives know of it, its names, the templates that      *)
(* match.  A call is a script with what it is about.  One may fail: then   *)
(* its stage goes on without.  One that runs out of time is no failure to  *)
(* the stages: they read what it has said until then (RunScript does not   *)
(* look at TimedOut).  Of a tool that says one thing after the other that  *)
(* is any part of it; a document broken off cannot be parsed, which is the *)
(* same as nothing.                                                        *)
(*                                                                         *)
(* A URL is a port and a path.  Left out: addresses, versions, what a      *)
(* finding says, how many names are told apart, and the pace of the calls. *)
(***************************************************************************)
EXTENDS Naturals, Sequences, FiniteSets

LOCAL INSTANCE SequencesExt
LOCAL INSTANCE FiniteSetsExt

CONSTANTS
    Sites,          \* what there may be at a target
    PentestConfigs, \* domain.PentestScanConfig of a run
    PathCap,        \* WordlistTierCap, by tier
    MaxToolFaults   \* bound: calls that fail or are cut short

ASSUME PentestToolsAssumption ==
    /\ MaxToolFaults \in Nat
    /\ \A c \in PentestConfigs :
         c.preset \in {"stealth", "standard", "deep"} /\ PathCap[c.tier] \in Nat \ {0}

VARIABLES
    ptSite,     \* the target
    ptConfig,   \* the configuration
    ptAt,       \* the next stage, by its place in the pipeline
    ptState,    \* pipeline.State
    ptFaults,   \* the calls that failed or were cut short: what of its output each has left
    ptFound,    \* all findings ever given to State.Emit, as Pentest has them
    ptEmitted,  \* groups EmitDirect has handed the worker
    ptEnd       \* how the run ended

PtlVars == <<ptSite, ptConfig, ptAt, ptState, ptFaults, ptFound, ptEmitted, ptEnd>>

(***************************************************************************)
(* Calls                                                                   *)
(***************************************************************************)

Script(call) == call[1]

\* A fault is a call with what of its output it has left: nothing, if it failed.
Fails(call, bad) == \E f \in bad : f.call = call
Kept(call, bad) == UNION {f.kept : f \in {f \in bad : f.call = call}}
Got(call, output, bad) == IF Fails(call, bad) THEN output \cap Kept(call, bad) ELSE output

(***************************************************************************)
(* Ports and findings                                                      *)
(***************************************************************************)

NumbersOf(ports) == {p.number : p \in ToSet(ports)}

\* By what nmap calls the service, or by the number alone
IsHTTPPort(p) == p.service \in {"http", "https"} \/ p.number \in {80, 443, 8000, 8080, 8443, 8888}
IsHTTPSPort(p) == p.service \in {"https", "ssl"} \/ p.number \in {443, 8443}

\* A rule is its prefix and the rest.
DedupScopeFor(rule) ==
    CASE rule[1] \in {"headers", "recon"}       -> "per_scan"
      [] rule[1] \in {"disclosure", "nuclei"}   -> "per_endpoint"
      [] rule = <<"misconfig", "cors">>         -> "per_host"
      [] OTHER                                  -> "per_host_port"

\* base is what nuclei was given to find it at, from the calls it is due to.
ToolFinding(by, rule, port, url, base, from) ==
    [by |-> by, rule |-> rule, scope |-> DedupScopeFor(rule), port |-> port, url |-> url,
     base |-> base, from |-> from]
RootOf(n) == <<n, "">>
AtPort(by, rule, n, call) == ToolFinding(by, rule, n, RootOf(n), RootOf(n), {call})
AtFile(by, rule, url, call) == ToolFinding(by, rule, url[1], url, RootOf(url[1]), {call})
AboutNames(rule, calls) == ToolFinding("asset_discovery", rule, 0, RootOf(0), RootOf(0), calls)

(***************************************************************************)
(* Checks: what the engine makes of a tool's output                        *)
(***************************************************************************)

TLSFindings(p, call) == {AtPort("fingerprint", <<"tls", w>>, p.number, call) : w \in p.weak}

\* Of securityHeaderChecks two: the one that means nothing where there is no TLS,
\* and one of the others.
SecurityHeaders == {"hsts", "csp"}
HeadersFindings(missing, p, isHTTPS, call) ==
    {AtPort("headers", <<"headers", h>>, p.number, call) :
        h \in IF isHTTPS THEN missing ELSE missing \ {"hsts"}}

UnsafeHTTPMethodFindings(p, call) ==
    IF p.methods THEN {AtPort("headers", <<"misconfig", "unsafe-http-method">>, p.number, call)} ELSE {}
NmapVulnScriptFindings(p, call) == {AtPort("headers", <<"nmap.vuln", v>>, p.number, call) : v \in p.vulns}
CORSFindings(p, call) ==
    IF p.cors THEN {AtPort("headers", <<"misconfig", "cors">>, p.number, call)} ELSE {}

\* ffuf with one word list on one port
HitsOf(site, n, words) ==
    {f \in site.served : f.url[1] = n /\ (f.url[2] \in words \/ f.lists \cap words # {})}
\* classifyDisclosurePath: .git, .env and what looks like a backup
DisclosureFindings(hits, call) ==
    {AtFile("directory_enum", <<"disclosure", f.kind>>, f.url, call) :
        f \in {f \in hits : f.kind # "page"}}
AdminPathFindings(hits, call) ==
    {AtFile("headers", <<"disclosure", "default-admin-path">>, f.url, call) : f \in hits}

\* A template starts from a URL it is given; Stealth asks for the severe ones.
NucleiFindings(site, category, preset, bases, call) ==
    {ToolFinding("nuclei", <<"nuclei", t.id>>, 0, t.at, t.base, {call}) :
        t \in {t \in site.templates :
                 t.category = category /\ preset \in t.presets /\ t.base \in bases}}

DistinctSubdomains(names) == {n \in names : n.under}

\* One about all of them, and one for those that sound sensitive
SubdomainFindings(subdomains, CallsOf) ==
    (IF subdomains = {} THEN {}
     ELSE {AboutNames(<<"recon", "subdomains">>, UNION {CallsOf[n] : n \in subdomains})})
    \cup {AboutNames(<<"recon", "sensitive">>, CallsOf[n]) : n \in {n \in subdomains : n.sensitive}}

ExtractPaths(seen) ==
    FoldLeft(LAMBDA paths, u : IF u[2] \in {""} \cup ToSet(paths) THEN paths ELSE Append(paths, u[2]),
             <<>>, seen)
CapPaths(paths, n) == SubSeq(paths, 1, IF n < Len(paths) THEN n ELSE Len(paths))

(***************************************************************************)
(* Stages.  Each is its calls, and what it makes of a State when some of   *)
(* them are bad.                                                           *)
(* (An operator whose comment says "instead" is a plausible mistake in the *)
(* operator it precedes; only the mutants use it.)                         *)
(***************************************************************************)

Stages == <<"target_intake", "recon", "asset_discovery", "asset_validation",
    "port_discovery", "service_discovery", "endpoint_discovery", "directory_enum",
    "endpoint_validation", "fingerprint", "vuln_detect", "correlation", "confidence",
    "evidence", "report_handoff">>

NewState ==
    [runs |-> {}, open |-> <<>>, http |-> <<>>, names |-> {}, named |-> 0, assetPorts |-> {},
     tech |-> FALSE, extra |-> <<>>, discovered |-> {}, validated |-> {}, registered |-> {}, pending |-> {},
     groups |-> {}, evidence |-> 0, skipped |-> {}, reported |-> {}]

\* RunScript: calls come into the transcript, whatever becomes of them.
Called(st, calls) == [st EXCEPT !.runs = @ \cup calls]
\* Emit: buffered for Correlation
EmitAll(st, findings) == [st EXCEPT !.pending = @ \cup findings]

\* Rules only the tool knows are registered before its findings are kept; when
\* that fails none of the call's is.
Registering(call) == <<"register", call>>
Registered(st, findings, call, bad) ==
    LET rules == {f.rule : f \in findings}
    IN IF rules \subseteq st.registered THEN EmitAll(st, findings)
       ELSE IF Fails(Registering(call), bad) THEN Called(st, {Registering(call)})
       ELSE EmitAll([Called(st, {Registering(call)}) EXCEPT !.registered = @ \cup rules], findings)

\* naabu sees every port at Deep, else those it is common to look at.
NaabuSees(site, cfg) == SelectSeq(site.ports, LAMBDA p : p.usual \/ cfg.preset = "deep")
NmapSees(site, asked) ==
    SelectSeq(site.ports, LAMBDA p : IF asked = {} THEN p.usual ELSE p.number \in asked)
AsService(ports, services) ==
    [i \in DOMAIN ports |-> [number |-> ports[i].number, service |-> services[i]]]

\* naabu's ports narrow nmap's, and stand in for them: those it has come to, if
\* its time was up.
Recon(st, site, cfg, bad) ==
    LET swept    == SelectSeq(NaabuSees(site, cfg),
                              LAMBDA p : p.number \in Got(<<"naabu">>, {p.number}, bad))
        examined == NmapSees(site, NumbersOf(swept))
    IN [Called(st, {<<"naabu">>, <<"nmap_recon">>}) EXCEPT !.open =
          IF Fails(<<"nmap_recon">>, bad) THEN AsService(swept, [i \in DOMAIN swept |-> "unknown"])
          ELSE AsService(examined, [i \in DOMAIN examined |-> examined[i].guess])]

AssetDiscoveryCalls(cfg) ==
    IF ~cfg.subdomains THEN {}
    ELSE {<<"subfinder">>} \cup (IF cfg.tier = "small" THEN {} ELSE {<<"dnsx_brute">>})
AssetDiscovery(st, site, cfg, bad) ==
    LET NamedBy(call) == Got(call, IF call = <<"subfinder">> THEN site.passive ELSE site.brute, bad)
        calls == AssetDiscoveryCalls(cfg)
        subdomains == DistinctSubdomains(UNION {NamedBy(c) : c \in calls})
    IN EmitAll([Called(st, calls) EXCEPT !.names = subdomains, !.named = Cardinality(subdomains)],
               SubdomainFindings(subdomains,
                                 [n \in subdomains |-> {c \in calls : n \in NamedBy(c)}]))

\* Instead: a name that cannot be resolved is kept for later stages.
AssetValidationKeepsAll(st, site, cfg, bad) == st

\* Names that resolve to nothing, or to what must not be scanned, are dropped.
AssetValidation(st, site, cfg, bad) ==
    [Called(st, {<<"resolve", n.name>> : n \in st.names}) EXCEPT
        !.names = {n \in @ : n.public /\ ~Fails(<<"resolve", n.name>>, bad)}]

\* The script scans TARGET_IP, and a name is given none: no port is ever found.
TargetIPs(n) == {}
PortDiscovery(st, site, cfg, bad) ==
    [Called(st, {<<"nmap_recon", n.name>> : n \in st.names}) EXCEPT
        !.assetPorts = {n \in st.names : TargetIPs(n) # {} /\ ~Fails(<<"nmap_recon", n.name>>, bad)}]

\* nmap -sV, on all it is common to look at when Recon has found none; httpx may
\* confirm what nmap does not tell.
ServiceDiscovery(st, site, cfg, bad) ==
    LET examined == NmapSees(site, NumbersOf(st.open))
        detailed == AsService(examined, [i \in DOMAIN examined |-> examined[i].service])
        open     == IF Fails(<<"nmap_service">>, bad) \/ detailed = <<>> THEN st.open ELSE detailed
        confirms == Got(<<"httpx">>, {p.number : p \in {p \in ToSet(site.ports) : p.answers}}, bad)
    IN [Called(st, {<<"nmap_service">>, <<"httpx">>, <<"whatweb">>}) EXCEPT
          !.open = open, !.tech = ~Fails(<<"whatweb">>, bad),
          !.http = SelectSeq(open, LAMBDA p :
                      IsHTTPPort(p) \/ p.number \in confirms)]

\* Only at the first port
EndpointDiscovery(st, site, cfg, bad) ==
    LET calls == IF st.http = <<>> THEN {} ELSE {<<"crawl">>, <<"gau">>, <<"cewl">>}
        Said(call, what) == IF call \in calls
                            THEN SelectSeq(what, LAMBDA u : u \in Got(call, ToSet(what), bad)) ELSE <<>>
        seen == Said(<<"crawl">>, SelectSeq(site.links, LAMBDA u : u[1] = st.http[1].number))
                \o Said(<<"gau">>, site.archived)
    IN [Called(st, calls) EXCEPT
          !.extra = @ \o ExtractPaths(seen) \o Said(<<"cewl">>, site.words),
          !.discovered = @ \cup ToSet(seen)]

\* The word lists of a preset, then the paths of this site as one more
WordLists(cfg) ==
    CASE cfg.preset = "stealth"  -> {}
      [] cfg.preset = "standard" -> {"curated", "raft-directories"}
      [] cfg.preset = "deep"     -> {"curated", "raft-deep-directories", "raft-deep-files"}
Words(st, cfg, list) ==
    IF list = "crawl-derived" THEN ToSet(CapPaths(st.extra, PathCap[cfg.tier])) ELSE {list}
DirectoryEnum(st, site, cfg, bad) ==
    LET lists == IF cfg.preset = "stealth" THEN {}
                 ELSE WordLists(cfg) \cup (IF st.extra = <<>> THEN {} ELSE {"crawl-derived"})
        calls == {<<"ffuf_disclosure", n, l>> : n \in NumbersOf(st.http), l \in lists}
        good == {c \in calls : ~Fails(c, bad)}
        Hits(c) == HitsOf(site, c[2], Words(st, cfg, c[3]))
    IN EmitAll([Called(st, calls) EXCEPT
                  !.discovered = @ \cup UNION {{f.url : f \in Hits(c)} : c \in good}],
               UNION {DisclosureFindings(Hits(c), c) : c \in good})

\* Whatever answers in time, with whatever status
EndpointValidation(st, site, cfg, bad) ==
    LET call == <<"httpx", "validate">>
    IN IF st.discovered = {} THEN st
       ELSE [Called(st, {call}) EXCEPT !.validated =
               Got(call, {u \in st.discovered : \E p \in ToSet(site.ports) : p.answers /\ p.number = u[1]},
                   bad)]

\* What is at the site's port
There(site, p) == CHOOSE q \in ToSet(site.ports) : q.number = p.number

\* Instead: a port whose TLS cannot be checked is the last.
FingerprintUpToFailure(st, site, cfg, bad) ==
    FoldLeft(LAMBDA acc, p :
                LET call == <<"testssl", p.number>>
                IN IF ~IsHTTPSPort(p) \/ \E c \in acc.runs : Fails(c, bad) THEN acc
                   ELSE IF Fails(call, bad) THEN Called(acc, {call})
                   ELSE Registered(Called(acc, {call}), TLSFindings(There(site, p), call), call, bad),
             st, st.http)

Fingerprint(st, site, cfg, bad) ==
    FoldLeft(LAMBDA acc, p :
                LET call == <<"testssl", p.number>>
                IN IF ~IsHTTPSPort(p) THEN acc
                   ELSE IF Fails(call, bad) THEN Called(acc, {call})
                   ELSE Registered(Called(acc, {call}), TLSFindings(There(site, p), call), call, bad),
             st, st.http)

\* A response cut short, or the redirect before it, is judged as if it were all:
\* any of its headers may seem to be missing.
HeadersAt(st, site, p, bad) ==
    LET call    == <<"curl_headers", p.number>>
        missing == IF Fails(call, bad) THEN Kept(call, bad) ELSE There(site, p).missing
    IN EmitAll(Called(st, {call}), HeadersFindings(missing, p, IsHTTPSPort(p), call))
MisconfigAt(st, site, cfg, p, bad) ==
    LET n == p.number
        nmap == <<"nmap_misconfig", n>>   ffuf == <<"ffuf_misconfig", n>>   cors == <<"curl_cors", n>>
        scripts == Registered(st, NmapVulnScriptFindings(There(site, p), nmap), nmap, bad)
        before  == IF Fails(nmap, bad) \/ cfg.preset # "deep" THEN st ELSE scripts
        calls   == {nmap, cors} \cup (IF cfg.preset = "stealth" THEN {} ELSE {ffuf})
        admin   == AdminPathFindings(HitsOf(site, n, {"default-admin-paths"}), ffuf)
        Found(call, findings) == IF call \in calls /\ ~Fails(call, bad) THEN findings ELSE {}
    IN [EmitAll(Called(before, calls),
                Found(nmap, UnsafeHTTPMethodFindings(There(site, p), nmap)) \cup Found(ffuf, admin)
                \cup Found(cors, CORSFindings(There(site, p), cors)))
        EXCEPT !.discovered = @ \cup {f.url : f \in Found(ffuf, admin)}]

\* By category: the endpoints that were confirmed; without any every HTTP port;
\* without any of these once, but the script needs a port and finds nothing.  Of
\* what it has found in time nothing is lost.
Sweeps(st) ==
    IF st.validated # {} THEN <<[n |-> 0, bases |-> st.validated]>>
    ELSE IF st.http = <<>> THEN <<[n |-> 0, bases |-> {}]>>
    ELSE [i \in DOMAIN st.http |-> [n |-> st.http[i].number, bases |-> {RootOf(st.http[i].number)}]]
NucleiBy(st, site, cfg, category, bad) ==
    FoldLeft(LAMBDA acc, w :
                LET call  == <<"nuclei", category, w.n>>
                    found == NucleiFindings(site, category, cfg.preset, w.bases, call)
                IN Registered(Called(acc, {call}),
                              {f \in found : f.rule[2] \in Got(call, {f.rule[2]}, bad)}, call, bad),
             st, Sweeps(st))

\* runHeaders, runMisconfig, runNuclei
VulnDetect(st, site, cfg, bad) ==
    LET headers   == FoldLeft(LAMBDA acc, p : HeadersAt(acc, site, p, bad), st, st.http)
        misconfig == FoldLeft(LAMBDA acc, p : MisconfigAt(acc, site, cfg, p, bad), headers, st.http)
    IN FoldLeft(LAMBDA acc, c : NucleiBy(acc, site, cfg, c, bad), misconfig, cfg.categories)

(***************************************************************************)
(* Correlation and what comes of it; the names are those of Pentest, which *)
(* has the rest of the run                                                 *)
(***************************************************************************)

RootUrl == RootOf(0)
PlainUrl(url) == IF url[2] = "" THEN RootUrl ELSE url
PlainUrls(urls) == {PlainUrl(u) : u \in urls}

\* A finding as Pentest has it: of any call
Plain(f) ==
    [by |-> f.by, rule |-> f.rule, scope |-> f.scope, port |-> f.port, url |-> PlainUrl(f.url),
     base |-> PlainUrl(f.base)]
PlainAll(findings) == {Plain(f) : f \in findings}

AllNames == UNION {s.passive \cup s.brute : s \in Sites}
AllUrls == UNION {ToSet(s.links) \cup ToSet(s.archived) \cup {f.url : f \in s.served} : s \in Sites}
ThereIs(site) ==
    UNION {TLSFindings(p, <<>>) \cup HeadersFindings(SecurityHeaders, p, IsHTTPSPort(p), <<>>) \cup CORSFindings(p, <<>>)
           \cup UnsafeHTTPMethodFindings(p, <<>>) \cup NmapVulnScriptFindings(p, <<>>) :
             p \in ToSet(site.ports)}
    \cup DisclosureFindings(site.served, <<>>) \cup AdminPathFindings(site.served, <<>>)
    \cup UNION {NucleiFindings(site, t.category, pr, {t.base}, <<>>) :
                  t \in site.templates, pr \in {"stealth", "standard", "deep"}}
    \cup {AboutNames(<<"recon", r>>, {}) : r \in {"subdomains", "sensitive"}}
AllThereIs == UNION {PlainAll(ThereIs(s)) : s \in Sites}

WhileRunning(x) == IF ptEnd = "running" THEN x ELSE {}

AsPentest == INSTANCE Pentest WITH
    Ports <- UNION {NumbersOf(s.ports) : s \in Sites}, Urls <- PlainUrls(AllUrls), Root <- RootUrl,
    Subdomains <- {n.name : n \in AllNames}, Public <- {n.name : n \in {n \in AllNames : n.public}},
    Detectable <- AllThereIs,
    stage <- ptAt,
    names <- WhileRunning({n.name : n \in ptState.names}),
    ports <- WhileRunning(NumbersOf(IF ptAt <= 6 THEN ptState.open ELSE ptState.http)),
    urls <- WhileRunning(PlainUrls(IF ptAt <= 9 THEN ptState.discovered ELSE ptState.validated)),
    found <- ptFound,
    pending <- WhileRunning(PlainAll(ptState.pending)),
    groups <- WhileRunning({PlainAll(G) : G \in ptState.groups}),
    emitted <- {PlainAll(G) : G \in ptEmitted},
    fate <- ptEnd, model <- "none", closed <- FALSE, stored <- {}

\* Two records of every group, one blob after the other up to one that cannot be
\* written: then the stage is skipped.
Blobs(st) == 1 .. 2 * Cardinality(st.groups)
Evidence(st, bad) ==
    LET failed == {k \in Blobs(st) : Fails(<<"blob", k>>, bad)}
        last   == IF failed = {} THEN Cardinality(Blobs(st)) ELSE Min(failed)
    IN [Called(st, {<<"blob", k>> : k \in 1 .. last}) EXCEPT
          !.evidence = IF failed = {} THEN last ELSE last - 1,
          !.skipped = IF failed = {} THEN @ ELSE @ \cup {"evidence"}]

\* A stage without a case of its own makes no call: Intake, which only refuses,
\* Confidence, whose emission is the action's.
Effect(name, st, site, cfg, bad) ==
    CASE name = "recon"               -> Recon(st, site, cfg, bad)
      [] name = "asset_discovery"     -> AssetDiscovery(st, site, cfg, bad)
      [] name = "asset_validation"    -> AssetValidation(st, site, cfg, bad)
      [] name = "port_discovery"      -> PortDiscovery(st, site, cfg, bad)
      [] name = "service_discovery"   -> ServiceDiscovery(st, site, cfg, bad)
      [] name = "endpoint_discovery"  -> EndpointDiscovery(st, site, cfg, bad)
      [] name = "directory_enum"      -> DirectoryEnum(st, site, cfg, bad)
      [] name = "endpoint_validation" -> EndpointValidation(st, site, cfg, bad)
      [] name = "fingerprint"         -> Fingerprint(st, site, cfg, bad)
      [] name = "vuln_detect"         -> VulnDetect(st, site, cfg, bad)
      [] name = "correlation"         -> [st EXCEPT !.groups = AsPentest!Merge(st.pending), !.pending = {}]
      [] name = "evidence"            -> Evidence(st, bad)
      [] name = "report_handoff"      -> [st EXCEPT !.reported = st.groups]
      [] OTHER                        -> st

(***************************************************************************)
(* The run                                                                 *)
(***************************************************************************)

PtlInit ==
    /\ ptSite \in Sites /\ ptConfig \in PentestConfigs
    /\ ptAt = 1 /\ ptState = NewState /\ ptFaults = {} /\ ptFound = {} /\ ptEmitted = {}
    /\ ptEnd = "running"

\* What a call may have said when its time is up
Output(call) ==
    CASE Script(call) = "naabu" \/ call = <<"httpx">> -> NumbersOf(ptSite.ports)
      [] Script(call) = "httpx" /\ call # <<"httpx">> -> ptState.discovered
      [] Script(call) = "subfinder"                   -> ptSite.passive
      [] Script(call) = "dnsx_brute"                  -> ptSite.brute
      [] Script(call) = "crawl"                       -> ToSet(ptSite.links)
      [] Script(call) = "gau"                         -> ToSet(ptSite.archived)
      [] Script(call) = "cewl"                        -> ToSet(ptSite.words)
      [] Script(call) = "curl_headers"                -> SecurityHeaders
      [] Script(call) = "nuclei" -> {t.id : t \in {t \in ptSite.templates : t.category = call[2]}}
      [] OTHER                   -> {}

\* The faults of a stage: among the calls it makes when there is none, and the
\* registrations of their rules; one of a call.
Faults(name) ==
    LET calls == Effect(name, ptState, ptSite, ptConfig, {}).runs \ ptState.runs
        some  == UNION {[call : {c}, kept : SUBSET Output(c)] : c \in calls \cup {Registering(c) : c \in calls}}
        few   == {ToSet(bad) : bad \in [1 .. MaxToolFaults - Cardinality(ptFaults) -> some]}
    IN {{}} \cup {bad \in few : \A f, g \in bad : f.call = g.call => f = g}

\* Pipeline.Run: whatever fails in a stage, the next comes.
RunStage(name) ==
    /\ ptEnd = "running" /\ ptAt <= Len(Stages) /\ Stages[ptAt] = name
    /\ \E bad \in Faults(name) :
         LET after == Effect(name, ptState, ptSite, ptConfig, bad)
         IN /\ {f.call : f \in bad} \subseteq after.runs \ ptState.runs
            /\ ptState' = after /\ ptFaults' = ptFaults \cup bad
            /\ ptFound' = ptFound \cup PlainAll(after.pending)
            /\ ptEmitted' = IF name = "confidence" THEN after.groups ELSE ptEmitted
    /\ ptAt' = ptAt + 1
    /\ UNCHANGED <<ptSite, ptConfig, ptEnd>>

\* Intake refuses the target, or the context ends before a stage. What had failed
\* until then makes no difference any more.
EndRunEarly(how) ==
    /\ ptEnd = "running"
    /\ \/ how = "failed" /\ ptAt = 1
       \/ how = "cancelled" /\ ptAt <= Len(Stages)
    /\ ptEnd' = how /\ ptState' = NewState /\ ptFaults' = {}
    /\ UNCHANGED <<ptSite, ptConfig, ptAt, ptFound, ptEmitted>>

EndRun ==
    /\ ptEnd = "running" /\ ptAt > Len(Stages)
    /\ ptEnd' = "succeeded"
    /\ UNCHANGED <<ptSite, ptConfig, ptAt, ptState, ptFaults, ptFound, ptEmitted>>

PtlNext ==
    \/ \E n \in ToSet(Stages) : RunStage(n)
    \/ \E how \in {"failed", "cancelled"} : EndRunEarly(how)
    \/ EndRun

PtlTypeOK ==
    /\ ptSite \in Sites /\ ptConfig \in PentestConfigs /\ ptAt \in 1 .. Len(Stages) + 1
    /\ DOMAIN ptState = DOMAIN NewState
    /\ Cardinality(ptFaults) <= MaxToolFaults
    /\ ptFound \subseteq AllThereIs /\ PlainAll(UNION ptEmitted) \subseteq ptFound
    /\ ptEnd \in {"running", "succeeded", "failed", "cancelled"}

(***************************************************************************)
(* Properties                                                              *)
(***************************************************************************)

\* oldPhaseNamesFor, with the scripts of each phase
PhasesOf(name) ==
    CASE name = "recon"              -> {"recon"}
      [] name = "service_discovery"  -> {"service_id"}
      [] name = "fingerprint"        -> {"tls"}
      [] name = "endpoint_discovery" -> {"crawl", "wordlist"}
      [] name = "directory_enum"     -> {"disclosure"}
      [] name = "vuln_detect"        -> {"headers", "misconfig"}
      [] name = "asset_discovery" /\ ptConfig.subdomains -> {"subdomain_enum"}
      [] OTHER                       -> {}
Coverage ==
    [open_ports          |-> NumbersOf(ptState.open),
     http_services_found |-> Len(ptState.http),
     tls_ports_checked   |-> Len(SelectSeq(ptState.http, IsHTTPSPort)),
     subdomains_found    |-> ptState.named,
     phases_completed    |-> UNION {PhasesOf(n) : n \in ToSet(Stages) \ ptState.skipped},
     phases_skipped      |-> UNION {PhasesOf(n) : n \in ptState.skipped}]

CallsOf(scripts) == {c \in ptState.runs : Script(c) \in scripts}
PhaseScripts ==
    [recon |-> {"naabu", "nmap_recon"}, service_id |-> {"nmap_service", "whatweb"}, tls |-> {"testssl"},
     crawl |-> {"crawl", "gau"}, wordlist |-> {"cewl"}, disclosure |-> {"ffuf_disclosure"},
     headers |-> {"curl_headers"}, misconfig |-> {"nmap_misconfig", "ffuf_misconfig", "curl_cors"},
     subdomain_enum |-> {"subfinder", "dnsx_brute"}]

\* What a run says it has covered leaves nothing out that was tried: each phase any
\* script of which ran is named, each port testssl was sent to is counted. It may
\* be more than was done: a phase all of whose scripts failed, or that the preset
\* switches off, is named too, and none is ever among the skipped.
CoverageTellsAll ==
    ptEnd = "succeeded" =>
        /\ \A ph \in DOMAIN PhaseScripts :
             CallsOf(PhaseScripts[ph]) # {} => ph \in Coverage.phases_completed
        /\ Coverage.tls_ports_checked = Cardinality(CallsOf({"testssl"}))
        /\ Coverage.http_services_found = Cardinality(CallsOf({"curl_headers"}))
        /\ Coverage.phases_skipped = {}
        /\ Cardinality(ptState.names) <= Coverage.subdomains_found

\* What the same run finds when no call fails or is cut short
CleanState(site, cfg) ==
    FoldLeft(LAMBDA st, name : Effect(name, st, site, cfg, {}), NewState, SubSeq(Stages, 1, 11))
CleanRuns == [s \in Sites, c \in PentestConfigs |-> CleanState(s, c).pending]

Failed(call) == Fails(call, ptFaults)
Missed(call, what) == what \notin Got(call, {what}, ptFaults)

\* A port it is common to look at takes three failures to be overlooked, or a
\* naabu that has come to another in its time and not to this; whether it speaks
\* HTTP may be told by its number, by nmap or by httpx.
PortOverlooked(p) ==
    \/ /\ Missed(<<"naabu">>, p.number)
       /\ p.usual => \/ Kept(<<"naabu">>, ptFaults) # {}
                     \/ Failed(<<"nmap_recon">>) /\ Failed(<<"nmap_service">>)
    \/ /\ ~IsHTTPPort([p EXCEPT !.service = "unknown"])
       /\ Failed(<<"nmap_service">>) \/ ~IsHTTPPort(p)
       /\ Missed(<<"httpx">>, p.number) \/ ~p.answers
TLSOverlooked(p) == ~IsHTTPSPort([p EXCEPT !.service = "unknown"]) /\ Failed(<<"nmap_service">>)
SomePortOverlooked == \E p \in ToSet(ptSite.ports) : PortOverlooked(p)

\* What a call that was cut short has said before
SaidInTime(c, f) ==
    CASE Script(c) \in {"nuclei", "curl_headers"} -> f.rule[2] \in Kept(c, ptFaults)
      [] Script(c) \in {"subfinder", "dnsx_brute"} ->
           \E n \in DistinctSubdomains(Kept(c, ptFaults)) : f.rule[2] = "sensitive" => n.sensitive
      [] OTHER -> FALSE
NotSaid(c, f) == Failed(Registering(c)) \/ (Failed(c) /\ ~SaidInTime(c, f))
Excused(f) ==
    \/ \A c \in f.from : NotSaid(c, f)
    \/ f.port # 0 /\ \/ PortOverlooked(There(ptSite, [number |-> f.port]))
                     \/ TLSOverlooked(There(ptSite, [number |-> f.port]))
    \/ \E c \in f.from :
         /\ \/ Script(c) = "nuclei"
            \/ Script(c) = "ffuf_disclosure" /\ c[3] = "crawl-derived"
         /\ SomePortOverlooked \/ \E d \in {<<"crawl">>, <<"gau">>, <<"cewl">>} : Failed(d)
    \/ f.by = "nuclei" /\ \E d \in ptFaults :
         Script(d.call) = "ffuf_disclosure" \/ d.call = <<"httpx", "validate">>
    \/ f.by = "nuclei" /\ \E c \in f.from, d \in CallsOf({"nuclei"}) : c[2] = d[2] /\ NotSaid(d, f)

\* A call that fails or is cut short costs what it would have found, and what
\* rests on that, but nothing else: whatever a run without such calls would find
\* is found unless a call it is due to did not come to it, its port could not be
\* told, or a list that nuclei or ffuf was to work through was not complete. Two
\* failures never lose a port that is commonly looked at; but one naabu cut short
\* does (recon.go:40). (A run may find more than that one: with nothing confirmed
\* to sweep nuclei starts from the root, which it otherwise does not, and a
\* response cut short lacks headers.)
ToolsLoseOnlyTheirOwn ==
    ptEnd = "succeeded" =>
        \A f \in CleanRuns[ptSite, ptConfig] :
            \/ \E g \in ptFound : g.rule = f.rule /\ g.port = f.port /\ g.url = PlainUrl(f.url)
            \/ \A g \in CleanRuns[ptSite, ptConfig] :
                  g.rule = f.rule /\ g.port = f.port /\ g.url = f.url => Excused(g)

\* Whatever its tools do, a run is one of Pentest: each stage is a step of it.
RunAsPromised == AsPentest!PtSpec
=============================================================================
