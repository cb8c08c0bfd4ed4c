--------------------------- MODULE PentestRecords ---------------------------
(***************************************************************************)
(* What is kept of a pentest, and who is shown it: the evidence and the    *)
(* reports its last stages make of the scored groups                       *)
(* (engines/pentest/evidence, stages, reporting/pentest), the rows and     *)
(* files IngestScanResult makes of those (modules/pentest), statement by   *)
(* statement and without a transaction, and the requests that read them    *)
(* meanwhile (handler/pentest_handler.go).                                 *)
(*                                                                         *)
(* A run is one worker's, from Confidence on.  Two may be about one scan:  *)
(* a job that is queued twice can be taken up twice (ScanLifecycle).       *)
(* The identifier of a row in pentest_scans is the run that inserted it;   *)
(* other rows name it as of.                                               *)
(*                                                                         *)
(* Left out: hosts (a service is its port), what a finding or a header     *)
(* says, times and the order of lists, and the record of an authorisation, *)
(* which nothing writes.                                                   *)
(***************************************************************************)
EXTENDS Naturals, Sequences, FiniteSets

LOCAL INSTANCE SequencesExt
LOCAL INSTANCE FiniteSetsExt
LOCAL INSTANCE TLC

CONSTANTS
    PrRuns,            \* runs of the engine that come to their last stages
    ScansOf,           \* the scans a run may be about
    ProjectOf,         \* scans.project_id
    OrgOf,             \* projects.org_id
    Actors,            \* who asks: an organisation, and a project or AnyProject
    AnyProject,        \* a session that is not scoped to one project
    RunResults,        \* what a run may have found, by run
    topFindingsLimit,  \* findings an executive summary shows
    MaxPrFaults        \* bound: files and statements that fail

Severities == <<"critical", "high", "medium", "low", "informational">>
EvidenceTypes == {"request_response", "header_snapshot", "tls_snapshot", "dns_record",
                  "verification_result", "tool_raw_output"}
ReportTypes == <<"executive", "technical", "json">>
Tables == {"scans", "assets", "services", "endpoints", "tool_runs", "findings", "evidence",
           "reports", "attack_surface", "audit_logs"}
None == "none"
NoFile == [missing |-> TRUE]

ASSUME PentestRecordsAssumption ==
    /\ MaxPrFaults \in Nat /\ topFindingsLimit \in Nat \ {0}
    /\ \A r \in PrRuns : ScansOf[r] \subseteq DOMAIN ProjectOf
    /\ \A r \in PrRuns : \A in \in RunResults[r] :
         \A g \in ToSet(in.groups) : g.severity \in ToSet(Severities) /\ g.tools # {}

VARIABLES
    prRun,    \* where each run is, and what it has in memory
    prRows,   \* the rows of each table
    prFiles,  \* what FileBlobStore holds, by key
    prAsk,    \* the request being served, and its answer
    prFaults  \* faults so far

PrVars == <<prRun, prRows, prFiles, prAsk, prFaults>>

NoAsk == [at |-> "idle"]

PrInit ==
    /\ \E scan \in [PrRuns -> UNION {ScansOf[r] : r \in PrRuns}],
          in \in [PrRuns -> UNION {RunResults[r] : r \in PrRuns}] :
         /\ \A r \in PrRuns : scan[r] \in ScansOf[r] /\ in[r] \in RunResults[r]
         /\ prRun = [r \in PrRuns |->
              [at |-> "evidence", scan |-> scan[r], in |-> in[r], evidence |-> <<>>, todo |-> <<>>]]
    /\ prRows = [t \in Tables |-> {}]
    /\ prFiles = <<>>
    /\ prAsk = NoAsk /\ prFaults = 0

PrTypeOK ==
    /\ \A r \in PrRuns :
         /\ prRun[r].at \in {"evidence", "handoff", "ingest", "over"}
         /\ \A e \in ToSet(prRun[r].evidence) : e.type \in EvidenceTypes
         /\ \A w \in ToSet(prRun[r].todo) : w.to \in Tables \cup {"files"}
    /\ \A t \in Tables \ {"scans"} : \A row \in prRows[t] : row.of \in PrRuns
    /\ prAsk.at \in {"idle", "resolved", "surface", "assets", "services", "answered", "refused"}
    /\ prFaults \in 0 .. MaxPrFaults

(***************************************************************************)
(* The score of a group (correlation/confidence.go)                        *)
(***************************************************************************)

BaseScore(severity, certainty) ==
    (CASE severity = "critical" -> 55 [] severity = "high" -> 45 [] severity = "medium" -> 30
       [] severity = "low" -> 18 [] OTHER -> 8)
    + (CASE certainty = "high" -> 15 [] certainty = "medium" -> 8 [] OTHER -> 0)

CorroborationBonus(tools) ==
    IF tools <= 1 THEN 0 ELSE Min({(tools - 1) * 15, 20})

\* What comes out below 0 counts as 0.
GroupScore(g) ==
    LET plus  == BaseScore(g.severity, g.certainty) + CorroborationBonus(Cardinality(g.tools))
                 + (IF g.captured THEN 10 ELSE 0)
        minus == IF g.conflicting THEN 40 ELSE 0
    IN IF plus < minus THEN 0 ELSE Min({plus - minus, 100})

Band(score) ==
    CASE score >= 90 -> "confirmed"
      [] score >= 70 -> "verified"
      [] score >= 50 -> "possible"
      [] OTHER       -> "informational"

(***************************************************************************)
(* Evidence: for every group a record of what was seen and one of the      *)
(* verdict, each behind a file of its own                                  *)
(***************************************************************************)

PrRest == <<prRows, prAsk>>

\* The key of evidence is an identifier of its own.
EvidenceKey(r, n) == <<"pentest-evidence", prRun[r].scan, r, n>>

EvidenceTypeFor(family) ==
    CASE family = "tls" -> "tls_snapshot"
      [] family = "headers" -> "header_snapshot"
      [] family = "recon" -> "dns_record"
      [] family \in {"disclosure", "misconfig", "nuclei"} -> "request_response"
      [] OTHER -> "tool_raw_output"

\* A file is written over whatever was there.
Put(key, content) == prFiles' = [k \in DOMAIN prFiles \cup {key} |->
                                    IF k = key THEN content ELSE prFiles[k]]

\* Recorder.Record: the file, and then the record that tells of it
CaptureEvidence(r) ==
    /\ prRun[r].at = "evidence"
    /\ LET groups == prRun[r].in.groups
           n == Len(prRun[r].evidence)
       IN IF n = 2 * Len(groups)
          THEN /\ prRun' = [prRun EXCEPT ![r].at = "handoff"]
               /\ UNCHANGED prFiles
          ELSE LET g == groups[(n \div 2) + 1]
                   type == IF n % 2 = 0 THEN EvidenceTypeFor(g.family) ELSE "verification_result"
               IN /\ Put(EvidenceKey(r, n + 1), [about |-> g.id, type |-> type])
                  /\ prRun' = [prRun EXCEPT ![r].evidence =
                       Append(@, [finding |-> g.id, type |-> type, key |-> EvidenceKey(r, n + 1)])]
    /\ UNCHANGED <<PrRest, prFaults>>

\* A file cannot be written: the stage is skipped from there on.
EvidenceFails(r) ==
    /\ prRun[r].at = "evidence" /\ Len(prRun[r].evidence) < 2 * Len(prRun[r].in.groups)
    /\ prFaults < MaxPrFaults /\ prFaults' = prFaults + 1
    /\ prRun' = [prRun EXCEPT ![r].at = "handoff"]
    /\ UNCHANGED <<PrRest, prFiles>>

(***************************************************************************)
(* Reports (stages/report_handoff.go, reporting/pentest)                   *)
(***************************************************************************)

SeverityRank(severity) == CHOOSE i \in DOMAIN Severities : Severities[i] = severity

RefsOf(evidence, g) == {e.key : e \in {e \in ToSet(evidence) : e.finding = g.id}}

FindingSummaryFrom(g, evidence) ==
    [finding |-> g.id, family |-> g.family, severity |-> g.severity, score |-> GroupScore(g),
     band |-> Band(GroupScore(g)), places |-> g.places, tools |-> g.tools, remedy |-> g.remedy,
     refs |-> RefsOf(evidence, g)]

\* Worst first, then surest first, otherwise as they came
SortedBySeverity(findings) ==
    LET Before(i, j) ==
            LET a == SeverityRank(findings[i].severity)
                b == SeverityRank(findings[j].severity)
            IN \/ a < b
               \/ a = b /\ findings[i].score > findings[j].score
               \/ a = b /\ findings[i].score = findings[j].score /\ i < j
        order == SortSeq([i \in DOMAIN findings |-> i], Before)
    IN [i \in DOMAIN findings |-> findings[order[i]]]

\* One entry for each severity and remedy, at its worst finding
RoadmapOf(sorted) ==
    FoldLeft(LAMBDA map, f :
                 IF f.remedy = None \/ <<f.severity, f.remedy>> \in ToSet(map) THEN map
                 ELSE Append(map, <<f.severity, f.remedy>>),
             <<>>, sorted)

AttackSurfaceSummary(in) ==
    [ports |-> {s.port : s \in ToSet(in.services)}, http |-> in.http, assets |-> Len(in.assets)]

BuildExecutiveReport(in, findings) ==
    LET sorted == SortedBySeverity(findings)
    IN [surface |-> AttackSurfaceSummary(in),
        risk    |-> [s \in ToSet(Severities) |->
                       Cardinality({i \in DOMAIN findings : findings[i].severity = s})],
        top     |-> SubSeq(sorted, 1, Min({Len(sorted), topFindingsLimit})),
        roadmap |-> RoadmapOf(sorted)]

BuildTechnicalReport(in, findings) ==
    [assets |-> ToSet(in.assets), findings |-> ToSet(findings)]

BuildJSONExport(in, findings) ==
    [surface |-> AttackSurfaceSummary(in), findings |-> ToSet(findings)]

\* ReportHandoff, and the payloads reportInputsFromStats renders of its bundle
PayloadOf(type, in, evidence) ==
    LET findings == [i \in DOMAIN in.groups |-> FindingSummaryFrom(in.groups[i], evidence)]
    IN CASE type = "executive" -> BuildExecutiveReport(in, findings)
         [] type = "technical" -> BuildTechnicalReport(in, findings)
         [] type = "json"      -> BuildJSONExport(in, findings)

(***************************************************************************)
(* The statements of IngestScanResult (modules/pentest: ingest.go,         *)
(* service.go), each to a table or to the files                            *)
(***************************************************************************)

Write(to, row) == [to |-> to, row |-> row]

AssetInputsFrom(r, in) ==
    [i \in DOMAIN in.assets |-> Write("assets", [of |-> r, value |-> in.assets[i].value,
                                                 validated |-> in.assets[i].validated])]
ServiceInputsFrom(r, in) ==
    [i \in DOMAIN in.services |-> Write("services", [of |-> r, port |-> in.services[i].port,
                                                     name |-> in.services[i].name])]
\* Whatever a path was found by and at, it is one of the target's, over TLS.
EndpointInputsFrom(r, in) ==
    [i \in DOMAIN in.paths |-> Write("endpoints", [of |-> r, url |-> <<"https", in.paths[i]>>,
                                                   source |-> "crawl"])]
ToolRunInputsFrom(r, in) ==
    [i \in DOMAIN in.runs |-> Write("tool_runs", [of |-> r, n |-> i, script |-> in.runs[i]])]

FindingInputsFrom(r, in) ==
    [i \in DOMAIN in.groups |->
        LET g == in.groups[i]
        IN Write("findings", [of |-> r, id |-> <<r, i>>, finding |-> g.id, family |-> g.family,
                              severity |-> g.severity, score |-> GroupScore(g), band |-> Band(GroupScore(g)),
                              places |-> g.places, tools |-> g.tools])]

\* findingRowIDs: the row just inserted for the finding an evidence names
FindingRowID(r, in, finding) ==
    LET at == {i \in DOMAIN in.groups : in.groups[i].id = finding}
    IN IF at = {} THEN None ELSE <<r, Max(at)>>

EvidenceInputsFrom(r, in, evidence) ==
    [i \in DOMAIN evidence |->
        Write("evidence", [of |-> r, id |-> <<r, i>>,
                           finding |-> FindingRowID(r, in, evidence[i].finding),
                           type |-> evidence[i].type, key |-> evidence[i].key])]

TopSeverityAcrossFindings(in) ==
    IF in.groups = <<>> THEN None
    ELSE Severities[Min({SeverityRank(g.severity) : g \in ToSet(in.groups)})]

ReportObjectKey(r, type) == <<"pentest-reports", r, type>>

\* Of each report the file, and then the row with its key
ReportInputsFromStats(r, in, evidence) ==
    FoldLeft(\o, <<>>,
        [i \in DOMAIN ReportTypes |->
            LET type == ReportTypes[i] key == ReportObjectKey(r, type)
            IN <<Write("files", [key |-> key, content |-> PayloadOf(type, in, evidence)]),
                 Write("reports", [of |-> r, type |-> type, findings |-> Len(in.groups),
                                   top |-> TopSeverityAcrossFindings(in), key |-> key])>>])

\* A service with a name counts as one that speaks HTTP.
SurfaceOf(r, in) ==
    [of |-> r, assets |-> Len(in.assets), subdomains |-> in.subdomains,
     ports |-> Len(in.services),
     http |-> Cardinality({i \in DOMAIN in.services : in.services[i].name # None})]

ScanRowOf(r, in, evidence) ==
    [id |-> r, scan |-> prRun[r].scan, findings |-> Len(in.groups), evidence |-> Len(evidence)]

\* Instead: the rollup with the header it belongs to.
StatementsRollupFirst(r, in, evidence) ==
    <<Write("scans", ScanRowOf(r, in, evidence)), Write("attack_surface", SurfaceOf(r, in))>>
    \o AssetInputsFrom(r, in) \o ServiceInputsFrom(r, in) \o EndpointInputsFrom(r, in)
    \o ToolRunInputsFrom(r, in) \o FindingInputsFrom(r, in)
    \o EvidenceInputsFrom(r, in, evidence) \o ReportInputsFromStats(r, in, evidence)
    \o <<Write("audit_logs", [of |-> r])>>

Statements(r, in, evidence) ==
    <<Write("scans", ScanRowOf(r, in, evidence))>>
    \o AssetInputsFrom(r, in) \o ServiceInputsFrom(r, in) \o EndpointInputsFrom(r, in)
    \o ToolRunInputsFrom(r, in) \o FindingInputsFrom(r, in)
    \o EvidenceInputsFrom(r, in, evidence) \o ReportInputsFromStats(r, in, evidence)
    \o <<Write("attack_surface", SurfaceOf(r, in)), Write("audit_logs", [of |-> r])>>

\* The report stage hands over, the worker ingests.
HandOver(r) ==
    /\ prRun[r].at = "handoff"
    /\ prRun' = [prRun EXCEPT ![r].at = "ingest",
                              ![r].todo = Statements(r, prRun[r].in, prRun[r].evidence)]
    /\ UNCHANGED <<PrRest, prFiles, prFaults>>

(***************************************************************************)
(* The statements, one by one                                              *)
(***************************************************************************)

Due(r, to) == prRun[r].at = "ingest" /\ prRun[r].todo # <<>> /\ Head(prRun[r].todo).to = to
Statement(r) == Head(prRun[r].todo).row

Advance(r) ==
    /\ prRun' = [prRun EXCEPT ![r].todo = Tail(@),
                              ![r].at = IF Len(prRun[r].todo) = 1 THEN "over" ELSE "ingest"]
    /\ UNCHANGED <<prAsk, prFaults>>

Insert(to, row) == prRows' = [prRows EXCEPT ![to] = @ \cup {row}] /\ UNCHANGED prFiles
\* ON CONFLICT: in the place of the rows that have its key
Replace(to, row, old) == prRows' = [prRows EXCEPT ![to] = (@ \ old) \cup {row}] /\ UNCHANGED prFiles

\* A scan has one row: the second run of a scan ends here.
CreateScan(r) ==
    /\ Due(r, "scans")
    /\ IF \E row \in prRows["scans"] : row.scan = prRun[r].scan
       THEN /\ prRun' = [prRun EXCEPT ![r].todo = <<>>, ![r].at = "over"]
            /\ UNCHANGED <<PrRest, prFiles, prFaults>>
       ELSE Insert("scans", Statement(r)) /\ Advance(r)

CreateAsset(r) ==
    /\ Due(r, "assets")
    /\ Replace("assets", Statement(r), {a \in prRows["assets"] : a.of = r /\ a.value = Statement(r).value})
    /\ Advance(r)

CreateService(r) ==
    /\ Due(r, "services")
    /\ Replace("services", Statement(r), {s \in prRows["services"] : s.of = r /\ s.port = Statement(r).port})
    /\ Advance(r)

\* ON CONFLICT DO NOTHING: no row is returned, and none is missed.
CreateEndpoint(r) ==
    /\ Due(r, "endpoints")
    /\ IF \E e \in prRows["endpoints"] : e.of = r /\ e.url = Statement(r).url
       THEN UNCHANGED <<prRows, prFiles>>
       ELSE Insert("endpoints", Statement(r))
    /\ Advance(r)

CreateToolRun(r) == Due(r, "tool_runs") /\ Insert("tool_runs", Statement(r)) /\ Advance(r)

\* With the places and the tools, in a transaction
CreateFinding(r) == Due(r, "findings") /\ Insert("findings", Statement(r)) /\ Advance(r)

CreateEvidence(r) == Due(r, "evidence") /\ Insert("evidence", Statement(r)) /\ Advance(r)

StoreReport(r) ==
    /\ Due(r, "files")
    /\ Put(Statement(r).key, Statement(r).content)
    /\ Advance(r) /\ UNCHANGED prRows

UpsertReport(r) ==
    /\ Due(r, "reports")
    /\ Replace("reports", Statement(r), {p \in prRows["reports"] : p.of = r /\ p.type = Statement(r).type})
    /\ Advance(r)

UpsertSurface(r) ==
    /\ Due(r, "attack_surface")
    /\ Replace("attack_surface", Statement(r), {a \in prRows["attack_surface"] : a.of = r})
    /\ Advance(r)

CreateAuditLog(r) == Due(r, "audit_logs") /\ Insert("audit_logs", Statement(r)) /\ Advance(r)

\* A statement or a file fails, or the process dies: what was written stays, and
\* the worker goes on without the rest.
IngestFails(r) ==
    /\ prRun[r].at = "ingest"
    /\ prFaults < MaxPrFaults /\ prFaults' = prFaults + 1
    /\ prRun' = [prRun EXCEPT ![r].at = "over", ![r].todo = <<>>]
    /\ UNCHANGED <<PrRest, prFiles>>

(***************************************************************************)
(* Requests (handler/pentest_handler.go): each statement reads what is     *)
(* there by then                                                           *)
(***************************************************************************)

PrReads == UNCHANGED <<prRun, prRows, prFiles, prFaults>>

RowsOf(table, id) == {row \in prRows[table] : row.of = id}

AssetsOf(id)    == RowsOf("assets", id)
ServicesOf(id)  == RowsOf("services", id)
EndpointsOf(id) == RowsOf("endpoints", id)
FindingsOf(id)  == RowsOf("findings", id)
ReportsOf(id)   == RowsOf("reports", id)
SurfaceRows(id) == RowsOf("attack_surface", id)
ScanRows(scan)  == {row \in prRows["scans"] : row.scan = scan}

\* A finding and a piece of evidence are looked up by their own identifiers,
\* whatever scan they belong to.
FindingByID(id)         == {f \in prRows["findings"] : f.id = id}
EvidenceByID(id)        == {e \in prRows["evidence"] : e.id = id}
EvidenceByFinding(id)   == {e \in prRows["evidence"] : e.finding = id}
ReportByType(id, type)  == {p \in ReportsOf(id) : p.type = type}

FileOf(key) == IF key \in DOMAIN prFiles THEN prFiles[key] ELSE NoFile

\* What is told of a row (transport/http/dto/pentest.go): never the scan it is of,
\* nor which of the run's findings it came from
FromPentestScanSummary(s) == [scan |-> s.scan, findings |-> s.findings, evidence |-> s.evidence]
FromAsset(a)    == [value |-> a.value, validated |-> a.validated]
FromService(s)  == [port |-> s.port, name |-> s.name]
FromEndpoint(e) == [url |-> e.url, source |-> e.source]
FromAttackSurface(rollup, assets, services, endpoints) ==
    [assets |-> rollup.assets, subdomains |-> rollup.subdomains, ports |-> rollup.ports,
     http |-> rollup.http, listed |-> [assets    |-> {FromAsset(a) : a \in assets},
                                       services  |-> {FromService(s) : s \in services},
                                       endpoints |-> {FromEndpoint(e) : e \in endpoints}]]
FromPentestFinding(f) ==
    [id |-> f.id, family |-> f.family, severity |-> f.severity, score |-> f.score,
     band |-> f.band, places |-> f.places, tools |-> f.tools]
FromPentestEvidence(e) == [id |-> e.id, finding |-> e.finding, type |-> e.type, key |-> e.key]
FromPentestReport(p) == [type |-> p.type, findings |-> p.findings, top |-> p.top, key |-> p.key]

\* getOwnedScan, getOwnedProject: a scan of somebody else is one that is not there.
MaySee(actor, scan) ==
    /\ actor.org = OrgOf[ProjectOf[scan]]
    /\ actor.project \in {AnyProject, ProjectOf[scan]}

\* What a request is for: one of the lists, or what its path names
Wants ==
    [what : {"scan", "surface", "findings", "reports", "authorization"}]
    \cup [what : {"report", "report file"}, type : ToSet(ReportTypes)]
    \cup [what : {"finding", "evidence"}, finding : {f.id : f \in prRows["findings"]}]
    \cup [what : {"evidence file"}, finding : {f.id : f \in prRows["findings"]},
          evidence : {e.id : e \in prRows["evidence"]}]

Answer(body) == prAsk' = [at |-> "answered", actor |-> prAsk.actor, scan |-> prAsk.scan,
                          want |-> prAsk.want, body |-> body]
NotFound == prAsk' = [at |-> "refused"]

\* resolvePentestScan: whose scan it is, and its row
ResolvePentestScan(actor, scan, want) ==
    /\ prAsk.at = "idle"
    /\ MaySee(actor, scan) /\ ScanRows(scan) # {}
    /\ prAsk' = [at |-> "resolved", actor |-> actor, scan |-> scan, want |-> want,
                 summary |-> CHOOSE row \in ScanRows(scan) : TRUE]
    /\ PrReads

RefuseScan(actor, scan) ==
    /\ prAsk.at = "idle"
    /\ ~MaySee(actor, scan) \/ ScanRows(scan) = {}
    /\ NotFound
    /\ PrReads

Resolved(what) == prAsk.at = "resolved" /\ prAsk.want.what = what

GetScan == Resolved("scan") /\ Answer(FromPentestScanSummary(prAsk.summary)) /\ PrReads

\* GetAttackSurface: the rollup, and one after the other what it counts
GetAttackSurface ==
    /\ Resolved("surface")
    /\ LET rows == SurfaceRows(prAsk.summary.id)
       IN IF rows = {} THEN NotFound
          ELSE prAsk' = [prAsk EXCEPT !.at = "surface"] @@ [rollup |-> CHOOSE row \in rows : TRUE]
    /\ PrReads

ListAssets ==
    /\ prAsk.at = "surface"
    /\ prAsk' = [prAsk EXCEPT !.at = "assets"] @@ [assets |-> AssetsOf(prAsk.summary.id)]
    /\ PrReads

ListServices ==
    /\ prAsk.at = "assets"
    /\ prAsk' = [prAsk EXCEPT !.at = "services"] @@ [services |-> ServicesOf(prAsk.summary.id)]
    /\ PrReads

ListEndpoints ==
    /\ prAsk.at = "services"
    /\ Answer(FromAttackSurface(prAsk.rollup, prAsk.assets, prAsk.services,
                                EndpointsOf(prAsk.summary.id)))
    /\ PrReads

ListFindings ==
    /\ Resolved("findings")
    /\ Answer({FromPentestFinding(f) : f \in FindingsOf(prAsk.summary.id)})
    /\ PrReads

\* resolveOwnedFinding: the row named, if it is of this scan
OwnedFinding == {f \in FindingByID(prAsk.want.finding) : f.of = prAsk.summary.id}

GetFinding ==
    /\ Resolved("finding")
    /\ IF OwnedFinding = {} THEN NotFound
       ELSE Answer({FromPentestFinding(f) : f \in OwnedFinding})
    /\ PrReads

ListEvidenceForFinding ==
    /\ Resolved("evidence")
    /\ IF OwnedFinding = {} THEN NotFound
       ELSE Answer({FromPentestEvidence(e) : e \in EvidenceByFinding(prAsk.want.finding)})
    /\ PrReads

\* resolveOwnedEvidence: the row named, if it is of this finding
OwnedEvidence ==
    {e \in EvidenceByID(prAsk.want.evidence) :
        e.of = prAsk.summary.id /\ e.finding = prAsk.want.finding}

DownloadEvidence ==
    /\ Resolved("evidence file")
    /\ IF OwnedFinding = {} \/ OwnedEvidence = {} THEN NotFound
       ELSE Answer(FileOf((CHOOSE e \in OwnedEvidence : TRUE).key))
    /\ PrReads

ListReports ==
    /\ Resolved("reports")
    /\ Answer({FromPentestReport(p) : p \in ReportsOf(prAsk.summary.id)})
    /\ PrReads

GetReport ==
    /\ Resolved("report")
    /\ LET rows == ReportByType(prAsk.summary.id, prAsk.want.type)
       IN IF rows = {} THEN NotFound ELSE Answer({FromPentestReport(p) : p \in rows})
    /\ PrReads

\* GetReportPayload: what the row's key leads to
DownloadReport ==
    /\ Resolved("report file")
    /\ LET rows == ReportByType(prAsk.summary.id, prAsk.want.type)
       IN IF rows = {} THEN NotFound ELSE Answer(FileOf((CHOOSE p \in rows : TRUE).key))
    /\ PrReads

\* Nothing writes an authorisation.
GetAuthorization == Resolved("authorization") /\ NotFound /\ PrReads

\* The connection is free for another request.
Answered == prAsk.at \in {"answered", "refused"} /\ prAsk' = NoAsk /\ PrReads

(***************************************************************************)
(* The next step                                                           *)
(***************************************************************************)

\* IngestScanResult: the next of its statements
IngestStep(r) ==
    \/ CreateScan(r) \/ CreateAsset(r) \/ CreateService(r) \/ CreateEndpoint(r)
    \/ CreateToolRun(r) \/ CreateFinding(r) \/ CreateEvidence(r)
    \/ StoreReport(r) \/ UpsertReport(r) \/ UpsertSurface(r) \/ CreateAuditLog(r)

PrRunStep(r) ==
    \/ CaptureEvidence(r) \/ EvidenceFails(r) \/ HandOver(r)
    \/ IngestStep(r) \/ IngestFails(r)

PrRequest ==
    \/ \E actor \in Actors, scan \in DOMAIN ProjectOf :
         RefuseScan(actor, scan) \/ \E want \in Wants : ResolvePentestScan(actor, scan, want)
    \/ GetScan
    \/ GetAttackSurface \/ ListAssets \/ ListServices \/ ListEndpoints
    \/ ListFindings \/ GetFinding \/ ListEvidenceForFinding \/ DownloadEvidence
    \/ ListReports \/ GetReport \/ DownloadReport \/ GetAuthorization
    \/ Answered

PrNext == PrRequest \/ \E r \in PrRuns : PrRunStep(r)

PrSpec == PrInit /\ [][PrNext]_PrVars

(***************************************************************************)
(* Properties                                                              *)
(***************************************************************************)

\* Two runs of a scan do not mix: it has one row, and every other row and every
\* report belongs to the run that inserted it and names rows that are there.
OneRecordPerScan ==
    /\ \A x, y \in prRows["scans"] : x.scan = y.scan => x = y
    /\ \A t \in Tables \ {"scans"} : \A row \in prRows[t] : \E x \in prRows["scans"] : x.id = row.of
    /\ \A e \in prRows["evidence"] :
         \E f \in FindingsOf(e.of) :
            f.id = e.finding /\ f.finding = prFiles[e.key].about

\* What there is a row of can be downloaded, whenever the ingest stopped.
PayloadsAreThere ==
    /\ \A row \in prRows["evidence"] \cup prRows["reports"] : row.key \in DOMAIN prFiles
    /\ prAsk.at = "answered" /\ prAsk.want.what \in {"report file", "evidence file"} =>
         prAsk.body # NoFile

\* A scan that is audited as ingested is all there, and its rows, its counts and
\* the files of its reports tell the same: how many findings, the worst of them,
\* and the evidence of each. Evidence a run could not file is missing from all.
AuditedMeansWhole ==
    \A log \in prRows["audit_logs"] :
        LET findings == FindingsOf(log.of)
            evidence == RowsOf("evidence", log.of)
            ranks    == {SeverityRank(f.severity) : f \in findings}
            Tech     == prFiles[ReportObjectKey(log.of, "technical")]
            Exec     == prFiles[ReportObjectKey(log.of, "executive")]
        IN /\ \E row \in prRows["scans"] :
                row.id = log.of /\ row.findings = Cardinality(findings)
                /\ row.evidence = Cardinality(evidence)
           /\ {p.type : p \in ReportsOf(log.of)} = ToSet(ReportTypes)
           /\ \A p \in ReportsOf(log.of) :
                /\ p.findings = Cardinality(findings)
                /\ p.top = IF findings = {} THEN None ELSE Severities[Min(ranks)]
           /\ {f.finding : f \in Tech.findings} = {f.finding : f \in findings}
           /\ \A f \in findings : \E t \in Tech.findings :
                /\ t.finding = f.finding /\ t.score = f.score /\ t.band = f.band
                /\ t.refs = {e.key : e \in {e \in evidence : e.finding = f.id}}
           /\ \A s \in ToSet(Severities) :
                Exec.risk[s] = Cardinality({f \in findings : f.severity = s})
           /\ findings # {} => SeverityRank(Exec.top[1].severity) = Min(ranks)

\* A page that shows the rollup shows what it counts, although the four reads
\* see four moments of an ingest.
PagesAgree ==
    prAsk.at = "answered" /\ prAsk.want.what = "surface" =>
        /\ prAsk.body.assets = Cardinality(prAsk.body.listed.assets)
        /\ prAsk.body.ports = Cardinality(prAsk.body.listed.services)

\* Nobody is shown rows or files of a scan that is not theirs, or of another
\* finding or scan than the one they named.
AnswersAreTheirs ==
    prAsk.at = "answered" =>
        LET mine     == {row.id : row \in ScanRows(prAsk.scan)}
            findings == UNION {FindingsOf(id) : id \in mine}
            evidence == {e \in UNION {RowsOf("evidence", id) : id \in mine} :
                           "finding" \in DOMAIN prAsk.want /\ e.finding = prAsk.want.finding}
            reports  == UNION {ReportsOf(id) : id \in mine}
        IN /\ MaySee(prAsk.actor, prAsk.scan)
           /\ prAsk.want.what \in {"findings", "finding"} =>
                prAsk.body \subseteq {FromPentestFinding(f) : f \in findings}
           /\ prAsk.want.what = "evidence" =>
                prAsk.body \subseteq {FromPentestEvidence(e) : e \in evidence}
           /\ prAsk.want.what \in {"reports", "report"} =>
                prAsk.body \subseteq {FromPentestReport(p) : p \in reports}
           /\ prAsk.want.what = "evidence file" =>
                \E e \in evidence : e.id = prAsk.want.evidence /\ prFiles[e.key] = prAsk.body

\* "A real disagreement between two signals" keeps a group from counting as
\* verified, whatever else speaks for it.
ConflictsAreNotVerified ==
    \A f \in prRows["findings"] :
        \A g \in ToSet(prRun[f.of].in.groups) :
            g.id = f.finding /\ g.conflicting => f.band \in {"possible", "informational"}

\* What is kept of a pentest is one run's, is there when it is shown, agrees with
\* itself and is shown to those it belongs to.
PentestOnRecord ==
    /\ OneRecordPerScan /\ PayloadsAreThere /\ AuditedMeansWhole
    /\ PagesAgree /\ AnswersAreTheirs /\ ConflictsAreNotVerified
=============================================================================
