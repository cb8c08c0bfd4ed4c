\* Three jobs of one scan and one of another; a pentest script, or a code scan,
\* with two processes that start three times in all; one schedule on two
\* replicas; two reports and two senders, one lease that lapses, with one fault
\* in each; a pentest of two ports and two files; two runs that store what they
\* found and three who ask for it; the findings of two engines; two processes that
\* start three times in all, with two rules, two migrations and one fault.
CONSTANTS
    j1 = j1
    j2 = j2
    j3 = j3
    j4 = j4
    c1 = c1
    c2 = c2
    w1 = w1
    w2 = w2
    m1 = m1
    m2 = m2
    script = script
    scan = scan
    root = root
    backup = backup
    dump = dump
    intranet = intranet
    www = www
    code = code
    pentest = pentest
    early = early
    late = late
    s1 = s1
    s2 = s2
    p1 = p1
    p2 = p2
    o1 = o1
    o2 = o2
    cipher = cipher
    csp = csp
    rotate = rotate
    AnyProject = AnyProject
    NoJob = NoJob
    NoMail = NoMail
    ClonedScans = {c1, c2}
    RepoJobs = {j1, j2, j3, j4}
    ScanOf <- ThreeAndOne
    Processes = {w1, w2}
    ToolRuns = {script, scan}
    RunBy <- OnTheFirst
    Fenced = {script}
    WithFile = {script, scan}
    JobFirst = {scan}
    MaxStarts = 3
    MaxSbFaults = 1
    Replicas = {w1, w2}
    Crons = {1, 2}
    MaxClock = 2
    MaxEdits = 1
    MaxScFaults = 1
    FinishedScans = {m1, m2}
    Senders = {w1, w2}
    SenderBatch = 2
    MaxAttempts = 2
    MaxObFaults = 1
    MaxLapses = 1
    Ports = {443, 8443}
    Urls = {backup, dump}
    Root = root
    Subdomains = {intranet, www}
    Public = {www}
    Detectable <- PentestFindings
    AtMost <- FindingsOfTwo
    EngineWeight <- WeightsOfTwo
    PrRuns = {early, late}
    ScansOf <- ScansOfRuns
    ProjectOf <- ProjectOfTwo
    OrgOf <- OneOrg
    Actors <- ThreeActors
    RunResults <- MuchAndLittle
    topFindingsLimit = 1
    MaxPrFaults = 1
    Nodes = {w1, w2}
    SettingsOf <- SettingsOfTwo
    NoSettings = NoSettings
    RuleIDs = {1, 2}
    Migrations = 2
    RulesSince = 1
    MaxRequests = 1
    MaxBoots = 3
    MaxDpFaults = 1
SPECIFICATION MCSpec
INVARIANTS
    ServicesTypeOK
    SharedClone
    FencedAndCleared
    ReplicasInStep
    OneRowPerIssue
    PentestOnRecord
PROPERTIES
    ServicesDoTheirWork
    MoreIsNeverBetter
CHECK_DEADLOCK FALSE
