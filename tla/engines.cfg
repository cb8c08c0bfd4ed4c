\* Two scans of dependencies with three checkouts and four advisories, one scan
\* of manifests, of workflows and of documents; two code scans of one project, an
\* image scan of eight commits; two of a script, a scanner and an image on one
\* Docker host, two processes that start three times in all, one failing call; one
\* pentest of four sites at each preset, two calls that fail or are cut short.
CONSTANTS
    d1 = d1
    d2 = d2
    p1 = p1
    p2 = p2
    tool = tool
    analyse = analyse
    build = build
    DepScans = {d1, d2}
    Checkouts <- SomeCheckouts
    AdvisoryOf <- SomeAdvisories
    KnownAtFirst = {"g1", "g2", "g4"}
    BatchSize = 2
    MaxOutages = 1
    MaxExpiries = 1
    K8Scans = {d1, d2}
    K8Checkouts <- SomeManifests
    ReviewedScans = {d1}
    Repositories <- SomeRepositories
    ModelAnswers <- SomeAnswers
    Categories = {"q", "d"}
    MaxWorkflows = 2
    MaxDocuments = 3
    DockerHosts = {p1, p2}
    DockerRuns = {tool, analyse, build}
    KindOf <- OneOfAKind
    HostOf <- OnTwoHosts
    AtRoot = {}
    MaxDkStarts = 3
    MaxDkFaults = 1
    WrappedScans = {d1, d2}
    Branch <- AllCommits
    ImageContents <- SomeImages
    StaticRules <- SomeRules
    PageSize = 1
    MaxCollected = 3
    MaxReviews = 1
    MaxSwitches = 1
    Sites <- SomeSites
    PentestConfigs <- SomeConfigs
    PathCap <- SomeCaps
    MaxToolFaults = 2
SPECIFICATION EnSpec
INVARIANTS
    EnginesTypeOK
    AdvisoriesReported
    ManifestsJudgedAlike
    TheModelOnlyAdds
    HostKeptClean
    ToolsReportWhatIsThere
PROPERTY
    RunAsPromised
CHECK_DEADLOCK FALSE
