\* Two workers or requests at a time, one fault, and one of everything they are
\* about: a branch of two commits with a pull request, an hour that ends, an
\* admin and a guest with an invite to each place, an account that two failed
\* logins lock, a session of three tokens, two report addresses and two links, a
\* project with two personal tokens and room for two documents, a browser with one
\* tab (and faults) or with two (without), a pool of two keys for one command and
\* one review, a launcher with an engine that needs a repository and one that needs
\* a target, and two scans, one of them with two engines.
CONSTANTS
    first = first
    second = second
    founder = founder
    guest = guest
    orgInvite = orgInvite
    shareInvite = shareInvite
    session = session
    t1 = t1
    t2 = t2
    office = office
    home = home
    only = only
    question = question
    review = review
    LsWorkers = {first, second}
    MaxHead = 2
    PullRequests = {1}
    HourlyLimit = 1
    BreakerFactor = 3
    Balances = {1, 3}
    Floor = 1
    MaxHours = 1
    MaxLsFaults = 1
    Founder = founder
    Guests = {guest}
    OrgInvites = {orgInvite}
    ShareInvites = {shareInvite}
    Invitee <- BothForTheGuest
    MbRequests = {first, second}
    MaxMbFaults = 1
    AcRequests = {first, second}
    MaxFailedLogins = 2
    MaxLocks = 1
    MaxWrong = 3
    MaxOrgs = 2
    MaxAcFaults = 1
    Families = {session}
    MaxTokens = 3
    SsRequests = {first, second}
    MaxSsFaults = 1
    NoToken = NoToken
    PjRequests = {first, second}
    PersonalTokens = {t1, t2}
    MaxDocuments = 2
    MaxPjFaults = 1
    Addresses = {office, home}
    Account = Account
    MaxLinks = 2
    AdRequests = {first, second}
    MaxAdFaults = 1
    Tabs = {first, second, only}
    Calls = {first, second}
    Destinations = {"other", "project"}
    MaxFamilies = 2
    MaxRefreshes = 2
    MaxBwFaults = 1
    AsRequests = {first, second}
    Commands = {question}
    Passes = {review}
    PoolSize = 2
    Price = 1
    MaxBalance = 2
    wide = wide
    narrow = narrow
    SrEngines = {"depscan", "pentest"}
    Settings <- DeepPentest
    NoSettings = NoSettings
    Ceilings = {5, 10}
    SrBalances = {2000, 60000}
    MaxChanges = 1
    MaxSrFaults = 1
    SwScans = {wide, narrow}
    SwJobs = {"code", "deps", "web"}
    SwScanOf <- OnScans
    PageScan = wide
    Shared = {narrow}
    Reported = {100}
    Elapsed = {100}
    SwTicks = {first, second}
    MaxActive = 1
    MaxSwFaults = 1
SPECIFICATION RqSpec
SYMMETRY RqSymmetry
INVARIANTS
    RequestsTypeOK
    PushesScannedOnce
    LiveScansStayWithinLimits
    MembersInOrder
    SignedInInOrder
    ReportsGoWhereVerified
    OnlyAStaleReadUndoes
    ScreensInOrder
    AskedAndPaidFor
CHECK_DEADLOCK FALSE
