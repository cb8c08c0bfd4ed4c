\* One scan, two engines, two workers, one sweeper, and every fault but a
\* worker slower than the orphan deadline and a push that lies about itself.
CONSTANTS
    s1 = s1
    old = old
    j1 = j1
    j2 = j2
    jOld = jOld
    w1 = w1
    w2 = w2
    z1 = z1
    z2 = z2
    NoJob = NoJob
    Scans <- OneScan
    Jobs <- TwoJobs
    ScanOf <- TwoJobsOf
    Workers = {w1, w2}
    Sweepers = {z1}
    LegacyStuck = {}
    Faults = {"crash", "db", "redis", "flush"}
    MaxFaults = 3
SPECIFICATION Spec
SYMMETRY WorkerSymmetry
INVARIANTS
    ClaimedOnce
    ScanEndsWithItsJobs
    ResultsBelongTogether
    AnnouncedAtMostOnce
    RefundedOnlyIfUnserved
PROPERTIES
    ImplementsPromise
