\* The commit that finalises a scan fails, and its caller goes on as if it had not.
CONSTANTS
    s1 = s1
    old = old
    j1 = j1
    j2 = j2
    jOld = jOld
    w1 = w1
    w2 = w2
    z1 = z1
    z2 = z2
    NoJob = NoJob
    Scans <- OneScan
    Jobs <- TwoJobs
    ScanOf <- TwoJobsOf
    Workers = {w1, w2}
    Sweepers = {z1}
    LegacyStuck = {}
    Faults = {"db"}
    MaxFaults = 1
SPECIFICATION Spec
INVARIANT
    ReportsOnlyWhatItFinalised
