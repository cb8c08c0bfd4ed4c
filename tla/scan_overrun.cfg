\* One scan of one engine next to a scan left stuck, a worker and two
\* sweepers, with workers slower than the orphan deadline and pushes that
\* take effect but report an error: what holds even then.
CONSTANTS
    s1 = s1
    old = old
    j1 = j1
    j2 = j2
    jOld = jOld
    w1 = w1
    w2 = w2
    z1 = z1
    z2 = z2
    NoJob = NoJob
    Scans <- ScanAndOld
    Jobs <- OneJobEach
    ScanOf <- OneJobEachOf
    Workers = {w1}
    Sweepers = {z1, z2}
    LegacyStuck <- OnlyOld
    Faults = {"slow", "lostreply", "db", "crash"}
    MaxFaults = 2
SPECIFICATION Spec
SYMMETRY SweeperSymmetry
INVARIANTS
    IInv
    CancelledScanHasNoScore
PROPERTIES
    FinishedScanIsFinal
