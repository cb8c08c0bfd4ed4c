-------------------------- MODULE MCScanLifecycle --------------------------
(***************************************************************************)
(* Small instances of ScanLifecycle: one scan of two engines with two      *)
(* workers, and one scan next to one an older release left stuck.          *)
(***************************************************************************)
EXTENDS ScanRefinement, TLC

CONSTANTS s1, old, j1, j2, jOld, w1, w2, z1, z2

OneScan   == {s1}
TwoJobs   == {j1, j2}
TwoJobsOf == (j1 :> s1) @@ (j2 :> s1)

ScanAndOld   == {s1, old}
OneJobEach   == {j1, jOld}
OneJobEachOf == (j1 :> s1) @@ (jOld :> old)
OnlyOld      == {old}

WorkerSymmetry  == Permutations({w1, w2})
SweeperSymmetry == Permutations({z1, z2})
=============================================================================
