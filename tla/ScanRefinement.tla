--------------------------- MODULE ScanRefinement ---------------------------
(***************************************************************************)
(* ScanLifecycle implements ScanPromise: what a user can see of a scan is  *)
(* its row's status with queued and running taken together, and of a job   *)
(* whether it is finished.                                                 *)
(***************************************************************************)
EXTENDS ScanLifecycle

\* domain.ScanStatus as the promise sees it.
PhaseOf(status) ==
    CASE status = "none" -> "absent"
      [] status \in {"queued", "running"} -> "open"
      [] OTHER -> status

\* domain.JobStatus as the promise sees it.
JobPhaseOf(status) ==
    CASE status = "none" -> "absent"
      [] status \in {"queued", "running"} -> "open"
      [] OTHER -> "closed"

phaseBar == [s \in Scans |-> PhaseOf(scanStatus[s])]
jobBar   == [j \in Jobs |-> JobPhaseOf(jobStatus[j])]

Promise == INSTANCE ScanPromise
    WITH Inherited <- LegacyStuck, phase <- phaseBar, job <- jobBar, wish <- cancelReq

\* Whatever workers, sweepers and faults do, including workers that outlive
\* the orphan deadline: a scan ends with its last job and in no other step, no
\* job appears in or reappears on a finished scan, and no ending is revised.
ImplementsPromise == Promise!PromiseSpec

=============================================================================
