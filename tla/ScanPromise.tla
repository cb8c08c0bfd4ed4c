---------------------------- MODULE ScanPromise ----------------------------
(***************************************************************************)
(* What the orchestrator promises whoever requested a scan, with no worker,*)
(* sweeper, queue or fault in sight: jobs only appear while their scan is  *)
(* open, a closed job stays closed, and a scan ends in the very step that  *)
(* closes its last job, the way the user asked by then. The one exception  *)
(* is a scan inherited with all its jobs closed, which ends by itself.     *)
(***************************************************************************)
EXTENDS Naturals

CONSTANTS
    Scans,      \* the scans
    Jobs,       \* their jobs
    ScanOf,     \* the scan of each job
    Inherited   \* scans that are open at the start, every job closed

VARIABLES
    phase,      \* of each scan
    job,        \* of each job
    wish        \* whether the user asked to cancel the scan

promiseVars == <<phase, job, wish>>

Phases    == {"absent", "open", "completed", "cancelled"}
JobPhases == {"absent", "open", "closed"}

PromiseTypeOK ==
    /\ phase \in [Scans -> Phases]
    /\ job \in [Jobs -> JobPhases]
    /\ wish \in [Scans -> BOOLEAN]

Siblings(s) == {j \in Jobs : ScanOf[j] = s}

Init ==
    /\ phase = [s \in Scans |-> IF s \in Inherited THEN "open" ELSE "absent"]
    /\ job = [j \in Jobs |-> IF ScanOf[j] \in Inherited THEN "closed" ELSE "absent"]
    /\ wish = [s \in Scans |-> FALSE]

\* The scan appears.
Begin(s) ==
    /\ phase[s] = "absent"
    /\ phase' = [phase EXCEPT ![s] = "open"]
    /\ UNCHANGED <<job, wish>>

\* One of its jobs appears.
Add(j) ==
    /\ phase[ScanOf[j]] = "open"
    /\ job[j] = "absent"
    /\ job' = [job EXCEPT ![j] = "open"]
    /\ UNCHANGED <<phase, wish>>

\* The user asks to cancel: at any time, and for good.
Wish(s) ==
    /\ phase[s] # "absent"
    /\ wish' = [wish EXCEPT ![s] = TRUE]
    /\ UNCHANGED <<phase, job>>

Ending(s) == IF wish[s] THEN "cancelled" ELSE "completed"

\* A job closes; when no sibling is open, so does the scan.
Close(j) ==
    LET s == ScanOf[j] IN
    /\ phase[s] = "open"
    /\ job[j] = "open"
    /\ job' = [job EXCEPT ![j] = "closed"]
    /\ phase' = IF \A k \in Siblings(s) : k = j \/ job[k] # "open"
                THEN [phase EXCEPT ![s] = Ending(s)]
                ELSE phase
    /\ UNCHANGED wish

\* An inherited scan ends.
EndInherited(s) ==
    /\ s \in Inherited
    /\ phase[s] = "open"
    /\ phase' = [phase EXCEPT ![s] = Ending(s)]
    /\ UNCHANGED <<job, wish>>

Next ==
    \/ \E s \in Scans : Begin(s) \/ Wish(s) \/ EndInherited(s)
    \/ \E j \in Jobs : Add(j) \/ Close(j)

PromiseSpec == Init /\ [][Next]_promiseVars

=============================================================================
