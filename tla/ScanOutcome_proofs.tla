------------------------- MODULE ScanOutcome_proofs -------------------------
(***************************************************************************)
(* What a user sees of a scan and what a scan leaves behind, for any scans,*)
(* jobs and workers: the promise it keeps, the score of a cancelled scan,  *)
(* the agreement of findings, counts and score, the refunds, and the       *)
(* announcement.                                                           *)
(*                                                                         *)
(* The first two hold for all faults. The others need that no live worker  *)
(* is slower than the orphan deadline: then a job is in the hands of its   *)
(* worker or of the sweepers, never of both (AloneInv, inductive with      *)
(* IInv), so that nothing is stored for a job that was closed behind its   *)
(* worker's back. Two more invariants build on it: RefundsInv follows a    *)
(* job from the refund back to everyone who could still run it,            *)
(* AnnounceInv says who may believe that it finished a scan.               *)
(***************************************************************************)
EXTENDS ScanRefinement, ScanLifecycle_proofs

-----------------------------------------------------------------------------
(***************************************************************************)
(* ScanLifecycle implements ScanPromise. Only five kinds of step are       *)
(* visible to a user; the lemmas say which, and the invariant of           *)
(* ScanLifecycle_proofs supplies the abstract guards.                      *)
(***************************************************************************)

(* What a user sees does not change.                                        *)
Unseen == UNCHANGED <<phaseBar, jobBar, cancelReq>>

(* Statuses of a kind look alike.                                           *)
LEMMA PhaseCases ==
  ASSUME IInv
  PROVE  /\ \A s \in Scans : (phaseBar[s] = "absent" <=> scanStatus[s] = "none")
         /\ \A s \in Scans : (phaseBar[s] = "open" <=> Open(s))
         /\ \A j \in Jobs : (jobBar[j] = "absent" <=> jobStatus[j] = "none")
         /\ \A j \in Jobs : (jobBar[j] = "open" <=> jobStatus[j] \in InFlight)
BY DEF IInv, TypeOK, phaseBar, jobBar, PhaseOf, JobPhaseOf, Open, InFlight,
       ScanStatuses, JobStatuses, Outcomes

(* The initial states map to initial states.                                *)
LEMMA InitRefines == Init => Promise!Init
<1> SUFFICES ASSUME Init PROVE Promise!Init
  OBVIOUS
<1>1. phaseBar = [s \in Scans |-> IF s \in LegacyStuck THEN "open" ELSE "absent"]
  BY DEF Init, phaseBar, PhaseOf
<1>2. jobBar = [j \in Jobs |-> IF ScanOf[j] \in LegacyStuck THEN "closed" ELSE "absent"]
  BY DEF Init, jobBar, JobPhaseOf
<1> QED BY <1>1, <1>2 DEF Init, Promise!Init

(* scans.Create makes a scan appear, or fails.                              *)
LEMMA InsertScanRefines ==
  ASSUME IInv, NEW s \in Scans, InsertScan(s)
  PROVE  Promise!Begin(s) \/ Unseen
<1> USE LifecycleAssumption
<1>1. phaseBar[s] = "absent"
  BY PhaseCases DEF IInv, InsertScan, RowsOK, ScanRowOK
<1>2. UNCHANGED <<jobBar, cancelReq>>
  BY DEF InsertScan, jobBar
<1>3. CASE scanStatus' = scanStatus
  BY <1>2, <1>3 DEF Unseen, phaseBar
<1>4. CASE scanStatus' = [scanStatus EXCEPT ![s] = "queued"]
  <2>1. phaseBar' = [phaseBar EXCEPT ![s] = "open"]
    BY <1>4 DEF IInv, TypeOK, phaseBar, PhaseOf
  <2> QED BY <1>1, <1>2, <2>1 DEF Promise!Begin
<1> QED BY <1>3, <1>4 DEF InsertScan

(* jobs.CreateMany adds a job to an open scan.                              *)
LEMMA InsertJobRefines ==
  ASSUME IInv, NEW s \in Scans, InsertJob(s)
  PROVE  (\E j \in Jobs : Promise!Add(j)) \/ Unseen
<1> USE LifecycleAssumption
<1>1. UNCHANGED <<phaseBar, cancelReq>>
  BY DEF InsertJob, phaseBar
<1>2. CASE jobStatus' = jobStatus
  BY <1>1, <1>2 DEF Unseen, jobBar
<1>3. ASSUME NEW j \in apiTodo[s], jobStatus' = [jobStatus EXCEPT ![j] = "queued"]
      PROVE  j \in Jobs /\ Promise!Add(j)
  <2>1. j \in Jobs /\ ScanOf[j] = s
    BY DEF IInv, RowsOK, ScanRowOK, JobsOf
  <2>2. scanStatus[s] = "queued" /\ jobStatus[j] = "none"
    BY <2>1 DEF IInv, InsertJob, RowsOK, ScanRowOK, JobRowOK
  <2>3. phaseBar[s] = "open" /\ jobBar[j] = "absent"
    BY <2>1, <2>2, PhaseCases DEF Open, InFlight
  <2>4. jobBar' = [jobBar EXCEPT ![j] = "open"]
    BY <1>3, <2>1 DEF IInv, TypeOK, jobBar, JobPhaseOf
  <2> QED BY <1>1, <2>1, <2>3, <2>4 DEF Promise!Add
<1> QED BY <1>2, <1>3 DEF InsertJob

(* CancelScan is the user's wish.                                           *)
LEMMA CancelScanRefines ==
  ASSUME IInv, NEW s \in Scans, CancelScan(s)
  PROVE  Promise!Wish(s)
<1>1. phaseBar[s] # "absent"
  BY PhaseCases DEF CancelScan
<1> QED BY <1>1 DEF CancelScan, Promise!Wish, phaseBar, jobBar

(* A scan's row changes in no other way than by being finalised.            *)
LEMMA Finalising ==
  ASSUME IInv, NEW s \in Scans, Open(s),
         scanStatus' = [scanStatus EXCEPT ![s] = FinalStatus(s)]
  PROVE  phaseBar' = [phaseBar EXCEPT ![s] = Promise!Ending(s)]
BY DEF IInv, TypeOK, phaseBar, PhaseOf, FinalStatus, Promise!Ending

(* PersistJobResult closes a job, and with the last one its scan; a late    *)
(* second result for a job shows only where it ends an inherited scan.      *)
LEMMA PersistRefines ==
  ASSUME IInv, NEW a \in Actors, Persist(a)
  PROVE  \/ Promise!Close(cur[a])
         \/ Promise!EndInherited(ScanOf[cur[a]])
         \/ Unseen
<1> DEFINE j == cur[a]
           s == ScanOf[j]
           after == [jobStatus EXCEPT ![j] = res[a]]
<1> USE LifecycleAssumption
<1>1. j \in Jobs /\ s \in Scans /\ res[a] \in Outcomes /\ jobStatus[j] # "none"
  BY PersistCases
<1>2. cancelReq' = cancelReq
  BY DEF Persist
<1>3. CASE UNCHANGED <<jobStatus, scanStatus>>
  BY <1>2, <1>3 DEF Unseen, phaseBar, jobBar
<1>4. CASE /\ jobStatus' = after
           /\ IF Finalizes(s, after)
              THEN scanStatus' = [scanStatus EXCEPT ![s] = FinalStatus(s)]
              ELSE scanStatus' = scanStatus
  <2>1. jobBar' = [jobBar EXCEPT ![j] = "closed"]
    BY <1>1, <1>4 DEF IInv, TypeOK, jobBar, JobPhaseOf, Outcomes
  <2>2. \A k \in Jobs : after[k] \in InFlight <=> k # j /\ jobStatus[k] \in InFlight
    BY <1>1 DEF IInv, TypeOK, InFlight, Outcomes
  <2>3. Finalizes(s, after) <=> Open(s) /\ \A k \in JobsOf(s) : k = j \/ jobBar[k] # "open"
    BY <2>2, PhaseCases DEF Finalizes, JobsOf
  <2>4. CASE jobBar[j] = "open"
    <3>1. Open(s) /\ phaseBar[s] = "open"
      <4>1. ~Terminal(s) /\ scanStatus[s] # "none"
        BY <1>1, <2>4, PhaseCases DEF IInv, FinishedScanHasNoOpenJob, RowsOK, JobRowOK, JobsOf
      <4> QED BY <1>1, <4>1, PhaseCases DEF IInv, TypeOK, Terminal, Open, InFlight, ScanStatuses
    <3>2. phaseBar' = IF \A k \in JobsOf(s) : k = j \/ jobBar[k] # "open"
                      THEN [phaseBar EXCEPT ![s] = Promise!Ending(s)]
                      ELSE phaseBar
      BY <1>1, <1>4, <2>3, <3>1, Finalising DEF phaseBar
    <3> QED BY <1>2, <2>1, <2>4, <3>1, <3>2 DEF Promise!Close, Promise!Siblings, JobsOf
  <2>5. CASE jobBar[j] # "open"
    <3>1. jobBar' = jobBar
      <4>1. jobBar[j] = "closed"
        BY <1>1, <2>5 DEF IInv, TypeOK, jobBar, JobPhaseOf
      <4> QED BY <2>1, <4>1 DEF jobBar
    <3>2. CASE scanStatus' = scanStatus
      BY <1>2, <3>1, <3>2 DEF Unseen, phaseBar
    <3>3. CASE Finalizes(s, after)
      <4>1. Open(s) /\ phaseBar[s] = "open"
        BY <1>1, <3>3, PhaseCases DEF Finalizes
      <4>2. \A k \in JobsOf(s) : jobStatus[k] \notin InFlight
        BY <2>3, <2>5, <3>3, PhaseCases DEF JobsOf
      <4>3. s \in LegacyStuck
        BY <1>1, <4>1, <4>2 DEF IInv, NoNewStuckScan, Stuck, JobsOf
      <4>4. phaseBar' = [phaseBar EXCEPT ![s] = Promise!Ending(s)]
        BY <1>1, <1>4, <3>3, <4>1, Finalising
      <4> QED BY <1>2, <3>1, <4>1, <4>3, <4>4 DEF Promise!EndInherited
    <3> QED BY <1>4, <3>2, <3>3
  <2> QED BY <2>4, <2>5
<1> QED BY <1>3, <1>4 DEF Persist

(* FinalizeStuckScans ends inherited scans only.                            *)
LEMMA FinalizeStuckRefines ==
  ASSUME IInv, NEW z \in Sweepers, FinalizeStuck(z)
  PROVE  (\E s \in Scans : Promise!EndInherited(s)) \/ Unseen
<1> USE LifecycleAssumption
<1>1. UNCHANGED <<jobBar, cancelReq>>
  BY DEF FinalizeStuck, jobBar
<1>2. CASE scanStatus' = scanStatus
  BY <1>1, <1>2 DEF Unseen, phaseBar
<1>3. ASSUME NEW s \in stuckTodo[z], Open(s),
             scanStatus' = [scanStatus EXCEPT ![s] = FinalStatus(s)]
      PROVE  s \in Scans /\ Promise!EndInherited(s)
  <2>1. s \in LegacyStuck /\ s \in Scans
    BY DEF IInv, SweepOK, SweptOK
  <2>2. phaseBar[s] = "open" /\ phaseBar' = [phaseBar EXCEPT ![s] = Promise!Ending(s)]
    BY <1>3, <2>1, PhaseCases, Finalising
  <2> QED BY <1>1, <2>1, <2>2 DEF Promise!EndInherited
<1> QED BY <1>2, <1>3 DEF FinalizeStuck, Finalizes

(* MarkRunning and MarkStarted only tell queued from running.               *)
LEMMA MarksUnseen ==
  ASSUME IInv, NEW w \in Workers, MarkRunning(w) \/ MarkStarted(w)
  PROVE  Unseen
<1>1. CASE MarkStarted(w)
  <2>1. \A s \in Scans : PhaseOf(scanStatus'[s]) = PhaseOf(scanStatus[s])
    BY <1>1 DEF IInv, TypeOK, MarkStarted, PhaseOf
  <2> QED BY <1>1, <2>1 DEF MarkStarted, Unseen, phaseBar, jobBar
<1>2. CASE MarkRunning(w)
  <2>1. jobStatus[cur[w]] = "queued"
    BY <1>2 DEF IInv, ClaimsOK, ClaimOK, MarkRunning
  <2>2. \A j \in Jobs : JobPhaseOf(jobStatus'[j]) = JobPhaseOf(jobStatus[j])
    BY <1>2, <2>1 DEF IInv, TypeOK, MarkRunning, JobPhaseOf
  <2> QED BY <1>2, <2>2 DEF MarkRunning, Unseen, phaseBar, jobBar
<1> QED BY <1>1, <1>2

(* Every other step leaves the three visible columns alone.                 *)
LEMMA OthersUnseen == UNCHANGED <<jobStatus, scanStatus, cancelReq>> => Unseen
BY DEF Unseen, phaseBar, jobBar

(* Every step maps to a step of the promise or to a stutter.                *)
LEMMA StepRefines ==
  ASSUME IInv, [Next]_vars
  PROVE  [Promise!Next]_(Promise!promiseVars)
<1>1. Unseen => UNCHANGED Promise!promiseVars
  BY DEF Unseen, Promise!promiseVars
<1>2. CASE \E s \in Scans : Charge(s) \/ ApiStep(s) \/ ApiCrash(s) \/ CancelScan(s)
  <2> PICK s \in Scans : Charge(s) \/ ApiStep(s) \/ ApiCrash(s) \/ CancelScan(s)
    BY <1>2
  <2>1. CASE Charge(s) \/ Enqueue(s) \/ RefundRest(s) \/ ApiCrash(s)
    BY <1>1, <2>1, OthersUnseen DEF Charge, Enqueue, RefundRest, ApiCrash, dbVars
  <2>2. CASE InsertScan(s)
    BY <1>1, <2>2, InsertScanRefines DEF Promise!Next
  <2>3. CASE InsertJob(s)
    BY <1>1, <2>3, InsertJobRefines DEF Promise!Next
  <2>4. CASE CancelScan(s)
    BY <2>4, CancelScanRefines DEF Promise!Next
  <2> QED BY <2>1, <2>2, <2>3, <2>4 DEF ApiStep
<1>3. ASSUME NEW a \in Actors, Persist(a) \/ Refund(a) \/ Score(a) \/ Tell(a) \/ Crash(a)
      PROVE  [Promise!Next]_(Promise!promiseVars)
  <2>1. CASE Persist(a)
    <3>1. cur[a] \in Jobs /\ ScanOf[cur[a]] \in Scans
      BY <2>1, PersistCases
    <3> QED BY <1>1, <2>1, <3>1, PersistRefines DEF Promise!Next
  <2>2. CASE Refund(a) \/ Score(a) \/ Tell(a) \/ Crash(a)
    BY <1>1, <2>2, OthersUnseen DEF Refund, Score, Tell, Crash, dbVars
  <2> QED BY <1>3, <2>1, <2>2
<1>4. CASE \E w \in Workers : WorkerStep(w)
  <2> PICK w \in Workers : WorkerStep(w)
    BY <1>4
  <2>1. w \in Actors
    BY DEF Actors
  <2>2. CASE MarkRunning(w) \/ MarkStarted(w)
    BY <1>1, <2>2, MarksUnseen
  <2>3. CASE Claim(w) \/ Load(w) \/ Prepare(w) \/ RunEngine(w) \/ Ack(w)
    BY <1>1, <2>3, OthersUnseen DEF Claim, Load, Prepare, RunEngine, Ack, dbVars
  <2> QED BY <1>3, <2>1, <2>2, <2>3 DEF WorkerStep
<1>5. CASE \E z \in Sweepers : SweeperStep(z)
  <2> PICK z \in Sweepers : SweeperStep(z)
    BY <1>5
  <2>1. z \in Actors
    BY DEF Actors
  <2>2. CASE FinalizeStuck(z)
    BY <1>1, <2>2, FinalizeStuckRefines DEF Promise!Next
  <2>3. CASE ListOrphans(z) \/ SweepOne(z) \/ ListStuck(z)
    BY <1>1, <2>3, OthersUnseen DEF ListOrphans, SweepOne, ListStuck, dbVars
  <2> QED BY <1>3, <2>1, <2>2, <2>3 DEF SweeperStep
<1>6. CASE (\E j \in Jobs : AgeOut(j)) \/ RedisFlush
  BY <1>1, <1>6, OthersUnseen DEF AgeOut, RedisFlush, dbVars
<1>7. CASE UNCHANGED vars
  BY <1>1, <1>7, OthersUnseen DEF vars, dbVars
<1> QED BY <1>2, <1>3, <1>4, <1>5, <1>6, <1>7 DEF Next

(* Workers, sweepers, crashes and lost messages keep the promise made to    *)
(* the user: the detailed specification implements the abstract one.        *)
THEOREM KeepsThePromise == Spec => ImplementsPromise
<1>1. Init => Promise!Init
  BY InitRefines
<1>2. IInv /\ [Next]_vars => [Promise!Next]_(Promise!promiseVars)
  BY StepRefines
<1> QED BY <1>1, <1>2, Inductive, PTL DEF Spec, ImplementsPromise, Promise!PromiseSpec

-----------------------------------------------------------------------------
(***************************************************************************)
(* A cancelled scan has no score, whatever fails.                          *)
(***************************************************************************)

(* Only finalizeScoring writes risk_assessments.                            *)
LEMMA OnlyScoreScores ==
  ASSUME [Next]_vars, \A a \in Actors : ~Score(a)
  PROVE  assessment' = assessment
<1>1. CASE \E s \in Scans : Charge(s) \/ ApiStep(s) \/ ApiCrash(s) \/ CancelScan(s)
  BY <1>1 DEF Charge, ApiStep, InsertScan, InsertJob, Enqueue, RefundRest, ApiCrash,
              CancelScan, afterVars
<1>2. ASSUME NEW a \in Actors, Persist(a) \/ Refund(a) \/ Tell(a) \/ Crash(a)
      PROVE  assessment' = assessment
  BY <1>2 DEF Persist, Refund, Tell, Crash, afterVars
<1>3. ASSUME NEW w \in Workers, WorkerStep(w) PROVE assessment' = assessment
  <2>1. w \in Actors
    BY DEF Actors
  <2>2. CASE Claim(w) \/ Load(w) \/ MarkRunning(w) \/ MarkStarted(w) \/ Prepare(w)
             \/ RunEngine(w) \/ Ack(w)
    BY <2>2 DEF Claim, Load, MarkRunning, MarkStarted, Prepare, RunEngine, Ack, afterVars
  <2> QED BY <1>2, <1>3, <2>1, <2>2 DEF WorkerStep
<1>4. ASSUME NEW z \in Sweepers, SweeperStep(z) PROVE assessment' = assessment
  <2>1. z \in Actors
    BY DEF Actors
  <2>2. CASE ListOrphans(z) \/ SweepOne(z) \/ ListStuck(z) \/ FinalizeStuck(z)
    BY <2>2 DEF ListOrphans, SweepOne, ListStuck, FinalizeStuck, afterVars
  <2> QED BY <1>2, <1>4, <2>1, <2>2 DEF SweeperStep
<1>5. CASE (\E j \in Jobs : AgeOut(j)) \/ RedisFlush \/ UNCHANGED vars
  BY <1>5 DEF AgeOut, RedisFlush, vars, afterVars
<1> QED BY <1>1, <1>2, <1>3, <1>4, <1>5 DEF Next

(* A finished scan keeps its status and counts, a step that changes nothing  *)
(* included.                                                                 *)
LEMMA FinalOrStutter ==
  ASSUME IInv, [Next]_vars, NEW s \in Scans, Terminal(s)
  PROVE  scanStatus'[s] = scanStatus[s] /\ counts'[s] = counts[s]
<1>1. CASE UNCHANGED vars
  BY <1>1 DEF vars, dbVars
<1> QED BY <1>1, FinalStep

(* A scan that has a score was completed when it was computed, and a         *)
(* completed scan stays completed.                                           *)
LEMMA NoScoreStep ==
  ASSUME IInv, CancelledScanHasNoScore, [Next]_vars
  PROVE  CancelledScanHasNoScore'
<1> SUFFICES ASSUME NEW s \in Scans, assessment'[s] # {}
             PROVE  scanStatus'[s] = "completed"
  BY DEF CancelledScanHasNoScore
<1>1. scanStatus[s] = "completed"
  <2>1. CASE assessment'[s] = assessment[s]
    BY <2>1 DEF CancelledScanHasNoScore
  <2>2. CASE assessment'[s] # assessment[s]
    <3>1. PICK a \in Actors : Score(a)
      BY <2>2, OnlyScoreScores
    <3> QED BY <2>2, <3>1 DEF Score, Scorable, IInv, TypeOK
  <2> QED BY <2>1, <2>2
<1> QED BY <1>1, FinalOrStutter DEF Terminal

(* finalizeScoring re-reads the scan's status: a cancelled scan is never     *)
(* scored, for any faults.                                                   *)
THEOREM CancelledNeverScored == Spec => []CancelledScanHasNoScore
<1>1. Init => CancelledScanHasNoScore
  BY DEF Init, CancelledScanHasNoScore
<1>2. IInv /\ CancelledScanHasNoScore /\ [Next]_vars => CancelledScanHasNoScore'
  BY NoScoreStep
<1> QED BY <1>1, <1>2, Inductive, PTL DEF Spec

-----------------------------------------------------------------------------
(***************************************************************************)
(* Without a worker slower than the orphan deadline, a job is in the hands *)
(* of its worker or of the sweepers, never of both.                        *)
(***************************************************************************)

\* A job the sweepers may close: overdue, listed, or being closed.
Swept(j) == j \in stale \/ \E z \in Sweepers : j \in todo[z] \/ cur[z] = j

\* The outcomes a sweeper writes.
Lost == {"lost", "lost_cancelled"}

\* What such a job is: no worker's, and not yet closed but by a sweeper.
Abandoned(j) ==
    /\ ~Held(j)
    /\ jobStatus[j] \in {"running"} \cup Lost
    /\ ScanOf[j] \notin LegacyStuck

SweptAlone == \A j \in Jobs : Swept(j) => Abandoned(j)

\* So a worker finds its job as it left it.
HoldsOK(w) ==
    /\ pc[w] \in {"start", "prepare", "run"} => jobStatus[cur[w]] = "running"
    /\ pc[w] = "persist" => jobStatus[cur[w]] \in InFlight

LosesOK(z) == pc[z] = "persist" => res[z] \in Lost

AloneInv ==
    /\ SweptAlone
    /\ \A w \in Workers : HoldsOK(w)
    /\ \A z \in Sweepers : LosesOK(z)

(* A step that leaves jobs, actors and the sweepers' lists alone.           *)
LEMMA AloneSame ==
  ASSUME AloneInv, UNCHANGED <<jobStatus, stale, pc, cur, res, todo>>
  PROVE  AloneInv'
BY DEF AloneInv, SweptAlone, Swept, Abandoned, Held, HoldsOK, LosesOK

(* A step of one worker on the job it holds, or on the one it claims: the    *)
(* rest holds what it held.                                                  *)
LEMMA AloneWorker ==
  ASSUME IInv, AloneInv, NEW w \in Workers,
         stale' \subseteq stale, UNCHANGED <<cur, todo>>,
         \A a \in Actors \ {w} : pc'[a] = pc[a] /\ res'[a] = res[a],
         cur[w] \in Jobs,
         \A j \in Jobs \ {cur[w]} : jobStatus'[j] = jobStatus[j],
         HoldsOK(w)'
  PROVE  AloneInv'
<1> USE LifecycleAssumption DEF AloneInv, IInv
<1>1. SweptAlone'
  <2> SUFFICES ASSUME NEW j \in Jobs, Swept(j)'
               PROVE  Abandoned(j)'
    BY DEF SweptAlone
  <2>1. Swept(j)
    BY DEF Swept
  <2>2. Abandoned(j)
    BY <2>1 DEF SweptAlone
  <2> QED BY <2>2 DEF Abandoned, Held
<1>2. ASSUME NEW v \in Workers PROVE HoldsOK(v)'
  <2>1. CASE v = w
    BY <2>1
  <2>2. CASE v # w
    <3>1. pc'[v] = pc[v] /\ HoldsOK(v) /\ v \in Actors
      BY <2>2 DEF Actors
    <3>2. pc[v] # "idle" => cur[v] \in Jobs /\ cur[v] # cur[w]
      BY <2>2, <3>1 DEF ActorsOK, WorkerOK, TypeOK, ClaimsOK, ClaimedOnce
    <3> QED BY <3>1, <3>2 DEF HoldsOK
  <2> QED BY <2>1, <2>2
<1>3. ASSUME NEW z \in Sweepers PROVE LosesOK(z)'
  BY DEF LosesOK, Actors
<1> QED BY <1>1, <1>2, <1>3

(* The steps of the worker loop, its transaction and what follows it apart.  *)
LEMMA AloneLoop ==
  ASSUME IInv, AloneInv, NEW w \in Workers,
         Load(w) \/ MarkRunning(w) \/ MarkStarted(w) \/ Prepare(w) \/ RunEngine(w)
  PROVE  AloneInv'
<1> USE LifecycleAssumption DEF IInv
<1>1. pc[w] # "idle" /\ w \in Actors
  BY DEF Load, MarkRunning, MarkStarted, Prepare, RunEngine, Actors
<1>2. cur[w] \in Jobs
  BY <1>1 DEF ActorsOK, WorkerOK, TypeOK
<1>3. HoldsOK(w) /\ ClaimOK(w)
  BY DEF AloneInv, ClaimsOK
<1>4. /\ stale' \subseteq stale /\ UNCHANGED <<cur, todo>>
      /\ \A a \in Actors \ {w} : pc'[a] = pc[a] /\ res'[a] = res[a]
      /\ \A j \in Jobs \ {cur[w]} : jobStatus'[j] = jobStatus[j]
  BY <1>1, <1>2 DEF TypeOK, Load, MarkRunning, MarkStarted, Prepare, RunEngine, Finish, Goto, dbVars
<1>5. HoldsOK(w)'
  BY <1>1, <1>2, <1>3 DEF HoldsOK, ClaimOK, InFlight, TypeOK, Load, MarkRunning,
         MarkStarted, Prepare, RunEngine, Finish, Goto, dbVars
<1> QED BY <1>2, <1>4, <1>5, AloneWorker

(* Queue.Claim: the job it takes was queued, so no sweeper has seen it.      *)
LEMMA AloneClaim == ASSUME IInv, AloneInv, NEW w \in Workers, Claim(w) PROVE AloneInv'
<1> USE LifecycleAssumption DEF AloneInv, IInv
<1>1. Head(pending) \in Jobs /\ Pending(Head(pending)) /\ w \in Actors /\ w \notin Sweepers
  BY DEF Claim, TypeOK, Pending, Actors
<1>2. /\ cur' = [cur EXCEPT ![w] = Head(pending)] /\ pc' = [pc EXCEPT ![w] = "load"]
      /\ UNCHANGED <<jobStatus, stale, res, todo>>
  BY DEF Claim, Goto, dbVars
<1>3. SweptAlone'
  <2> SUFFICES ASSUME NEW j \in Jobs, Swept(j)'
               PROVE  Abandoned(j)'
    BY DEF SweptAlone
  <2>1. Swept(j)
    BY <1>1, <1>2 DEF Swept, TypeOK
  <2>2. Abandoned(j)
    BY <2>1 DEF SweptAlone
  <2>3. jobStatus[j] # "queued"
    BY <2>2 DEF Abandoned, Lost
  <2>4. j # Head(pending)
    BY <1>1, <2>3 DEF ClaimsOK, PendingOK
  <2> QED BY <1>1, <1>2, <2>2, <2>4 DEF Abandoned, Held, TypeOK
<1>4. ASSUME NEW v \in Workers PROVE HoldsOK(v)'
  <2>1. HoldsOK(v)
    OBVIOUS
  <2> QED BY <1>1, <1>2, <2>1 DEF HoldsOK, TypeOK, Actors
<1>5. ASSUME NEW z \in Sweepers PROVE LosesOK(z)'
  <2>1. LosesOK(z)
    OBVIOUS
  <2> QED BY <1>1, <1>2, <2>1 DEF LosesOK, TypeOK, Actors
<1> QED BY <1>3, <1>4, <1>5

(* CreateMany inserts rows that were not there: nobody holds or sweeps them. *)
LEMMA AloneInsertJob == ASSUME IInv, AloneInv, NEW s \in Scans, InsertJob(s) PROVE AloneInv'
<1> USE LifecycleAssumption DEF AloneInv, IInv
<1>1. \A j \in Jobs : jobStatus[j] # "none" => jobStatus'[j] = jobStatus[j]
  BY DEF InsertJob, RowsOK, ScanRowOK, JobRowOK, JobsOf, TypeOK
<1>2. UNCHANGED <<stale, pc, cur, res, todo>>
  BY DEF InsertJob, actorVars
<1>3. SweptAlone'
  BY <1>1, <1>2 DEF SweptAlone, Swept, Abandoned, Held, Lost
<1>4. ASSUME NEW w \in Workers PROVE HoldsOK(w)'
  <2>1. HoldsOK(w) /\ ClaimOK(w) /\ WorkerOK(w) /\ w \in Actors
    BY DEF ClaimsOK, ActorsOK, Actors
  <2>2. pc[w] # "idle" => cur[w] \in Jobs
    BY <2>1 DEF WorkerOK, TypeOK
  <2> QED BY <1>1, <1>2, <2>1, <2>2 DEF HoldsOK, ClaimOK
<1>5. ASSUME NEW z \in Sweepers PROVE LosesOK(z)'
  BY <1>2 DEF LosesOK
<1> QED BY <1>3, <1>4, <1>5

(* PersistJobResult: a worker's job is its own; a sweeper's is lost for      *)
(* everybody.                                                                *)
LEMMA AlonePersist == ASSUME IInv, AloneInv, NEW a \in Actors, Persist(a) PROVE AloneInv'
<1> USE LifecycleAssumption DEF AloneInv, IInv
<1>1. cur[a] \in Jobs /\ pc[a] = "persist"
  BY PersistCases
<1>2. /\ stale' \subseteq stale /\ UNCHANGED todo
      /\ jobStatus' \in {jobStatus, [jobStatus EXCEPT ![cur[a]] = res[a]]}
  BY DEF Persist
<1>3. PICK p \in {"refund", "score", "ack", "sweep", "idle"} :
        /\ pc' = [pc EXCEPT ![a] = p]
        /\ \/ UNCHANGED <<cur, res>>
           \/ /\ a \in Sweepers \ Workers
              /\ cur' = [cur EXCEPT ![a] = NoJob]
              /\ res' = [res EXCEPT ![a] = "none"]
  BY PersistCases, Returning
<1>4. CASE a \in Workers
  <2>1. HoldsOK(a)'
    BY <1>3, <1>4 DEF HoldsOK, TypeOK
  <2> QED BY <1>1, <1>2, <1>3, <1>4, <2>1, AloneWorker DEF TypeOK
<1>5. CASE a \in Sweepers
  <2>1. Swept(cur[a]) /\ res[a] \in Lost /\ a \notin Workers
    BY <1>1, <1>5 DEF Swept, LosesOK
  <2>2. SweptAlone'
    <3> SUFFICES ASSUME NEW j \in Jobs, Swept(j)'
                 PROVE  Abandoned(j)'
      BY DEF SweptAlone
    <3>1. Swept(j)
      <4>1. \A z \in Sweepers : cur'[z] = cur[z] \/ cur'[z] = NoJob
        BY <1>3 DEF TypeOK, Actors
      <4> QED BY <1>2, <4>1 DEF Swept
    <3>2. Abandoned(j)
      BY <3>1 DEF SweptAlone
    <3>3. \A w \in Workers : cur'[w] = cur[w]
      BY <1>3, <2>1 DEF TypeOK, Actors
    <3>4. jobStatus'[j] \in {"running"} \cup Lost
      BY <1>2, <2>1, <3>2 DEF Abandoned, TypeOK
    <3> QED BY <3>2, <3>3, <3>4 DEF Abandoned, Held
  <2>3. ASSUME NEW w \in Workers PROVE HoldsOK(w)'
    <3>1. ~Held(cur[a])
      BY <1>1, <2>1 DEF SweptAlone, Abandoned
    <3>2. w # a /\ w \in Actors /\ cur[w] # cur[a]
      BY <2>1, <3>1 DEF Abandoned, Held, Actors
    <3>3. HoldsOK(w) /\ WorkerOK(w)
      BY DEF ActorsOK
    <3>4. pc[w] # "idle" => cur[w] \in Jobs
      BY <3>2, <3>3 DEF WorkerOK, TypeOK
    <3>5. pc'[w] = pc[w] /\ cur'[w] = cur[w]
      BY <1>3, <3>2 DEF TypeOK
    <3>6. pc[w] # "idle" => jobStatus'[cur[w]] = jobStatus[cur[w]]
      BY <1>2, <3>2, <3>4 DEF TypeOK
    <3> QED BY <3>3, <3>5, <3>6 DEF HoldsOK
  <2>4. ASSUME NEW z \in Sweepers PROVE LosesOK(z)'
    <3>1. LosesOK(z)
      OBVIOUS
    <3> QED BY <1>3, <3>1 DEF LosesOK, TypeOK, Actors
  <2> QED BY <2>2, <2>3, <2>4
<1> QED BY <1>4, <1>5 DEF Actors

(* The refund, the score, the announcement, the ack and a crash: an actor    *)
(* moves on from its job or drops it, and no row changes.                    *)
LEMMA AloneAfter ==
  ASSUME IInv, AloneInv, NEW a \in Actors,
         Refund(a) \/ Score(a) \/ Tell(a) \/ Crash(a) \/ (a \in Workers /\ Ack(a))
  PROVE  AloneInv'
<1> USE LifecycleAssumption DEF AloneInv, IInv
<1>1. UNCHANGED <<jobStatus, stale>> /\ \A b \in Actors : todo'[b] \subseteq todo[b]
  BY DEF Refund, Score, Tell, Crash, Ack, dbVars, TypeOK
<1>2. /\ \E p : p \notin {"start", "prepare", "run", "persist"} /\ pc' = [pc EXCEPT ![a] = p]
      /\ \/ UNCHANGED <<cur, res>>
         \/ cur' = [cur EXCEPT ![a] = NoJob] /\ res' = [res EXCEPT ![a] = "none"]
  <2>1. CASE Refund(a) \/ Tell(a)
    <3>1. ReturnTo(a, Onward(a))
      BY <2>1 DEF Refund, Tell
    <3>2. \E p \in {"refund", "score", "ack", "sweep", "idle"} : pc' = [pc EXCEPT ![a] = p]
      BY <3>1, Returning
    <3>3. \/ UNCHANGED <<cur, res>>
          \/ cur' = [cur EXCEPT ![a] = NoJob] /\ res' = [res EXCEPT ![a] = "none"]
      BY <3>1, Returning
    <3> QED BY <3>2, <3>3
  <2>2. CASE Score(a) \/ Crash(a) \/ Ack(a)
    BY <2>2 DEF Score, Crash, Ack, Goto
  <2> QED BY <2>1, <2>2
<1>3. \A b \in Actors : cur'[b] = cur[b] \/ cur'[b] = NoJob
  BY <1>2 DEF TypeOK
<1>4. \A b \in Actors : \/ pc'[b] = pc[b] /\ ((cur'[b] = cur[b] /\ res'[b] = res[b]) \/ b = a)
                        \/ pc'[b] \notin {"start", "prepare", "run", "persist"}
  BY <1>2 DEF TypeOK
<1>5. SweptAlone'
  <2> SUFFICES ASSUME NEW j \in Jobs, Swept(j)'
               PROVE  Abandoned(j)'
    BY DEF SweptAlone
  <2>1. Swept(j)
    BY <1>1, <1>3 DEF Swept, Actors
  <2> QED BY <1>1, <1>3, <2>1 DEF SweptAlone, Abandoned, Held, Actors
<1>6. ASSUME NEW w \in Workers PROVE HoldsOK(w)'
  <2>1. HoldsOK(w) /\ w \in Actors
    BY DEF Actors
  <2> QED BY <1>1, <1>2, <2>1 DEF HoldsOK, TypeOK
<1>7. ASSUME NEW z \in Sweepers PROVE LosesOK(z)'
  <2>1. LosesOK(z) /\ z \in Actors
    BY DEF Actors
  <2> QED BY <1>2, <2>1 DEF LosesOK, TypeOK
<1> QED BY <1>5, <1>6, <1>7

(* The sweeper's own steps: what it lists is overdue, and overdue jobs have  *)
(* no worker.                                                                *)
LEMMA AloneSweep ==
  ASSUME IInv, AloneInv, NEW z \in Sweepers,
         ListOrphans(z) \/ SweepOne(z) \/ ListStuck(z) \/ FinalizeStuck(z)
  PROVE  AloneInv'
<1> USE LifecycleAssumption DEF AloneInv, IInv
<1>0. z \in Actors /\ z \notin Workers
  BY DEF Actors
<1>1. UNCHANGED <<jobStatus, stale>> /\ \A b \in Actors \ {z} :
         pc'[b] = pc[b] /\ cur'[b] = cur[b] /\ res'[b] = res[b] /\ todo'[b] = todo[b]
  BY <1>0 DEF ListOrphans, SweepOne, ListStuck, FinalizeStuck, Finish, Goto, dbVars, TypeOK
<1>2. /\ todo'[z] \subseteq todo[z] \cup stale
      /\ cur'[z] = cur[z] \/ cur'[z] \in todo[z]
      /\ pc'[z] = "persist" => res'[z] \in Lost
  <2>1. CASE ListOrphans(z)
    BY <1>0, <2>1 DEF ListOrphans, Orphans, Goto, TypeOK
  <2>2. CASE SweepOne(z)
    BY <1>0, <2>2 DEF SweepOne, Finish, Goto, TypeOK, Lost
  <2>3. CASE ListStuck(z) \/ FinalizeStuck(z)
    BY <1>0, <2>3 DEF ListStuck, FinalizeStuck, Goto, TypeOK
  <2> QED BY <2>1, <2>2, <2>3
<1>3. SweptAlone'
  <2> SUFFICES ASSUME NEW j \in Jobs, Swept(j)'
               PROVE  Abandoned(j)'
    BY DEF SweptAlone
  <2>1. Swept(j)
    BY <1>0, <1>1, <1>2 DEF Swept, Actors
  <2> QED BY <1>0, <1>1, <2>1 DEF SweptAlone, Abandoned, Held, Actors
<1>4. ASSUME NEW w \in Workers PROVE HoldsOK(w)'
  BY <1>0, <1>1 DEF HoldsOK, Actors
<1>5. ASSUME NEW y \in Sweepers PROVE LosesOK(y)'
  BY <1>0, <1>1, <1>2 DEF LosesOK, Actors
<1> QED BY <1>3, <1>4, <1>5

(* A job ages behind the orphan deadline only when no worker holds it.       *)
LEMMA AloneAgeOut ==
  ASSUME "slow" \notin Faults, IInv, AloneInv, NEW j \in Jobs, AgeOut(j)
  PROVE  AloneInv'
<1>1. ~Held(j) /\ jobStatus[j] = "running" /\ ScanOf[j] \notin LegacyStuck
  BY DEF AgeOut, Outlives, Fault, IInv, LegacyOK, JobsOf, Closed, Outcomes
<1>2. UNCHANGED <<jobStatus, pc, cur, res, todo>> /\ stale' = stale \cup {j}
  BY DEF AgeOut, actorVars
<1> QED BY <1>1, <1>2 DEF AloneInv, SweptAlone, Swept, Abandoned, Held, HoldsOK, LosesOK

(* Every step keeps it, when nobody is slower than the deadline.            *)
LEMMA AloneNext ==
  ASSUME "slow" \notin Faults, IInv, AloneInv, [Next]_vars
  PROVE  AloneInv'
<1>1. CASE \E s \in Scans : Charge(s) \/ ApiStep(s) \/ ApiCrash(s) \/ CancelScan(s)
  <2> PICK s \in Scans : Charge(s) \/ ApiStep(s) \/ ApiCrash(s) \/ CancelScan(s)
    BY <1>1
  <2>1. CASE InsertJob(s)
    BY <2>1, AloneInsertJob
  <2>2. CASE ~InsertJob(s)
    <3>1. UNCHANGED <<jobStatus, stale, pc, cur, res, todo>>
      BY <2>2 DEF Charge, ApiStep, InsertScan, Enqueue, RefundRest, ApiCrash,
                  CancelScan, dbVars, actorVars
    <3> QED BY <3>1, AloneSame
  <2> QED BY <2>1, <2>2
<1>2. ASSUME NEW w \in Workers, WorkerStep(w) PROVE AloneInv'
  <2>1. w \in Actors
    BY DEF Actors
  <2> QED BY <1>2, <2>1, AloneClaim, AloneLoop, AlonePersist, AloneAfter DEF WorkerStep
<1>3. ASSUME NEW z \in Sweepers, SweeperStep(z) PROVE AloneInv'
  <2>1. z \in Actors
    BY DEF Actors
  <2> QED BY <1>3, <2>1, AloneSweep, AlonePersist, AloneAfter DEF SweeperStep
<1>4. CASE (\E j \in Jobs : AgeOut(j)) \/ (\E a \in Actors : Crash(a))
  BY <1>4, AloneAgeOut, AloneAfter
<1>5. CASE RedisFlush \/ UNCHANGED vars
  <2>1. UNCHANGED <<jobStatus, stale, pc, cur, res, todo>>
    BY <1>5 DEF RedisFlush, vars, dbVars, actorVars
  <2> QED BY <2>1, AloneSame
<1> QED BY <1>1, <1>2, <1>3, <1>4, <1>5 DEF Next

(* At first nothing is swept and nobody holds a job.                        *)
LEMMA AloneInit == Init => AloneInv
<1> SUFFICES ASSUME Init PROVE AloneInv
  OBVIOUS
<1> USE LifecycleAssumption
<1>1. SweptAlone
  BY DEF Init, SweptAlone, Swept, Actors
<1>2. \A w \in Workers : HoldsOK(w)
  BY DEF Init, HoldsOK, Actors
<1>3. \A z \in Sweepers : LosesOK(z)
  BY DEF Init, LosesOK, Actors
<1> QED BY <1>1, <1>2, <1>3 DEF AloneInv

(* When no live worker outlives the orphan deadline, a job the sweepers list *)
(* or close is held by no worker, and a worker finds the job it holds as it  *)
(* left it up to its own result transaction.                                 *)
THEOREM NobodyOverlaps ==
  ASSUME "slow" \notin Faults
  PROVE  Spec => []AloneInv
<1>1. Init => AloneInv
  BY AloneInit
<1>2. IInv /\ AloneInv /\ [Next]_vars => AloneInv'
  BY AloneNext
<1> QED BY <1>1, <1>2, Inductive, PTL DEF Spec

-----------------------------------------------------------------------------
(***************************************************************************)
(* The results of a finished scan belong together.                         *)
(***************************************************************************)

(* Only the result transaction stores findings, and only it and              *)
(* FinalizeStuckScans finish a scan.                                         *)
LEMMA OnlyPersistStores ==
  ASSUME IInv, [Next]_vars, \A a \in Actors : ~Persist(a)
  PROVE  /\ findings' = findings
         /\ \/ \E z \in Sweepers : FinalizeStuck(z)
            \/ \A s \in Scans : Terminal(s)' => Terminal(s)
<1> DEFINE Kept == findings' = findings /\ \A s \in Scans : Terminal(s)' => Terminal(s)
<1> USE LifecycleAssumption DEF IInv
<1>1. CASE \E s \in Scans : Charge(s) \/ ApiStep(s) \/ ApiCrash(s) \/ CancelScan(s)
  <2> PICK s \in Scans : Charge(s) \/ ApiStep(s) \/ ApiCrash(s) \/ CancelScan(s)
    BY <1>1
  <2>1. findings' = findings /\ scanStatus' \in {scanStatus, [scanStatus EXCEPT ![s] = "queued"]}
    BY DEF Charge, ApiStep, InsertScan, InsertJob, Enqueue, RefundRest, ApiCrash,
           CancelScan, dbVars
  <2> QED BY <2>1 DEF Terminal, TypeOK
<1>2. ASSUME NEW a \in Actors, Refund(a) \/ Score(a) \/ Tell(a) \/ Crash(a) PROVE Kept
  BY <1>2 DEF Refund, Score, Tell, Crash, dbVars, Terminal
<1>3. ASSUME NEW w \in Workers, WorkerStep(w) PROVE Kept
  <2>1. w \in Actors
    BY DEF Actors
  <2>2. CASE Claim(w) \/ Load(w) \/ MarkRunning(w) \/ Prepare(w) \/ RunEngine(w) \/ Ack(w)
    BY <2>2 DEF Claim, Load, MarkRunning, Prepare, RunEngine, Ack, dbVars, Terminal
  <2>3. CASE MarkStarted(w)
    BY <2>3 DEF MarkStarted, Terminal, TypeOK
  <2> QED BY <1>2, <1>3, <2>1, <2>2, <2>3 DEF WorkerStep
<1>4. ASSUME NEW z \in Sweepers, SweeperStep(z) PROVE (FinalizeStuck(z) /\ findings' = findings) \/ Kept
  <2>1. z \in Actors
    BY DEF Actors
  <2>2. CASE ListOrphans(z) \/ SweepOne(z) \/ ListStuck(z)
    BY <2>2 DEF ListOrphans, SweepOne, ListStuck, dbVars, Terminal
  <2>3. CASE FinalizeStuck(z)
    BY <2>3 DEF FinalizeStuck
  <2> QED BY <1>2, <1>4, <2>1, <2>2, <2>3 DEF SweeperStep
<1>5. CASE (\E j \in Jobs : AgeOut(j)) \/ RedisFlush \/ UNCHANGED vars
  BY <1>5 DEF AgeOut, RedisFlush, vars, dbVars, Terminal
<1> QED BY <1>1, <1>2, <1>3, <1>4, <1>5 DEF Next

(* Findings are stored for a job that was in flight until then, so never for *)
(* a finished scan.                                                          *)
LEMMA FindingsOfFinishedScan ==
  ASSUME IInv, AloneInv, [Next]_vars, NEW s \in Scans, Terminal(s)
  PROVE  findings' \cap JobsOf(s) = findings \cap JobsOf(s)
<1> USE LifecycleAssumption DEF IInv, AloneInv
<1>1. ASSUME NEW a \in Actors, Persist(a), findings' # findings
      PROVE  findings' = findings \cup {cur[a]} /\ cur[a] \notin JobsOf(s)
  <2>1. res[a] \in Emitting /\ findings' = findings \cup {cur[a]} /\ pc[a] = "persist"
    BY <1>1 DEF Persist
  <2>2. a \in Workers /\ cur[a] \in Jobs
    BY <1>1, <2>1, PersistCases DEF Actors, LosesOK, Lost, Emitting, EngineOutcomes
  <2>3. jobStatus[cur[a]] \in InFlight
    BY <2>1, <2>2 DEF HoldsOK
  <2> QED BY <2>1, <2>3 DEF FinishedScanHasNoOpenJob
<1> QED BY <1>1, OnlyPersistStores

(* Whoever finishes a scan writes the counts of the findings then stored.    *)
LEMMA CountsWhenFinished ==
  ASSUME IInv, [Next]_vars, NEW s \in Scans, ~Terminal(s), Terminal(s)'
  PROVE  counts'[s] = findings' \cap JobsOf(s)
<1> USE LifecycleAssumption DEF IInv
<1>1. CASE \E a \in Actors : Persist(a)
  <2> PICK a \in Actors : Persist(a)
    BY <1>1
  <2>1. cur[a] \in Jobs /\ ScanOf[cur[a]] \in Scans
    BY PersistCases
  <2>2. scanStatus' # scanStatus
    BY DEF Terminal
  <2>3. /\ \E x : scanStatus' = [scanStatus EXCEPT ![ScanOf[cur[a]]] = x]
        /\ counts' = [counts EXCEPT ![ScanOf[cur[a]]] = findings' \cap JobsOf(ScanOf[cur[a]])]
    BY <2>2 DEF Persist
  <2>4. s = ScanOf[cur[a]]
    BY <2>3 DEF Terminal, TypeOK
  <2> QED BY <2>3, <2>4 DEF TypeOK
<1>2. CASE \A a \in Actors : ~Persist(a)
  <2>1. PICK z \in Sweepers : FinalizeStuck(z)
    BY <1>2, OnlyPersistStores
  <2>2. scanStatus' # scanStatus /\ findings' = findings
    BY <2>1 DEF Terminal, FinalizeStuck
  <2>3. stuckTodo[z] \subseteq Scans
    BY DEF TypeOK, Actors
  <2>4. PICK t \in Scans : /\ \E x : scanStatus' = [scanStatus EXCEPT ![t] = x]
                           /\ counts' = [counts EXCEPT ![t] = findings \cap JobsOf(t)]
    BY <2>1, <2>2, <2>3 DEF FinalizeStuck
  <2>5. s = t
    BY <2>4 DEF Terminal, TypeOK
  <2> QED BY <2>2, <2>4, <2>5 DEF TypeOK
<1> QED BY <1>1, <1>2

(* The counts are those of the findings stored when the scan finished, no    *)
(* finding comes later, and the score is computed from the very same ones.   *)
LEMMA ResultsStep ==
  ASSUME IInv, AloneInv, ResultsBelongTogether, [Next]_vars
  PROVE  ResultsBelongTogether'
<1> USE DEF ResultsBelongTogether
<1>1. ASSUME NEW s \in Scans, Terminal(s)' PROVE counts'[s] = findings' \cap JobsOf(s)
  <2>1. CASE Terminal(s)
    BY <2>1, FinalOrStutter, FindingsOfFinishedScan DEF CountsMatchFindings
  <2> QED BY <1>1, <2>1, CountsWhenFinished
<1>2. ASSUME NEW s \in Scans, assessment'[s] # {}
      PROVE  scanStatus'[s] = "completed" /\ assessment'[s] = {counts'[s]}
  <2>1. CASE assessment'[s] = assessment[s]
    <3>1. scanStatus[s] = "completed" /\ assessment[s] = {counts[s]}
      BY <1>2, <2>1 DEF ScoreMatchesCounts
    <3> QED BY <2>1, <3>1, FinalOrStutter DEF Terminal
  <2>2. CASE assessment'[s] # assessment[s]
    <3>1. PICK a \in Actors : Score(a)
      BY <2>2, OnlyScoreScores
    <3>2. scanStatus[s] = "completed" /\ assessment'[s] = {findings \cap JobsOf(s)}
      BY <2>2, <3>1 DEF Score, Scorable, IInv, TypeOK
    <3> QED BY <3>2, FinalOrStutter DEF Terminal, CountsMatchFindings
  <2> QED BY <2>1, <2>2
<1> QED BY <1>1, <1>2 DEF CountsMatchFindings, ScoreMatchesCounts, JobsOf

(* When no worker outlives the orphan deadline, the counts a finished scan   *)
(* shows are those of the findings stored for it and its score was computed  *)
(* from these: PersistJobResult, FinalizeStuckScans and finalizeScoring, each *)
(* a transaction of its own, agree, whatever crashes or fails between them.  *)
THEOREM ResultsAgree ==
  ASSUME "slow" \notin Faults
  PROVE  Spec => []ResultsBelongTogether
<1>1. Init => ResultsBelongTogether
  BY DEF Init, ResultsBelongTogether, CountsMatchFindings, ScoreMatchesCounts, Terminal
<1>2. IInv /\ AloneInv /\ ResultsBelongTogether /\ [Next]_vars => ResultsBelongTogether'
  BY ResultsStep
<1> QED BY <1>1, <1>2, Inductive, NobodyOverlaps, PTL DEF Spec

-----------------------------------------------------------------------------
(***************************************************************************)
(* Refunds: tokens go back only for work the client did not get.           *)
(***************************************************************************)

\* A job that was given back never runs: it is in no list, and the worker that
\* may still hold it is past its result.
RefundedOK(j) ==
    j \in refunded =>
        /\ jobStatus[j] \notin Delivered
        /\ ~Pending(j) /\ ~Unqueued(j)
        /\ \A w \in Workers : cur[w] = j => pc[w] \in {"refund", "score", "tell", "ack"}

\* The API refunds jobs that never reached a worker and never will.
RefundRestOK(s) ==
    apc[s] = "refund" =>
        \A j \in apiTodo[s] : ~Pending(j) /\ ~Held(j) /\ jobStatus[j] \in {"none", "queued"}

\* A worker refunds a job it closed with a refundable outcome, or could not close.
RefundOK(w) == pc[w] = "refund" => jobStatus[cur[w]] \notin Delivered

RefundsInv ==
    /\ \A j \in Jobs : RefundedOK(j)
    /\ \A s \in Scans : RefundRestOK(s)
    /\ \A w \in Workers : RefundOK(w)

(* A job CreateScan has yet to queue is in no list and in nobody's hands.    *)
LEMMA YetToQueue ==
  ASSUME IInv, NEW j \in Jobs, Unqueued(j)
  PROVE  ~Pending(j) /\ ~Held(j) /\ jobStatus[j] \in {"none", "queued"}
<1> USE DEF IInv
<1>1. ~Pending(j)
  BY DEF ClaimsOK, PendingOK
<1>2. ~Held(j)
  BY LifecycleAssumption DEF Held, ClaimsOK, ClaimOK, ActorsOK, WorkerOK
<1> QED BY <1>1, <1>2 DEF RowsOK, JobRowOK

(* A step that touches no job, queue, refund or worker.                      *)
LEMMA RefundsSame ==
  ASSUME RefundsInv, UNCHANGED <<jobStatus, refunded, pending, apc, apiTodo>>,
         \A w \in Workers : pc'[w] = pc[w] /\ cur'[w] = cur[w]
  PROVE  RefundsInv'
<1> USE DEF RefundsInv
<1>1. ASSUME NEW j \in Jobs PROVE RefundedOK(j)'
  BY DEF RefundedOK, Pending, Unqueued
<1>2. ASSUME NEW s \in Scans PROVE RefundRestOK(s)'
  BY DEF RefundRestOK, Pending, Held
<1>3. ASSUME NEW w \in Workers PROVE RefundOK(w)'
  BY DEF RefundOK
<1> QED BY <1>1, <1>2, <1>3

(* CreateScan up to its queue: a job it gives up was never queued.           *)
LEMMA RefundsCreate ==
  ASSUME IInv, RefundsInv, NEW s \in Scans,
         Charge(s) \/ InsertScan(s) \/ InsertJob(s) \/ ApiCrash(s)
  PROVE  RefundsInv'
<1> USE LifecycleAssumption DEF RefundsInv, IInv
<1>1. UNCHANGED <<refunded, pending, pc, cur>>
  BY DEF Charge, InsertScan, InsertJob, ApiCrash, tokenVars, queueVars, actorVars
<1>2. \A j \in Jobs : \/ jobStatus'[j] = jobStatus[j]
                      \/ ScanOf[j] = s /\ Unqueued(j) /\ jobStatus'[j] = "queued"
  BY DEF Charge, InsertScan, InsertJob, ApiCrash, dbVars, RowsOK, ScanRowOK, JobsOf, TypeOK, Unqueued
<1>3. \A j \in Jobs : Unqueued(j)' => Unqueued(j)
  <2>1. CASE Charge(s)
    BY <2>1 DEF Charge, Unqueued, TypeOK
  <2>2. CASE InsertScan(s)
    BY <2>2 DEF InsertScan, Unqueued, TypeOK
  <2>3. CASE InsertJob(s)
    BY <2>3 DEF InsertJob, Unqueued, TypeOK
  <2>4. CASE ApiCrash(s)
    BY <2>4 DEF ApiCrash, Unqueued, TypeOK
  <2> QED BY <2>1, <2>2, <2>3, <2>4
<1>4. \A t \in Scans : (apc'[t] = apc[t] /\ apiTodo'[t] = apiTodo[t]) \/ t = s
  BY DEF Charge, InsertScan, InsertJob, ApiCrash, apiVars, TypeOK
<1>5. apc'[s] = "refund" => apiTodo'[s] = JobsOf(s) /\ apc[s] \in {"row", "jobs"}
  <2>1. CASE Charge(s) \/ ApiCrash(s)
    BY <2>1 DEF Charge, ApiCrash, apiVars, TypeOK
  <2>2. CASE InsertScan(s)
    BY <2>2 DEF InsertScan, TypeOK
  <2>3. CASE InsertJob(s)
    BY <2>3 DEF InsertJob, TypeOK
  <2> QED BY <2>1, <2>2, <2>3
<1>6. ASSUME NEW j \in Jobs PROVE RefundedOK(j)'
  <2>1. RefundedOK(j)
    OBVIOUS
  <2> QED BY <1>1, <1>2, <1>3, <2>1 DEF RefundedOK, Pending
<1>7. ASSUME NEW t \in Scans PROVE RefundRestOK(t)'
  <2>1. CASE t = s
    <3> SUFFICES ASSUME apc'[s] = "refund", NEW j \in apiTodo'[s]
                 PROVE  (~Pending(j) /\ ~Held(j) /\ jobStatus[j] \in {"none", "queued"})'
      BY <2>1 DEF RefundRestOK
    <3>1. j \in Jobs /\ Unqueued(j)
      BY <1>5 DEF JobsOf, Unqueued
    <3>2. ~Pending(j) /\ ~Held(j) /\ jobStatus[j] \in {"none", "queued"}
      BY <3>1, YetToQueue
    <3>3. ~Pending(j)' /\ ~Held(j)'
      BY <1>1, <3>2 DEF Pending, Held
    <3> QED BY <1>2, <3>1, <3>2, <3>3
  <2>2. CASE t # s
    <3>1. RefundRestOK(t) /\ apiTodo[t] \subseteq JobsOf(t)
      BY DEF RowsOK, ScanRowOK
    <3> QED BY <1>1, <1>2, <1>4, <2>2, <3>1 DEF RefundRestOK, Pending, Held, JobsOf
  <2> QED BY <2>1, <2>2
<1>8. ASSUME NEW w \in Workers PROVE RefundOK(w)'
  <2>1. RefundOK(w) /\ ClaimOK(w) /\ WorkerOK(w) /\ w \in Actors
    BY DEF ClaimsOK, ActorsOK, Actors
  <2>2. pc[w] = "refund" => cur[w] \in Jobs
    BY <2>1 DEF WorkerOK, TypeOK
  <2> QED BY <1>1, <1>2, <2>1, <2>2 DEF RefundOK, Delivered
<1> QED BY <1>6, <1>7, <1>8

(* Queue.Enqueue: a push either happened or reported that it did not; the    *)
(* jobs that are given up are not in Redis.                                  *)
LEMMA RefundsEnqueue ==
  ASSUME "lostreply" \notin Faults, IInv, RefundsInv, NEW s \in Scans, Enqueue(s)
  PROVE  RefundsInv'
<1> USE LifecycleAssumption DEF RefundsInv, IInv
<1>1. UNCHANGED <<jobStatus, refunded, pc, cur>> /\ apc[s] = "queue"
  BY DEF Enqueue, dbVars, tokenVars, actorVars
<1>2. \/ /\ \E j \in apiTodo[s] : pending' = Append(pending, j) /\ apiTodo' = [apiTodo EXCEPT ![s] = @ \ {j}]
         /\ \E p \in {"done", "queue"} : apc' = [apc EXCEPT ![s] = p]
      \/ pending' = pending /\ apc' = [apc EXCEPT ![s] = "refund"] /\ apiTodo' = apiTodo
  BY DEF Enqueue, Fault
<1>3. apiTodo[s] \subseteq JobsOf(s)
  BY DEF RowsOK, ScanRowOK
<1>4. \A j \in Jobs : Unqueued(j)' => Unqueued(j)
  BY <1>1, <1>2 DEF Unqueued, TypeOK
<1>5. \A j \in Jobs : Pending(j)' => Pending(j) \/ (ScanOf[j] = s /\ j \in apiTodo[s] /\ Unqueued(j) /\ apc'[s] # "refund")
  <2>1. CASE pending' = pending
    BY <2>1 DEF Pending
  <2>2. CASE \E j \in apiTodo[s] : pending' = Append(pending, j) /\ apiTodo' = [apiTodo EXCEPT ![s] = @ \ {j}]
    <3> PICK j \in apiTodo[s] : pending' = Append(pending, j)
      BY <2>2
    <3>1. \A k \in Jobs : Pending(k)' => Pending(k) \/ k = j
      BY DEF Pending, TypeOK
    <3>2. ScanOf[j] = s /\ Unqueued(j)
      BY <1>1, <1>3 DEF Unqueued, JobsOf
    <3>3. CASE apc'[s] # "refund"
      BY <3>1, <3>2, <3>3
    <3>4. CASE apc'[s] = "refund"
      <4>1. pending' = pending
        BY <1>2, <3>4 DEF TypeOK
      <4> QED BY <4>1 DEF Pending
    <3> QED BY <3>3, <3>4
  <2> QED BY <1>2, <2>1, <2>2
<1>6. ASSUME NEW j \in Jobs PROVE RefundedOK(j)'
  <2>1. RefundedOK(j)
    OBVIOUS
  <2> QED BY <1>1, <1>4, <1>5, <2>1 DEF RefundedOK
<1>7. ASSUME NEW t \in Scans PROVE RefundRestOK(t)'
  <2> SUFFICES ASSUME apc'[t] = "refund", NEW j \in apiTodo'[t]
               PROVE  (~Pending(j) /\ ~Held(j) /\ jobStatus[j] \in {"none", "queued"})'
    BY DEF RefundRestOK
  <2>1. CASE t = s
    <3>1. pending' = pending /\ apiTodo' = apiTodo
      BY <1>2, <2>1 DEF TypeOK
    <3>2. j \in Jobs /\ Unqueued(j)
      BY <1>1, <1>3, <2>1, <3>1 DEF JobsOf, Unqueued
    <3> QED BY <1>1, <3>1, <3>2, YetToQueue DEF Pending, Held
  <2>2. CASE t # s
    <3>1. apc[t] = "refund" /\ apiTodo'[t] = apiTodo[t]
      BY <1>2, <2>2 DEF TypeOK
    <3>2. RefundRestOK(t) /\ j \in Jobs /\ ScanOf[j] = t
      BY <3>1 DEF RowsOK, ScanRowOK, JobsOf
    <3> QED BY <1>1, <1>5, <2>2, <3>1, <3>2 DEF RefundRestOK, Held
  <2> QED BY <2>1, <2>2
<1>8. ASSUME NEW w \in Workers PROVE RefundOK(w)'
  BY <1>1 DEF RefundOK
<1> QED BY <1>6, <1>7, <1>8

(* The API's refund loop: none of these jobs is, or will be, worked on.      *)
LEMMA RefundsRest ==
  ASSUME IInv, RefundsInv, NEW s \in Scans, RefundRest(s)
  PROVE  RefundsInv'
<1> USE LifecycleAssumption DEF RefundsInv, IInv
<1>1. PICK j \in apiTodo[s] :
        /\ refunded' \subseteq refunded \cup {j}
        /\ apiTodo' = [apiTodo EXCEPT ![s] = @ \ {j}]
        /\ \E p \in {"done", "refund"} : apc' = [apc EXCEPT ![s] = p]
  BY DEF RefundRest
<1>2. UNCHANGED <<jobStatus, pending, pc, cur>> /\ apc[s] = "refund"
  BY DEF RefundRest, dbVars, queueVars, actorVars
<1>3. j \in Jobs /\ ScanOf[j] = s /\ ~Unqueued(j)
  BY <1>2 DEF RowsOK, ScanRowOK, JobsOf, Unqueued
<1>4. ~Pending(j) /\ ~Held(j) /\ jobStatus[j] \in {"none", "queued"}
  BY <1>2 DEF RefundRestOK
<1>5. \A k \in Jobs : Unqueued(k)' => Unqueued(k)
  BY <1>1, <1>2 DEF Unqueued, TypeOK
<1>6. ASSUME NEW k \in Jobs PROVE RefundedOK(k)'
  <2>1. RefundedOK(k)
    OBVIOUS
  <2>2. k = j => jobStatus[k] \notin Delivered /\ ~Pending(k) /\ ~Unqueued(k) /\ \A w \in Workers : cur[w] # k
    BY <1>3, <1>4 DEF Held, Delivered
  <2> QED BY <1>1, <1>2, <1>5, <2>1, <2>2 DEF RefundedOK, Pending
<1>7. ASSUME NEW t \in Scans PROVE RefundRestOK(t)'
  <2>1. apc'[t] = "refund" => apc[t] = "refund" /\ apiTodo'[t] \subseteq apiTodo[t]
    BY <1>1, <1>2 DEF TypeOK
  <2>2. RefundRestOK(t)
    OBVIOUS
  <2> QED BY <1>2, <2>1, <2>2 DEF RefundRestOK, Pending, Held
<1>8. ASSUME NEW w \in Workers PROVE RefundOK(w)'
  BY <1>2 DEF RefundOK
<1> QED BY <1>6, <1>7, <1>8

(* Queue.Claim takes a job that is in Redis, so one nobody gave back.        *)
LEMMA RefundsClaim == ASSUME IInv, RefundsInv, NEW w \in Workers, Claim(w) PROVE RefundsInv'
<1> USE LifecycleAssumption DEF RefundsInv, IInv
<1>1. Head(pending) \in Jobs /\ Pending(Head(pending)) /\ w \in Actors
  BY DEF Claim, TypeOK, Pending, Actors
<1>2. /\ cur' = [cur EXCEPT ![w] = Head(pending)] /\ pc' = [pc EXCEPT ![w] = "load"]
      /\ pending' = Tail(pending) /\ pending # <<>>
      /\ UNCHANGED <<jobStatus, refunded, apc, apiTodo>>
  BY DEF Claim, Goto, AfterClaim, dbVars, tokenVars, apiVars
<1>3. \A j \in Jobs : Pending(j)' => Pending(j)
  BY <1>2 DEF Pending, TypeOK
<1>4. ASSUME NEW j \in Jobs PROVE RefundedOK(j)'
  <2>1. RefundedOK(j)
    OBVIOUS
  <2>2. j \in refunded => j # Head(pending)
    BY <1>1, <2>1 DEF RefundedOK
  <2>3. Unqueued(j)' <=> Unqueued(j)
    BY <1>2 DEF Unqueued
  <2> QED BY <1>1, <1>2, <1>3, <2>1, <2>2, <2>3 DEF RefundedOK, TypeOK, Actors
<1>5. ASSUME NEW s \in Scans PROVE RefundRestOK(s)'
  <2> SUFFICES ASSUME apc[s] = "refund", NEW j \in apiTodo[s]
               PROVE  (~Pending(j) /\ ~Held(j) /\ jobStatus[j] \in {"none", "queued"})'
    BY <1>2 DEF RefundRestOK
  <2>1. j \in Jobs /\ ~Pending(j) /\ ~Held(j) /\ jobStatus[j] \in {"none", "queued"}
    BY DEF RefundRestOK, RowsOK, ScanRowOK, JobsOf
  <2>2. j # Head(pending)
    BY <1>1, <2>1
  <2>3. ~Held(j)'
    BY <1>1, <1>2, <2>1, <2>2 DEF Held, TypeOK
  <2> QED BY <1>2, <1>3, <2>1, <2>3
<1>6. ASSUME NEW v \in Workers PROVE RefundOK(v)'
  <2>1. RefundOK(v)
    OBVIOUS
  <2> QED BY <1>1, <1>2, <2>1 DEF RefundOK, TypeOK, Actors
<1> QED BY <1>4, <1>5, <1>6

(* A worker's step on the job it holds, from claim to result: that job is    *)
(* not given back before it is past its result.                              *)
LEMMA RefundsWorker ==
  ASSUME IInv, RefundsInv, NEW w \in Workers,
         pc[w] \in {"load", "mark", "start", "prepare", "run", "persist"},
         UNCHANGED <<refunded, pending, apc, apiTodo, cur>>,
         \A v \in Workers \ {w} : pc'[v] = pc[v],
         \A j \in Jobs \ {cur[w]} : jobStatus'[j] = jobStatus[j],
         RefundOK(w)'
  PROVE  RefundsInv'
<1> USE LifecycleAssumption DEF RefundsInv, IInv
<1>1. cur[w] \in Jobs /\ Held(cur[w]) /\ w \in Actors
  BY DEF ActorsOK, WorkerOK, TypeOK, Actors, Held
<1>2. cur[w] \notin refunded
  BY <1>1 DEF RefundedOK
<1>3. ASSUME NEW j \in Jobs PROVE RefundedOK(j)'
  <2>1. RefundedOK(j)
    OBVIOUS
  <2>2. Unqueued(j)' <=> Unqueued(j)
    BY DEF Unqueued
  <2> QED BY <1>2, <2>1, <2>2 DEF RefundedOK, Pending
<1>4. ASSUME NEW s \in Scans PROVE RefundRestOK(s)'
  <2>1. RefundRestOK(s) /\ apiTodo[s] \subseteq Jobs
    BY DEF RowsOK, ScanRowOK, JobsOf
  <2> QED BY <1>1, <2>1 DEF RefundRestOK, Pending, Held
<1>5. ASSUME NEW v \in Workers PROVE RefundOK(v)'
  <2>1. CASE v = w
    BY <2>1
  <2>2. CASE v # w
    <3>1. RefundOK(v) /\ WorkerOK(v) /\ v \in Actors
      BY DEF ActorsOK, Actors
    <3>2. pc[v] = "refund" => cur[v] \in Jobs /\ cur[v] # cur[w]
      BY <2>2, <3>1 DEF WorkerOK, TypeOK, ClaimsOK, ClaimedOnce
    <3> QED BY <2>2, <3>1, <3>2 DEF RefundOK
  <2> QED BY <2>1, <2>2
<1> QED BY <1>3, <1>4, <1>5

(* The steps of the worker loop up to the result.                           *)
LEMMA RefundsLoop ==
  ASSUME IInv, RefundsInv, NEW w \in Workers,
         Load(w) \/ MarkRunning(w) \/ MarkStarted(w) \/ Prepare(w) \/ RunEngine(w)
  PROVE  RefundsInv'
<1> USE LifecycleAssumption DEF IInv
<1>1. w \in Actors /\ pc[w] \in {"load", "mark", "start", "prepare", "run", "persist"}
  BY DEF Actors, Load, MarkRunning, MarkStarted, Prepare, RunEngine
<1>2. UNCHANGED <<refunded, pending, apc, apiTodo, cur>>
  BY DEF Load, MarkRunning, MarkStarted, Prepare, RunEngine, tokenVars, queueVars, apiVars
<1>3. /\ \A v \in Workers \ {w} : pc'[v] = pc[v]
      /\ \A j \in Jobs \ {cur[w]} : jobStatus'[j] = jobStatus[j]
      /\ pc'[w] # "refund"
  BY <1>1 DEF Load, MarkRunning, MarkStarted, Prepare, RunEngine, Finish, Goto, dbVars, TypeOK, Actors
<1> QED BY <1>1, <1>2, <1>3, RefundsWorker DEF RefundOK

(* PersistJobResult: a worker goes on to the refund with a result the user   *)
(* does not pay for; a sweeper closes a job no worker holds, as lost.        *)
LEMMA RefundsPersist ==
  ASSUME IInv, AloneInv, RefundsInv, NEW a \in Actors, Persist(a)
  PROVE  RefundsInv'
<1> USE LifecycleAssumption DEF IInv, AloneInv
<1>1. cur[a] \in Jobs /\ pc[a] = "persist" /\ res[a] \in Outcomes
  BY PersistCases
<1>2. /\ UNCHANGED <<refunded, pending, apc, apiTodo>>
      /\ jobStatus' \in {jobStatus, [jobStatus EXCEPT ![cur[a]] = res[a]]}
  BY DEF Persist, tokenVars, queueVars, apiVars
<1>3. PICK p \in {"refund", "score", "ack", "sweep", "idle"} :
        /\ pc' = [pc EXCEPT ![a] = p]
        /\ p = "refund" => ReturnTo(a, "refund")
        /\ \/ UNCHANGED cur
           \/ a \in Sweepers \ Workers /\ cur' = [cur EXCEPT ![a] = NoJob]
  BY PersistCases, Returning
<1>4. CASE a \in Workers
  <2>1. jobStatus[cur[a]] \in InFlight
    BY <1>1, <1>4 DEF HoldsOK
  <2>2. UNCHANGED cur
    BY <1>3, <1>4
  <2>3. pc'[a] = "refund" => Refundable(res[a])
    BY <1>1 DEF Persist, ReturnTo, Goto, Onward, Resume, TypeOK
  <2>4. RefundOK(a)'
    BY <1>1, <1>2, <2>1, <2>2, <2>3 DEF RefundOK, Refundable, Delivered, InFlight, TypeOK
  <2>5. \A v \in Workers \ {a} : pc'[v] = pc[v]
    BY <1>3 DEF TypeOK, Actors
  <2>6. \A j \in Jobs \ {cur[a]} : jobStatus'[j] = jobStatus[j]
    BY <1>2 DEF TypeOK
  <2> QED BY <1>1, <1>2, <1>4, <2>2, <2>4, <2>5, <2>6, RefundsWorker
<1>5. CASE a \in Sweepers
  <2>1. Swept(cur[a]) /\ res[a] \in Lost /\ a \notin Workers
    BY <1>1, <1>5 DEF Swept, LosesOK
  <2>2. \A w \in Workers : pc'[w] = pc[w] /\ cur'[w] = cur[w] /\ cur[w] # cur[a]
    BY <1>1, <1>3, <2>1 DEF SweptAlone, Abandoned, Held, TypeOK, Actors
  <2>3. \A j \in Jobs : jobStatus'[j] = jobStatus[j] \/ (j = cur[a] /\ jobStatus'[j] \in Lost)
    BY <1>2, <2>1 DEF TypeOK
  <2>4. ASSUME NEW j \in Jobs PROVE RefundedOK(j)'
    <3>1. RefundedOK(j)
      BY DEF RefundsInv
    <3>2. Unqueued(j)' <=> Unqueued(j)
      BY <1>2 DEF Unqueued
    <3> QED BY <1>2, <2>2, <2>3, <3>1, <3>2 DEF RefundedOK, Pending, Lost, Delivered
  <2>5. ASSUME NEW s \in Scans PROVE RefundRestOK(s)'
    <3>1. RefundRestOK(s) /\ apiTodo[s] \subseteq Jobs
      BY DEF RefundsInv, RowsOK, ScanRowOK, JobsOf
    <3>2. jobStatus[cur[a]] \notin {"none", "queued"}
      BY <1>1, <2>1 DEF SweptAlone, Abandoned, Lost
    <3> QED BY <1>2, <2>2, <2>3, <3>1, <3>2 DEF RefundRestOK, Pending, Held
  <2>6. ASSUME NEW w \in Workers PROVE RefundOK(w)'
    <3>1. RefundOK(w) /\ WorkerOK(w) /\ w \in Actors
      BY DEF RefundsInv, ActorsOK, Actors
    <3>2. pc[w] = "refund" => cur[w] \in Jobs
      BY <3>1 DEF WorkerOK, TypeOK
    <3> QED BY <2>2, <2>3, <3>1, <3>2 DEF RefundOK
  <2> QED BY <2>4, <2>5, <2>6 DEF RefundsInv
<1> QED BY <1>4, <1>5 DEF Actors

(* RefundJob and what follows: the job given back is one its worker has      *)
(* closed, or one a sweeper found abandoned.                                 *)
LEMMA RefundsAfter ==
  ASSUME IInv, AloneInv, RefundsInv, NEW a \in Actors,
         Refund(a) \/ Score(a) \/ Tell(a) \/ Crash(a) \/ (a \in Workers /\ Ack(a))
  PROVE  RefundsInv'
<1> USE LifecycleAssumption DEF IInv
<1>1. UNCHANGED <<jobStatus, pending, apc, apiTodo>>
  BY DEF Refund, Score, Tell, Crash, Ack, dbVars, queueVars, apiVars
<1>2. /\ pc[a] \in {"refund", "score", "tell", "ack"} \/ Crash(a)
      /\ \E p \in {"score", "tell", "ack", "sweep", "idle"} :
            /\ pc' = [pc EXCEPT ![a] = p]
            /\ a \in Workers => /\ p \in {"score", "tell", "ack", "idle"}
                                /\ p = "idle" => cur' = [cur EXCEPT ![a] = NoJob]
      /\ UNCHANGED cur \/ cur' = [cur EXCEPT ![a] = NoJob]
  <2>1. CASE Refund(a) \/ Tell(a)
    BY <2>1 DEF Refund, Tell, ReturnTo, Goto, Onward, Resume
  <2>2. CASE Score(a) \/ Crash(a) \/ (a \in Workers /\ Ack(a))
    BY <2>2 DEF Score, Crash, Ack, Goto
  <2> QED BY <2>1, <2>2
<1>3. \A w \in Workers : \/ pc'[w] = pc[w] /\ cur'[w] = cur[w]
                         \/ cur'[w] = NoJob /\ pc'[w] # "refund"
                         \/ /\ cur'[w] = cur[w] /\ pc[w] \in {"refund", "score", "tell", "ack"}
                            /\ pc'[w] \in {"score", "tell", "ack"}
  <2> SUFFICES ASSUME NEW w \in Workers, w = a
               PROVE  \/ cur'[w] = NoJob /\ pc'[w] # "refund"
                      \/ /\ cur'[w] = cur[w] /\ pc[w] \in {"refund", "score", "tell", "ack"}
                         /\ pc'[w] \in {"score", "tell", "ack"}
    BY <1>2 DEF TypeOK, Actors
  <2>1. CASE Crash(a)
    BY <2>1 DEF Crash, Goto, TypeOK
  <2>2. CASE ~Crash(a)
    BY <1>2, <2>2 DEF TypeOK
  <2> QED BY <2>1, <2>2
<1>4. refunded' \subseteq refunded \/ (pc[a] = "refund" /\ refunded' \subseteq refunded \cup {cur[a]})
  BY DEF Refund, Score, Tell, Crash, Ack, tokenVars
<1>5. ASSUME NEW j \in Jobs PROVE RefundedOK(j)'
  <2>1. RefundedOK(j)
    BY DEF RefundsInv
  <2>2. pc[a] = "refund" /\ cur[a] = j =>
          /\ jobStatus[j] \notin Delivered /\ ~Pending(j) /\ ~Unqueued(j)
          /\ \A w \in Workers : cur[w] = j => pc[w] = "refund"
    <3> SUFFICES ASSUME pc[a] = "refund", cur[a] = j
                 PROVE  /\ jobStatus[j] \notin Delivered /\ ~Pending(j) /\ ~Unqueued(j)
                        /\ \A w \in Workers : cur[w] = j => pc[w] = "refund"
      OBVIOUS
    <3>1. CASE a \in Workers
      <4>1. jobStatus[j] \notin Delivered
        BY <3>1 DEF RefundsInv, RefundOK
      <4>2. ~Pending(j) /\ ~Unqueued(j)
        BY <3>1 DEF ClaimsOK, ClaimedOnce, ClaimOK
      <4>3. \A w \in Workers : cur[w] = j => w = a
        BY <3>1 DEF ClaimsOK, ClaimedOnce
      <4> QED BY <4>1, <4>2, <4>3
    <3>2. CASE a \in Sweepers
      <4>1. Swept(j)
        BY <3>2 DEF Swept
      <4>2. Abandoned(j)
        BY <4>1 DEF AloneInv, SweptAlone
      <4>3. ~Pending(j) /\ ~Unqueued(j)
        BY <4>2 DEF Abandoned, Lost, ClaimsOK, PendingOK, RowsOK, JobRowOK
      <4> QED BY <4>2, <4>3 DEF Abandoned, Held, Lost, Delivered
    <3> QED BY <3>1, <3>2 DEF Actors
  <2>3. Unqueued(j)' <=> Unqueued(j)
    BY <1>1 DEF Unqueued
  <2>4. Pending(j)' <=> Pending(j)
    BY <1>1 DEF Pending
  <2>5. j \in refunded' =>
          /\ jobStatus[j] \notin Delivered /\ ~Pending(j) /\ ~Unqueued(j)
          /\ \A w \in Workers : cur[w] = j => pc[w] \in {"refund", "score", "tell", "ack"}
    BY <1>4, <2>1, <2>2 DEF RefundedOK
  <2> QED BY <1>1, <1>3, <2>3, <2>4, <2>5 DEF RefundedOK
<1>6. ASSUME NEW s \in Scans PROVE RefundRestOK(s)'
  <2>1. RefundRestOK(s) /\ apiTodo[s] \subseteq Jobs
    BY DEF RefundsInv, RowsOK, ScanRowOK, JobsOf
  <2> QED BY <1>1, <1>3, <2>1 DEF RefundRestOK, Pending, Held
<1>7. ASSUME NEW w \in Workers PROVE RefundOK(w)'
  BY <1>1, <1>3 DEF RefundsInv, RefundOK
<1> QED BY <1>5, <1>6, <1>7 DEF RefundsInv

(* Every step keeps it, when a push that reports an error did not happen.    *)
LEMMA RefundsNext ==
  ASSUME "lostreply" \notin Faults, IInv, AloneInv, RefundsInv, [Next]_vars
  PROVE  RefundsInv'
<1>1. ASSUME NEW s \in Scans, Charge(s) \/ ApiStep(s) \/ ApiCrash(s) \/ CancelScan(s)
      PROVE  RefundsInv'
  <2>1. CASE CancelScan(s)
    <3>1. UNCHANGED <<jobStatus, refunded, pending, apc, apiTodo, pc, cur>>
      BY <2>1 DEF CancelScan, tokenVars, queueVars, apiVars, actorVars
    <3> QED BY <3>1, RefundsSame
  <2> QED BY <1>1, <2>1, RefundsCreate, RefundsEnqueue, RefundsRest DEF ApiStep
<1>2. ASSUME NEW w \in Workers, WorkerStep(w) PROVE RefundsInv'
  <2>1. w \in Actors
    BY DEF Actors
  <2> QED BY <1>2, <2>1, RefundsClaim, RefundsLoop, RefundsPersist, RefundsAfter DEF WorkerStep
<1>3. ASSUME NEW z \in Sweepers, SweeperStep(z) PROVE RefundsInv'
  <2>1. z \in Actors /\ z \notin Workers
    BY LifecycleAssumption DEF Actors
  <2>2. CASE ListOrphans(z) \/ SweepOne(z) \/ ListStuck(z) \/ FinalizeStuck(z)
    <3>1. UNCHANGED <<jobStatus, refunded, pending, apc, apiTodo>>
      BY <2>2 DEF ListOrphans, SweepOne, ListStuck, FinalizeStuck, dbVars, tokenVars, queueVars, apiVars
    <3>2. \A w \in Workers : pc'[w] = pc[w] /\ cur'[w] = cur[w]
      BY <2>1, <2>2 DEF ListOrphans, SweepOne, ListStuck, FinalizeStuck, Finish, Goto, IInv, TypeOK, Actors
    <3> QED BY <3>1, <3>2, RefundsSame
  <2> QED BY <1>3, <2>1, <2>2, RefundsPersist, RefundsAfter DEF SweeperStep
<1>4. CASE (\E j \in Jobs : AgeOut(j)) \/ UNCHANGED vars
  <2>1. UNCHANGED <<jobStatus, refunded, pending, apc, apiTodo, pc, cur>>
    BY <1>4 DEF AgeOut, vars, dbVars, tokenVars, queueVars, apiVars, actorVars
  <2> QED BY <2>1, RefundsSame
<1>5. CASE \E a \in Actors : Crash(a)
  BY <1>5, RefundsAfter
<1>6. CASE RedisFlush
  <2>1. UNCHANGED <<jobStatus, refunded, apc, apiTodo, pc, cur>> /\ pending' = <<>>
    BY <1>6 DEF RedisFlush, dbVars, tokenVars, apiVars, actorVars
  <2>2. \A j \in Jobs : ~Pending(j)' /\ (Unqueued(j)' <=> Unqueued(j)) /\ (Held(j)' <=> Held(j))
    BY <2>1 DEF Pending, Unqueued, Held
  <2>3. \A s \in Scans : apiTodo[s] \subseteq Jobs
    BY DEF IInv, TypeOK
  <2> QED BY <2>1, <2>2, <2>3 DEF RefundsInv, RefundedOK, RefundRestOK, RefundOK
<1> QED BY <1>1, <1>2, <1>3, <1>4, <1>5, <1>6 DEF Next

(* At first nothing is given back.                                          *)
LEMMA RefundsInit == Init => RefundsInv
<1> SUFFICES ASSUME Init PROVE RefundsInv
  OBVIOUS
<1> USE LifecycleAssumption
<1>1. \A w \in Workers : pc[w] = "idle"
  BY DEF Init, Actors
<1>2. refunded = {} /\ \A s \in Scans : apc[s] # "refund"
  BY DEF Init
<1> QED BY <1>1, <1>2 DEF RefundsInv, RefundedOK, RefundRestOK, RefundOK

(* When no worker outlives the orphan deadline and a Redis push that reports *)
(* an error did not happen, tokens go back only for jobs the client got      *)
(* nothing for, through CreateScan's refund, its worker's or a sweeper's.    *)
THEOREM RefundsAreDeserved ==
  ASSUME {"slow", "lostreply"} \cap Faults = {}
  PROVE  Spec => []RefundedOnlyIfUnserved
<1>1. "slow" \notin Faults /\ "lostreply" \notin Faults
  OBVIOUS
<1>2. Init => RefundsInv
  BY RefundsInit
<1>3. IInv /\ AloneInv /\ RefundsInv /\ [Next]_vars => RefundsInv'
  BY <1>1, RefundsNext
<1>4. RefundsInv => RefundedOnlyIfUnserved
  BY DEF RefundsInv, RefundedOK, RefundedOnlyIfUnserved
<1>5. Spec => []AloneInv
  BY <1>1, NobodyOverlaps
<1> QED BY <1>2, <1>3, <1>4, <1>5, Inductive, PTL DEF Spec

-----------------------------------------------------------------------------
(***************************************************************************)
(* Announcements: one actor at most tells the world that a scan is done.   *)
(***************************************************************************)

\* A commit that fails after all leaves its caller believing it finished the
\* scan. Two sweepers that list the same orphan can then both announce it: one
\* believes it, the other does it. With one sweeper, or no such commit, not.
LoneSweeper == "db" \in Faults => \A y, z \in Sweepers : y = z

\* An actor that is to announce a scan finished it, or believes it did and
\* still holds the job that keeps the scan open.
Believes(a, s) ==
    /\ Open(s) /\ "db" \in Faults
    /\ cur[a] \in JobsOf(s) /\ jobStatus[cur[a]] \in InFlight

WonOK(a) ==
    /\ won[a] # {} => pc[a] \in {"refund", "score", "tell", "stuck"}
    /\ pc[a] \in {"score", "tell"} => won[a] # {}
    /\ \A s \in won[a] : Terminal(s) \/ Believes(a, s)

OneTeller(s) == \A a, b \in Actors : s \in won[a] /\ s \in won[b] => a = b

AnnouncedOK(s) ==
    announced[s] # 0 => announced[s] = 1 /\ Terminal(s) /\ \A a \in Actors : s \notin won[a]

AnnounceInv ==
    /\ \A a \in Actors : WonOK(a)
    /\ \A s \in Scans : OneTeller(s) /\ AnnouncedOK(s)

\* One step of an actor, or its death.
ActorStep(a) ==
    \/ a \in Workers /\ WorkerStep(a)
    \/ a \in Sweepers /\ SweeperStep(a)
    \/ Crash(a)

(* Every step is one actor's or nobody's, and leaves the other actors where  *)
(* they are.                                                                 *)
LEMMA OneActorMoves ==
  ASSUME IInv, [Next]_vars
  PROVE  \/ UNCHANGED <<pc, cur, won>>
         \/ \E a \in Actors : /\ ActorStep(a)
                              /\ \A b \in Actors \ {a} :
                                    pc'[b] = pc[b] /\ cur'[b] = cur[b] /\ won'[b] = won[b]
<1> DEFINE Others(a) == \A b \in Actors \ {a} : pc'[b] = pc[b] /\ cur'[b] = cur[b] /\ won'[b] = won[b]
<1>1. CASE \E s \in Scans : Charge(s) \/ ApiStep(s) \/ ApiCrash(s) \/ CancelScan(s)
  BY <1>1 DEF Charge, ApiStep, InsertScan, InsertJob, Enqueue, RefundRest, ApiCrash,
              CancelScan, actorVars
<1>2. ASSUME NEW a \in Actors, Persist(a) \/ Refund(a) \/ Tell(a) PROVE Others(a)
  <2>1. ReturnTo(a, "refund") \/ ReturnTo(a, Onward(a))
    BY <1>2 DEF Persist, Refund, Tell
  <2>2. (\E p : pc' = [pc EXCEPT ![a] = p]) /\ (UNCHANGED cur \/ cur' = [cur EXCEPT ![a] = NoJob])
    BY <2>1, Returning
  <2>3. UNCHANGED won \/ \E x : won' = [won EXCEPT ![a] = x]
    BY <1>2 DEF Persist, Refund, Tell
  <2> QED BY <2>2, <2>3 DEF IInv, TypeOK
<1>3. ASSUME NEW a \in Actors, Score(a) \/ Crash(a) PROVE Others(a)
  BY <1>3 DEF Score, Crash, Goto, IInv, TypeOK
<1>4. ASSUME NEW w \in Workers, WorkerStep(w) PROVE Others(w)
  <2>1. w \in Actors
    BY DEF Actors
  <2>2. CASE Claim(w) \/ Load(w) \/ MarkRunning(w) \/ MarkStarted(w) \/ Prepare(w)
             \/ RunEngine(w) \/ Ack(w)
    BY <2>1, <2>2 DEF Claim, Load, MarkRunning, MarkStarted, Prepare, RunEngine, Ack,
                      Finish, Goto, IInv, TypeOK
  <2> QED BY <1>2, <1>3, <1>4, <2>1, <2>2 DEF WorkerStep
<1>5. ASSUME NEW z \in Sweepers, SweeperStep(z) PROVE Others(z)
  <2>1. z \in Actors
    BY DEF Actors
  <2>2. CASE ListOrphans(z) \/ SweepOne(z) \/ ListStuck(z) \/ FinalizeStuck(z)
    BY <2>1, <2>2 DEF ListOrphans, SweepOne, ListStuck, FinalizeStuck, Finish, Goto, IInv, TypeOK
  <2> QED BY <1>2, <1>3, <1>5, <2>1, <2>2 DEF SweeperStep
<1>6. CASE (\E j \in Jobs : AgeOut(j)) \/ RedisFlush \/ UNCHANGED vars
  BY <1>6 DEF AgeOut, RedisFlush, vars, actorVars
<1> QED BY <1>1, <1>3, <1>4, <1>5, <1>6 DEF Next, ActorStep, Actors

(* A job in flight leaves that state by its result transaction only.         *)
LEMMA InFlightUntilPersist ==
  ASSUME IInv, [Next]_vars, NEW j \in Jobs, jobStatus[j] \in InFlight,
         \A a \in Actors : Persist(a) => cur[a] # j
  PROVE  jobStatus'[j] \in InFlight
<1> USE DEF IInv, InFlight
<1>1. CASE \E s \in Scans : Charge(s) \/ ApiStep(s) \/ ApiCrash(s) \/ CancelScan(s)
  BY <1>1 DEF Charge, ApiStep, InsertScan, InsertJob, Enqueue, RefundRest, ApiCrash,
              CancelScan, dbVars, TypeOK
<1>2. ASSUME NEW a \in Actors, Persist(a) \/ Refund(a) \/ Score(a) \/ Tell(a) \/ Crash(a)
      PROVE  jobStatus'[j] \in InFlight
  <2>1. CASE Persist(a)
    BY <2>1 DEF Persist, TypeOK
  <2> QED BY <1>2, <2>1 DEF Refund, Score, Tell, Crash, dbVars
<1>3. ASSUME NEW w \in Workers, WorkerStep(w) PROVE jobStatus'[j] \in InFlight
  <2>1. w \in Actors
    BY DEF Actors
  <2>2. CASE MarkRunning(w)
    BY <2>2 DEF MarkRunning, TypeOK
  <2>3. CASE Claim(w) \/ Load(w) \/ MarkStarted(w) \/ Prepare(w) \/ RunEngine(w) \/ Ack(w)
    BY <2>3 DEF Claim, Load, MarkStarted, Prepare, RunEngine, Ack, dbVars
  <2> QED BY <1>2, <1>3, <2>1, <2>2, <2>3 DEF WorkerStep
<1>4. ASSUME NEW z \in Sweepers, SweeperStep(z) PROVE jobStatus'[j] \in InFlight
  <2>1. z \in Actors
    BY DEF Actors
  <2>2. CASE ListOrphans(z) \/ SweepOne(z) \/ ListStuck(z) \/ FinalizeStuck(z)
    BY <2>2 DEF ListOrphans, SweepOne, ListStuck, FinalizeStuck, dbVars
  <2> QED BY <1>2, <1>4, <2>1, <2>2 DEF SweeperStep
<1>5. CASE (\E k \in Jobs : AgeOut(k)) \/ RedisFlush \/ UNCHANGED vars
  BY <1>5 DEF AgeOut, RedisFlush, vars, dbVars
<1> QED BY <1>1, <1>2, <1>3, <1>4, <1>5 DEF Next

(* No two actors hold the same job, two sweepers apart.                      *)
LEMMA OwnJob ==
  ASSUME IInv, AloneInv, NEW a \in Actors, NEW b \in Actors, a # b,
         cur[a] \in Jobs, cur[a] = cur[b]
  PROVE  a \in Sweepers /\ b \in Sweepers
<1> USE LifecycleAssumption DEF IInv, AloneInv
<1>1. ~(a \in Workers /\ b \in Workers)
  BY DEF ClaimsOK, ClaimedOnce
<1>2. ~(a \in Workers /\ b \in Sweepers)
  BY DEF SweptAlone, Swept, Abandoned, Held
<1>3. ~(b \in Workers /\ a \in Sweepers)
  BY DEF SweptAlone, Swept, Abandoned, Held
<1> QED BY <1>1, <1>2, <1>3 DEF Actors

(* An actor another one's step leaves alone stays entitled to announce what  *)
(* it finished, or believes it did.                                          *)
LEMMA StillBelieves ==
  ASSUME LoneSweeper, IInv, AloneInv, [Next]_vars, NEW b \in Actors,
         cur'[b] = cur[b], ~Persist(b), NEW s \in Scans, Terminal(s) \/ Believes(b, s)
  PROVE  (Terminal(s) \/ Believes(b, s))'
<1>1. CASE Terminal(s)
  BY <1>1, FinalOrStutter DEF Terminal
<1>2. CASE Believes(b, s)
  <2>1. cur[b] \in Jobs /\ ScanOf[cur[b]] = s /\ jobStatus[cur[b]] \in InFlight
    BY <1>2 DEF Believes, JobsOf
  <2>2. ASSUME NEW a \in Actors, Persist(a) PROVE cur[a] # cur[b]
    <3>1. a # b
      BY <2>2
    <3>2. CASE cur[a] = cur[b]
      BY <1>2, <2>1, <3>1, <3>2, OwnJob DEF Believes, LoneSweeper
    <3> QED BY <3>2
  <2>3. jobStatus'[cur[b]] \in InFlight
    BY <2>1, <2>2, InFlightUntilPersist
  <2>4. IInv'
    BY NextInv
  <2>5. scanStatus'[s] # "none" /\ scanStatus'[s] \in ScanStatuses
    BY <2>1, <2>3, <2>4 DEF IInv, RowsOK, JobRowOK, TypeOK, InFlight
  <2>6. Open(s)' \/ Terminal(s)'
    BY <2>5 DEF Open, Terminal, ScanStatuses, InFlight
  <2> QED BY <1>2, <2>3, <2>6 DEF Believes
<1> QED BY <1>1, <1>2

(* So whoever does not move keeps what the invariant says of it.             *)
LEMMA WonElsewhere ==
  ASSUME LoneSweeper, IInv, AloneInv, [Next]_vars, NEW b \in Actors, WonOK(b),
         pc'[b] = pc[b], cur'[b] = cur[b], won'[b] = won[b]
  PROVE  WonOK(b)'
<1>1. ~Persist(b)
  <2> SUFFICES ASSUME Persist(b) PROVE FALSE
    OBVIOUS
  <2>1. pc[b] = "persist" /\ \E p \in {"refund", "score", "ack", "sweep", "idle"} : pc' = [pc EXCEPT ![b] = p]
    BY PersistCases, Returning
  <2> QED BY <2>1 DEF IInv, TypeOK
<1>2. won[b] \subseteq Scans
  BY DEF IInv, TypeOK
<1>3. \A s \in won[b] : (Terminal(s) \/ Believes(b, s))'
  BY <1>1, <1>2, StillBelieves DEF WonOK
<1> QED BY <1>3 DEF WonOK

(* Whoever comes to believe that it finished a scan had the scan's last open *)
(* job, or found none.                                                       *)
LEMMA WonWhenLast ==
  ASSUME IInv, [Next]_vars, NEW a \in Actors, NEW s \in Scans, s \in won'[a], s \notin won[a]
  PROVE  /\ Open(s)
         /\ \/ /\ Persist(a) /\ s = ScanOf[cur[a]] /\ cur[a] \in Jobs /\ won'[a] = {s}
               /\ \A k \in JobsOf(s) \ {cur[a]} : jobStatus[k] \notin InFlight
            \/ /\ a \in Sweepers /\ FinalizeStuck(a)
               /\ \A k \in JobsOf(s) : jobStatus[k] \notin InFlight
<1> USE DEF IInv
<1>1. ActorStep(a)
  BY OneActorMoves
<1>2. ~Refund(a) /\ ~Score(a) /\ ~Tell(a) /\ ~Crash(a)
  BY DEF Refund, Score, Tell, Crash, TypeOK
<1>3. ASSUME Persist(a)
      PROVE  /\ Open(s) /\ s = ScanOf[cur[a]] /\ cur[a] \in Jobs /\ won'[a] = {s}
             /\ \A k \in JobsOf(s) \ {cur[a]} : jobStatus[k] \notin InFlight
  <2>1. cur[a] \in Jobs
    BY <1>3, PersistCases
  <2>2. /\ won' = [won EXCEPT ![a] = {ScanOf[cur[a]]}]
        /\ Finalizes(ScanOf[cur[a]], [jobStatus EXCEPT ![cur[a]] = res[a]])
    BY <1>3 DEF Persist
  <2>3. s = ScanOf[cur[a]] /\ won'[a] = {s}
    BY <2>2 DEF TypeOK
  <2> QED BY <2>1, <2>2, <2>3 DEF Finalizes, JobsOf, TypeOK
<1>4. CASE a \in Workers /\ WorkerStep(a)
  <2>1. ~(Claim(a) \/ Load(a) \/ MarkRunning(a) \/ MarkStarted(a) \/ Prepare(a) \/ RunEngine(a) \/ Ack(a))
    BY DEF Claim, Load, MarkRunning, MarkStarted, Prepare, RunEngine, Ack
  <2> QED BY <1>2, <1>3, <1>4, <2>1 DEF WorkerStep
<1>5. CASE a \in Sweepers /\ SweeperStep(a)
  <2>1. ~(ListOrphans(a) \/ SweepOne(a) \/ ListStuck(a))
    BY DEF ListOrphans, SweepOne, ListStuck
  <2>2. ASSUME FinalizeStuck(a) PROVE Open(s) /\ \A k \in JobsOf(s) : jobStatus[k] \notin InFlight
    BY <2>2 DEF FinalizeStuck, Finalizes, TypeOK
  <2> QED BY <1>2, <1>3, <1>5, <2>1, <2>2 DEF SweeperStep
<1> QED BY <1>1, <1>2, <1>4, <1>5 DEF ActorStep

(* So nobody else believes it.                                               *)
LEMMA WonAlone ==
  ASSUME LoneSweeper, IInv, AloneInv, AnnounceInv, [Next]_vars,
         NEW a \in Actors, NEW s \in Scans, s \in won'[a], s \notin won[a]
  PROVE  ~Terminal(s) /\ \A b \in Actors \ {a} : s \notin won[b] /\ s \notin won'[b]
<1>1. Open(s) /\ ~Terminal(s)
  BY WonWhenLast DEF Open, Terminal, InFlight
<1>2. ASSUME NEW b \in Actors \ {a}, s \in won[b] PROVE FALSE
  <2>1. Believes(b, s)
    BY <1>1, <1>2 DEF AnnounceInv, WonOK
  <2>2. cur[b] \in JobsOf(s) /\ jobStatus[cur[b]] \in InFlight /\ "db" \in Faults
    BY <2>1 DEF Believes
  <2>3. cur[b] = cur[a] /\ cur[a] \in Jobs
    BY <2>2, WonWhenLast
  <2> QED BY <2>2, <2>3, OwnJob DEF LoneSweeper
<1>3. ASSUME NEW b \in Actors \ {a} PROVE won'[b] = won[b]
  <2>1. PICK c \in Actors : \A d \in Actors \ {c} : won'[d] = won[d]
    BY OneActorMoves
  <2>2. c = a
    BY <2>1
  <2> QED BY <2>1, <2>2
<1> QED BY <1>1, <1>2, <1>3

(* persist: a transaction that finished the scan, or one that would have and *)
(* whose commit failed.                                                      *)
LEMMA WonPersist ==
  ASSUME IInv, AloneInv, AnnounceInv, [Next]_vars, NEW a \in Actors, Persist(a)
  PROVE  WonOK(a)'
<1> USE LifecycleAssumption DEF IInv
<1>1. /\ cur[a] \in Jobs /\ ScanOf[cur[a]] \in Scans /\ pc[a] = "persist" /\ won[a] = {}
      /\ res[a] \in Outcomes /\ (ReturnTo(a, "refund") \/ ReturnTo(a, Onward(a)))
  BY PersistCases DEF AnnounceInv, WonOK
<1>2. PICK p \in {"refund", "score", "ack", "sweep", "idle"} :
        /\ pc' = [pc EXCEPT ![a] = p]
        /\ p \notin {"refund"} => (IF won'[a] # {} THEN p = "score" ELSE p # "score")
        /\ p # "sweep" => UNCHANGED cur
  BY <1>1 DEF ReturnTo, Goto, Onward, Resume
<1>3. pc'[a] = p
  BY <1>2 DEF TypeOK
<1>4. ASSUME NEW s \in won'[a] PROVE (Terminal(s) \/ Believes(a, s))'
  <2>1. s \in Scans
    BY NextInv DEF TypeOK
  <2>2. Open(s) /\ s = ScanOf[cur[a]] /\ \A k \in JobsOf(s) \ {cur[a]} : jobStatus[k] \notin InFlight
    <3>1. ~FinalizeStuck(a)
      BY <1>1 DEF FinalizeStuck
    <3> QED BY <1>1, <2>1, <3>1, WonWhenLast
  <2>3. cur' = cur
    BY <1>2, <1>4
  <2>4. CASE Terminal(s)'
    BY <2>4
  <2>5. CASE ~Terminal(s)'
    <3>1. /\ Fault("db") /\ UNCHANGED <<jobStatus, scanStatus>>
      <4>1. won' # won
        BY <1>1, <1>4
      <4>2. ASSUME scanStatus' = [scanStatus EXCEPT ![s] = FinalStatus(s)] PROVE FALSE
        BY <2>1, <2>5, <4>2 DEF FinalStatus, Terminal, TypeOK
      <4> QED BY <2>2, <4>1, <4>2 DEF Persist
    <3>2. jobStatus[cur[a]] \in InFlight
      <4>1. CASE a \in Workers
        BY <1>1, <4>1 DEF AloneInv, HoldsOK
      <4>2. CASE a \in Sweepers
        <5>1. jobStatus[cur[a]] \in {"running"} \cup Lost /\ s \notin LegacyStuck
          BY <1>1, <2>2, <4>2 DEF AloneInv, SweptAlone, Swept, Abandoned
        <5>2. s \notin Stuck
          BY <5>1 DEF NoNewStuckScan
        <5>3. cur[a] \in JobsOf(s)
          BY <1>1, <2>2 DEF JobsOf
        <5> QED BY <2>1, <2>2, <5>1, <5>2, <5>3 DEF Stuck, Lost, InFlight
      <4> QED BY <4>1, <4>2 DEF Actors
    <3> QED BY <1>1, <2>2, <2>3, <3>1, <3>2 DEF Believes, Open, JobsOf, Fault
  <2> QED BY <2>4, <2>5
<1> QED BY <1>2, <1>3, <1>4 DEF WonOK

(* What comes after: refund, score and announcement of each scan in turn.    *)
LEMMA WonAfter ==
  ASSUME LoneSweeper, IInv, AloneInv, AnnounceInv, [Next]_vars, NEW a \in Actors,
         Refund(a) \/ Score(a) \/ Tell(a) \/ (a \in Sweepers /\ FinalizeStuck(a))
  PROVE  WonOK(a)'
<1> USE LifecycleAssumption DEF IInv
<1>1. PICK p : pc' = [pc EXCEPT ![a] = p] /\ p \in {"stuck", "score", "tell", "ack", "sweep", "idle"}
  BY DEF Refund, Score, Tell, FinalizeStuck, ReturnTo, Goto, Onward, Resume
<1>2. /\ p # "sweep" => cur' = cur
      /\ p \in {"score", "tell"} => won'[a] # {}
      /\ p \notin {"stuck", "score", "tell"} => won'[a] = {}
  <2>1. CASE Refund(a) \/ Tell(a)
    BY <1>1, <2>1 DEF Refund, Tell, ReturnTo, Goto, Onward, Resume, TypeOK
  <2>2. CASE Score(a)
    BY <1>1, <2>2 DEF Score, Goto, TypeOK, AnnounceInv, WonOK
  <2>3. CASE FinalizeStuck(a)
    BY <1>1, <2>3 DEF FinalizeStuck, Goto, TypeOK
  <2> QED BY <2>1, <2>2, <2>3
<1>3. pc'[a] = p
  BY <1>1 DEF TypeOK
<1>4. pc[a] # "persist"
  BY DEF Refund, Score, Tell, FinalizeStuck
<1>5. ASSUME NEW s \in won'[a] PROVE (Terminal(s) \/ Believes(a, s))'
  <2>1. s \in Scans
    BY NextInv DEF TypeOK
  <2>2. cur'[a] = cur[a]
    BY <1>2, <1>5
  <2>3. CASE s \in won[a]
    BY <1>4, <2>1, <2>2, <2>3, StillBelieves DEF AnnounceInv, WonOK, Persist
  <2>4. CASE s \notin won[a]
    <3>1. FinalizeStuck(a)
      BY <1>4, <2>1, <2>4, WonWhenLast DEF Persist
    <3>2. scanStatus' = [scanStatus EXCEPT ![s] = FinalStatus(s)]
      BY <2>1, <2>4, <3>1 DEF FinalizeStuck, TypeOK
    <3> QED BY <2>1, <3>2 DEF FinalStatus, Terminal, TypeOK
  <2> QED BY <2>3, <2>4
<1> QED BY <1>2, <1>3, <1>5 DEF WonOK

(* Everywhere else an actor has nothing to announce.                         *)
LEMMA WonNothing ==
  ASSUME IInv, AnnounceInv, NEW a \in Actors, ActorStep(a),
         ~(Persist(a) \/ Refund(a) \/ Score(a) \/ Tell(a) \/ FinalizeStuck(a))
  PROVE  WonOK(a)'
<1> USE LifecycleAssumption DEF IInv
<1>1. CASE Crash(a)
  BY <1>1 DEF Crash, Goto, TypeOK, WonOK
<1>2. CASE a \in Workers /\ ~Crash(a)
  <2>1. Claim(a) \/ Load(a) \/ MarkRunning(a) \/ MarkStarted(a) \/ Prepare(a) \/ RunEngine(a) \/ Ack(a)
    BY <1>2 DEF ActorStep, WorkerStep
  <2>2. /\ pc[a] \notin {"refund", "score", "tell", "stuck"} /\ won' = won
        /\ pc'[a] \notin {"score", "tell"}
    BY <2>1 DEF Claim, Load, MarkRunning, MarkStarted, Prepare, RunEngine, Ack, Finish, Goto, TypeOK
  <2> QED BY <2>2 DEF AnnounceInv, WonOK
<1>3. CASE a \in Sweepers /\ ~Crash(a)
  <2>1. ListOrphans(a) \/ SweepOne(a) \/ ListStuck(a)
    BY <1>3 DEF ActorStep, SweeperStep
  <2>2. /\ pc[a] \notin {"refund", "score", "tell", "stuck"} /\ won' = won
        /\ pc'[a] \notin {"score", "tell"}
    BY <2>1 DEF ListOrphans, SweepOne, ListStuck, Finish, Goto, TypeOK
  <2> QED BY <2>2 DEF AnnounceInv, WonOK
<1> QED BY <1>1, <1>2, <1>3 DEF Actors

(* Only Notifier.ScanFinished announces, and only a scan its caller won.     *)
LEMMA OnlyTellAnnounces ==
  ASSUME IInv, AnnounceInv, [Next]_vars, NEW s \in Scans, announced'[s] # announced[s]
  PROVE  \E a \in Actors : /\ Tell(a) /\ s \in won[a] /\ s \notin won'[a]
                           /\ Terminal(s) /\ announced'[s] = announced[s] + 1
<1> USE DEF IInv
<1>1. ASSUME NEW a \in Actors, Tell(a)
      PROVE  s \in won[a] /\ s \notin won'[a] /\ Terminal(s) /\ announced'[s] = announced[s] + 1
  <2>1. won[a] # {} /\ Subject(a) \in won[a]
    BY <1>1 DEF Tell, Subject, AnnounceInv, WonOK
  <2>2. s = Subject(a) /\ ~Open(s) /\ announced'[s] = announced[s] + 1
    BY <1>1 DEF Tell, TypeOK
  <2>3. Terminal(s)
    BY <2>1, <2>2 DEF AnnounceInv, WonOK, Believes
  <2> QED BY <1>1, <2>1, <2>2, <2>3 DEF Tell, TypeOK
<1>2. CASE \E t \in Scans : Charge(t) \/ ApiStep(t) \/ ApiCrash(t) \/ CancelScan(t)
  BY <1>2 DEF Charge, ApiStep, InsertScan, InsertJob, Enqueue, RefundRest, ApiCrash,
              CancelScan, afterVars
<1>3. ASSUME NEW a \in Actors, Persist(a) \/ Refund(a) \/ Score(a) \/ Crash(a) PROVE FALSE
  BY <1>3 DEF Persist, Refund, Score, Crash, afterVars
<1>4. ASSUME NEW w \in Workers, WorkerStep(w) PROVE Tell(w)
  <2>1. w \in Actors
    BY DEF Actors
  <2>2. ~(Claim(w) \/ Load(w) \/ MarkRunning(w) \/ MarkStarted(w) \/ Prepare(w) \/ RunEngine(w) \/ Ack(w))
    BY DEF Claim, Load, MarkRunning, MarkStarted, Prepare, RunEngine, Ack, afterVars
  <2> QED BY <1>3, <1>4, <2>1, <2>2 DEF WorkerStep
<1>5. ASSUME NEW z \in Sweepers, SweeperStep(z) PROVE Tell(z)
  <2>1. z \in Actors
    BY DEF Actors
  <2>2. ~(ListOrphans(z) \/ SweepOne(z) \/ ListStuck(z) \/ FinalizeStuck(z))
    BY DEF ListOrphans, SweepOne, ListStuck, FinalizeStuck, afterVars
  <2> QED BY <1>3, <1>5, <2>1, <2>2 DEF SweeperStep
<1>6. CASE (\E j \in Jobs : AgeOut(j)) \/ RedisFlush \/ UNCHANGED vars
  BY <1>6 DEF AgeOut, RedisFlush, vars, afterVars
<1> QED BY <1>1, <1>2, <1>3, <1>4, <1>5, <1>6 DEF Next, Actors

(* Every step keeps the invariant.                                           *)
LEMMA AnnounceNext ==
  ASSUME LoneSweeper, IInv, AloneInv, AnnounceInv, [Next]_vars
  PROVE  AnnounceInv'
<1>1. ASSUME NEW b \in Actors PROVE WonOK(b)'
  <2>1. WonOK(b)
    BY DEF AnnounceInv
  <2>2. CASE pc'[b] = pc[b] /\ cur'[b] = cur[b] /\ won'[b] = won[b]
    BY <2>1, <2>2, WonElsewhere
  <2>3. CASE ActorStep(b)
    <3>1. CASE FinalizeStuck(b) /\ b \notin Sweepers
      <4>1. pc[b] = "stuck"
        BY <3>1 DEF FinalizeStuck
      <4> QED BY <3>1, <4>1 DEF IInv, ActorsOK, WorkerOK, WorkerPcs, Actors
    <3> QED BY <2>3, <3>1, WonPersist, WonAfter, WonNothing
  <2> QED BY <2>2, <2>3, OneActorMoves
<1>2. ASSUME NEW s \in Scans PROVE OneTeller(s)'
  <2> SUFFICES ASSUME NEW a \in Actors, NEW b \in Actors, s \in won'[a], s \in won'[b], a # b
               PROVE  FALSE
    BY DEF OneTeller
  <2>1. s \in won[a] /\ s \in won[b]
    BY WonAlone
  <2> QED BY <2>1 DEF AnnounceInv, OneTeller
<1>3. ASSUME NEW s \in Scans PROVE AnnouncedOK(s)'
  <2>1. CASE announced'[s] = announced[s]
    <3> SUFFICES ASSUME announced[s] # 0
                 PROVE  announced[s] = 1 /\ Terminal(s)' /\ \A a \in Actors : s \notin won'[a]
      BY <2>1 DEF AnnouncedOK
    <3>1. announced[s] = 1 /\ Terminal(s) /\ \A a \in Actors : s \notin won[a]
      BY DEF AnnounceInv, AnnouncedOK
    <3>2. Terminal(s)'
      BY <3>1, FinalOrStutter DEF Terminal
    <3> QED BY <3>1, <3>2, WonAlone
  <2>2. CASE announced'[s] # announced[s]
    <3>1. PICK a \in Actors : /\ Tell(a) /\ s \in won[a] /\ s \notin won'[a]
                              /\ Terminal(s) /\ announced'[s] = announced[s] + 1
      BY <2>2, OnlyTellAnnounces
    <3>2. announced'[s] = 1
      BY <3>1 DEF AnnounceInv, AnnouncedOK
    <3>3. Terminal(s)'
      BY <3>1, FinalOrStutter DEF Terminal
    <3>4. \A b \in Actors : s \notin won'[b]
      BY <3>1, WonAlone DEF AnnounceInv, OneTeller
    <3> QED BY <3>2, <3>3, <3>4 DEF AnnouncedOK
  <2> QED BY <2>1, <2>2
<1> QED BY <1>1, <1>2, <1>3 DEF AnnounceInv

(* At first nothing is finished or announced.                                *)
LEMMA AnnounceInit == Init => AnnounceInv
<1> SUFFICES ASSUME Init PROVE AnnounceInv
  OBVIOUS
<1>1. \A a \in Actors : won[a] = {} /\ pc[a] = "idle"
  BY DEF Init
<1>2. \A s \in Scans : announced[s] = 0
  BY DEF Init
<1> QED BY <1>1, <1>2 DEF AnnounceInv, WonOK, OneTeller, AnnouncedOK

(* When no worker outlives the orphan deadline, and commits do not fail      *)
(* after all or one replica sweeps, a scan is announced at most once,        *)
(* whoever finishes it and whatever crashes in between.                      *)
THEOREM AnnouncedOnce ==
  ASSUME "slow" \notin Faults, LoneSweeper
  PROVE  Spec => []AnnouncedAtMostOnce
<1>1. Init => AnnounceInv
  BY AnnounceInit
<1>2. IInv /\ AloneInv /\ AnnounceInv /\ [Next]_vars => AnnounceInv'
  BY AnnounceNext
<1>3. AnnounceInv => AnnouncedAtMostOnce
  <2>1. ASSUME AnnounceInv, NEW s \in Scans PROVE announced[s] <= 1
    <3>1. announced[s] = 0 \/ announced[s] = 1
      BY <2>1 DEF AnnounceInv, AnnouncedOK
    <3> QED BY <3>1
  <2> QED BY <2>1 DEF AnnouncedAtMostOnce
<1>4. Spec => []AloneInv
  BY NobodyOverlaps
<1> QED BY <1>1, <1>2, <1>3, <1>4, Inductive, PTL DEF Spec

=============================================================================
