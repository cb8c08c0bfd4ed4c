----------------------- MODULE ScanLifecycle_proofs -----------------------
(***************************************************************************)
(* Proofs about ScanLifecycle, for any scans, jobs, workers and sweepers   *)
(* and any number of faults of every kind.                                 *)
(*                                                                         *)
(* The argument is one inductive invariant, IInv. That a finished scan has *)
(* no job in flight is not inductive alone: persist and the sweeps close a *)
(* job they claimed or listed earlier, so IInv also says what each actor   *)
(* knows of the job in its hands (ActorsOK, SweepOK), which rows can be    *)
(* there at each step of creation (RowsOK), and that the queue, the        *)
(* processing lists and the workers agree on who holds a job (ClaimsOK).   *)
(* One lemma per action shows that it keeps every conjunct.                *)
(***************************************************************************)
EXTENDS ScanLifecycle, TLAPS

-----------------------------------------------------------------------------
(***************************************************************************)
(* Facts several actions need.                                             *)
(***************************************************************************)

(* Where an actor can be after ReturnTo, and what else that changes. *)
LEMMA Returning ==
  ASSUME NEW a \in Actors, ReturnTo(a, "refund") \/ ReturnTo(a, Onward(a))
  PROVE  /\ \E p \in {"refund", "score", "ack", "sweep", "idle"} :
               /\ pc' = [pc EXCEPT ![a] = p]
               /\ a \in Workers => p \in {"refund", "score", "ack"}
               /\ a \in Sweepers => p \in {"refund", "score", "sweep", "idle"} \/ a \in Workers
               /\ p = "refund" => ReturnTo(a, "refund")
         /\ \/ UNCHANGED <<cur, res>>
            \/ /\ a \in Sweepers \ Workers
               /\ cur' = [cur EXCEPT ![a] = NoJob]
               /\ res' = [res EXCEPT ![a] = "none"]
<1>1. CASE ReturnTo(a, "refund")
  BY <1>1 DEF ReturnTo, Goto, Actors
<1>2. CASE ReturnTo(a, Onward(a))
  BY <1>2 DEF ReturnTo, Goto, Actors, Onward, Resume
<1> QED BY <1>1, <1>2

(* A step that moves no queue entry and no claim keeps every job claimed     *)
(* once.                                                                     *)
LEMMA SameClaims ==
  ASSUME ClaimedOnce, pending' = pending, \A w \in Workers : cur'[w] = cur[w]
  PROVE  ClaimedOnce'
BY DEF ClaimedOnce, Pending

(* What the invariant says of the job that persist closes, whoever calls it: *)
(* it is a job that was queued, and it is held by no one else.               *)
LEMMA PersistCases ==
  ASSUME IInv, NEW a \in Actors, Persist(a)
  PROVE  /\ cur[a] \in Jobs /\ ScanOf[cur[a]] \in Scans /\ res[a] \in Outcomes
         /\ ReturnTo(a, "refund") \/ ReturnTo(a, Onward(a))
         /\ pc[a] = "persist"
         /\ a \in Workers => ~Unqueued(cur[a])
         /\ jobStatus[cur[a]] # "none" /\ ~Unqueued(cur[a])
<1> USE LifecycleAssumption DEF IInv
<1>1. pc[a] = "persist"
  BY DEF Persist
<1>2. cur[a] \in Jobs /\ res[a] \in Outcomes
  BY <1>1 DEF TypeOK, ActorsOK, WorkerOK, SweeperOK, Actors
<1>3. ScanOf[cur[a]] \in Scans
  BY <1>2
<1>4. ReturnTo(a, "refund") \/ ReturnTo(a, Onward(a))
  BY DEF Persist
<1>5. jobStatus[cur[a]] # "none" /\ ~Unqueued(cur[a])
  <2>1. CASE a \in Workers
    BY <1>1, <2>1 DEF ClaimsOK, ClaimOK
  <2>2. CASE a \in Sweepers
    BY <1>1, <1>2, <2>2 DEF SweepOK, SweptOK, Started, RowsOK, JobRowOK
  <2> QED BY <2>1, <2>2 DEF Actors
<1> QED BY <1>1, <1>2, <1>3, <1>4, <1>5

(* Charge takes tokens of a scan that has no row yet: nothing else looks at  *)
(* it.                                                                       *)
LEMMA ChargeInv == ASSUME IInv, NEW s \in Scans, Charge(s) PROVE IInv'
<1> USE LifecycleAssumption DEF IInv
<1>1. TypeOK'
  <2>1. charged' \subseteq Jobs
    BY DEF TypeOK, JobsOf, Charge
  <2>2. apc' \in [Scans -> ApiPcs]
    BY DEF TypeOK, ApiPcs, Charge
  <2>3. faultsLeft' \in Nat
    BY DEF TypeOK, Fault, Fine, Charge
  <2> QED BY <2>1, <2>2, <2>3
     DEF TypeOK, Charge, dbVars, afterVars, tokenVars, queueVars, apiVars,
         actorVars
<1>2. ActorsOK'
  BY DEF ActorsOK, WorkerOK, SweeperOK, WorkerPcs, SweeperPcs, Charge, actorVars
<1>3. RowsOK'
  <2>1. ASSUME NEW t \in Scans PROVE ScanRowOK(t)'
    BY DEF RowsOK, ScanRowOK, TypeOK, JobsOf, Actors, Charge, dbVars, apiVars
  <2>2. ASSUME NEW k \in Jobs PROVE JobRowOK(k)'
    BY DEF RowsOK, JobRowOK, Unqueued, TypeOK, Actors, Charge, dbVars
  <2> QED BY <2>1, <2>2 DEF RowsOK
<1>4. ClaimsOK'
  <2>1. ClaimedOnce'
    BY DEF ClaimedOnce, TypeOK, ClaimsOK, Pending, Actors, Charge, queueVars,
           actorVars
  <2>2. ASSUME NEW k \in Jobs PROVE PendingOK(k)'
    BY DEF ClaimsOK, PendingOK, Pending, Unqueued, TypeOK, Charge, dbVars,
           queueVars
  <2>3. ASSUME NEW v \in Workers PROVE ClaimOK(v)'
    BY DEF ClaimsOK, ClaimOK, Unqueued, TypeOK, ActorsOK, WorkerOK, Actors,
           Charge, dbVars, actorVars
  <2> QED BY <2>1, <2>2, <2>3 DEF ClaimsOK
<1>5. SweepOK'
  BY DEF SweepOK, SweptOK, Started, Charge, dbVars, actorVars
<1>6. LegacyOK'
  <2>1. LegacyOK'
    BY DEF LegacyOK, TypeOK, Closed, JobsOf, Actors, Outcomes, Charge, dbVars
  <2> QED BY <2>1 DEF LegacyOK
<1>7. FinishedScanHasNoOpenJob'
  BY DEF FinishedScanHasNoOpenJob, Charge, dbVars, Terminal
<1>8. NoNewStuckScan'
  BY DEF NoNewStuckScan, Charge, dbVars, Stuck, InFlight, Open
<1> QED BY <1>1, <1>2, <1>3, <1>4, <1>5, <1>6, <1>7, <1>8

(* The new scan row is queued and has no job, so it is not finished.         *)
LEMMA InsertScanInv == ASSUME IInv, NEW s \in Scans, InsertScan(s) PROVE IInv'
<1> USE LifecycleAssumption DEF IInv
<1>a. scanStatus[s] = "none" /\ \A k \in JobsOf(s) : jobStatus[k] = "none"
  BY DEF InsertScan, RowsOK, ScanRowOK, JobRowOK, JobsOf
<1>b. \A t \in Scans : scanStatus'[t] = scanStatus[t] \/ (t = s /\ scanStatus'[t] = "queued")
  BY DEF InsertScan, TypeOK
<1>1. TypeOK'
  <2>1. scanStatus' \in [Scans -> ScanStatuses]
    BY DEF TypeOK, ScanStatuses, InsertScan
  <2>2. apc' \in [Scans -> ApiPcs]
    BY DEF TypeOK, ApiPcs, InsertScan
  <2>3. apiTodo' \in [Scans -> SUBSET Jobs]
    BY DEF TypeOK, JobsOf, InsertScan
  <2>4. faultsLeft' \in Nat
    BY DEF TypeOK, Fault, Fine, InsertScan
  <2> QED BY <2>1, <2>2, <2>3, <2>4
     DEF TypeOK, InsertScan, dbVars, afterVars, tokenVars, queueVars,
         actorVars
<1>2. ActorsOK'
  BY DEF ActorsOK, WorkerOK, SweeperOK, WorkerPcs, SweeperPcs, InsertScan,
         actorVars
<1>3. RowsOK'
  <2>1. ASSUME NEW t \in Scans PROVE ScanRowOK(t)'
    BY DEF RowsOK, ScanRowOK, TypeOK, JobsOf, Actors, InsertScan
  <2>2. ASSUME NEW k \in Jobs PROVE JobRowOK(k)'
    BY DEF RowsOK, JobRowOK, ScanRowOK, Unqueued, TypeOK, JobsOf, Actors,
           InsertScan, dbVars
  <2> QED BY <2>1, <2>2 DEF RowsOK
<1>4. ClaimsOK'
  <2>1. ClaimedOnce'
    BY DEF ClaimedOnce, TypeOK, ClaimsOK, Pending, Actors, InsertScan,
           queueVars, actorVars
  <2>2. ASSUME NEW k \in Jobs PROVE PendingOK(k)'
    BY DEF ClaimsOK, PendingOK, Pending, Unqueued, TypeOK, Actors, InsertScan,
           dbVars, queueVars
  <2>3. ASSUME NEW v \in Workers PROVE ClaimOK(v)'
    BY DEF ClaimsOK, ClaimOK, Unqueued, TypeOK, ActorsOK, WorkerOK, Actors,
           InsertScan, actorVars
  <2> QED BY <2>1, <2>2, <2>3 DEF ClaimsOK
<1>5. SweepOK'
  BY DEF SweepOK, SweptOK, Started, InsertScan, dbVars, actorVars
<1>6. LegacyOK'
  <2>1. LegacyOK'
    BY DEF LegacyOK, TypeOK, Closed, JobsOf, Actors, Outcomes, InsertScan,
           dbVars
  <2> QED BY <2>1 DEF LegacyOK
<1>7. FinishedScanHasNoOpenJob'
  <2>1. FinishedScanHasNoOpenJob'
    BY <1>a, <1>b DEF FinishedScanHasNoOpenJob, Terminal, InFlight, InsertScan
  <2> QED BY <2>1 DEF FinishedScanHasNoOpenJob
<1>8. NoNewStuckScan'
  <2>1. NoNewStuckScan'
    BY <1>a, <1>b DEF NoNewStuckScan, Stuck, InFlight, Open, InsertScan
  <2> QED BY <2>1 DEF NoNewStuckScan
<1> QED BY <1>1, <1>2, <1>3, <1>4, <1>5, <1>6, <1>7, <1>8

(* CreateMany: the jobs of a scan that is not finished, none of them queued  *)
(* or held.                                                                  *)
LEMMA InsertJobInv == ASSUME IInv, NEW s \in Scans, InsertJob(s) PROVE IInv'
<1> USE LifecycleAssumption DEF IInv
<1>a. PICK j \in Jobs : 
        \/ /\ j \in apiTodo[s] /\ ScanOf[j] = s
           /\ jobStatus' = [jobStatus EXCEPT ![j] = "queued"]
           /\ \/ /\ apiTodo[s] \ {j} = {}
                 /\ apc' = [apc EXCEPT ![s] = "queue"]
                 /\ apiTodo' = [apiTodo EXCEPT ![s] = JobsOf(s)]
              \/ /\ apc' = apc
                 /\ apiTodo' = [apiTodo EXCEPT ![s] = @ \ {j}]
        \/ /\ jobStatus' = jobStatus
           /\ apc' = [apc EXCEPT ![s] = "refund"]
           /\ apiTodo' = [apiTodo EXCEPT ![s] = JobsOf(s)]
  <2>1. apiTodo[s] \subseteq JobsOf(s) /\ JobsOf(s) # {}
    BY DEF RowsOK, ScanRowOK
  <2> QED BY <2>1 DEF InsertJob, JobsOf
<1>b. apc[s] = "jobs" /\ scanStatus[s] = "queued"
  BY DEF InsertJob, RowsOK, ScanRowOK
<1>c. \A k \in Jobs : jobStatus'[k] = jobStatus[k]
                      \/ (jobStatus[k] = "none" /\ jobStatus'[k] = "queued" /\ ScanOf[k] = s)
  BY <1>a, <1>b DEF TypeOK, RowsOK, JobRowOK
<1>d. \E T \in SUBSET JobsOf(s) : apiTodo' = [apiTodo EXCEPT ![s] = T]
  <2>1. apiTodo[s] \ {j} \subseteq JobsOf(s) /\ JobsOf(s) \subseteq JobsOf(s)
    BY DEF RowsOK, ScanRowOK
  <2> QED BY <1>a, <2>1
<1>e. \A t \in Scans : apc'[t] = apc[t] \/ (t = s /\ apc'[t] \in {"queue", "refund"})
  BY <1>a DEF TypeOK
<1>1. TypeOK'
  <2>1. jobStatus' \in [Jobs -> JobStatuses]
    BY DEF TypeOK, JobStatuses, Outcomes, InsertJob
  <2>2. apc' \in [Scans -> ApiPcs]
    BY <1>a DEF TypeOK, ApiPcs
  <2>3. apiTodo' \in [Scans -> SUBSET Jobs]
    BY <1>d DEF TypeOK, JobsOf
  <2>4. faultsLeft' \in Nat
    BY DEF TypeOK, Fault, Fine, InsertJob
  <2> QED BY <2>1, <2>2, <2>3, <2>4
     DEF TypeOK, InsertJob, dbVars, afterVars, tokenVars, queueVars, actorVars
<1>2. ActorsOK'
  BY DEF ActorsOK, WorkerOK, SweeperOK, WorkerPcs, SweeperPcs, InsertJob,
         actorVars
<1>3. RowsOK'
  <2>1. ASSUME NEW t \in Scans PROVE ScanRowOK(t)'
    BY <1>b, <1>d, <1>e DEF RowsOK, ScanRowOK, TypeOK, InsertJob
  <2>2. ASSUME NEW k \in Jobs PROVE JobRowOK(k)'
    <3>1. ScanOf[k] # s => JobRowOK(k)'
      BY <1>a, <1>c DEF RowsOK, JobRowOK, Unqueued, TypeOK, InsertJob
    <3>2. ScanOf[k] = s => jobStatus[k] \in {"none", "queued"} /\ (jobStatus[k] = "none" <=> k \in apiTodo[s])
      BY <1>b DEF RowsOK, JobRowOK, Unqueued
    <3>3. ScanOf[k] = s => JobRowOK(k)'
      BY <1>a, <1>b, <3>2 DEF JobRowOK, Unqueued, TypeOK, JobsOf, InsertJob
    <3> QED BY <3>1, <3>3
  <2> QED BY <2>1, <2>2 DEF RowsOK
<1>4. ClaimsOK'
  <2>1. ClaimedOnce'
    BY DEF ClaimedOnce, TypeOK, ClaimsOK, Pending, Actors, InsertJob,
           queueVars, actorVars
  <2>2. ASSUME NEW k \in Jobs PROVE PendingOK(k)'
    <3>1. Pending(k)' => jobStatus[k] = "queued" /\ ~Unqueued(k)
      BY DEF ClaimsOK, PendingOK, Pending, InsertJob, queueVars
    <3>2. jobStatus[k] = "queued" /\ ~Unqueued(k) => jobStatus'[k] = "queued" /\ ~Unqueued(k)'
      BY <1>b, <1>c, <1>d, <1>e DEF Unqueued, TypeOK
    <3> QED BY <3>1, <3>2 DEF PendingOK
  <2>3. ASSUME NEW v \in Workers PROVE ClaimOK(v)'
    BY DEF ClaimsOK, ClaimOK, Unqueued, TypeOK, ActorsOK, WorkerOK, Actors,
           InsertJob, actorVars
  <2> QED BY <2>1, <2>2, <2>3 DEF ClaimsOK
<1>5. SweepOK'
  <2>1. ASSUME NEW k \in stale' PROVE Started(k)'
    BY <1>c DEF SweepOK, Started, TypeOK, InsertJob
  <2>2. ASSUME NEW y \in Sweepers PROVE SweptOK(y)'
    BY DEF SweepOK, SweptOK, Started, TypeOK, RowsOK, ScanRowOK, JobRowOK,
           JobsOf, Actors, InsertJob, actorVars
  <2> QED BY <2>1, <2>2 DEF SweepOK
<1>6. LegacyOK'
  <2>1. LegacyOK'
    BY <1>b, <1>c, <1>e DEF LegacyOK, Closed, Outcomes, JobsOf
  <2> QED BY <2>1 DEF LegacyOK
<1>7. FinishedScanHasNoOpenJob'
  <2>1. FinishedScanHasNoOpenJob'
    BY DEF FinishedScanHasNoOpenJob, TypeOK, RowsOK, ScanRowOK, JobsOf,
           InFlight, Terminal, InsertJob
  <2> QED BY <2>1 DEF FinishedScanHasNoOpenJob
<1>8. NoNewStuckScan'
  <2>1. NoNewStuckScan'
    BY <1>c DEF NoNewStuckScan, Stuck, InFlight, Open, JobsOf, InsertJob
  <2> QED BY <2>1 DEF NoNewStuckScan
<1> QED BY <1>1, <1>2, <1>3, <1>4, <1>5, <1>6, <1>7, <1>8

(* The job pushed was in no queue and in no hand, so it is claimed once      *)
(* still.                                                                    *)
LEMMA EnqueueInv == ASSUME IInv, NEW s \in Scans, Enqueue(s) PROVE IInv'
<1> USE LifecycleAssumption DEF IInv
<1>a. PICK j \in Jobs :
        /\ j \in apiTodo[s] => ScanOf[j] = s
        /\ \/ /\ j \in apiTodo[s]
              /\ pending' = Append(pending, j)
              /\ \/ /\ apiTodo' = [apiTodo EXCEPT ![s] = @ \ {j}]
                    /\ apc' = [apc EXCEPT ![s] = IF apiTodo[s] = {j} THEN "done" ELSE "queue"]
                 \/ /\ apc' = [apc EXCEPT ![s] = "refund"]
                    /\ apiTodo' = apiTodo
           \/ /\ pending' = pending
              /\ apc' = [apc EXCEPT ![s] = "refund"]
              /\ apiTodo' = apiTodo
  <2>1. apiTodo[s] \subseteq JobsOf(s) /\ JobsOf(s) # {}
    BY DEF RowsOK, ScanRowOK
  <2> QED BY <2>1 DEF Enqueue, JobsOf
<1>b. apc[s] = "queue"
  BY DEF Enqueue
<1>c. /\ pending \in Seq(Jobs) /\ pending' \in Seq(Jobs)
      /\ \A k \in Jobs : Pending(k)' => Pending(k) \/ (k = j /\ j \in apiTodo[s])
  <2>1. CASE pending' = pending
    BY <2>1 DEF TypeOK, Pending
  <2>2. CASE j \in apiTodo[s] /\ pending' = Append(pending, j)
    BY <2>2 DEF TypeOK, Pending
  <2> QED BY <1>a, <2>1, <2>2
<1>d. j \in apiTodo[s] => jobStatus[j] = "queued" /\ ~Pending(j) /\ ~Held(j)
  <2> HAVE j \in apiTodo[s]
  <2>1. Unqueued(j)
    BY <1>a, <1>b DEF Unqueued
  <2>2. jobStatus[j] = "queued" /\ ~Pending(j)
    BY <1>a, <1>b, <2>1 DEF RowsOK, JobRowOK, ClaimsOK, PendingOK
  <2>3. ~Held(j)
    BY <2>1 DEF Held, ClaimsOK, ClaimOK, ActorsOK, WorkerOK
  <2> QED BY <2>2, <2>3
<1>e. \A k \in Jobs : Unqueued(k)' => Unqueued(k) /\ (k # j \/ j \notin apiTodo[s])
  BY <1>a, <1>b DEF Unqueued, TypeOK
<1>1. TypeOK'
  <2>1. pending' \in Seq(Jobs)
    BY <1>c
  <2>2. apc' \in [Scans -> ApiPcs]
    BY DEF TypeOK, ApiPcs, Enqueue
  <2>3. apiTodo' \in [Scans -> SUBSET Jobs]
    BY DEF TypeOK, JobsOf, Enqueue
  <2>4. faultsLeft' \in Nat
    BY DEF TypeOK, Fault, Fine, Enqueue
  <2> QED BY <2>1, <2>2, <2>3, <2>4
     DEF TypeOK, Enqueue, dbVars, afterVars, tokenVars, queueVars, actorVars
<1>2. ActorsOK'
  BY DEF ActorsOK, WorkerOK, SweeperOK, WorkerPcs, SweeperPcs, Enqueue,
         actorVars
<1>3. RowsOK'
  <2>1. ASSUME NEW t \in Scans PROVE ScanRowOK(t)'
    BY DEF RowsOK, ScanRowOK, TypeOK, JobsOf, Actors, Enqueue, dbVars
  <2>2. ASSUME NEW k \in Jobs PROVE JobRowOK(k)'
    BY DEF RowsOK, JobRowOK, ScanRowOK, Unqueued, TypeOK, JobsOf, Actors,
           Enqueue, dbVars
  <2> QED BY <2>1, <2>2 DEF RowsOK
<1>4. ClaimsOK'
  <2>1. ClaimedOnce'
    <3>1. \A p, q \in DOMAIN pending' : pending'[p] = pending'[q] => p = q
      <4>1. CASE pending' = pending
        BY <4>1 DEF ClaimsOK, ClaimedOnce
      <4>2. CASE j \in apiTodo[s] /\ pending' = Append(pending, j)
        BY <1>c, <1>d, <4>2 DEF ClaimsOK, ClaimedOnce, Pending
      <4> QED BY <1>a, <4>1, <4>2
    <3>2. \A v \in Workers : ~Pending(cur[v])'
      <4> TAKE v \in Workers
      <4>1. cur[v] # NoJob => ~Pending(cur[v])'
        BY <1>c, <1>d DEF ClaimsOK, ClaimedOnce, Held, TypeOK, Actors, Enqueue, actorVars
      <4>2. cur[v] = NoJob => ~Pending(cur[v])'
        BY <1>c DEF Pending, Enqueue, actorVars
      <4> QED BY <4>1, <4>2
    <3> QED BY <3>1, <3>2 DEF ClaimsOK, ClaimedOnce, Enqueue, actorVars
  <2>2. ASSUME NEW k \in Jobs PROVE PendingOK(k)'
    BY <1>c, <1>d, <1>e DEF ClaimsOK, PendingOK, Enqueue, dbVars
  <2>3. ASSUME NEW v \in Workers PROVE ClaimOK(v)'
    BY <1>e DEF ClaimsOK, ClaimOK, Enqueue, dbVars, actorVars, TypeOK, Actors,
                ActorsOK, WorkerOK
  <2> QED BY <2>1, <2>2, <2>3 DEF ClaimsOK
<1>5. SweepOK'
  BY DEF SweepOK, SweptOK, Started, Enqueue, dbVars, actorVars
<1>6. LegacyOK'
  <2>1. LegacyOK'
    BY DEF LegacyOK, TypeOK, Closed, JobsOf, Actors, Outcomes, Enqueue, dbVars
  <2> QED BY <2>1 DEF LegacyOK
<1>7. FinishedScanHasNoOpenJob'
  BY DEF FinishedScanHasNoOpenJob, Enqueue, dbVars, Terminal
<1>8. NoNewStuckScan'
  BY DEF NoNewStuckScan, Enqueue, dbVars, Stuck, InFlight, Open
<1> QED BY <1>1, <1>2, <1>3, <1>4, <1>5, <1>6, <1>7, <1>8

(* Failed creation gives tokens back and touches no row and no queue.        *)
LEMMA RefundRestInv == ASSUME IInv, NEW s \in Scans, RefundRest(s) PROVE IInv'
<1> USE LifecycleAssumption DEF IInv
<1>1. TypeOK'
  <2>1. refunded' \subseteq Jobs
    BY DEF TypeOK, RefundRest
  <2>2. apc' \in [Scans -> ApiPcs]
    BY DEF TypeOK, ApiPcs, RefundRest
  <2>3. apiTodo' \in [Scans -> SUBSET Jobs]
    BY DEF TypeOK, JobsOf, RefundRest
  <2>4. faultsLeft' \in Nat
    BY DEF TypeOK, Fault, Fine, RefundRest
  <2> QED BY <2>1, <2>2, <2>3, <2>4
     DEF TypeOK, RefundRest, dbVars, afterVars, tokenVars, queueVars,
         actorVars
<1>2. ActorsOK'
  BY DEF ActorsOK, WorkerOK, SweeperOK, WorkerPcs, SweeperPcs, RefundRest,
         actorVars
<1>3. RowsOK'
  <2>1. ASSUME NEW t \in Scans PROVE ScanRowOK(t)'
    BY DEF RowsOK, ScanRowOK, TypeOK, JobsOf, Actors, RefundRest, dbVars
  <2>2. ASSUME NEW k \in Jobs PROVE JobRowOK(k)'
    BY DEF RowsOK, JobRowOK, ScanRowOK, Unqueued, TypeOK, JobsOf, Actors,
           RefundRest, dbVars
  <2> QED BY <2>1, <2>2 DEF RowsOK
<1>4. ClaimsOK'
  <2>1. ClaimedOnce'
    BY DEF ClaimedOnce, TypeOK, ClaimsOK, Pending, Actors, RefundRest,
           queueVars, actorVars
  <2>2. ASSUME NEW k \in Jobs PROVE PendingOK(k)'
    BY DEF ClaimsOK, PendingOK, Pending, Unqueued, TypeOK, Actors, RefundRest,
           dbVars, queueVars
  <2>3. ASSUME NEW v \in Workers PROVE ClaimOK(v)'
    BY DEF ClaimsOK, ClaimOK, Unqueued, RefundRest, dbVars, actorVars
  <2> QED BY <2>1, <2>2, <2>3 DEF ClaimsOK
<1>5. SweepOK'
  BY DEF SweepOK, SweptOK, Started, RefundRest, dbVars, actorVars
<1>6. LegacyOK'
  <2>1. LegacyOK'
    BY DEF LegacyOK, TypeOK, Closed, JobsOf, Actors, Outcomes, RefundRest,
           dbVars
  <2> QED BY <2>1 DEF LegacyOK
<1>7. FinishedScanHasNoOpenJob'
  BY DEF FinishedScanHasNoOpenJob, RefundRest, dbVars, Terminal
<1>8. NoNewStuckScan'
  BY DEF NoNewStuckScan, RefundRest, dbVars, Stuck, InFlight, Open
<1> QED BY <1>1, <1>2, <1>3, <1>4, <1>5, <1>6, <1>7, <1>8

(* A dying request leaves its rows where they are.                           *)
LEMMA ApiCrashInv == ASSUME IInv, NEW s \in Scans, ApiCrash(s) PROVE IInv'
<1> USE LifecycleAssumption DEF IInv
<1>1. TypeOK'
  <2>1. apc' \in [Scans -> ApiPcs]
    BY DEF TypeOK, ApiPcs, ApiCrash
  <2>2. apiTodo' \in [Scans -> SUBSET Jobs]
    BY DEF TypeOK, JobsOf, ApiCrash
  <2>3. faultsLeft' \in Nat
    BY DEF TypeOK, Fault, Fine, ApiCrash
  <2> QED BY <2>1, <2>2, <2>3
     DEF TypeOK, ApiCrash, dbVars, afterVars, tokenVars, queueVars, actorVars
<1>2. ActorsOK'
  BY DEF ActorsOK, WorkerOK, SweeperOK, WorkerPcs, SweeperPcs, ApiCrash,
         actorVars
<1>3. RowsOK'
  <2>1. ASSUME NEW t \in Scans PROVE ScanRowOK(t)'
    BY DEF RowsOK, ScanRowOK, TypeOK, JobsOf, Actors, ApiCrash, dbVars
  <2>2. ASSUME NEW k \in Jobs PROVE JobRowOK(k)'
    BY DEF RowsOK, JobRowOK, ScanRowOK, Unqueued, TypeOK, JobsOf, Actors,
           ApiCrash, dbVars
  <2> QED BY <2>1, <2>2 DEF RowsOK
<1>4. ClaimsOK'
  <2>1. ClaimedOnce'
    BY DEF ClaimedOnce, TypeOK, ClaimsOK, Pending, Actors, ApiCrash,
           queueVars, actorVars
  <2>2. ASSUME NEW k \in Jobs PROVE PendingOK(k)'
    BY DEF ClaimsOK, PendingOK, Pending, Unqueued, TypeOK, Actors, ApiCrash,
           dbVars, queueVars
  <2>3. ASSUME NEW v \in Workers PROVE ClaimOK(v)'
    BY DEF ClaimsOK, ClaimOK, Unqueued, ApiCrash, dbVars, actorVars
  <2> QED BY <2>1, <2>2, <2>3 DEF ClaimsOK
<1>5. SweepOK'
  BY DEF SweepOK, SweptOK, Started, ApiCrash, dbVars, actorVars
<1>6. LegacyOK'
  <2>1. LegacyOK'
    BY DEF LegacyOK, TypeOK, Closed, JobsOf, Actors, Outcomes, ApiCrash, dbVars
  <2> QED BY <2>1 DEF LegacyOK
<1>7. FinishedScanHasNoOpenJob'
  BY DEF FinishedScanHasNoOpenJob, ApiCrash, dbVars, Terminal
<1>8. NoNewStuckScan'
  BY DEF NoNewStuckScan, ApiCrash, dbVars, Stuck, InFlight, Open
<1> QED BY <1>1, <1>2, <1>3, <1>4, <1>5, <1>6, <1>7, <1>8

(* A cancel request is only a flag.                                          *)
LEMMA CancelScanInv == ASSUME IInv, NEW s \in Scans, CancelScan(s) PROVE IInv'
<1> USE LifecycleAssumption DEF IInv
<1>1. TypeOK'
  <2>1. cancelReq' \in [Scans -> BOOLEAN]
    BY DEF TypeOK, CancelScan
  <2>2. faultsLeft' \in Nat
    BY DEF TypeOK, Fault, Fine, CancelScan
  <2> QED BY <2>1, <2>2
     DEF TypeOK, CancelScan, dbVars, afterVars, tokenVars, queueVars, apiVars,
         actorVars
<1>2. ActorsOK'
  BY DEF ActorsOK, WorkerOK, SweeperOK, WorkerPcs, SweeperPcs, CancelScan,
         actorVars
<1>3. RowsOK'
  BY DEF RowsOK, ScanRowOK, JobRowOK, Unqueued, CancelScan, dbVars, apiVars
<1>4. ClaimsOK'
  BY DEF ClaimsOK, PendingOK, Pending, Unqueued, ClaimOK, CancelScan,
         queueVars, apiVars, actorVars, ClaimedOnce
<1>5. SweepOK'
  BY DEF SweepOK, SweptOK, Started, CancelScan, dbVars, actorVars
<1>6. LegacyOK'
  BY DEF LegacyOK, CancelScan, dbVars, apiVars, Closed
<1>7. FinishedScanHasNoOpenJob'
  BY DEF FinishedScanHasNoOpenJob, CancelScan, dbVars, Terminal
<1>8. NoNewStuckScan'
  BY DEF NoNewStuckScan, CancelScan, dbVars, Stuck, InFlight, Open
<1> QED BY <1>1, <1>2, <1>3, <1>4, <1>5, <1>6, <1>7, <1>8

(* Claim moves the head of the pending list to the worker: still once.       *)
LEMMA ClaimInv == ASSUME IInv, NEW w \in Workers, Claim(w) PROVE IInv'
<1> USE LifecycleAssumption DEF IInv
<1>1. TypeOK'
  <2>1. cur' \in [Actors -> Jobs \cup {NoJob}]
    BY DEF TypeOK, Actors, Claim, AfterClaim
  <2>2. pending' \in Seq(Jobs)
    BY DEF TypeOK, Claim, AfterClaim
  <2>3. processing' \subseteq Jobs
    BY DEF TypeOK, Claim
  <2>4. pc' \in [Actors -> WorkerPcs \cup SweeperPcs]
    BY DEF TypeOK, Actors, WorkerPcs, SweeperPcs, Claim, Goto
  <2>5. faultsLeft' \in Nat
    BY DEF TypeOK, Fault, Fine, Claim
  <2> QED BY <2>1, <2>2, <2>3, <2>4, <2>5
     DEF TypeOK, Claim, dbVars, afterVars, tokenVars, apiVars, actorVars
<1>2. ActorsOK'
  <2>1. ASSUME NEW v \in Workers PROVE WorkerOK(v)'
    BY DEF ActorsOK, WorkerOK, WorkerPcs, TypeOK, Claim, Goto, AfterClaim
  <2>2. ASSUME NEW y \in Sweepers PROVE SweeperOK(y)'
    BY DEF ActorsOK, SweeperOK, Claim, Goto
  <2> QED BY <2>1, <2>2 DEF ActorsOK
<1>3. RowsOK'
  BY DEF RowsOK, ScanRowOK, JobRowOK, Unqueued, Claim, dbVars, apiVars
<1>4. ClaimsOK'
  <2>1. ClaimedOnce'
    BY DEF ClaimedOnce, TypeOK, ClaimsOK, Pending, Actors, Claim, AfterClaim
  <2>2. ASSUME NEW k \in Jobs PROVE PendingOK(k)'
    BY DEF ClaimsOK, PendingOK, Pending, Unqueued, TypeOK, Claim, AfterClaim,
           dbVars, apiVars
  <2>3. ASSUME NEW v \in Workers PROVE ClaimOK(v)'
    BY DEF ClaimsOK, ClaimOK, Unqueued, TypeOK, ActorsOK, WorkerOK, JobRowOK,
           PendingOK, SweepOK, Pending, Outcomes, Claim, Goto, AfterClaim,
           dbVars, apiVars
  <2> QED BY <2>1, <2>2, <2>3 DEF ClaimsOK
<1>5. SweepOK'
  <2>1. ASSUME NEW k \in stale' PROVE Started(k)'
    BY DEF SweepOK, Started, TypeOK, Actors, Claim, AfterClaim, dbVars
  <2>2. ASSUME NEW y \in Sweepers PROVE SweptOK(y)'
    BY DEF SweepOK, SweptOK, Started, Claim, dbVars
  <2> QED BY <2>1, <2>2 DEF SweepOK
<1>6. LegacyOK'
  BY DEF LegacyOK, Claim, dbVars, apiVars, Closed
<1>7. FinishedScanHasNoOpenJob'
  BY DEF FinishedScanHasNoOpenJob, Claim, dbVars, Terminal
<1>8. NoNewStuckScan'
  BY DEF NoNewStuckScan, Claim, dbVars, Stuck, InFlight, Open
<1> QED BY <1>1, <1>2, <1>3, <1>4, <1>5, <1>6, <1>7, <1>8

(* Load only decides where the worker goes next.                             *)
LEMMA LoadInv == ASSUME IInv, NEW w \in Workers, Load(w) PROVE IInv'
<1> USE LifecycleAssumption DEF IInv
<1>1. TypeOK'
  <2>1. pc' \in [Actors -> WorkerPcs \cup SweeperPcs]
    BY DEF TypeOK, Actors, WorkerPcs, SweeperPcs, Load, Goto, Finish
  <2>2. res' \in [Actors -> Outcomes \cup {"none"}]
    BY DEF TypeOK, Actors, Outcomes, Load, Finish
  <2>3. faultsLeft' \in Nat
    BY DEF TypeOK, Fault, Fine, Load
  <2> QED BY <2>1, <2>2, <2>3
     DEF TypeOK, Load, dbVars, afterVars, tokenVars, queueVars, apiVars,
         actorVars
<1>2. ActorsOK'
  <2>1. ASSUME NEW v \in Workers PROVE WorkerOK(v)'
    BY DEF ActorsOK, WorkerOK, Actors, Outcomes, WorkerPcs, TypeOK, Load,
           Goto, Finish
  <2>2. ASSUME NEW y \in Sweepers PROVE SweeperOK(y)'
    BY DEF ActorsOK, SweeperOK, Actors, TypeOK, Load, Goto, Finish
  <2> QED BY <2>1, <2>2 DEF ActorsOK
<1>3. RowsOK'
  BY DEF RowsOK, ScanRowOK, JobRowOK, Unqueued, Load, dbVars, apiVars
<1>4. ClaimsOK'
  <2>1. ClaimedOnce'
    BY DEF ClaimedOnce, TypeOK, ClaimsOK, Pending, Actors, Load, Finish,
           queueVars, actorVars
  <2>2. ASSUME NEW k \in Jobs PROVE PendingOK(k)'
    BY DEF ClaimsOK, PendingOK, Pending, Unqueued, Load, dbVars, queueVars,
           apiVars
  <2>3. ASSUME NEW v \in Workers PROVE ClaimOK(v)'
    BY DEF ClaimsOK, ClaimOK, Unqueued, TypeOK, Actors, Load, Goto, Finish,
           dbVars, apiVars
  <2> QED BY <2>1, <2>2, <2>3 DEF ClaimsOK
<1>5. SweepOK'
  BY DEF SweepOK, SweptOK, Started, Load, dbVars, actorVars
<1>6. LegacyOK'
  BY DEF LegacyOK, Load, dbVars, apiVars, Closed
<1>7. FinishedScanHasNoOpenJob'
  BY DEF FinishedScanHasNoOpenJob, Load, dbVars, Terminal
<1>8. NoNewStuckScan'
  BY DEF NoNewStuckScan, Load, dbVars, Stuck, InFlight, Open
<1> QED BY <1>1, <1>2, <1>3, <1>4, <1>5, <1>6, <1>7, <1>8

(* A job is marked running by the worker that holds it; its scan is not      *)
(* finished, or the job was closed before.                                   *)
LEMMA MarkRunningInv == ASSUME IInv, NEW w \in Workers, MarkRunning(w) PROVE IInv'
<1> USE LifecycleAssumption DEF IInv
<1>a. cur[w] \in Jobs /\ jobStatus[cur[w]] = "queued" /\ ~Unqueued(cur[w]) /\ ~Pending(cur[w])
  BY DEF MarkRunning, TypeOK, Actors, ActorsOK, WorkerOK, ClaimsOK, ClaimOK,
         ClaimedOnce
<1>b. \A k \in Jobs : jobStatus'[k] = jobStatus[k] \/ (k = cur[w] /\ jobStatus'[k] = "running")
  BY DEF MarkRunning, TypeOK
<1>c. \A v \in Workers \ {w} : pc'[v] = pc[v] /\ (pc[v] # "idle" => cur[v] # cur[w])
  BY <1>a DEF MarkRunning, Goto, TypeOK, Actors, ClaimsOK, ClaimedOnce, ActorsOK,
              WorkerOK
<1>1. TypeOK'
  <2>1. jobStatus' \in [Jobs -> JobStatuses]
    BY DEF TypeOK, JobStatuses, Outcomes, MarkRunning
  <2>2. stale' \subseteq Jobs
    BY DEF TypeOK, MarkRunning
  <2>3. pc' \in [Actors -> WorkerPcs \cup SweeperPcs]
    BY DEF TypeOK, Actors, WorkerPcs, SweeperPcs, MarkRunning, Goto
  <2>4. faultsLeft' \in Nat
    BY DEF TypeOK, Fault, Fine, MarkRunning
  <2> QED BY <2>1, <2>2, <2>3, <2>4
     DEF TypeOK, MarkRunning, dbVars, afterVars, tokenVars, queueVars,
         apiVars, actorVars
<1>2. ActorsOK'
  <2>1. ASSUME NEW v \in Workers PROVE WorkerOK(v)'
    BY DEF ActorsOK, WorkerOK, Actors, Outcomes, WorkerPcs, TypeOK,
           MarkRunning, Goto, actorVars
  <2>2. ASSUME NEW y \in Sweepers PROVE SweeperOK(y)'
    BY DEF ActorsOK, SweeperOK, Actors, Outcomes, SweeperPcs, TypeOK,
           MarkRunning, Goto, actorVars
  <2> QED BY <2>1, <2>2 DEF ActorsOK
<1>3. RowsOK'
  <2>1. ASSUME NEW t \in Scans PROVE ScanRowOK(t)'
    BY DEF RowsOK, ScanRowOK, MarkRunning, dbVars, apiVars
  <2>2. ASSUME NEW k \in Jobs PROVE JobRowOK(k)'
    BY DEF RowsOK, JobRowOK, Unqueued, TypeOK, ClaimsOK, ClaimOK, MarkRunning,
           apiVars
  <2> QED BY <2>1, <2>2 DEF RowsOK
<1>4. ClaimsOK'
  <2>1. ClaimedOnce'
    BY DEF ClaimedOnce, TypeOK, ClaimsOK, Pending, Actors, MarkRunning,
           queueVars, actorVars
  <2>2. ASSUME NEW k \in Jobs PROVE PendingOK(k)'
    BY <1>a, <1>b DEF ClaimsOK, PendingOK, Pending, Unqueued, MarkRunning, queueVars,
                      apiVars
  <2>3. ASSUME NEW v \in Workers PROVE ClaimOK(v)'
    <3>1. cur[v] # NoJob => cur[v] \in Jobs
      BY DEF TypeOK, Actors
    <3>2. CASE v = w
      BY <1>a, <1>b, <3>2
         DEF ClaimOK, Unqueued, MarkRunning, Goto, TypeOK, Actors, apiVars
    <3>3. CASE v # w
      BY <1>a, <1>b, <1>c, <3>1, <3>3
         DEF ClaimsOK, ClaimOK, Unqueued, MarkRunning, apiVars, ActorsOK,
             WorkerOK
    <3> QED BY <3>2, <3>3
  <2> QED BY <2>1, <2>2, <2>3 DEF ClaimsOK
<1>5. SweepOK'
  <2>1. ASSUME NEW k \in stale' PROVE Started(k)'
    BY DEF SweepOK, Started, TypeOK, Actors, MarkRunning
  <2>2. ASSUME NEW y \in Sweepers PROVE SweptOK(y)'
    BY DEF SweepOK, SweptOK, Started, TypeOK, ActorsOK, Actors, MarkRunning,
           actorVars
  <2> QED BY <2>1, <2>2 DEF SweepOK
<1>6. LegacyOK'
  <2>1. LegacyOK'
    BY DEF LegacyOK, TypeOK, ClaimsOK, ClaimOK, Closed, JobsOf, Outcomes,
           MarkRunning, apiVars
  <2> QED BY <2>1 DEF LegacyOK
<1>7. FinishedScanHasNoOpenJob'
  <2>1. FinishedScanHasNoOpenJob'
    BY DEF FinishedScanHasNoOpenJob, TypeOK, ClaimsOK, ClaimOK, JobsOf,
           InFlight, Terminal, MarkRunning
  <2> QED BY <2>1 DEF FinishedScanHasNoOpenJob
<1>8. NoNewStuckScan'
  <2>1. NoNewStuckScan'
    BY <1>a, <1>b DEF NoNewStuckScan, Stuck, InFlight, Open, JobsOf, MarkRunning
  <2> QED BY <2>1 DEF NoNewStuckScan
<1> QED BY <1>1, <1>2, <1>3, <1>4, <1>5, <1>6, <1>7, <1>8

(* MarkStarted moves a queued scan to running, never a finished one.         *)
LEMMA MarkStartedInv == ASSUME IInv, NEW w \in Workers, MarkStarted(w) PROVE IInv'
<1> USE LifecycleAssumption DEF IInv
<1>a. \A t \in Scans : scanStatus'[t] = scanStatus[t] \/ (scanStatus[t] = "queued" /\ scanStatus'[t] = "running")
  BY DEF MarkStarted, TypeOK
<1>1. TypeOK'
  <2>1. scanStatus' \in [Scans -> ScanStatuses]
    BY DEF TypeOK, Actors, ScanStatuses, MarkStarted, Goto, Fault, Fine,
           dbVars, afterVars, tokenVars, queueVars, apiVars
  <2>2. pc' \in [Actors -> WorkerPcs \cup SweeperPcs]
    BY DEF TypeOK, Actors, WorkerPcs, SweeperPcs, MarkStarted, Goto
  <2>3. faultsLeft' \in Nat
    BY DEF TypeOK, Fault, Fine, MarkStarted
  <2> QED BY <2>1, <2>2, <2>3
     DEF TypeOK, MarkStarted, dbVars, afterVars, tokenVars, queueVars,
         apiVars, actorVars
<1>2. ActorsOK'
  <2>1. ASSUME NEW v \in Workers PROVE WorkerOK(v)'
    BY DEF ActorsOK, WorkerOK, Actors, Outcomes, WorkerPcs, TypeOK,
           MarkStarted, Goto, actorVars
  <2>2. ASSUME NEW y \in Sweepers PROVE SweeperOK(y)'
    BY DEF ActorsOK, SweeperOK, Actors, Outcomes, SweeperPcs, TypeOK,
           MarkStarted, Goto, actorVars
  <2> QED BY <2>1, <2>2 DEF ActorsOK
<1>3. RowsOK'
  <2>1. ASSUME NEW t \in Scans PROVE ScanRowOK(t)'
    BY DEF RowsOK, ScanRowOK, TypeOK, Unqueued, ClaimsOK, ClaimOK,
           MarkStarted, apiVars
  <2>2. ASSUME NEW k \in Jobs PROVE JobRowOK(k)'
    BY DEF RowsOK, JobRowOK, Unqueued, TypeOK, Actors, MarkStarted, dbVars,
           apiVars
  <2> QED BY <2>1, <2>2 DEF RowsOK
<1>4. ClaimsOK'
  <2>1. ClaimedOnce'
    BY DEF ClaimedOnce, TypeOK, ClaimsOK, Pending, Actors, MarkStarted,
           queueVars, actorVars
  <2>2. ASSUME NEW k \in Jobs PROVE PendingOK(k)'
    BY DEF ClaimsOK, PendingOK, Pending, Unqueued, MarkStarted, dbVars,
           queueVars, apiVars
  <2>3. ASSUME NEW v \in Workers PROVE ClaimOK(v)'
    BY DEF ClaimsOK, ClaimOK, Unqueued, MarkStarted, Goto, dbVars, apiVars,
           actorVars
  <2> QED BY <2>1, <2>2, <2>3 DEF ClaimsOK
<1>5. SweepOK'
  BY DEF SweepOK, SweptOK, Started, MarkStarted, dbVars, actorVars
<1>6. LegacyOK'
  BY DEF LegacyOK, MarkStarted, dbVars, apiVars, Closed
<1>7. FinishedScanHasNoOpenJob'
  <2>1. FinishedScanHasNoOpenJob'
    BY DEF FinishedScanHasNoOpenJob, TypeOK, JobsOf, InFlight, Terminal,
           Actors, Outcomes, MarkStarted, dbVars
  <2> QED BY <2>1 DEF FinishedScanHasNoOpenJob
<1>8. NoNewStuckScan'
  <2>1. NoNewStuckScan'
    BY <1>a DEF NoNewStuckScan, Stuck, InFlight, Open, JobsOf, MarkStarted
  <2> QED BY <2>1 DEF NoNewStuckScan
<1> QED BY <1>1, <1>2, <1>3, <1>4, <1>5, <1>6, <1>7, <1>8

(* The workspace step ends in a result or goes on to the engine.             *)
LEMMA PrepareInv == ASSUME IInv, NEW w \in Workers, Prepare(w) PROVE IInv'
<1> USE LifecycleAssumption DEF IInv
<1>1. TypeOK'
  <2>1. pc' \in [Actors -> WorkerPcs \cup SweeperPcs]
    BY DEF TypeOK, Actors, WorkerPcs, SweeperPcs, Prepare, Goto, Finish
  <2>2. res' \in [Actors -> Outcomes \cup {"none"}]
    BY DEF TypeOK, Actors, Outcomes, Prepare, Finish
  <2>3. faultsLeft' \in Nat
    BY DEF TypeOK, Fault, Fine, Prepare
  <2> QED BY <2>1, <2>2, <2>3
     DEF TypeOK, Prepare, dbVars, afterVars, tokenVars, queueVars, apiVars,
         actorVars
<1>2. ActorsOK'
  <2>1. ASSUME NEW v \in Workers PROVE WorkerOK(v)'
    BY DEF ActorsOK, WorkerOK, Actors, Outcomes, WorkerPcs, TypeOK, Prepare,
           Goto, Finish
  <2>2. ASSUME NEW y \in Sweepers PROVE SweeperOK(y)'
    BY DEF ActorsOK, SweeperOK, Actors, TypeOK, Prepare, Goto, Finish
  <2> QED BY <2>1, <2>2 DEF ActorsOK
<1>3. RowsOK'
  BY DEF RowsOK, ScanRowOK, JobRowOK, Unqueued, Prepare, dbVars, apiVars
<1>4. ClaimsOK'
  <2>1. ClaimedOnce'
    BY DEF ClaimedOnce, TypeOK, ClaimsOK, Pending, Actors, Prepare, Finish,
           queueVars, actorVars
  <2>2. ASSUME NEW k \in Jobs PROVE PendingOK(k)'
    BY DEF ClaimsOK, PendingOK, Pending, Unqueued, Prepare, dbVars, queueVars,
           apiVars
  <2>3. ASSUME NEW v \in Workers PROVE ClaimOK(v)'
    BY DEF ClaimsOK, ClaimOK, Unqueued, TypeOK, WorkerOK, Actors, Prepare,
           Goto, Finish, dbVars, apiVars
  <2> QED BY <2>1, <2>2, <2>3 DEF ClaimsOK
<1>5. SweepOK'
  BY DEF SweepOK, SweptOK, Started, Prepare, dbVars, actorVars
<1>6. LegacyOK'
  BY DEF LegacyOK, Prepare, dbVars, apiVars, Closed
<1>7. FinishedScanHasNoOpenJob'
  BY DEF FinishedScanHasNoOpenJob, Prepare, dbVars, Terminal
<1>8. NoNewStuckScan'
  BY DEF NoNewStuckScan, Prepare, dbVars, Stuck, InFlight, Open
<1> QED BY <1>1, <1>2, <1>3, <1>4, <1>5, <1>6, <1>7, <1>8

(* The engine step leaves a result in the hands of its worker.               *)
LEMMA RunEngineInv == ASSUME IInv, NEW w \in Workers, RunEngine(w) PROVE IInv'
<1> USE LifecycleAssumption DEF IInv
<1>1. TypeOK'
  <2>1. pc' \in [Actors -> WorkerPcs \cup SweeperPcs]
    BY DEF TypeOK, SweeperPcs, RunEngine, Goto, Finish
  <2>2. res' \in [Actors -> Outcomes \cup {"none"}]
    BY DEF TypeOK, Actors, Outcomes, RunEngine, Finish, EngineOutcomes
  <2>3. faultsLeft' \in Nat
    BY DEF TypeOK, Fault, Fine, RunEngine
  <2> QED BY <2>1, <2>2, <2>3
     DEF TypeOK, RunEngine, dbVars, afterVars, tokenVars, queueVars, apiVars,
         actorVars
<1>2. ActorsOK'
  <2>1. ASSUME NEW v \in Workers PROVE WorkerOK(v)'
    BY DEF ActorsOK, WorkerOK, Actors, Outcomes, WorkerPcs, TypeOK, RunEngine,
           Goto, Finish, EngineOutcomes
  <2>2. ASSUME NEW y \in Sweepers PROVE SweeperOK(y)'
    BY DEF ActorsOK, SweeperOK, Actors, TypeOK, RunEngine, Goto, Finish
  <2> QED BY <2>1, <2>2 DEF ActorsOK
<1>3. RowsOK'
  BY DEF RowsOK, ScanRowOK, JobRowOK, Unqueued, RunEngine, dbVars, apiVars
<1>4. ClaimsOK'
  <2>1. ClaimedOnce'
    BY DEF ClaimedOnce, TypeOK, ClaimsOK, Pending, Actors, RunEngine, Finish,
           queueVars, actorVars
  <2>2. ASSUME NEW k \in Jobs PROVE PendingOK(k)'
    BY DEF ClaimsOK, PendingOK, Pending, Unqueued, RunEngine, dbVars,
           queueVars, apiVars
  <2>3. ASSUME NEW v \in Workers PROVE ClaimOK(v)'
    BY DEF ClaimsOK, ClaimOK, Unqueued, TypeOK, Actors, RunEngine, Goto,
           Finish, dbVars, apiVars
  <2> QED BY <2>1, <2>2, <2>3 DEF ClaimsOK
<1>5. SweepOK'
  BY DEF SweepOK, SweptOK, Started, RunEngine, dbVars, actorVars
<1>6. LegacyOK'
  BY DEF LegacyOK, RunEngine, dbVars, apiVars, Closed
<1>7. FinishedScanHasNoOpenJob'
  BY DEF FinishedScanHasNoOpenJob, RunEngine, dbVars, Terminal
<1>8. NoNewStuckScan'
  BY DEF NoNewStuckScan, RunEngine, dbVars, Stuck, InFlight, Open
<1> QED BY <1>1, <1>2, <1>3, <1>4, <1>5, <1>6, <1>7, <1>8

(* Ack drops the claim and nothing else.                                     *)
LEMMA AckInv == ASSUME IInv, NEW w \in Workers, Ack(w) PROVE IInv'
<1> USE LifecycleAssumption DEF IInv
<1>1. TypeOK'
  <2>1. processing' \subseteq Jobs
    BY DEF TypeOK, Ack
  <2>2. cur' \in [Actors -> Jobs \cup {NoJob}]
    BY DEF TypeOK, Actors, Ack
  <2>3. res' \in [Actors -> Outcomes \cup {"none"}]
    BY DEF TypeOK, Actors, Outcomes, Ack
  <2>4. pc' \in [Actors -> WorkerPcs \cup SweeperPcs]
    BY DEF TypeOK, Actors, WorkerPcs, SweeperPcs, Ack, Goto
  <2>5. faultsLeft' \in Nat
    BY DEF TypeOK, Fault, Fine, Ack
  <2> QED BY <2>1, <2>2, <2>3, <2>4, <2>5
     DEF TypeOK, Ack, dbVars, afterVars, tokenVars, queueVars, apiVars,
         actorVars
<1>2. ActorsOK'
  <2>1. ASSUME NEW v \in Workers PROVE WorkerOK(v)'
    BY DEF ActorsOK, WorkerOK, Actors, Outcomes, WorkerPcs, TypeOK, Ack, Goto
  <2>2. ASSUME NEW y \in Sweepers PROVE SweeperOK(y)'
    BY DEF ActorsOK, SweeperOK, Actors, Outcomes, SweeperPcs, TypeOK, Ack, Goto
  <2> QED BY <2>1, <2>2 DEF ActorsOK
<1>3. RowsOK'
  BY DEF RowsOK, ScanRowOK, JobRowOK, Unqueued, Ack, dbVars, apiVars
<1>4. ClaimsOK'
  <2>1. ClaimedOnce'
    BY DEF ClaimedOnce, TypeOK, ClaimsOK, Pending, Actors, Ack, queueVars
  <2>2. ASSUME NEW k \in Jobs PROVE PendingOK(k)'
    BY DEF ClaimsOK, PendingOK, Pending, Unqueued, Ack, dbVars, queueVars,
           apiVars
  <2>3. ASSUME NEW v \in Workers PROVE ClaimOK(v)'
    BY DEF ClaimsOK, ClaimOK, Unqueued, TypeOK, Actors, Ack, Goto, dbVars,
           apiVars
  <2> QED BY <2>1, <2>2, <2>3 DEF ClaimsOK
<1>5. SweepOK'
  <2>1. ASSUME NEW k \in stale' PROVE Started(k)'
    BY DEF SweepOK, Started, TypeOK, Actors, Ack, dbVars
  <2>2. ASSUME NEW y \in Sweepers PROVE SweptOK(y)'
    BY DEF SweepOK, SweptOK, Started, TypeOK, ActorsOK, Actors, Ack, dbVars,
           actorVars
  <2> QED BY <2>1, <2>2 DEF SweepOK
<1>6. LegacyOK'
  BY DEF LegacyOK, Ack, dbVars, apiVars, Closed
<1>7. FinishedScanHasNoOpenJob'
  BY DEF FinishedScanHasNoOpenJob, Ack, dbVars, Terminal
<1>8. NoNewStuckScan'
  BY DEF NoNewStuckScan, Ack, dbVars, Stuck, InFlight, Open
<1> QED BY <1>1, <1>2, <1>3, <1>4, <1>5, <1>6, <1>7, <1>8

(* The heart of the proof. One transaction closes the job and, when no job   *)
(* of the scan is in flight, the scan: after it the scan is finished exactly *)
(* when its jobs are, and no later step can put one in flight again.         *)
LEMMA PersistInv == ASSUME IInv, NEW a \in Actors, Persist(a) PROVE IInv'
<1> USE LifecycleAssumption DEF IInv
<1> DEFINE j == cur[a]
           s == ScanOf[j]
<1>a. /\ j \in Jobs /\ s \in Scans /\ res[a] \in Outcomes
      /\ jobStatus[j] # "none" /\ ~Unqueued(j)
      /\ pc[a] = "persist"
  BY PersistCases
<1>b. /\ \/ jobStatus' = [jobStatus EXCEPT ![j] = res[a]]
         \/ jobStatus' = jobStatus
      /\ stale' \subseteq stale
  BY DEF Persist
<1>c. \A k \in Jobs : jobStatus'[k] = jobStatus[k] \/ (k = j /\ jobStatus'[k] \in Outcomes)
  BY <1>a, <1>b DEF TypeOK
<1>d. \/ /\ Open(s)
         /\ \A k \in JobsOf(s) : jobStatus'[k] \notin InFlight
         /\ scanStatus' = [scanStatus EXCEPT ![s] = FinalStatus(s)]
         /\ counts' = [counts EXCEPT ![s] = findings' \cap JobsOf(s)]
         /\ won' = [won EXCEPT ![a] = {s}]
      \/ /\ UNCHANGED <<scanStatus, counts>>
         /\ won' = won \/ won' = [won EXCEPT ![a] = {s}]
         /\ \/ jobStatus' = jobStatus
            \/ ~Open(s)
            \/ \E k \in JobsOf(s) : jobStatus'[k] \in InFlight
  BY DEF Persist, Finalizes
<1>e. \A t \in Scans : scanStatus'[t] = scanStatus[t]
                       \/ (t = s /\ Open(s) /\ scanStatus'[t] \in {"completed", "cancelled"})
  BY <1>d DEF TypeOK, FinalStatus
<1>f. ReturnTo(a, "refund") \/ ReturnTo(a, Onward(a))
  BY PersistCases
<1>g. \/ UNCHANGED <<cur, res>>
      \/ /\ a \in Sweepers \ Workers
         /\ cur' = [cur EXCEPT ![a] = NoJob]
         /\ res' = [res EXCEPT ![a] = "none"]
  BY <1>f, Returning
<1>1. TypeOK'
  <2>1. jobStatus' \in [Jobs -> JobStatuses]
    BY DEF TypeOK, JobStatuses, Outcomes, Persist
  <2>2. stale' \subseteq Jobs
    BY DEF TypeOK, Persist
  <2>3. scanStatus' \in [Scans -> ScanStatuses]
    BY <1>d DEF TypeOK, ScanStatuses, FinalStatus
  <2>4. findings' \subseteq Jobs
    BY <1>a DEF Persist, TypeOK
  <2>5. counts' \in [Scans -> SUBSET Jobs]
    <3>1. counts \in [Scans -> SUBSET Jobs] /\ findings' \cap JobsOf(s) \in SUBSET Jobs
      BY DEF TypeOK, JobsOf
    <3> QED BY <1>d, <3>1
  <2>6. won' \in [Actors -> SUBSET Scans]
    <3>1. won \in [Actors -> SUBSET Scans] /\ {s} \in SUBSET Scans
      BY <1>a DEF TypeOK
    <3> QED BY <1>d, <3>1
  <2>7. pc' \in [Actors -> WorkerPcs \cup SweeperPcs]
    BY DEF TypeOK, WorkerPcs, SweeperPcs, Persist, Goto, ReturnTo, Onward,
           Resume
  <2>8. cur' \in [Actors -> Jobs \cup {NoJob}]
    BY <1>g DEF TypeOK, Actors
  <2>9. res' \in [Actors -> Outcomes \cup {"none"}]
    BY <1>g DEF TypeOK, Actors
  <2>10. faultsLeft' \in Nat
    BY DEF TypeOK, Fault, Fine, Persist
  <2> QED BY <2>1, <2>2, <2>3, <2>4, <2>5, <2>6, <2>7, <2>8, <2>9, <2>10
     DEF TypeOK, Persist, dbVars, afterVars, tokenVars, queueVars, apiVars,
         actorVars
<1>2. ActorsOK'
  <2>1. ASSUME NEW v \in Workers PROVE WorkerOK(v)'
    BY DEF ActorsOK, WorkerOK, Actors, WorkerPcs, TypeOK, Persist, Goto,
           ReturnTo, Onward, Resume
  <2>2. ASSUME NEW y \in Sweepers PROVE SweeperOK(y)'
    BY DEF ActorsOK, SweeperOK, Actors, SweeperPcs, TypeOK, Persist, Goto,
           ReturnTo, Onward, Resume
  <2> QED BY <2>1, <2>2 DEF ActorsOK
<1>3. RowsOK'
  <2>1. ASSUME NEW t \in Scans PROVE ScanRowOK(t)'
    BY DEF RowsOK, ScanRowOK, TypeOK, ActorsOK, SweeperOK, JobRowOK, Unqueued,
           ClaimsOK, ClaimOK, SweepOK, SweptOK, Started, Actors, Persist,
           FinalStatus, apiVars
  <2>2. ASSUME NEW k \in Jobs PROVE JobRowOK(k)'
    BY DEF RowsOK, JobRowOK, Unqueued, TypeOK, ActorsOK, WorkerOK, SweeperOK,
           ClaimsOK, ClaimOK, SweepOK, SweptOK, Started, Actors, Outcomes,
           Persist, Refundable, FinalStatus, apiVars
  <2> QED BY <2>1, <2>2 DEF RowsOK
<1>4. ClaimsOK'
  <2>1. ClaimedOnce'
    <3>1. \A v \in Workers : cur'[v] = cur[v]
      BY <1>g DEF TypeOK, Actors
    <3> QED BY <3>1, SameClaims DEF ClaimsOK, Persist, queueVars
  <2>2. ASSUME NEW k \in Jobs PROVE PendingOK(k)'
    <3>1. Pending(k) => k # j
      <4>1. CASE a \in Workers
        BY <4>1 DEF ClaimsOK, ClaimedOnce
      <4>2. CASE a \in Sweepers
        BY <1>a, <4>2, LifecycleAssumption
           DEF SweepOK, SweptOK, Started, ClaimsOK, PendingOK
      <4> QED BY <4>1, <4>2 DEF Actors
    <3> QED BY <1>c, <3>1
       DEF ClaimsOK, PendingOK, Pending, Unqueued, Persist, queueVars, apiVars
  <2>3. ASSUME NEW v \in Workers PROVE ClaimOK(v)'
    <3>1. cur'[v] = cur[v]
      BY <1>g DEF TypeOK, Actors
    <3>2. CASE v = a
      <4>1. pc'[a] \in {"refund", "score", "ack"}
        BY <1>f, <3>2, Returning DEF TypeOK, Actors
      <4> QED BY <1>a, <1>c, <3>1, <3>2, <4>1
         DEF ClaimOK, Unqueued, Persist, apiVars, Outcomes
    <3>3. CASE v # a
      <4>1. pc'[v] = pc[v]
        BY <1>f, <3>3 DEF ReturnTo, Goto, TypeOK, Actors
      <4>2. pc[v] # "idle" => cur[v] \in Jobs
        BY DEF TypeOK, Actors, ActorsOK, WorkerOK
      <4>3. pc[v] \in {"load", "mark"} => cur[v] # j
        <5>1. CASE a \in Workers
          BY <1>a, <3>3, <5>1, LifecycleAssumption DEF ClaimsOK, ClaimedOnce
        <5>2. CASE a \in Sweepers
          BY <1>a, <5>2, LifecycleAssumption
             DEF SweepOK, SweptOK, Started, ClaimsOK, ClaimOK
        <5> QED BY <5>1, <5>2 DEF Actors
      <4> QED BY <1>a, <1>c, <3>1, <4>1, <4>2, <4>3
         DEF ClaimsOK, ClaimOK, Unqueued, Persist, apiVars, Outcomes
    <3> QED BY <3>2, <3>3
  <2> QED BY <2>1, <2>2, <2>3 DEF ClaimsOK
<1>5. SweepOK'
  <2>1. ASSUME NEW k \in stale' PROVE Started(k)'
    BY DEF SweepOK, Started, TypeOK, Persist, ReturnTo
  <2>2. ASSUME NEW y \in Sweepers PROVE SweptOK(y)'
    BY DEF SweepOK, SweptOK, Started, TypeOK, ActorsOK, WorkerOK, SweeperOK,
           Actors, Outcomes, Persist, ReturnTo, Refundable
  <2> QED BY <2>1, <2>2 DEF SweepOK
<1>6. LegacyOK'
  <2>1. LegacyOK'
    BY <1>c DEF LegacyOK, Closed, JobsOf, Persist, apiVars
  <2> QED BY <2>1 DEF LegacyOK
<1>7. FinishedScanHasNoOpenJob'
  <2>1. FinishedScanHasNoOpenJob'
    <3>1. ASSUME NEW t \in Scans, Terminal(t)', NEW k \in JobsOf(t) PROVE jobStatus'[k] \notin InFlight
      <4>1. CASE Terminal(t)
        BY <1>c, <3>1, <4>1
           DEF FinishedScanHasNoOpenJob, Terminal, InFlight, JobsOf, Outcomes
      <4>2. CASE ~Terminal(t)
        <5>1. t = s /\ \A i \in JobsOf(s) : jobStatus'[i] \notin InFlight
          BY <1>d, <1>e, <3>1, <4>2 DEF Terminal, InFlight
        <5> QED BY <3>1, <5>1
      <4> QED BY <4>1, <4>2
    <3> QED BY <3>1 DEF FinishedScanHasNoOpenJob, JobsOf
  <2> QED BY <2>1 DEF FinishedScanHasNoOpenJob
<1>8. NoNewStuckScan'
  <2>1. NoNewStuckScan'
    <3>1. ASSUME NEW t \in Scans, t \in Stuck', t \notin LegacyStuck PROVE FALSE
      <4>1. Open(t) /\ scanStatus'[t] = scanStatus[t]
        BY <1>e, <3>1 DEF Stuck, InFlight, Open
      <4>2. t \notin Stuck
        BY <3>1 DEF NoNewStuckScan
      <4>3. t = s /\ jobStatus' # jobStatus
        BY <1>b, <1>c, <3>1, <4>1, <4>2 DEF Stuck, InFlight, JobsOf, Open
      <4>4. PICK k \in JobsOf(s) : jobStatus'[k] \in InFlight
        <5>1. CASE scanStatus' = [scanStatus EXCEPT ![s] = FinalStatus(s)]
          BY <1>a, <3>1, <4>3, <5>1 DEF Stuck, Open, FinalStatus, TypeOK, InFlight
        <5> QED BY <1>d, <4>1, <4>3, <5>1
      <4> QED BY <3>1, <4>3, <4>4 DEF Stuck, InFlight
    <3> QED BY <3>1 DEF NoNewStuckScan, Stuck, InFlight
  <2> QED BY <2>1 DEF NoNewStuckScan
<1> QED BY <1>1, <1>2, <1>3, <1>4, <1>5, <1>6, <1>7, <1>8

(* A refund writes no row that the invariant reads.                          *)
LEMMA RefundInv == ASSUME IInv, NEW a \in Actors, Refund(a) PROVE IInv'
<1> USE LifecycleAssumption DEF IInv
<1>a. ReturnTo(a, "refund") \/ ReturnTo(a, Onward(a))
  BY DEF Refund
<1>b. \/ UNCHANGED <<cur, res>>
      \/ /\ a \in Sweepers \ Workers
         /\ cur' = [cur EXCEPT ![a] = NoJob]
         /\ res' = [res EXCEPT ![a] = "none"]
  BY <1>a, Returning
<1>1. TypeOK'
  <2>1. refunded' \subseteq Jobs
    BY DEF TypeOK, Refund
  <2>2. pc' \in [Actors -> WorkerPcs \cup SweeperPcs]
    BY DEF TypeOK, Actors, WorkerPcs, SweeperPcs, Refund, Goto, ReturnTo,
           Onward, Resume
  <2>3. cur' \in [Actors -> Jobs \cup {NoJob}]
    BY <1>b DEF TypeOK, Actors
  <2>4. res' \in [Actors -> Outcomes \cup {"none"}]
    BY <1>b DEF TypeOK, Actors
  <2>5. faultsLeft' \in Nat
    BY DEF TypeOK, Fault, Fine, Refund
  <2> QED BY <2>1, <2>2, <2>3, <2>4, <2>5
     DEF TypeOK, Refund, dbVars, afterVars, tokenVars, queueVars, apiVars,
         actorVars
<1>2. ActorsOK'
  <2>1. ASSUME NEW v \in Workers PROVE WorkerOK(v)'
    BY DEF ActorsOK, WorkerOK, Actors, WorkerPcs, TypeOK, Refund, Goto,
           ReturnTo, Onward, Resume
  <2>2. ASSUME NEW y \in Sweepers PROVE SweeperOK(y)'
    BY DEF ActorsOK, SweeperOK, Actors, SweeperPcs, TypeOK, Refund, Goto,
           ReturnTo, Onward, Resume
  <2> QED BY <2>1, <2>2 DEF ActorsOK
<1>3. RowsOK'
  BY DEF RowsOK, ScanRowOK, JobRowOK, Unqueued, Refund, dbVars, apiVars
<1>4. ClaimsOK'
  <2>1. ClaimedOnce'
    <3>1. \A v \in Workers : cur'[v] = cur[v]
      BY <1>b DEF TypeOK, Actors
    <3> QED BY <3>1, SameClaims DEF ClaimsOK, Refund, queueVars
  <2>2. ASSUME NEW k \in Jobs PROVE PendingOK(k)'
    BY DEF ClaimsOK, PendingOK, Pending, Unqueued, Refund, dbVars, queueVars,
           apiVars
  <2>3. ASSUME NEW v \in Workers PROVE ClaimOK(v)'
    BY DEF ClaimsOK, ClaimOK, Unqueued, TypeOK, Actors, Refund, Goto,
           ReturnTo, Onward, Resume, dbVars, apiVars
  <2> QED BY <2>1, <2>2, <2>3 DEF ClaimsOK
<1>5. SweepOK'
  <2>1. ASSUME NEW k \in stale' PROVE Started(k)'
    BY DEF SweepOK, Started, TypeOK, Actors, Refund, ReturnTo, Onward, Resume,
           dbVars
  <2>2. ASSUME NEW y \in Sweepers PROVE SweptOK(y)'
    BY DEF SweepOK, SweptOK, Started, TypeOK, Actors, Refund, ReturnTo, dbVars
  <2> QED BY <2>1, <2>2 DEF SweepOK
<1>6. LegacyOK'
  BY DEF LegacyOK, Refund, dbVars, apiVars, Closed
<1>7. FinishedScanHasNoOpenJob'
  BY DEF FinishedScanHasNoOpenJob, Refund, dbVars, Terminal
<1>8. NoNewStuckScan'
  BY DEF NoNewStuckScan, Refund, dbVars, Stuck, InFlight, Open
<1> QED BY <1>1, <1>2, <1>3, <1>4, <1>5, <1>6, <1>7, <1>8

(* The score is computed after the scan is finished and changes no status.   *)
LEMMA ScoreInv == ASSUME IInv, NEW a \in Actors, Score(a) PROVE IInv'
<1> USE LifecycleAssumption DEF IInv
<1>1. TypeOK'
  <2>1. assessment' \in [Scans -> SUBSET SUBSET Jobs]
    <3>1. {findings \cap JobsOf(Subject(a))} \in SUBSET SUBSET Jobs
      BY DEF TypeOK
    <3>2. \/ assessment' = assessment
          \/ assessment' = [assessment EXCEPT ![Subject(a)] = {findings \cap JobsOf(Subject(a))}]
      BY DEF Score
    <3>3. assessment \in [Scans -> SUBSET SUBSET Jobs]
      BY DEF TypeOK
    <3> QED BY <3>1, <3>2, <3>3
  <2>2. pc' \in [Actors -> WorkerPcs \cup SweeperPcs]
    BY DEF TypeOK, Actors, WorkerPcs, SweeperPcs, Score, Goto
  <2>3. faultsLeft' \in Nat
    BY DEF TypeOK, Fault, Fine, Score
  <2> QED BY <2>1, <2>2, <2>3
     DEF TypeOK, Score, dbVars, afterVars, tokenVars, queueVars, apiVars,
         actorVars
<1>2. ActorsOK'
  <2>1. ASSUME NEW v \in Workers PROVE WorkerOK(v)'
    BY DEF ActorsOK, WorkerOK, WorkerPcs, Score, Goto, Scorable
  <2>2. ASSUME NEW y \in Sweepers PROVE SweeperOK(y)'
    BY DEF ActorsOK, SweeperOK, SweeperPcs, Score, Goto, Scorable
  <2> QED BY <2>1, <2>2 DEF ActorsOK
<1>3. RowsOK'
  BY DEF RowsOK, ScanRowOK, JobRowOK, Unqueued, Score, dbVars, apiVars
<1>4. ClaimsOK'
  <2>1. ClaimedOnce'
    BY DEF ClaimedOnce, TypeOK, ClaimsOK, Pending, Actors, Score, Scorable,
           queueVars, actorVars
  <2>2. ASSUME NEW k \in Jobs PROVE PendingOK(k)'
    BY DEF ClaimsOK, PendingOK, Pending, Unqueued, Score, dbVars, queueVars,
           apiVars
  <2>3. ASSUME NEW v \in Workers PROVE ClaimOK(v)'
    BY DEF ClaimsOK, ClaimOK, Unqueued, Score, Goto, Scorable, dbVars, apiVars
  <2> QED BY <2>1, <2>2, <2>3 DEF ClaimsOK
<1>5. SweepOK'
  BY DEF SweepOK, SweptOK, Started, Score, dbVars, actorVars
<1>6. LegacyOK'
  BY DEF LegacyOK, Score, dbVars, apiVars, Closed
<1>7. FinishedScanHasNoOpenJob'
  BY DEF FinishedScanHasNoOpenJob, Score, dbVars, Terminal
<1>8. NoNewStuckScan'
  BY DEF NoNewStuckScan, Score, dbVars, Stuck, InFlight, Open
<1> QED BY <1>1, <1>2, <1>3, <1>4, <1>5, <1>6, <1>7, <1>8

(* Telling users writes the notification only.                               *)
LEMMA TellInv == ASSUME IInv, NEW a \in Actors, Tell(a) PROVE IInv'
<1> USE LifecycleAssumption DEF IInv
<1>a. \/ UNCHANGED <<cur, res>>
      \/ /\ a \in Sweepers \ Workers
         /\ cur' = [cur EXCEPT ![a] = NoJob]
         /\ res' = [res EXCEPT ![a] = "none"]
  BY Returning DEF Tell
<1>1. TypeOK'
  <2>1. announced' \in [Scans -> Nat]
    BY DEF Tell, TypeOK
  <2>2. won' \in [Actors -> SUBSET Scans]
    BY DEF TypeOK, Actors, Tell
  <2>3. pc' \in [Actors -> WorkerPcs \cup SweeperPcs]
    BY DEF TypeOK, Actors, WorkerPcs, SweeperPcs, Tell, Goto, ReturnTo,
           Onward, Resume
  <2>4. cur' \in [Actors -> Jobs \cup {NoJob}]
    BY DEF TypeOK, Actors, ActorsOK, WorkerOK, Tell, Goto, ReturnTo, Onward,
           Resume, Fault, queueVars, apiVars
  <2>5. res' \in [Actors -> Outcomes \cup {"none"}]
    BY DEF TypeOK, Outcomes, Tell, Goto, ReturnTo, Onward, Resume, Fault,
           dbVars, apiVars
  <2>6. faultsLeft' \in Nat
    BY DEF TypeOK, Fault, Fine, Tell
  <2> QED BY <2>1, <2>2, <2>3, <2>4, <2>5, <2>6
     DEF TypeOK, Tell, dbVars, afterVars, tokenVars, queueVars, apiVars,
         actorVars
<1>2. ActorsOK'
  <2>1. ASSUME NEW v \in Workers PROVE WorkerOK(v)'
    BY DEF ActorsOK, WorkerOK, Actors, WorkerPcs, TypeOK, Tell, Goto,
           ReturnTo, Onward, Resume
  <2>2. ASSUME NEW y \in Sweepers PROVE SweeperOK(y)'
    BY DEF ActorsOK, SweeperOK, Actors, SweeperPcs, TypeOK, Tell, Goto,
           ReturnTo, Onward, Resume
  <2> QED BY <2>1, <2>2 DEF ActorsOK
<1>3. RowsOK'
  BY DEF RowsOK, ScanRowOK, JobRowOK, Unqueued, Tell, dbVars, apiVars
<1>4. ClaimsOK'
  <2>1. ClaimedOnce'
    <3>1. \A v \in Workers : cur'[v] = cur[v]
      BY <1>a DEF TypeOK, Actors
    <3> QED BY <3>1, SameClaims DEF ClaimsOK, Tell, queueVars
  <2>2. ASSUME NEW k \in Jobs PROVE PendingOK(k)'
    BY DEF ClaimsOK, PendingOK, Pending, Unqueued, Tell, dbVars, queueVars,
           apiVars
  <2>3. ASSUME NEW v \in Workers PROVE ClaimOK(v)'
    BY DEF ClaimsOK, ClaimOK, Unqueued, TypeOK, Actors, Tell, Goto, ReturnTo,
           Onward, Resume, dbVars, apiVars
  <2> QED BY <2>1, <2>2, <2>3 DEF ClaimsOK
<1>5. SweepOK'
  <2>1. ASSUME NEW k \in stale' PROVE Started(k)'
    BY DEF SweepOK, Started, TypeOK, Actors, Tell, ReturnTo, Onward, Resume,
           dbVars
  <2>2. ASSUME NEW y \in Sweepers PROVE SweptOK(y)'
    BY <1>a DEF SweepOK, SweptOK, Started, Tell, dbVars, TypeOK, Actors
  <2> QED BY <2>1, <2>2 DEF SweepOK
<1>6. LegacyOK'
  BY DEF LegacyOK, Tell, dbVars, apiVars, Closed
<1>7. FinishedScanHasNoOpenJob'
  BY DEF FinishedScanHasNoOpenJob, Tell, dbVars, Terminal
<1>8. NoNewStuckScan'
  BY DEF NoNewStuckScan, Tell, dbVars, Stuck, InFlight, Open
<1> QED BY <1>1, <1>2, <1>3, <1>4, <1>5, <1>6, <1>7, <1>8

(* Time only makes a running job older.                                      *)
LEMMA AgeOutInv == ASSUME IInv, NEW j \in Jobs, AgeOut(j) PROVE IInv'
<1> USE LifecycleAssumption DEF IInv
<1>1. TypeOK'
  <2>1. stale' \subseteq Jobs
    BY DEF TypeOK, AgeOut
  <2>2. faultsLeft' \in Nat
    BY DEF TypeOK, Fault, Fine, AgeOut, Outlives
  <2> QED BY <2>1, <2>2
     DEF TypeOK, AgeOut, dbVars, afterVars, tokenVars, queueVars, apiVars,
         actorVars
<1>2. ActorsOK'
  BY DEF ActorsOK, WorkerOK, SweeperOK, WorkerPcs, SweeperPcs, AgeOut, actorVars
<1>3. RowsOK'
  BY DEF RowsOK, ScanRowOK, JobRowOK, Unqueued, AgeOut, dbVars, apiVars
<1>4. ClaimsOK'
  BY DEF ClaimsOK, PendingOK, Pending, Unqueued, ClaimOK, AgeOut, queueVars,
         apiVars, actorVars, ClaimedOnce
<1>5. SweepOK'
  <2>1. ASSUME NEW k \in stale' PROVE Started(k)'
    BY DEF SweepOK, Started, TypeOK, Actors, AgeOut, Outlives, dbVars
  <2>2. ASSUME NEW y \in Sweepers PROVE SweptOK(y)'
    BY DEF SweepOK, SweptOK, Started, AgeOut, dbVars, actorVars
  <2> QED BY <2>1, <2>2 DEF SweepOK
<1>6. LegacyOK'
  BY DEF LegacyOK, AgeOut, dbVars, apiVars, Closed
<1>7. FinishedScanHasNoOpenJob'
  BY DEF FinishedScanHasNoOpenJob, AgeOut, dbVars, Terminal
<1>8. NoNewStuckScan'
  BY DEF NoNewStuckScan, AgeOut, dbVars, Stuck, InFlight, Open
<1> QED BY <1>1, <1>2, <1>3, <1>4, <1>5, <1>6, <1>7, <1>8

(* What the sweeper lists are jobs that have started, with their scans.      *)
LEMMA ListOrphansInv == ASSUME IInv, NEW z \in Sweepers, ListOrphans(z) PROVE IInv'
<1> USE LifecycleAssumption DEF IInv
<1>1. TypeOK'
  <2>1. todo' \in [Actors -> SUBSET Jobs]
    BY DEF TypeOK, Actors, ListOrphans, Goto, Orphans, Fault, Fine, dbVars,
           queueVars, apiVars
  <2>2. pc' \in [Actors -> WorkerPcs \cup SweeperPcs]
    BY DEF TypeOK, Actors, WorkerPcs, SweeperPcs, ListOrphans, Goto
  <2>3. faultsLeft' \in Nat
    BY DEF TypeOK, Fault, Fine, ListOrphans
  <2> QED BY <2>1, <2>2, <2>3
     DEF TypeOK, ListOrphans, dbVars, afterVars, tokenVars, queueVars,
         apiVars, actorVars
<1>2. ActorsOK'
  <2>1. ASSUME NEW v \in Workers PROVE WorkerOK(v)'
    BY DEF ActorsOK, WorkerOK, ListOrphans, Goto
  <2>2. ASSUME NEW y \in Sweepers PROVE SweeperOK(y)'
    BY DEF ActorsOK, SweeperOK, SweeperPcs, ListOrphans, Goto, Orphans
  <2> QED BY <2>1, <2>2 DEF ActorsOK
<1>3. RowsOK'
  BY DEF RowsOK, ScanRowOK, JobRowOK, Unqueued, ListOrphans, dbVars, apiVars
<1>4. ClaimsOK'
  <2>1. ClaimedOnce'
    BY DEF ClaimedOnce, TypeOK, ClaimsOK, Pending, Actors, ListOrphans,
           Orphans, queueVars, actorVars
  <2>2. ASSUME NEW k \in Jobs PROVE PendingOK(k)'
    BY DEF ClaimsOK, PendingOK, Pending, Unqueued, ListOrphans, dbVars,
           queueVars, apiVars
  <2>3. ASSUME NEW v \in Workers PROVE ClaimOK(v)'
    BY DEF ClaimsOK, ClaimOK, Unqueued, ListOrphans, Goto, Orphans, dbVars,
           apiVars
  <2> QED BY <2>1, <2>2, <2>3 DEF ClaimsOK
<1>5. SweepOK'
  <2>1. ASSUME NEW k \in stale' PROVE Started(k)'
    BY DEF SweepOK, Started, TypeOK, Actors, ListOrphans, Orphans, dbVars
  <2>2. ASSUME NEW y \in Sweepers PROVE SweptOK(y)'
    <3>1. \A k \in todo'[z] : k \in todo[z] \/ k \in stale
      BY DEF ListOrphans, Orphans, TypeOK, Actors
    <3>2. y # z => todo'[y] = todo[y]
      BY DEF ListOrphans, TypeOK, Actors
    <3> QED BY <3>1, <3>2 DEF SweepOK, SweptOK, Started, ListOrphans, dbVars
  <2> QED BY <2>1, <2>2 DEF SweepOK
<1>6. LegacyOK'
  BY DEF LegacyOK, ListOrphans, dbVars, apiVars, Closed
<1>7. FinishedScanHasNoOpenJob'
  BY DEF FinishedScanHasNoOpenJob, ListOrphans, dbVars, Terminal
<1>8. NoNewStuckScan'
  BY DEF NoNewStuckScan, ListOrphans, dbVars, Stuck, InFlight, Open
<1> QED BY <1>1, <1>2, <1>3, <1>4, <1>5, <1>6, <1>7, <1>8

(* The sweeper takes up one listed job as if it had run it.                  *)
LEMMA SweepOneInv == ASSUME IInv, NEW z \in Sweepers, SweepOne(z) PROVE IInv'
<1> USE LifecycleAssumption DEF IInv
<1>a. PICK j \in todo[z] :
        \/ /\ cur' = [cur EXCEPT ![z] = j]
           /\ \E o \in {"lost", "lost_cancelled"} : Finish(z, o)
        \/ UNCHANGED <<cur, pc, res>>
  BY DEF SweepOne
<1>b. j \in Jobs /\ Started(j)
  BY DEF TypeOK, Actors, SweepOK, SweptOK
<1>c. cur' = cur \/ cur' = [cur EXCEPT ![z] = j]
  BY <1>a
<1>1. TypeOK'
  <2>1. todo' \in [Actors -> SUBSET Jobs]
    BY DEF TypeOK, Actors, SweepOne
  <2>2. cur' \in [Actors -> Jobs \cup {NoJob}]
    <3>1. cur \in [Actors -> Jobs \cup {NoJob}]
      BY DEF TypeOK
    <3> QED BY <1>b, <1>c, <3>1
  <2>3. pc' \in [Actors -> WorkerPcs \cup SweeperPcs]
    BY DEF TypeOK, Actors, WorkerPcs, SweeperPcs, SweepOne, Goto, Finish
  <2>4. res' \in [Actors -> Outcomes \cup {"none"}]
    BY DEF TypeOK, Actors, Outcomes, SweepOne, Finish
  <2>5. faultsLeft' \in Nat
    BY DEF TypeOK, Fault, Fine, SweepOne
  <2> QED BY <2>1, <2>2, <2>3, <2>4, <2>5
     DEF TypeOK, SweepOne, dbVars, afterVars, tokenVars, queueVars, apiVars,
         actorVars
<1>2. ActorsOK'
  <2>1. ASSUME NEW v \in Workers PROVE WorkerOK(v)'
    BY DEF ActorsOK, WorkerOK, Actors, Outcomes, WorkerPcs, TypeOK, SweepOne,
           Goto, Finish
  <2>2. ASSUME NEW y \in Sweepers PROVE SweeperOK(y)'
    BY DEF ActorsOK, SweeperOK, Actors, Outcomes, SweeperPcs, TypeOK,
           SweepOne, Goto, Finish
  <2> QED BY <2>1, <2>2 DEF ActorsOK
<1>3. RowsOK'
  BY DEF RowsOK, ScanRowOK, JobRowOK, Unqueued, SweepOne, dbVars, apiVars
<1>4. ClaimsOK'
  <2>1. ClaimedOnce'
    <3>1. \A v \in Workers : cur'[v] = cur[v]
      BY <1>c DEF TypeOK, Actors
    <3> QED BY <3>1, SameClaims DEF ClaimsOK, SweepOne, queueVars
  <2>2. ASSUME NEW k \in Jobs PROVE PendingOK(k)'
    BY DEF ClaimsOK, PendingOK, Pending, Unqueued, SweepOne, dbVars,
           queueVars, apiVars
  <2>3. ASSUME NEW v \in Workers PROVE ClaimOK(v)'
    BY DEF ClaimsOK, ClaimOK, Unqueued, TypeOK, Actors, SweepOne, Goto,
           Finish, dbVars, apiVars
  <2> QED BY <2>1, <2>2, <2>3 DEF ClaimsOK
<1>5. SweepOK'
  <2>1. ASSUME NEW k \in stale' PROVE Started(k)'
    BY DEF SweepOK, Started, TypeOK, Actors, SweepOne, Finish, dbVars
  <2>2. ASSUME NEW y \in Sweepers PROVE SweptOK(y)'
    BY DEF SweepOK, SweptOK, Started, TypeOK, Actors, SweepOne, Finish, dbVars
  <2> QED BY <2>1, <2>2 DEF SweepOK
<1>6. LegacyOK'
  BY DEF LegacyOK, SweepOne, dbVars, apiVars, Closed
<1>7. FinishedScanHasNoOpenJob'
  BY DEF FinishedScanHasNoOpenJob, SweepOne, dbVars, Terminal
<1>8. NoNewStuckScan'
  BY DEF NoNewStuckScan, SweepOne, dbVars, Stuck, InFlight, Open
<1> QED BY <1>1, <1>2, <1>3, <1>4, <1>5, <1>6, <1>7, <1>8

(* What the sweeper lists are scans.                                         *)
LEMMA ListStuckInv == ASSUME IInv, NEW z \in Sweepers, ListStuck(z) PROVE IInv'
<1> USE LifecycleAssumption DEF IInv
<1>a. Stuck \subseteq LegacyStuck /\ LegacyStuck \subseteq Scans
  BY DEF NoNewStuckScan
<1>b. \E S \in SUBSET LegacyStuck : stuckTodo' = stuckTodo \/ stuckTodo' = [stuckTodo EXCEPT ![z] = S]
  BY <1>a DEF ListStuck
<1>c. pc' = [pc EXCEPT ![z] = "idle"] \/ pc' = [pc EXCEPT ![z] = "stuck"]
  BY DEF ListStuck, Goto
<1>1. TypeOK'
  <2>1. stuckTodo' \in [Actors -> SUBSET Scans]
    BY <1>a, <1>b DEF TypeOK, Actors
  <2>2. pc' \in [Actors -> WorkerPcs \cup SweeperPcs]
    BY DEF TypeOK, Actors, WorkerPcs, SweeperPcs, ListStuck, Goto, tokenVars,
           queueVars, apiVars
  <2>3. faultsLeft' \in Nat
    BY DEF TypeOK, Fault, Fine, ListStuck
  <2> QED BY <2>1, <2>2, <2>3
     DEF TypeOK, ListStuck, dbVars, afterVars, tokenVars, queueVars, apiVars,
         actorVars
<1>2. ActorsOK'
  <2>1. ASSUME NEW v \in Workers PROVE WorkerOK(v)'
    BY DEF ActorsOK, WorkerOK, Actors, TypeOK, ListStuck, Goto, Stuck
  <2>2. ASSUME NEW y \in Sweepers PROVE SweeperOK(y)'
    BY <1>c DEF ActorsOK, SweeperOK, SweeperPcs, ListStuck, TypeOK, Actors
  <2> QED BY <2>1, <2>2 DEF ActorsOK
<1>3. RowsOK'
  BY DEF RowsOK, ScanRowOK, JobRowOK, Unqueued, ListStuck, dbVars, apiVars
<1>4. ClaimsOK'
  <2>1. ClaimedOnce'
    BY DEF ClaimedOnce, TypeOK, ClaimsOK, Pending, Stuck, Actors, ListStuck,
           queueVars, actorVars
  <2>2. ASSUME NEW k \in Jobs PROVE PendingOK(k)'
    BY DEF ClaimsOK, PendingOK, Pending, Unqueued, ListStuck, dbVars,
           queueVars, apiVars
  <2>3. ASSUME NEW v \in Workers PROVE ClaimOK(v)'
    BY DEF ClaimsOK, ClaimOK, Unqueued, TypeOK, WorkerOK, Actors, ListStuck,
           Goto, Stuck, InFlight, dbVars, apiVars, actorVars
  <2> QED BY <2>1, <2>2, <2>3 DEF ClaimsOK
<1>5. SweepOK'
  <2>1. ASSUME NEW k \in stale' PROVE Started(k)'
    BY DEF SweepOK, Started, TypeOK, Actors, ListStuck, Stuck, InFlight, dbVars
  <2>2. ASSUME NEW y \in Sweepers PROVE SweptOK(y)'
    <3>1. stuckTodo \in [Actors -> SUBSET Scans] /\ y \in Actors /\ stuckTodo[y] \subseteq LegacyStuck
      BY DEF SweepOK, SweptOK, TypeOK, Actors
    <3>2. stuckTodo'[y] \subseteq LegacyStuck
      BY <1>b, <3>1
    <3> QED BY <3>2 DEF SweepOK, SweptOK, Started, ListStuck, dbVars
  <2> QED BY <2>1, <2>2 DEF SweepOK
<1>6. LegacyOK'
  BY DEF LegacyOK, ListStuck, dbVars, apiVars, Closed
<1>7. FinishedScanHasNoOpenJob'
  BY DEF FinishedScanHasNoOpenJob, ListStuck, dbVars, Terminal
<1>8. NoNewStuckScan'
  BY DEF NoNewStuckScan, ListStuck, dbVars, Stuck, InFlight, Open
<1> QED BY <1>1, <1>2, <1>3, <1>4, <1>5, <1>6, <1>7, <1>8

(* A stuck scan is finished only if none of its jobs is in flight.           *)
LEMMA FinalizeStuckInv == ASSUME IInv, NEW z \in Sweepers, FinalizeStuck(z) PROVE IInv'
<1> USE LifecycleAssumption DEF IInv
<1>a. PICK s \in LegacyStuck :
        /\ \/ /\ Open(s) /\ scanStatus' = [scanStatus EXCEPT ![s] = FinalStatus(s)]
              /\ counts' = [counts EXCEPT ![s] = findings \cap JobsOf(s)]
              /\ won' = [won EXCEPT ![z] = @ \cup {s}]
           \/ UNCHANGED <<scanStatus, counts, won>>
        /\ \E S \in SUBSET stuckTodo[z] : stuckTodo' = [stuckTodo EXCEPT ![z] = S]
  <2>1. stuckTodo[z] \subseteq LegacyStuck
    BY DEF SweepOK, SweptOK
  <2>2. PICK s \in stuckTodo[z] :
          /\ \/ /\ Open(s) /\ scanStatus' = [scanStatus EXCEPT ![s] = FinalStatus(s)]
                /\ counts' = [counts EXCEPT ![s] = findings \cap JobsOf(s)]
                /\ won' = [won EXCEPT ![z] = @ \cup {s}]
             \/ UNCHANGED <<scanStatus, counts, won>>
          /\ \/ stuckTodo' = [stuckTodo EXCEPT ![z] = @ \ {s}]
             \/ stuckTodo' = [stuckTodo EXCEPT ![z] = {}]
    BY DEF FinalizeStuck, Finalizes
  <2> QED BY <2>1, <2>2
<1>b. s \in Scans /\ apc[s] = "done" /\ \A j \in JobsOf(s) : Closed(j)
  BY DEF LegacyOK
<1>c. \A t \in Scans : scanStatus'[t] = scanStatus[t]
                       \/ (t = s /\ Open(s) /\ scanStatus'[t] \in {"completed", "cancelled"})
  BY <1>a DEF TypeOK, FinalStatus
<1>1. TypeOK'
  <2>1. scanStatus' \in [Scans -> ScanStatuses]
    BY <1>a DEF TypeOK, ScanStatuses, FinalStatus
  <2>2. counts' \in [Scans -> SUBSET Jobs]
    <3>1. counts \in [Scans -> SUBSET Jobs] /\ findings \cap JobsOf(s) \in SUBSET Jobs
      BY DEF TypeOK
    <3> QED BY <1>a, <3>1
  <2>3. won' \in [Actors -> SUBSET Scans]
    BY <1>a, <1>b DEF TypeOK, Actors
  <2>4. stuckTodo' \in [Actors -> SUBSET Scans]
    BY <1>a DEF TypeOK, Actors
  <2>5. pc' \in [Actors -> WorkerPcs \cup SweeperPcs]
    BY DEF TypeOK, Actors, WorkerPcs, SweeperPcs, FinalizeStuck, Goto
  <2>6. faultsLeft' \in Nat
    BY DEF TypeOK, Fault, Fine, FinalizeStuck
  <2> QED BY <2>1, <2>2, <2>3, <2>4, <2>5, <2>6
     DEF TypeOK, FinalizeStuck, dbVars, afterVars, tokenVars, queueVars,
         apiVars, actorVars
<1>2. ActorsOK'
  <2>1. ASSUME NEW v \in Workers PROVE WorkerOK(v)'
    BY DEF ActorsOK, WorkerOK, Actors, Outcomes, WorkerPcs, TypeOK,
           FinalizeStuck, Goto, actorVars
  <2>2. ASSUME NEW y \in Sweepers PROVE SweeperOK(y)'
    BY DEF ActorsOK, SweeperOK, Actors, Outcomes, SweeperPcs, TypeOK,
           FinalizeStuck, Goto, actorVars
  <2> QED BY <2>1, <2>2 DEF ActorsOK
<1>3. RowsOK'
  <2>1. ASSUME NEW t \in Scans PROVE ScanRowOK(t)'
    BY DEF RowsOK, ScanRowOK, TypeOK, SweepOK, SweptOK, LegacyOK,
           FinalizeStuck, apiVars
  <2>2. ASSUME NEW k \in Jobs PROVE JobRowOK(k)'
    BY DEF RowsOK, JobRowOK, Unqueued, TypeOK, FinalizeStuck, FinalStatus,
           apiVars
  <2> QED BY <2>1, <2>2 DEF RowsOK
<1>4. ClaimsOK'
  <2>1. ClaimedOnce'
    BY DEF ClaimedOnce, TypeOK, ClaimsOK, Pending, Actors, FinalizeStuck,
           queueVars, actorVars
  <2>2. ASSUME NEW k \in Jobs PROVE PendingOK(k)'
    BY DEF ClaimsOK, PendingOK, Pending, Unqueued, FinalizeStuck, dbVars,
           queueVars, apiVars
  <2>3. ASSUME NEW v \in Workers PROVE ClaimOK(v)'
    BY DEF ClaimsOK, ClaimOK, Unqueued, FinalizeStuck, Goto, apiVars
  <2> QED BY <2>1, <2>2, <2>3 DEF ClaimsOK
<1>5. SweepOK'
  <2>1. ASSUME NEW k \in stale' PROVE Started(k)'
    BY DEF SweepOK, Started, FinalizeStuck
  <2>2. ASSUME NEW y \in Sweepers PROVE SweptOK(y)'
    <3>1. stuckTodo'[y] \subseteq LegacyStuck
      BY <1>a DEF SweepOK, SweptOK, TypeOK, Actors
    <3> QED BY <3>1 DEF SweepOK, SweptOK, Started, FinalizeStuck
  <2> QED BY <2>1, <2>2 DEF SweepOK
<1>6. LegacyOK'
  BY DEF LegacyOK, FinalizeStuck, dbVars, apiVars, Closed
<1>7. FinishedScanHasNoOpenJob'
  <2>1. FinishedScanHasNoOpenJob'
    BY <1>b, <1>c DEF FinishedScanHasNoOpenJob, Terminal, InFlight, Closed, Outcomes,
                      FinalizeStuck
  <2> QED BY <2>1 DEF FinishedScanHasNoOpenJob
<1>8. NoNewStuckScan'
  <2>1. NoNewStuckScan'
    BY <1>c DEF NoNewStuckScan, Stuck, InFlight, Open, FinalizeStuck
  <2> QED BY <2>1 DEF NoNewStuckScan
<1> QED BY <1>1, <1>2, <1>3, <1>4, <1>5, <1>6, <1>7, <1>8

(* A crash loses what the actor held, and keeps every row.                   *)
LEMMA CrashInv == ASSUME IInv, NEW a \in Actors, Crash(a) PROVE IInv'
<1> USE LifecycleAssumption DEF IInv
<1>1. TypeOK'
  <2>1. pc' \in [Actors -> WorkerPcs \cup SweeperPcs]
    BY DEF TypeOK, Actors, WorkerPcs, SweeperPcs, Crash, Goto
  <2>2. cur' \in [Actors -> Jobs \cup {NoJob}]
    BY DEF TypeOK, Actors, Crash
  <2>3. res' \in [Actors -> Outcomes \cup {"none"}]
    BY DEF TypeOK, Actors, Outcomes, Crash
  <2>4. won' \in [Actors -> SUBSET Scans]
    BY DEF TypeOK, Actors, Crash
  <2>5. todo' \in [Actors -> SUBSET Jobs]
    BY DEF TypeOK, Actors, Crash
  <2>6. stuckTodo' \in [Actors -> SUBSET Scans]
    BY DEF TypeOK, Actors, Crash
  <2>7. faultsLeft' \in Nat
    BY DEF TypeOK, Fault, Fine, Crash
  <2> QED BY <2>1, <2>2, <2>3, <2>4, <2>5, <2>6, <2>7
     DEF TypeOK, Crash, dbVars, afterVars, tokenVars, queueVars, apiVars
<1>2. ActorsOK'
  <2>1. ASSUME NEW v \in Workers PROVE WorkerOK(v)'
    BY DEF ActorsOK, WorkerOK, Actors, Outcomes, WorkerPcs, TypeOK, Crash, Goto
  <2>2. ASSUME NEW y \in Sweepers PROVE SweeperOK(y)'
    BY DEF ActorsOK, SweeperOK, Actors, Outcomes, SweeperPcs, TypeOK, Crash,
           Goto
  <2> QED BY <2>1, <2>2 DEF ActorsOK
<1>3. RowsOK'
  BY DEF RowsOK, ScanRowOK, JobRowOK, Unqueued, Crash, dbVars, apiVars
<1>4. ClaimsOK'
  <2>1. ClaimedOnce'
    BY DEF ClaimedOnce, TypeOK, ClaimsOK, Pending, Actors, Crash, queueVars
  <2>2. ASSUME NEW k \in Jobs PROVE PendingOK(k)'
    BY DEF ClaimsOK, PendingOK, Pending, Unqueued, Crash, dbVars, queueVars,
           apiVars
  <2>3. ASSUME NEW v \in Workers PROVE ClaimOK(v)'
    BY DEF ClaimsOK, ClaimOK, Unqueued, TypeOK, Actors, Crash, Goto, dbVars,
           apiVars
  <2> QED BY <2>1, <2>2, <2>3 DEF ClaimsOK
<1>5. SweepOK'
  <2>1. ASSUME NEW k \in stale' PROVE Started(k)'
    BY DEF SweepOK, Started, TypeOK, Actors, Crash, dbVars
  <2>2. ASSUME NEW y \in Sweepers PROVE SweptOK(y)'
    BY DEF SweepOK, SweptOK, Started, TypeOK, ActorsOK, Actors, Crash, dbVars
  <2> QED BY <2>1, <2>2 DEF SweepOK
<1>6. LegacyOK'
  BY DEF LegacyOK, Crash, dbVars, apiVars, Closed
<1>7. FinishedScanHasNoOpenJob'
  BY DEF FinishedScanHasNoOpenJob, Crash, dbVars, Terminal
<1>8. NoNewStuckScan'
  BY DEF NoNewStuckScan, Crash, dbVars, Stuck, InFlight, Open
<1> QED BY <1>1, <1>2, <1>3, <1>4, <1>5, <1>6, <1>7, <1>8

(* Losing Redis empties the queue: jobs are claimed by no one, which is      *)
(* allowed.                                                                  *)
LEMMA RedisFlushInv == ASSUME IInv, RedisFlush PROVE IInv'
<1> USE LifecycleAssumption DEF IInv
<1>1. TypeOK'
  <2>1. pending' \in Seq(Jobs)
    BY DEF TypeOK, RedisFlush
  <2>2. processing' \subseteq Jobs
    BY DEF TypeOK, RedisFlush
  <2>3. faultsLeft' \in Nat
    BY DEF TypeOK, Fault, Fine, RedisFlush
  <2> QED BY <2>1, <2>2, <2>3
     DEF TypeOK, RedisFlush, dbVars, afterVars, tokenVars, apiVars, actorVars
<1>2. ActorsOK'
  BY DEF ActorsOK, WorkerOK, SweeperOK, WorkerPcs, SweeperPcs, RedisFlush,
         actorVars
<1>3. RowsOK'
  BY DEF RowsOK, ScanRowOK, JobRowOK, Unqueued, RedisFlush, dbVars, apiVars
<1>4. ClaimsOK'
  <2>1. ClaimedOnce'
    BY DEF ClaimedOnce, TypeOK, ClaimsOK, Pending, Actors, RedisFlush, actorVars
  <2>2. ASSUME NEW k \in Jobs PROVE PendingOK(k)'
    BY DEF ClaimsOK, PendingOK, Pending, Unqueued, TypeOK, Actors, RedisFlush,
           dbVars, apiVars
  <2>3. ASSUME NEW v \in Workers PROVE ClaimOK(v)'
    BY DEF ClaimsOK, ClaimOK, Unqueued, RedisFlush, dbVars, apiVars, actorVars
  <2> QED BY <2>1, <2>2, <2>3 DEF ClaimsOK
<1>5. SweepOK'
  BY DEF SweepOK, SweptOK, Started, RedisFlush, dbVars, actorVars
<1>6. LegacyOK'
  BY DEF LegacyOK, RedisFlush, dbVars, apiVars, Closed
<1>7. FinishedScanHasNoOpenJob'
  BY DEF FinishedScanHasNoOpenJob, RedisFlush, dbVars, Terminal
<1>8. NoNewStuckScan'
  BY DEF NoNewStuckScan, RedisFlush, dbVars, Stuck, InFlight, Open
<1> QED BY <1>1, <1>2, <1>3, <1>4, <1>5, <1>6, <1>7, <1>8

(* The initial states satisfy the invariant. *)
LEMMA InitInv == Init => IInv
<1> SUFFICES ASSUME Init PROVE IInv
  OBVIOUS
<1> USE LifecycleAssumption
<1>1. TypeOK
  BY DEF Init, TypeOK, JobStatuses, Outcomes, ScanStatuses, ApiPcs, WorkerPcs,
         SweeperPcs
<1>2. ActorsOK
  BY DEF Init, ActorsOK, WorkerOK, SweeperOK, WorkerPcs, SweeperPcs, Actors
<1>3. RowsOK
  <2>1. ASSUME NEW s \in Scans PROVE ScanRowOK(s)
    BY DEF Init, ScanRowOK
  <2>2. ASSUME NEW j \in Jobs PROVE JobRowOK(j)
    BY DEF Init, JobRowOK, Unqueued
  <2> QED BY <2>1, <2>2 DEF RowsOK
<1>4. ClaimsOK
  <2>1. DOMAIN pending = {}
    BY DEF Init
  <2>2. \A w \in Workers : cur[w] = NoJob /\ pc[w] = "idle"
    BY DEF Init, Actors
  <2> QED BY <2>1, <2>2 DEF ClaimsOK, ClaimedOnce, PendingOK, ClaimOK, Pending
<1>5. SweepOK
  BY DEF Init, SweepOK, SweptOK, Started, Actors
<1>6. LegacyOK
  <2>1. ASSUME NEW s \in LegacyStuck
        PROVE  apc[s] = "done" /\ \A j \in JobsOf(s) : Closed(j)
    BY DEF Init, Closed, Outcomes, JobsOf
  <2> QED BY <2>1 DEF LegacyOK
<1>7. FinishedScanHasNoOpenJob
  BY DEF Init, FinishedScanHasNoOpenJob, Terminal
<1>8. NoNewStuckScan
  BY DEF Init, NoNewStuckScan, Stuck, Open, InFlight
<1> QED BY <1>1, <1>2, <1>3, <1>4, <1>5, <1>6, <1>7, <1>8 DEF IInv

(* A step that changes nothing preserves it. *)
LEMMA StutterInv == IInv /\ UNCHANGED vars => IInv'
<1> SUFFICES ASSUME IInv, UNCHANGED vars PROVE IInv'
  OBVIOUS
<1> USE DEF IInv, vars, dbVars, afterVars, tokenVars, queueVars, apiVars, actorVars
<1>1. TypeOK'
  BY DEF TypeOK
<1>2. ActorsOK'
  BY DEF ActorsOK, WorkerOK, SweeperOK
<1>3. RowsOK'
  BY DEF RowsOK, ScanRowOK, JobRowOK, Unqueued
<1>4. ClaimsOK'
  BY DEF ClaimsOK, ClaimedOnce, PendingOK, ClaimOK, Pending, Unqueued
<1>5. SweepOK'
  BY DEF SweepOK, SweptOK, Started
<1>6. LegacyOK'
  BY DEF LegacyOK, Closed
<1>7. FinishedScanHasNoOpenJob' /\ NoNewStuckScan'
  BY DEF FinishedScanHasNoOpenJob, Terminal, NoNewStuckScan, Stuck, Open
<1> QED BY <1>1, <1>2, <1>3, <1>4, <1>5, <1>6, <1>7

(* Every step of the API, of a worker, of a sweeper, of time and of the      *)
(* faults preserves it.                                                     *)
LEMMA NextInv == IInv /\ [Next]_vars => IInv'
<1> SUFFICES ASSUME IInv, [Next]_vars PROVE IInv'
  OBVIOUS
<1>1. CASE \E s \in Scans : Charge(s) \/ ApiStep(s) \/ ApiCrash(s) \/ CancelScan(s)
  BY <1>1, ChargeInv, InsertScanInv, InsertJobInv, EnqueueInv, RefundRestInv,
     ApiCrashInv, CancelScanInv DEF ApiStep
<1>2. CASE \E w \in Workers : WorkerStep(w)
  <2> PICK w \in Workers : WorkerStep(w)
    BY <1>2
  <2>1. w \in Actors
    BY DEF Actors
  <2> QED
    BY <2>1, ClaimInv, LoadInv, MarkRunningInv, MarkStartedInv, PrepareInv,
       RunEngineInv, PersistInv, RefundInv, ScoreInv, TellInv, AckInv DEF WorkerStep
<1>3. CASE \E z \in Sweepers : SweeperStep(z)
  <2> PICK z \in Sweepers : SweeperStep(z)
    BY <1>3
  <2>1. z \in Actors
    BY DEF Actors
  <2> QED
    BY <2>1, ListOrphansInv, SweepOneInv, PersistInv, RefundInv, ListStuckInv,
       FinalizeStuckInv, ScoreInv, TellInv DEF SweeperStep
<1>4. CASE \E j \in Jobs : AgeOut(j)
  BY <1>4, AgeOutInv
<1>5. CASE \E a \in Actors : Crash(a)
  BY <1>5, CrashInv
<1>6. CASE RedisFlush
  BY <1>6, RedisFlushInv
<1>7. CASE UNCHANGED vars
  BY <1>7, StutterInv
<1> QED BY <1>1, <1>2, <1>3, <1>4, <1>5, <1>6, <1>7 DEF Next

-----------------------------------------------------------------------------
(***************************************************************************)
(* The theorems.                                                           *)
(***************************************************************************)

(* The inductive invariant holds in every behaviour, for any number of      *)
(* scans, jobs, workers, sweepers and faults of every kind: crashes, failed *)
(* statements, a flushed Redis and workers that outlive their deadline.     *)
THEOREM Inductive == Spec => []IInv
<1>1. Init => IInv
  BY InitInv
<1>2. IInv /\ [Next]_vars => IInv'
  BY NextInv
<1> QED BY <1>1, <1>2, PTL DEF Spec

(* Every variable keeps its type. *)
THEOREM TypeCorrect == Spec => []TypeOK
<1>1. IInv => TypeOK
  BY DEF IInv
<1> QED BY <1>1, Inductive, PTL

(* No job is queued twice, held by two workers, or queued while a worker    *)
(* holds it: Queue.Claim hands every job to one worker, once.               *)
THEOREM EveryJobClaimedOnce == Spec => []ClaimedOnce
<1>1. IInv => ClaimedOnce
  BY DEF IInv, ClaimsOK
<1> QED BY <1>1, Inductive, PTL

(* finalizeScanIfComplete never finishes a scan that has a job in flight,   *)
(* nothing puts one in flight afterwards, and PersistJobResult leaves no    *)
(* scan open whose jobs are all closed.                                     *)
THEOREM ScansEndWithTheirJobs == Spec => []ScanEndsWithItsJobs
<1>1. IInv => ScanEndsWithItsJobs
  BY DEF IInv, ScanEndsWithItsJobs
<1> QED BY <1>1, Inductive, PTL

(* One step: a finished scan keeps its status and counts, because only       *)
(* persist and the two sweeps write them, and they test for a final status   *)
(* first.                                                                    *)
LEMMA FinalStep ==
  ASSUME IInv, Next, NEW s \in Scans, Terminal(s)
  PROVE  scanStatus'[s] = scanStatus[s] /\ counts'[s] = counts[s]
<1> DEFINE Kept == scanStatus'[s] = scanStatus[s] /\ counts'[s] = counts[s]
<1> USE LifecycleAssumption DEF IInv
<1>0. scanStatus[s] # "none" /\ ~Open(s)
  BY DEF Terminal, Open, InFlight
<1>1. ASSUME NEW t \in Scans, Charge(t) \/ ApiStep(t) \/ ApiCrash(t) \/ CancelScan(t) PROVE Kept
  <2>1. CASE InsertScan(t)
    <3>1. scanStatus[t] = "none"
      BY <2>1 DEF InsertScan, RowsOK, ScanRowOK
    <3> QED BY <1>0, <2>1, <3>1 DEF InsertScan, TypeOK
  <2>2. CASE ~InsertScan(t)
    BY <1>1, <2>2 DEF Charge, ApiStep, InsertJob, Enqueue, RefundRest, ApiCrash,
                      CancelScan, dbVars
  <2> QED BY <2>1, <2>2
<1>2. ASSUME NEW a \in Actors, Persist(a) PROVE Kept
  <2>1. \/ UNCHANGED <<scanStatus, counts>>
        \/ \E t \in Scans : /\ Open(t)
                            /\ \E x : scanStatus' = [scanStatus EXCEPT ![t] = x]
                            /\ \E x : counts' = [counts EXCEPT ![t] = x]
    BY <1>2, PersistCases DEF Persist, Finalizes
  <2> QED BY <1>0, <2>1 DEF TypeOK
<1>3. ASSUME NEW z \in Sweepers, FinalizeStuck(z) PROVE Kept
  <2>1. \/ UNCHANGED <<scanStatus, counts>>
        \/ \E t \in Scans : /\ Open(t)
                            /\ \E x : scanStatus' = [scanStatus EXCEPT ![t] = x]
                            /\ \E x : counts' = [counts EXCEPT ![t] = x]
    <3>1. stuckTodo[z] \subseteq Scans
      BY DEF TypeOK, Actors
    <3> QED BY <1>3, <3>1 DEF FinalizeStuck, Finalizes
  <2> QED BY <1>0, <2>1 DEF TypeOK
<1>4. ASSUME NEW w \in Workers, MarkStarted(w) PROVE Kept
  <2>1. \A t \in Scans : scanStatus'[t] = scanStatus[t] \/ scanStatus[t] = "queued"
    BY <1>4 DEF MarkStarted, TypeOK
  <2> QED BY <1>4, <2>1 DEF MarkStarted, Terminal
<1>5. ASSUME NEW a \in Actors, Refund(a) \/ Score(a) \/ Tell(a) \/ Crash(a) PROVE Kept
  BY <1>5 DEF Refund, Score, Tell, Crash, dbVars
<1>6. ASSUME NEW w \in Workers, WorkerStep(w) PROVE Kept
  <2>1. w \in Actors
    BY DEF Actors
  <2>2. CASE Claim(w) \/ Load(w) \/ MarkRunning(w) \/ Prepare(w) \/ RunEngine(w) \/ Ack(w)
    BY <2>2 DEF Claim, Load, MarkRunning, Prepare, RunEngine, Ack, dbVars
  <2> QED BY <1>2, <1>4, <1>5, <1>6, <2>1, <2>2 DEF WorkerStep
<1>7. ASSUME NEW z \in Sweepers, SweeperStep(z) PROVE Kept
  <2>1. z \in Actors
    BY DEF Actors
  <2>2. CASE ListOrphans(z) \/ SweepOne(z) \/ ListStuck(z)
    BY <2>2 DEF ListOrphans, SweepOne, ListStuck, dbVars
  <2> QED BY <1>2, <1>3, <1>5, <1>7, <2>1, <2>2 DEF SweeperStep
<1>8. (\E j \in Jobs : AgeOut(j)) \/ RedisFlush => Kept
  BY DEF AgeOut, RedisFlush, dbVars
<1> QED BY <1>1, <1>5, <1>6, <1>7, <1>8 DEF Next

(* A finished scan keeps its status and its counts, whichever worker,       *)
(* sweeper or cancel request comes after the first finaliser.               *)
THEOREM FinishedForGood == Spec => FinishedScanIsFinal
<1>1. IInv /\ [Next]_vars =>
        [\A s \in Scans : Terminal(s) =>
           scanStatus'[s] = scanStatus[s] /\ counts'[s] = counts[s]]_vars
  BY FinalStep
<1> QED BY <1>1, Inductive, PTL DEF Spec, FinishedScanIsFinal

=============================================================================
