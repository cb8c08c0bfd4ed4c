------------------------ MODULE WorkerServices_proofs -----------------------
(***************************************************************************)
(* Proofs about what a worker shares among its jobs and what becomes of    *)
(* them there: the workspace with a repository's clone (Workspace), for    *)
(* any scans and any finite number of jobs; the sandboxes its tools run    *)
(* in, in a cluster (Sandboxes) or on a Docker host (Docker), for any      *)
(* processes and runs, any number of starts, crashes and failed calls; and *)
(* the findings of a pentest on their way to their rows (Pentest), for any *)
(* that its stages can come by.                                            *)
(***************************************************************************)
EXTENDS Workspace, Sandboxes, Docker, Pentest, FiniteSetTheorems, TLAPS

-----------------------------------------------------------------------------
(***************************************************************************)
(* The workspace.  SharedClone is about what a reader finds on disk; what  *)
(* keeps it there is a counter.  So the invariant says what the counter    *)
(* counts (CountsOK: the jobs that joined a workspace and have not released*)
(* it), that a workspace somebody holds is the one its scan's jobs join    *)
(* (HoldersOK), and which directories are on disk (DisksOK).  One lemma per*)
(* action shows that it keeps all of it.                                   *)
(***************************************************************************)

\* Where a job stands between its acquire and its release
Holding == {"cloning", "waiting", "reading", "dropping"}

\* The jobs that joined w and have not released it
Holders(w) == {k \in RepoJobs : joined[k] = w /\ jobAt[k] \in Holding}

\* Every variable has its type; a count is only known to be a number before it is
\* known what it counts.
TypesOK ==
    /\ byScan \in [ClonedScans -> RepoJobs \cup {NoJob}]
    /\ refCount \in [RepoJobs -> Nat]
    /\ clone \in [RepoJobs -> {"none", "preparing", "ok", "failed"}]
    /\ jobAt \in [RepoJobs -> JobPlaces]
    /\ joined \in [RepoJobs -> RepoJobs \cup {NoJob}]
    /\ disk \subseteq RepoJobs
    /\ procState \in {"up", "stopping", "crashed"}

CountsOK == \A w \in RepoJobs : refCount[w] = Cardinality(Holders(w))

\* What a job's place says of the workspace it joined
JobOK(j) ==
    /\ jobAt[j] = "start" => joined[j] = NoJob /\ clone[j] = "none"
    /\ jobAt[j] = "cloning" => joined[j] = j /\ clone[j] = "preparing"
    /\ clone[j] = "preparing" => jobAt[j] = "cloning"
    /\ jobAt[j] = "reading" => clone[joined[j]] = "ok"
    /\ jobAt[j] = "removing" =>
         joined[j] \in RepoJobs /\ Holders(joined[j]) = {} /\ clone[joined[j]] = "ok"
JobsOK == \A j \in RepoJobs : JobOK(j)

\* A workspace somebody holds is its scan's entry, and an entry is held.
HoldersOK ==
    /\ \A j \in RepoJobs : jobAt[j] \in Holding =>
         joined[j] \in RepoJobs /\ byScan[ScanOf[j]] = joined[j]
    /\ \A s \in ClonedScans : byScan[s] # NoJob =>
         Holders(byScan[s]) # {} /\ ScanOf[byScan[s]] = s /\ clone[byScan[s]] # "none"

\* A clone that is held is on disk, and what is on disk is held or about to go.
DiskOK(w) ==
    /\ clone[w] = "ok" /\ Holders(w) # {} => w \in disk
    /\ w \in disk =>
         /\ clone[w] \in {"preparing", "ok"}
         /\ Holders(w) # {} \/ \E k \in RepoJobs : jobAt[k] = "removing" /\ joined[k] = w
DisksOK == \A w \in RepoJobs : DiskOK(w)

WsInv == TypesOK /\ CountsOK /\ JobsOK /\ HoldersOK /\ DisksOK

-----------------------------------------------------------------------------
(***************************************************************************)
(* What a step does to the holders of a workspace.                         *)
(***************************************************************************)

(* A workspace has finitely many holders. *)
LEMMA FewHolders ==
  ASSUME NEW w
  PROVE  IsFiniteSet(Holders(w)) /\ Cardinality(Holders(w)) \in Nat
<1>1. Holders(w) \in SUBSET RepoJobs
  BY DEF Holders
<1> QED BY <1>1, WorkspaceAssumption, FS_Subset, FS_CardinalityType

(* acquire: a job that held nothing becomes one more holder of w. *)
LEMMA Joining ==
  ASSUME TypesOK, NEW j \in RepoJobs, jobAt[j] = "start", NEW w \in RepoJobs,
         NEW place \in Holding,
         joined' = [joined EXCEPT ![j] = w], jobAt' = [jobAt EXCEPT ![j] = place]
  PROVE  /\ \A v : v # w => Holders(v)' = Holders(v)
         /\ Holders(w)' = Holders(w) \cup {j}
         /\ Cardinality(Holders(w)') = Cardinality(Holders(w)) + 1
<1>1. \A v : v # w => Holders(v)' = Holders(v)
  BY DEF TypesOK, Holders, Holding
<1>2. Holders(w)' = Holders(w) \cup {j} /\ j \notin Holders(w)
  BY DEF TypesOK, Holders, Holding
<1> QED BY <1>1, <1>2, FewHolders, FS_AddElement

(* releaseRef: a job that held a workspace is no longer one of its holders. *)
LEMMA Leaving ==
  ASSUME TypesOK, NEW j \in RepoJobs, jobAt[j] \in Holding, joined' = joined,
         NEW place \in JobPlaces \ Holding, jobAt' = [jobAt EXCEPT ![j] = place]
  PROVE  /\ \A v : v # joined[j] => Holders(v)' = Holders(v)
         /\ Holders(joined[j])' = Holders(joined[j]) \ {j}
         /\ j \in Holders(joined[j])
         /\ Cardinality(Holders(joined[j])') = Cardinality(Holders(joined[j])) - 1
<1> DEFINE w == joined[j]
<1>1. \A v : v # w => Holders(v)' = Holders(v)
  BY DEF TypesOK, Holders, Holding
<1>2. Holders(w)' = Holders(w) \ {j} /\ j \in Holders(w)
  BY DEF TypesOK, Holders, Holding
<1>3. Cardinality(Holders(w) \ {j}) = Cardinality(Holders(w)) - 1
  BY <1>2, FewHolders, FS_RemoveElement
<1> QED BY <1>1, <1>2, <1>3

(* A job that goes from one place to another and holds on, or held nothing and  *)
(* takes nothing, changes no holders.                                         *)
LEMMA Staying ==
  ASSUME TypesOK, NEW j \in RepoJobs, NEW place, jobAt[j] \in Holding <=> place \in Holding,
         joined' = joined, jobAt' = [jobAt EXCEPT ![j] = place]
  PROVE  \A v : Holders(v)' = Holders(v)
BY DEF TypesOK, Holders

-----------------------------------------------------------------------------
(***************************************************************************)
(* The initial states, and one lemma for each action.                      *)
(***************************************************************************)

LEMMA InitInv == WsInit => WsInv
<1> SUFFICES ASSUME WsInit PROVE WsInv
  OBVIOUS
<1> USE WorkspaceAssumption DEF WsInit
<1>1. TypesOK
  BY DEF TypesOK, JobPlaces
<1>2. \A w : Holders(w) = {}
  BY DEF Holders, Holding
<1>3. CountsOK
  BY <1>2, FS_EmptySet DEF CountsOK
<1>4. JobsOK /\ HoldersOK /\ DisksOK
  BY <1>2 DEF JobsOK, JobOK, HoldersOK, DisksOK, DiskOK, Holding
<1> QED BY <1>1, <1>3, <1>4 DEF WsInv

LEMMA CreateEntryInv ==
  ASSUME WsInv, NEW j \in RepoJobs, CreateEntry(j)
  PROVE  WsInv'
<1> USE WorkspaceAssumption DEF WsInv, CreateEntry
<1>0. ScanOf[j] \in ClonedScans
  OBVIOUS
<1>1. TypesOK'
  <2>1. byScan' \in [ClonedScans -> RepoJobs \cup {NoJob}]
    BY <1>0 DEF TypesOK
  <2>2. refCount' \in [RepoJobs -> Nat] /\ joined' \in [RepoJobs -> RepoJobs \cup {NoJob}]
    BY DEF TypesOK
  <2> QED BY <2>1, <2>2 DEF TypesOK, JobPlaces
<1>2. /\ \A v : v # j => Holders(v)' = Holders(v)
      /\ Holders(j)' = Holders(j) \cup {j}
      /\ Cardinality(Holders(j)') = Cardinality(Holders(j)) + 1
  BY Joining DEF Holding
<1>3. CountsOK'
  BY <1>2 DEF CountsOK, TypesOK
<1>4. \A k \in RepoJobs : joined[k] # j \/ jobAt[k] \notin Holding \cup {"removing"}
  <2>1. SUFFICES ASSUME NEW k \in RepoJobs, joined[k] = j, jobAt[k] \in Holding \cup {"removing"}
                 PROVE  FALSE
    OBVIOUS
  <2>3. CASE jobAt[k] \in Holding
    <3>1. ScanOf[k] \in ClonedScans /\ byScan[ScanOf[k]] = j
      BY <2>1, <2>3 DEF HoldersOK
    <3> QED BY <3>1 DEF HoldersOK
  <2>4. CASE jobAt[k] = "removing"
    BY <2>1, <2>4 DEF JobsOK, JobOK
  <2> QED BY <2>1, <2>3, <2>4
<1>5. JobsOK'
  BY <1>2, <1>4 DEF JobsOK, JobOK, TypesOK, HoldersOK, Holding
<1>6. HoldersOK'
  <2>1. ASSUME NEW k \in RepoJobs, jobAt'[k] \in Holding
        PROVE  joined'[k] \in RepoJobs /\ byScan'[ScanOf[k]] = joined'[k]
    <3>1. CASE k = j
      BY <3>1 DEF TypesOK
    <3>2. CASE k # j
      <4>1. jobAt[k] \in Holding /\ joined'[k] = joined[k]
        BY <2>1, <3>2 DEF TypesOK
      <4>2. joined[k] \in RepoJobs /\ byScan[ScanOf[k]] = joined[k]
        BY <4>1 DEF HoldersOK
      <4>3. ScanOf[k] # ScanOf[j]
        BY <4>2
      <4> QED BY <4>1, <4>2, <4>3 DEF TypesOK
    <3> QED BY <3>1, <3>2
  <2>2. ASSUME NEW s \in ClonedScans, byScan'[s] # NoJob
        PROVE  Holders(byScan[s])' # {} /\ ScanOf[byScan'[s]] = s /\ clone'[byScan'[s]] # "none"
    <3>1. CASE s = ScanOf[j]
      BY <1>2, <3>1 DEF TypesOK
    <3>2. CASE s # ScanOf[j]
      <4>1. byScan'[s] = byScan[s] /\ byScan[s] \in RepoJobs
        BY <2>2, <3>2 DEF TypesOK
      <4>2. Holders(byScan[s]) # {} /\ ScanOf[byScan[s]] = s /\ clone[byScan[s]] # "none"
        BY <2>2, <4>1 DEF HoldersOK
      <4>3. byScan[s] # j
        BY <4>2
      <4> QED BY <1>2, <4>1, <4>2, <4>3 DEF TypesOK
    <3> QED BY <3>1, <3>2
  <2> QED BY <2>1, <2>2 DEF HoldersOK
<1>7. ASSUME NEW w \in RepoJobs PROVE DiskOK(w)'
  <2>1. CASE w = j
    BY <1>2, <1>4, <2>1 DEF DisksOK, DiskOK, JobsOK, JobOK, TypesOK
  <2>2. CASE w # j
    BY <1>2, <2>2 DEF DisksOK, DiskOK, TypesOK
  <2> QED BY <2>1, <2>2
<1> QED BY <1>1, <1>3, <1>5, <1>6, <1>7 DEF DisksOK

LEMMA JoinEntryInv ==
  ASSUME WsInv, NEW j \in RepoJobs, JoinEntry(j)
  PROVE  WsInv'
<1> DEFINE w == byScan[ScanOf[j]]
<1> USE WorkspaceAssumption DEF WsInv, JoinEntry
<1>0. w \in RepoJobs /\ w # NoJob /\ Holders(w) # {} /\ ScanOf[w] = ScanOf[j]
  <2>1. ScanOf[j] \in ClonedScans /\ w # NoJob
    OBVIOUS
  <2> QED BY <2>1 DEF HoldersOK, TypesOK
<1>1. TypesOK'
  BY <1>0 DEF TypesOK, JobPlaces
<1>2. /\ \A v : v # w => Holders(v)' = Holders(v)
      /\ Holders(w)' = Holders(w) \cup {j}
      /\ Cardinality(Holders(w)') = Cardinality(Holders(w)) + 1
  BY <1>0, Joining DEF Holding
<1>3. CountsOK'
  BY <1>0, <1>2 DEF CountsOK, TypesOK
<1>4. ASSUME NEW k \in RepoJobs PROVE JobOK(k)'
  <2>1. CASE k = j
    BY <1>0, <2>1 DEF JobsOK, JobOK, TypesOK
  <2>2. CASE k # j
    <3>1. jobAt'[k] = jobAt[k] /\ joined'[k] = joined[k]
      BY <2>2 DEF TypesOK
    <3> QED BY <1>0, <1>2, <3>1 DEF JobsOK, JobOK
  <2> QED BY <2>1, <2>2
<1>5. HoldersOK'
  BY <1>0, <1>2 DEF HoldersOK, TypesOK, Holding
<1>6. DisksOK'
  BY <1>0, <1>2 DEF DisksOK, DiskOK, TypesOK
<1> QED BY <1>1, <1>3, <1>4, <1>5, <1>6 DEF JobsOK

LEMMA MakeDirectoryInv ==
  ASSUME WsInv, NEW j \in RepoJobs, MakeDirectory(j)
  PROVE  WsInv'
<1> USE DEF WsInv, MakeDirectory
<1>1. \A w : Holders(w)' = Holders(w)
  BY DEF Holders
<1>2. TypesOK' /\ CountsOK' /\ JobsOK' /\ HoldersOK'
  BY <1>1 DEF TypesOK, CountsOK, JobsOK, JobOK, HoldersOK
<1>3. j \in Holders(j) /\ clone[j] = "preparing"
  BY DEF JobsOK, JobOK, Holders, Holding
<1>4. DisksOK'
  BY <1>1, <1>3 DEF DisksOK, DiskOK
<1> QED BY <1>2, <1>4

LEMMA FinishCloneInv ==
  ASSUME WsInv, NEW j \in RepoJobs, NEW result \in {"ok", "failed"}, FinishClone(j, result)
  PROVE  WsInv'
<1> USE DEF WsInv, FinishClone, AfterPrepare
<1>1. \A w : Holders(w)' = Holders(w)
  <2>1. jobAt[j] \in Holding /\ AfterPrepare(result) \in Holding
    BY DEF Holding
  <2> QED BY <2>1, Staying
<1>2. TypesOK' /\ CountsOK' /\ HoldersOK'
  BY <1>1 DEF TypesOK, CountsOK, HoldersOK, Holding, JobPlaces
<1>3. j \in Holders(j) /\ clone[j] = "preparing" /\ joined[j] = j
  BY DEF JobsOK, JobOK, Holders, Holding
<1>4. JobsOK'
  BY <1>1, <1>3 DEF JobsOK, JobOK, TypesOK
<1>5. DisksOK'
  BY <1>1, <1>3 DEF DisksOK, DiskOK, TypesOK
<1> QED BY <1>2, <1>4, <1>5

LEMMA WaitingInv ==
  ASSUME WsInv, NEW j \in RepoJobs, TakeOutcome(j) \/ GiveUpWaiting(j)
  PROVE  WsInv'
<1> USE DEF WsInv, TakeOutcome, GiveUpWaiting, AfterPrepare, AfterGivingUp, IsReady
<1>0. PICK place \in {"reading", "dropping"} :
        jobAt' = [jobAt EXCEPT ![j] = place] /\ (place = "reading" => clone[joined[j]] = "ok")
  OBVIOUS
<1>1. \A w : Holders(w)' = Holders(w)
  <2>1. jobAt[j] \in Holding /\ place \in Holding
    BY DEF Holding
  <2> QED BY <1>0, <2>1, Staying
<1>2. TypesOK' /\ CountsOK' /\ HoldersOK'
  BY <1>0, <1>1 DEF TypesOK, CountsOK, HoldersOK, Holding, JobPlaces
<1>3. JobsOK'
  BY <1>0, <1>1 DEF JobsOK, JobOK, TypesOK
<1>4. DisksOK'
  BY <1>0, <1>1 DEF DisksOK, DiskOK, TypesOK
<1> QED BY <1>2, <1>3, <1>4

LEMMA ReleaseRefInv ==
  ASSUME WsInv, NEW j \in RepoJobs, ReleaseRef(j)
  PROVE  WsInv'
<1> DEFINE w == joined[j]
           place == IF Removes(j) THEN "removing" ELSE "done"
<1> USE WorkspaceAssumption DEF WsInv, ReleaseRef, Removes, Unlists, IsLast, AfterRelease
<1>0. w \in RepoJobs /\ byScan[ScanOf[j]] = w /\ jobAt[j] \in Holding
  BY DEF HoldersOK, Holding
<1>1. /\ \A v : v # w => Holders(v)' = Holders(v)
      /\ Holders(w)' = Holders(w) \ {j}
      /\ j \in Holders(w)
      /\ Cardinality(Holders(w)') = Cardinality(Holders(w)) - 1
  <2>1. place \in JobPlaces \ Holding /\ jobAt' = [jobAt EXCEPT ![j] = place]
    BY DEF JobPlaces, Holding
  <2> QED BY <1>0, <2>1, Leaving
<1>2. refCount[w] \in Nat /\ refCount[w] = Cardinality(Holders(w)) /\ refCount[w] # 0
  BY <1>0, <1>1, FewHolders, FS_EmptySet DEF CountsOK
<1>3. IsLast(w) <=> Holders(w)' = {}
  <2>1. Cardinality(Holders(w)') = refCount[w] - 1 /\ IsFiniteSet(Holders(w)')
    BY <1>1, <1>2, FewHolders, FS_RemoveElement
  <2> QED BY <1>2, <2>1, FS_EmptySet
<1>4. TypesOK'
  <2>1. ScanOf[j] \in ClonedScans /\ refCount[w] - 1 \in Nat
    BY <1>2
  <2>2. byScan' \in [ClonedScans -> RepoJobs \cup {NoJob}]
    BY <2>1 DEF TypesOK
  <2>3. refCount' \in [RepoJobs -> Nat]
    BY <1>0, <2>1 DEF TypesOK
  <2> QED BY <2>2, <2>3 DEF TypesOK, JobPlaces
<1>5. CountsOK'
  BY <1>0, <1>1, <1>2 DEF CountsOK, TypesOK
<1>6. ~Removes(j) /\ IsLast(w) => clone[w] = "failed"
  <2>1. clone[w] = "preparing" => w \in Holders(w) /\ w # j
    BY <1>0 DEF JobsOK, JobOK, Holders, Holding
  <2>2. clone[w] # "none"
    <3>1. ScanOf[j] \in ClonedScans /\ w # NoJob
      BY <1>0
    <3> QED BY <1>0, <3>1 DEF HoldersOK
  <2> QED BY <1>0, <1>1, <1>3, <2>1, <2>2 DEF TypesOK
<1>7. /\ jobAt' = [jobAt EXCEPT ![j] = place] /\ place \in {"removing", "done"}
      /\ \A k \in RepoJobs : k # j => jobAt'[k] = jobAt[k]
      /\ jobAt'[j] = place
  BY DEF TypesOK
<1>8. ASSUME NEW k \in RepoJobs PROVE JobOK(k)'
  <2>1. clone[j] # "preparing"
    BY <1>0 DEF JobsOK, JobOK, ReleaseRef
  <2>2. CASE k = j
    BY <1>0, <1>3, <1>7, <2>1, <2>2 DEF JobsOK, JobOK
  <2>3. CASE k # j
    BY <1>1, <1>7, <2>3 DEF JobsOK, JobOK
  <2> QED BY <2>2, <2>3
<1>9. HoldersOK'
  <2>1. ASSUME NEW k \in RepoJobs, jobAt'[k] \in Holding
        PROVE  joined[k] \in RepoJobs /\ byScan'[ScanOf[k]] = joined[k]
    <3>1. k # j /\ jobAt[k] \in Holding
      BY <1>7, <2>1 DEF Holding
    <3>2. joined[k] \in RepoJobs /\ byScan[ScanOf[k]] = joined[k]
      BY <3>1 DEF HoldersOK
    <3>3. ScanOf[k] = ScanOf[j] => k \in Holders(w)'
      BY <1>0, <1>1, <3>1, <3>2 DEF Holders
    <3> QED BY <1>3, <3>2, <3>3 DEF TypesOK
  <2>2. ASSUME NEW s \in ClonedScans, byScan'[s] # NoJob
        PROVE  Holders(byScan[s])' # {} /\ ScanOf[byScan'[s]] = s /\ clone'[byScan'[s]] # "none"
    <3>1. byScan'[s] = byScan[s] /\ (s = ScanOf[j] => ~IsLast(w))
      BY <1>0, <2>2 DEF TypesOK
    <3>2. Holders(byScan[s]) # {} /\ ScanOf[byScan[s]] = s /\ clone[byScan[s]] # "none"
      BY <2>2, <3>1 DEF HoldersOK
    <3>5. byScan[s] = w => s = ScanOf[j]
      <4>1. ScanOf[j] \in ClonedScans /\ byScan[ScanOf[j]] # NoJob
        BY <1>0
      <4>2. ScanOf[w] = ScanOf[j]
        BY <1>0, <4>1 DEF HoldersOK
      <4> QED BY <3>2, <4>2
    <3> QED BY <1>1, <1>3, <3>1, <3>2, <3>5
  <2> QED BY <2>1, <2>2 DEF HoldersOK
<1>10. ASSUME NEW v \in RepoJobs PROVE DiskOK(v)'
  <2>1. CASE v # w
    BY <1>1, <1>7, <2>1 DEF DisksOK, DiskOK
  <2>2. CASE v = w
    BY <1>0, <1>1, <1>3, <1>6, <1>7, <2>2 DEF DisksOK, DiskOK
  <2> QED BY <2>1, <2>2
<1> QED BY <1>4, <1>5, <1>8, <1>9, <1>10 DEF JobsOK, DisksOK

LEMMA RemoveDirectoryInv ==
  ASSUME WsInv, NEW j \in RepoJobs, RemoveDirectory(j)
  PROVE  WsInv'
<1> USE DEF WsInv, RemoveDirectory
<1>1. \A w : Holders(w)' = Holders(w)
  <2>1. jobAt[j] \notin Holding /\ "done" \notin Holding
    BY DEF Holding
  <2> QED BY <2>1, Staying
<1>2. TypesOK' /\ CountsOK' /\ HoldersOK'
  BY <1>1 DEF TypesOK, CountsOK, HoldersOK, Holding, JobPlaces
<1>3. joined[j] \in RepoJobs /\ Holders(joined[j]) = {}
  BY DEF JobsOK, JobOK
<1>4. JobsOK'
  BY <1>1 DEF JobsOK, JobOK, TypesOK
<1>5. DisksOK'
  BY <1>1, <1>3 DEF DisksOK, DiskOK, TypesOK
<1> QED BY <1>2, <1>4, <1>5

LEMMA StopInv == WsInv /\ (Stop \/ UNCHANGED WsVars) => WsInv'
<1> SUFFICES ASSUME WsInv, Stop \/ UNCHANGED WsVars PROVE WsInv'
  OBVIOUS
<1> USE DEF WsInv, Stop, WsVars
<1>1. \A w : Holders(w)' = Holders(w)
  BY DEF Holders
<1> QED BY <1>1 DEF TypesOK, CountsOK, JobsOK, JobOK, HoldersOK, DisksOK, DiskOK

-----------------------------------------------------------------------------
(***************************************************************************)
(* Theorems                                                                *)
(***************************************************************************)

(* The counter of every workspace counts its holders, its holders share it, *)
(* and its directory is there as long as they are, in every process.        *)
THEOREM WorkspaceInductive == WsSpec => []WsInv
<1>1. WsInit => WsInv
  BY InitInv
<1>2. WsInv /\ [WsNext]_WsVars => WsInv'
  BY CreateEntryInv, JoinEntryInv, MakeDirectoryInv, FinishCloneInv, WaitingInv,
     ReleaseRefInv, RemoveDirectoryInv, StopInv DEF WsNext, WsAcquire, WsStep
<1> QED BY <1>1, <1>2, PTL DEF WsSpec

(* Every variable has its type; no count exceeds the jobs of the process.   *)
THEOREM WorkspaceTypes == WsSpec => []WsTypeOK
<1>1. WsInv => WsTypeOK
  <2>1. \A w : Cardinality(Holders(w)) <= Cardinality(RepoJobs) /\ Cardinality(RepoJobs) \in Nat
    <3>1. \A w : Holders(w) \in SUBSET RepoJobs
      BY DEF Holders
    <3> QED BY <3>1, WorkspaceAssumption, FS_Subset, FS_CardinalityType
  <2> QED BY <2>1 DEF WsInv, TypesOK, CountsOK, WsTypeOK
<1> QED BY <1>1, WorkspaceInductive, PTL

(* Whoever reads a clone reads one that is there, the jobs of a scan read the *)
(* same, and the last of them removes it: however acquires, failed clones,    *)
(* cancelled waits and releases interleave (workspaceCache, workspace.go).    *)
THEOREM CloneIsShared == WsSpec => []SharedClone
<1>1. WsInv => ReadersHaveTheClone
  <2> SUFFICES ASSUME WsInv, NEW j \in RepoJobs, jobAt[j] = "reading" PROVE joined[j] \in disk
    BY DEF ReadersHaveTheClone
  <2>1. joined[j] \in RepoJobs /\ clone[joined[j]] = "ok"
    BY DEF WsInv, JobsOK, JobOK, HoldersOK, Holding
  <2>2. j \in Holders(joined[j])
    BY DEF Holders, Holding
  <2> QED BY <2>1, <2>2 DEF WsInv, DisksOK, DiskOK
<1>2. WsInv => OneCloneForAll
  BY DEF WsInv, HoldersOK, Holding, OneCloneForAll
<1>3. WsInv => OnlyACrashLeavesAClone
  <2> SUFFICES ASSUME WsInv, \A j \in RepoJobs : jobAt[j] \in {"start", "done"}
               PROVE  disk = {} /\ \A s \in ClonedScans : byScan[s] = NoJob
    BY DEF OnlyACrashLeavesAClone
  <2>1. \A w : Holders(w) = {}
    BY DEF Holders, Holding
  <2> QED BY <2>1 DEF WsInv, DisksOK, DiskOK, HoldersOK, TypesOK
<1> QED BY <1>1, <1>2, <1>3, WorkspaceInductive, PTL DEF SharedClone

-----------------------------------------------------------------------------
(***************************************************************************)
(* The sandboxes.  The invariant says where the objects of a run can be: a *)
(* run in flight has those it has counted (LeftOK), in the order in which  *)
(* they are made, so that a script's Job is there only behind its policy   *)
(* (FenceOK, JobBehindFence); a pod that runs has a Job, and the Job of a  *)
(* script comes last (PodOK); what a crash has left is what the process it *)
(* belonged to has yet to sweep (ToBeSwept); and a process that sweeps has *)
(* no run in flight (IdleOK).                                              *)
(***************************************************************************)

Kinds == {"job", "config", "policy"}

\* Is the object of this kind of run r there, and not on its way out?
There(r, kind) ==
    \/ kind = "job" /\ job[r] = "active"
    \/ kind = "config" /\ r \in config
    \/ kind = "policy" /\ r \in policy

\* A process at this point of its start will still come to the objects of a kind.
ToBeSwept(at, kind) ==
    \/ at \in {"down", "job"}
    \/ at = "config" /\ kind # "job"
    \/ at = "policy" /\ kind = "policy"

\* What a Job owns goes with the Job, and is nobody's to sweep.
Owned(r, kind) == kind = "config" /\ r \in JobFirst

IdleOK == \A r \in ToolRuns : process[RunBy[r]] # "up" => ~InFlight(r)

\* How many objects a run has made
CountOK(r) ==
    /\ run[r].at = "idle" => run[r].made = 0
    /\ run[r].at = "making" => run[r].made < Len(Objects(r))
    /\ run[r].at = "waiting" => run[r].made = Len(Objects(r))
    /\ run[r].at = "unmaking" => run[r].made <= Len(Objects(r))

\* What is there of a run that no failed call has struck
LeftOK(r) ==
    r \in leaked \/
    \A kind \in Kinds : There(r, kind) =>
        \/ InFlight(r) /\ \E n \in 1 .. run[r].made : Objects(r)[n] = kind
        \/ run[r].at = "lost" /\ (Owned(r, kind) \/ ToBeSwept(process[RunBy[r]], kind))

\* A run that has counted its policy has it.
FenceOK(r) ==
    (InFlight(r) /\ \E n \in 1 .. run[r].made : Objects(r)[n] = "policy")
       => r \in policy \cup disturbed \cup leaked

JobBehindFence(r) == r \in Fenced /\ job[r] = "active" => r \in policy \cup disturbed \cup leaked

\* A pod runs for a Job, which a script does not have before it waits for it.
PodOK(r) ==
    /\ pod[r] = "running" => job[r] # "none"
    /\ r \in Fenced /\ run[r].at \in {"idle", "making"} => job[r] = "none"

\* All of it, of one run
RunOK(r) == CountOK(r) /\ LeftOK(r) /\ FenceOK(r) /\ JobBehindFence(r) /\ PodOK(r)

SbInv == SbTypeOK /\ IdleOK /\ \A r \in ToolRuns : RunOK(r)

-----------------------------------------------------------------------------
(***************************************************************************)
(* What a run makes, and runs that a step leaves alone.                    *)
(***************************************************************************)

(* One to three objects, of different kinds; a script's policy comes before its Job,
   which is the last.                                                         *)
LEMMA ObjectsAre ==
  ASSUME NEW r \in ToolRuns
  PROVE  /\ Len(Objects(r)) \in 1 .. 3
         /\ \A n \in 1 .. Len(Objects(r)) : Objects(r)[n] \in Kinds
         /\ \A m, n \in 1 .. Len(Objects(r)) : Objects(r)[m] = Objects(r)[n] => m = n
         /\ r \in Fenced =>
              /\ \A n \in 1 .. Len(Objects(r)) : Objects(r)[n] = "job" <=> n = Len(Objects(r))
              /\ \E n \in 1 .. Len(Objects(r)) - 1 : Objects(r)[n] = "policy"
<1>1. r \in JobFirst => r \notin Fenced
  BY SandboxesAssumption
<1> QED BY <1>1 DEF Objects, Kinds

(* A run that stands where it stood, and of which no more is there, is as       *)
(* right as it was.                                                           *)
LEMMA Untouched ==
  ASSUME NEW r \in ToolRuns, RunOK(r), run'[r] = run[r],
         process'[RunBy[r]] = process[RunBy[r]] \/ InFlight(r) \/ \A kind \in Kinds : ~There(r, kind),
         job'[r] = "active" => job[r] = "active", job[r] = "none" => job'[r] = "none",
         pod'[r] = "running" => job'[r] # "none",
         r \in config' => r \in config, r \in policy' <=> r \in policy,
         leaked \subseteq leaked', disturbed \subseteq disturbed'
  PROVE  RunOK(r)'
<1>1. CountOK(r)' /\ FenceOK(r)' /\ JobBehindFence(r)' /\ PodOK(r)'
  BY DEF RunOK, CountOK, FenceOK, JobBehindFence, PodOK, InFlight, Objects
<1>2. LeftOK(r)'
  <2>1. \A kind \in Kinds : There(r, kind)' => There(r, kind)
    BY DEF There
  <2>2. Objects(r)' = Objects(r) /\ InFlight(r)' = InFlight(r)
    BY DEF InFlight, Objects
  <2> QED BY <2>1, <2>2 DEF RunOK, LeftOK, Owned, InFlight
<1> QED BY <1>1, <1>2 DEF RunOK

-----------------------------------------------------------------------------
(***************************************************************************)
(* Type correctness and idle processes                                     *)
(***************************************************************************)

(* Every variable keeps its type.                                             *)
LEMMA TypesNext ==
  ASSUME SbInv, SbNext
  PROVE  SbTypeOK'
<1> USE SandboxesAssumption DEF SbInv, SbTypeOK
<1>1. CASE \E r \in ToolRuns : SbRun(r)
  <2> PICK r \in ToolRuns : SbRun(r)
    BY <1>1
  <2>0. run[r].at = "making" => run[r].made + 1 \in 0 .. 3
    <3>1. run[r].at = "making" => run[r].made < Len(Objects(r))
      BY ONLY SbInv DEF SbInv, RunOK, CountOK
    <3>2. run[r].made \in 0 .. 3 /\ Len(Objects(r)) \in 1 .. 3
      BY ONLY SbInv, ObjectsAre DEF SbInv, SbTypeOK
    <3>3. \A m \in 0 .. 3, l \in 1 .. 3 : m < l => m + 1 \in 0 .. 3
      OBVIOUS
    <3> QED BY ONLY <3>1, <3>2, <3>3
  <2> USE DEF Cluster
  <2>1. CASE TakeSlot(r)
    <3>1. run' \in [ToolRuns -> [at : {"idle", "making", "waiting", "unmaking", "done", "lost"},
                                 made : 0 .. 3]]
      BY <2>1 DEF TakeSlot
    <3> QED BY <2>1, <3>1 DEF TakeSlot
  <2>2. CASE Make(r)
    <3>1. run' \in [ToolRuns -> [at : {"idle", "making", "waiting", "unmaking", "done", "lost"},
                                 made : 0 .. 3]]
      BY <2>0, <2>2 DEF Make
    <3> QED BY <2>2, <3>1 DEF Make, Appears
  <2>3. CASE PodSeen(r) \/ TimeOut(r) \/ PollFails(r)
    <3>1. \E result \in {"complete", "timedout", "error"} :
             /\ run' = [run EXCEPT ![r].at = "unmaking"]
             /\ outcome' = [outcome EXCEPT ![r] = result]
             /\ UNCHANGED <<process, Cluster, disturbed, leaked, starts>>
      BY <2>3 DEF PodSeen, TimeOut, PollFails, End
    <3>2. sbFaults' \in 0 .. MaxSbFaults
      BY <2>3 DEF PodSeen, TimeOut, PollFails
    <3>3. /\ run' \in [ToolRuns -> [at : {"idle", "making", "waiting", "unmaking", "done", "lost"},
                                     made : 0 .. 3]]
          /\ outcome' \in [ToolRuns -> {"none", "complete", "timedout", "error"}]
      BY <3>1
    <3> QED BY <3>1, <3>2, <3>3
  <2>4. CASE ReleaseSlot(r)
    BY <2>4 DEF ReleaseSlot
  <2>5. ASSUME NEW works \in BOOLEAN, Unmake(r, works)
        PROVE  SbTypeOK'
    BY <2>5 DEF Unmake
  <2>6. ASSUME NEW took \in BOOLEAN, MakeFails(r, took)
        PROVE  SbTypeOK'
    BY <2>6 DEF MakeFails, Appears
  <2> QED BY <2>1, <2>2, <2>3, <2>4, <2>5, <2>6 DEF SbRun
<1>2. CASE \E r \in ToolRuns : SbKubernetes(r)
  <2> PICK r \in ToolRuns : SbKubernetes(r)
    BY <1>2
  <2>1. CASE StartPod(r) \/ \E how \in {"ended", "gone"} : EndPod(r, how)
    BY <2>1 DEF StartPod, EndPod
  <2>2. CASE RemoveJob(r)
    BY <2>2 DEF RemoveJob
  <2>3. CASE CollectGarbage(r)
    BY <2>3 DEF CollectGarbage
  <2> QED BY <2>1, <2>2, <2>3 DEF SbKubernetes
<1>3. CASE \E p \in Processes :
             StartProcess(p) \/ Sweep(p) \/ \E some \in SUBSET Present(process[p]) : SweepFails(p, some)
  <2> PICK p \in Processes :
             StartProcess(p) \/ Sweep(p) \/ \E some \in SUBSET Present(process[p]) : SweepFails(p, some)
    BY <1>3
  <2>1. CASE StartProcess(p)
    BY <2>1 DEF StartProcess, Cluster
  <2>2. \A kind : Present(kind) \subseteq ToolRuns
    BY DEF Present
  <2>3. ASSUME NEW runs \in SUBSET ToolRuns, SweepAway(p, runs)
        PROVE  /\ job' \in [ToolRuns -> {"none", "active", "deleting"}]
               /\ config' \subseteq ToolRuns /\ policy' \subseteq ToolRuns
               /\ disturbed' \subseteq ToolRuns
    BY <2>3 DEF SweepAway
  <2>4. CASE Sweep(p)
    <3>1. process' \in [Processes -> {"down", "up", "job", "config", "policy"}]
      BY <2>4 DEF Sweep, AfterSweepOf
    <3> QED BY <2>2, <2>3, <2>4, <3>1 DEF Sweep
  <2>5. ASSUME NEW some \in SUBSET Present(process[p]), SweepFails(p, some)
        PROVE  SbTypeOK'
    <3>1. process' \in [Processes -> {"down", "up", "job", "config", "policy"}]
      BY <2>5 DEF SweepFails, AfterSweepOf
    <3>2. some \in SUBSET ToolRuns
      BY <2>2
    <3> QED BY <2>3, <2>5, <3>1, <3>2 DEF SweepFails
  <2> QED BY <2>1, <2>4, <2>5
<1>4. CASE \E p \in Processes : Crash(p)
  BY <1>4 DEF Crash, Cluster
<1> QED BY <1>1, <1>2, <1>3, <1>4 DEF SbNext

(* A process that is not up has no run in flight.                              *)
LEMMA IdleNext ==
  ASSUME SbInv, SbNext
  PROVE  IdleOK'
<1> USE SandboxesAssumption DEF SbInv, SbTypeOK, IdleOK, InFlight
<1>1. CASE \E r \in ToolRuns : SbRun(r)
  BY <1>1 DEF SbRun, TakeSlot, Make, Appears, PodSeen, TimeOut, ReleaseSlot, MakeFails, PollFails,
              End, Unmake, NotRun
<1>2. CASE \E r \in ToolRuns : SbKubernetes(r)
  BY <1>2 DEF SbKubernetes, StartPod, EndPod, RemoveJob, CollectGarbage
<1>3. CASE \E p \in Processes :
             StartProcess(p) \/ Sweep(p) \/ \E some \in SUBSET Present(process[p]) : SweepFails(p, some)
  BY <1>3 DEF StartProcess, Sweep, SweepFails, SweepAway
<1>4. CASE \E p \in Processes : Crash(p)
  BY <1>4 DEF Crash
<1> QED BY <1>1, <1>2, <1>3, <1>4 DEF SbNext

-----------------------------------------------------------------------------
(***************************************************************************)
(* The steps of a run                                                      *)
(***************************************************************************)

(* A step of one run leaves the others alone.                                  *)
LEMMA RunOthers ==
  ASSUME SbInv, NEW q \in ToolRuns, SbRun(q), NEW r \in ToolRuns \ {q}
  PROVE  RunOK(r)'
<1>1. /\ run'[r] = run[r] /\ process' = process
      /\ job'[r] = job[r] /\ (r \in config' <=> r \in config) /\ (r \in policy' <=> r \in policy)
      /\ pod'[r] = pod[r]
      /\ leaked \subseteq leaked' /\ disturbed \subseteq disturbed'
  BY DEF SbInv, SbTypeOK, SbRun, TakeSlot, Make, Appears, PodSeen, TimeOut, ReleaseSlot, MakeFails,
         PollFails, End, Unmake, Cluster
<1>2. RunOK(r) /\ (pod[r] = "running" => job[r] # "none")
  BY DEF SbInv, RunOK, PodOK
<1> QED BY <1>1, <1>2, Untouched

(* What is made comes on top of what was; a script's Job comes on top of its policy. *)
LEMMA MakeKeeps ==
  ASSUME SbInv, NEW r \in ToolRuns, Make(r)
  PROVE  RunOK(r)'
<1> DEFINE n == run[r].made + 1
           kind == Objects(r)[n]
<1>1. RunOK(r) /\ run[r].at = "making" /\ run[r].made \in Nat /\ n \in 1 .. Len(Objects(r))
  BY ObjectsAre DEF SbInv, SbTypeOK, Make, RunOK, CountOK
<1>2. /\ run'[r].made = n
      /\ run'[r].at = IF n = Len(Objects(r)) THEN "waiting" ELSE "making"
      /\ Objects(r)' = Objects(r) /\ leaked' = leaked /\ disturbed' = disturbed
  BY DEF Make, SbInv, SbTypeOK, Objects
<1>3. InFlight(r) /\ InFlight(r)'
  BY <1>1, <1>2 DEF InFlight
<1>4. /\ job'[r] = "active" <=> job[r] = "active" \/ kind = "job"
      /\ r \in config' <=> r \in config \/ kind = "config"
      /\ r \in policy' <=> r \in policy \/ kind = "policy"
      /\ job'[r] = (IF kind = "job" THEN "active" ELSE job[r]) /\ pod' = pod
  BY DEF Make, Appears, SbInv, SbTypeOK
<1>5. CountOK(r)'
  BY <1>1, <1>2, ObjectsAre DEF CountOK
<1>6. LeftOK(r)'
  <2> SUFFICES ASSUME r \notin leaked, NEW k \in Kinds, There(r, k)'
               PROVE  \E m \in 1 .. n : Objects(r)[m] = k
    BY <1>2, <1>3 DEF LeftOK
  <2>1. There(r, k) \/ k = kind
    BY <1>4 DEF There
  <2>2. There(r, k) => \E m \in 1 .. run[r].made : Objects(r)[m] = k
    BY <1>1, <1>3 DEF RunOK, LeftOK
  <2> QED BY <1>1, <2>1, <2>2
<1>7. FenceOK(r)'
  <2> SUFFICES ASSUME NEW m \in 1 .. n, Objects(r)[m] = "policy"
               PROVE  r \in policy' \cup disturbed \cup leaked
    BY <1>2 DEF FenceOK
  <2>1. CASE m = n
    BY <2>1, <1>4
  <2>2. CASE m # n
    BY <2>2, <1>1, <1>3, <1>4 DEF RunOK, FenceOK
  <2> QED BY <2>1, <2>2
<1>8. JobBehindFence(r)'
  <2> SUFFICES ASSUME r \in Fenced, job'[r] = "active"
               PROVE  r \in policy' \cup disturbed \cup leaked
    BY <1>2 DEF JobBehindFence
  <2>1. CASE job[r] = "active"
    BY <2>1, <1>1, <1>4 DEF RunOK, JobBehindFence
  <2>2. CASE kind = "job"
    <3>1. n = Len(Objects(r))
      BY <2>2, <1>1, ObjectsAre
    <3>2. \E m \in 1 .. run[r].made : Objects(r)[m] = "policy"
      BY <3>1, <1>1, ObjectsAre
    <3> QED BY <3>2, <1>1, <1>3, <1>4 DEF RunOK, FenceOK
  <2> QED BY <2>1, <2>2, <1>4
<1>9. PodOK(r)'
  BY <1>1, <1>2, <1>4, ObjectsAre DEF RunOK, PodOK
<1> QED BY <1>5, <1>6, <1>7, <1>8, <1>9 DEF RunOK

(* What a failed create left all the same no defer knows of, and is remembered.  *)
LEMMA MakeFailsKeeps ==
  ASSUME SbInv, NEW r \in ToolRuns, NEW took \in BOOLEAN, MakeFails(r, took)
  PROVE  RunOK(r)'
<1> DEFINE kind == IF took THEN Objects(r)[run[r].made + 1] ELSE "nothing"
<1>1. RunOK(r) /\ run[r].at = "making" /\ run[r].made < Len(Objects(r))
  BY DEF SbInv, MakeFails, RunOK, CountOK
<1>2. /\ run'[r].at = "unmaking" /\ run'[r].made = run[r].made /\ Objects(r)' = Objects(r)
      /\ UNCHANGED <<process, pod, disturbed>>
      /\ leaked' = IF took THEN leaked \cup {r} ELSE leaked
  BY DEF SbInv, SbTypeOK, MakeFails, Objects
<1>3. /\ job'[r] = (IF kind = "job" THEN "active" ELSE job[r])
      /\ r \in config' <=> r \in config \/ kind = "config"
      /\ r \in policy' <=> r \in policy \/ kind = "policy"
  BY DEF SbInv, SbTypeOK, MakeFails, Appears
<1>4. InFlight(r) /\ InFlight(r)'
  BY <1>1, <1>2 DEF InFlight
<1>5. CountOK(r)' /\ PodOK(r)'
  <2>1. run[r].made \in Nat /\ Len(Objects(r)) \in Nat
    BY ObjectsAre DEF SbInv, SbTypeOK
  <2>2. CountOK(r)'
    BY <1>1, <1>2, <2>1 DEF CountOK
  <2> QED BY <1>1, <1>2, <1>3, <2>2 DEF RunOK, PodOK
<1>6. FenceOK(r)'
  BY <1>1, <1>2, <1>3, <1>4 DEF RunOK, FenceOK
<1>7. LeftOK(r)' /\ JobBehindFence(r)'
  <2>1. CASE took
    BY <2>1, <1>2 DEF LeftOK, JobBehindFence
  <2>2. CASE ~took
    <3>1. \A k \in Kinds : There(r, k)' => There(r, k)
      BY <2>2, <1>3 DEF There
    <3> QED BY <2>2, <3>1, <1>1, <1>2, <1>3, <1>4 DEF RunOK, LeftOK, JobBehindFence
  <2> QED BY <2>1, <2>2
<1> QED BY <1>5, <1>6, <1>7 DEF RunOK

(* What is unmade is the last thing that was made: a script's Job goes before its
   policy. A delete that fails leaves something, and is remembered.             *)
LEMMA UnmakeKeeps ==
  ASSUME SbInv, NEW r \in ToolRuns, NEW works \in BOOLEAN, Unmake(r, works)
  PROVE  RunOK(r)'
<1> DEFINE n == run[r].made
           kind == Objects(r)[n]
<1>1. RunOK(r) /\ run[r].at = "unmaking" /\ n \in 1 .. Len(Objects(r))
  BY ObjectsAre DEF SbInv, SbTypeOK, Unmake, RunOK, CountOK
<1>2. /\ run'[r].made = n - 1 /\ run'[r].at = "unmaking"
      /\ Objects(r)' = Objects(r) /\ disturbed' = disturbed
  BY <1>1 DEF Unmake, SbInv, SbTypeOK, Objects
<1>3. InFlight(r) /\ InFlight(r)'
  BY <1>1, <1>2 DEF InFlight
<1>4. CountOK(r)'
  BY <1>1, <1>2, ObjectsAre DEF CountOK
<1>5. CASE ~works
  BY <1>1, <1>2, <1>4, <1>5 DEF Unmake, RunOK, LeftOK, FenceOK, JobBehindFence, PodOK
<1>6. CASE works
  <2>1. /\ leaked' = leaked
        /\ job'[r] = "active" <=> job[r] = "active" /\ kind # "job"
        /\ r \in config' <=> r \in config /\ kind # "config"
        /\ r \in policy' <=> r \in policy /\ kind # "policy"
        /\ pod' = pod /\ (job'[r] = "none" <=> job[r] = "none")
    BY <1>6 DEF Unmake, SbInv, SbTypeOK
  <2>2. \A k \in Kinds : There(r, k)' => There(r, k) /\ k # kind
    BY <2>1 DEF There
  <2>3. \A k \in Kinds : There(r, k) => r \in leaked \/ \E m \in 1 .. n : Objects(r)[m] = k
    BY <1>1, <1>3 DEF RunOK, LeftOK
  <2>4. LeftOK(r)'
    <3> SUFFICES ASSUME r \notin leaked, NEW k \in Kinds, There(r, k)'
                 PROVE  \E m \in 1 .. n - 1 : Objects(r)[m] = k
      BY <2>1, <1>2, <1>3 DEF LeftOK
    <3>1. PICK m \in 1 .. n : Objects(r)[m] = k
      BY <2>2, <2>3
    <3> QED BY <3>1, <2>2, <1>1
  <2>5. FenceOK(r)'
    <3> SUFFICES ASSUME NEW m \in 1 .. n - 1, Objects(r)[m] = "policy"
                 PROVE  r \in policy' \cup disturbed \cup leaked
      BY <2>1, <1>2 DEF FenceOK
    <3>1. kind # "policy"
      BY <1>1, ObjectsAre
    <3>2. r \in policy \cup disturbed \cup leaked
      BY <1>1, <1>3 DEF RunOK, FenceOK
    <3> QED BY <3>1, <3>2, <2>1
  <2>6. JobBehindFence(r)'
    <3> SUFFICES ASSUME r \in Fenced, job'[r] = "active", r \notin leaked
                 PROVE  r \in policy' \cup disturbed
      BY <2>1, <1>2 DEF JobBehindFence
    <3>1. There(r, "job") /\ kind # "job"
      BY <2>1 DEF There
    <3>2. PICK m \in 1 .. n : Objects(r)[m] = "job"
      BY <3>1, <2>3 DEF Kinds
    <3> QED BY <3>1, <3>2, <1>1, ObjectsAre
  <2>7. PodOK(r)'
    BY <1>1, <1>2, <2>1 DEF RunOK, PodOK
  <2> QED BY <1>4, <2>4, <2>5, <2>6, <2>7 DEF RunOK
<1> QED BY <1>5, <1>6

(* Every step of a run keeps what is said of it.                               *)
LEMMA RunKeeps ==
  ASSUME SbInv, NEW r \in ToolRuns, SbRun(r)
  PROVE  RunOK(r)'
<1> USE DEF RunOK, CountOK, LeftOK, FenceOK, JobBehindFence, PodOK, InFlight, There, Owned, Objects
<1>1. RunOK(r) /\ run \in [ToolRuns -> [at : {"idle", "making", "waiting", "unmaking", "done", "lost"},
                                        made : 0 .. 3]]
  BY DEF SbInv, SbTypeOK
<1>2. CASE TakeSlot(r)
  <2>1. /\ run'[r].at = "making" /\ run'[r].made = 0 /\ run[r].at = "idle"
        /\ UNCHANGED <<process, job, pod, config, policy, disturbed, leaked>>
    BY <1>1, <1>2 DEF TakeSlot, NotRun, Cluster
  <2> QED BY ONLY <1>1, <2>1, ObjectsAre
<1>3. CASE PodSeen(r) \/ TimeOut(r) \/ PollFails(r)
  <2>1. /\ run'[r].at = "unmaking" /\ run'[r].made = run[r].made /\ run[r].at = "waiting"
        /\ UNCHANGED <<process, job, pod, config, policy, disturbed, leaked>>
    BY <1>1, <1>3 DEF PodSeen, TimeOut, PollFails, End, Cluster
  <2> QED BY ONLY <1>1, <2>1, ObjectsAre
<1>4. CASE ReleaseSlot(r)
  <2>1. /\ run'[r].at = "done" /\ run[r].made = 0 /\ run[r].at = "unmaking"
        /\ UNCHANGED <<process, job, pod, config, policy, disturbed, leaked>>
    BY <1>1, <1>4 DEF ReleaseSlot, Cluster
  <2> QED BY ONLY <1>1, <2>1, ObjectsAre
<1> QED BY <1>2, <1>3, <1>4, MakeKeeps, MakeFailsKeeps, UnmakeKeeps DEF SbRun

-----------------------------------------------------------------------------
(***************************************************************************)
(* The steps of Kubernetes and of processes                                *)
(***************************************************************************)

(* What Kubernetes does on its own takes things away, and never a policy.      *)
LEMMA KubernetesKeeps ==
  ASSUME SbInv, NEW q \in ToolRuns, SbKubernetes(q), NEW r \in ToolRuns
  PROVE  RunOK(r)'
<1>1. /\ UNCHANGED <<process, run, policy, disturbed, leaked>>
      /\ job'[r] = "active" => job[r] = "active"
      /\ job[r] = "none" => job'[r] = "none"
      /\ r \in config' => r \in config
  BY DEF SbInv, SbTypeOK, SbKubernetes, StartPod, EndPod, RemoveJob, CollectGarbage
<1>2. RunOK(r) /\ (pod[r] = "running" => job[r] # "none")
  BY DEF SbInv, RunOK, PodOK
<1>3. pod'[r] = "running" => job'[r] # "none"
  BY <1>2 DEF SbInv, SbTypeOK, SbKubernetes, StartPod, EndPod, RemoveJob, CollectGarbage
<1> QED BY <1>1, <1>2, <1>3, Untouched

(* A process that starts has all its sweep before it.                          *)
LEMMA StartKeeps ==
  ASSUME SbInv, NEW p \in Processes, StartProcess(p), NEW r \in ToolRuns
  PROVE  RunOK(r)'
<1>1. UNCHANGED <<run, job, pod, config, policy, disturbed, leaked>>
  BY DEF StartProcess, Cluster
<1>2. /\ RunBy[r] = p => process[RunBy[r]] = "down" /\ process'[RunBy[r]] = "job"
      /\ RunBy[r] # p => process'[RunBy[r]] = process[RunBy[r]]
  BY SandboxesAssumption DEF SbInv, SbTypeOK, StartProcess
<1> QED
  BY <1>1, <1>2 DEF SbInv, RunOK, CountOK, LeftOK, FenceOK, JobBehindFence, PodOK, InFlight, There,
              ToBeSwept, Owned, Objects

(* A sweep only takes away, and keeps account of what others lose by it.        *)
LEMMA SweepTakes ==
  ASSUME SbInv, NEW p \in Processes, NEW runs \in SUBSET Present(process[p]), SweepAway(p, runs),
         NEW r \in ToolRuns
  PROVE  /\ process[p] \in Kinds /\ disturbed \subseteq disturbed'
         /\ job'[r] = "active" => job[r] = "active"
         /\ job'[r] = "none" <=> job[r] = "none"
         /\ r \in config' => r \in config
         /\ r \in policy' => r \in policy
         /\ r \in policy /\ r \notin policy' =>
              process[p] = "policy" /\ (RunBy[r] # p => r \in disturbed')
BY DEF SweepAway, Present, Kinds, SbInv, SbTypeOK

(* The sweep of one kind takes what the process's own dead runs left of it, its
   Jobs before their policies; of what others lose it keeps account.            *)
LEMMA SweepKeeps ==
  ASSUME SbInv, NEW p \in Processes, Sweep(p), NEW r \in ToolRuns
  PROVE  RunOK(r)'
<1> DEFINE kind == process[p]
<1>1. /\ RunOK(r) /\ kind \in Kinds /\ run' = run /\ leaked' = leaked
      /\ disturbed \subseteq disturbed' /\ Objects(r)' = Objects(r)
  BY DEF Sweep, SweepAway, SbInv, Kinds, Objects
<1>2. RunBy[r] = p => ~InFlight(r)
  BY <1>1 DEF SbInv, IdleOK, Kinds
<1>3. /\ job'[r] = "active" <=> job[r] = "active" /\ kind # "job"
      /\ r \in config' => r \in config /\ (kind # "config" \/ r \in JobFirst)
      /\ r \in policy' <=> r \in policy /\ kind # "policy"
      /\ kind = "policy" /\ r \in policy /\ RunBy[r] # p => r \in disturbed'
      /\ pod' = pod /\ (job'[r] = "none" <=> job[r] = "none")
  BY DEF Sweep, SweepAway, Present, SbInv, SbTypeOK
<1>4. /\ RunBy[r] # p => process'[RunBy[r]] = process[RunBy[r]]
      /\ RunBy[r] = p => process'[RunBy[r]] = AfterSweepOf(kind)
  BY SandboxesAssumption DEF Sweep, SbInv, SbTypeOK
<1>5. CountOK(r)'
  BY <1>1 DEF RunOK, CountOK
<1>6. LeftOK(r)'
  <2> SUFFICES ASSUME r \notin leaked, NEW k \in Kinds, There(r, k)'
               PROVE \/ InFlight(r) /\ \E n \in 1 .. run[r].made : Objects(r)[n] = k
                     \/ run[r].at = "lost" /\ (Owned(r, k) \/ ToBeSwept(process'[RunBy[r]], k))
    BY <1>1 DEF LeftOK, InFlight, Owned, ToBeSwept
  <2>1. There(r, k) /\ (k # kind \/ Owned(r, k))
    BY <1>3 DEF There, Owned
  <2>2. \/ InFlight(r) /\ \E n \in 1 .. run[r].made : Objects(r)[n] = k
        \/ run[r].at = "lost" /\ (Owned(r, k) \/ ToBeSwept(process[RunBy[r]], k))
    BY <2>1, <1>1 DEF RunOK, LeftOK
  <2>3. k # kind /\ ToBeSwept(kind, k) => ToBeSwept(AfterSweepOf(kind), k)
    BY <1>1 DEF ToBeSwept, AfterSweepOf, Kinds
  <2> QED BY <2>1, <2>2, <2>3, <1>4
<1>7. FenceOK(r)'
  BY <1>1, <1>2, <1>3 DEF RunOK, FenceOK, InFlight
<1>8. JobBehindFence(r)'
  <2> SUFFICES ASSUME r \in Fenced, job'[r] = "active", r \notin leaked
               PROVE  r \in policy' \cup disturbed'
    BY <1>1 DEF JobBehindFence
  <2>1. There(r, "job") /\ kind # "job" /\ r \in policy \cup disturbed
    BY <1>1, <1>3 DEF RunOK, JobBehindFence, There
  <2>2. CASE kind = "policy" /\ RunBy[r] = p
    <3>1. ~InFlight(r) /\ "job" \in Kinds /\ ~Owned(r, "job") /\ ~ToBeSwept(kind, "job")
      BY <1>2, <2>2 DEF Kinds, Owned, ToBeSwept
    <3> QED BY <1>1, <2>1, <2>2, <3>1 DEF RunOK, LeftOK
  <2> QED BY <1>1, <1>3, <2>1, <2>2
<1>9. PodOK(r)'
  BY <1>1, <1>3 DEF RunOK, PodOK
<1> QED BY <1>5, <1>6, <1>7, <1>8, <1>9 DEF RunOK

(* A sweep that fails may leave something of the process's own dead runs.      *)
LEMMA SweepFailsKeeps ==
  ASSUME SbInv, NEW p \in Processes, NEW some \in SUBSET Present(process[p]), SweepFails(p, some),
         NEW r \in ToolRuns
  PROVE  RunOK(r)'
<1>1. /\ RunOK(r) /\ run' = run /\ pod' = pod /\ Objects(r)' = Objects(r)
      /\ leaked' = leaked \cup {q \in ToolRuns : RunBy[q] = p /\ run[q].at = "lost"}
      /\ RunBy[r] # p => process'[RunBy[r]] = process[RunBy[r]]
  BY SandboxesAssumption DEF SweepFails, SbInv, SbTypeOK, Objects
<1>2. /\ process[p] \in Kinds /\ disturbed \subseteq disturbed'
      /\ job'[r] = "active" => job[r] = "active"
      /\ job'[r] = "none" <=> job[r] = "none"
      /\ r \in config' => r \in config
      /\ r \in policy' => r \in policy
      /\ r \in policy /\ r \notin policy' =>
           process[p] = "policy" /\ (RunBy[r] # p => r \in disturbed')
  BY SweepTakes DEF SweepFails
<1>3. RunBy[r] = p => ~InFlight(r)
  BY <1>2 DEF SbInv, IdleOK, Kinds
<1>4. \A k \in Kinds : There(r, k)' => There(r, k)
  BY <1>2 DEF There
<1>5. CountOK(r)' /\ PodOK(r)'
  BY <1>1, <1>2 DEF RunOK, CountOK, PodOK
<1>6. FenceOK(r)'
  BY <1>1, <1>2, <1>3 DEF RunOK, FenceOK, InFlight
<1>7. CASE RunBy[r] = p /\ run[r].at = "lost"
  <2>1. r \in leaked'
    BY <1>1, <1>7
  <2> QED BY <1>5, <1>6, <2>1 DEF RunOK, LeftOK, JobBehindFence
<1>8. CASE RunBy[r] = p /\ run[r].at # "lost"
  <2>1. r \in leaked \/ \A k \in Kinds : ~There(r, k)'
    BY <1>1, <1>3, <1>4, <1>8 DEF RunOK, LeftOK
  <2>2. LeftOK(r)'
    BY <1>1, <2>1 DEF LeftOK
  <2>3. JobBehindFence(r)'
    BY <1>1, <2>1 DEF JobBehindFence, There, Kinds
  <2> QED BY <1>5, <1>6, <2>2, <2>3 DEF RunOK
<1>9. CASE RunBy[r] # p
  <2>1. LeftOK(r)'
    BY <1>1, <1>4, <1>9 DEF RunOK, LeftOK, InFlight, Owned
  <2>2. JobBehindFence(r)'
    BY <1>1, <1>2, <1>9 DEF RunOK, JobBehindFence
  <2> QED BY <1>5, <1>6, <2>1, <2>2 DEF RunOK
<1> QED BY <1>7, <1>8, <1>9

(* The runs of a process that dies are lost, and its next sweep comes to them.  *)
LEMMA CrashKeeps ==
  ASSUME SbInv, NEW p \in Processes, Crash(p), NEW r \in ToolRuns
  PROVE  RunOK(r)'
<1>1. RunOK(r) /\ UNCHANGED <<job, pod, config, policy, disturbed, leaked>>
  BY DEF Crash, SbInv, Cluster
<1>2. CASE RunBy[r] = p
  <2>1. process'[RunBy[r]] = "down" /\ ~InFlight(r)' /\ run'[r].at # "making"
    BY <1>2 DEF Crash, SbInv, SbTypeOK, InFlight
  <2>2. /\ InFlight(r) => run'[r].at = "lost"
        /\ ~InFlight(r) => run'[r] = run[r]
    BY <1>2 DEF Crash, SbInv, SbTypeOK
  <2>3. CountOK(r)'
    BY <1>1, <2>1, <2>2 DEF RunOK, CountOK, InFlight
  <2>4. LeftOK(r)'
    BY <1>1, <2>1, <2>2 DEF RunOK, LeftOK, There, ToBeSwept, Kinds
  <2>5. PodOK(r)'
    BY <1>1, <2>1, <2>2 DEF RunOK, PodOK, InFlight
  <2> QED BY <1>1, <2>1, <2>3, <2>4, <2>5 DEF RunOK, FenceOK, JobBehindFence
<1>3. CASE RunBy[r] # p
  <2>1. run'[r] = run[r] /\ process'[RunBy[r]] = process[RunBy[r]]
    BY <1>3, SandboxesAssumption DEF Crash, SbInv, SbTypeOK
  <2>2. pod[r] = "running" => job[r] # "none"
    BY <1>1 DEF RunOK, PodOK
  <2> QED BY <1>1, <2>1, <2>2, Untouched
<1> QED BY <1>2, <1>3

-----------------------------------------------------------------------------
(***************************************************************************)
(* Theorems                                                                *)
(***************************************************************************)

(* The invariant is inductive: it holds of the first state and of every one
   that a run, Kubernetes, or the start, sweep or death of a process leads to.  *)
THEOREM SandboxesInductive == SbSpec => []SbInv
<1>1. SbInit => SbInv
  BY SandboxesAssumption
     DEF SbInit, SbInv, SbTypeOK, IdleOK, RunOK, CountOK, LeftOK, FenceOK, JobBehindFence, PodOK,
         There, InFlight, NotRun
<1>2. SbInv /\ [SbNext]_SbVars => SbInv'
  <2> SUFFICES ASSUME SbInv, [SbNext]_SbVars PROVE SbInv'
    OBVIOUS
  <2>1. CASE SbNext
    <3>1. ASSUME NEW r \in ToolRuns PROVE RunOK(r)'
      <4>1. ASSUME NEW q \in ToolRuns, SbRun(q) PROVE RunOK(r)'
        BY <4>1, RunOthers, RunKeeps
      <4>2. ASSUME NEW q \in ToolRuns, SbKubernetes(q) PROVE RunOK(r)'
        BY <4>2, KubernetesKeeps
      <4>3. ASSUME NEW p \in Processes,
                   \/ StartProcess(p) \/ Sweep(p) \/ Crash(p)
                   \/ \E some \in SUBSET Present(process[p]) : SweepFails(p, some)
            PROVE RunOK(r)'
        BY <4>3, StartKeeps, SweepKeeps, SweepFailsKeeps, CrashKeeps
      <4> QED BY <2>1, <4>1, <4>2, <4>3 DEF SbNext
    <3> QED BY <2>1, <3>1, TypesNext, IdleNext DEF SbInv
  <2>2. CASE UNCHANGED SbVars
    BY <2>2 DEF SbVars, Cluster, SbInv, SbTypeOK, IdleOK, RunOK, CountOK, LeftOK, FenceOK,
                JobBehindFence, PodOK, There, InFlight, Objects
  <2> QED BY <2>1, <2>2
<1> QED BY <1>1, <1>2, PTL DEF SbSpec

(* Every variable has its type, however many processes start, crash and fail.  *)
THEOREM SandboxesTypes == SbSpec => []SbTypeOK
<1>1. SbInv => SbTypeOK
  BY DEF SbInv
<1> QED BY <1>1, SandboxesInductive, PTL

(* A script's pod runs behind its NetworkPolicy until its run or the sweep of its
   own process has told its Job to go, also when its process died and sweeps up
   after it (the order in which SweepOrphans takes Jobs before NetworkPolicies),
   and a run no failed call has struck leaves nothing behind: the property
   FencedAndCleared of the run worker_services.                                 *)
THEOREM ToolsFencedAndCleared == SbSpec => []FencedAndCleared
<1>1. SbInv => FencedWhileItRuns
  <2> SUFFICES ASSUME SbInv, NEW r \in Fenced, r \notin policy \cup disturbed \cup leaked,
                      pod[r] = "running"
               PROVE  job[r] = "deleting" /\ run[r].at \in {"unmaking", "done", "lost"}
    BY DEF FencedWhileItRuns
  <2>1. r \in ToolRuns /\ RunOK(r)
    BY SandboxesAssumption DEF SbInv
  <2>2. job[r] = "deleting"
    BY <2>1 DEF SbInv, SbTypeOK, RunOK, PodOK, JobBehindFence
  <2>3. run[r].at \notin {"idle", "making"}
    BY <2>1, <2>2 DEF RunOK, PodOK
  <2>4. run[r].at # "waiting"
    <3>1. \E n \in 1 .. Len(Objects(r)) : Objects(r)[n] = "policy"
      BY <2>1, ObjectsAre
    <3> QED BY <2>1, <3>1 DEF RunOK, CountOK, FenceOK, InFlight
  <2>5. run[r].at \in {"idle", "making", "waiting", "unmaking", "done", "lost"}
    BY <2>1 DEF SbInv, SbTypeOK
  <2> QED BY <2>2, <2>3, <2>4, <2>5
<1>2. SbInv => NothingLeftBehind
  <2> SUFFICES ASSUME SbInv, \A p \in Processes : process[p] = "up",
                      \A r \in ToolRuns : ~InFlight(r) /\ job[r] # "deleting",
                      NEW r \in ToolRuns \ leaked
               PROVE  job[r] = "none" /\ r \notin policy /\ (r \in config => r \in JobFirst)
    BY DEF NothingLeftBehind
  <2>1. \A kind \in Kinds : ~ToBeSwept(process[RunBy[r]], kind)
    BY SandboxesAssumption DEF ToBeSwept, Kinds
  <2>2. \A kind \in Kinds : There(r, kind) => Owned(r, kind)
    BY <2>1 DEF SbInv, RunOK, LeftOK
  <2> QED BY <2>2 DEF SbInv, SbTypeOK, There, Owned, Kinds
<1> QED BY <1>1, <1>2, SandboxesInductive, PTL DEF FencedAndCleared

-----------------------------------------------------------------------------
(***************************************************************************)
(* The Docker host. A run notes what it makes before it goes on, and has   *)
(* undone all it noted when it is over (DkNoted); what is left of a script *)
(* that was lost with its process is on the list of that process's next    *)
(* sweep (DkSwept); and a container is killed under its run by the sweep   *)
(* of another process only, for a process sweeps before it runs anything   *)
(* (DkEnds). DkGood is all that is known of one run; a step of a run       *)
(* leaves the others alone.                                                *)
(***************************************************************************)

DkPlaces == {"idle", "wordlist", "build", "rebuild", "pull", "create", "start", "wait", "logs",
             "logs of a late one", "logs of a lost one", "undo", "done", "lost"}
DkThings == {"container", "image", "wordlist"}

DkTypes ==
    /\ host \in [DockerHosts -> {"down", "sweeping", "up"}]
    /\ listed \in [DockerHosts -> SUBSET DockerRuns]
    /\ dkRun \in [DockerRuns -> [at : DkPlaces, undo : SUBSET DkThings, context : {"live", "over"}]]
    /\ dkResult \in [DockerRuns -> {"none", "complete", "timedout", "error"}]
    /\ container \in [DockerRuns -> {"none", "created", "running", "exited", "killed"}]
    /\ images \subseteq DockerRuns /\ wordlists \subseteq DockerRuns
    /\ cut \subseteq DockerRuns /\ stray \subseteq DockerRuns

\* Whatever is there is on the run's list of what to undo, until it is undone.
DkNoted(r) ==
    /\ dkRun[r].at \in {"idle", "wordlist", "build", "rebuild", "done", "lost"} => dkRun[r].undo = {}
    /\ dkRun[r].at \in {"pull", "create"} => "container" \notin dkRun[r].undo
    /\ dkRun[r].at \in {"idle", "wordlist", "build", "rebuild", "pull", "create"} => container[r] = "none"
    /\ r \notin stray /\ dkRun[r].at # "lost" =>
         /\ container[r] # "none" => "container" \in dkRun[r].undo
         /\ r \in images => "image" \in dkRun[r].undo
         /\ r \in wordlists => "wordlist" \in dkRun[r].undo

\* The container of a script that was lost is on the list of its process's next
\* sweep, and while a run goes on its process has swept.
DkSwept(r) ==
    /\ dkRun[r].at = "lost" /\ KindOf[r] = "script" /\ container[r] # "none" /\ r \notin stray =>
         \/ host[HostOf[r]] = "down"
         \/ host[HostOf[r]] = "sweeping" /\ r \in listed[HostOf[r]]
    /\ DkInFlight(r) => host[HostOf[r]] = "up"

\* Only the sweep of another process kills under a run.
DkEnds(r) ==
    /\ DkInFlight(r) /\ container[r] = "killed" => r \in cut
    /\ dkRun[r].at = "logs" => container[r] \in {"exited", "killed", "none"}
    /\ dkResult[r] = "complete" => dkRun[r].at \in {"undo", "done", "lost"}
    /\ dkResult[r] = "complete" /\ "container" \in dkRun[r].undo => container[r] = "exited" \/ r \in cut

DkGood(r) == DkNoted(r) /\ DkSwept(r) /\ DkEnds(r)
DkInv == DkTypes /\ \A r \in DockerRuns : DkGood(r)

\* What a step leaves of a run that it is not about
DkLeaves(r) ==
    /\ dkRun'[r] = dkRun[r] /\ dkResult'[r] = dkResult[r] /\ container'[r] = container[r]
    /\ (r \in images' <=> r \in images) /\ (r \in wordlists' <=> r \in wordlists)
    /\ (r \in cut => r \in cut') /\ (r \in stray => r \in stray')
    /\ host' = host /\ listed' = listed

\* A step of the run r, to a place, with what is to be undone from there on
DkMoves(r, at, undo, context) ==
    /\ dkRun' \in [DockerRuns -> [at : DkPlaces, undo : SUBSET DkThings, context : {"live", "over"}]]
    /\ dkRun'[r].at = at /\ dkRun'[r].undo = undo /\ dkRun'[r].context = context
    /\ \A q \in DockerRuns \ {r} : dkRun'[q] = dkRun[q]

(* A run that a step leaves alone stays as good as it was. *)
LEMMA DkLeft ==
  ASSUME NEW r \in DockerRuns, DkGood(r), DkLeaves(r)
  PROVE  DkGood(r)'
<1>1. DkInFlight(r)' <=> DkInFlight(r)
  BY DEF DkLeaves, DkInFlight
<1>2. DkNoted(r)'
  BY DEF DkLeaves, DkGood, DkNoted
<1>3. DkSwept(r)'
  BY <1>1 DEF DkLeaves, DkGood, DkSwept
<1>4. DkEnds(r)'
  BY <1>1 DEF DkLeaves, DkGood, DkEnds
<1> QED BY <1>2, <1>3, <1>4 DEF DkGood

(* A step from one place to another keeps what is to be undone. *)
LEMMA DkGoto ==
  ASSUME DkTypes, NEW r \in DockerRuns, NEW at \in DkPlaces, Goto(r, at)
  PROVE  DkMoves(r, at, dkRun[r].undo, dkRun[r].context)
<1>1. dkRun[r] \in [at : DkPlaces, undo : SUBSET DkThings, context : {"live", "over"}]
  BY DEF DkTypes
<1> QED BY <1>1 DEF DkTypes, DkMoves, Goto

(* A run that returns goes on to undo what it has noted. *)
LEMMA DkReturn ==
  ASSUME DkTypes, NEW r \in DockerRuns, NEW result \in {"none", "complete", "timedout", "error"},
         Return(r, result)
  PROVE  /\ DkMoves(r, "undo", dkRun[r].undo, dkRun[r].context)
         /\ dkResult' \in [DockerRuns -> {"none", "complete", "timedout", "error"}]
         /\ dkResult'[r] = result
         /\ \A q \in DockerRuns \ {r} : dkResult'[q] = dkResult[q]
<1>1. Goto(r, "undo") /\ "undo" \in DkPlaces
  BY DEF Return, DkPlaces
<1>2. DkMoves(r, "undo", dkRun[r].undo, dkRun[r].context)
  BY <1>1, DkGoto
<1> QED BY <1>2 DEF Return, DkTypes

(* A step about one run has to be looked at for that run only. *)
LEMMA DkOfOne ==
  ASSUME DkInv, NEW r \in DockerRuns, DkTypes', DkGood(r)',
         \A q \in DockerRuns \ {r} : DkLeaves(q)
  PROVE  DkInv'
<1>1. ASSUME NEW q \in DockerRuns PROVE DkGood(q)'
  <2>1. CASE q = r
    BY <2>1
  <2>2. CASE q # r
    BY <2>2, DkLeft DEF DkInv
  <2> QED BY <2>1, <2>2
<1> QED BY <1>1 DEF DkInv

(* Only logs read after the container's own end make a result complete. *)
LEMMA ResultComplete ==
  ASSUME NEW r \in DockerRuns, NEW ended, ResultOf(r, ended) = "complete"
  PROVE  dkRun[r].at = "logs"
  BY Zenon DEF ResultOf

(* The results a run can return *)
LEMMA ResultIsOne ==
  ASSUME NEW r \in DockerRuns, NEW ended
  PROVE  ResultOf(r, ended) \in {"complete", "timedout", "error"}
  BY Zenon DEF ResultOf

(* Where a run can begin *)
LEMMA FirstPlace ==
  ASSUME NEW r \in DockerRuns
  PROVE  First(r) \in {"wordlist", "build", "pull"}
  BY Zenon DEF First

(* A run begins with nothing made, in a process that has swept. *)
LEMMA BeginInv ==
  ASSUME DkInv, NEW r \in DockerRuns, Begin(r)
  PROVE  DkInv'
<1>1. PICK at : at = First(r)
  OBVIOUS
<1>2. at \in {"wordlist", "build", "pull"} /\ at \in DkPlaces
  BY <1>1, FirstPlace DEF DkPlaces
<1>3. dkRun[r].undo = {} /\ dkRun[r].at = "idle" /\ host[HostOf[r]] = "up"
  BY DEF Begin, NoDkRun
<1>4. Goto(r, at) /\ UNCHANGED <<host, listed, dkResult, Host, cut, stray>>
  BY <1>1 DEF Begin
<1>5. DkMoves(r, at, dkRun[r].undo, dkRun[r].context)
  BY <1>2, <1>4, DkGoto DEF DkInv
<1>6. DkTypes'
  BY <1>4, <1>5 DEF DkTypes, DkInv, DkMoves, Host
<1>7. \A q \in DockerRuns \ {r} : DkLeaves(q)
  BY <1>4, <1>5 DEF DkLeaves, DkMoves, Host
<1>8. DkNoted(r)'
  BY <1>2, <1>3, <1>4, <1>5 DEF DkInv, DkGood, DkNoted, DkMoves, Host
<1>9. DkSwept(r)'
  BY <1>2, <1>3, <1>4, <1>5 DEF DkInv, DkGood, DkSwept, DkMoves, Host
<1>10. DkEnds(r)'
  BY <1>2, <1>3, <1>4, <1>5 DEF DkInv, DkGood, DkEnds, DkNoted, DkMoves, Host, DkInFlight
<1> QED BY <1>6, <1>7, <1>8, <1>9, <1>10, DkOfOne DEF DkGood

(* Time that is up changes nothing on the host. *)
LEMMA TimeIsUpInv ==
  ASSUME DkInv, NEW r \in DockerRuns, TimeIsUp(r)
  PROVE  DkInv'
<1>1. DkInFlight(r) /\ UNCHANGED <<host, listed, dkResult, Host, cut, stray>>
  BY DEF TimeIsUp
<1>2. DkMoves(r, dkRun[r].at, dkRun[r].undo, "over")
  BY DEF TimeIsUp, DkInv, DkTypes, DkMoves
<1>6. DkTypes'
  BY <1>1, <1>2 DEF DkTypes, DkInv, DkMoves, Host
<1>7. \A q \in DockerRuns \ {r} : DkLeaves(q)
  BY <1>1, <1>2 DEF DkLeaves, DkMoves, DkTypes, DkInv, Host
<1>8. DkNoted(r)'
  BY <1>1, <1>2 DEF DkInv, DkTypes, DkGood, DkNoted, DkMoves, Host
<1>9. DkSwept(r)'
  BY <1>1, <1>2 DEF DkInv, DkTypes, DkGood, DkSwept, DkMoves, Host, DkInFlight
<1>10. DkEnds(r)'
  BY <1>1, <1>2 DEF DkInv, DkTypes, DkGood, DkEnds, DkNoted, DkMoves, Host, DkInFlight
<1> QED BY <1>6, <1>7, <1>8, <1>9, <1>10, DkOfOne DEF DkGood

(* The list of words is noted as it is written. *)
LEMMA WriteListInv ==
  ASSUME DkInv, NEW r \in DockerRuns, WriteList(r)
  PROVE  DkInv'
<1>1. /\ dkRun[r].at = "wordlist" /\ wordlists' = wordlists \cup {r}
      /\ UNCHANGED <<host, listed, dkResult, container, images, cut, stray>>
  BY DEF WriteList
<1>2. DkMoves(r, "pull", {"wordlist"}, dkRun[r].context)
  BY DEF WriteList, DkInv, DkTypes, DkMoves, DkPlaces, DkThings
<1>6. DkTypes'
  BY <1>1, <1>2 DEF DkTypes, DkInv, DkMoves, Host
<1>7. \A q \in DockerRuns \ {r} : DkLeaves(q)
  BY <1>1, <1>2 DEF DkLeaves, DkMoves, DkTypes, DkInv, Host
<1>8. DkNoted(r)'
  BY <1>1, <1>2 DEF DkInv, DkTypes, DkGood, DkNoted, DkMoves, Host
<1>9. DkSwept(r)'
  BY <1>1, <1>2 DEF DkInv, DkTypes, DkGood, DkSwept, DkMoves, Host, DkInFlight
<1>10. DkEnds(r)'
  BY <1>1, <1>2 DEF DkInv, DkTypes, DkGood, DkEnds, DkNoted, DkMoves, Host, DkInFlight
<1> QED BY <1>6, <1>7, <1>8, <1>9, <1>10, DkOfOne DEF DkGood

(* A pull leaves nothing that a run would have to undo. *)
LEMMA PullInv ==
  ASSUME DkInv, NEW r \in DockerRuns, Pull(r)
  PROVE  DkInv'
<1>1. dkRun[r].at = "pull" /\ UNCHANGED <<host, listed, dkResult, Host, cut, stray>>
  BY DEF Pull
<1>2. Goto(r, "create") /\ "create" \in DkPlaces
  BY DEF Pull, DkPlaces
<1>3. DkMoves(r, "create", dkRun[r].undo, dkRun[r].context)
  BY <1>2, DkGoto DEF DkInv
<1>6. DkTypes'
  BY <1>1, <1>3 DEF DkTypes, DkInv, DkMoves, Host
<1>7. \A q \in DockerRuns \ {r} : DkLeaves(q)
  BY <1>1, <1>3 DEF DkLeaves, DkMoves, DkTypes, DkInv, Host
<1>8. DkNoted(r)'
  BY <1>1, <1>3 DEF DkInv, DkTypes, DkGood, DkNoted, DkMoves, Host
<1>9. DkSwept(r)'
  BY <1>1, <1>3 DEF DkInv, DkTypes, DkGood, DkSwept, DkMoves, Host, DkInFlight
<1>10. DkEnds(r)'
  BY <1>1, <1>3 DEF DkInv, DkTypes, DkGood, DkEnds, DkNoted, DkMoves, Host, DkInFlight
<1> QED BY <1>6, <1>7, <1>8, <1>9, <1>10, DkOfOne DEF DkGood

(* A call that fails leaves what was noted before it to be undone. *)
LEMMA CallFailsInv ==
  ASSUME DkInv, NEW r \in DockerRuns, CallFails(r)
  PROVE  DkInv'
<1>1. /\ dkRun[r].at \in {"wordlist", "build", "rebuild", "pull", "create", "start"}
      /\ UNCHANGED <<host, listed, Host, cut, stray>> /\ Return(r, "error")
  BY DEF CallFails
<1>2. PICK result \in {"none", "complete", "timedout", "error"} : result = "error"
  OBVIOUS
<1>3. /\ DkMoves(r, "undo", dkRun[r].undo, dkRun[r].context)
      /\ dkResult' \in [DockerRuns -> {"none", "complete", "timedout", "error"}]
      /\ dkResult'[r] = result
      /\ \A q \in DockerRuns \ {r} : dkResult'[q] = dkResult[q]
  BY <1>1, <1>2, DkReturn DEF DkInv
<1>6. DkTypes'
  BY <1>1, <1>2, <1>3 DEF DkTypes, DkInv, DkMoves, Host
<1>7. \A q \in DockerRuns \ {r} : DkLeaves(q)
  BY <1>1, <1>2, <1>3 DEF DkLeaves, DkMoves, DkTypes, DkInv, Host
<1>8. DkNoted(r)'
  BY <1>1, <1>2, <1>3 DEF DkInv, DkTypes, DkGood, DkNoted, DkMoves, Host
<1>9. DkSwept(r)'
  BY <1>1, <1>2, <1>3 DEF DkInv, DkTypes, DkGood, DkSwept, DkMoves, Host, DkInFlight
<1>10. DkEnds(r)'
  BY <1>1, <1>2, <1>3 DEF DkInv, DkTypes, DkGood, DkEnds, DkNoted, DkMoves, Host, DkInFlight
<1> QED BY <1>6, <1>7, <1>8, <1>9, <1>10, DkOfOne DEF DkGood

(* A container that is started was noted when it was created. *)
LEMMA StartContainerInv ==
  ASSUME DkInv, NEW r \in DockerRuns, StartContainer(r)
  PROVE  DkInv'
<1>1. /\ dkRun[r].at = "start" /\ container[r] = "created"
      /\ container' = [container EXCEPT ![r] = "running"]
      /\ UNCHANGED <<host, listed, dkResult, images, wordlists, cut, stray>>
  BY DEF StartContainer
<1>2. Goto(r, "wait") /\ "wait" \in DkPlaces
  BY DEF StartContainer, DkPlaces
<1>3. DkMoves(r, "wait", dkRun[r].undo, dkRun[r].context)
  BY <1>2, DkGoto DEF DkInv
<1>6. DkTypes'
  BY <1>1, <1>3 DEF DkTypes, DkInv, DkMoves, Host
<1>7. \A q \in DockerRuns \ {r} : DkLeaves(q)
  BY <1>1, <1>3 DEF DkLeaves, DkMoves, DkTypes, DkInv, Host
<1>8. DkNoted(r)'
  BY <1>1, <1>3 DEF DkInv, DkTypes, DkGood, DkNoted, DkMoves, Host
<1>9. DkSwept(r)'
  BY <1>1, <1>3 DEF DkInv, DkTypes, DkGood, DkSwept, DkMoves, Host, DkInFlight
<1>10. DkEnds(r)'
  BY <1>1, <1>3 DEF DkInv, DkTypes, DkGood, DkEnds, DkNoted, DkMoves, Host, DkInFlight
<1> QED BY <1>6, <1>7, <1>8, <1>9, <1>10, DkOfOne DEF DkGood

(* A container that was swept away before its start is an error. *)
LEMMA StartsNothingInv ==
  ASSUME DkInv, NEW r \in DockerRuns, StartsNothing(r)
  PROVE  DkInv'
<1>1. /\ dkRun[r].at = "start" /\ Return(r, "error")
      /\ UNCHANGED <<host, listed, Host, cut, stray>>
  BY DEF StartsNothing
<1>2. PICK result \in {"none", "complete", "timedout", "error"} : result = "error"
  OBVIOUS
<1>3. /\ DkMoves(r, "undo", dkRun[r].undo, dkRun[r].context)
      /\ dkResult' \in [DockerRuns -> {"none", "complete", "timedout", "error"}]
      /\ dkResult'[r] = result
      /\ \A q \in DockerRuns \ {r} : dkResult'[q] = dkResult[q]
  BY <1>1, <1>2, DkReturn DEF DkInv
<1>6. DkTypes'
  BY <1>1, <1>2, <1>3 DEF DkTypes, DkInv, DkMoves, Host
<1>7. \A q \in DockerRuns \ {r} : DkLeaves(q)
  BY <1>1, <1>2, <1>3 DEF DkLeaves, DkMoves, DkTypes, DkInv, Host
<1>8. DkNoted(r)'
  BY <1>1, <1>2, <1>3 DEF DkInv, DkTypes, DkGood, DkNoted, DkMoves, Host
<1>9. DkSwept(r)'
  BY <1>1, <1>2, <1>3 DEF DkInv, DkTypes, DkGood, DkSwept, DkMoves, Host, DkInFlight
<1>10. DkEnds(r)'
  BY <1>1, <1>2, <1>3 DEF DkInv, DkTypes, DkGood, DkEnds, DkNoted, DkMoves, Host, DkInFlight
<1> QED BY <1>6, <1>7, <1>8, <1>9, <1>10, DkOfOne DEF DkGood

(* A wait ends with a container that has ended, or the result will say so. *)
LEMMA WaitInv ==
  ASSUME DkInv, NEW r \in DockerRuns, Wait(r)
  PROVE  DkInv'
<1>1. /\ dkRun[r].at = "wait" /\ UNCHANGED <<host, listed, dkResult, Host, cut, stray>>
  BY DEF Wait
<1>2. PICK at \in {"logs", "logs of a late one", "logs of a lost one"} :
        /\ Goto(r, at)
        /\ at = "logs" => container[r] \in {"exited", "killed", "none"}
  BY DEF Wait
<1>3. at \in DkPlaces
  BY <1>2 DEF DkPlaces
<1>4. DkMoves(r, at, dkRun[r].undo, dkRun[r].context)
  BY <1>2, <1>3, DkGoto DEF DkInv
<1>6. DkTypes'
  BY <1>1, <1>2, <1>4 DEF DkTypes, DkInv, DkMoves, Host
<1>7. \A q \in DockerRuns \ {r} : DkLeaves(q)
  BY <1>1, <1>2, <1>4 DEF DkLeaves, DkMoves, DkTypes, DkInv, Host
<1>8. DkNoted(r)'
  BY <1>1, <1>2, <1>4 DEF DkInv, DkTypes, DkGood, DkNoted, DkMoves, Host
<1>9. DkSwept(r)'
  BY <1>1, <1>2, <1>4 DEF DkInv, DkTypes, DkGood, DkSwept, DkMoves, Host, DkInFlight
<1>10. DkEnds(r)'
  BY <1>1, <1>2, <1>4 DEF DkInv, DkTypes, DkGood, DkEnds, DkNoted, DkMoves, Host, DkInFlight
<1> QED BY <1>6, <1>7, <1>8, <1>9, <1>10, DkOfOne DEF DkGood

(* What is read as complete was printed to its end, or cut short by a sweep. *)
LEMMA ReadLogsInv ==
  ASSUME DkInv, NEW r \in DockerRuns, NEW ended, ReadLogs(r, ended)
  PROVE  DkInv'
<1>1. /\ dkRun[r].at \in {"logs", "logs of a late one", "logs of a lost one"}
      /\ UNCHANGED <<host, listed, Host, cut, stray>>
  BY DEF ReadLogs
<1>2. PICK result \in {"none", "complete", "timedout", "error"} :
        /\ Return(r, result)
        /\ result = "complete" => dkRun[r].at = "logs" /\ container[r] # "none"
  <2>1. CASE Return(r, "error")
    BY <2>1
  <2>2. CASE container[r] # "none" /\ Return(r, ResultOf(r, ended))
    BY <2>2, ResultComplete, ResultIsOne
  <2> QED BY <2>1, <2>2 DEF ReadLogs
<1>3. /\ DkMoves(r, "undo", dkRun[r].undo, dkRun[r].context)
      /\ dkResult' \in [DockerRuns -> {"none", "complete", "timedout", "error"}]
      /\ dkResult'[r] = result
      /\ \A q \in DockerRuns \ {r} : dkResult'[q] = dkResult[q]
  BY <1>2, DkReturn DEF DkInv
<1>6. DkTypes'
  BY <1>1, <1>2, <1>3 DEF DkTypes, DkInv, DkMoves, Host
<1>7. \A q \in DockerRuns \ {r} : DkLeaves(q)
  BY <1>1, <1>2, <1>3 DEF DkLeaves, DkMoves, DkTypes, DkInv, Host
<1>8. DkNoted(r)'
  BY <1>1, <1>2, <1>3 DEF DkInv, DkTypes, DkGood, DkNoted, DkMoves, Host
<1>9. DkSwept(r)'
  BY <1>1, <1>2, <1>3 DEF DkInv, DkTypes, DkGood, DkSwept, DkMoves, Host, DkInFlight
<1>10. DkEnds(r)'
  BY <1>1, <1>2, <1>3 DEF DkInv, DkTypes, DkGood, DkEnds, DkNoted, DkMoves, Host, DkInFlight
<1> QED BY <1>6, <1>7, <1>8, <1>9, <1>10, DkOfOne DEF DkGood

(* A run is over when nothing is left to undo. *)
LEMMA FinishRunInv ==
  ASSUME DkInv, NEW r \in DockerRuns, FinishRun(r)
  PROVE  DkInv'
<1>1. /\ dkRun[r].at = "undo" /\ dkRun[r].undo = {}
      /\ UNCHANGED <<host, listed, dkResult, Host, cut, stray>>
  BY DEF FinishRun
<1>2. Goto(r, "done") /\ "done" \in DkPlaces
  BY DEF FinishRun, DkPlaces
<1>3. DkMoves(r, "done", dkRun[r].undo, dkRun[r].context)
  BY <1>2, DkGoto DEF DkInv
<1>6. DkTypes'
  BY <1>1, <1>3 DEF DkTypes, DkInv, DkMoves, Host
<1>7. \A q \in DockerRuns \ {r} : DkLeaves(q)
  BY <1>1, <1>3 DEF DkLeaves, DkMoves, DkTypes, DkInv, Host
<1>8. DkNoted(r)'
  BY <1>1, <1>3 DEF DkInv, DkTypes, DkGood, DkNoted, DkMoves, Host
<1>9. DkSwept(r)'
  BY <1>1, <1>3 DEF DkInv, DkTypes, DkGood, DkSwept, DkMoves, Host, DkInFlight
<1>10. DkEnds(r)'
  BY <1>1, <1>3 DEF DkInv, DkTypes, DkGood, DkEnds, DkNoted, DkMoves, Host, DkInFlight
<1> QED BY <1>6, <1>7, <1>8, <1>9, <1>10, DkOfOne DEF DkGood

(* A container that exits stays noted. *)
LEMMA ExitInv ==
  ASSUME DkInv, NEW r \in DockerRuns, Exit(r)
  PROVE  DkInv'
<1>1. /\ container[r] = "running" /\ container' = [container EXCEPT ![r] = "exited"]
      /\ UNCHANGED <<host, listed, dkRun, dkResult, images, wordlists, cut, stray>>
  BY DEF Exit
<1>6. DkTypes'
  BY <1>1 DEF DkTypes, DkInv, DkMoves, Host
<1>7. \A q \in DockerRuns \ {r} : DkLeaves(q)
  BY <1>1 DEF DkLeaves, DkMoves, DkTypes, DkInv, Host
<1>8. DkNoted(r)'
  BY <1>1 DEF DkInv, DkTypes, DkGood, DkNoted, DkMoves, Host
<1>9. DkSwept(r)'
  BY <1>1 DEF DkInv, DkTypes, DkGood, DkSwept, DkMoves, Host, DkInFlight
<1>10. DkEnds(r)'
  BY <1>1 DEF DkInv, DkTypes, DkGood, DkEnds, DkNoted, DkMoves, Host, DkInFlight
<1> QED BY <1>6, <1>7, <1>8, <1>9, <1>10, DkOfOne DEF DkGood

(* An image is noted as it is built. *)
LEMMA BuildWorksInv ==
  ASSUME DkInv, NEW r \in DockerRuns, BuildImage(r, "built")
  PROVE  DkInv'
<1>1. /\ dkRun[r].at \in {"build", "rebuild"} /\ images' = images \cup {r} /\ stray' = stray
      /\ UNCHANGED <<host, listed, dkResult, container, wordlists, cut>>
  BY DEF BuildImage
<1>2. DkMoves(r, "pull", {"image"}, dkRun[r].context)
  <2>1. dkRun' = [dkRun EXCEPT ![r].at = "pull", ![r].undo = {"image"}]
    BY DEF BuildImage
  <2> QED BY <2>1 DEF DkInv, DkTypes, DkMoves, DkPlaces, DkThings
<1>6. DkTypes'
  BY <1>1, <1>2 DEF DkTypes, DkInv, DkMoves, Host
<1>7. \A q \in DockerRuns \ {r} : DkLeaves(q)
  BY <1>1, <1>2 DEF DkLeaves, DkMoves, DkTypes, DkInv, Host
<1>8. DkNoted(r)'
  BY <1>1, <1>2 DEF DkInv, DkTypes, DkGood, DkNoted, DkMoves, Host
<1>9. DkSwept(r)'
  BY <1>1, <1>2 DEF DkInv, DkTypes, DkGood, DkSwept, DkMoves, Host, DkInFlight
<1>10. DkEnds(r)'
  BY <1>1, <1>2 DEF DkInv, DkTypes, DkGood, DkEnds, DkNoted, DkMoves, Host, DkInFlight
<1> QED BY <1>6, <1>7, <1>8, <1>9, <1>10, DkOfOne DEF DkGood

(* A build that fails has left no image, or a stray one. *)
LEMMA BuildFailsInv ==
  ASSUME DkInv, NEW r \in DockerRuns, NEW how \in {"failed", "unread"}, BuildImage(r, how)
  PROVE  DkInv'
<1>1. /\ dkRun[r].at \in {"build", "rebuild"}
      /\ \/ images' = images /\ stray' = stray
         \/ images' = images \cup {r} /\ stray' = stray \cup {r}
      /\ UNCHANGED <<host, listed, container, wordlists, cut>>
  <2>1. CASE how = "failed"
    BY <2>1 DEF BuildImage
  <2>2. CASE how = "unread"
    BY <2>2 DEF BuildImage
  <2> QED BY <2>1, <2>2
<1>2. PICK at \in {"rebuild", "undo"}, result \in {"none", "complete", "timedout", "error"} :
        /\ DkMoves(r, at, dkRun[r].undo, dkRun[r].context)
        /\ dkResult' \in [DockerRuns -> {"none", "complete", "timedout", "error"}]
        /\ dkResult'[r] = result /\ result # "complete"
        /\ \A q \in DockerRuns \ {r} : dkResult'[q] = dkResult[q]
  <2>1. CASE Goto(r, "rebuild") /\ UNCHANGED dkResult
    <3>1. DkMoves(r, "rebuild", dkRun[r].undo, dkRun[r].context)
      BY <2>1, DkGoto DEF DkInv, DkPlaces
    <3>2. dkResult[r] \in {"none", "timedout", "error"}
      BY <1>1 DEF DkInv, DkTypes, DkGood, DkEnds
    <3> QED BY <2>1, <3>1, <3>2 DEF DkInv, DkTypes
  <2>2. CASE Return(r, "error")
    <3>1. PICK result \in {"none", "complete", "timedout", "error"} : result = "error"
      OBVIOUS
    <3>2. /\ DkMoves(r, "undo", dkRun[r].undo, dkRun[r].context)
          /\ dkResult' \in [DockerRuns -> {"none", "complete", "timedout", "error"}]
          /\ dkResult'[r] = result
          /\ \A q \in DockerRuns \ {r} : dkResult'[q] = dkResult[q]
      BY <2>2, <3>1, DkReturn DEF DkInv
    <3> QED BY <3>1, <3>2
  <2>3. how # "built"
    OBVIOUS
  <2>4. (Goto(r, "rebuild") /\ UNCHANGED dkResult) \/ Return(r, "error")
    BY <2>3 DEF BuildImage
  <2> QED BY <2>1, <2>2, <2>4
<1>6. DkTypes'
  BY <1>1, <1>2 DEF DkTypes, DkInv, DkMoves, Host
<1>7. \A q \in DockerRuns \ {r} : DkLeaves(q)
  BY <1>1, <1>2 DEF DkLeaves, DkMoves, DkTypes, DkInv, Host
<1>8. DkNoted(r)'
  BY <1>1, <1>2 DEF DkInv, DkTypes, DkGood, DkNoted, DkMoves, Host
<1>9. DkSwept(r)'
  BY <1>1, <1>2 DEF DkInv, DkTypes, DkGood, DkSwept, DkMoves, Host, DkInFlight
<1>10. DkEnds(r)'
  BY <1>1, <1>2 DEF DkInv, DkTypes, DkGood, DkEnds, DkNoted, DkMoves, Host, DkInFlight
<1> QED BY <1>6, <1>7, <1>8, <1>9, <1>10, DkOfOne DEF DkGood

(* A container is noted as it is created. *)
LEMMA CreateWorksInv ==
  ASSUME DkInv, NEW r \in DockerRuns, CreateContainer(r, TRUE)
  PROVE  DkInv'
<1>1. /\ dkRun[r].at = "create" /\ container' = [container EXCEPT ![r] = "created"]
      /\ UNCHANGED <<host, listed, dkResult, images, wordlists, cut, stray>>
  BY DEF CreateContainer
<1>2. DkMoves(r, "start", dkRun[r].undo \cup {"container"}, dkRun[r].context)
  <2>1. dkRun' = [dkRun EXCEPT ![r].at = "start", ![r].undo = @ \cup {"container"}]
    BY DEF CreateContainer
  <2> QED BY <2>1 DEF DkInv, DkTypes, DkMoves, DkPlaces, DkThings
<1>6. DkTypes'
  BY <1>1, <1>2 DEF DkTypes, DkInv, DkMoves, Host
<1>7. \A q \in DockerRuns \ {r} : DkLeaves(q)
  BY <1>1, <1>2 DEF DkLeaves, DkMoves, DkTypes, DkInv, Host
<1>8. DkNoted(r)'
  BY <1>1, <1>2 DEF DkInv, DkTypes, DkGood, DkNoted, DkMoves, Host
<1>9. DkSwept(r)'
  BY <1>1, <1>2 DEF DkInv, DkTypes, DkGood, DkSwept, DkMoves, Host, DkInFlight
<1>10. DkEnds(r)'
  BY <1>1, <1>2 DEF DkInv, DkTypes, DkGood, DkEnds, DkNoted, DkMoves, Host, DkInFlight
<1> QED BY <1>6, <1>7, <1>8, <1>9, <1>10, DkOfOne DEF DkGood

(* A container nobody knows the ID of is a stray one. *)
LEMMA CreateFailsInv ==
  ASSUME DkInv, NEW r \in DockerRuns, CreateContainer(r, FALSE)
  PROVE  DkInv'
<1>1. /\ dkRun[r].at = "create" /\ container' = [container EXCEPT ![r] = "created"]
      /\ stray' = stray \cup {r} /\ Return(r, "error")
      /\ UNCHANGED <<host, listed, images, wordlists, cut>>
  BY DEF CreateContainer
<1>2. PICK result \in {"none", "complete", "timedout", "error"} : result = "error"
  OBVIOUS
<1>3. /\ DkMoves(r, "undo", dkRun[r].undo, dkRun[r].context)
      /\ dkResult' \in [DockerRuns -> {"none", "complete", "timedout", "error"}]
      /\ dkResult'[r] = result
      /\ \A q \in DockerRuns \ {r} : dkResult'[q] = dkResult[q]
  BY <1>1, <1>2, DkReturn DEF DkInv
<1>6. DkTypes'
  BY <1>1, <1>2, <1>3 DEF DkTypes, DkInv, DkMoves, Host
<1>7. \A q \in DockerRuns \ {r} : DkLeaves(q)
  BY <1>1, <1>2, <1>3 DEF DkLeaves, DkMoves, DkTypes, DkInv, Host
<1>8. DkNoted(r)'
  BY <1>1, <1>2, <1>3 DEF DkInv, DkTypes, DkGood, DkNoted, DkMoves, Host
<1>9. DkSwept(r)'
  BY <1>1, <1>2, <1>3 DEF DkInv, DkTypes, DkGood, DkSwept, DkMoves, Host, DkInFlight
<1>10. DkEnds(r)'
  BY <1>1, <1>2, <1>3 DEF DkInv, DkTypes, DkGood, DkEnds, DkNoted, DkMoves, Host, DkInFlight
<1> QED BY <1>6, <1>7, <1>8, <1>9, <1>10, DkOfOne DEF DkGood

(* What is undone is gone, or a failed call has left it. *)
LEMMA UndoInv ==
  ASSUME DkInv, NEW r \in DockerRuns, NEW what \in DkThings, NEW works \in BOOLEAN, Undo(r, what, works)
  PROVE  DkInv'
<1>1. /\ dkRun[r].at = "undo"
      /\ what # "container" => "container" \notin dkRun[r].undo
      /\ stray' = IF works THEN stray ELSE stray \cup {r}
      /\ container' = IF works /\ what = "container" THEN [container EXCEPT ![r] = "none"] ELSE container
      /\ images' = IF works /\ what = "image" THEN images \ {r} ELSE images
      /\ wordlists' = IF works /\ what = "wordlist" THEN wordlists \ {r} ELSE wordlists
      /\ UNCHANGED <<host, listed, dkResult, cut>>
  BY DEF Undo, RemovedAnyway
<1>2. DkMoves(r, "undo", dkRun[r].undo \ {what}, dkRun[r].context)
  BY DEF Undo, DkInv, DkTypes, DkMoves, DkPlaces, DkThings
<1>3. what \in {"container", "image", "wordlist"}
  BY DEF DkThings
<1>6. DkTypes'
  BY <1>1, <1>2, <1>3 DEF DkTypes, DkInv, DkMoves, Host
<1>7. \A q \in DockerRuns \ {r} : DkLeaves(q)
  BY <1>1, <1>2, <1>3 DEF DkLeaves, DkMoves, DkTypes, DkInv, Host
<1>8. DkNoted(r)'
  BY <1>1, <1>2, <1>3 DEF DkInv, DkTypes, DkGood, DkNoted, DkMoves, Host
<1>9. DkSwept(r)'
  BY <1>1, <1>2, <1>3 DEF DkInv, DkTypes, DkGood, DkSwept, DkMoves, Host, DkInFlight
<1>10. DkEnds(r)'
  BY <1>1, <1>2, <1>3 DEF DkInv, DkTypes, DkGood, DkEnds, DkNoted, DkMoves, Host, DkInFlight
<1> QED BY <1>6, <1>7, <1>8, <1>9, <1>10, DkOfOne DEF DkGood

(* A process that starts lists the containers of all scripts, its lost ones too. *)
LEMMA StartHostInv ==
  ASSUME DkInv, NEW p \in DockerHosts, StartHost(p)
  PROVE  DkInv'
<1>1. /\ host[p] = "down" /\ host' = [host EXCEPT ![p] = "sweeping"]
      /\ listed' = [listed EXCEPT ![p] = Sweepable]
      /\ UNCHANGED <<dkRun, dkResult, container, images, wordlists, cut, stray>>
  BY DEF StartHost, Host
<1>2. DkTypes'
  BY <1>1 DEF DkTypes, DkInv, Sweepable
<1>3. ASSUME NEW q \in DockerRuns PROVE DkGood(q)'
  <2>1. DkNoted(q)' /\ DkEnds(q)'
    BY <1>1 DEF DkInv, DkGood, DkNoted, DkEnds, DkInFlight
  <2>2. DkSwept(q)'
    <3>1. KindOf[q] = "script" /\ container[q] # "none" => q \in Sweepable
      BY DEF Sweepable
    <3>2. CASE HostOf[q] = p
      <4>1. ~DkInFlight(q) /\ host'[p] = "sweeping" /\ listed'[p] = Sweepable
        BY <1>1, <3>2 DEF DkInv, DkTypes, DkGood, DkSwept
      <4> QED BY <1>1, <3>1, <3>2, <4>1 DEF DkSwept, DkInFlight
    <3>3. CASE HostOf[q] # p
      <4>1. host'[HostOf[q]] = host[HostOf[q]] /\ listed'[HostOf[q]] = listed[HostOf[q]]
        BY <1>1, <3>3, DockerAssumption DEF DkInv, DkTypes
      <4> QED BY <1>1, <4>1 DEF DkInv, DkGood, DkSwept, DkInFlight
    <3> QED BY <3>2, <3>3
  <2> QED BY <2>1, <2>2 DEF DkGood
<1> QED BY <1>2, <1>3 DEF DkInv

(* A sweep that is over has removed what it listed, or passed it over. *)
LEMMA EndSweepInv ==
  ASSUME DkInv, NEW p \in DockerHosts, host[p] = "sweeping", EndSweep(p, listed[p]),
         UNCHANGED <<dkRun, dkResult, Host, cut>>
  PROVE  DkInv'
<1>1. /\ host' = [host EXCEPT ![p] = "up"] /\ listed' = [listed EXCEPT ![p] = {}]
      /\ stray' = stray \cup listed[p]
      /\ UNCHANGED <<dkRun, dkResult, container, images, wordlists, cut>>
  BY DEF EndSweep, Host
<1>2. DkTypes'
  BY <1>1 DEF DkTypes, DkInv
<1>3. ASSUME NEW q \in DockerRuns PROVE DkGood(q)'
  <2>1. DkNoted(q)' /\ DkEnds(q)'
    BY <1>1 DEF DkInv, DkGood, DkNoted, DkEnds, DkInFlight
  <2>2. CASE HostOf[q] = p
    <3>1. host'[p] = "up"
      BY <1>1 DEF DkInv, DkTypes
    <3> QED BY <1>1, <2>1, <2>2, <3>1 DEF DkInv, DkGood, DkSwept, DkInFlight
  <2>3. CASE HostOf[q] # p
    <3>1. host'[HostOf[q]] = host[HostOf[q]] /\ listed'[HostOf[q]] = listed[HostOf[q]]
      BY <1>1, <2>3, DockerAssumption DEF DkInv, DkTypes
    <3> QED BY <1>1, <2>1, <3>1 DEF DkInv, DkGood, DkSwept, DkInFlight
  <2> QED BY <2>2, <2>3
<1> QED BY <1>2, <1>3 DEF DkInv

(* A sweep removes under a run only what another process started. *)
LEMMA SweepOneInv ==
  ASSUME DkInv, NEW p \in DockerHosts, NEW r \in DockerRuns, SweepOne(p, r)
  PROVE  DkInv'
<1>1. /\ host[p] = "sweeping" /\ r \in listed[p] /\ container[r] # "none"
      /\ cut' = IF HostOf[r] # p THEN cut \cup {r} ELSE cut
      /\ UNCHANGED <<host, dkRun, dkResult, images, wordlists, stray>>
  BY DEF SweepOne
<1>2. \/ container' = [container EXCEPT ![r] = "killed"] /\ listed' = listed
      \/ /\ container' = [container EXCEPT ![r] = "none"]
         /\ listed' = [listed EXCEPT ![p] = @ \ {r}]
  BY DEF SweepOne
<1>3. DkTypes'
  <2>1. container' \in [DockerRuns -> {"none", "created", "running", "exited", "killed"}]
    BY <1>2 DEF DkTypes, DkInv
  <2>2. listed' \in [DockerHosts -> SUBSET DockerRuns]
    BY <1>2 DEF DkTypes, DkInv
  <2>3. cut' \subseteq DockerRuns
    BY <1>1 DEF DkTypes, DkInv
  <2> QED BY <1>1, <2>1, <2>2, <2>3 DEF DkTypes, DkInv
<1>4. DkInFlight(r) => r \in cut'
  BY <1>1 DEF DkInv, DkGood, DkSwept, DkTypes
<1>5. ASSUME NEW q \in DockerRuns PROVE DkGood(q)'
  <2>1. /\ container'[q] = container[q] \/ (q = r /\ container'[q] \in {"killed", "none"})
        /\ container'[q] # "none" => container[q] # "none"
        /\ q \in cut => q \in cut'
    <3>1. container'[q] = container[q] \/ (q = r /\ container'[q] \in {"killed", "none"})
      <4>1. PICK c \in {"killed", "none"} : container' = [container EXCEPT ![r] = c]
        BY <1>2
      <4>2. container \in [DockerRuns -> {"none", "created", "running", "exited", "killed"}]
        BY DEF DkInv, DkTypes
      <4>3. container'[q] = IF q = r THEN c ELSE container[q]
        BY <4>1, <4>2
      <4> QED BY <4>3
    <3> QED BY <1>1, <3>1
  <2>2. q \in listed[HostOf[q]] /\ container'[q] # "none" => q \in listed'[HostOf[q]]
    BY <1>1, <1>2, DockerAssumption DEF DkInv, DkTypes
  <2>3. DkNoted(q)'
    BY <1>1, <2>1 DEF DkInv, DkGood, DkNoted
  <2>4. DkSwept(q)'
    BY <1>1, <2>1, <2>2 DEF DkInv, DkGood, DkSwept, DkInFlight
  <2>5. "container" \in dkRun[q].undo => DkInFlight(q)
    BY DEF DkInv, DkGood, DkNoted, DkInFlight
  <2>6. DkEnds(q)'
    BY <1>1, <1>4, <2>1, <2>5 DEF DkInv, DkGood, DkEnds, DkInFlight
  <2> QED BY <2>3, <2>4, <2>6 DEF DkGood
<1> QED BY <1>3, <1>5 DEF DkInv

(* Runs that die with their process are left to its next sweep. *)
LEMMA CrashHostInv ==
  ASSUME DkInv, NEW p \in DockerHosts, CrashHost(p)
  PROVE  DkInv'
<1>1. /\ host' = [host EXCEPT ![p] = "down"] /\ listed' = [listed EXCEPT ![p] = {}]
      /\ dkRun' = [r \in DockerRuns |-> IF HostOf[r] = p /\ DkInFlight(r) THEN [NoDkRun EXCEPT !.at = "lost"]
                                        ELSE dkRun[r]]
      /\ UNCHANGED <<dkResult, container, images, wordlists, cut, stray>>
  BY DEF CrashHost, Host
<1>2. [NoDkRun EXCEPT !.at = "lost"] = [at |-> "lost", undo |-> {}, context |-> "live"]
  BY DEF NoDkRun
<1>3. DkTypes'
  BY <1>1, <1>2 DEF DkTypes, DkInv, DkPlaces
<1>4. ASSUME NEW q \in DockerRuns PROVE DkGood(q)'
  <2>1. CASE HostOf[q] = p /\ DkInFlight(q)
    <3>1. dkRun'[q].at = "lost" /\ dkRun'[q].undo = {} /\ host'[HostOf[q]] = "down"
      BY <1>1, <1>2, <2>1 DEF DkInv, DkTypes
    <3> QED BY <1>1, <3>1 DEF DkGood, DkNoted, DkSwept, DkEnds, DkInFlight
  <2>2. CASE ~(HostOf[q] = p /\ DkInFlight(q))
    <3>1. dkRun'[q] = dkRun[q]
      BY <1>1, <2>2
    <3>2. DkNoted(q)' /\ DkEnds(q)'
      BY <1>1, <3>1 DEF DkInv, DkGood, DkNoted, DkEnds, DkInFlight
    <3>3. \/ host'[HostOf[q]] = "down" /\ ~DkInFlight(q)
          \/ host'[HostOf[q]] = host[HostOf[q]] /\ listed'[HostOf[q]] = listed[HostOf[q]]
      BY <1>1, <2>2, DockerAssumption DEF DkInv, DkTypes
    <3>4. DkSwept(q)'
      BY <1>1, <3>1, <3>3 DEF DkInv, DkGood, DkSwept, DkInFlight
    <3> QED BY <3>2, <3>4 DEF DkGood
  <2> QED BY <2>1, <2>2
<1> QED BY <1>3, <1>4 DEF DkInv

(* Every step keeps the invariant. *)
LEMMA DkStepInv ==
  ASSUME DkInv, [DkNext]_DkVars
  PROVE  DkInv'
<1>1. ASSUME NEW r \in DockerRuns, DkStep(r) PROVE DkInv'
  <2>1. ASSUME NEW how \in {"built", "failed", "unread"}, BuildImage(r, how) PROVE DkInv'
    BY <2>1, BuildWorksInv, BuildFailsInv
  <2>2. ASSUME NEW works \in BOOLEAN, CreateContainer(r, works) PROVE DkInv'
    BY <2>2, CreateWorksInv, CreateFailsInv
  <2>3. ASSUME NEW what \in {"container", "image", "wordlist"}, NEW works \in BOOLEAN, Undo(r, what, works)
        PROVE  DkInv'
    BY <2>3, UndoInv DEF DkThings
  <2> QED BY <1>1, <2>1, <2>2, <2>3, BeginInv, TimeIsUpInv, WriteListInv, CallFailsInv, PullInv,
             StartContainerInv, StartsNothingInv, WaitInv, ReadLogsInv, FinishRunInv DEF DkStep
<1>2. ASSUME NEW p \in DockerHosts, NEW r \in DockerRuns, SweepStops(p, r) PROVE DkInv'
  BY <1>2, EndSweepInv DEF SweepStops
<1>3. ASSUME NEW p \in DockerHosts, SweepEnds(p) PROVE DkInv'
  <2>1. host[p] = "sweeping" /\ listed[p] = {} /\ EndSweep(p, {}) /\ UNCHANGED <<dkRun, dkResult, Host, cut>>
    BY <1>3 DEF SweepEnds
  <2>2. EndSweep(p, listed[p])
    BY <2>1
  <2> QED BY <2>1, <2>2, EndSweepInv
<1>4. ASSUME UNCHANGED DkVars PROVE DkInv'
  <2>1. DkTypes'
    BY <1>4 DEF DkVars, Host, DkInv, DkTypes
  <2>2. ASSUME NEW q \in DockerRuns PROVE DkGood(q)'
    <3>1. DkLeaves(q)
      BY <1>4 DEF DkVars, Host, DkLeaves
    <3> QED BY <3>1, DkLeft DEF DkInv
  <2> QED BY <2>1, <2>2 DEF DkInv
<1> QED BY <1>1, <1>2, <1>3, <1>4, ExitInv, StartHostInv, SweepOneInv, CrashHostInv DEF DkNext

(* The invariant says what the property asks for. *)
LEMMA DkSound == DkInv => HostKeptClean
<1> SUFFICES ASSUME DkInv PROVE HostKeptClean
  OBVIOUS
<1>1. NothingLeftOnTheHost
  <2> SUFFICES ASSUME NEW r \in DockerRuns \ stray
      PROVE  /\ dkRun[r].at = "done" => container[r] = "none" /\ r \notin images /\ r \notin wordlists
             /\ (\A p \in DockerHosts : host[p] = "up") /\ dkRun[r].at = "lost" /\ KindOf[r] = "script"
                  => container[r] = "none"
    BY DEF NothingLeftOnTheHost
  <2> QED BY DockerAssumption DEF DkInv, DkGood, DkNoted, DkSwept
<1>2. CompleteMeansEnded
  BY DEF CompleteMeansEnded, DkInv, DkGood, DkEnds
<1> QED BY <1>1, <1>2 DEF HostKeptClean

(* For any processes, runs and scans that share a Docker host, any number of starts,
   crashes and failed calls: a run takes away what it made before it is over, what a
   dead script left is swept when its process is back, and what is returned as
   complete was printed by a tool that came to its end, unless the sweep of another
   process killed it: the property HostKeptClean of the run engines.            *)
THEOREM HostStaysClean == DkSpec => []HostKeptClean
<1>1. DkInit => DkInv
  <2> SUFFICES ASSUME DkInit PROVE DkInv
    OBVIOUS
  <2>1. DkTypes
    BY DEF DkInit, DkTypes, NoDkRun, DkPlaces
  <2>2. ASSUME NEW r \in DockerRuns PROVE DkGood(r)
    BY DEF DkInit, NoDkRun, DkGood, DkNoted, DkSwept, DkEnds, DkInFlight
  <2> QED BY <2>1, <2>2 DEF DkInv
<1>2. DkInv /\ [DkNext]_DkVars => DkInv'
  BY DkStepInv
<1> QED BY <1>1, <1>2, DkSound, PTL DEF DkSpec

-----------------------------------------------------------------------------
(***************************************************************************)
(* A pentest. Which issues are stored is decided in the last stages, so    *)
(* the invariant follows the findings through the pipeline: all that was   *)
(* found is buffered until Correlation, grouped from there on, and emitted *)
(* from Confidence on (OnItsWay); a run that ends early has emitted all of *)
(* its groups or none; and what is stored has one row for each fingerprint *)
(* emitted.                                                                *)
(***************************************************************************)

\* What Correlation makes of all that was found
Grouped == Merge(found)

\* They come before correlation, which is the 12th of the stages.
FindingStages == {"asset_discovery", "directory_enum", "fingerprint", "vuln_detect"}

\* How far a run that goes on has come
OnItsWay ==
    \/ stage <= 12 /\ pending = found /\ emitted = {}
    \/ stage = 13 /\ groups = Grouped /\ emitted = {}
    \/ stage > 13 /\ groups = Grouped /\ emitted = Grouped

PtInv ==
    /\ stage \in 1 .. 16 /\ found \subseteq Detectable
    /\ fate \in {"running", "succeeded", "failed", "cancelled", "died"}
    /\ fate = "running" => OnItsWay /\ ~closed
    /\ fate = "succeeded" => emitted = Grouped
    /\ emitted = {} \/ emitted = Grouped
    /\ fate = "died" => ~closed
    /\ closed =>
         /\ stored \subseteq emitted
         /\ \A G \in emitted : \E H \in stored : FingerprintOf(H) = FingerprintOf(G)

(* Where in the pipeline the stages are. *)
LEMMA Places ==
  ASSUME NEW n, At(n), stage \in 1 .. 16
  PROVE  /\ stage \in 1 .. 15
         /\ n = "correlation" <=> stage = 12
         /\ n = "confidence" <=> stage = 13
         /\ n \in {"recon", "asset_discovery", "asset_validation", "service_discovery",
                   "endpoint_discovery", "directory_enum", "endpoint_validation", "fingerprint",
                   "vuln_detect"} => stage < 12
  BY DEF At, Pipeline

(* A stage that finds nothing keeps the invariant. *)
LEMMA StageGoesOn ==
  ASSUME PtInv, NEW n, EnterStage(n), n \notin {"correlation", "confidence"},
         found' = found, pending' = pending, groups' = groups, emitted' = emitted
  PROVE  PtInv'
<1>1. stage \in 1 .. 15 /\ stage # 12 /\ stage # 13 /\ stage' = stage + 1
  BY Places DEF PtInv, EnterStage
<1>2. Grouped' = Grouped
  BY DEF Grouped, Merge, DedupKey
<1>3. OnItsWay'
  BY <1>1, <1>2 DEF PtInv, OnItsWay, EnterStage
<1>4. /\ fate' = fate /\ closed' = closed /\ stored' = stored /\ fate = "running" /\ ~closed
  BY DEF EnterStage, PtInv
<1> QED BY <1>1, <1>2, <1>3, <1>4 DEF PtInv

(* A stage that comes before the groups buffers all it finds. *)
LEMMA StageFinds ==
  ASSUME PtInv, NEW n, EnterStage(n), NEW new, new \subseteq Detectable, Buffer(new),
         n \in FindingStages,
         emitted' = emitted
  PROVE  PtInv'
<1>1. stage \in 1 .. 11 /\ stage' = stage + 1
  BY Places DEF PtInv, EnterStage, FindingStages
<1>2. OnItsWay'
  BY <1>1 DEF PtInv, OnItsWay, EnterStage, Buffer
<1>3. emitted = {}
  BY <1>1 DEF PtInv, OnItsWay, EnterStage
<1>4. /\ fate' = fate /\ closed' = closed /\ stored' = stored /\ fate = "running" /\ ~closed
  BY DEF EnterStage, PtInv
<1>5. found' \subseteq Detectable
  BY DEF Buffer, PtInv
<1> QED BY <1>1, <1>2, <1>3, <1>4, <1>5 DEF PtInv

(* Every step keeps the invariant. *)
LEMMA PtStepInv ==
  ASSUME PtInv, [PtNext]_PtVars
  PROVE  PtInv'
<1>1. ASSUME NEW n \in {"target_intake", "port_discovery", "evidence", "report_handoff"}, PassStage(n)
      PROVE  PtInv'
  BY <1>1, StageGoesOn DEF PassStage
<1>2. ASSUME Recon PROVE PtInv'
  <2>1. PICK n : n = "recon"
    OBVIOUS
  <2>2. /\ EnterStage(n) /\ n \notin {"correlation", "confidence"}
        /\ UNCHANGED <<found, pending, groups, emitted>>
    BY <1>2, <2>1 DEF Recon
  <2> QED BY <2>2, StageGoesOn
<1>3. ASSUME AssetDiscovery PROVE PtInv'
  <2>1. PICK new \in SUBSET Findable("asset_discovery") : Buffer(new)
    BY <1>3 DEF AssetDiscovery
  <2>2. new \subseteq Detectable
    BY <2>1 DEF Findable
  <2>3. PICK n : n = "asset_discovery"
    OBVIOUS
  <2>4. /\ EnterStage(n) /\ n \in FindingStages
        /\ Buffer(new) /\ emitted' = emitted
    BY <1>3, <2>1, <2>2, <2>3 DEF AssetDiscovery, FindingStages
  <2> QED BY <2>4, <2>2, StageFinds
<1>4. ASSUME AssetValidation PROVE PtInv'
  <2>1. PICK n : n = "asset_validation"
    OBVIOUS
  <2>2. /\ EnterStage(n) /\ n \notin {"correlation", "confidence"}
        /\ UNCHANGED <<found, pending, groups, emitted>>
    BY <1>4, <2>1 DEF AssetValidation
  <2> QED BY <2>2, StageGoesOn
<1>5. ASSUME ServiceDiscovery PROVE PtInv'
  <2>1. PICK n : n = "service_discovery"
    OBVIOUS
  <2>2. /\ EnterStage(n) /\ n \notin {"correlation", "confidence"}
        /\ UNCHANGED <<found, pending, groups, emitted>>
    BY <1>5, <2>1 DEF ServiceDiscovery
  <2> QED BY <2>2, StageGoesOn
<1>6. ASSUME EndpointDiscovery PROVE PtInv'
  <2>1. PICK n : n = "endpoint_discovery"
    OBVIOUS
  <2>2. /\ EnterStage(n) /\ n \notin {"correlation", "confidence"}
        /\ UNCHANGED <<found, pending, groups, emitted>>
    BY <1>6, <2>1 DEF EndpointDiscovery
  <2> QED BY <2>2, StageGoesOn
<1>7. ASSUME DirectoryEnum PROVE PtInv'
  <2>1. PICK new : new \subseteq Findable("directory_enum") /\ Buffer(new)
    BY <1>7 DEF DirectoryEnum
  <2>2. new \subseteq Detectable
    BY <2>1 DEF Findable
  <2>3. PICK n : n = "directory_enum"
    OBVIOUS
  <2>4. /\ EnterStage(n) /\ n \in FindingStages
        /\ Buffer(new) /\ emitted' = emitted
    BY <1>7, <2>1, <2>2, <2>3 DEF DirectoryEnum, FindingStages
  <2> QED BY <2>4, <2>2, StageFinds
<1>8. ASSUME EndpointValidation PROVE PtInv'
  <2>1. PICK n : n = "endpoint_validation"
    OBVIOUS
  <2>2. /\ EnterStage(n) /\ n \notin {"correlation", "confidence"}
        /\ UNCHANGED <<found, pending, groups, emitted>>
    BY <1>8, <2>1 DEF EndpointValidation
  <2> QED BY <2>2, StageGoesOn
<1>9. ASSUME Fingerprint PROVE PtInv'
  <2>1. PICK new : new \subseteq Findable("fingerprint") /\ Buffer(new)
    BY <1>9 DEF Fingerprint
  <2>2. new \subseteq Detectable
    BY <2>1 DEF Findable
  <2>3. PICK n : n = "fingerprint"
    OBVIOUS
  <2>4. /\ EnterStage(n) /\ n \in FindingStages
        /\ Buffer(new) /\ emitted' = emitted
    BY <1>9, <2>1, <2>2, <2>3 DEF Fingerprint, FindingStages
  <2> QED BY <2>4, <2>2, StageFinds
<1>10. ASSUME VulnDetect PROVE PtInv'
  <2>1. PICK missing \in SUBSET Findable("headers"),
             matched \in SUBSET {f \in Findable("nuclei") : f.base \in Swept} :
          Buffer(missing \cup matched)
    BY <1>10 DEF VulnDetect
  <2>2. PICK new : new = missing \cup matched
    OBVIOUS
  <2>3. new \subseteq Detectable
    BY <2>2 DEF Findable
  <2>4. PICK n : n = "vuln_detect"
    OBVIOUS
  <2>5. /\ EnterStage(n) /\ n \in FindingStages
        /\ Buffer(new) /\ emitted' = emitted
    BY <1>10, <2>1, <2>2, <2>4 DEF VulnDetect, FindingStages
  <2> QED BY <2>5, <2>3, StageFinds
<1>11. ASSUME Correlate PROVE PtInv'
  <2>1. stage = 12 /\ stage' = 13 /\ found' = found /\ emitted' = emitted
    BY <1>11, Places DEF Correlate, EnterStage, PtInv
  <2>2. pending = found /\ emitted = {}
    BY <1>11, <2>1 DEF Correlate, EnterStage, PtInv, OnItsWay
  <2>3. groups' = Grouped /\ Grouped' = Grouped
    BY <1>11, <2>1, <2>2 DEF Correlate, Grouped, Merge, DedupKey
  <2>4. OnItsWay'
    BY <2>1, <2>2, <2>3 DEF OnItsWay
  <2>5. fate' = fate /\ closed' = closed /\ stored' = stored /\ fate = "running" /\ ~closed
    BY <1>11 DEF Correlate, EnterStage, PtInv
  <2> QED BY <2>1, <2>2, <2>3, <2>4, <2>5 DEF PtInv
<1>12. ASSUME Confidence PROVE PtInv'
  <2>1. stage = 13 /\ stage' = 14 /\ found' = found /\ groups' = groups /\ emitted' = groups
    BY <1>12, Places DEF Confidence, EnterStage, PtInv
  <2>2. groups = Grouped
    BY <1>12, <2>1 DEF Confidence, EnterStage, PtInv, OnItsWay
  <2>3. Grouped' = Grouped
    BY <2>1 DEF Grouped, Merge, DedupKey
  <2>4. OnItsWay' /\ emitted' = Grouped'
    BY <2>1, <2>2, <2>3 DEF OnItsWay
  <2>5. fate' = fate /\ closed' = closed /\ stored' = stored /\ fate = "running" /\ ~closed
    BY <1>12 DEF Confidence, EnterStage, PtInv
  <2> QED BY <2>1, <2>3, <2>4, <2>5 DEF PtInv
<1>13. ASSUME NEW how \in {"failed", "cancelled"}, EndEarly(how) PROVE PtInv'
  <2>1. Grouped' = Grouped
    BY <1>13 DEF EndEarly, Grouped, Merge, DedupKey
  <2> QED BY <1>13, <2>1 DEF EndEarly, PtInv
<1>14. ASSUME NEW how \in {"succeeded", "cancelled"}, EndOfPipeline(how) PROVE PtInv'
  <2>1. Grouped' = Grouped
    BY <1>14 DEF EndOfPipeline, Grouped, Merge, DedupKey
  <2>2. stage = 16 /\ Len(Pipeline) = 15
    BY <1>14 DEF EndOfPipeline, PtInv, Pipeline
  <2>3. emitted = Grouped
    BY <1>14, <2>2 DEF EndOfPipeline, PtInv, OnItsWay
  <2> QED BY <1>14, <2>1, <2>3 DEF EndOfPipeline, PtInv
<1>15. ASSUME Ingest PROVE PtInv'
  <2>1. Grouped' = Grouped
    BY <1>15 DEF Ingest, PtKept, Grouped, Merge, DedupKey
  <2> QED BY <1>15, <2>1 DEF Ingest, PtKept, PtInv
<1>16. ASSUME Persist PROVE PtInv'
  <2>0. found' = found
    BY <1>16 DEF Persist, PtKept
  <2>1. Grouped' = Grouped
    BY <2>0 DEF Grouped, Merge, DedupKey
  <2>2. fate \in {"failed", "cancelled", "succeeded"} /\ fate' = fate /\ emitted' = emitted
        /\ stage' = stage /\ found' = found
    BY <1>16 DEF Persist, PtKept
  <2>3. stored' \subseteq emitted
        /\ \A G \in emitted : \E H \in stored' : FingerprintOf(H) = FingerprintOf(G)
    BY <1>16 DEF Persist
  <2> QED BY <2>1, <2>2, <2>3 DEF PtInv
<1>17. ASSUME LoseRun PROVE PtInv'
  BY <1>17 DEF LoseRun, PtInv
<1>18. ASSUME UNCHANGED PtVars PROVE PtInv'
  <2>1. Grouped' = Grouped
    BY <1>18 DEF PtVars, Grouped, Merge, DedupKey
  <2> QED BY <1>18, <2>1 DEF PtVars, PtInv, OnItsWay
<1> QED BY <1>1, <1>2, <1>3, <1>4, <1>5, <1>6, <1>7, <1>8, <1>9, <1>10, <1>11, <1>12, <1>13,
           <1>14, <1>15, <1>16, <1>17, <1>18 DEF PtNext, PtStep

(* The findings that Merge puts together are one issue. *)
LEMMA GroupIsIssue ==
  ASSUME PentestAssumption, found \subseteq Detectable, NEW f \in found
  PROVE  {g \in found : g.rule = f.rule /\ DedupKey(g) = DedupKey(f)} = Issue(f)
<1>1. ASSUME NEW g \in found, g.rule = f.rule
      PROVE  DedupKey(g) = DedupKey(f) <=> SameIssue(f, g)
  <2>1. g.scope = f.scope /\ f.scope \in Scopes
    BY <1>1 DEF PentestAssumption
  <2> QED BY <1>1, <2>1 DEF DedupKey, SameIssue, Scopes
<1> QED BY <1>1 DEF Issue, SameIssue

(* The invariant says what the property asks for. *)
LEMMA PtSound == PtInv => OneRowPerIssue
<1> SUFFICES ASSUME PtInv, closed PROVE OneRowPerIssue
  BY DEF OneRowPerIssue
<1>1. Grouped = {Issue(f) : f \in found}
  <2>1. \A f \in found : {g \in found : g.rule = f.rule /\ DedupKey(g) = DedupKey(f)} = Issue(f)
    BY GroupIsIssue, PentestAssumption DEF PtInv
  <2> QED BY <2>1, Zenon DEF Grouped, Merge
<1>2. \A G \in stored : \E f \in found : G = Issue(f)
  BY <1>1 DEF PtInv
<1>3. ASSUME fate = "succeeded" \/ emitted # {}, NEW f \in found
      PROVE  Issue(f) \in stored \/ Outdone(f)
  <2>1. Issue(f) \in emitted
    BY <1>1, <1>3 DEF PtInv
  <2>2. PICK H \in stored : FingerprintOf(H) = FingerprintOf(Issue(f))
    BY <2>1 DEF PtInv
  <2>3. PICK h \in found : H = Issue(h)
    BY <1>2
  <2>4. h \in H /\ f \in Issue(f) /\ \A g \in H : g.rule = h.rule
    BY <2>3 DEF Issue, SameIssue
  <2>5. \A g \in Issue(f) : g.rule = f.rule
    BY DEF Issue, SameIssue
  <2> DEFINE a == CHOOSE a \in H : TRUE
             b == CHOOSE b \in Issue(f) : TRUE
  <2>6. a \in H /\ b \in Issue(f)
    BY <2>4
  <2>7. a.rule = b.rule /\ PortsOf(H) = PortsOf(Issue(f))
    BY <2>2 DEF FingerprintOf, PortsOf
  <2> HIDE DEF a, b
  <2>8. \A g \in H : g.rule = f.rule
    BY <2>4, <2>5, <2>6, <2>7
  <2> QED BY <2>7, <2>8 DEF Outdone
<1> QED BY <1>2, <1>3 DEF OneRowPerIssue

(* For any findings, ports and names, wherever in the pipeline a run fails, is cancelled
   or dies: once its result is committed, every row of findings is about one issue,
   and each issue of a run that got as far as Confidence has a row, or another of its
   rule at the same ports has: the property OneRowPerIssue of the run
   worker_services.                                                             *)
THEOREM OneRowEach == PtSpec => []OneRowPerIssue
<1>1. PtInit => PtInv
  BY DEF PtInit, PtInv, OnItsWay
<1>2. PtInv /\ [PtNext]_PtVars => PtInv'
  BY PtStepInv
<1> QED BY <1>1, <1>2, PtSound, PTL DEF PtSpec
=============================================================================
