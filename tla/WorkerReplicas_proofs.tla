---------------------- MODULE WorkerReplicas_proofs ----------------------
(***************************************************************************)
(* Proofs about the replicas of the worker: their schedules, their outbox, *)
(* and how they come up and go down, for any number of replicas, crons,    *)
(* slots, scans, senders, rules, migrations, edits, faults and lapses.     *)
(*                                                                         *)
(* A slot is fired, and a report mailed, no more often than a budget       *)
(* allows: what was done of it and what may still be done of it is at most *)
(* one and what has gone wrong so far.  A step that does it uses up what   *)
(* may still be done; a step that makes more of it possible is a fault, an *)
(* edit or a lapse.                                                        *)
(*                                                                         *)
(* Nothing a process relies on is taken back: the migrations and the rules *)
(* only become more, so one process is in order (InOrder) whatever the     *)
(* others do.  Its own steps keep what it has passed: the migrations, the  *)
(* rules, what it opened, and whose turn it is when it closes.             *)
(***************************************************************************)
EXTENDS WorkerReplicas, FiniteSetTheorems, FunctionTheorems, TLAPS

(* One element more.                                                           *)
LEMMA OneMore ==
  ASSUME NEW S, IsFiniteSet(S), NEW x
  PROVE  /\ IsFiniteSet(S \cup {x}) /\ Cardinality(S \cup {x}) \in Nat
         /\ Cardinality(S \cup {x}) <= Cardinality(S) + 1
<1>1. Cardinality(S) \in Nat
  BY FS_CardinalityType
<1>2. /\ IsFiniteSet(S \cup {x})
      /\ Cardinality(S \cup {x}) = IF x \in S THEN Cardinality(S) ELSE Cardinality(S) + 1
  BY FS_AddElement
<1> DEFINE m == Cardinality(S)
           n == Cardinality(S \cup {x})
<1>3. m \in Nat /\ (n = m \/ n = m + 1)
  BY <1>1, <1>2
<1> HIDE DEF m, n
<1>4. n \in Nat /\ n <= m + 1
  BY <1>3
<1> QED BY <1>2, <1>4 DEF m, n

(* One element less.                                                           *)
LEMMA OneLess ==
  ASSUME NEW S, IsFiniteSet(S), NEW x \in S, NEW T \in SUBSET S, x \notin T
  PROVE  /\ IsFiniteSet(T) /\ Cardinality(T) \in Nat /\ Cardinality(T) <= Cardinality(S) - 1
<1>1. IsFiniteSet(T) /\ Cardinality(T) \in Nat /\ Cardinality(S) \in Nat
  BY FS_Subset, FS_CardinalityType
<1>2. Cardinality(T) <= Cardinality(S)
  BY FS_Subset
<1>3. Cardinality(T) # Cardinality(S)
  BY FS_Subset
<1> DEFINE m == Cardinality(S)
           n == Cardinality(T)
<1>4. m \in Nat /\ n \in Nat /\ n <= m /\ n # m
  BY <1>1, <1>2, <1>3
<1> HIDE DEF m, n
<1>5. n <= m - 1
  BY <1>4
<1> QED BY <1>1, <1>5 DEF m, n

-----------------------------------------------------------------------------
(*****************************************************************************)
(* The schedules                                                           *)
(*****************************************************************************)

(* A firing still to come of slot t by replica r: its tick has the slot in     *)
(* hand; or the row says it is due then, and r has not seen it; or an edit     *)
(* that has read the row will say so.                                          *)
InHand(r, t) == IF tick[r].at \in {"read", "create"} /\ tick[r].slot = t THEN 1 ELSE 0
OnRow(r, t) == IF schedule.next = t /\ ~(tick[r].at # "rest" /\ tick[r].slot = t) THEN 1 ELSE 0
InEdit(t) == IF edit # NoEdit /\ edit.next = t THEN 1 ELSE 0

(* How often a replica has fired a slot.                                       *)
Times(r, t) == Cardinality(FiredBy(r, t))

(* What a replica has fired of a slot and may still fire of it.                *)
Budget(r, t) == Times(r, t) + InHand(r, t) + OnRow(r, t) + InEdit(t) <= 1 + scFaults + edits

TickOK(r) ==
    /\ tick[r].slot <= clock
    /\ tick[r].at \in {"create", "record"} => tick[r].cron \in Crons

ScInv ==
    /\ ScTypeOK /\ IsFiniteSet(fired)
    /\ edit # NoEdit => edits >= 1
    /\ \A r \in Replicas : TickOK(r)
    /\ \A r \in Replicas, t \in 1 .. clock : Budget(r, t)

(* The next run after a time is after that time.                               *)
LEMMA NextRunIsLater ==
  ASSUME NEW cron \in Nat \ {0}, NEW t \in Nat
  PROVE  NextRun(cron, t) \in Nat /\ NextRun(cron, t) > t
<1> DEFINE q == t \div cron
           m == t % cron
<1>1. q \in Nat /\ m \in 0 .. cron - 1 /\ t = cron * q + m
  OBVIOUS
<1>2. (q + 1) * cron = cron * q + cron /\ cron * q \in Nat
  BY <1>1
<1> QED BY <1>1, <1>2 DEF NextRun

(* A replica has fired a slot finitely often.                                  *)
LEMMA TimesAreFinite ==
  ASSUME ScInv, NEW r, NEW t
  PROVE  IsFiniteSet(FiredBy(r, t)) /\ Times(r, t) \in Nat
<1>1. FiredBy(r, t) \in SUBSET fired
  BY DEF FiredBy
<1> QED BY <1>1, FS_Subset, FS_CardinalityType DEF ScInv, Times

(* A slot that has not come has not been fired.                                *)
LEMMA NothingFiredYet ==
  ASSUME ScInv, NEW r \in Replicas, NEW t \in Nat, t > clock
  PROVE  Times(r, t) = 0 /\ InHand(r, t) = 0
<1>1. FiredBy(r, t) = {}
  BY DEF ScInv, ScTypeOK, FiredBy
<1>2. InHand(r, t) = 0
  BY DEF ScInv, ScTypeOK, TickOK, InHand
<1> QED BY <1>1, <1>2, FS_EmptySet DEF Times

(* Where nothing is fired, it is enough that what is still to come does not    *)
(* grow by more than the faults and edits do.                                  *)
LEMMA SameTimes ==
  ASSUME fired' = fired, NEW r, NEW t
  PROVE  Times(r, t)' = Times(r, t)
BY DEF Times, FiredBy

(* At first no replica has seen anything: each may fire the slot on the row    *)
(* once.                                                                       *)
LEMMA ScInitKeeps == ScInit => ScInv
<1> SUFFICES ASSUME ScInit PROVE ScInv
  OBVIOUS
<1>1. PICK c \in Crons : schedule = [cron |-> c, enabled |-> TRUE, next |-> NextRun(c, 0)]
  BY DEF ScInit
<1>2. NextRun(c, 0) \in Nat
  BY NextRunIsLater, SchedulesAssumption DEF SchedulesAssumption
<1>3. ScTypeOK
  BY <1>1, <1>2, SchedulesAssumption
  DEF ScInit, ScTypeOK, Row, Deleted, NoEdit, AtRest, SchedulesAssumption
<1>4. \A r \in Replicas : TickOK(r)
  BY DEF ScInit, TickOK, AtRest
<1> QED BY <1>3, <1>4, FS_EmptySet DEF ScInv, ScInit, NoEdit

(* A slot that comes now may be fired once, by the row.                        *)
LEMMA TimePassesKeeps ==
  ASSUME ScInv, TimePasses
  PROVE  ScInv'
<1> USE DEF TimePasses
<1>1. ScTypeOK' /\ IsFiniteSet(fired)' /\ (edit # NoEdit => edits >= 1)'
  BY SchedulesAssumption DEF ScInv, ScTypeOK, SchedulesAssumption
<1>2. \A r \in Replicas : TickOK(r)'
  BY DEF ScInv, ScTypeOK, TickOK
<1>3. ASSUME NEW r \in Replicas, NEW t \in 1 .. clock + 1
      PROVE  Budget(r, t)'
  <2>1. /\ Times(r, t)' = Times(r, t) /\ InHand(r, t)' = InHand(r, t)
        /\ OnRow(r, t)' = OnRow(r, t) /\ InEdit(t)' = InEdit(t)
    BY SameTimes DEF InHand, OnRow, InEdit
  <2>2. CASE t <= clock
    BY <1>3, <2>1, <2>2 DEF ScInv, ScTypeOK, Budget
  <2>3. CASE t > clock
    <3>1. Times(r, t) = 0 /\ InHand(r, t) = 0
      BY <1>3, <2>3, NothingFiredYet DEF ScInv, ScTypeOK
    <3> QED BY <2>1, <3>1 DEF ScInv, ScTypeOK, Budget, OnRow, InEdit
  <2> QED BY <1>3, <2>2, <2>3 DEF ScInv, ScTypeOK
<1> QED BY <1>1, <1>2, <1>3 DEF ScInv

(* A tick that finds the row due takes the slot of the row in hand.            *)
LEMMA ListKeeps ==
  ASSUME ScInv, NEW r \in Replicas, ListSchedule(r)
  PROVE  ScInv'
<1> USE DEF ListSchedule
<1>1. ScTypeOK' /\ IsFiniteSet(fired)' /\ (edit # NoEdit => edits >= 1)'
  BY SchedulesAssumption DEF ScInv, ScTypeOK, AtRest, Row, Deleted
<1>2. \A q \in Replicas : TickOK(q)'
  BY DEF ScInv, ScTypeOK, TickOK, IsDue, AtRest, Row, Deleted
<1>3. ASSUME NEW q \in Replicas, NEW t \in 1 .. clock
      PROVE  Budget(q, t)'
  <2>1. Times(q, t)' = Times(q, t) /\ InEdit(t)' = InEdit(t)
    BY SameTimes DEF InEdit
  <2>2. InHand(q, t)' + OnRow(q, t)' <= InHand(q, t) + OnRow(q, t)
    BY DEF ScInv, ScTypeOK, InHand, OnRow, AtRest
  <2>3. InHand(q, t)' \in Nat /\ OnRow(q, t)' \in Nat /\ InEdit(t) \in Nat
        /\ InHand(q, t) \in Nat /\ OnRow(q, t) \in Nat
    BY DEF InHand, OnRow, InEdit
  <2> QED BY <2>1, <2>2, <2>3, TimesAreFinite DEF ScInv, ScTypeOK, Budget
<1> QED BY <1>1, <1>2, <1>3 DEF ScInv

(* A tick that reads the row again keeps the slot it was listed with, or       *)
(* rests.                                                                      *)
LEMMA ReadKeeps ==
  ASSUME ScInv, NEW r \in Replicas, NEW next \in {"create", "record"}, ReadSchedule(r, next)
  PROVE  ScInv'
<1> USE DEF ReadSchedule
<1>1. ScTypeOK' /\ IsFiniteSet(fired)' /\ (edit # NoEdit => edits >= 1)'
  BY SchedulesAssumption DEF ScInv, ScTypeOK, AtRest, Row, Deleted
<1>2. \A q \in Replicas : TickOK(q)'
  BY DEF ScInv, ScTypeOK, TickOK, AtRest, Row, Deleted
<1>3. ASSUME NEW q \in Replicas, NEW t \in 1 .. clock
      PROVE  Budget(q, t)'
  <2>1. Times(q, t)' = Times(q, t) /\ InEdit(t)' = InEdit(t)
    BY SameTimes DEF InEdit
  <2>2. InHand(q, t)' + OnRow(q, t)' <= InHand(q, t) + OnRow(q, t)
    BY DEF ScInv, ScTypeOK, InHand, OnRow, AtRest, Deleted
  <2>3. InHand(q, t)' \in Nat /\ OnRow(q, t)' \in Nat /\ InEdit(t) \in Nat
        /\ InHand(q, t) \in Nat /\ OnRow(q, t) \in Nat
    BY DEF InHand, OnRow, InEdit
  <2> QED BY <2>1, <2>2, <2>3, TimesAreFinite DEF ScInv, ScTypeOK, Budget
<1> QED BY <1>1, <1>2, <1>3 DEF ScInv

(* A scan that is created for a slot is no longer to come.                     *)
LEMMA CreateKeeps ==
  ASSUME ScInv, NEW r \in Replicas, CreateScheduledScan(r)
  PROVE  ScInv'
<1> DEFINE s == tick[r].slot
           f == [by |-> r, slot |-> s, nth |-> Cardinality(FiredBy(r, s))]
<1> USE DEF CreateScheduledScan
<1>0. Cardinality(FiredBy(r, s)) \in Nat /\ s \in Nat /\ s <= clock
  BY TimesAreFinite DEF ScInv, ScTypeOK, TickOK, Times
<1>1. ScTypeOK' /\ (edit # NoEdit => edits >= 1)'
  BY <1>0 DEF ScInv, ScTypeOK
<1>2. IsFiniteSet(fired)'
  BY FS_AddElement DEF ScInv
<1>3. \A q \in Replicas : TickOK(q)'
  BY DEF ScInv, ScTypeOK, TickOK
<1>4. ASSUME NEW q \in Replicas, NEW t \in 1 .. clock
      PROVE  Budget(q, t)'
  <2>1. InEdit(t)' = InEdit(t) /\ OnRow(q, t)' = OnRow(q, t)
    BY DEF ScInv, ScTypeOK, InEdit, OnRow
  <2>2. CASE q = r /\ t = s
    <3>1. FiredBy(q, t)' = FiredBy(q, t) \cup {f}
      BY <2>2 DEF FiredBy
    <3>2. IsFiniteSet(FiredBy(q, t)) /\ Cardinality(FiredBy(q, t)) \in Nat
      BY TimesAreFinite DEF Times
    <3>a. /\ Cardinality(FiredBy(q, t) \cup {f}) <= Cardinality(FiredBy(q, t)) + 1
          /\ Cardinality(FiredBy(q, t) \cup {f}) \in Nat
      BY <3>2, OneMore
    <3>b. Times(q, t)' <= Times(q, t) + 1 /\ Times(q, t)' \in Nat
      BY <3>1, <3>a DEF Times
    <3>3. InHand(q, t) = 1 /\ InHand(q, t)' = 0
      BY <2>2 DEF ScInv, ScTypeOK, InHand
    <3>4. InEdit(t) \in Nat /\ OnRow(q, t) \in Nat
      BY DEF InEdit, OnRow
    <3> QED BY <2>1, <3>b, <3>3, <3>4, TimesAreFinite DEF ScInv, ScTypeOK, Budget
  <2>3. CASE ~(q = r /\ t = s)
    <3>1. FiredBy(q, t)' = FiredBy(q, t)
      BY <2>3 DEF FiredBy
    <3>2. InHand(q, t)' = InHand(q, t)
      BY <2>3 DEF ScInv, ScTypeOK, InHand
    <3> QED BY <2>1, <3>1, <3>2 DEF ScInv, Budget, Times
  <2> QED BY <2>2, <2>3
<1> QED BY <1>1, <1>2, <1>3, <1>4 DEF ScInv

(* A scan that is refused is not fired.                                        *)
LEMMA SkipKeeps ==
  ASSUME ScInv, NEW r \in Replicas, SkipScheduledScan(r)
  PROVE  ScInv'
<1> USE DEF SkipScheduledScan
<1>1. ScTypeOK' /\ IsFiniteSet(fired)' /\ (edit # NoEdit => edits >= 1)'
  BY DEF ScInv, ScTypeOK
<1>2. \A q \in Replicas : TickOK(q)'
  BY DEF ScInv, ScTypeOK, TickOK
<1>3. ASSUME NEW q \in Replicas, NEW t \in 1 .. clock
      PROVE  Budget(q, t)'
  <2>1. Times(q, t)' = Times(q, t) /\ InEdit(t)' = InEdit(t)
    BY SameTimes DEF InEdit
  <2>2. InHand(q, t)' <= InHand(q, t) /\ OnRow(q, t)' = OnRow(q, t)
    BY DEF ScInv, ScTypeOK, InHand, OnRow
  <2>3. InHand(q, t)' \in Nat /\ InEdit(t) \in Nat /\ InHand(q, t) \in Nat /\ OnRow(q, t) \in Nat
    BY DEF InHand, OnRow, InEdit
  <2> QED BY <2>1, <2>2, <2>3, TimesAreFinite DEF ScInv, ScTypeOK, Budget
<1> QED BY <1>1, <1>2, <1>3 DEF ScInv

(* The run after is later than any slot that has come: the row says none of    *)
(* them any more.                                                              *)
LEMMA RecordKeeps ==
  ASSUME ScInv, NEW r \in Replicas, RecordRun(r)
  PROVE  ScInv'
<1> USE DEF RecordRun
<1>0. tick[r].cron \in Crons /\ clock \in Nat
      /\ RunAfter(tick[r].cron) \in Nat /\ RunAfter(tick[r].cron) > clock
  BY NextRunIsLater, SchedulesAssumption
  DEF ScInv, ScTypeOK, TickOK, SchedulesAssumption, RunAfter
<1>1. ScTypeOK' /\ IsFiniteSet(fired)' /\ (edit # NoEdit => edits >= 1)'
  BY <1>0 DEF ScInv, ScTypeOK, AtRest, Row, Deleted
<1>2. \A q \in Replicas : TickOK(q)'
  BY <1>0 DEF ScInv, ScTypeOK, TickOK, AtRest
<1>3. ASSUME NEW q \in Replicas, NEW t \in 1 .. clock
      PROVE  Budget(q, t)'
  <2>1. Times(q, t)' = Times(q, t) /\ InEdit(t)' = InEdit(t)
    BY SameTimes DEF InEdit
  <2>2. schedule'.next # t
    BY <1>0 DEF ScInv, ScTypeOK, Row, Deleted
  <2>3. InHand(q, t)' <= InHand(q, t) /\ OnRow(q, t)' = 0
    BY <2>2 DEF ScInv, ScTypeOK, InHand, OnRow, AtRest
  <2>4. InHand(q, t)' \in Nat /\ InEdit(t) \in Nat /\ InHand(q, t) \in Nat /\ OnRow(q, t) \in Nat
    BY DEF InHand, OnRow, InEdit
  <2> QED BY <2>1, <2>3, <2>4, TimesAreFinite DEF ScInv, ScTypeOK, Budget
<1> QED BY <1>1, <1>2, <1>3 DEF ScInv

(* A tick that is lost leaves the slot on the row: that is one firing more to  *)
(* come, and one fault more.                                                   *)
LEMMA LoseKeeps ==
  ASSUME ScInv, NEW r \in Replicas, LoseTick(r)
  PROVE  ScInv'
<1> USE DEF LoseTick
<1>1. ScTypeOK' /\ IsFiniteSet(fired)' /\ (edit # NoEdit => edits >= 1)'
  BY SchedulesAssumption DEF ScInv, ScTypeOK, AtRest, SchedulesAssumption
<1>2. \A q \in Replicas : TickOK(q)'
  BY DEF ScInv, ScTypeOK, TickOK, AtRest
<1>3. ASSUME NEW q \in Replicas, NEW t \in 1 .. clock
      PROVE  Budget(q, t)'
  <2>1. Times(q, t)' = Times(q, t) /\ InEdit(t)' = InEdit(t)
    BY SameTimes DEF InEdit
  <2>2. InHand(q, t)' + OnRow(q, t)' <= InHand(q, t) + OnRow(q, t) + 1
    BY DEF ScInv, ScTypeOK, InHand, OnRow, AtRest
  <2>3. InHand(q, t)' \in Nat /\ OnRow(q, t)' \in Nat /\ InEdit(t) \in Nat
        /\ InHand(q, t) \in Nat /\ OnRow(q, t) \in Nat
    BY DEF InHand, OnRow, InEdit
  <2> QED BY <2>1, <2>2, <2>3, TimesAreFinite DEF ScInv, ScTypeOK, Budget
<1> QED BY <1>1, <1>2, <1>3 DEF ScInv

(* An edit that reads the row may write that slot back: one edit more.         *)
LEMMA ReadForUpdateKeeps ==
  ASSUME ScInv, ReadForUpdate
  PROVE  ScInv'
<1> USE DEF ReadForUpdate
<1>1. ScTypeOK' /\ IsFiniteSet(fired)' /\ (edit # NoEdit => edits >= 1)'
  BY SchedulesAssumption DEF ScInv, ScTypeOK, SchedulesAssumption, NoEdit
<1>2. \A q \in Replicas : TickOK(q)'
  BY DEF ScInv, ScTypeOK, TickOK
<1>3. ASSUME NEW q \in Replicas, NEW t \in 1 .. clock
      PROVE  Budget(q, t)'
  <2>1. Times(q, t)' = Times(q, t) /\ InHand(q, t)' = InHand(q, t) /\ OnRow(q, t)' = OnRow(q, t)
    BY SameTimes DEF InHand, OnRow
  <2>2. InEdit(t) = 0 /\ InEdit(t)' \in {0, 1}
    BY DEF InEdit
  <2>3. InHand(q, t) \in Nat /\ OnRow(q, t) \in Nat
    BY DEF InHand, OnRow
  <2> QED BY <2>1, <2>2, <2>3, TimesAreFinite DEF ScInv, ScTypeOK, Budget
<1> QED BY <1>1, <1>2, <1>3 DEF ScInv

(* What an edit writes is the slot it has read, or one to come.                *)
LEMMA WriteKeeps ==
  ASSUME ScInv, NEW c \in Crons, NEW enabled \in BOOLEAN, WriteUpdate(c, enabled)
  PROVE  ScInv'
<1> DEFINE new == IF c = edit.cron THEN edit.next ELSE NextRun(c, clock)
<1>0. /\ edit # NoEdit /\ edit' = NoEdit
      /\ schedule' = IF schedule = Deleted THEN Deleted
                     ELSE [cron |-> c, enabled |-> enabled, next |-> new]
      /\ UNCHANGED <<clock, tick, edits, fired, scFaults>>
  BY DEF WriteUpdate
<1>a. NextRun(c, clock) \in Nat /\ NextRun(c, clock) > clock /\ edit \in Row
  BY <1>0, NextRunIsLater, SchedulesAssumption DEF ScInv, ScTypeOK, SchedulesAssumption
<1>b. new \in Nat
  BY <1>a DEF Row
<1> HIDE DEF new
<1>1. ScTypeOK' /\ IsFiniteSet(fired)' /\ (edit # NoEdit => edits >= 1)'
  BY <1>0, <1>b DEF ScInv, ScTypeOK, Row, NoEdit
<1>2. \A q \in Replicas : TickOK(q)'
  BY <1>0 DEF ScInv, ScTypeOK, TickOK
<1>3. ASSUME NEW q \in Replicas, NEW t \in 1 .. clock
      PROVE  Budget(q, t)'
  <2>1. Times(q, t)' = Times(q, t) /\ InHand(q, t)' = InHand(q, t)
    BY <1>0, SameTimes DEF InHand
  <2>2. schedule'.next = t => edit.next = t
    BY <1>0, <1>a DEF new, Deleted, ScInv, ScTypeOK
  <2>3. InEdit(t)' = 0 /\ OnRow(q, t)' <= InEdit(t)
    BY <1>0, <2>2 DEF InEdit, OnRow
  <2>4. InHand(q, t) \in Nat /\ OnRow(q, t) \in Nat /\ OnRow(q, t)' \in Nat /\ InEdit(t) \in Nat
    BY DEF InHand, OnRow, InEdit
  <2> QED BY <1>0, <2>1, <2>3, <2>4, TimesAreFinite DEF ScInv, ScTypeOK, Budget
<1> QED BY <1>0, <1>1, <1>2, <1>3 DEF ScInv

(* A schedule that is deleted is due at no slot.                               *)
LEMMA DeleteKeeps ==
  ASSUME ScInv, DeleteSchedule
  PROVE  ScInv'
<1> USE DEF DeleteSchedule
<1>1. ScTypeOK' /\ IsFiniteSet(fired)' /\ (edit # NoEdit => edits >= 1)'
  BY SchedulesAssumption DEF ScInv, ScTypeOK, SchedulesAssumption
<1>2. \A q \in Replicas : TickOK(q)'
  BY DEF ScInv, ScTypeOK, TickOK
<1>3. ASSUME NEW q \in Replicas, NEW t \in 1 .. clock
      PROVE  Budget(q, t)'
  <2>1. Times(q, t)' = Times(q, t) /\ InHand(q, t)' = InHand(q, t) /\ InEdit(t)' = InEdit(t)
    BY SameTimes DEF InHand, InEdit
  <2>2. OnRow(q, t)' = 0
    BY DEF OnRow, Deleted
  <2>3. InHand(q, t) \in Nat /\ OnRow(q, t) \in Nat /\ InEdit(t) \in Nat
    BY DEF InHand, OnRow, InEdit
  <2> QED BY <2>1, <2>2, <2>3, TimesAreFinite DEF ScInv, ScTypeOK, Budget
<1> QED BY <1>1, <1>2, <1>3 DEF ScInv

(* A step of any replica, or of a user.                                        *)
LEMMA ScNextKeeps ==
  ASSUME ScInv, [ScNext]_ScVars
  PROVE  ScInv'
<1>1. CASE UNCHANGED ScVars
  BY <1>1 DEF ScVars, ScInv, ScTypeOK, TickOK, Budget, Times, InHand, OnRow, InEdit, FiredBy
<1>2. CASE ScNext
  BY <1>2, TimePassesKeeps, ListKeeps, ReadKeeps, CreateKeeps, SkipKeeps, RecordKeeps, LoseKeeps,
     ReadForUpdateKeeps, WriteKeeps, DeleteKeeps DEF ScNext, ScTick
<1> QED BY <1>1, <1>2

(* The invariant the others follow from holds in every state.                  *)
THEOREM SchedulesInductive == ScSpec => []ScInv
BY ScInitKeeps, ScNextKeeps, PTL DEF ScSpec

(* Every variable of the schedules has its type, with any number of replicas   *)
(* and crons.                                                                  *)
THEOREM SchedulesTypes == ScSpec => []ScTypeOK
<1>1. ScInv => ScTypeOK
  BY DEF ScInv
<1> QED BY <1>1, SchedulesInductive, PTL

(* A replica fires a slot of a schedule once; each further time takes a fault  *)
(* between the scan it creates and the row it writes, or an edit that writes   *)
(* back what it has read (modules/schedule/service.go, Tick and Update): with  *)
(* any number of them, however the ticks of the replicas and the edits         *)
(* overtake each other.                                                        *)
THEOREM SlotsFireOnce == ScSpec => []FiresASlotOnce
<1>1. ScInv => FiresASlotOnce
  <2>1. SUFFICES ASSUME ScInv, NEW r \in Replicas, NEW t \in 1 .. MaxClock
                 PROVE  Times(r, t) <= 1 + scFaults + edits
    BY DEF FiresASlotOnce, Times
  <2>2. CASE t <= clock
    <3>1. InHand(r, t) \in Nat /\ OnRow(r, t) \in Nat /\ InEdit(t) \in Nat
      BY DEF InHand, OnRow, InEdit
    <3> QED BY <2>1, <2>2, <3>1, TimesAreFinite DEF ScInv, ScTypeOK, Budget
  <2>3. CASE t > clock
    BY <2>1, <2>3, NothingFiredYet DEF ScInv, ScTypeOK
  <2> QED BY <2>1, <2>2, <2>3 DEF ScInv, ScTypeOK
<1> QED BY <1>1, SchedulesInductive, PTL

-----------------------------------------------------------------------------
(*****************************************************************************)
(* The outbox                                                              *)
(*****************************************************************************)

(* A sender that has claimed an email and may still get the provider to take   *)
(* it.                                                                         *)
MaySend(z, s) ==
    /\ \E c \in batch[z] : c.scan = s
    /\ ~(inHand[z].scan = s /\ inHand[z].answer = "taken")
Sending(s) == {z \in Senders : MaySend(z, s)}
Copies(s) == Cardinality(Sending(s))

(* An email that somebody may claim for all that has gone wrong so far.        *)
Open(s) ==
    IF \/ mail[s] \in {"none", "pending"}
       \/ mail[s] = "sending" /\ (due[s] \/ ~Held(s))
    THEN 1 ELSE 0

(* How often an email was delivered and may still be, for all that has gone    *)
(* wrong so far.                                                               *)
MailBudget(s) == delivered[s] + Copies(s) + Open(s) <= 1 + lapses + obFaults

HandOK(z) ==
    /\ \A c \in batch[z] : mail[c.scan] # "none"
    /\ inHand[z] # Nothing =>
          /\ inHand[z].scan \in FinishedScans /\ inHand[z].answer # "none"
          /\ \E c \in batch[z] : c.scan = inHand[z].scan

Queued == {s \in FinishedScans : mail[s] # "none"}

ObInv ==
    /\ ObTypeOK /\ IsFiniteSet(Queued)
    /\ \A s \in FinishedScans : telling[s] \in {"finished", "in_feed"} => mail[s] = "none"
    /\ \A z \in Senders : HandOK(z)
    /\ \A s \in FinishedScans : IsFiniteSet(Sending(s)) /\ MailBudget(s)

(* The terms of the budget of an email are numbers.                            *)
LEMMA CountedMail ==
  ASSUME ObInv, NEW s \in FinishedScans
  PROVE  /\ Copies(s) \in Nat /\ Open(s) \in {0, 1}
         /\ delivered[s] \in Nat /\ lapses \in Nat /\ obFaults \in Nat
         /\ delivered[s] + Copies(s) + Open(s) <= 1 + lapses + obFaults
<1>1. IsFiniteSet(Sending(s)) /\ MailBudget(s)
  BY DEF ObInv
<1>2. Copies(s) \in Nat
  BY <1>1, FS_CardinalityType DEF Copies
<1> QED BY <1>1, <1>2, OutboxAssumption DEF ObInv, ObTypeOK, MailBudget, Open, OutboxAssumption

(* The budget of an email that no sender sends any more than before.           *)
LEMMA NoMoreCopies ==
  ASSUME ObInv, NEW s \in FinishedScans, Sending(s)' \subseteq Sending(s)
  PROVE  IsFiniteSet(Sending(s))' /\ Copies(s)' \in Nat /\ Copies(s)' <= Copies(s)
<1>1. IsFiniteSet(Sending(s))
  BY DEF ObInv
<1> DEFINE S == Sending(s)
           T == Sending(s)'
<1>2. T \in SUBSET S /\ IsFiniteSet(S)
  BY <1>1
<1> HIDE DEF S, T
<1>3. IsFiniteSet(T) /\ Cardinality(T) \in Nat /\ Cardinality(T) <= Cardinality(S)
  BY <1>2, FS_Subset, FS_CardinalityType
<1> QED BY <1>3 DEF S, T, Copies

(* What a budget allows stays within it when what is used up and still to come *)
(* grows by no more than what has gone wrong does.                             *)
LEMMA BudgetKept ==
  ASSUME ObInv, NEW s \in FinishedScans, Copies(s)' \in Nat,
         delivered'[s] \in Nat, lapses' \in Nat, obFaults' \in Nat,
         Copies(s)' + delivered'[s] + Open(s)' + lapses + obFaults
            <= Copies(s) + delivered[s] + Open(s) + lapses' + obFaults'
  PROVE  MailBudget(s)'
<1>1. Open(s)' \in {0, 1}
  BY DEF Open
<1> QED BY <1>1, CountedMail DEF MailBudget

(* At first nothing is mailed, and whoever is told first may mail it.          *)
LEMMA ObInitKeeps == ObInit => ObInv
<1> SUFFICES ASSUME ObInit PROVE ObInv
  OBVIOUS
<1>1. ObTypeOK
  BY FS_EmptySet, OutboxAssumption DEF ObInit, ObTypeOK, Nothing, Claims, OutboxAssumption
<1>2. Queued = {}
  BY DEF ObInit, Queued
<1>3. ASSUME NEW s \in FinishedScans
      PROVE  IsFiniteSet(Sending(s)) /\ MailBudget(s)
  <2>1. Sending(s) = {}
    BY DEF ObInit, Sending, MaySend
  <2>2. Copies(s) = 0 /\ IsFiniteSet(Sending(s))
    BY <2>1, FS_EmptySet DEF Copies
  <2> QED BY <2>2 DEF ObInit, MailBudget, Open
<1> QED BY <1>1, <1>2, <1>3, FS_EmptySet DEF ObInv, ObInit, HandOK

(* The feed entry comes before the email is there.                             *)
LEMMA TellFeedKeeps ==
  ASSUME ObInv, NEW s \in FinishedScans, NEW next \in {"in_feed", "not_wanted"},
         TellFeed(s, next)
  PROVE  ObInv'
<1> USE DEF TellFeed
<1>1. ObTypeOK' /\ IsFiniteSet(Queued)'
  BY DEF ObInv, ObTypeOK, Queued
<1>2. \A z \in Senders : HandOK(z)'
  BY DEF ObInv, HandOK
<1>3. \A q \in FinishedScans : telling'[q] \in {"finished", "in_feed"} => mail'[q] = "none"
  BY DEF ObInv, ObTypeOK
<1>4. \A q \in FinishedScans : IsFiniteSet(Sending(q))' /\ MailBudget(q)'
  BY DEF ObInv, Sending, MaySend, MailBudget, Copies, Open, Held
<1> QED BY <1>1, <1>2, <1>3, <1>4 DEF ObInv

(* An email is queued once, and claimed by nobody yet.                         *)
LEMMA QueueEmailKeeps ==
  ASSUME ObInv, NEW s \in FinishedScans, QueueEmail(s)
  PROVE  ObInv'
<1> USE DEF QueueEmail
<1>0. mail[s] = "none"
  BY DEF ObInv
<1>1. ObTypeOK'
  BY DEF ObInv, ObTypeOK
<1>a. IsFiniteSet(Queued)'
  <2>1. Queued' = Queued \cup {s}
    BY DEF Queued, ObInv, ObTypeOK
  <2> QED BY <2>1, FS_AddElement DEF ObInv
<1>2. \A z \in Senders : HandOK(z)'
  BY DEF ObInv, HandOK
<1>3. \A q \in FinishedScans : telling'[q] \in {"finished", "in_feed"} => mail'[q] = "none"
  BY DEF ObInv, ObTypeOK
<1>4. \A q \in FinishedScans : IsFiniteSet(Sending(q))' /\ MailBudget(q)'
  BY <1>0 DEF ObInv, ObTypeOK, Sending, MaySend, MailBudget, Copies, Open, Held
<1> QED BY <1>1, <1>a, <1>2, <1>3, <1>4 DEF ObInv

(* An announcement that is lost leaves no email behind.                        *)
LEMMA LoseAnnouncementKeeps ==
  ASSUME ObInv, NEW s \in FinishedScans, LoseAnnouncement(s)
  PROVE  ObInv'
<1> USE DEF LoseAnnouncement
<1>1. ObTypeOK' /\ IsFiniteSet(Queued)'
  BY OutboxAssumption DEF ObInv, ObTypeOK, Queued, OutboxAssumption
<1>2. \A z \in Senders : HandOK(z)'
  BY DEF ObInv, HandOK
<1>3. \A q \in FinishedScans : telling'[q] \in {"finished", "in_feed"} => mail'[q] = "none"
  BY DEF ObInv, ObTypeOK
<1>4. ASSUME NEW q \in FinishedScans PROVE IsFiniteSet(Sending(q))' /\ MailBudget(q)'
  <2>1. Sending(q)' = Sending(q) /\ Open(q)' = Open(q)
    BY DEF Sending, MaySend, Open, Held
  <2>2. IsFiniteSet(Sending(q))' /\ Copies(q)' = Copies(q)
    BY <2>1 DEF ObInv, Copies
  <2> QED BY <2>1, <2>2, CountedMail DEF MailBudget
<1> QED BY <1>1, <1>2, <1>3, <1>4 DEF ObInv

(* A lease that runs out under its sender lets another claim the email; one    *)
(* that runs out under nobody does not.                                        *)
LEMMA ComeDueKeeps ==
  ASSUME ObInv, NEW s \in FinishedScans, ComeDue(s)
  PROVE  ObInv'
<1> DEFINE lapse == mail[s] = "sending" /\ Held(s)
<1>0. /\ mail[s] \in {"pending", "sending"} /\ ~due[s]
      /\ due' = [due EXCEPT ![s] = TRUE]
      /\ lapses' = IF lapse THEN lapses + 1 ELSE lapses
      /\ lapse => lapses < MaxLapses
      /\ UNCHANGED <<telling, mail, attempts, batch, inHand, delivered, obFaults>>
  BY DEF ComeDue
<1>1. ObTypeOK' /\ IsFiniteSet(Queued)'
  BY <1>0, OutboxAssumption DEF ObInv, ObTypeOK, Queued, OutboxAssumption
<1>2. \A z \in Senders : HandOK(z)'
  BY <1>0 DEF ObInv, HandOK
<1>3. \A q \in FinishedScans : telling'[q] \in {"finished", "in_feed"} => mail'[q] = "none"
  BY <1>0 DEF ObInv, ObTypeOK
<1>4. ASSUME NEW q \in FinishedScans PROVE IsFiniteSet(Sending(q))' /\ MailBudget(q)'
  <2>1. Sending(q)' = Sending(q) /\ Held(q)' = Held(q)
    BY <1>0 DEF Sending, MaySend, Held
  <2>2. IsFiniteSet(Sending(q))' /\ Copies(q)' = Copies(q)
    BY <2>1 DEF ObInv, Copies
  <2>3. lapses' \in Nat /\ lapses <= lapses' /\ (lapse => lapses' = lapses + 1)
    BY <1>0, CountedMail
  <2>4. Open(q)' + lapses <= Open(q) + lapses'
    <3>1. CASE q = s /\ lapse
      BY <2>3, <3>1, CountedMail DEF Open
    <3>2. CASE q # s \/ ~lapse
      <4>1. Open(q)' = Open(q)
        BY <1>0, <2>1, <3>2 DEF Open, ObInv, ObTypeOK
      <4> QED BY <2>3, <4>1, CountedMail
    <3> QED BY <3>1, <3>2
  <2>5. Open(q)' \in {0, 1} /\ delivered' = delivered /\ obFaults' = obFaults
    BY <1>0 DEF Open
  <2> QED BY <2>2, <2>3, <2>4, <2>5, CountedMail, BudgetKept
<1> QED BY <1>1, <1>2, <1>3, <1>4 DEF ObInv

(* A batch is as large as what was claimed.                                    *)
LEMMA BatchOfClaim ==
  ASSUME ObInv, NEW S \in SUBSET DueEmails
  PROVE  LET B == {[scan |-> s, nth |-> attempts[s] + 1] : s \in S}
         IN  /\ IsFiniteSet(S) /\ IsFiniteSet(B) /\ Cardinality(B) <= Cardinality(S)
             /\ Cardinality(B) \in Nat /\ Cardinality(S) \in Nat /\ B \subseteq Claims
<1> DEFINE Claim(s) == [scan |-> s, nth |-> attempts[s] + 1]
           B == {Claim(s) : s \in S}
           f == [s \in S |-> Claim(s)]
<1>1. S \in SUBSET Queued
  BY DEF DueEmails, Claimable, Queued
<1>2. IsFiniteSet(S) /\ Cardinality(S) \in Nat
  BY <1>1, FS_Subset, FS_CardinalityType DEF ObInv
<1>3. f \in Surjection(S, B)
  BY DEF Surjection
<1>4. B \subseteq Claims
  BY DEF ObInv, ObTypeOK, Claims, DueEmails
<1> HIDE DEF f, B
<1>5. IsFiniteSet(B) /\ Cardinality(B) <= Cardinality(S)
  BY <1>2, <1>3, FS_Surjection
<1>6. Cardinality(B) \in Nat
  BY <1>5, FS_CardinalityType
<1> QED BY <1>2, <1>4, <1>5, <1>6 DEF B

(* Who claims an email holds the one copy that was to come, and its lease with *)
(* it.                                                                         *)
LEMMA ClaimKeeps ==
  ASSUME ObInv, NEW z \in Senders, NEW S \in SUBSET FinishedScans, ClaimEmails(z, S)
  PROVE  ObInv'
<1> DEFINE B == {[scan |-> s, nth |-> attempts[s] + 1] : s \in S}
<1>0. /\ batch[z] = {} /\ S # {} /\ S \subseteq DueEmails /\ Cardinality(S) <= SenderBatch
      /\ mail' = [s \in FinishedScans |-> IF s \in S THEN "sending" ELSE mail[s]]
      /\ attempts' = [s \in FinishedScans |-> IF s \in S THEN attempts[s] + 1 ELSE attempts[s]]
      /\ due' = [s \in FinishedScans |-> s \notin S /\ due[s]]
      /\ batch' = [batch EXCEPT ![z] = B]
      /\ UNCHANGED <<telling, inHand, delivered, obFaults, lapses>>
  BY DEF ClaimEmails, WithLease
<1>a. /\ IsFiniteSet(B) /\ Cardinality(B) <= Cardinality(S) /\ Cardinality(B) \in Nat
      /\ Cardinality(S) \in Nat /\ B \subseteq Claims
  BY <1>0, BatchOfClaim
<1>b. \A s \in FinishedScans : s \in S <=> \E c \in B : c.scan = s
  <2>1. ASSUME NEW s \in S PROVE \E c \in B : c.scan = s
    <3>1. [scan |-> s, nth |-> attempts[s] + 1] \in B
      OBVIOUS
    <3> QED BY <3>1
  <2>2. ASSUME NEW s, NEW c \in B, c.scan = s PROVE s \in S
    BY <2>2
  <2> QED BY <2>1, <2>2
<1> HIDE DEF B
<1>c. \A s \in S : mail[s] \in {"pending", "sending"} /\ due[s]
  BY <1>0 DEF DueEmails, Claimable
<1>d. inHand[z] = Nothing
  BY <1>0 DEF ObInv, HandOK
<1>1. ObTypeOK'
  <2>1. \A q \in Senders : IsFiniteSet(batch'[q]) /\ Cardinality(batch'[q]) <= SenderBatch
    <3>1. Cardinality(B) <= SenderBatch
      BY <1>0, <1>a, OutboxAssumption DEF OutboxAssumption
    <3> QED BY <1>0, <1>a, <3>1 DEF ObInv, ObTypeOK
  <2>2. mail' \in [FinishedScans -> {"none", "pending", "sending", "sent", "failed"}]
        /\ attempts' \in [FinishedScans -> Nat] /\ due' \in [FinishedScans -> BOOLEAN]
    BY <1>0 DEF ObInv, ObTypeOK
  <2>3. batch' \in [Senders -> SUBSET Claims]
    BY <1>0, <1>a DEF ObInv, ObTypeOK
  <2> QED BY <1>0, <2>1, <2>2, <2>3 DEF ObInv, ObTypeOK
<1>2. IsFiniteSet(Queued)'
  <2>1. Queued' = Queued
    BY <1>0, <1>c DEF Queued
  <2> QED BY <2>1 DEF ObInv
<1>e. \A s \in FinishedScans : mail[s] # "none" => mail'[s] # "none"
  BY <1>0
<1>3. ASSUME NEW q \in Senders PROVE HandOK(q)'
  <2>1. inHand'[q] = inHand[q] /\ (q # z => batch'[q] = batch[q]) /\ batch'[z] = B
    BY <1>0 DEF ObInv, ObTypeOK
  <2>2. ASSUME NEW c \in batch'[q] PROVE mail'[c.scan] # "none"
    <3>1. CASE q = z
      <4>1. c \in B /\ c.scan \in FinishedScans
        BY <1>a, <2>1, <3>1 DEF Claims
      <4>2. c.scan \in S
        BY <1>b, <4>1
      <4> QED BY <1>0, <4>1, <4>2
    <3>2. CASE q # z
      <4>1. c \in batch[q] /\ c \in Claims
        BY <2>1, <3>2 DEF ObInv, ObTypeOK
      <4>2. c.scan \in FinishedScans /\ mail[c.scan] # "none"
        BY <4>1 DEF ObInv, HandOK, Claims
      <4> QED BY <1>e, <4>2
    <3> QED BY <3>1, <3>2
  <2> QED BY <1>d, <2>1, <2>2 DEF ObInv, ObTypeOK, HandOK
<1>4. \A q \in FinishedScans : telling'[q] \in {"finished", "in_feed"} => mail'[q] = "none"
  BY <1>0, <1>c DEF ObInv
<1>5. ASSUME NEW q \in FinishedScans PROVE IsFiniteSet(Sending(q))' /\ MailBudget(q)'
  <2>0. lapses' = lapses /\ obFaults' = obFaults /\ delivered' = delivered
    BY <1>0
  <2>1. CASE q \in S
    <3>1. Sending(q)' = Sending(q) \cup {z}
      BY <1>0, <1>b, <1>d, <2>1 DEF Sending, MaySend, Nothing, ObInv, ObTypeOK
    <3>2. IsFiniteSet(Sending(q))' /\ Copies(q)' \in Nat /\ Copies(q)' <= Copies(q) + 1
      <4>1. IsFiniteSet(Sending(q))
        BY DEF ObInv
      <4> QED BY <3>1, <4>1, OneMore DEF Copies
    <3>3. Open(q) = 1
      BY <1>c, <2>1 DEF Open
    <3>4. Held(q)'
      BY <1>0, <1>b, <2>1 DEF Held, ObInv, ObTypeOK
    <3>5. Open(q)' = 0
      BY <1>0, <2>1, <3>4 DEF Open
    <3> QED BY <2>0, <3>2, <3>3, <3>5, CountedMail, BudgetKept
  <2>2. CASE q \notin S
    <3>1. Sending(q)' = Sending(q) /\ Held(q)' = Held(q)
      BY <1>0, <1>b, <2>2 DEF Sending, MaySend, Held, ObInv, ObTypeOK
    <3>2. Open(q)' = Open(q)
      BY <1>0, <2>2, <3>1 DEF Open
    <3>3. IsFiniteSet(Sending(q))' /\ Copies(q)' = Copies(q)
      BY <3>1 DEF ObInv, Copies
    <3> QED BY <2>0, <3>2, <3>3, CountedMail DEF MailBudget
  <2> QED BY <2>1, <2>2
<1> QED BY <1>1, <1>2, <1>3, <1>4, <1>5 DEF ObInv

(* What a sender gives to the provider it gives once: a copy that was to come  *)
(* is there.                                                                   *)
LEMMA SendKeeps ==
  ASSUME ObInv, NEW z \in Senders, NEW c \in batch[z], NEW answer \in {"taken", "refused"},
         SendEmail(z, c, answer)
  PROVE  ObInv'
<1> USE DEF SendEmail
<1>0. c \in Claims /\ c.scan \in FinishedScans /\ c.nth \in Nat
  BY DEF ObInv, ObTypeOK, Claims
<1>1. ObTypeOK' /\ IsFiniteSet(Queued)'
  BY <1>0 DEF ObInv, ObTypeOK, Queued
<1>2. \A q \in Senders : HandOK(q)'
  BY <1>0 DEF ObInv, ObTypeOK, HandOK
<1>3. \A q \in FinishedScans : telling'[q] \in {"finished", "in_feed"} => mail'[q] = "none"
  BY DEF ObInv, ObTypeOK
<1>4. ASSUME NEW q \in FinishedScans PROVE IsFiniteSet(Sending(q))' /\ MailBudget(q)'
  <2>0. Open(q)' = Open(q)
    BY DEF Open, Held
  <2>1. CASE q = c.scan /\ answer = "taken"
    <3>1. Sending(q)' \subseteq Sending(q) /\ z \in Sending(q) /\ z \notin Sending(q)'
      BY <1>0, <2>1, OutboxAssumption
      DEF Sending, MaySend, ObInv, ObTypeOK, Nothing, OutboxAssumption
    <3>2. IsFiniteSet(Sending(q))' /\ Copies(q)' \in Nat /\ Copies(q)' <= Copies(q) - 1
      <4>1. IsFiniteSet(Sending(q))
        BY DEF ObInv
      <4> QED BY <3>1, <4>1, OneLess DEF Copies
    <3>3. delivered'[q] = delivered[q] + 1
      BY <2>1 DEF ObInv, ObTypeOK
    <3> QED BY <2>0, <3>2, <3>3, CountedMail, BudgetKept
  <2>2. CASE ~(q = c.scan /\ answer = "taken")
    <3>1. Sending(q)' \subseteq Sending(q)
      BY <1>0, <2>2, OutboxAssumption
      DEF Sending, MaySend, ObInv, ObTypeOK, Nothing, OutboxAssumption
    <3>2. IsFiniteSet(Sending(q))' /\ Copies(q)' \in Nat /\ Copies(q)' <= Copies(q)
      BY <3>1, NoMoreCopies
    <3>3. delivered'[q] = delivered[q]
      BY <2>2 DEF ObInv, ObTypeOK
    <3> QED BY <2>0, <3>2, <3>3, CountedMail, BudgetKept
  <2> QED BY <2>1, <2>2
<1> QED BY <1>1, <1>2, <1>3, <1>4 DEF ObInv

(* A copy the provider takes without an answer may come again: one fault more. *)
LEMMA UnansweredKeeps ==
  ASSUME ObInv, NEW z \in Senders, NEW c \in batch[z], SendUnanswered(z, c)
  PROVE  ObInv'
<1> USE DEF SendUnanswered
<1>0. c \in Claims /\ c.scan \in FinishedScans /\ c.nth \in Nat
  BY DEF ObInv, ObTypeOK, Claims
<1>1. ObTypeOK' /\ IsFiniteSet(Queued)'
  BY <1>0, OutboxAssumption DEF ObInv, ObTypeOK, Queued, OutboxAssumption
<1>2. \A q \in Senders : HandOK(q)'
  BY <1>0 DEF ObInv, ObTypeOK, HandOK
<1>3. \A q \in FinishedScans : telling'[q] \in {"finished", "in_feed"} => mail'[q] = "none"
  BY DEF ObInv, ObTypeOK
<1>4. ASSUME NEW q \in FinishedScans PROVE IsFiniteSet(Sending(q))' /\ MailBudget(q)'
  <2>0. Open(q)' = Open(q)
    BY DEF Open, Held
  <2>1. Sending(q)' \subseteq Sending(q)
    BY <1>0, OutboxAssumption DEF Sending, MaySend, ObInv, ObTypeOK, Nothing, OutboxAssumption
  <2>2. IsFiniteSet(Sending(q))' /\ Copies(q)' \in Nat /\ Copies(q)' <= Copies(q)
    BY <2>1, NoMoreCopies
  <2>3. delivered'[q] \in Nat /\ delivered'[q] <= delivered[q] + 1
    BY <1>0 DEF ObInv, ObTypeOK
  <2> QED BY <2>0, <2>2, <2>3, CountedMail, BudgetKept
<1> QED BY <1>1, <1>2, <1>3, <1>4 DEF ObInv

(* What a sender is done with is no longer in its batch.                       *)
LEMMA BatchShrinks ==
  ASSUME ObInv, NEW z \in Senders, NEW T \in SUBSET batch[z], batch' = [batch EXCEPT ![z] = T]
  PROVE  /\ batch' \in [Senders -> SUBSET Claims]
         /\ \A q \in Senders : IsFiniteSet(batch'[q]) /\ Cardinality(batch'[q]) <= SenderBatch
<1>1. IsFiniteSet(T) /\ Cardinality(T) <= SenderBatch
  <2>1. IsFiniteSet(batch[z]) /\ Cardinality(batch[z]) <= SenderBatch
    BY DEF ObInv, ObTypeOK
  <2>2. IsFiniteSet(T) /\ Cardinality(T) <= Cardinality(batch[z])
    BY <2>1, FS_Subset
  <2>3. Cardinality(T) \in Nat /\ Cardinality(batch[z]) \in Nat
    BY <2>1, <2>2, FS_CardinalityType
  <2> QED BY <2>1, <2>2, <2>3, OutboxAssumption DEF OutboxAssumption
<1> QED BY <1>1 DEF ObInv, ObTypeOK

(* What is marked as sent is not sent again; what is marked as pending was not *)
(* taken.                                                                      *)
LEMMA MarkKeeps ==
  ASSUME ObInv, NEW z \in Senders, MarkEmail(z)
  PROVE  ObInv'
<1> DEFINE s == inHand[z].scan
           status == IF inHand[z].answer = "taken" THEN "sent"
                     ELSE IF GivesUp(z) THEN "failed" ELSE "pending"
           T == {c \in batch[z] : c.scan # s}
<1>0. /\ inHand[z] # Nothing
      /\ mail' = [mail EXCEPT ![s] = status]
      /\ due' = [due EXCEPT ![s] = @ /\ status # "pending"]
      /\ batch' = [batch EXCEPT ![z] = T]
      /\ inHand' = [inHand EXCEPT ![z] = Nothing]
      /\ UNCHANGED <<telling, attempts, delivered, obFaults, lapses>>
  BY DEF MarkEmail, ObInv, ObTypeOK
<1>a. s \in FinishedScans /\ (\E c \in batch[z] : c.scan = s) /\ status \in {"sent", "failed", "pending"}
      /\ inHand[z].answer \in {"taken", "refused"}
  BY <1>0 DEF ObInv, ObTypeOK, HandOK
<1>b. inHand[z].answer = "taken" <=> status = "sent"
  OBVIOUS
<1>c. batch' \in [Senders -> SUBSET Claims]
      /\ \A q \in Senders : IsFiniteSet(batch'[q]) /\ Cardinality(batch'[q]) <= SenderBatch
  BY <1>0, BatchShrinks
<1>d. mail[s] # "none"
  BY <1>a DEF ObInv, HandOK
<1> HIDE DEF s, status, T
<1>1. ObTypeOK'
  BY <1>0, <1>a, <1>c, OutboxAssumption DEF ObInv, ObTypeOK, Nothing, OutboxAssumption
<1>2. IsFiniteSet(Queued)'
  <2>1. Queued' = Queued
    BY <1>0, <1>a, <1>d DEF Queued, ObInv, ObTypeOK
  <2> QED BY <2>1 DEF ObInv
<1>3. \A q \in Senders : HandOK(q)'
  BY <1>0, <1>a DEF ObInv, ObTypeOK, HandOK, T, Claims
<1>4. \A q \in FinishedScans : telling'[q] \in {"finished", "in_feed"} => mail'[q] = "none"
  BY <1>0, <1>d DEF ObInv, ObTypeOK
<1>5. ASSUME NEW q \in FinishedScans PROVE IsFiniteSet(Sending(q))' /\ MailBudget(q)'
  <2>0. lapses' = lapses /\ obFaults' = obFaults /\ delivered' = delivered
    BY <1>0
  <2>1. Sending(q)' \subseteq Sending(q)
    BY <1>0, <1>a, OutboxAssumption
    DEF Sending, MaySend, ObInv, ObTypeOK, Nothing, OutboxAssumption, T, s
  <2>2. IsFiniteSet(Sending(q))' /\ Copies(q)' \in Nat /\ Copies(q)' <= Copies(q)
    BY <2>1, NoMoreCopies
  <2>3. CASE q # s
    <3>1. Held(q)' = Held(q)
      BY <1>0, <2>3 DEF Held, ObInv, ObTypeOK, T
    <3>2. Open(q)' = Open(q)
      BY <1>0, <2>3, <3>1 DEF Open, ObInv, ObTypeOK
    <3> QED BY <2>0, <2>2, <3>2, CountedMail, BudgetKept
  <2>4. CASE q = s /\ status = "sent"
    <3>1. Open(q)' = 0
      BY <1>0, <1>a, <2>4 DEF Open, ObInv, ObTypeOK
    <3> QED BY <2>0, <2>2, <3>1, CountedMail, BudgetKept
  <2>5. CASE q = s /\ status # "sent"
    <3>1. z \in Sending(q)
      BY <1>a, <1>b, <2>5 DEF Sending, MaySend, s, status
    <3>2. z \notin Sending(q)'
      BY <1>0, <2>5 DEF Sending, MaySend, T, ObInv, ObTypeOK
    <3>3. IsFiniteSet(Sending(q))' /\ Copies(q)' \in Nat /\ Copies(q)' <= Copies(q) - 1
      <4>1. IsFiniteSet(Sending(q))
        BY DEF ObInv
      <4> QED BY <2>1, <3>1, <3>2, <4>1, OneLess DEF Copies
    <3>4. Open(q)' \in {0, 1}
      BY DEF Open
    <3> QED BY <2>0, <3>3, <3>4, CountedMail, BudgetKept
  <2> QED BY <2>3, <2>4, <2>5
<1> QED BY <1>1, <1>2, <1>3, <1>4, <1>5 DEF ObInv

(* A fault at one sender: each email it held may be claimed once more.         *)
LEMMA GivenUpBy ==
  ASSUME ObInv, NEW z \in Senders, NEW T \in SUBSET batch[z], obFaults < MaxObFaults,
         batch' = [batch EXCEPT ![z] = T], inHand' = [inHand EXCEPT ![z] = Nothing],
         inHand[z] # Nothing => \A c \in T : c.scan # inHand[z].scan,
         obFaults' = obFaults + 1,
         UNCHANGED <<telling, mail, attempts, due, delivered, lapses>>
  PROVE  ObInv'
<1>0. batch' \in [Senders -> SUBSET Claims]
      /\ \A q \in Senders : IsFiniteSet(batch'[q]) /\ Cardinality(batch'[q]) <= SenderBatch
  BY BatchShrinks
<1>1. ObTypeOK'
  BY <1>0, OutboxAssumption DEF ObInv, ObTypeOK, Nothing, OutboxAssumption
<1>2. IsFiniteSet(Queued)'
  BY DEF Queued, ObInv
<1>3. \A q \in Senders : HandOK(q)'
  BY DEF ObInv, ObTypeOK, HandOK
<1>4. \A q \in FinishedScans : telling'[q] \in {"finished", "in_feed"} => mail'[q] = "none"
  BY DEF ObInv
<1>5. ASSUME NEW q \in FinishedScans PROVE IsFiniteSet(Sending(q))' /\ MailBudget(q)'
  <2>1. Sending(q)' \subseteq Sending(q)
    BY OutboxAssumption DEF Sending, MaySend, ObInv, ObTypeOK, Nothing, OutboxAssumption
  <2>2. IsFiniteSet(Sending(q))' /\ Copies(q)' \in Nat /\ Copies(q)' <= Copies(q)
    BY <2>1, NoMoreCopies
  <2>3. Open(q)' \in {0, 1}
    BY DEF Open
  <2> QED BY <2>2, <2>3, CountedMail, BudgetKept
<1> QED BY <1>1, <1>2, <1>3, <1>4, <1>5 DEF ObInv

(* A statement that fails gives the email up.                                  *)
LEMMA MarkFailsKeeps ==
  ASSUME ObInv, NEW z \in Senders, MarkFails(z)
  PROVE  ObInv'
<1> DEFINE T == {c \in batch[z] : c.scan # inHand[z].scan}
<1>1. batch' = [batch EXCEPT ![z] = T] /\ T \in SUBSET batch[z]
  BY DEF MarkFails, ObInv, ObTypeOK
<1>2. \A c \in T : c.scan # inHand[z].scan
  OBVIOUS
<1> HIDE DEF T
<1> QED BY <1>1, <1>2, GivenUpBy DEF MarkFails

(* A sender that dies gives its batch up.                                      *)
LEMMA DropBatchKeeps ==
  ASSUME ObInv, NEW z \in Senders, DropBatch(z)
  PROVE  ObInv'
BY GivenUpBy DEF DropBatch

(* A step of any sender, or of whoever finishes a scan.                        *)
LEMMA ObNextKeeps ==
  ASSUME ObInv, [ObNext]_ObVars
  PROVE  ObInv'
<1>1. CASE UNCHANGED ObVars
  BY <1>1 DEF ObVars, ObInv, ObTypeOK, Queued, HandOK, Sending, MaySend, MailBudget, Copies, Open,
              Held
<1>2. CASE ObNext
  BY <1>2, TellFeedKeeps, QueueEmailKeeps, LoseAnnouncementKeeps, ComeDueKeeps, ClaimKeeps,
     SendKeeps, UnansweredKeeps, MarkKeeps, MarkFailsKeeps, DropBatchKeeps
  DEF ObNext, ObTell, ObSend
<1> QED BY <1>1, <1>2

(* The invariant the others follow from holds in every state.                  *)
THEOREM OutboxInductive == ObSpec => []ObInv
BY ObInitKeeps, ObNextKeeps, PTL DEF ObSpec

(* Every variable of the outbox has its type, with any number of senders and   *)
(* scans; no batch is larger than senderBatch.                                 *)
THEOREM OutboxTypes == ObSpec => []ObTypeOK
<1>1. ObInv => ObTypeOK
  BY DEF ObInv
<1> QED BY <1>1, OutboxInductive, PTL

(* A report is mailed once; each further copy takes a crash, a write that      *)
(* failed, an answer that was lost or a lease that ran out under its sender    *)
(* (modules/notification/sender.go, RunOnce; ClaimDueEmails and MarkEmail* of  *)
(* store/repo/notification_repo.go): with any number of senders, batches and   *)
(* leases.                                                                     *)
THEOREM ReportsMailedOnce == ObSpec => []EmailedOnce
<1>1. ObInv => EmailedOnce
  BY CountedMail DEF EmailedOnce
<1> QED BY <1>1, OutboxInductive, PTL

-----------------------------------------------------------------------------
(*****************************************************************************)
(* The processes                                                           *)
(*****************************************************************************)

PastDocker == {"codescan", "containerscan", "ai", "pentest", "services", "loops", "serve",
               "exposed", "waiting", "stopping", "draining"}
PastRules == PastDocker \cup {"docker"}
PastSchema == PastRules \cup {"database", "redis", "rules"}

KnownOK(n) ==
    /\ node[n].at = "down" => node[n] = Down
    /\ node[n].at # "down" => node[n].env \in Settings /\ Accepted(node[n].env)

MigratedOK(n) ==
    /\ node[n].at = "apply" => node[n].seen < Migrations
    /\ (node[n].at \in PastSchema \/ Works(n)) /\ node[n].env.migrate => schema = Migrations

RulesOK(n) ==
    /\ node[n].brought \subseteq catalogue
    /\ node[n].brought # {} => schema >= RulesSince
    /\ node[n].at \in PastRules \/ Works(n) => catalogue = RuleIDs /\ schema >= RulesSince

OpenOK(n) ==
    /\ node[n].at = "redis" => "database" \in node[n].open
    /\ node[n].at \in {"rules", "docker"} => {"database", "redis"} \subseteq node[n].open
    /\ node[n].at \in PastDocker => Clients \subseteq node[n].open
    /\ node[n].loops # {} /\ ~node[n].told =>
          Clients \subseteq node[n].open /\ "workers" \in node[n].open

WorkOK(n) ==
    /\ node[n].at \in Starting =>
          node[n].loops = {} /\ node[n].server = "none" /\ node[n].requests = 0
    /\ node[n].at = "serve" => node[n].server = "none" /\ node[n].requests = 0
    /\ node[n].at \in {"serve", "exposed"} => node[n].env.role # "worker"
    /\ node[n].server = "listening" => node[n].at \in {"exposed", "waiting", "stopping"}
    /\ node[n].at # "down" /\ node[n].env.role = "api" => node[n].loops = {}
    /\ node[n].at # "down" /\ node[n].env.role = "worker" =>
          node[n].server = "none" /\ node[n].requests = 0
    /\ node[n].at = "closing" /\ node[n].requests > 0 => node[n].hurried

InOrder(n) == KnownOK(n) /\ MigratedOK(n) /\ RulesOK(n) /\ OpenOK(n) /\ WorkOK(n)

DpInv == DpTypeOK /\ \A n \in Nodes : InOrder(n)

-----------------------------------------------------------------------------
(***************************************************************************)
(* One process at a time                                                   *)
(***************************************************************************)

(* The step of a process leaves the others as they were; the migrations and    *)
(* the rules become no less.                                                   *)
LEMMA OneAtATime ==
  ASSUME DpInv, NEW n \in Nodes, DpTypeOK', InOrder(n)',
         \A m \in Nodes \ {n} : node'[m] = node[m],
         schema <= schema', catalogue \subseteq catalogue'
  PROVE  DpInv'
<1>1. ASSUME NEW m \in Nodes \ {n}
      PROVE  InOrder(m)'
  <2>0. InOrder(m) /\ node'[m] = node[m] /\ schema \in 0 .. Migrations
        /\ schema' \in 0 .. Migrations /\ catalogue' \subseteq RuleIDs
    BY <1>1 DEF DpInv, DpTypeOK
  <2>1. KnownOK(m)' /\ OpenOK(m)' /\ WorkOK(m)'
    BY <2>0 DEF InOrder, KnownOK, OpenOK, WorkOK
  <2>2. MigratedOK(m)'
    BY <2>0, DeploymentAssumption DEF InOrder, MigratedOK, Works, DeploymentAssumption
  <2>3. RulesOK(m)'
    BY <2>0, DeploymentAssumption DEF InOrder, RulesOK, Works, DeploymentAssumption
  <2> QED BY <2>1, <2>2, <2>3 DEF InOrder
<1> QED BY <1>1 DEF DpInv

(* A step of one process that touches neither the migrations nor the rules:    *)
(* it is enough to know what has become of the process.                        *)
LEMMA Alone ==
  ASSUME DpInv, NEW n \in Nodes, NEW next \in Node, node' = [node EXCEPT ![n] = next],
         schema' = schema, catalogue' = catalogue, boots' \in 0 .. MaxBoots,
         dpFaults' \in 0 .. MaxDpFaults, InOrder(n)'
  PROVE  DpInv'
<1>1. DpTypeOK'
  BY DEF DpInv, DpTypeOK
<1>2. \A m \in Nodes \ {n} : node'[m] = node[m]
  BY DEF DpInv, DpTypeOK
<1>3. schema <= schema' /\ catalogue \subseteq catalogue'
  BY DEF DpInv, DpTypeOK
<1> QED BY <1>1, <1>2, <1>3, OneAtATime

(* A process that goes on to another step, and nothing else.                   *)
LEMMA GoesOn ==
  ASSUME DpInv, NEW n \in Nodes, NEW to \in Starting \cup {"serve", "waiting", "closing"},
         Goes(n, to), schema' = schema, catalogue' = catalogue, boots' = boots,
         dpFaults' \in 0 .. MaxDpFaults,
         node[n].at # "down", to \in PastSchema => node[n].at \in PastSchema,
         to \in PastRules => node[n].at \in PastRules,
         to \in PastDocker => node[n].at \in PastDocker,
         to \notin {"apply", "redis", "rules", "docker", "serve"},
         to \in Starting => node[n].at \in Starting,
         to = "closing" => node[n].requests = 0,
         to # "waiting" => node[n].server # "listening"
  PROVE  DpInv'
<1> DEFINE p == [node[n] EXCEPT !.at = to]
<1>0. node[n] \in Node /\ InOrder(n) /\ DpTypeOK
  BY DEF DpInv, DpTypeOK
<1>1. p \in Node /\ node' = [node EXCEPT ![n] = p]
  BY <1>0 DEF Node, Goes, Starting
<1>2. node'[n] = p
  BY <1>0, <1>1 DEF DpTypeOK
<1>3. KnownOK(n)' /\ OpenOK(n)'
  BY <1>0, <1>2 DEF InOrder, KnownOK, OpenOK, PastDocker, Node, Starting
<1>4. MigratedOK(n)' /\ RulesOK(n)'
  BY <1>0, <1>2 DEF InOrder, MigratedOK, RulesOK, Works, PastSchema, PastRules, PastDocker,
                    Node, Starting
<1>5. WorkOK(n)'
  BY <1>0, <1>2 DEF InOrder, WorkOK, Node, Starting
<1>6. boots' \in 0 .. MaxBoots
  BY <1>0 DEF DpTypeOK
<1> QED BY <1>1, <1>3, <1>4, <1>5, <1>6, Alone DEF InOrder

-----------------------------------------------------------------------------
(***************************************************************************)
(* Coming up                                                               *)
(***************************************************************************)

(* A process that is started is at its first step, with nothing to its name.   *)
LEMMA BootKeeps ==
  ASSUME DpInv, NEW n \in Nodes, NEW e \in SettingsOf[n], Boot(n, e)
  PROVE  DpInv'
<1> DEFINE p == [node[n] EXCEPT !.at = IF e.migrate THEN "migrate" ELSE "database", !.env = e]
<1>0. node[n] \in Node /\ InOrder(n) /\ DpTypeOK /\ node[n] = Down /\ e \in Settings
  BY DeploymentAssumption DEF DpInv, DpTypeOK, Boot, InOrder, KnownOK, DeploymentAssumption
<1>1. boots' \in 0 .. MaxBoots /\ dpFaults' \in 0 .. MaxDpFaults
  BY <1>0, DeploymentAssumption DEF DpTypeOK, Boot, DeploymentAssumption
<1>2. CASE ~Accepted(e)
  <2>1. node' = node /\ schema' = schema /\ catalogue' = catalogue
    BY <1>2 DEF Boot
  <2>2. DpTypeOK' /\ InOrder(n)'
    BY <1>0, <1>1, <2>1
    DEF DpTypeOK, InOrder, KnownOK, MigratedOK, RulesOK, OpenOK, WorkOK, Works
  <2> QED BY <1>0, <2>1, <2>2, OneAtATime DEF DpTypeOK
<1>3. CASE Accepted(e)
  <2>1. node' = [node EXCEPT ![n] = p] /\ schema' = schema /\ catalogue' = catalogue
    BY <1>0, <1>3 DEF Boot, DpTypeOK
  <2>2. p \in Node
    BY <1>0 DEF Node, Starting
  <2>3. node'[n] = p
    BY <1>0, <2>1 DEF DpTypeOK
  <2>4. p.at \in {"migrate", "database"} /\ (p.at = "database" => ~e.migrate) /\ p.env = e
        /\ p.brought = {} /\ p.loops = {} /\ p.server = "none" /\ p.requests = 0
    BY <1>0 DEF Down, Settings
  <2>5. InOrder(n)'
    BY <1>0, <1>3, <2>3, <2>4
    DEF InOrder, KnownOK, MigratedOK, RulesOK, OpenOK, WorkOK, Works, PastSchema, PastRules,
        PastDocker, Starting
  <2> QED BY <1>1, <2>1, <2>2, <2>5, Alone
<1> QED BY <1>2, <1>3

(* A step that fails had opened what is closed again, and run nothing.         *)
LEMMA StepFailsKeeps ==
  ASSUME DpInv, NEW n \in Nodes, StepFails(n)
  PROVE  DpInv'
<1>1. node[n].at \in Starting
  BY DEF StepFails, MayFail, Starting
<1>2. InOrder(n) /\ DpTypeOK
  BY DEF DpInv
<1>3. dpFaults' \in 0 .. MaxDpFaults
  BY <1>2, DeploymentAssumption DEF DpTypeOK, StepFails, DeploymentAssumption
<1>4. node[n].requests = 0 /\ node[n].server = "none" /\ node[n].at # "down"
  BY <1>1, <1>2 DEF InOrder, WorkOK, Starting
<1> QED BY <1>3, <1>4, GoesOn DEF StepFails, PastSchema, PastRules, PastDocker, Starting

(* The version goose has read is one to migrate from, or the last one.         *)
LEMMA LookAtSchemaKeeps ==
  ASSUME DpInv, NEW n \in Nodes, LookAtSchema(n)
  PROVE  DpInv'
<1> DEFINE p == [node[n] EXCEPT !.seen = schema,
                                !.at = IF schema = Migrations THEN "database" ELSE "apply"]
<1>0. node[n] \in Node /\ InOrder(n) /\ DpTypeOK /\ node[n].at = "migrate"
  BY DEF DpInv, DpTypeOK, LookAtSchema
<1>1. schema \in Nat /\ (schema # Migrations => schema < Migrations)
  BY <1>0, DeploymentAssumption DEF DpTypeOK, DeploymentAssumption
<1>2. p \in Node /\ node' = [node EXCEPT ![n] = p]
  BY <1>0, <1>1 DEF Node, Starting, LookAtSchema, DpTypeOK
<1>3. node'[n] = p
  BY <1>0, <1>2 DEF DpTypeOK
<1>4. schema' = schema /\ catalogue' = catalogue /\ boots' \in 0 .. MaxBoots
      /\ dpFaults' \in 0 .. MaxDpFaults
  BY <1>0 DEF LookAtSchema, Stays, DpTypeOK
<1>5. KnownOK(n)' /\ OpenOK(n)' /\ WorkOK(n)'
  BY <1>0, <1>3 DEF InOrder, KnownOK, OpenOK, WorkOK, PastDocker, Starting, Node
<1>6. MigratedOK(n)'
  BY <1>0, <1>1, <1>3, <1>4
  DEF InOrder, MigratedOK, WorkOK, Works, PastSchema, PastRules, PastDocker, Starting, Node
<1>7. RulesOK(n)'
  BY <1>0, <1>3, <1>4
  DEF InOrder, RulesOK, WorkOK, Works, PastRules, PastDocker, Starting, Node
<1> QED BY <1>2, <1>4, <1>5, <1>6, <1>7, Alone DEF InOrder

(* Every process that works had seen the last migration, or needs none: there  *)
(* is none left to apply.                                                      *)
LEMMA ApplyMigrationKeeps ==
  ASSUME DpInv, NEW n \in Nodes, ApplyMigration(n)
  PROVE  DpInv'
<1> DEFINE p == [node[n] EXCEPT !.at = "migrate"]
<1>0. node[n] \in Node /\ InOrder(n) /\ DpTypeOK /\ node[n].at = "apply"
  BY DEF DpInv, DpTypeOK, ApplyMigration
<1>1. schema \in 0 .. Migrations /\ schema' \in 0 .. Migrations /\ schema <= schema'
  BY <1>0, DeploymentAssumption
  DEF DpTypeOK, DeploymentAssumption, ApplyMigration, InOrder, MigratedOK
<1>2. p \in Node /\ node' = [node EXCEPT ![n] = p]
  BY <1>0 DEF Node, Starting, ApplyMigration, DpTypeOK, Goes
<1>3. node'[n] = p /\ catalogue' = catalogue
  BY <1>0, <1>2 DEF DpTypeOK, ApplyMigration
<1>4. DpTypeOK'
  BY <1>0, <1>1, <1>2, <1>3 DEF DpTypeOK, ApplyMigration
<1>5. KnownOK(n)' /\ OpenOK(n)' /\ WorkOK(n)'
  BY <1>0, <1>3 DEF InOrder, KnownOK, OpenOK, WorkOK, PastDocker, Starting, Node
<1>6. MigratedOK(n)' /\ RulesOK(n)'
  BY <1>0, <1>1, <1>3, DeploymentAssumption
  DEF InOrder, MigratedOK, RulesOK, WorkOK, Works, PastSchema, PastRules, PastDocker, Starting,
      Node, DeploymentAssumption
<1> QED BY <1>0, <1>1, <1>2, <1>3, <1>4, <1>5, <1>6, OneAtATime DEF InOrder, DpTypeOK

(* The rule a process brings stays in the table; with the last one all are     *)
(* there.                                                                      *)
LEMMA BringRuleKeeps ==
  ASSUME DpInv, NEW n \in Nodes, NEW r \in RuleIDs, BringRule(n, r)
  PROVE  DpInv'
<1> DEFINE p == [node[n] EXCEPT !.brought = node[n].brought \cup {r},
                                !.at = IF node[n].brought \cup {r} = RuleIDs
                                       THEN "docker" ELSE "rules"]
<1>0. node[n] \in Node /\ InOrder(n) /\ DpTypeOK /\ node[n].at = "rules"
  BY DEF DpInv, DpTypeOK, BringRule
<1>1. p \in Node /\ node' = [node EXCEPT ![n] = p]
  BY <1>0 DEF Node, Starting, BringRule, DpTypeOK
<1>2. node'[n] = p
  BY <1>0, <1>1 DEF DpTypeOK
<1>3. catalogue' = catalogue \cup {r} /\ schema' = schema /\ schema >= RulesSince
      /\ catalogue' \subseteq RuleIDs
  BY <1>0 DEF BringRule, DpTypeOK
<1>4. DpTypeOK'
  BY <1>0, <1>1, <1>3 DEF DpTypeOK, BringRule
<1>5. KnownOK(n)' /\ OpenOK(n)' /\ WorkOK(n)'
  BY <1>0, <1>2 DEF InOrder, KnownOK, OpenOK, WorkOK, PastDocker, Starting, Node
<1>6. MigratedOK(n)'
  BY <1>0, <1>2, <1>3
  DEF InOrder, MigratedOK, WorkOK, Works, PastSchema, PastRules, PastDocker, Starting, Node
<1>7. RulesOK(n)'
  BY <1>0, <1>2, <1>3
  DEF InOrder, RulesOK, WorkOK, Works, PastSchema, PastRules, PastDocker, Starting, Node
<1>8. InOrder(n)'
  BY <1>5, <1>6, <1>7 DEF InOrder
<1>9. (\A m \in Nodes \ {n} : node'[m] = node[m]) /\ schema <= schema'
  BY <1>0, <1>1, <1>3 DEF DpTypeOK
<1> QED BY <1>3, <1>4, <1>8, <1>9, OneAtATime

(* Opening something changes nothing but that it is open.                      *)
LEMMA OpensKeeps ==
  ASSUME DpInv, NEW n \in Nodes, OpenDatabase(n) \/ OpenRedis(n) \/ OpenDocker(n)
  PROVE  DpInv'
<1>0. node[n] \in Node /\ InOrder(n) /\ DpTypeOK
  BY DEF DpInv, DpTypeOK
<1>1. PICK client \in DOMAIN Turn, to \in {"redis", "rules", "codescan"} :
        Opens(n, client, to)
        /\ <<node[n].at, client, to>> \in {<<"database", "database", "redis">>,
             <<"redis", "redis", "rules">>, <<"docker", "docker", "codescan">>}
  BY DEF OpenDatabase, OpenRedis, OpenDocker, Turn
<1> DEFINE p == [node[n] EXCEPT !.at = to, !.open = node[n].open \cup {client}]
<1>2. p \in Node /\ node' = [node EXCEPT ![n] = p]
  BY <1>0, <1>1 DEF Node, Starting, Opens, DpTypeOK
<1>3. node'[n] = p
  BY <1>0, <1>2 DEF DpTypeOK
<1>4. schema' = schema /\ catalogue' = catalogue /\ boots' \in 0 .. MaxBoots
      /\ dpFaults' \in 0 .. MaxDpFaults
  BY <1>0 DEF OpenDatabase, OpenRedis, OpenDocker, Stays, DpTypeOK
<1>5. KnownOK(n)' /\ WorkOK(n)'
  BY <1>0, <1>1, <1>3 DEF InOrder, KnownOK, WorkOK, Starting, Node
<1>6. OpenOK(n)'
  BY <1>0, <1>1, <1>3 DEF InOrder, OpenOK, WorkOK, PastDocker, Clients, Starting, Node
<1>7. MigratedOK(n)' /\ RulesOK(n)'
  BY <1>0, <1>1, <1>3, <1>4
  DEF InOrder, MigratedOK, RulesOK, WorkOK, Works, PastSchema, PastRules, PastDocker, Starting,
      Node
<1> QED BY <1>2, <1>4, <1>5, <1>6, <1>7, Alone DEF InOrder

(* The steps that only go on: to the next one, or to the end.                  *)
LEMMA GoesOnKeeps ==
  ASSUME DpInv, NEW n \in Nodes,
         \/ MigrationIsThere(n) \/ NoTableOfRules(n) \/ ChooseCodeScanner(n)
         \/ ChooseImageScanner(n) \/ ConnectModel(n) \/ ChooseSandbox(n) \/ WireServices(n)
         \/ ListenForSignals(n) \/ Drained(n)
  PROVE  DpInv'
<1>0. node[n] \in Node /\ InOrder(n) /\ DpTypeOK
  BY DEF DpInv, DpTypeOK
<1>1. schema' = schema /\ catalogue' = catalogue /\ boots' = boots
      /\ dpFaults' \in 0 .. MaxDpFaults
  BY <1>0 DEF MigrationIsThere, NoTableOfRules, ChooseCodeScanner, ChooseImageScanner, ConnectModel,
              ChooseSandbox, WireServices, ListenForSignals, Drained, Stays, DpTypeOK
<1>2. node[n].at \in Starting =>
         node[n].server # "listening" /\ node[n].requests = 0 /\ node[n].at # "down"
  BY <1>0 DEF InOrder, WorkOK, Starting
<1>3. CASE MigrationIsThere(n) \/ NoTableOfRules(n)
  <2>1. PICK to \in {"migrate", "closing"} : Goes(n, to)
    BY <1>3 DEF MigrationIsThere, NoTableOfRules
  <2>2. node[n].at \in Starting
    BY <1>3 DEF MigrationIsThere, NoTableOfRules, Starting
  <2> QED BY <1>1, <1>2, <2>1, <2>2, GoesOn DEF PastSchema, PastRules, PastDocker, Starting
<1>4. CASE ChooseCodeScanner(n) \/ ChooseImageScanner(n) \/ ConnectModel(n) \/ ChooseSandbox(n)
           \/ WireServices(n)
  <2>1. PICK to \in {"containerscan", "ai", "pentest", "services", "loops"} : Goes(n, to)
    BY <1>4 DEF ChooseCodeScanner, ChooseImageScanner, ConnectModel, ChooseSandbox, WireServices
  <2>2. node[n].at \in Starting /\ node[n].at \in PastDocker
    BY <1>4 DEF ChooseCodeScanner, ChooseImageScanner, ConnectModel, ChooseSandbox, WireServices,
                Starting, PastDocker
  <2> QED BY <1>1, <1>2, <2>1, <2>2, GoesOn DEF PastSchema, PastRules, PastDocker, Starting
<1>5. CASE ListenForSignals(n)
  <2>1. Goes(n, "waiting") /\ node[n].at = "exposed"
    BY <1>5 DEF ListenForSignals
  <2> QED BY <1>1, <2>1, GoesOn DEF PastSchema, PastRules, PastDocker, Starting
<1>6. CASE Drained(n)
  <2>1. Goes(n, "closing") /\ node[n].at = "draining" /\ node[n].requests = 0
    BY <1>6 DEF Drained
  <2>2. node[n].server # "listening"
    BY <1>0, <2>1 DEF InOrder, WorkOK
  <2> QED BY <1>1, <2>1, <2>2, GoesOn DEF PastSchema, PastRules, PastDocker, Starting
<1> QED BY <1>3, <1>4, <1>5, <1>6

(* The loops start when everything they use is open, stopWorkers among it.     *)
LEMMA StartLoopsKeeps ==
  ASSUME DpInv, NEW n \in Nodes, StartLoops(n)
  PROVE  DpInv'
<1> DEFINE e == node[n].env
           p == [node[n] EXCEPT !.loops = LoopsOf(e),
                                !.open = IF e.role = "api" THEN node[n].open
                                         ELSE node[n].open \cup {"workers"},
                                !.at = IF e.role = "worker" THEN "waiting" ELSE "serve"]
<1>0. node[n] \in Node /\ InOrder(n) /\ DpTypeOK /\ node[n].at = "loops"
  BY DEF DpInv, DpTypeOK, StartLoops
<1>1. LoopsOf(e) \in SUBSET Loops /\ (e.role = "api" => LoopsOf(e) = {})
  BY DEF LoopsOf, Loops
<1>2. p \in Node /\ node' = [node EXCEPT ![n] = p]
  BY <1>0, <1>1 DEF Node, Turn, StartLoops, DpTypeOK
<1>3. node'[n] = p
  BY <1>0, <1>2 DEF DpTypeOK
<1>4. schema' = schema /\ catalogue' = catalogue /\ boots' \in 0 .. MaxBoots
      /\ dpFaults' \in 0 .. MaxDpFaults
  BY <1>0 DEF StartLoops, Stays, DpTypeOK
<1>5. p.at \in {"waiting", "serve"} /\ (p.at = "serve" => e.role # "worker") /\ p.env = e
      /\ p.server = "none" /\ p.requests = 0 /\ p.brought = node[n].brought
      /\ Clients \subseteq p.open /\ (e.role # "api" => "workers" \in p.open)
      /\ p.loops = LoopsOf(e)
  BY <1>0 DEF InOrder, OpenOK, WorkOK, PastDocker, Starting, Node
<1>6. KnownOK(n)' /\ WorkOK(n)'
  BY <1>0, <1>1, <1>3, <1>5 DEF InOrder, KnownOK, WorkOK, Starting
<1>7. OpenOK(n)'
  BY <1>1, <1>3, <1>5 DEF OpenOK
<1>8. MigratedOK(n)' /\ RulesOK(n)'
  BY <1>0, <1>3, <1>4, <1>5
  DEF InOrder, MigratedOK, RulesOK, Works, PastSchema, PastRules, PastDocker
<1> QED BY <1>2, <1>4, <1>6, <1>7, <1>8, Alone DEF InOrder

-----------------------------------------------------------------------------
(***************************************************************************)
(* At work, and going down                                                 *)
(***************************************************************************)

(* What a process came up with stays as it is while it works and goes down: it *)
(* is enough to know what is open and what is asked of it.                     *)
LEMMA PastItsStart ==
  ASSUME DpInv, NEW n \in Nodes, NEW next \in Node, node' = [node EXCEPT ![n] = next],
         schema' = schema, catalogue' = catalogue, boots' = boots,
         dpFaults' \in 0 .. MaxDpFaults,
         node[n].at \in PastDocker \cup {"closing"},
         next.at \in PastDocker \cup {"closing"}, next.at \notin Starting,
         next.at # "closing" => node[n].at # "closing",
         next.env = node[n].env, next.brought = node[n].brought,
         node[n].at = "closing" =>
            /\ next.loops # {} => node[n].loops # {}
            /\ next.server = "listening" => node[n].server = "listening",
         OpenOK(n)', WorkOK(n)'
  PROVE  DpInv'
<1>0. InOrder(n) /\ DpTypeOK /\ node'[n] = next
  BY DEF DpInv, DpTypeOK
<1>1. KnownOK(n)'
  BY <1>0 DEF InOrder, KnownOK, PastDocker
<1>2. MigratedOK(n)' /\ RulesOK(n)'
  BY <1>0
  DEF InOrder, MigratedOK, RulesOK, Works, PastSchema, PastRules, PastDocker, Starting
<1>3. boots' \in 0 .. MaxBoots
  BY <1>0 DEF DpTypeOK
<1> QED BY <1>1, <1>2, <1>3, Alone DEF InOrder

(* A server that begins to listen, or fails, has everything open behind it.    *)
LEMMA ServerKeeps ==
  ASSUME DpInv, NEW n \in Nodes, Serve(n) \/ ServerFails(n)
  PROVE  DpInv'
<1>0. node[n] \in Node /\ InOrder(n) /\ DpTypeOK
  BY DEF DpInv, DpTypeOK
<1>1. CASE Serve(n)
  <2> DEFINE p == [node[n] EXCEPT !.at = "exposed", !.server = "listening"]
  <2>1. p \in Node /\ node' = [node EXCEPT ![n] = p] /\ node[n].at = "serve"
        /\ schema' = schema /\ catalogue' = catalogue /\ boots' = boots
        /\ dpFaults' \in 0 .. MaxDpFaults
    BY <1>0, <1>1 DEF Node, Serve, Stays, DpTypeOK
  <2>2. node'[n] = p
    BY <1>0, <2>1 DEF DpTypeOK
  <2>3. OpenOK(n)' /\ WorkOK(n)'
    BY <1>0, <2>1, <2>2 DEF InOrder, OpenOK, WorkOK, PastDocker, Starting, Node
  <2> QED BY <1>0, <2>1, <2>3, PastItsStart DEF PastDocker, Starting, Node
<1>2. CASE ServerFails(n)
  <2> DEFINE p == [node[n] EXCEPT !.server = "failed"]
  <2>1. p \in Node /\ node' = [node EXCEPT ![n] = p]
        /\ node[n].at \in {"exposed", "waiting", "stopping"}
        /\ node[n].server = "listening"
        /\ schema' = schema /\ catalogue' = catalogue /\ boots' = boots
    BY <1>0, <1>2 DEF Node, ServerFails, DpTypeOK, InOrder, WorkOK
  <2>2. dpFaults' \in 0 .. MaxDpFaults
    BY <1>0, <1>2, DeploymentAssumption DEF ServerFails, DpTypeOK, DeploymentAssumption
  <2>3. node'[n] = p
    BY <1>0, <2>1 DEF DpTypeOK
  <2>4. OpenOK(n)' /\ WorkOK(n)'
    BY <1>0, <2>1, <2>3 DEF InOrder, OpenOK, WorkOK, PastDocker, Starting, Node
  <2> QED BY <1>0, <2>1, <2>2, <2>4, PastItsStart DEF PastDocker, Starting, Node
<1> QED BY <1>1, <1>2

(* A request is taken while the server listens, and may be answered at any     *)
(* time.                                                                       *)
LEMMA RequestKeeps ==
  ASSUME DpInv, NEW n \in Nodes, TakeRequest(n) \/ AnswerRequest(n)
  PROVE  DpInv'
<1>0. node[n] \in Node /\ InOrder(n) /\ DpTypeOK /\ MaxRequests \in Nat
  BY DeploymentAssumption DEF DpInv, DpTypeOK, DeploymentAssumption
<1>1. PICK k \in 0 .. MaxRequests :
        /\ node' = [node EXCEPT ![n] = [node[n] EXCEPT !.requests = k]]
        /\ k > 0 => node[n].server = "listening" \/ node[n].requests > 0
  <2>1. CASE TakeRequest(n)
    <3>1. node[n].requests + 1 \in 0 .. MaxRequests
      BY <1>0, <2>1 DEF TakeRequest, Node
    <3> QED BY <1>0, <2>1, <3>1 DEF TakeRequest, DpTypeOK
  <2>2. CASE AnswerRequest(n)
    <3>1. node[n].requests - 1 \in 0 .. MaxRequests /\ node[n].requests > 0
      BY <1>0, <2>2 DEF AnswerRequest, Node
    <3> QED BY <1>0, <2>2, <3>1 DEF AnswerRequest, DpTypeOK
  <2> QED BY <2>1, <2>2
<1> DEFINE p == [node[n] EXCEPT !.requests = k]
<1>2. p \in Node /\ schema' = schema /\ catalogue' = catalogue /\ boots' = boots
      /\ dpFaults' \in 0 .. MaxDpFaults
  BY <1>0 DEF Node, TakeRequest, AnswerRequest, Stays, DpTypeOK
<1>3. node'[n] = p
  BY <1>0, <1>1 DEF DpTypeOK
<1>4. node[n].server = "listening" \/ node[n].requests > 0
  BY DEF TakeRequest, AnswerRequest
<1>5. node[n].at \notin Starting /\ node[n].at \notin {"serve", "down"}
  BY <1>0, <1>4 DEF InOrder, WorkOK, KnownOK, Down, Node
<1>6. node[n].at \in PastDocker \cup {"closing"}
  BY <1>0, <1>5 DEF Node, PastDocker
<1>7. OpenOK(n)' /\ WorkOK(n)'
  BY <1>0, <1>1, <1>3, <1>4, <1>5 DEF InOrder, OpenOK, WorkOK, PastDocker, Starting, Node
<1> QED BY <1>1, <1>2, <1>5, <1>6, <1>7, PastItsStart DEF Node

(* A signal tells the loops, if there are any, and nothing is closed yet.      *)
LEMMA SignalKeeps ==
  ASSUME DpInv, NEW n \in Nodes, Signal(n)
  PROVE  DpInv'
<1> DEFINE p == [node[n] EXCEPT !.at = "stopping", !.told = (node[n].env.role # "api")]
<1>0. node[n] \in Node /\ InOrder(n) /\ DpTypeOK /\ node[n].at = "waiting"
  BY DEF DpInv, DpTypeOK, Signal
<1>1. node' = [node EXCEPT ![n] = p]
  BY <1>0 DEF Signal, DpTypeOK
<1>2. p \in Node
  <2>1. (node[n].env.role # "api") \in BOOLEAN
    OBVIOUS
  <2> QED BY <1>0, <2>1 DEF Node
<1>3. schema' = schema /\ catalogue' = catalogue /\ boots' = boots
      /\ dpFaults' \in 0 .. MaxDpFaults
  BY <1>0 DEF Signal, Stays, DpTypeOK
<1>4. node'[n] = p
  BY <1>0, <1>1 DEF DpTypeOK
<1>5. p.at = "stopping" /\ p.loops = node[n].loops /\ p.open = node[n].open
      /\ p.env = node[n].env /\ p.server = node[n].server /\ p.requests = node[n].requests
      /\ p.brought = node[n].brought
  BY <1>0 DEF Node
<1>6. ~p.told => node[n].env.role = "api"
  BY <1>0 DEF Node
<1>7. OpenOK(n)'
  <2>1. Clients \subseteq node[n].open
    BY <1>0 DEF InOrder, OpenOK, PastDocker
  <2>2. node[n].env.role = "api" => node[n].loops = {}
    BY <1>0 DEF InOrder, WorkOK
  <2> QED BY <1>4, <1>5, <1>6, <2>1, <2>2 DEF OpenOK
<1>8. WorkOK(n)'
  BY <1>0, <1>4, <1>5 DEF InOrder, WorkOK, Starting
<1> QED BY <1>0, <1>1, <1>2, <1>3, <1>5, <1>7, <1>8, PastItsStart DEF PastDocker, Starting

(* The listener is closed before anything else.                                *)
LEMMA CloseListenerKeeps ==
  ASSUME DpInv, NEW n \in Nodes, CloseListener(n)
  PROVE  DpInv'
<1> DEFINE p == IF node[n].env.role = "worker"
                THEN [node[n] EXCEPT !.at = "closing"]
                ELSE [node[n] EXCEPT !.at = "draining", !.server = "closed"]
<1>0. node[n] \in Node /\ InOrder(n) /\ DpTypeOK /\ node[n].at = "stopping"
  BY DEF DpInv, DpTypeOK, CloseListener
<1>1. node' = [node EXCEPT ![n] = p]
  BY <1>0 DEF CloseListener, DpTypeOK
<1>2. p \in Node
  BY <1>0 DEF Node
<1>3. schema' = schema /\ catalogue' = catalogue /\ boots' = boots
      /\ dpFaults' \in 0 .. MaxDpFaults
  BY <1>0 DEF CloseListener, Stays, DpTypeOK
<1>4. node'[n] = p
  BY <1>0, <1>1 DEF DpTypeOK
<1>5. p.at = (IF node[n].env.role = "worker" THEN "closing" ELSE "draining")
      /\ p.loops = node[n].loops /\ p.told = node[n].told /\ p.open = node[n].open
      /\ p.env = node[n].env /\ p.requests = node[n].requests
      /\ p.brought = node[n].brought
      /\ p.server = (IF node[n].env.role = "worker" THEN node[n].server ELSE "closed")
  BY <1>0 DEF Node
<1>6. OpenOK(n)'
  BY <1>0, <1>4, <1>5 DEF InOrder, OpenOK, PastDocker
<1>7. WorkOK(n)'
  BY <1>0, <1>4, <1>5 DEF InOrder, WorkOK, Starting
<1>8. p.at \in PastDocker \cup {"closing"} /\ p.at \notin Starting
      /\ node[n].at \in PastDocker /\ node[n].at # "closing"
  BY <1>0, <1>5 DEF PastDocker, Starting
<1> HIDE DEF p
<1> QED BY <1>1, <1>2, <1>3, <1>5, <1>6, <1>7, <1>8, PastItsStart

(* Who leaves the requests behind is in a hurry.                               *)
LEMMA HurryKeeps ==
  ASSUME DpInv, NEW n \in Nodes, SeeServerError(n) \/ Deadline(n)
  PROVE  DpInv'
<1> DEFINE p == [node[n] EXCEPT !.at = "closing", !.hurried = TRUE]
<1>0. node[n] \in Node /\ InOrder(n) /\ DpTypeOK /\ node[n].at \in {"waiting", "draining"}
      /\ node[n].server # "listening"
  BY DEF DpInv, DpTypeOK, SeeServerError, Deadline, InOrder, WorkOK
<1>1. node' = [node EXCEPT ![n] = p]
  BY <1>0 DEF SeeServerError, Deadline, DpTypeOK
<1>2. p \in Node
  BY <1>0 DEF Node
<1>3. schema' = schema /\ catalogue' = catalogue /\ boots' = boots
      /\ dpFaults' \in 0 .. MaxDpFaults
  BY <1>0 DEF SeeServerError, Deadline, Stays, DpTypeOK
<1>4. node'[n] = p
  BY <1>0, <1>1 DEF DpTypeOK
<1>5. p.at = "closing" /\ p.loops = node[n].loops /\ p.told = node[n].told
      /\ p.open = node[n].open /\ p.env = node[n].env /\ p.requests = node[n].requests
      /\ p.brought = node[n].brought /\ p.server = node[n].server /\ p.hurried
  BY <1>0 DEF Node
<1>6. OpenOK(n)'
  BY <1>0, <1>4, <1>5 DEF InOrder, OpenOK, PastDocker
<1>7. WorkOK(n)'
  BY <1>0, <1>4, <1>5 DEF InOrder, WorkOK, Starting
<1> QED BY <1>0, <1>1, <1>2, <1>3, <1>5, <1>6, <1>7, PastItsStart DEF PastDocker, Starting

(* Loops that have been told to stop are not there any more at some time.      *)
LEMMA LoopsReturnKeeps ==
  ASSUME DpInv, NEW n \in Nodes, LoopsReturn(n)
  PROVE  DpInv'
<1> DEFINE p == [node[n] EXCEPT !.loops = {}]
<1>0. node[n] \in Node /\ InOrder(n) /\ DpTypeOK /\ node[n].loops # {}
  BY DEF DpInv, DpTypeOK, LoopsReturn
<1>1. p \in Node /\ node' = [node EXCEPT ![n] = p] /\ schema' = schema
      /\ catalogue' = catalogue /\ boots' = boots /\ dpFaults' \in 0 .. MaxDpFaults
  BY <1>0 DEF Node, LoopsReturn, Stays, DpTypeOK
<1>2. node'[n] = p
  BY <1>0, <1>1 DEF DpTypeOK
<1>3. node[n].at \notin Starting /\ node[n].at # "down"
  BY <1>0 DEF InOrder, WorkOK, KnownOK, Down
<1>4. node[n].at \in PastDocker \cup {"closing"}
  BY <1>0, <1>3 DEF Node, PastDocker
<1>5. OpenOK(n)' /\ WorkOK(n)'
  BY <1>0, <1>2 DEF InOrder, OpenOK, WorkOK, Node
<1> QED BY <1>1, <1>3, <1>4, <1>5, PastItsStart DEF Node

(* stopWorkers has its turn first: what the loops use is closed after it.      *)
LEMMA CloseLastKeeps ==
  ASSUME DpInv, NEW n \in Nodes, CloseLast(n)
  PROVE  DpInv'
<1>0. node[n] \in Node /\ InOrder(n) /\ DpTypeOK /\ node[n].at = "closing"
  BY DEF DpInv, DpTypeOK, CloseLast
<1>1. PICK x \in node[n].open :
        /\ \A y \in node[n].open : Turn[y] <= Turn[x]
        /\ node' = [node EXCEPT ![n].open = @ \ {x}, ![n].told = @ \/ x = "workers"]
  BY DEF CloseLast
<1> DEFINE p == [node[n] EXCEPT !.open = node[n].open \ {x},
                                !.told = node[n].told \/ x = "workers"]
<1>2. node' = [node EXCEPT ![n] = p]
  BY <1>0, <1>1 DEF DpTypeOK
<1>3. p \in Node
  <2>1. (node[n].told \/ x = "workers") \in BOOLEAN
    OBVIOUS
  <2>2. node[n].open \ {x} \in SUBSET DOMAIN Turn
    BY <1>0 DEF Node
  <2> QED BY <1>0, <2>1, <2>2 DEF Node
<1>4. node'[n] = p
  BY <1>0, <1>2 DEF DpTypeOK
<1>5. x \in DOMAIN Turn /\ ("workers" \in node[n].open => x = "workers")
  BY <1>0, <1>1 DEF Node, Turn
<1>6. OpenOK(n)'
  <2>1. p.at = "closing" /\ p.loops = node[n].loops /\ p.open = node[n].open \ {x}
    BY <1>0 DEF Node
  <2>2. p.loops # {} /\ ~p.told => FALSE
    <3>1. SUFFICES ASSUME p.loops # {}, ~p.told
                   PROVE  FALSE
      OBVIOUS
    <3>2. ~(node[n].told \/ x = "workers")
      BY <1>0, <3>1 DEF Node
    <3>3. "workers" \in node[n].open
      BY <1>0, <2>1, <3>1, <3>2 DEF InOrder, OpenOK
    <3> QED BY <1>5, <3>2, <3>3
  <2> QED BY <1>4, <2>1, <2>2 DEF OpenOK, PastDocker
<1>7. WorkOK(n)'
  BY <1>0, <1>4 DEF InOrder, WorkOK, Node, Starting
<1>8. schema' = schema /\ catalogue' = catalogue /\ boots' = boots
      /\ dpFaults' \in 0 .. MaxDpFaults
  BY <1>0 DEF CloseLast, Stays, DpTypeOK
<1>9. p.at = "closing" /\ p.at \notin Starting /\ p.env = node[n].env
      /\ p.brought = node[n].brought /\ p.loops = node[n].loops /\ p.server = node[n].server
  BY <1>0 DEF Node, Starting
<1> HIDE DEF p
<1> QED BY <1>0, <1>2, <1>3, <1>6, <1>7, <1>8, <1>9, PastItsStart

(* A process that is gone leaves nothing but what is in the database.          *)
LEMMA GoneKeeps ==
  ASSUME DpInv, NEW n \in Nodes, Exit(n) \/ Die(n)
  PROVE  DpInv'
<1>0. DpTypeOK /\ MaxRequests \in Nat
  BY DeploymentAssumption DEF DpInv, DeploymentAssumption
<1>1. Down \in Node /\ node' = [node EXCEPT ![n] = Down] /\ schema' = schema
      /\ catalogue' = catalogue /\ boots' \in 0 .. MaxBoots /\ dpFaults' \in 0 .. MaxDpFaults
  BY <1>0 DEF Down, Node, Exit, Die, Stays, DpTypeOK
<1>2. node'[n] = Down
  BY <1>0, <1>1 DEF DpTypeOK
<1>3. InOrder(n)'
  BY <1>2
  DEF Down, InOrder, KnownOK, MigratedOK, RulesOK, OpenOK, WorkOK, Works, PastSchema,
      PastRules, PastDocker, Starting
<1> QED BY <1>1, <1>3, Alone

-----------------------------------------------------------------------------
(***************************************************************************)
(* The theorems                                                            *)
(***************************************************************************)

(* A step of any process.                                                      *)
LEMMA DpNextKeeps ==
  ASSUME DpInv, [DpNext]_DpVars
  PROVE  DpInv'
<1>1. CASE UNCHANGED DpVars
  BY <1>1
  DEF DpVars, DpInv, DpTypeOK, InOrder, KnownOK, MigratedOK, RulesOK, OpenOK, WorkOK, Works
<1>2. CASE DpNext
  <2>1. PICK n \in Nodes : DpStep(n)
    BY <1>2 DEF DpNext
  <2> QED BY <2>1, BootKeeps, StepFailsKeeps, LookAtSchemaKeeps, ApplyMigrationKeeps,
             BringRuleKeeps, OpensKeeps, GoesOnKeeps, StartLoopsKeeps, ServerKeeps, RequestKeeps,
             SignalKeeps, CloseListenerKeeps, HurryKeeps, LoopsReturnKeeps, CloseLastKeeps,
             GoneKeeps
          DEF DpStep
<1> QED BY <1>1, <1>2

(* The invariant the others follow from holds in every state.                  *)
THEOREM DeploymentInductive == DpSpec => []DpInv
<1>1. DpInit => DpInv
  <2>1. SUFFICES ASSUME DpInit PROVE DpInv
    OBVIOUS
  <2>2. Down \in Node
    BY DeploymentAssumption DEF Down, Node, DeploymentAssumption
  <2>3. DpTypeOK
    BY <2>1, <2>2, DeploymentAssumption DEF DpInit, DpTypeOK, DeploymentAssumption
  <2>4. ASSUME NEW n \in Nodes PROVE InOrder(n)
    BY <2>1, <2>4
    DEF DpInit, Down, InOrder, KnownOK, MigratedOK, RulesOK, OpenOK, WorkOK, Works,
        PastSchema, PastRules, PastDocker, Starting
  <2> QED BY <2>3, <2>4 DEF DpInv
<1> QED BY <1>1, DpNextKeeps, PTL DEF DpSpec

(* Every variable has its type, with any number of processes, rules and        *)
(* migrations.                                                                 *)
THEOREM DeploymentTypes == DpSpec => []DpTypeOK
<1>1. DpInv => DpTypeOK
  BY DEF DpInv
<1> QED BY <1>1, DeploymentInductive, PTL

(* However many processes come up, fail on the way, are stopped, killed and    *)
(* started again: none works before the database has what it needs, no loop    *)
(* goes on without its clients, and no request loses its database but to a     *)
(* failed server or the deadline (cmd/guardpipe/main.go, run and               *)
(* waitForShutdown).                                                           *)
THEOREM DeploymentInOrder == DpSpec => []ProcessesInOrder
<1>1. DpInv => ProcessesInOrder
  <2>1. SUFFICES ASSUME DpInv, NEW n \in Nodes
                 PROVE  /\ WorksOnAWholeDatabase(n) /\ LoopsHaveTheirClients(n)
                        /\ RequestsHaveTheirDatabase(n) /\ NothingRunsBeforeItsTime(n)
    BY DEF ProcessesInOrder
  <2>2. InOrder(n) /\ node[n] \in Node
    BY <2>1 DEF DpInv, DpTypeOK
  <2>3. WorksOnAWholeDatabase(n)
    BY <2>2 DEF InOrder, MigratedOK, RulesOK, WorksOnAWholeDatabase
  <2>4. LoopsHaveTheirClients(n) /\ NothingRunsBeforeItsTime(n)
    BY <2>2 DEF InOrder, OpenOK, WorkOK, LoopsHaveTheirClients, NothingRunsBeforeItsTime
  <2>5. RequestsHaveTheirDatabase(n)
    <3>1. SUFFICES ASSUME node[n].requests > 0, node[n].at # "closing"
                   PROVE  "database" \in node[n].open
      BY <2>2 DEF InOrder, WorkOK, RequestsHaveTheirDatabase
    <3>2. node[n].at \notin Starting /\ node[n].at # "down"
      BY <2>2, <3>1 DEF InOrder, WorkOK, KnownOK, Down
    <3>3. node[n].at \in PastDocker
      BY <2>2, <3>1, <3>2 DEF Node, PastDocker
    <3> QED BY <2>2, <3>3 DEF InOrder, OpenOK, Clients
  <2> QED BY <2>3, <2>4, <2>5
<1> QED BY <1>1, DeploymentInductive, PTL

-----------------------------------------------------------------------------
(*****************************************************************************)
(* All of them                                                             *)
(*****************************************************************************)

(* However many replicas there are, and however they start, stop, tick and     *)
(* send at the same time: a schedule fires a slot once and a report is mailed  *)
(* once, but for a fault, and none of them works before all it needs is there, *)
(* or after (modules/schedule/service.go, Tick; modules/notification/sender.go,*)
(* RunOnce; cmd/guardpipe/main.go, run).                                       *)
THEOREM ReplicasStayInStep == RpSpec => []ReplicasInStep
<1>1. FiresASlotOnce /\ EmailedOnce /\ ProcessesInOrder => ReplicasInStep
  BY DEF ReplicasInStep
<1> QED BY <1>1, SlotsFireOnce, ReportsMailedOnce, DeploymentInOrder, PTL DEF RpSpec
=============================================================================
