----------------------------- MODULE Schedules -----------------------------
(***************************************************************************)
(* A scheduled scan: the row of scan_schedules, the people who edit it     *)
(* (orchestrator/schedule.go) and the scheduler of every worker replica    *)
(* (scheduler.go), which ticks on its own and claims nothing.              *)
(*                                                                         *)
(* One action per statement.  Time counts in units of minScheduleInterval; *)
(* a cron expression is the number of units between its runs, and the      *)
(* minute between two ticks is no time at all.                             *)
(*                                                                         *)
(* Left out: the profile and the assignee (no step depends on them), and   *)
(* the other schedules of a batch, which fire whatever becomes of this one.*)
(***************************************************************************)
EXTENDS Naturals, FiniteSets

CONSTANTS
    Replicas,     \* worker replicas
    Crons,        \* cron expressions: units between two runs
    MaxClock,     \* bound: time
    MaxEdits,     \* bound: requests that edit the schedule
    MaxScFaults   \* bound: crashes and failed commands of the replicas

ASSUME SchedulesAssumption ==
    /\ Crons \subseteq Nat \ {0}
    /\ {MaxClock, MaxEdits, MaxScFaults} \subseteq Nat

VARIABLES
    clock,      \* the time
    schedule,   \* the row, or Deleted
    tick,       \* where the tick of each replica stands
    edit,       \* the row an UpdateSchedule has read, or NoEdit
    edits,      \* requests that edited the schedule so far
    fired,      \* the scans created: by whom, for which slot, the how manieth of it
    scFaults    \* crashes and failed commands so far

ScVars == <<clock, schedule, tick, edit, edits, fired, scFaults>>

Row == [cron : Crons, enabled : BOOLEAN, next : Nat]
Deleted == [cron |-> 0, enabled |-> FALSE, next |-> 0]
NoEdit == Deleted

\* cron.Schedule.Next: the first run after a time
NextRun(cron, t) == (t \div cron + 1) * cron

AtRest == [at |-> "rest", slot |-> 0, cron |-> 0]

ScTypeOK ==
    /\ clock \in 0 .. MaxClock
    /\ schedule \in Row \cup {Deleted} /\ edit \in Row \cup {NoEdit}
    /\ tick \in [Replicas -> [at : {"rest", "read", "create", "record"},
                              slot : Nat, cron : Crons \cup {0}]]
    /\ edits \in 0 .. MaxEdits /\ scFaults \in 0 .. MaxScFaults
    /\ fired \subseteq [by : Replicas, slot : 0 .. clock, nth : Nat]

\* CreateSchedule: enabled, and due at the next run after now
ScInit ==
    /\ clock = 0
    /\ \E c \in Crons : schedule = [cron |-> c, enabled |-> TRUE, next |-> NextRun(c, 0)]
    /\ tick = [r \in Replicas |-> AtRest]
    /\ edit = NoEdit /\ edits = 0 /\ fired = {} /\ scFaults = 0

TimePasses ==
    /\ clock < MaxClock
    /\ clock' = clock + 1
    /\ UNCHANGED <<schedule, tick, edit, edits, fired, scFaults>>

IsDue == schedule.enabled /\ schedule.next <= clock

(***************************************************************************)
(* Scheduler.tick and TriggerSchedule                                      *)
(***************************************************************************)

\* ListDue
ListSchedule(r) ==
    /\ tick[r].at = "rest" /\ schedule # Deleted /\ IsDue
    /\ tick' = [tick EXCEPT ![r] = [AtRest EXCEPT !.at = "read", !.slot = schedule.next]]
    /\ UNCHANGED <<clock, schedule, edit, edits, fired, scFaults>>

\* TriggerSchedule reads the row by its id; it asks neither whether it is still
\* enabled nor whether it is still due. A project without an organisation goes
\* straight to the outcome.
ReadSchedule(r, next) ==
    /\ tick[r].at = "read" /\ next \in {"create", "record"}
    /\ tick' = [tick EXCEPT ![r] = IF schedule = Deleted THEN AtRest
                                   ELSE [@ EXCEPT !.at = next, !.cron = schedule.cron]]
    /\ UNCHANGED <<clock, schedule, edit, edits, fired, scFaults>>

FiredBy(r, t) == {f \in fired : f.by = r /\ f.slot = t}

\* CreateScan: the scan is there, or it was refused or failed.
CreateScheduledScan(r) ==
    /\ tick[r].at = "create"
    /\ fired' = fired \cup {[by |-> r, slot |-> tick[r].slot, nth |-> Cardinality(FiredBy(r, tick[r].slot))]}
    /\ tick' = [tick EXCEPT ![r].at = "record"]
    /\ UNCHANGED <<clock, schedule, edit, edits, scFaults>>
SkipScheduledScan(r) ==
    /\ tick[r].at = "create"
    /\ tick' = [tick EXCEPT ![r].at = "record"]
    /\ UNCHANGED <<clock, schedule, edit, edits, fired, scFaults>>

\* The next run after now, so that runs missed meanwhile are skipped
RunAfter(cron) == NextRun(cron, clock)

\* recordScheduleOutcome writes next_run_at and leaves the rest of the row.
RecordRun(r) ==
    /\ tick[r].at = "record"
    /\ schedule' = IF schedule = Deleted THEN Deleted
                   ELSE [schedule EXCEPT !.next = RunAfter(tick[r].cron)]
    /\ tick' = [tick EXCEPT ![r] = AtRest]
    /\ UNCHANGED <<clock, edit, edits, fired, scFaults>>

\* The replica dies, or a command of it fails, before the run is recorded.
LoseTick(r) ==
    /\ tick[r].at # "rest" /\ scFaults < MaxScFaults
    /\ tick' = [tick EXCEPT ![r] = AtRest]
    /\ scFaults' = scFaults + 1
    /\ UNCHANGED <<clock, schedule, edit, edits, fired>>

(***************************************************************************)
(* UpdateSchedule reads the row and writes all of it back, next_run_at     *)
(* included; a new cron expression makes a new next_run_at.                *)
(***************************************************************************)

ReadForUpdate ==
    /\ edit = NoEdit /\ edits < MaxEdits /\ schedule # Deleted
    /\ edit' = schedule
    /\ edits' = edits + 1
    /\ UNCHANGED <<clock, schedule, tick, fired, scFaults>>

WriteUpdate(cron, enabled) ==
    LET next == IF cron = edit.cron THEN edit.next ELSE NextRun(cron, clock) IN
    /\ edit # NoEdit
    /\ schedule' = IF schedule = Deleted THEN Deleted
                   ELSE [cron |-> cron, enabled |-> enabled, next |-> next]
    /\ edit' = NoEdit
    /\ UNCHANGED <<clock, tick, edits, fired, scFaults>>

DeleteSchedule ==
    /\ schedule # Deleted /\ edits < MaxEdits
    /\ schedule' = Deleted /\ edits' = edits + 1
    /\ UNCHANGED <<clock, tick, edit, fired, scFaults>>

ScTick(r) ==
    \/ ListSchedule(r) \/ CreateScheduledScan(r) \/ SkipScheduledScan(r) \/ RecordRun(r)
    \/ \E next \in {"create", "record"} : ReadSchedule(r, next)

ScNext ==
    \/ TimePasses \/ ReadForUpdate \/ DeleteSchedule
    \/ \E c \in Crons, enabled \in BOOLEAN : WriteUpdate(c, enabled)
    \/ \E r \in Replicas : ScTick(r) \/ LoseTick(r)

ScSpec == ScInit /\ [][ScNext]_ScVars

(***************************************************************************)
(* Properties                                                              *)
(***************************************************************************)

\* A replica fires one slot of a schedule once. It fires it again only if a
\* crash or a failed write kept a run from being recorded, or an edit that had
\* read the row before wrote its next_run_at over the one recorded.
FiresASlotOnce ==
    \A r \in Replicas, t \in 1 .. MaxClock :
        Cardinality(FiredBy(r, t)) <= 1 + scFaults + edits

\* A schedule that is due moves on, whether its scans are created or refused,
\* and whatever time it lost before: "a failing project must not spin the
\* ticker on the same due schedule every tick forever".
DueScheduleMovesOn == IsDue ~> ~IsDue
=============================================================================
