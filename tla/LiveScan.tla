------------------------------ MODULE LiveScan ------------------------------
(***************************************************************************)
(* Live scanning of one project and one branch of those it watches, of     *)
(* which pull requests into another of them are opened: GitHub's           *)
(* deliveries, the receiver in the API, the debounce window, markers and   *)
(* hourly counter in Redis (adapters/queue/livescan.go), and the workers   *)
(* that turn events into scans (livescan/service.go and worker.go).        *)
(*                                                                         *)
(* One action per Redis command, script or statement, so that deliveries,  *)
(* workers, faults and the passing of time interleave between them.  A     *)
(* commit is its number on the branch; a scan, for a push or for a pull    *)
(* request, whose branch is its head's, clones what the branch holds when  *)
(* it runs, so it covers every commit up to the head at its creation.      *)
(*                                                                         *)
(* Left out: signatures, pings and events nobody watches, forks, another   *)
(* repository's events, GitHub's side of Enable and Disable, and the 24    *)
(* hours after which a marker is gone (a behaviour is shorter than that).  *)
(***************************************************************************)
EXTENDS Naturals, Sequences, FiniteSets

CONSTANTS
    LsWorkers,      \* worker replicas
    MaxHead,        \* bound: commits pushed to the branch
    PullRequests,   \* the commits a pull request is opened at
    HourlyLimit,    \* Config.MaxScansPerProjectPerHour, where there is one: 0 is no limit
    BreakerFactor,  \* triggers past the limit, in limits, that pause the hook
    Balances,       \* the balances to start with
    Floor,          \* what live scanning must leave of one
    MaxHours,       \* bound: expiries of the hourly counter
    MaxLsFaults     \* bound: crashes and failed commands

ASSUME LiveScanAssumption ==
    /\ {MaxHead, HourlyLimit, BreakerFactor, Floor, MaxHours,
        MaxLsFaults} \cup Balances \subseteq Nat
    /\ HourlyLimit # 0
    /\ PullRequests \subseteq 1 .. MaxHead

VARIABLES
    head,       \* commits on the branch so far
    seen,       \* gp:webhook:seen, deliveries: SETNX
    events,     \* gp:webhook:events, oldest first
    window,     \* gp:webhook:pending: the payload and whether its time has come
    counter,    \* gp:webhook:count: value, and whether it will expire
    marked,     \* gp:webhook:seen, commits
    hook,       \* project_webhooks: "active", "paused" or "off"
    balance,    \* the organisation's tokens
    wk,         \* what each worker is at
    scans,      \* the scans created
    recorded,   \* commits whose trigger was dropped with its reason recorded
    hour,       \* expiries of the counter so far
    lsFaults,   \* crashes and failed commands so far
    excused     \* something happened that may cost a push its scan: a fault, a
                \* webhook that is not active, deliveries overtaking each other

LsVars == <<head, seen, events, window, counter, marked, hook,
            balance, wk, scans, recorded, hour, lsFaults, excused>>

Deliveries == {"push", "pr"} \X (1 .. MaxHead)
Commit(d) == d[2]
None == 0                       \* no window, no payload

Idle == [at |-> "pop", d |-> <<"push", None>>, hour |-> 0, n |-> 0, raced |-> FALSE]
LsPlaces == {"pop", "list", "claim", "arm", "count", "expire", "judge",
           "mark", "create"}

IsPaying(w) == wk[w].at \in {"mark", "create"}

LsTypeOK ==
    /\ head \in 0 .. MaxHead
    /\ seen \subseteq Deliveries
    /\ events \in Seq(Deliveries)
    /\ window \in [commit : 0 .. MaxHead, due : BOOLEAN]
    /\ counter \in [n : Nat, expires : BOOLEAN]
    /\ marked \subseteq 1 .. MaxHead
    /\ hook \in {"active", "paused", "off"}
    /\ balance \in Nat
    /\ \A w \in LsWorkers : wk[w].at \in LsPlaces
    /\ \A s \in scans : s \in [commit : 1 .. MaxHead, head : 1 .. MaxHead, hour : Nat,
                               left : Nat, raced : BOOLEAN, nth : Nat]
    /\ recorded \subseteq 1 .. MaxHead
    /\ hour \in 0 .. MaxHours /\ lsFaults \in 0 .. MaxLsFaults
    /\ excused \in BOOLEAN

LsInit ==
    /\ head = 0
    /\ seen = {} /\ events = <<>>
    /\ window = [commit |-> None, due |-> FALSE]
    /\ counter = [n |-> 0, expires |-> FALSE]
    /\ marked = {} /\ hook = "active" /\ balance \in Balances
    /\ wk = [w \in LsWorkers |-> Idle]
    /\ scans = {} /\ recorded = {} /\ hour = 0 /\ lsFaults = 0 /\ excused = FALSE

(***************************************************************************)
(* GitHub and the people around it.                                        *)
(* (An operator whose comment says "instead" is a plausible mistake in the *)
(* operator it precedes; only the mutants use it.)                         *)
(***************************************************************************)

\* Someone pushes a commit.
Push ==
    /\ head < MaxHead
    /\ head' = head + 1
    /\ UNCHANGED <<seen, events, window, counter, marked, hook,
                   balance, wk, scans, recorded, hour, lsFaults, excused>>

Exists(d) == Commit(d) <= head /\ (d[1] = "pr" => Commit(d) \in PullRequests)

\* Receive: the delivery is marked seen and queued, and one that was seen
\* before ends there, so that GitHub may redeliver as often as it likes.
Receive(d) ==
    /\ Exists(d) /\ hook # "off"
    /\ seen' = seen \cup {d}
    /\ events' = IF d \in seen THEN events ELSE Append(events, d)
    /\ UNCHANGED <<head, window, counter, marked, hook, balance, wk, scans, recorded,
                   hour, lsFaults, excused>>

\* PushEvent fails, or the API dies before it: the marker stays.
ReceiveFails(d) ==
    /\ Exists(d) /\ hook # "off" /\ d \notin seen /\ lsFaults < MaxLsFaults
    /\ seen' = seen \cup {d}
    /\ lsFaults' = lsFaults + 1 /\ excused' = TRUE
    /\ UNCHANGED <<head, events, window, counter, marked, hook, balance, wk, scans,
                   recorded, hour>>

\* Enable on a row that exists clears the pause. Disable deletes the row, and
\* turning it on again would make another webhook.
EnableAgain ==
    /\ hook = "paused" /\ hook' = "active"
    /\ UNCHANGED <<head, seen, events, window, counter, marked,
                   balance, wk, scans, recorded, hour, lsFaults, excused>>
Disable ==
    /\ hook # "off" /\ hook' = "off"
    /\ excused' = TRUE
    /\ UNCHANGED <<head, seen, events, window, counter, marked,
                   balance, wk, scans, recorded, hour, lsFaults>>

\* Someone else of the organisation pays between a worker's look at the balance
\* and its charge (at any other time it is as if the balance had been smaller).
Spend ==
    /\ balance > 0
    /\ \E w \in LsWorkers : IsPaying(w)
    /\ balance' = balance - 1
    /\ wk' = [w \in LsWorkers |-> [wk[w] EXCEPT !.raced = IsPaying(w)]]
    /\ UNCHANGED <<head, seen, events, window, counter, marked, hook, scans, recorded,
                   hour, lsFaults, excused>>

\* The debounce time passes, and so does the hour of a counter that expires.
WindowEnds ==
    /\ window.commit # None /\ ~window.due
    /\ window' = [window EXCEPT !.due = TRUE]
    /\ UNCHANGED <<head, seen, events, counter, marked, hook,
                   balance, wk, scans, recorded, hour, lsFaults, excused>>
HourEnds ==
    /\ counter.expires /\ hour < MaxHours
    /\ counter' = [n |-> 0, expires |-> FALSE]
    /\ hour' = hour + 1
    /\ UNCHANGED <<head, seen, events, window, marked, hook, balance,
                   wk, scans, recorded, lsFaults, excused>>

(***************************************************************************)
(* The worker loop: an event if there is one, then the windows that ended. *)
(***************************************************************************)

\* Start takes the oldest event off the list for good (PopEvent), and
\* HandleQueuedEvent reads the webhook. A pull request fires at once.
PopEvent(w) ==
    LET d == Head(events) IN
    /\ wk[w].at = "pop" /\ events # <<>>
    /\ wk' = [wk EXCEPT ![w] =
                IF hook # "active" THEN [Idle EXCEPT !.at = "list"]
                ELSE [Idle EXCEPT !.d = d, !.at = IF d[1] = "pr" THEN "count" ELSE "arm"]]
    /\ events' = Tail(events)
    /\ excused' = (excused \/ hook # "active")
    /\ UNCHANGED <<head, seen, window, counter, marked, hook, balance, scans, recorded,
                   hour, lsFaults>>

\* armPendingScript: the latest payload, and a timer only if there is none
ArmPending(w) ==
    LET c == Commit(wk[w].d) IN
    /\ wk[w].at = "arm"
    /\ window' = [commit |-> c, due |-> window.due]
    /\ wk' = [wk EXCEPT ![w] = [Idle EXCEPT !.at = "list"]]
    /\ excused' = (excused \/ window.commit > c)
    /\ UNCHANGED <<head, seen, events, counter, marked, hook, balance,
                   scans, recorded, hour, lsFaults>>

\* Start: after every event and whenever waiting for one timed out
LooksAtWindows(w) ==
    \/ wk[w].at = "list"
    \/ wk[w].at = "pop" /\ events = <<>> /\ window.due

\* FireDue: the windows whose time has come are listed first ...
ListDue(w) ==
    /\ LooksAtWindows(w)
    /\ wk' = [wk EXCEPT ![w] = [Idle EXCEPT !.at =
                IF window.commit # None /\ window.due THEN "claim" ELSE "pop"]]
    /\ UNCHANGED <<head, seen, events, window, counter, marked, hook,
                   balance, scans, recorded, hour, lsFaults, excused>>

\* ... and claimed one by one (popPendingScript): whatever window there is by
\* then, or none if another worker claimed it. The webhook is read again.
ClaimWindow(w) ==
    /\ wk[w].at = "claim"
    /\ window' = [commit |-> None, due |-> FALSE]
    /\ wk' = [wk EXCEPT ![w] =
                IF window.commit # None /\ hook = "active"
                THEN [Idle EXCEPT !.at = "count", !.d = <<"push", window.commit>>]
                ELSE Idle]
    /\ excused' = (excused \/ (window.commit # None /\ hook # "active"))
    /\ UNCHANGED <<head, seen, events, counter, marked, hook, balance,
                   scans, recorded, hour, lsFaults>>

(***************************************************************************)
(* fire                                                                    *)
(***************************************************************************)

After(w) == IF wk[w].d[1] = "pr" THEN [Idle EXCEPT !.at = "list"] ELSE Idle

\* Instead: the expiry is set by the trigger past the limit.
StartsHourPastLimit(n) == n = HourlyLimit + 1
StartsHour(n) == n = 1

\* IncrWindowCount: INCR ...
CountTrigger(w) ==
    LET n == counter.n + 1 IN
    /\ wk[w].at = "count"
    /\ counter' = [counter EXCEPT !.n = n]
    /\ wk' = [wk EXCEPT ![w].n = n, ![w].hour = hour,
                        ![w].at = IF StartsHour(n) THEN "expire" ELSE "judge"]
    /\ UNCHANGED <<head, seen, events, window, marked, hook, balance,
                   scans, recorded, hour, lsFaults, excused>>

\* ... and EXPIRE
ExpireCounter(w) ==
    /\ wk[w].at = "expire"
    /\ counter' = [counter EXCEPT !.expires = TRUE]
    /\ wk' = [wk EXCEPT ![w].at = "judge"]
    /\ UNCHANGED <<head, seen, events, window, marked, hook, balance,
                   scans, recorded, hour, lsFaults, excused>>

OverLimit(n) == n > HourlyLimit

\* Too many triggers are dropped, and far too many pause the webhook.
DropOverLimit(w) ==
    /\ wk[w].at = "judge" /\ OverLimit(wk[w].n)
    /\ recorded' = recorded \cup {Commit(wk[w].d)}
    /\ hook' = IF wk[w].n >= BreakerFactor * HourlyLimit /\ hook = "active"
               THEN "paused" ELSE hook
    /\ wk' = [wk EXCEPT ![w] = After(w)]
    /\ UNCHANGED <<head, seen, events, window, counter, marked,
                   balance, scans, hour, lsFaults, excused>>

\* LiveScanAllowed: what would be left is at the floor or above.
LeavesFloor == balance >= Floor + 1

CheckTokens(w) ==
    /\ wk[w].at = "judge" /\ ~OverLimit(wk[w].n)
    /\ wk' = [wk EXCEPT ![w] = IF LeavesFloor THEN [@ EXCEPT !.at = "mark"] ELSE After(w)]
    /\ recorded' = IF LeavesFloor THEN recorded ELSE recorded \cup {Commit(wk[w].d)}
    /\ UNCHANGED <<head, seen, events, window, counter, marked, hook,
                   balance, scans, hour, lsFaults, excused>>

\* Instead: a commit is looked up among the scans.
UnscannedSoFar(c) == \A s \in scans : s.commit # c
\* The commit marker: SETNX, and a commit marked before is dropped.
Unmarked(c) == c \notin marked
MarkCommit(w) ==
    LET c == Commit(wk[w].d) IN
    /\ wk[w].at = "mark"
    /\ marked' = marked \cup {c}
    /\ wk' = [wk EXCEPT ![w] = IF Unmarked(c) THEN [@ EXCEPT !.at = "create"] ELSE After(w)]
    /\ UNCHANGED <<head, seen, events, window, counter, hook, balance,
                   scans, recorded, hour, lsFaults, excused>>

\* A marker that fails stops nothing: the scan is created all the same.
MarkCommitFails(w) ==
    /\ wk[w].at = "mark" /\ lsFaults < MaxLsFaults
    /\ wk' = [wk EXCEPT ![w].at = "create"]
    /\ lsFaults' = lsFaults + 1
    /\ excused' = TRUE
    /\ UNCHANGED <<head, seen, events, window, counter, marked, hook,
                   balance, scans, recorded, hour>>

\* CreateScan charges for the scan, or is refused: then the reason is
\* recorded, and the marker stays.
CreateScan(w) ==
    /\ wk[w].at = "create" /\ balance > 0
    /\ balance' = balance - 1
    /\ scans' = scans \cup {[commit |-> Commit(wk[w].d), head |-> head, hour |-> wk[w].hour,
                             left |-> balance - 1, raced |-> wk[w].raced,
                             nth |-> Cardinality(scans)]}
    /\ wk' = [v \in LsWorkers |->
                IF v = w THEN After(w)
                ELSE [wk[v] EXCEPT !.raced = @ \/ IsPaying(v)]]
    /\ UNCHANGED <<head, seen, events, window, counter, marked, hook,
                   recorded, hour, lsFaults, excused>>
CreateScanRefused(w) ==
    /\ wk[w].at = "create"
    /\ recorded' = recorded \cup {Commit(wk[w].d)}
    /\ wk' = [wk EXCEPT ![w] = After(w)]
    /\ UNCHANGED <<head, seen, events, window, counter, marked, hook,
                   balance, scans, hour, lsFaults, excused>>

\* The worker dies, or a command of it fails, and what it held is lost.
LoseWork(w) ==
    /\ wk[w].at # "pop" /\ lsFaults < MaxLsFaults
    /\ wk' = [wk EXCEPT ![w] = Idle]
    /\ lsFaults' = lsFaults + 1 /\ excused' = TRUE
    /\ UNCHANGED <<head, seen, events, window, counter, marked, hook,
                   balance, scans, recorded, hour>>

LsWork(w) ==
    \/ PopEvent(w) \/ ArmPending(w) \/ ListDue(w) \/ ClaimWindow(w)
    \/ CountTrigger(w) \/ ExpireCounter(w) \/ DropOverLimit(w)
    \/ CheckTokens(w) \/ MarkCommit(w) \/ CreateScan(w)
    \/ CreateScanRefused(w)

LsNext ==
    \/ Push \/ EnableAgain \/ Disable \/ Spend \/ WindowEnds \/ HourEnds
    \/ \E d \in Deliveries : Receive(d) \/ ReceiveFails(d)
    \/ \E w \in LsWorkers : LsWork(w) \/ MarkCommitFails(w) \/ LoseWork(w)

LsSpec == LsInit /\ [][LsNext]_LsVars

(***************************************************************************)
(* Properties                                                              *)
(***************************************************************************)

\* One commit gets one scan, by a push and by a pull request, redelivered or
\* handled by two workers at a time; only a marker that failed lets a second
\* one through ...
CommitScannedOnce ==
    \A c \in 1 .. MaxHead : Cardinality({s \in scans : s.commit = c}) <= 1 + lsFaults

\* ... and none gets away: when everything has come to rest, the last push is in
\* a scan, or the reason why not is recorded, unless something failed, the
\* webhook was stopped or deliveries overtook each other on their way to the
\* window.
NoPushIsLost ==
    /\ events = <<>> /\ window.commit = None
    /\ \A w \in LsWorkers : wk[w].at = "pop"
    /\ ~excused
    => \A c \in 1 .. head :
          <<"push", c>> \in seen =>
             \/ \E s \in scans : s.head >= c
             \/ \E r \in recorded : r >= c

\* "The same commit with the same engines is only scanned (and paid for) once",
\* and a push that was taken is scanned.
PushesScannedOnce == CommitScannedOnce /\ NoPushIsLost

\* No more scans than the limit are triggered within one hour of the counter,
\* however many workers count ...
HourlyCapHolds ==
    \A h \in 0 .. hour : Cardinality({s \in scans : s.hour = h}) <= HourlyLimit

\* ... and an hour that has started ends: only a fault between INCR and EXPIRE,
\* or of the EXPIRE, leaves a counter that blocks the project for good.
OnlyAFaultKeepsTheCounter ==
    counter.n > 0 =>
       \/ counter.expires
       \/ \E w \in LsWorkers : wk[w].at = "expire"
       \/ lsFaults > 0

\* ... and a scan leaves the balance at the project's floor or above, unless
\* something else was paid for between its check and its charge.
FloorIsKept == \A s \in scans : s.left >= Floor \/ s.raced

\* The limits a project sets hold across workers and, the hourly one, no longer
\* than an hour.
LiveScansStayWithinLimits == HourlyCapHolds /\ OnlyAFaultKeepsTheCounter /\ FloorIsKept
=============================================================================
