------------------------------ MODULE Accounts ------------------------------
(***************************************************************************)
(* One account, by its email address: how it comes to be with an           *)
(* organisation of its own, the logins to it and the lock after too many   *)
(* that failed (identity/service.go), what an operator suspends            *)
(* (admin/service.go), and the checks every request with an access token   *)
(* passes (transport/http/middleware/suspension.go).                       *)
(*                                                                         *)
(* Register, Login and CheckSuspension read and write statement by         *)
(* statement, without a transaction; each statement is an action.          *)
(*                                                                         *)
(* Left out: passwords and their hashes, the limit of requests per client  *)
(* address, the reasons given, and the tokens of a session (Sessions).     *)
(***************************************************************************)
EXTENDS Naturals, FiniteSets

CONSTANTS
    AcRequests,       \* requests that run at a time
    MaxFailedLogins,  \* maxFailedLogins
    MaxLocks,         \* bound: locks that run out
    MaxWrong,         \* bound: wrong passwords in a row
    MaxOrgs,          \* bound: organisations created
    MaxAcFaults       \* bound: requests cut short

ASSUME AccountsAssumption ==
    /\ MaxFailedLogins \in Nat \ {0}
    /\ {MaxLocks, MaxWrong, MaxOrgs, MaxAcFaults} \subseteq Nat

VARIABLES
    orgs,        \* organisations created for the account
    account,     \* there is a row of users with this address
    failed,      \* users.failed_login_count
    locked,      \* users.locked_until is yet to come
    suspended,   \* "user" and "org" that have suspended_at
    doing,       \* what each request has read and is about to do
    wrong,       \* wrong passwords since the last right one
    lockOver,    \* a lock has run out since the last password
    miscounted,  \* a password came whose request had read the row before another
    beaten,      \* registrations that another one finished before
    letIn,       \* somebody got in though suspended all along
    locks,       \* locks that ran out so far
    acFaults     \* requests cut short so far

AcVars == <<orgs, account, failed, locked, suspended, doing, wrong, lockOver, miscounted,
            beaten, letIn, locks, acFaults>>

\* barred is what has been suspended since the request began, stale says that
\* another request has written since.
Free == [at |-> "free", count |-> 0, barred |-> {}, stale |-> FALSE]
Begins(at, count) == [at |-> at, count |-> count, barred |-> suspended, stale |-> FALSE]

AcTypeOK ==
    /\ orgs \in 0 .. MaxOrgs /\ suspended \subseteq {"user", "org"}
    /\ {account, locked, lockOver, miscounted, letIn} \subseteq BOOLEAN
    /\ failed \in Nat /\ wrong \in 0 .. MaxWrong /\ beaten \in 0 .. MaxOrgs
    /\ \A r \in AcRequests :
         /\ doing[r].at \in {"free", "found", "user", "org", "password", "gate"}
         /\ doing[r].count \in Nat /\ doing[r].barred \subseteq {"user", "org"}
    /\ locks \in 0 .. MaxLocks /\ acFaults \in 0 .. MaxAcFaults

AcInit ==
    /\ orgs = 0 /\ account = FALSE /\ failed = 0 /\ locked = FALSE /\ suspended = {}
    /\ doing = [r \in AcRequests |-> Free]
    /\ wrong = 0 /\ lockOver = FALSE /\ miscounted = FALSE /\ beaten = 0
    /\ letIn = FALSE /\ locks = 0 /\ acFaults = 0

Does(r, what) == doing' = [doing EXCEPT ![r] = what]

\* r writes the row and is done with it; what others have read is out of date.
WritesRow(r) ==
    doing' = [q \in AcRequests |->
                IF q = r \/ doing[q] = Free THEN Free ELSE [doing[q] EXCEPT !.stale = TRUE]]

(***************************************************************************)
(* Register                                                                *)
(* (An operator whose comment says "instead" is a plausible mistake in the *)
(* operator it precedes; only the mutants use it.)                         *)
(***************************************************************************)

\* GetByEmail: there is no such account yet.
CheckAddress(r) ==
    /\ doing[r] = Free /\ ~account
    /\ Does(r, Begins("found", 0))
    /\ UNCHANGED <<orgs, account, failed, locked, suspended, wrong, lockOver, miscounted,
                   beaten, letIn, locks, acFaults>>

FoundOrganisation(r) ==
    /\ doing[r].at = "found" /\ orgs < MaxOrgs
    /\ orgs' = orgs + 1
    /\ doing' = [doing EXCEPT ![r].at = "user"]
    /\ UNCHANGED <<account, failed, locked, suspended, wrong, lockOver, miscounted,
                   beaten, letIn, locks, acFaults>>

\* users.email is UNIQUE: the second of two has no account, and founded in vain.
CreateUser(r) ==
    /\ doing[r].at = "user"
    /\ account' = TRUE
    /\ beaten' = IF account /\ doing[r].stale THEN beaten + 1 ELSE beaten
    /\ IF account THEN Does(r, Free) ELSE WritesRow(r)
    /\ UNCHANGED <<orgs, failed, locked, suspended, wrong, lockOver, miscounted, letIn,
                   locks, acFaults>>

(***************************************************************************)
(* Login                                                                   *)
(***************************************************************************)

ReadUser(r) ==
    /\ doing[r] = Free /\ account
    /\ ~locked /\ "user" \notin suspended
    /\ Does(r, Begins("org", failed))
    /\ UNCHANGED <<orgs, account, failed, locked, suspended, wrong, lockOver, miscounted,
                   beaten, letIn, locks, acFaults>>

\* GetSuspensionState of the organisation
ReadOrganisation(r) ==
    /\ doing[r].at = "org"
    /\ IF "org" \in suspended THEN Does(r, Free)
       ELSE doing' = [doing EXCEPT ![r].at = "password"]
    /\ UNCHANGED <<orgs, account, failed, locked, suspended, wrong, lockOver, miscounted,
                   beaten, letIn, locks, acFaults>>

\* Instead: one attempt too many.
LocksPast(n) == n > MaxFailedLogins
Locks(n) == n >= MaxFailedLogins

\* SetFailedLogin writes both columns, of what Login had read: below the limit
\* it clears a lock another attempt has set.
WrongPassword(r) ==
    LET n == doing[r].count + 1 IN
    /\ doing[r].at = "password" /\ wrong < MaxWrong
    /\ failed' = n /\ locked' = Locks(n)
    /\ wrong' = wrong + 1 /\ lockOver' = FALSE
    /\ miscounted' = (miscounted \/ doing[r].stale)
    /\ WritesRow(r)
    /\ UNCHANGED <<orgs, account, suspended, beaten, letIn, locks, acFaults>>

\* RecordSuccessfulLogin, and a session (Sessions)
RightPassword(r) ==
    /\ doing[r].at = "password"
    /\ failed' = 0 /\ locked' = FALSE
    /\ wrong' = 0 /\ lockOver' = FALSE /\ miscounted' = FALSE
    /\ letIn' = (letIn \/ doing[r].barred # {})
    /\ WritesRow(r)
    /\ UNCHANGED <<orgs, account, suspended, beaten, locks, acFaults>>

LockRunsOut ==
    /\ locked /\ locks < MaxLocks
    /\ locked' = FALSE /\ lockOver' = TRUE /\ locks' = locks + 1
    /\ UNCHANGED <<orgs, account, failed, suspended, doing, wrong, miscounted, beaten,
                   letIn, acFaults>>

(***************************************************************************)
(* Suspension                                                              *)
(***************************************************************************)

SuspendUserOrOrganization(what) ==
    /\ account /\ suspended' = suspended \cup {what}
    /\ UNCHANGED <<orgs, account, failed, locked, doing, wrong, lockOver, miscounted,
                   beaten, letIn, locks, acFaults>>

Reinstate(what) ==
    /\ suspended' = suspended \ {what}
    /\ doing' = [r \in AcRequests |-> [doing[r] EXCEPT !.barred = @ \ {what}]]
    /\ UNCHANGED <<orgs, account, failed, locked, wrong, lockOver, miscounted, beaten,
                   letIn, locks, acFaults>>

\* CheckSuspension for a request with an access token: the user first ...
CheckUser(r) ==
    /\ doing[r] = Free /\ account /\ "user" \notin suspended
    /\ Does(r, Begins("gate", 0))
    /\ UNCHANGED <<orgs, account, failed, locked, suspended, wrong, lockOver, miscounted,
                   beaten, letIn, locks, acFaults>>

\* ... and then the organisation it acts on.
CheckOrganisation(r) ==
    /\ doing[r].at = "gate"
    /\ letIn' = (letIn \/ ("org" \notin suspended /\ doing[r].barred # {}))
    /\ Does(r, Free)
    /\ UNCHANGED <<orgs, account, failed, locked, suspended, wrong, lockOver, miscounted,
                   beaten, locks, acFaults>>

AcCutShort(r) ==
    /\ doing[r] # Free /\ acFaults < MaxAcFaults
    /\ acFaults' = acFaults + 1 /\ Does(r, Free)
    /\ UNCHANGED <<orgs, account, failed, locked, suspended, wrong, lockOver, miscounted,
                   beaten, letIn, locks>>

AcNext ==
    \/ \E r \in AcRequests :
         \/ CheckAddress(r) \/ FoundOrganisation(r) \/ CreateUser(r)
         \/ ReadUser(r) \/ ReadOrganisation(r) \/ WrongPassword(r) \/ RightPassword(r)
         \/ CheckUser(r) \/ CheckOrganisation(r) \/ AcCutShort(r)
    \/ \E what \in {"user", "org"} : SuspendUserOrOrganization(what) \/ Reinstate(what)
    \/ LockRunsOut

AcSpec == AcInit /\ [][AcNext]_AcVars

(***************************************************************************)
(* Properties                                                              *)
(***************************************************************************)

\* As many wrong passwords as it takes lock the account until the lock has run
\* out, and fewer do not, unless two logins were about it at a time: the later
\* one writes a count, and a lock or none, of what it had read ...
LockedByItsFailures ==
    ~miscounted => /\ wrong >= MaxFailedLogins => locked \/ lockOver
                   /\ locked => wrong >= MaxFailedLogins

\* ... every organisation founded by a registration has its founder, unless the
\* request was cut short or another one took the address meanwhile ...
FoundersHaveTheirs ==
    LET founding == Cardinality({r \in AcRequests : doing[r].at = "user"}) IN
    orgs <= (IF account THEN 1 ELSE 0) + founding + beaten + acFaults

\* ... and a suspension "takes effect immediately": no login and no request that
\* began after it gets through while it lasts, although each reads the user and
\* the organisation one after the other.
SuspensionIsImmediate == ~letIn

AccountsInOrder == LockedByItsFailures /\ FoundersHaveTheirs /\ SuspensionIsImmediate
=============================================================================
