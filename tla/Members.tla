------------------------------ MODULE Members ------------------------------
(***************************************************************************)
(* Who belongs to an organisation and to one of its shared projects:       *)
(* roles, removals and invites (organization/service.go), and the          *)
(* project's collaborators, whose invites go the same way                  *)
(* (project/service.go).                                                   *)
(*                                                                         *)
(* Every operation reads first and writes afterwards, without a            *)
(* transaction: one action reads and decides, one action writes, so that   *)
(* the requests overtake each other in between.                            *)
(*                                                                         *)
(* Left out: whether the caller may ask at all, the wording of an invite,  *)
(* and the token that is another name of it.  Somebody who is invited      *)
(* joins as a member and may be made an admin then.                        *)
(***************************************************************************)
EXTENDS Naturals, FiniteSets

CONSTANTS
    Founder,      \* the organisation is this user's home
    Guests,       \* the other users
    OrgInvites,   \* invites to the organisation
    ShareInvites, \* invites to the project
    Invitee,      \* whom an invite is for
    MbRequests,   \* requests that run at a time
    MaxMbFaults   \* bound: requests cut short

Invites == OrgInvites \cup ShareInvites
Members == Guests \cup {Founder}

ASSUME MembersAssumption ==
    /\ Founder \notin Guests /\ OrgInvites \cap ShareInvites = {}
    /\ Invitee \in [Invites -> Guests]
    /\ MaxMbFaults \in Nat

VARIABLES
    role,       \* users.role of the founder, organization_memberships.role
    shared,     \* project_collaborators
    invite,     \* the status of an invite
    late,       \* invites whose expires_at has passed
    request,    \* what each request has read and is about to write
    used,       \* invites by which somebody got in
    raced,      \* invites two requests were about at a time
    overtaken,  \* an admin went by a request that had looked before another went
    mbFaults    \* requests cut short so far

MbVars == <<role, shared, invite, late, request, used, raced, overtaken, mbFaults>>

Roles == {"admin", "member", "none"}
Statuses == {"none", "pending", "accepted", "declined", "revoked", "expired"}
Quiet == [at |-> "quiet", about |-> Founder, to |-> "none", stale |-> FALSE]

MbTypeOK ==
    /\ role \in [Members -> Roles] /\ role[Founder] # "none"
    /\ shared \subseteq Guests
    /\ invite \in [Invites -> Statuses]
    /\ late \subseteq Invites /\ used \subseteq Invites /\ raced \subseteq Invites
    /\ \A r \in MbRequests :
         /\ request[r].at \in {"quiet", "role", "invite", "join", "mark", "close"}
         /\ request[r].about \in Members \cup Invites
         /\ request[r].to \in Roles \cup Statuses
         /\ request[r].stale \in BOOLEAN
    /\ overtaken \in BOOLEAN /\ mbFaults \in 0 .. MaxMbFaults

MbInit ==
    /\ role = [u \in Members |-> IF u = Founder THEN "admin" ELSE "none"]
    /\ shared = {} /\ late = {} /\ used = {} /\ raced = {}
    /\ invite = [i \in Invites |-> "none"]
    /\ request = [r \in MbRequests |-> Quiet]
    /\ overtaken = FALSE /\ mbFaults = 0

Begin(r, at, about, to) ==
    /\ request[r] = Quiet
    /\ request' = [request EXCEPT ![r] = [at |-> at, about |-> about, to |-> to,
                                          stale |-> FALSE]]

\* A request about an invite begins while another is about it.
BeginAbout(r, at, i, to) ==
    /\ Begin(r, at, i, to)
    /\ raced' = IF \E q \in MbRequests : request[q].at # "quiet" /\ request[q].about = i
                THEN raced \cup {i} ELSE raced

(***************************************************************************)
(* UpdateMemberRole and RemoveMember                                       *)
(* (An operator whose comment says "instead" is a plausible mistake in the *)
(* operator it precedes; only the mutants use it.)                         *)
(***************************************************************************)

Admins == {u \in Members : role[u] = "admin"}

\* requireNotLastAdmin
LeavesAnAdmin == Cardinality(Admins) > 1

\* Instead: a home member is removed like any other.
RemovableLikeAny(u) == TRUE
\* RemoveMember: who is at home here stays.
Removable(u) == u # Founder

\* The founder may be demoted but not removed; an admin who ceases to be one
\* must not be the last.
CheckChange(r, u, new) ==
    /\ role[u] # "none" /\ new # role[u]
    /\ new = "none" => Removable(u)
    /\ role[u] = "admin" => LeavesAnAdmin
    /\ Begin(r, "role", u, new)
    /\ UNCHANGED <<role, shared, invite, late, used, raced, overtaken, mbFaults>>

WriteChange(r) ==
    LET u == request[r].about
        new == request[r].to
        takesAdmin == role[u] = "admin" /\ new # "admin"
    IN
    /\ request[r].at = "role"
    /\ role' = IF role[u] = "none" THEN role ELSE [role EXCEPT ![u] = new]
    /\ request' = [q \in MbRequests |->
                     IF q = r \/ request[q] = Quiet THEN Quiet
                     ELSE [request[q] EXCEPT !.stale = @ \/ takesAdmin]]
    /\ overtaken' = (overtaken \/ (takesAdmin /\ request[r].stale))
    /\ UNCHANGED <<shared, invite, late, used, raced, mbFaults>>

(***************************************************************************)
(* Invites                                                                 *)
(***************************************************************************)

IsIn(i) == IF i \in OrgInvites THEN role[Invitee[i]] # "none" ELSE Invitee[i] \in shared

\* The other invites of one user to one place
Twins(i) == {j \in Invites \ {i} : /\ Invitee[j] = Invitee[i]
                                   /\ (j \in OrgInvites) = (i \in OrgInvites)}

\* CreateInvite and InviteCollaborator look for a member (of the organisation
\* only) and for a pending invite; then the row is made.
CheckInvite(r, i) ==
    /\ invite[i] = "none"
    /\ i \in OrgInvites => ~IsIn(i)
    /\ \A j \in Twins(i) : invite[j] # "pending"
    /\ \A q \in MbRequests : request[q].about # i
    /\ BeginAbout(r, "invite", i, "pending")
    /\ UNCHANGED <<role, shared, invite, late, used, overtaken, mbFaults>>

\* Accepting reads the invite and then looks whether the caller is in already.
\* An invite found too late is closed instead.
CheckAccept(r, i) ==
    /\ invite[i] = "pending" /\ i \notin late /\ ~IsIn(i)
    /\ BeginAbout(r, "join", i, "accepted")
    /\ UNCHANGED <<role, shared, invite, late, used, overtaken, mbFaults>>

\* UNIQUE (org_id, user_id) and UNIQUE (project_id, user_id): a second row is
\* refused, and the request fails.
Join(r) ==
    LET i == request[r].about IN
    /\ request[r].at = "join"
    /\ IF IsIn(i)
       THEN /\ request' = [request EXCEPT ![r] = Quiet]
            /\ UNCHANGED <<role, shared, used>>
       ELSE /\ request' = [request EXCEPT ![r].at = "mark"]
            /\ role' = IF i \in OrgInvites THEN [role EXCEPT ![Invitee[i]] = "member"] ELSE role
            /\ shared' = IF i \in ShareInvites THEN shared \cup {Invitee[i]} ELSE shared
            /\ used' = used \cup {i}
    /\ UNCHANGED <<invite, late, raced, overtaken, mbFaults>>

\* Instead: an invite to the organisation is revoked whatever its status, as
\* one to a project is.
ClosableAtAnyTime(i, to) == invite[i] = "pending" \/ (to = "revoked" /\ invite[i] # "none")
\* DeclineInvite and the lists of a user's invites look at the status, and so
\* does RevokeInvite; RevokeCollaboratorInvite does not.
Closable(i, to) ==
    \/ invite[i] = "pending"
    \/ to = "revoked" /\ i \in ShareInvites /\ invite[i] # "none"

CheckClose(r, i, to) ==
    /\ to \in {"declined", "revoked", "expired"}
    /\ to = "expired" => i \in late
    /\ Closable(i, to)
    /\ BeginAbout(r, "close", i, to)
    /\ UNCHANGED <<role, shared, invite, late, used, overtaken, mbFaults>>

\* Create, and SetStatus: by its id, whatever the status has become
WriteStatus(r) ==
    /\ request[r].at \in {"invite", "mark", "close"}
    /\ invite' = [invite EXCEPT ![request[r].about] = request[r].to]
    /\ request' = [request EXCEPT ![r] = Quiet]
    /\ UNCHANGED <<role, shared, late, used, raced, overtaken, mbFaults>>

RemoveCollaborator(u) ==
    /\ u \in shared
    /\ shared' = shared \ {u}
    /\ UNCHANGED <<role, invite, late, request, used, raced, overtaken, mbFaults>>

Expire(i) ==
    /\ invite[i] = "pending"
    /\ late' = late \cup {i}
    /\ UNCHANGED <<role, shared, invite, request, used, raced, overtaken, mbFaults>>

\* The API dies, or the write fails.
CutShort(r) ==
    /\ request[r] # Quiet /\ mbFaults < MaxMbFaults
    /\ request' = [request EXCEPT ![r] = Quiet]
    /\ mbFaults' = mbFaults + 1
    /\ UNCHANGED <<role, shared, invite, late, used, raced, overtaken>>

MbNext ==
    \/ \E r \in MbRequests :
         \/ \E u \in Members, new \in Roles : CheckChange(r, u, new)
         \/ \E i \in Invites : CheckInvite(r, i) \/ CheckAccept(r, i)
         \/ \E i \in Invites, to \in Statuses : CheckClose(r, i, to)
         \/ WriteChange(r) \/ Join(r) \/ WriteStatus(r) \/ CutShort(r)
    \/ \E u \in Guests : RemoveCollaborator(u)
    \/ \E i \in Invites : Expire(i)

MbSpec == MbInit /\ [][MbNext]_MbVars

(***************************************************************************)
(* Properties                                                              *)
(***************************************************************************)

\* "The organization must always have at least one remaining admin": it loses
\* the last one only to two requests that each looked before the other wrote.
AdminRemains == Admins # {} \/ overtaken

\* An invite to the organisation is answered once: who got in by it finds it
\* accepted, and who finds it accepted got in by it. Only two requests about
\* the invite at a time, or one cut short, leave it otherwise.
AnsweredOnce ==
    \A i \in OrgInvites \ raced :
        /\ invite[i] = "accepted" => i \in used
        /\ i \in used => \/ invite[i] = "accepted" \/ mbFaults > 0
                         \/ \E r \in MbRequests : request[r].at = "mark" /\ request[r].about = i

\* Nobody is locked out of an organisation, and nobody let in twice.
MembersInOrder == AdminRemains /\ AnsweredOnce
=============================================================================
