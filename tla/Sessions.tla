------------------------------ MODULE Sessions ------------------------------
(***************************************************************************)
(* The sessions of one user: families of refresh tokens that each refresh  *)
(* rotates (identity/service.go), and their rows in refresh_tokens         *)
(* (store/repo/refresh_token_repo.go).                                     *)
(*                                                                         *)
(* Refresh is a read and up to three writes without a transaction, one     *)
(* action each, so that refreshes, logouts and removals overtake each      *)
(* other.  A token is its family and its number in it.                     *)
(*                                                                         *)
(* Left out: passwords and lockouts, suspension, access tokens, and a      *)
(* token that has expired for lack of use (it is refused, and nothing is   *)
(* written).                                                               *)
(***************************************************************************)
EXTENDS Naturals, FiniteSets

CONSTANTS
    Families,     \* the sessions started, one after each login or switch
    MaxTokens,    \* bound: tokens of one session
    SsRequests,   \* requests that run at a time
    MaxSsFaults   \* bound: requests cut short

ASSUME SessionsAssumption == {MaxTokens, MaxSsFaults} \subseteq Nat

VARIABLES
    scope,      \* refresh_tokens.org_id of a session: home, or another organisation
    issued,     \* the tokens of each session: their number
    consumed,   \* consumed_at
    revoked,    \* revoked_at
    aged,       \* sessions older than sessionAbsoluteTTL
    belongs,    \* the user is a member of the other organisation
    granted,    \* the user may work on a project the other organisation shares
    ending,     \* what each request has read and is about to do
    ended,      \* sessions that were revoked
    extra,      \* tokens issued by a request another one had overtaken
    ssFaults    \* requests cut short so far

SsVars == <<scope, issued, consumed, revoked, aged, belongs, granted, ending, ended,
            extra, ssFaults>>

Tokens == Families \X (1 .. MaxTokens)
Family(t) == t[1]
FamilyTokens(f) == {t \in Tokens : Family(t) = f /\ t[2] <= issued[f]}
Live(f) == FamilyTokens(f) \ (consumed \cup revoked)

NoRequest == [at |-> "none", token |-> <<>>, stale |-> FALSE]

SsTypeOK ==
    /\ scope \in [Families -> {"unused", "home", "other"}]
    /\ issued \in [Families -> 0 .. MaxTokens]
    /\ consumed \subseteq Tokens /\ revoked \subseteq Tokens
    /\ aged \subseteq Families /\ ended \subseteq Families
    /\ belongs \in BOOLEAN /\ granted \in BOOLEAN
    /\ \A r \in SsRequests :
         \/ ending[r] = NoRequest
         \/ /\ ending[r].at \in {"consume", "role", "issue", "revoke"}
            /\ ending[r].token \in Tokens
    /\ extra \in [Families -> Nat]
    /\ ssFaults \in 0 .. MaxSsFaults

SsInit ==
    /\ scope = [f \in Families |-> "unused"] /\ issued = [f \in Families |-> 0]
    /\ consumed = {} /\ revoked = {} /\ aged = {} /\ ended = {}
    /\ belongs \in BOOLEAN /\ granted \in BOOLEAN
    /\ ending = [r \in SsRequests |-> NoRequest]
    /\ extra = [f \in Families |-> 0] /\ ssFaults = 0

\* Login, IssueTokenPairForOrg and IssueTokenPairForProject each begin a
\* session of their own. RefreshTokenRepo stores the organisation but not the
\* project: a session in a shared project becomes one in its organisation.
StartSession(f, where) ==
    /\ scope[f] = "unused"
    /\ \/ where = "home"
       \/ where = "organisation" /\ belongs
       \/ where = "project" /\ granted
    /\ scope' = [scope EXCEPT ![f] = IF where = "home" THEN "home" ELSE "other"]
    /\ issued' = [issued EXCEPT ![f] = 1]
    /\ UNCHANGED <<consumed, revoked, aged, belongs, granted, ending, ended, extra, ssFaults>>

\* RemoveMember and RemoveCollaborator, or an invite accepted
ChangeAccess(member, collaborator) ==
    /\ belongs' = member /\ granted' = collaborator
    /\ UNCHANGED <<scope, issued, consumed, revoked, aged, ending, ended, extra, ssFaults>>

Age(f) ==
    /\ scope[f] # "unused"
    /\ aged' = aged \cup {f}
    /\ UNCHANGED <<scope, issued, consumed, revoked, belongs, granted, ending, ended,
                   extra, ssFaults>>

(***************************************************************************)
(* Refresh and Logout                                                      *)
(* (An operator whose comment says "instead" is a plausible mistake in the *)
(* operator it precedes; only the mutants use it.)                         *)
(***************************************************************************)

\* A token that was consumed before is a sign of theft, and a session past its
\* time is over: both end the session.
EndsSession(t) == t \in consumed \/ Family(t) \in aged

ReadToken(r, t) ==
    /\ ending[r] = NoRequest
    /\ t \in FamilyTokens(Family(t)) \ revoked
    /\ ending' = [ending EXCEPT ![r] =
                    [at |-> IF EndsSession(t) THEN "revoke" ELSE "consume",
                     token |-> t, stale |-> FALSE]]
    /\ UNCHANGED <<scope, issued, consumed, revoked, aged, belongs, granted, ended,
                   extra, ssFaults>>

\* Logout takes any token there is, and asks nothing of it.
ReadForLogout(r, t) ==
    /\ ending[r] = NoRequest
    /\ t \in FamilyTokens(Family(t))
    /\ ending' = [ending EXCEPT ![r] = [at |-> "revoke", token |-> t, stale |-> FALSE]]
    /\ UNCHANGED <<scope, issued, consumed, revoked, aged, belongs, granted, ended,
                   extra, ssFaults>>

\* What other requests about the session have read is no longer so.
Overtake(r, next) ==
    [q \in SsRequests |->
        IF q = r THEN next
        ELSE IF ending[q] = NoRequest \/ Family(ending[q].token) # Family(ending[r].token)
        THEN ending[q]
        ELSE [ending[q] EXCEPT !.stale = TRUE]]

\* MarkConsumed: by its id, consumed already or not
ConsumeToken(r) ==
    /\ ending[r].at = "consume"
    /\ consumed' = consumed \cup {ending[r].token}
    /\ ending' = Overtake(r, [ending[r] EXCEPT !.at = "role"])
    /\ UNCHANGED <<scope, issued, revoked, aged, belongs, granted, ended, extra, ssFaults>>

\* The role is read anew: who has left the organisation ends the session.
ReadRole(r) ==
    LET f == Family(ending[r].token) IN
    /\ ending[r].at = "role"
    /\ ending' = [ending EXCEPT ![r].at =
                    IF scope[f] = "home" \/ belongs THEN "issue" ELSE "revoke"]
    /\ UNCHANGED <<scope, issued, consumed, revoked, aged, belongs, granted, ended,
                   extra, ssFaults>>

\* issueTokenPairInFamily asks nothing of the session it adds a token to.
IssueToken(r) ==
    LET f == Family(ending[r].token) IN
    /\ ending[r].at = "issue" /\ issued[f] < MaxTokens
    /\ issued' = [issued EXCEPT ![f] = @ + 1]
    /\ extra' = [extra EXCEPT ![f] = IF ending[r].stale THEN @ + 1 ELSE @]
    /\ ending' = [ending EXCEPT ![r] = NoRequest]
    /\ UNCHANGED <<scope, consumed, revoked, aged, belongs, granted, ended, ssFaults>>

\* Instead: the token that was presented is revoked.
RevokedWithToken(t) == {t}
\* RevokeFamily
RevokedWith(t) == FamilyTokens(Family(t))

RevokeFamily(r) ==
    LET t == ending[r].token IN
    /\ ending[r].at = "revoke"
    /\ revoked' = revoked \cup RevokedWith(t)
    /\ ended' = ended \cup {Family(t)}
    /\ ending' = Overtake(r, NoRequest)
    /\ UNCHANGED <<scope, issued, consumed, aged, belongs, granted, extra, ssFaults>>

\* The API dies, or a statement fails.
DropRequest(r) ==
    /\ ending[r] # NoRequest /\ ssFaults < MaxSsFaults
    /\ ending' = [ending EXCEPT ![r] = NoRequest]
    /\ ssFaults' = ssFaults + 1
    /\ UNCHANGED <<scope, issued, consumed, revoked, aged, belongs, granted, ended, extra>>

SsNext ==
    \/ \E f \in Families : Age(f)
    \/ \E f \in Families, where \in {"home", "organisation", "project"} : StartSession(f, where)
    \/ \E m, c \in BOOLEAN : ChangeAccess(m, c)
    \/ \E r \in SsRequests :
         \/ \E t \in Tokens : ReadToken(r, t) \/ ReadForLogout(r, t)
         \/ ConsumeToken(r) \/ ReadRole(r) \/ IssueToken(r) \/ RevokeFamily(r) \/ DropRequest(r)

SsSpec == SsInit /\ [][SsNext]_SsVars

(***************************************************************************)
(* Properties                                                              *)
(***************************************************************************)

\* A session has one token that refreshes it, and none once it was revoked: by
\* a logout, by a token presented twice, by its age or because the user left
\* the organisation ("the whole family dies, not just this one refresh"). Each
\* token beyond that takes a request that another one overtook.
OneTokenPerSession ==
    \A f \in Families :
        Cardinality(Live(f)) <= extra[f] + (IF f \in ended THEN 0 ELSE 1)
=============================================================================
