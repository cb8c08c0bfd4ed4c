------------------------------ MODULE Projects ------------------------------
(***************************************************************************)
(* One project and what hangs on it (project/service.go): its row, its     *)
(* repository and the credential a worker clones with, its pentest target  *)
(* and the operators' flag on it (admin/service.go), its documents.        *)
(*                                                                         *)
(* No operation holds a transaction: one action reads and decides, and     *)
(* every statement that writes afterwards is an action of its own.         *)
(*                                                                         *)
(* Left out: who may ask, the project's name and description (two requests *)
(* that claim one name are told apart by UNIQUE (org_id, name)), what a    *)
(* target resolves to, and what is in a document.                          *)
(***************************************************************************)
EXTENDS Naturals, FiniteSets

CONSTANTS
    PjRequests,     \* requests and clones that run at a time
    PersonalTokens, \* the GitHub tokens somebody stores
    NoToken,        \* no credential is stored
    MaxDocuments,   \* maxDocumentsPerProject
    MaxPjFaults     \* bound: requests cut short

ASSUME ProjectsAssumption ==
    /\ NoToken \notin PersonalTokens
    /\ MaxDocuments \in Nat \ {0} /\ MaxPjFaults \in Nat

VARIABLES
    project,    \* projects.status, or "absent"
    repository, \* "none", attached and "valid", or flagged "invalid"
    token,      \* the stored credential
    refusedBy,  \* tokens GitHub accepts no longer
    target,     \* pentest_targets.status
    onRecord,   \* an attestation was recorded since the target was last revoked
    flag,       \* pentest_flags.status
    documents,  \* how many there are
    asked,      \* what each request has read and is about to write
    archived,   \* somebody archived the project
    vouched,    \* the last word on the credential was an attach that GitHub accepted
    overrun,    \* a write came from a request that had looked before another wrote
    pjFaults    \* requests cut short so far

RepositoryVars == <<repository, token, refusedBy, vouched>>
TargetVars == <<target, onRecord, flag>>
PjVars == <<project, RepositoryVars, TargetVars, documents, asked, archived, overrun, pjFaults>>

Silent == [at |-> "silent", with |-> NoToken, status |-> "absent", stale |-> FALSE]

PjTypeOK ==
    /\ project \in {"absent", "active", "archived"}
    /\ repository \in {"none", "valid", "invalid"}
    /\ token \in PersonalTokens \cup {NoToken} /\ refusedBy \subseteq PersonalTokens
    /\ target \in {"none", "awaiting", "attested", "revoked"} /\ onRecord \in BOOLEAN
    /\ flag \in {"none", "open", "investigating", "dismissed", "confirmed"}
    /\ documents \in Nat
    /\ asked \in [PjRequests -> [at : {"silent", "first", "undo", "write", "attach", "upsert",
                                       "clone", "mark", "attest", "revoke", "document"},
                                 with : PersonalTokens \cup {NoToken},
                                 status : {"absent", "active", "archived"},
                                 stale : BOOLEAN]]
    /\ archived \in BOOLEAN /\ vouched \in BOOLEAN /\ overrun \in BOOLEAN /\ pjFaults \in 0 .. MaxPjFaults

PjInit ==
    /\ project = "absent" /\ repository = "none" /\ token = NoToken /\ refusedBy = {}
    /\ target = "none" /\ onRecord = FALSE /\ flag = "none" /\ documents = 0
    /\ asked = [r \in PjRequests |-> Silent]
    /\ archived = FALSE /\ vouched = FALSE /\ overrun = FALSE /\ pjFaults = 0

Starts(r, place) ==
    /\ asked[r] = Silent
    /\ asked' = [asked EXCEPT ![r].at = place]

\* A write: what the others have read of it is stale from now on, and the
\* writer's own reading counts as overrun if it was.
Writes(r, places, next) ==
    /\ asked' = [q \in PjRequests |->
                   IF q = r THEN next
                   ELSE [asked[q] EXCEPT !.stale = @ \/ asked[q].at \in places]]
    /\ overrun' = (overrun \/ (asked[r].stale /\ asked[r].at \in places))

(***************************************************************************)
(* The project row                                                         *)
(* (An operator whose comment says "instead" is a plausible mistake in the *)
(* operator it precedes; only the mutants use it.)                         *)
(***************************************************************************)

\* Create: with a repository to attach, or without. Another project would have
\* another id, which requests about this one do not know.
CreateProject(r, withRepository) ==
    /\ project = "absent" /\ \A q \in PjRequests : asked[q] = Silent
    /\ IF withRepository THEN Starts(r, "first") ELSE asked' = asked
    /\ project' = "active"
    /\ UNCHANGED <<RepositoryVars, TargetVars, documents, archived, overrun, pjFaults>>

\* The repository is not there, or private: Create takes the project back.
FirstAttachFails(r) ==
    /\ asked[r].at = "first"
    /\ asked' = [asked EXCEPT ![r].at = "undo"]
    /\ UNCHANGED <<project, RepositoryVars, TargetVars, documents, archived, overrun, pjFaults>>
DeleteProject(r) ==
    /\ asked[r].at = "undo"
    /\ project' = "absent" /\ repository' = "none" /\ token' = NoToken
    /\ target' = "none" /\ onRecord' = FALSE /\ flag' = "none" /\ documents' = 0
    /\ archived' = FALSE /\ vouched' = FALSE
    /\ asked' = [asked EXCEPT ![r] = Silent]
    /\ UNCHANGED <<refusedBy, overrun, pjFaults>>

\* Update and Archive read the row ...
ReadProject(r, status) ==
    /\ project # "absent" /\ asked[r] = Silent
    /\ status \in {project, "archived"}
    /\ asked' = [asked EXCEPT ![r] = [Silent EXCEPT !.at = "write", !.status = status]]
    /\ UNCHANGED <<project, RepositoryVars, TargetVars, documents, archived, overrun, pjFaults>>

\* ... and write all of it back, the status as it was.
WriteProject(r) ==
    /\ asked[r].at = "write"
    /\ project' = IF project = "absent" THEN "absent" ELSE asked[r].status
    /\ archived' = (archived \/ project' = "archived")
    /\ Writes(r, {"write"}, Silent)
    /\ UNCHANGED <<RepositoryVars, TargetVars, documents, pjFaults>>

(***************************************************************************)
(* The repository and its credential                                       *)
(***************************************************************************)

\* AttachRepository reads the credential; ValidateRepository asks GitHub with
\* it.  Create does so without one.
ReadForAttach(r) ==
    /\ project # "absent" /\ asked[r] = Silent
    /\ asked' = [asked EXCEPT ![r] = [Silent EXCEPT !.at = "attach", !.with = token]]
    /\ UNCHANGED <<project, RepositoryVars, TargetVars, documents, archived, overrun, pjFaults>>
ValidateRepository(r, ok) ==
    /\ asked[r].at \in {"attach", "first"}
    /\ ok => asked[r].with \notin refusedBy
    /\ asked[r].at = "first" => ok
    /\ asked' = [asked EXCEPT ![r] = IF ok THEN [@ EXCEPT !.at = "upsert"] ELSE Silent]
    /\ UNCHANGED <<project, RepositoryVars, TargetVars, documents, archived, overrun, pjFaults>>

Upserted == "valid"

UpsertRepository(r) ==
    /\ asked[r].at = "upsert"
    /\ repository' = IF project = "absent" THEN "none" ELSE Upserted
    /\ vouched' = (project # "absent")
    /\ Writes(r, {"clone", "mark"}, Silent)
    /\ UNCHANGED <<project, TargetVars, token, refusedBy, documents, archived, pjFaults>>

\* SetCredential and RemoveCredential: the repository's row is not looked at.
StoreCredential(t) ==
    /\ project # "absent" /\ token' = t /\ token # t
    /\ UNCHANGED <<project, TargetVars, repository, refusedBy, vouched, documents, asked, archived,
                   overrun, pjFaults>>

\* GitHub: a token is revoked, or it expires.
RefuseToken(t) ==
    /\ refusedBy' = refusedBy \cup {t}
    /\ UNCHANGED <<project, TargetVars, repository, token, vouched, documents, asked, archived,
                   overrun, pjFaults>>

\* A worker's prepareWorkspace: GetCloneInfo, the clone, and a mark on the
\* repository if the credential was refused
GetCloneInfo(r) ==
    /\ repository # "none" /\ asked[r] = Silent
    /\ asked' = [asked EXCEPT ![r] = [Silent EXCEPT !.at = "clone", !.with = token]]
    /\ UNCHANGED <<project, RepositoryVars, TargetVars, documents, archived, overrun, pjFaults>>
ShallowClone(r) ==
    /\ asked[r].at = "clone"
    /\ asked' = [asked EXCEPT ![r] = IF asked[r].with \in refusedBy
                                     THEN [@ EXCEPT !.at = "mark"] ELSE Silent]
    /\ UNCHANGED <<project, RepositoryVars, TargetVars, documents, archived, overrun, pjFaults>>
MarkCredentialInvalid(r) ==
    /\ asked[r].at = "mark"
    /\ repository' = IF repository = "none" THEN "none" ELSE "invalid"
    /\ vouched' = (vouched /\ asked[r].stale)
    /\ overrun' = (overrun \/ asked[r].stale)
    /\ asked' = [asked EXCEPT ![r] = Silent]
    /\ UNCHANGED <<project, TargetVars, token, refusedBy, documents, archived, pjFaults>>

(***************************************************************************)
(* The pentest target                                                      *)
(***************************************************************************)

RegisterTarget ==
    /\ project # "absent" /\ target = "none" /\ target' = "awaiting"
    /\ UNCHANGED <<project, RepositoryVars, onRecord, flag, documents, asked, archived,
                   overrun, pjFaults>>

\* Instead: the status goes first.
AttestationReversed == [record |-> "second", status |-> "first"]
\* AttestTarget: a row of target_attestations, whatever the target's status is,
\* then the status
AttestationOrder == [record |-> "first", status |-> "second"]

Attest(r, nth) ==
    /\ IF nth = "first" THEN target # "none" /\ Starts(r, "attest") /\ overrun' = overrun
       ELSE /\ asked[r].at = "attest"
            /\ asked' = [asked EXCEPT ![r] = Silent]
            /\ overrun' = (overrun \/ asked[r].stale)
    /\ onRecord' = (target # "none" /\ (onRecord \/ AttestationOrder.record = nth))
    /\ target' = IF AttestationOrder.status = nth /\ target # "none" THEN "attested" ELSE target
    /\ UNCHANGED <<project, RepositoryVars, flag, documents, archived, pjFaults>>

Revoked(r) ==
    /\ target' = IF target = "none" THEN "none" ELSE "revoked"
    /\ onRecord' = FALSE
    /\ asked' = [q \in PjRequests |-> IF q = r THEN Silent
                                     ELSE [asked[q] EXCEPT !.stale = @ \/ asked[q].at = "attest"]]
    /\ UNCHANGED <<project, RepositoryVars, documents, archived, overrun, pjFaults>>

RevokeTarget(r) ==
    /\ target # "none" /\ asked[r] = Silent
    /\ Revoked(r) /\ UNCHANGED flag

\* CreateFlag, and ResolveFlag as often as somebody likes: misuse that is
\* confirmed revokes the target in a second statement (AdminRevokeTarget).
SetFlag(r, status) ==
    /\ target # "none"
    /\ IF flag = "none" THEN status = "open" ELSE status \in {"investigating", "dismissed", "confirmed"}
    /\ IF status = "confirmed" THEN Starts(r, "revoke") ELSE asked[r] = Silent /\ asked' = asked
    /\ flag' = status
    /\ UNCHANGED <<project, RepositoryVars, target, onRecord, documents, archived, overrun, pjFaults>>
AdminRevokeTarget(r) ==
    /\ asked[r].at = "revoke"
    /\ Revoked(r) /\ UNCHANGED flag

(***************************************************************************)
(* Documents                                                               *)
(***************************************************************************)

Room == documents < MaxDocuments

\* createDocument, of an upload or an import, counts first ...
CountDocuments(r) ==
    /\ project # "absent" /\ Room /\ Starts(r, "document")
    /\ UNCHANGED <<project, RepositoryVars, TargetVars, documents, archived, overrun, pjFaults>>
CreateDocument(r) ==
    /\ asked[r].at = "document"
    /\ documents' = IF project = "absent" THEN 0 ELSE documents + 1
    /\ Writes(r, {"document"}, Silent)
    /\ UNCHANGED <<project, RepositoryVars, TargetVars, archived, pjFaults>>
DeleteDocument ==
    /\ documents > 0 /\ documents' = documents - 1
    /\ UNCHANGED <<project, RepositoryVars, TargetVars, asked, archived, overrun, pjFaults>>

\* The API or the worker dies between two statements, or one of them fails.
PjCutShort(r) ==
    /\ asked[r] # Silent /\ pjFaults < MaxPjFaults
    /\ asked' = [asked EXCEPT ![r] = Silent]
    /\ pjFaults' = pjFaults + 1
    /\ UNCHANGED <<project, RepositoryVars, TargetVars, documents, archived, overrun>>

PjRowStep(r) ==
    \/ \E w \in BOOLEAN : CreateProject(r, w)
    \/ FirstAttachFails(r) \/ DeleteProject(r) \/ WriteProject(r)
    \/ \E s \in {"active", "archived"} : ReadProject(r, s)
PjRepositoryStep(r) ==
    \/ ReadForAttach(r) \/ UpsertRepository(r) \/ GetCloneInfo(r) \/ ShallowClone(r)
    \/ MarkCredentialInvalid(r)
    \/ \E ok \in BOOLEAN : ValidateRepository(r, ok)
PjTargetStep(r) ==
    \/ \E nth \in {"first", "second"} : Attest(r, nth)
    \/ \E s \in {"open", "investigating", "dismissed", "confirmed"} : SetFlag(r, s)
    \/ RevokeTarget(r) \/ AdminRevokeTarget(r)
PjDocumentStep(r) == CountDocuments(r) \/ CreateDocument(r)

PjNext ==
    \/ RegisterTarget \/ DeleteDocument
    \/ \E t \in PersonalTokens : RefuseToken(t)
    \/ \E t \in PersonalTokens \cup {NoToken} : StoreCredential(t)
    \/ \E r \in PjRequests :
         PjRowStep(r) \/ PjRepositoryStep(r) \/ PjTargetStep(r) \/ PjDocumentStep(r)
         \/ PjCutShort(r)

PjSpec == PjInit /\ [][PjNext]_PjVars

(***************************************************************************)
(* Properties                                                              *)
(***************************************************************************)

\* A target counts as attested, and scans go at it, only with an attestation on
\* record that is younger than its last revocation, by its owner or by an
\* operator.
AttestedOnRecord == target = "attested" => onRecord
\* Nobody brings an archived project back: the code has no operation for it.
ArchivedStaysArchived == archived => project # "active"
\* The mark of a refused credential is gone once an attach was accepted, until
\* a clone that began later is refused ("cleared back to NULL by the next
\* Upsert").
MarkIsCurrent == vouched => repository # "invalid"
\* No more documents than the limit.
DocumentsWithinLimit == documents <= MaxDocuments

\* All four break, but only when a request writes what it had made of rows
\* that another one has changed since it read them, or a revocation comes between
\* an attestation's two statements.
OnlyAStaleReadUndoes ==
    overrun \/ (AttestedOnRecord /\ ArchivedStaysArchived /\ MarkIsCurrent /\ DocumentsWithinLimit)
=============================================================================
