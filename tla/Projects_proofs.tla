-------------------------- MODULE Projects_proofs --------------------------
(***************************************************************************)
(* Proofs about an organisation's projects (Projects), for any number of   *)
(* requests, tokens, documents and requests cut short, and about its       *)
(* members and invites (Members), for any number of them and any requests. *)
(***************************************************************************)
EXTENDS Projects, Members, FiniteSetTheorems, TLAPS

-----------------------------------------------------------------------------
(***************************************************************************)
(* A project.                                                              *)
(*                                                                         *)
(* Until a write is overrun, what a request has read still holds when it   *)
(* writes (PendingOK): whoever else wrote since has marked it stale.  A    *)
(* project that is gone has left nothing that a request which still runs   *)
(* could write to (GoneOK).                                                *)
(***************************************************************************)

\* What a request is about to write was not overtaken, or it is marked.
PendingOK(r) ==
    /\ asked[r].at = "write" =>
          /\ asked[r].status # "absent"
          /\ archived /\ ~asked[r].stale => asked[r].status = "archived"
    /\ asked[r].at = "attest" /\ project # "absent" =>
          target # "none" /\ (asked[r].stale \/ onRecord)
    /\ asked[r].at = "document" /\ ~asked[r].stale => documents < MaxDocuments

GoneOK == project = "absent" => ~archived /\ documents = 0 /\ target = "none"

Kept == /\ GoneOK /\ \A r \in PjRequests : PendingOK(r)
        /\ AttestedOnRecord /\ ArchivedStaysArchived /\ MarkIsCurrent /\ DocumentsWithinLimit

PjInv == PjTypeOK /\ (overrun \/ Kept)

-----------------------------------------------------------------------------
(***************************************************************************)
(* Type correctness                                                        *)
(***************************************************************************)

Asked == [at : {"silent", "first", "undo", "write", "attach", "upsert",
                "clone", "mark", "attest", "revoke", "document"},
          with : PersonalTokens \cup {NoToken},
          status : {"absent", "active", "archived"},
          stale : BOOLEAN]

(* Who asks nothing is silent.                                                 *)
LEMMA SilentIsAsked == Silent \in Asked
BY DEF Silent, Asked

(* A request may take up any place, be marked stale, and fall silent.          *)
LEMMA AskedStays ==
  ASSUME NEW a \in Asked
  PROVE  /\ \A at \in {"first", "undo", "upsert", "mark", "attest", "revoke", "document"} :
               [a EXCEPT !.at = at] \in Asked
         /\ \A b \in BOOLEAN : [a EXCEPT !.stale = b] \in Asked
         /\ \A s \in {"active", "archived"} :
               [Silent EXCEPT !.at = "write", !.status = s] \in Asked
         /\ \A t \in PersonalTokens \cup {NoToken}, at \in {"attach", "clone"} :
               [Silent EXCEPT !.at = at, !.with = t] \in Asked
BY DEF Asked, Silent

(* A step changes what one request asks, and marks what others ask.            *)
LEMMA AskedNext ==
  ASSUME PjTypeOK, PjNext
  PROVE  asked' \in [PjRequests -> Asked]
<1>0. asked \in [PjRequests -> Asked]
  BY DEF PjTypeOK, Asked
<1> DEFINE Good == asked' \in [PjRequests -> Asked]
<1>1. ASSUME NEW r \in PjRequests, NEW next \in Asked, asked' = [asked EXCEPT ![r] = next]
      PROVE  Good
  BY <1>0, <1>1
<1>2. ASSUME NEW r \in PjRequests, NEW places, Writes(r, places, Silent)
      PROVE  Good
  <2>1. asked' = [q \in PjRequests |->
                    IF q = r THEN Silent
                    ELSE [asked[q] EXCEPT !.stale = asked[q].stale \/ asked[q].at \in places]]
    BY <1>2 DEF Writes
  <2>2. \A q \in PjRequests : (asked[q].stale \/ asked[q].at \in places) \in BOOLEAN
    OBVIOUS
  <2>3. Silent \in Asked
    BY SilentIsAsked
  <2> QED BY <1>0, <2>1, <2>2, <2>3, AskedStays
<1>3. ASSUME NEW r \in PjRequests, Revoked(r)
      PROVE  Good
  <2>1. asked' = [q \in PjRequests |->
                    IF q = r THEN Silent
                    ELSE [asked[q] EXCEPT !.stale = asked[q].stale \/ asked[q].at = "attest"]]
    BY <1>3 DEF Revoked
  <2>2. \A q \in PjRequests : (asked[q].stale \/ asked[q].at = "attest") \in BOOLEAN
    OBVIOUS
  <2>3. Silent \in Asked
    BY SilentIsAsked
  <2> QED BY <1>0, <2>1, <2>2, <2>3, AskedStays
<1>4. ASSUME NEW r \in PjRequests, NEW at \in {"first", "undo", "upsert", "mark", "attest", "revoke", "document"},
             asked' = [asked EXCEPT ![r].at = at]
      PROVE  Good
  <2>1. [asked[r] EXCEPT !.at = at] \in Asked
    BY <1>0, AskedStays
  <2> QED BY <1>1, <1>4, <2>1
<1>5. ASSUME NEW r \in PjRequests, asked' = [asked EXCEPT ![r] = Silent] PROVE Good
  <2>1. Silent \in Asked
    BY SilentIsAsked
  <2> QED BY <1>1, <1>5, <2>1
<1>6. ASSUME asked' = asked PROVE Good
  BY <1>0, <1>6
<1>7. ASSUME NEW r \in PjRequests, PjRowStep(r) PROVE Good
  <2>1. ASSUME NEW w \in BOOLEAN, CreateProject(r, w) PROVE Good
    BY <1>4, <1>6, <2>1 DEF CreateProject, Starts
  <2>2. ASSUME NEW s \in {"active", "archived"}, ReadProject(r, s) PROVE Good
    <3>1. [Silent EXCEPT !.at = "write", !.status = s] \in Asked
      BY <1>0, AskedStays
    <3> QED BY <1>1, <2>2, <3>1 DEF ReadProject
  <2>3. CASE FirstAttachFails(r)
    BY <1>4, <2>3 DEF FirstAttachFails
  <2>4. CASE DeleteProject(r)
    BY <1>5, <2>4 DEF DeleteProject
  <2>5. CASE WriteProject(r)
    BY <1>2, <2>5 DEF WriteProject
  <2> QED BY <1>7, <2>1, <2>2, <2>3, <2>4, <2>5 DEF PjRowStep
<1>8. ASSUME NEW r \in PjRequests, PjRepositoryStep(r) PROVE Good
  <2>1. CASE ReadForAttach(r)
    <3>1. [Silent EXCEPT !.at = "attach", !.with = token] \in Asked
      BY <1>0, AskedStays DEF PjTypeOK
    <3> QED BY <1>1, <2>1, <3>1 DEF ReadForAttach
  <2>2. CASE GetCloneInfo(r)
    <3>1. [Silent EXCEPT !.at = "clone", !.with = token] \in Asked
      BY <1>0, AskedStays DEF PjTypeOK
    <3> QED BY <1>1, <2>2, <3>1 DEF GetCloneInfo
  <2>3. ASSUME NEW ok \in BOOLEAN, ValidateRepository(r, ok) PROVE Good
    BY <1>4, <1>5, <2>3 DEF ValidateRepository
  <2>4. CASE ShallowClone(r)
    BY <1>4, <1>5, <2>4 DEF ShallowClone
  <2>5. CASE UpsertRepository(r)
    BY <1>2, <2>5 DEF UpsertRepository
  <2>6. CASE MarkCredentialInvalid(r)
    BY <1>5, <2>6 DEF MarkCredentialInvalid
  <2> QED BY <1>8, <2>1, <2>2, <2>3, <2>4, <2>5, <2>6 DEF PjRepositoryStep
<1>9. ASSUME NEW r \in PjRequests, PjTargetStep(r) PROVE Good
  <2>1. ASSUME NEW nth \in {"first", "second"}, Attest(r, nth) PROVE Good
    BY <1>4, <1>5, <2>1 DEF Attest, Starts
  <2>2. ASSUME NEW s \in {"open", "investigating", "dismissed", "confirmed"}, SetFlag(r, s) PROVE Good
    BY <1>4, <1>6, <2>2 DEF SetFlag, Starts
  <2>3. CASE RevokeTarget(r) \/ AdminRevokeTarget(r)
    BY <1>3, <2>3 DEF RevokeTarget, AdminRevokeTarget
  <2> QED BY <1>9, <2>1, <2>2, <2>3 DEF PjTargetStep
<1>10. ASSUME NEW r \in PjRequests, PjDocumentStep(r) \/ PjCutShort(r) PROVE Good
  <2>1. CASE CountDocuments(r)
    BY <1>4, <2>1 DEF CountDocuments, Starts
  <2>2. CASE CreateDocument(r)
    BY <1>2, <2>2 DEF CreateDocument
  <2>3. CASE PjCutShort(r)
    BY <1>5, <2>3 DEF PjCutShort
  <2> QED BY <1>10, <2>1, <2>2, <2>3 DEF PjDocumentStep
<1>11. CASE \/ RegisterTarget \/ DeleteDocument
            \/ \E t \in PersonalTokens : RefuseToken(t)
            \/ \E t \in PersonalTokens \cup {NoToken} : StoreCredential(t)
  BY <1>6, <1>11 DEF RegisterTarget, DeleteDocument, RefuseToken, StoreCredential
<1> QED BY <1>7, <1>8, <1>9, <1>10, <1>11 DEF PjNext

\* All but what is asked
RowsOK ==
    /\ project \in {"absent", "active", "archived"}
    /\ repository \in {"none", "valid", "invalid"}
    /\ token \in PersonalTokens \cup {NoToken} /\ refusedBy \subseteq PersonalTokens
    /\ target \in {"none", "awaiting", "attested", "revoked"}
    /\ flag \in {"none", "open", "investigating", "dismissed", "confirmed"}
    /\ documents \in Nat /\ pjFaults \in 0 .. MaxPjFaults
MarksOK == onRecord \in BOOLEAN /\ archived \in BOOLEAN /\ vouched \in BOOLEAN /\ overrun \in BOOLEAN

(* The rows keep their types.                                                  *)
LEMMA RowsNext ==
  ASSUME PjTypeOK, PjNext
  PROVE  RowsOK'
<1>1. RowsOK /\ \A r \in PjRequests : asked[r].status \in {"absent", "active", "archived"}
  BY DEF PjTypeOK, RowsOK
<1> USE DEF RowsOK, RepositoryVars, TargetVars
<1>2. ASSUME NEW r \in PjRequests, PjRowStep(r) PROVE RowsOK'
  <2>1. ASSUME NEW w \in BOOLEAN, CreateProject(r, w) PROVE RowsOK'
    BY <1>1, <2>1 DEF CreateProject
  <2>2. ASSUME NEW s, ReadProject(r, s) PROVE RowsOK'
    BY <1>1, <2>2 DEF ReadProject
  <2>3. CASE FirstAttachFails(r)
    BY <1>1, <2>3 DEF FirstAttachFails
  <2>4. CASE DeleteProject(r)
    BY <1>1, <2>4 DEF DeleteProject
  <2>5. CASE WriteProject(r)
    BY <1>1, <2>5 DEF WriteProject
  <2> HIDE DEF RowsOK
  <2> QED BY <1>2, <2>1, <2>2, <2>3, <2>4, <2>5 DEF PjRowStep
<1>3. ASSUME NEW r \in PjRequests, PjRepositoryStep(r) PROVE RowsOK'
  <2>1. CASE ReadForAttach(r) \/ GetCloneInfo(r) \/ ShallowClone(r)
    BY <1>1, <2>1 DEF ReadForAttach, GetCloneInfo, ShallowClone
  <2>2. ASSUME NEW ok \in BOOLEAN, ValidateRepository(r, ok) PROVE RowsOK'
    BY <1>1, <2>2 DEF ValidateRepository
  <2>3. CASE UpsertRepository(r)
    BY <1>1, <2>3 DEF UpsertRepository, Upserted
  <2>4. CASE MarkCredentialInvalid(r)
    BY <1>1, <2>4 DEF MarkCredentialInvalid
  <2> HIDE DEF RowsOK
  <2> QED BY <1>3, <2>1, <2>2, <2>3, <2>4 DEF PjRepositoryStep
<1>4. ASSUME NEW r \in PjRequests, PjTargetStep(r) PROVE RowsOK'
  <2>1. ASSUME NEW nth \in {"first", "second"}, Attest(r, nth) PROVE RowsOK'
    BY <1>1, <2>1 DEF Attest
  <2>2. ASSUME NEW s \in {"open", "investigating", "dismissed", "confirmed"}, SetFlag(r, s)
        PROVE  RowsOK'
    BY <1>1, <2>2 DEF SetFlag
  <2>3. CASE RevokeTarget(r) \/ AdminRevokeTarget(r)
    BY <1>1, <2>3 DEF RevokeTarget, AdminRevokeTarget, Revoked
  <2> HIDE DEF RowsOK
  <2> QED BY <1>4, <2>1, <2>2, <2>3 DEF PjTargetStep
<1>5. ASSUME NEW r \in PjRequests, PjDocumentStep(r) \/ PjCutShort(r) PROVE RowsOK'
  <2>1. CASE CountDocuments(r)
    BY <1>1, <2>1 DEF CountDocuments
  <2>2. CASE CreateDocument(r)
    BY <1>1, <2>2 DEF CreateDocument
  <2>3. CASE PjCutShort(r)
    BY <1>1, <2>3, ProjectsAssumption DEF PjCutShort
  <2> HIDE DEF RowsOK
  <2> QED BY <1>5, <2>1, <2>2, <2>3 DEF PjDocumentStep
<1>6. CASE RegisterTarget
  BY <1>1, <1>6 DEF RegisterTarget
<1>7. CASE DeleteDocument
  BY <1>1, <1>7 DEF DeleteDocument
<1>8. ASSUME NEW t \in PersonalTokens, RefuseToken(t) PROVE RowsOK'
  BY <1>1, <1>8 DEF RefuseToken
<1>9. ASSUME NEW t \in PersonalTokens \cup {NoToken}, StoreCredential(t) PROVE RowsOK'
  BY <1>1, <1>9 DEF StoreCredential
<1> HIDE DEF RowsOK
<1> QED BY <1>2, <1>3, <1>4, <1>5, <1>6, <1>7, <1>8, <1>9 DEF PjNext

(* What the model notes of them stays true or false.                           *)
LEMMA MarksNext ==
  ASSUME PjTypeOK, PjNext
  PROVE  MarksOK'
<1>1. onRecord \in BOOLEAN /\ archived \in BOOLEAN /\ vouched \in BOOLEAN /\ overrun \in BOOLEAN
  BY DEF PjTypeOK
<1> USE <1>1
<1> USE DEF PjNext, PjRowStep, CreateProject, FirstAttachFails, DeleteProject, WriteProject,
         ReadProject, Writes, PjRepositoryStep, ReadForAttach, UpsertRepository, GetCloneInfo,
         ShallowClone, MarkCredentialInvalid, ValidateRepository, PjTargetStep, Attest, SetFlag,
         RevokeTarget, AdminRevokeTarget, Revoked, PjDocumentStep, CountDocuments, CreateDocument,
         PjCutShort, RegisterTarget, DeleteDocument, RefuseToken, StoreCredential, RepositoryVars,
         TargetVars
<1>2. onRecord' \in BOOLEAN
  OBVIOUS
<1>3. archived' \in BOOLEAN
  OBVIOUS
<1>4. vouched' \in BOOLEAN
  OBVIOUS
<1>5. overrun' \in BOOLEAN
  OBVIOUS
<1> QED BY <1>2, <1>3, <1>4, <1>5 DEF MarksOK

(* Every variable keeps its type.                                             *)
LEMMA PjTypesNext ==
  ASSUME PjTypeOK, PjNext
  PROVE  PjTypeOK'
BY AskedNext, RowsNext, MarksNext DEF PjTypeOK, RowsOK, MarksOK, Asked

-----------------------------------------------------------------------------
(***************************************************************************)
(* What requests have read                                                 *)
(***************************************************************************)

(* A request that is not about to write one of the four has nothing to be wrong
   about.                                                                      *)
LEMMA PendingFresh ==
  ASSUME NEW r \in PjRequests, asked'[r].at \notin {"write", "attest", "document"}
  PROVE  PendingOK(r)'
BY DEF PendingOK

(* A request that waits is as right as it was, unless somebody has written what
   it read, and then it is marked.                                             *)
LEMMA PendingStays ==
  ASSUME PjTypeOK, NEW r \in PjRequests, PendingOK(r),
         asked'[r].at = asked[r].at, asked'[r].status = asked[r].status,
         asked[r].stale => asked'[r].stale,
         archived' => archived \/ (asked[r].at = "write" => asked'[r].stale),
         project' # "absent" => project # "absent" /\ (target' = "none" => target = "none"),
         onRecord => onRecord' \/ (asked[r].at = "attest" => asked'[r].stale),
         documents' <= documents \/ (asked[r].at = "document" => asked'[r].stale),
         documents' \in Nat
  PROVE  PendingOK(r)'
<1>1. documents \in Nat /\ MaxDocuments \in Nat
  BY ProjectsAssumption DEF PjTypeOK
<1> QED BY <1>1 DEF PendingOK

(* In the same way, if nothing is changed but what one request asks.           *)
LEMMA PendingAsks ==
  ASSUME PjTypeOK, Kept, NEW r \in PjRequests, NEW next, asked' = [asked EXCEPT ![r] = next],
         UNCHANGED <<project, archived, target, onRecord, documents>>,
         next.at \in {"write", "attest", "document"} => PendingOK(r)'
  PROVE  GoneOK' /\ \A q \in PjRequests : PendingOK(q)'
<1>1. GoneOK'
  BY DEF Kept, GoneOK
<1>2. asked \in [PjRequests -> Asked] /\ documents \in Nat
  BY DEF PjTypeOK, Asked
<1>3. ASSUME NEW q \in PjRequests PROVE PendingOK(q)'
  <2>1. CASE q = r
    BY <1>2, <2>1, PendingFresh
  <2>2. CASE q # r
    <3>1. asked'[q] = asked[q]
      BY <1>2, <2>2
    <3> QED BY <1>2, <3>1, PendingStays DEF Kept
  <2> QED BY <2>1, <2>2
<1> QED BY <1>1, <1>3

(* A write leaves the others as right as they were, and the writer silent.      *)
LEMMA PendingWrites ==
  ASSUME PjTypeOK, Kept, NEW r \in PjRequests, NEW places, Writes(r, places, Silent),
         archived' => archived \/ "write" \in places,
         project' # "absent" => project # "absent",
         UNCHANGED <<target, onRecord>>,
         documents' <= documents \/ "document" \in places, documents' \in Nat
  PROVE  \A q \in PjRequests : PendingOK(q)'
<1>1. asked \in [PjRequests -> Asked]
  BY DEF PjTypeOK, Asked
<1>2. ASSUME NEW q \in PjRequests PROVE PendingOK(q)'
  <2>1. CASE q = r
    <3>1. asked'[q].at = "silent"
      BY <1>1, <2>1 DEF Writes, Silent
    <3> QED BY <3>1, PendingFresh
  <2>2. CASE q # r
    <3>1. asked'[q] = [asked[q] EXCEPT !.stale = asked[q].stale \/ asked[q].at \in places]
      BY <2>2 DEF Writes
    <3>2. /\ asked'[q].at = asked[q].at /\ asked'[q].status = asked[q].status
          /\ asked'[q].stale = (asked[q].stale \/ asked[q].at \in places)
      BY <1>1, <3>1 DEF Asked
    <3> QED BY <3>2, PendingStays DEF Kept
  <2> QED BY <2>1, <2>2
<1> QED BY <1>2

-----------------------------------------------------------------------------
(***************************************************************************)
(* The steps, none of which overruns                                       *)
(***************************************************************************)

Safe == AttestedOnRecord /\ ArchivedStaysArchived /\ MarkIsCurrent /\ DocumentsWithinLimit

(* The project row: who writes it back without having been overtaken leaves it
   archived if it is.                                                          *)
LEMMA RowKeeps ==
  ASSUME PjTypeOK, Kept, NEW r \in PjRequests, PjRowStep(r), ~overrun'
  PROVE  Kept'
<1>0. asked \in [PjRequests -> Asked]
  BY DEF PjTypeOK, Asked
<1> USE DEF RepositoryVars, TargetVars
<1>1. ASSUME NEW w \in BOOLEAN, CreateProject(r, w) PROVE Kept'
  <2>1. \A q \in PjRequests : asked'[q].at \in {"silent", "first"}
    BY <1>0, <1>1 DEF CreateProject, Starts, Silent
  <2>2. Safe'
    BY <1>1 DEF CreateProject, Kept, GoneOK, Safe, AttestedOnRecord, ArchivedStaysArchived,
                MarkIsCurrent, DocumentsWithinLimit
  <2>3. GoneOK'
    BY <1>1 DEF CreateProject, GoneOK
  <2> QED BY <2>1, <2>2, <2>3, PendingFresh DEF Kept, Safe
<1>2. ASSUME NEW s \in {"active", "archived"}, ReadProject(r, s) PROVE Kept'
  <2> DEFINE next == [Silent EXCEPT !.at = "write", !.status = s]
  <2>1. next.at = "write" /\ next.status = s /\ asked' = [asked EXCEPT ![r] = next]
    BY <1>2 DEF ReadProject, Silent
  <2>2. archived => s = "archived"
    BY <1>2 DEF ReadProject, Kept, ArchivedStaysArchived, PjTypeOK
  <2>3. PendingOK(r)'
    BY <1>0, <1>2, <2>1, <2>2 DEF ReadProject, PendingOK
  <2>4. GoneOK' /\ \A q \in PjRequests : PendingOK(q)'
    BY <1>2, <2>1, <2>3, PendingAsks DEF ReadProject
  <2> QED BY <1>2, <2>4 DEF ReadProject, Kept, AttestedOnRecord, ArchivedStaysArchived, MarkIsCurrent,
                            DocumentsWithinLimit
<1>3. CASE FirstAttachFails(r)
  <2> DEFINE next == [asked[r] EXCEPT !.at = "undo"]
  <2>1. next.at = "undo" /\ asked' = [asked EXCEPT ![r] = next]
    BY <1>0, <1>3 DEF FirstAttachFails, Asked
  <2>2. GoneOK' /\ \A q \in PjRequests : PendingOK(q)'
    BY <1>3, <2>1, PendingAsks DEF FirstAttachFails
  <2> QED BY <1>3, <2>2 DEF FirstAttachFails, Kept, AttestedOnRecord, ArchivedStaysArchived,
                            MarkIsCurrent, DocumentsWithinLimit
<1>4. CASE DeleteProject(r)
  <2>1. ASSUME NEW q \in PjRequests PROVE PendingOK(q)'
    <3>1. CASE q = r
      <4>1. asked'[q].at = "silent"
        BY <1>0, <1>4, <3>1 DEF DeleteProject, Silent
      <4> QED BY <4>1, PendingFresh
    <3>2. CASE q # r
      <4>1. asked'[q] = asked[q] /\ ~archived' /\ project' = "absent" /\ documents' = 0
        BY <1>0, <1>4, <3>2 DEF DeleteProject
      <4>2. 0 < MaxDocuments /\ PendingOK(q)
        BY ProjectsAssumption DEF Kept
      <4> QED BY <4>1, <4>2 DEF PendingOK
    <3> QED BY <3>1, <3>2
  <2>2. Safe' /\ GoneOK'
    BY <1>4, ProjectsAssumption
       DEF DeleteProject, GoneOK, Safe, AttestedOnRecord, ArchivedStaysArchived, MarkIsCurrent,
           DocumentsWithinLimit
  <2> QED BY <2>1, <2>2 DEF Kept, Safe
<1>5. CASE WriteProject(r)
  <2>1. ~asked[r].stale /\ asked[r].at = "write"
    BY <1>5 DEF WriteProject, Writes
  <2>2. /\ project' = IF project = "absent" THEN "absent" ELSE asked[r].status
        /\ archived' = (archived \/ project' = "archived")
        /\ UNCHANGED <<repository, vouched, target, onRecord, documents>>
    BY <1>5 DEF WriteProject
  <2>3. archived /\ project # "absent" => asked[r].status = "archived"
    BY <2>1 DEF Kept, PendingOK
  <2>4. asked[r].status # "absent"
    BY <2>1 DEF Kept, PendingOK
  <2>5. Safe' /\ GoneOK'
    <3>1. ArchivedStaysArchived'
      BY <2>2, <2>3 DEF ArchivedStaysArchived
    <3>2. GoneOK'
      BY <2>2, <2>4 DEF Kept, GoneOK
    <3> QED BY <2>2, <3>1, <3>2 DEF Kept, Safe, AttestedOnRecord, MarkIsCurrent, DocumentsWithinLimit
  <2>6. \A q \in PjRequests : PendingOK(q)'
    <3>1. Writes(r, {"write"}, Silent) /\ documents' \in Nat /\ documents' <= documents
      BY <1>5, <2>2 DEF WriteProject, PjTypeOK
    <3>2. project' # "absent" => project # "absent"
      BY <2>2
    <3>3. target' = target /\ onRecord' = onRecord
      BY <2>2
    <3> QED BY <3>1, <3>2, <3>3, PendingWrites
  <2> QED BY <2>5, <2>6 DEF Kept, Safe
<1> QED BY <1>1, <1>2, <1>3, <1>4, <1>5 DEF PjRowStep

(* The repository: the mark of a refused credential goes with an accepted attach,
   and comes back only with a clone that began later.                           *)
LEMMA RepositoryKeeps ==
  ASSUME PjTypeOK, Kept, NEW r \in PjRequests, PjRepositoryStep(r), ~overrun'
  PROVE  Kept'
<1>0. asked \in [PjRequests -> Asked] /\ documents \in Nat
  BY DEF PjTypeOK, Asked
<1> USE DEF RepositoryVars, TargetVars
<1>1. UNCHANGED <<project, archived, target, onRecord, documents>>
  BY DEF PjRepositoryStep, ReadForAttach, UpsertRepository, GetCloneInfo, ShallowClone,
         MarkCredentialInvalid, ValidateRepository
<1>2. MarkIsCurrent'
  <2>1. CASE UpsertRepository(r)
    BY <2>1 DEF UpsertRepository, Upserted, MarkIsCurrent
  <2>2. CASE MarkCredentialInvalid(r)
    BY <2>2 DEF MarkCredentialInvalid, MarkIsCurrent
  <2>3. CASE ~UpsertRepository(r) /\ ~MarkCredentialInvalid(r)
    BY <2>3 DEF PjRepositoryStep, ReadForAttach, GetCloneInfo, ShallowClone, ValidateRepository, Kept,
                MarkIsCurrent
  <2> QED BY <2>1, <2>2, <2>3
<1>3. GoneOK' /\ \A q \in PjRequests : PendingOK(q)'
  <2>1. CASE UpsertRepository(r)
    <3>1. Writes(r, {"clone", "mark"}, Silent)
      BY <2>1 DEF UpsertRepository
    <3>2. \A q \in PjRequests : PendingOK(q)'
      BY <1>0, <1>1, <3>1, PendingWrites
    <3> QED BY <1>1, <3>2 DEF Kept, GoneOK
  <2>2. CASE ~UpsertRepository(r)
    <3>1. \E next : asked' = [asked EXCEPT ![r] = next] /\ next.at \notin {"write", "attest", "document"}
      <4>1. CASE ReadForAttach(r)
        <5>1. [Silent EXCEPT !.at = "attach", !.with = token].at = "attach"
          BY DEF Silent
        <5> QED BY <4>1, <5>1 DEF ReadForAttach
      <4>2. CASE GetCloneInfo(r)
        <5>1. [Silent EXCEPT !.at = "clone", !.with = token].at = "clone"
          BY DEF Silent
        <5> QED BY <4>2, <5>1 DEF GetCloneInfo
      <4>3. ASSUME NEW ok \in BOOLEAN, ValidateRepository(r, ok)
            PROVE \E next : asked' = [asked EXCEPT ![r] = next] /\ next.at \notin {"write", "attest", "document"}
        <5>1. [asked[r] EXCEPT !.at = "upsert"].at = "upsert" /\ Silent.at = "silent"
          BY <1>0 DEF Silent, Asked
        <5> QED BY <4>3, <5>1 DEF ValidateRepository
      <4>4. CASE ShallowClone(r)
        <5>1. [asked[r] EXCEPT !.at = "mark"].at = "mark" /\ Silent.at = "silent"
          BY <1>0 DEF Silent, Asked
        <5> QED BY <4>4, <5>1 DEF ShallowClone
      <4>5. CASE MarkCredentialInvalid(r)
        <5>1. Silent.at = "silent"
          BY DEF Silent
        <5> QED BY <4>5, <5>1 DEF MarkCredentialInvalid
      <4> QED BY <2>2, <4>1, <4>2, <4>3, <4>4, <4>5 DEF PjRepositoryStep
    <3> QED BY <1>1, <3>1, PendingAsks
  <2> QED BY <2>1, <2>2
<1> QED BY <1>1, <1>2, <1>3 DEF Kept, AttestedOnRecord, ArchivedStaysArchived, DocumentsWithinLimit

(* The target: the status follows a record that no revocation has overtaken.     *)
LEMMA TargetKeeps ==
  ASSUME PjTypeOK, Kept, NEW r \in PjRequests, PjTargetStep(r), ~overrun'
  PROVE  Kept'
<1>0. asked \in [PjRequests -> Asked] /\ documents \in Nat
  BY DEF PjTypeOK, Asked
<1> USE DEF RepositoryVars, TargetVars
<1>1. UNCHANGED <<project, archived, repository, vouched, documents>>
  BY DEF PjTargetStep, Attest, SetFlag, RevokeTarget, AdminRevokeTarget, Revoked
<1>2. CASE Attest(r, "first")
  <2>1. target # "none" /\ onRecord' /\ target' = target
    BY <1>2 DEF Attest, AttestationOrder
  <2>2. project # "absent"
    BY <2>1 DEF Kept, GoneOK
  <2>3. ASSUME NEW q \in PjRequests PROVE PendingOK(q)'
    <3>1. CASE q = r
      <4>1. asked'[q].at = "attest"
        BY <1>0, <1>2, <3>1 DEF Attest, Starts, Asked
      <4> QED BY <2>1, <4>1 DEF PendingOK
    <3>2. CASE q # r
      <4>1. asked'[q] = asked[q]
        BY <1>0, <1>2, <3>2 DEF Attest, Starts
      <4> QED BY <1>0, <1>1, <2>1, <4>1, PendingStays DEF Kept
    <3> QED BY <3>1, <3>2
  <2> QED BY <1>1, <2>1, <2>2, <2>3 DEF Kept, GoneOK, AttestedOnRecord, ArchivedStaysArchived, MarkIsCurrent,
                            DocumentsWithinLimit
<1>3. CASE Attest(r, "second")
  <2>1. /\ asked[r].at = "attest" /\ ~asked[r].stale /\ asked' = [asked EXCEPT ![r] = Silent]
        /\ onRecord' = (target # "none" /\ onRecord)
        /\ target' = IF target # "none" THEN "attested" ELSE target
    BY <1>3 DEF Attest, AttestationOrder
  <2>2. project # "absent" => target # "none" /\ onRecord
    BY <2>1 DEF Kept, PendingOK
  <2>3. GoneOK' /\ AttestedOnRecord'
    BY <1>1, <2>1, <2>2 DEF Kept, GoneOK, AttestedOnRecord
  <2>4. ASSUME NEW q \in PjRequests PROVE PendingOK(q)'
    <3>1. CASE q = r
      <4>1. asked'[q].at = "silent"
        BY <1>0, <2>1, <3>1 DEF Silent
      <4> QED BY <4>1, PendingFresh
    <3>2. CASE q # r
      <4>1. asked'[q] = asked[q]
        BY <1>0, <2>1, <3>2
      <4> QED BY <1>1, <2>1, <2>2, <4>1 DEF Kept, PendingOK
    <3> QED BY <3>1, <3>2
  <2> QED BY <1>1, <2>3, <2>4 DEF Kept, ArchivedStaysArchived, MarkIsCurrent, DocumentsWithinLimit
<1>4. ASSUME NEW s \in {"open", "investigating", "dismissed", "confirmed"}, SetFlag(r, s)
      PROVE  Kept'
  <2>1. UNCHANGED <<target, onRecord>> /\ (asked' = asked \/ asked' = [asked EXCEPT ![r].at = "revoke"])
    BY <1>4 DEF SetFlag, Starts
  <2>2. GoneOK' /\ \A q \in PjRequests : PendingOK(q)'
    <3>1. CASE asked' = asked
      BY <1>1, <2>1, <3>1 DEF Kept, GoneOK, PendingOK
    <3>2. CASE asked' = [asked EXCEPT ![r].at = "revoke"]
      <4>1. [asked[r] EXCEPT !.at = "revoke"].at = "revoke"
        BY <1>0 DEF Asked
      <4>2. asked' = [asked EXCEPT ![r] = [asked[r] EXCEPT !.at = "revoke"]]
        BY <3>2
      <4> QED BY <1>1, <2>1, <4>1, <4>2, PendingAsks
    <3> QED BY <2>1, <3>1, <3>2
  <2> QED BY <1>1, <2>1, <2>2 DEF Kept, AttestedOnRecord, ArchivedStaysArchived, MarkIsCurrent,
                                  DocumentsWithinLimit
<1>5. ASSUME Revoked(r) PROVE Kept'
  <2>1. target' # "attested" /\ (target' = "none" <=> target = "none") /\ ~onRecord'
    BY <1>5 DEF Revoked
  <2>2. ASSUME NEW q \in PjRequests PROVE PendingOK(q)'
    <3>1. CASE q = r
      <4>1. asked'[q].at = "silent"
        BY <1>5, <3>1 DEF Revoked, Silent
      <4> QED BY <4>1, PendingFresh
    <3>2. CASE q # r
      <4>1. asked'[q] = [asked[q] EXCEPT !.stale = asked[q].stale \/ asked[q].at = "attest"]
        BY <1>5, <3>2 DEF Revoked
      <4>2. /\ asked'[q].at = asked[q].at /\ asked'[q].status = asked[q].status
            /\ asked'[q].stale = (asked[q].stale \/ asked[q].at = "attest")
        BY <1>0, <4>1 DEF Asked
      <4>3. /\ asked[q].stale => asked'[q].stale
            /\ asked[q].at = "attest" => asked'[q].stale
        BY <4>2
      <4>4. PendingOK(q) /\ documents' \in Nat /\ documents' <= documents
        BY <1>0, <1>1 DEF Kept
      <4> QED BY <1>1, <2>1, <4>2, <4>3, <4>4, PendingStays
    <3> QED BY <3>1, <3>2
  <2> QED BY <1>1, <2>1, <2>2 DEF Kept, GoneOK, AttestedOnRecord, ArchivedStaysArchived, MarkIsCurrent,
                                  DocumentsWithinLimit
<1> QED BY <1>2, <1>3, <1>4, <1>5 DEF PjTargetStep, RevokeTarget, AdminRevokeTarget

(* The documents: who counted them, and was not overtaken, has room for one.      *)
LEMMA DocumentsKeep ==
  ASSUME PjTypeOK, Kept, NEW r \in PjRequests, PjDocumentStep(r) \/ PjCutShort(r), ~overrun'
  PROVE  Kept'
<1>0. asked \in [PjRequests -> Asked] /\ documents \in Nat
  BY DEF PjTypeOK, Asked
<1> USE DEF RepositoryVars, TargetVars
<1>1. CASE CountDocuments(r)
  <2>1. [asked[r] EXCEPT !.at = "document"].at = "document"
    BY <1>0 DEF Asked
  <2>2. asked' = [asked EXCEPT ![r] = [asked[r] EXCEPT !.at = "document"]]
    BY <1>1 DEF CountDocuments, Starts
  <2>3. documents < MaxDocuments
    BY <1>1 DEF CountDocuments, Room
  <2>4. PendingOK(r)'
    BY <1>0, <1>1, <2>1, <2>2, <2>3 DEF CountDocuments, PendingOK
  <2>5. GoneOK' /\ \A q \in PjRequests : PendingOK(q)'
    BY <1>1, <2>2, <2>4, PendingAsks DEF CountDocuments
  <2> QED BY <1>1, <2>5 DEF CountDocuments, Kept, AttestedOnRecord, ArchivedStaysArchived,
                            MarkIsCurrent, DocumentsWithinLimit
<1>2. CASE CreateDocument(r)
  <2>1. ~asked[r].stale /\ asked[r].at = "document" /\ Writes(r, {"document"}, Silent)
    BY <1>2 DEF CreateDocument, Writes
  <2>2. documents < MaxDocuments
    BY <2>1 DEF Kept, PendingOK
  <2>3. /\ UNCHANGED <<project, archived, repository, vouched, target, onRecord>>
        /\ documents' = IF project = "absent" THEN 0 ELSE documents + 1
    BY <1>2 DEF CreateDocument
  <2>4. documents' \in Nat /\ documents' <= MaxDocuments
    BY <1>0, <2>2, <2>3, ProjectsAssumption
  <2>5. \A q \in PjRequests : PendingOK(q)'
    BY <2>1, <2>3, <2>4, PendingWrites
  <2> QED BY <2>3, <2>4, <2>5 DEF Kept, GoneOK, AttestedOnRecord, ArchivedStaysArchived,
                            MarkIsCurrent, DocumentsWithinLimit
<1>3. CASE PjCutShort(r)
  <2>1. asked' = [asked EXCEPT ![r] = Silent] /\ Silent.at = "silent"
    BY <1>3 DEF PjCutShort, Silent
  <2>2. GoneOK' /\ \A q \in PjRequests : PendingOK(q)'
    BY <1>3, <2>1, PendingAsks DEF PjCutShort
  <2> QED BY <1>3, <2>2 DEF PjCutShort, Kept, AttestedOnRecord, ArchivedStaysArchived, MarkIsCurrent,
                            DocumentsWithinLimit
<1> QED BY <1>1, <1>2, <1>3 DEF PjDocumentStep

(* What happens without a request that waits.                                  *)
LEMMA OthersKeep ==
  ASSUME PjTypeOK, Kept,
         \/ RegisterTarget \/ DeleteDocument
         \/ \E t \in PersonalTokens : RefuseToken(t)
         \/ \E t \in PersonalTokens \cup {NoToken} : StoreCredential(t)
  PROVE  Kept'
<1> USE DEF RepositoryVars, TargetVars
<1>1. /\ UNCHANGED <<project, archived, repository, vouched, onRecord, asked>>
      /\ target' = target \/ (target = "none" /\ target' = "awaiting" /\ project # "absent")
      /\ documents' = documents \/ (documents > 0 /\ documents' = documents - 1)
  <2>1. CASE RegisterTarget
    BY <2>1 DEF RegisterTarget
  <2>2. CASE DeleteDocument
    BY <2>2 DEF DeleteDocument
  <2>3. CASE (\E t \in PersonalTokens : RefuseToken(t)) \/ \E t \in PersonalTokens \cup {NoToken} : StoreCredential(t)
    BY <2>3 DEF RefuseToken, StoreCredential
  <2> QED BY <2>1, <2>2, <2>3
<1>2. documents' \in Nat /\ documents' <= documents /\ documents \in Nat /\ MaxDocuments \in Nat
  BY <1>1, ProjectsAssumption DEF PjTypeOK
<1>3. \A q \in PjRequests : PendingOK(q)'
  BY <1>1, <1>2, PendingStays DEF Kept
<1> QED BY <1>1, <1>2, <1>3 DEF Kept, GoneOK, AttestedOnRecord, ArchivedStaysArchived, MarkIsCurrent,
                            DocumentsWithinLimit

-----------------------------------------------------------------------------
(***************************************************************************)
(* Theorems                                                                *)
(***************************************************************************)

(* The invariant is inductive.                                                 *)
THEOREM ProjectsInductive == PjSpec => []PjInv
<1>1. PjInit => PjInv
  <2> SUFFICES ASSUME PjInit PROVE PjInv
    OBVIOUS
  <2>1. PjTypeOK
    <3>1. asked \in [PjRequests -> Asked]
      BY SilentIsAsked DEF PjInit
    <3>2. RowsOK
      BY ProjectsAssumption DEF PjInit, RowsOK
    <3>3. MarksOK
      BY DEF PjInit, MarksOK
    <3> QED BY <3>1, <3>2, <3>3 DEF PjTypeOK, RowsOK, MarksOK, Asked
  <2>2. Kept
    BY ProjectsAssumption
       DEF PjInit, Kept, GoneOK, PendingOK, Silent, AttestedOnRecord, ArchivedStaysArchived,
           MarkIsCurrent, DocumentsWithinLimit
  <2> QED BY <2>1, <2>2 DEF PjInv
<1>2. PjInv /\ [PjNext]_PjVars => PjInv'
  <2> SUFFICES ASSUME PjInv, [PjNext]_PjVars PROVE PjInv'
    OBVIOUS
  <2>1. CASE PjNext
    <3>1. overrun => overrun'
      BY <2>1
         DEF PjNext, PjRowStep, CreateProject, FirstAttachFails, DeleteProject, WriteProject,
             ReadProject, Writes, PjRepositoryStep, ReadForAttach, UpsertRepository, GetCloneInfo,
             ShallowClone, MarkCredentialInvalid, ValidateRepository, PjTargetStep, Attest, SetFlag,
             RevokeTarget, AdminRevokeTarget, Revoked, PjDocumentStep, CountDocuments,
             CreateDocument, PjCutShort, RegisterTarget, DeleteDocument, RefuseToken, StoreCredential
    <3>2. PjTypeOK /\ PjTypeOK'
      BY <2>1, PjTypesNext DEF PjInv
    <3>3. ASSUME ~overrun' PROVE Kept'
      <4>1. Kept
        BY <3>1, <3>3 DEF PjInv
      <4> QED BY <2>1, <3>2, <3>3, <4>1, RowKeeps, RepositoryKeeps, TargetKeeps, DocumentsKeep,
                 OthersKeep DEF PjNext
    <3> QED BY <3>2, <3>3 DEF PjInv
  <2>2. CASE UNCHANGED PjVars
    BY <2>2 DEF PjVars, RepositoryVars, TargetVars, PjInv, PjTypeOK, Kept, GoneOK, PendingOK,
                AttestedOnRecord, ArchivedStaysArchived, MarkIsCurrent, DocumentsWithinLimit
  <2> QED BY <2>1, <2>2
<1> QED BY <1>1, <1>2, PTL DEF PjSpec

(* Every variable has its type.                                                *)
THEOREM ProjectsTypes == PjSpec => []PjTypeOK
<1>1. PjInv => PjTypeOK
  BY DEF PjInv
<1> QED BY <1>1, ProjectsInductive, PTL

(* A target is attested only with a record, an archived project stays archived,
   the mark of a refused credential is current and the documents are within their
   limit, until a request writes what it made of rows another has changed (no
   method of project/service.go holds a transaction): the property
   OnlyAStaleReadUndoes of the run requests.                                    *)
THEOREM StaleReadsAlone == PjSpec => []OnlyAStaleReadUndoes
<1>1. PjInv => OnlyAStaleReadUndoes
  BY DEF PjInv, Kept, OnlyAStaleReadUndoes
<1> QED BY <1>1, ProjectsInductive, PTL

-----------------------------------------------------------------------------
(***************************************************************************)
(* Members and invites.                                                    *)
(*                                                                         *)
(* Two requests that change a role each look for another admin before they *)
(* write: until one of them is overtaken, whoever has looked still leaves  *)
(* an admin (LeavesOne).  An invite is read, then written without another  *)
(* look: until two requests are at the same one, the one that is still     *)
(* finds it as it read it, and every account created from an invite is     *)
(* about to close it, has closed it or was cut short (InviteOK).           *)
(***************************************************************************)

Requests ==
    [at : {"quiet", "role", "invite", "join", "mark", "close"}, about : Members \cup Invites,
     to : Roles \cup Statuses, stale : BOOLEAN]

MbTypes ==
    /\ role \in [Members -> Roles] /\ invite \in [Invites -> Statuses]
    /\ request \in [MbRequests -> Requests]
    /\ \A r \in MbRequests :
         IF request[r].at = "role" THEN request[r].about \in Members /\ request[r].to \in Roles
         ELSE request[r].at # "quiet" =>
                request[r].about \in Invites /\ request[r].to \in Statuses
    /\ overtaken \in BOOLEAN /\ mbFaults \in Nat

\* Who has looked that an admin is left, and was not overtaken, still leaves one.
LeavesOne ==
    \A r \in MbRequests :
        request[r].at = "role" /\ request[r].to # "admin" /\ ~request[r].stale
          => Admins \ {request[r].about} # {}
AdminsOK == IsFiniteSet(Admins) /\ (overtaken \/ (Admins # {} /\ LeavesOne))

\* Is request r about invite i, and what does that say of the invite?
IsAbout(r, i) == request[r].at \in {"invite", "join", "mark", "close"} /\ request[r].about = i
Expected(r, i) ==
    /\ request[r].at = "invite" => invite[i] = "none" /\ request[r].to = "pending"
    /\ request[r].at = "join" => invite[i] = "pending" /\ request[r].to = "accepted"
    /\ request[r].at = "mark" => i \in used /\ request[r].to = "accepted"
    /\ request[r].at = "close" => /\ invite[i] = "pending"
                                  /\ request[r].to \in {"declined", "revoked", "expired"}

\* An invite nobody raced for has one request at a time, which still finds it as it
\* read it.
InviteOK(i) ==
    /\ \A q, r \in MbRequests : IsAbout(q, i) /\ IsAbout(r, i) => q = r
    /\ \A r \in MbRequests : IsAbout(r, i) => Expected(r, i)
    /\ invite[i] = "accepted" => i \in used
    /\ i \in used => \/ invite[i] = "accepted" \/ mbFaults > 0
                     \/ \E r \in MbRequests : IsAbout(r, i) /\ request[r].at = "mark"
InvitesOK == \A i \in OrgInvites : i \notin raced => InviteOK(i)

MbInv == MbTypes /\ AdminsOK /\ InvitesOK

LEMMA QuietOK == Quiet \in Requests /\ Quiet.at = "quiet"
BY DEF Quiet, Requests, Members, Roles

(* An invite the step is not about. *)
LEMMA InviteStays ==
  ASSUME MbInv, NEW i \in OrgInvites, i \notin raced, invite'[i] = invite[i],
         i \in used <=> i \in used', mbFaults' \in Nat, mbFaults' >= mbFaults,
         \A r \in MbRequests :
           \/ /\ request'[r].at = request[r].at /\ request'[r].about = request[r].about
              /\ request'[r].to = request[r].to
           \/ ~IsAbout(r, i) /\ ~IsAbout(r, i)'
  PROVE  InviteOK(i)'
<1>1. InviteOK(i) /\ mbFaults \in Nat
  BY DEF MbInv, InvitesOK, MbTypes
<1>2. \A r \in MbRequests : IsAbout(r, i)' => IsAbout(r, i) /\ request'[r].at = request[r].at
                                             /\ request'[r].to = request[r].to
  BY DEF IsAbout
<1>3. \A r \in MbRequests : IsAbout(r, i) => IsAbout(r, i)' /\ request'[r].at = request[r].at
  BY DEF IsAbout
<1>4. (\A q, r \in MbRequests : IsAbout(q, i) /\ IsAbout(r, i) => q = r)'
  BY <1>1, <1>2 DEF InviteOK
<1>5. (\A r \in MbRequests : IsAbout(r, i) => Expected(r, i))'
  BY <1>1, <1>2 DEF InviteOK, Expected
<1>6. (i \in used => \/ invite[i] = "accepted" \/ mbFaults > 0
                     \/ \E r \in MbRequests : IsAbout(r, i) /\ request[r].at = "mark")'
  BY <1>1, <1>3 DEF InviteOK
<1>7. (invite[i] = "accepted" => i \in used)'
  BY <1>1 DEF InviteOK
<1> QED BY <1>4, <1>5, <1>6, <1>7 DEF InviteOK

(* The admins, where no role changes and no request looks at them. *)
LEMMA AdminsStay ==
  ASSUME MbInv, UNCHANGED <<role, overtaken>>,
         \A r \in MbRequests : request'[r].at = "role" =>
           /\ request[r].at = "role" /\ request'[r].about = request[r].about
           /\ request'[r].to = request[r].to /\ (request[r].stale => request'[r].stale)
  PROVE  AdminsOK'
<1>1. Admins' = Admins
  BY DEF Admins
<1>2. LeavesOne => LeavesOne'
  BY <1>1 DEF LeavesOne
<1> QED BY <1>1, <1>2 DEF MbInv, AdminsOK

(* A request that begins: the others are as they were. *)
LEMMA Begins ==
  ASSUME MbInv, NEW r \in MbRequests,
         NEW at \in {"quiet", "role", "invite", "join", "mark", "close"},
         NEW about \in Members \cup Invites, NEW to \in Roles \cup Statuses,
         Begin(r, at, about, to)
  PROVE  /\ request[r] = Quiet /\ request' \in [MbRequests -> Requests]
         /\ request'[r].at = at /\ request'[r].about = about /\ request'[r].to = to
         /\ ~request'[r].stale
         /\ \A q \in MbRequests \ {r} : request'[q] = request[q]
<1> DEFINE d == [at |-> at, about |-> about, to |-> to, stale |-> FALSE]
<1>1. d \in Requests /\ d.at = at /\ d.about = about /\ d.to = to /\ ~d.stale
  BY DEF Requests
<1>2. request[r] = Quiet /\ request' = [request EXCEPT ![r] = d]
  BY DEF Begin
<1> HIDE DEF d
<1> QED BY <1>1, <1>2 DEF MbInv, MbTypes

LEMMA CheckChangeKeeps ==
  ASSUME MbInv, NEW r \in MbRequests, NEW u \in Members, NEW new \in Roles,
         CheckChange(r, u, new)
  PROVE  MbInv'
<1>1. /\ request[r] = Quiet /\ request' \in [MbRequests -> Requests]
      /\ request'[r].at = "role" /\ request'[r].about = u /\ request'[r].to = new
      /\ \A q \in MbRequests \ {r} : request'[q] = request[q]
  BY Begins DEF CheckChange
<1>2. UNCHANGED <<role, shared, invite, late, used, raced, overtaken, mbFaults>>
      /\ (role[u] = "admin" => Cardinality(Admins) > 1)
  BY DEF CheckChange, LeavesAnAdmin
<1>3. ASSUME NEW i \in OrgInvites, i \notin raced PROVE InviteOK(i)'
  <2>1. ~IsAbout(r, i) /\ ~IsAbout(r, i)'
    BY <1>1, QuietOK DEF IsAbout
  <2> QED BY <1>1, <1>2, <1>3, <2>1, InviteStays DEF MbInv, MbTypes
<1>4. Admins' = Admins
  BY <1>2 DEF Admins
<1>5. IsFiniteSet(Admins) /\ Admins # {} => Admins \ {u} # {}
  <2> SUFFICES ASSUME IsFiniteSet(Admins), Admins # {}, Admins \ {u} = {} PROVE FALSE
    OBVIOUS
  <2>1. Admins = {u}
    OBVIOUS
  <2>2. Cardinality(Admins) = 1
    BY <2>1, FS_Singleton, Zenon
  <2>3. role[u] = "admin"
    BY <2>1 DEF Admins
  <2> QED BY <1>2, <2>2, <2>3
<1>6. AdminsOK'
  <2>1. LeavesOne /\ IsFiniteSet(Admins) /\ Admins # {} => LeavesOne'
    BY <1>1, <1>4, <1>5 DEF LeavesOne
  <2> QED BY <1>2, <1>4, <2>1 DEF MbInv, AdminsOK
<1>7. MbTypes' /\ InvitesOK'
  BY <1>1, <1>2, <1>3 DEF MbInv, MbTypes, InvitesOK
<1> QED BY <1>6, <1>7 DEF MbInv

(* UpdateMemberRole and RemoveMember: whoever looked before is stale from then on. *)
LEMMA WriteChangeKeeps ==
  ASSUME MbInv, NEW r \in MbRequests, WriteChange(r)
  PROVE  MbInv'
<1>1. request[r].at = "role" /\ request[r].about \in Members /\ request[r].to \in Roles
  BY DEF WriteChange, MbInv, MbTypes
<1>2. PICK u \in Members, new \in Roles : u = request[r].about /\ new = request[r].to
  BY <1>1
<1>3. PICK takes \in BOOLEAN : takes <=> role[u] = "admin" /\ new # "admin"
  OBVIOUS
<1>4. /\ role' = IF role[u] = "none" THEN role ELSE [role EXCEPT ![u] = new]
      /\ request' = [q \in MbRequests |->
                       IF q = r \/ request[q] = Quiet THEN Quiet
                       ELSE [request[q] EXCEPT !.stale = @ \/ (role[u] = "admin" /\ new # "admin")]]
      /\ overtaken' = (overtaken \/ (takes /\ request[r].stale))
      /\ UNCHANGED <<shared, invite, late, used, raced, mbFaults>>
  BY <1>2, <1>3 DEF WriteChange
<1>5. \A q \in MbRequests :
        \/ /\ (q = r \/ request[q] = Quiet) /\ request'[q] = Quiet
        \/ /\ q # r /\ request'[q].at = request[q].at /\ request'[q].about = request[q].about
           /\ request'[q].to = request[q].to /\ request'[q].stale = (request[q].stale \/ takes)
  BY <1>3, <1>4 DEF MbInv, MbTypes, Requests
<1>6. request' \in [MbRequests -> Requests]
  BY <1>4, QuietOK DEF MbInv, MbTypes, Requests
<1>7. role' \in [Members -> Roles]
  BY <1>4 DEF MbInv, MbTypes
<1>8. overtaken' \in BOOLEAN
  BY <1>4, Zenon
<1>9. MbTypes'
  <2>1. (\A q \in MbRequests :
          IF request[q].at = "role" THEN request[q].about \in Members /\ request[q].to \in Roles
          ELSE request[q].at # "quiet" =>
                 request[q].about \in Invites /\ request[q].to \in Statuses)'
    BY <1>5, QuietOK DEF MbInv, MbTypes
  <2> QED BY <1>4, <1>6, <1>7, <1>8, <2>1 DEF MbInv, MbTypes
<1>10. ASSUME NEW i \in OrgInvites, i \notin raced PROVE InviteOK(i)'
  <2>1. \A q \in MbRequests :
          \/ /\ request'[q].at = request[q].at /\ request'[q].about = request[q].about
             /\ request'[q].to = request[q].to
          \/ ~IsAbout(q, i) /\ ~IsAbout(q, i)'
    BY <1>1, <1>5, QuietOK DEF IsAbout
  <2> QED BY <1>4, <1>10, <2>1, InviteStays DEF MbInv, MbTypes
<1>11. AdminsOK'
  <2>1. CASE takes
    <3>1. Admins' = Admins \ {u}
      BY <1>3, <1>4, <2>1 DEF Admins, MbInv, MbTypes
    <3>2. IsFiniteSet(Admins')
      BY <3>1, FS_RemoveElement DEF MbInv, AdminsOK
    <3>3. ASSUME ~overtaken' PROVE Admins' # {}
      BY <1>1, <1>2, <1>3, <1>4, <2>1, <3>1, <3>3 DEF MbInv, AdminsOK, LeavesOne
    <3>4. LeavesOne'
      BY <1>5, <2>1, QuietOK DEF LeavesOne
    <3> QED BY <3>2, <3>3, <3>4 DEF AdminsOK
  <2>2. CASE ~takes
    <3>1. Admins' = Admins \/ Admins' = Admins \cup {u}
      BY <1>3, <1>4, <2>2 DEF Admins, MbInv, MbTypes
    <3>2. IsFiniteSet(Admins')
      BY <3>1, FS_AddElement DEF MbInv, AdminsOK
    <3>3. LeavesOne => LeavesOne'
      BY <1>5, <2>2, <3>1, QuietOK DEF LeavesOne
    <3>4. overtaken' = overtaken
      BY <1>4, <2>2 DEF MbInv, MbTypes
    <3> QED BY <3>1, <3>2, <3>3, <3>4 DEF MbInv, AdminsOK
  <2> QED BY <2>1, <2>2
<1>12. InvitesOK'
  BY <1>4, <1>10 DEF InvitesOK
<1> QED BY <1>9, <1>11, <1>12 DEF MbInv

(* A request about an invite begins, and if it is not the only one the invite is  *)
(* raced for.                                                                     *)
LEMMA BeginsAbout ==
  ASSUME MbInv, NEW r \in MbRequests, NEW at \in {"invite", "join", "close"},
         NEW i \in Invites, NEW to \in Statuses, BeginAbout(r, at, i, to),
         at = "invite" => invite[i] = "none" /\ to = "pending",
         at = "join" => invite[i] = "pending" /\ to = "accepted",
         at = "close" /\ i \in OrgInvites =>
           invite[i] = "pending" /\ to \in {"declined", "revoked", "expired"},
         UNCHANGED <<role, shared, invite, late, used, overtaken, mbFaults>>
  PROVE  MbInv'
<1>1. Begin(r, at, i, to)
  BY DEF BeginAbout
<1>2. /\ request[r] = Quiet /\ request' \in [MbRequests -> Requests]
      /\ request'[r].at = at /\ request'[r].about = i /\ request'[r].to = to
      /\ \A q \in MbRequests \ {r} : request'[q] = request[q]
  BY <1>1, Begins
<1>3. raced \subseteq raced'
      /\ (i \notin raced' => \A q \in MbRequests : request[q].at = "quiet" \/ request[q].about # i)
  BY DEF BeginAbout
<1>4. MbTypes'
  BY <1>2 DEF MbInv, MbTypes
<1>5. AdminsOK'
  BY <1>2, AdminsStay
<1>6. ASSUME NEW k \in OrgInvites, k \notin raced' PROVE InviteOK(k)'
  <2>1. CASE k # i
    <3>1. ~IsAbout(r, k) /\ ~IsAbout(r, k)'
      BY <1>2, <2>1, QuietOK DEF IsAbout
    <3> QED BY <1>2, <1>3, <1>6, <3>1, InviteStays DEF MbInv, MbTypes
  <2>2. CASE k = i
    <3>1. \A q \in MbRequests : ~IsAbout(q, i)
      BY <1>3, <1>6, <2>2 DEF IsAbout
    <3>2. InviteOK(i)
      BY <1>3, <1>6, <2>2 DEF MbInv, InvitesOK
    <3>3. \A q \in MbRequests : IsAbout(q, i)' => q = r
      BY <1>2, <3>1 DEF IsAbout
    <3>4. Expected(r, i)'
      BY <1>2, <1>6, <2>2 DEF Expected
    <3>5. i \in used' => invite'[i] = "accepted" \/ mbFaults' > 0
      BY <3>1, <3>2 DEF InviteOK
    <3>6. invite'[i] = "accepted" => i \in used'
      BY <3>2 DEF InviteOK
    <3>7. InviteOK(i)'
      BY <3>3, <3>4, <3>5, <3>6 DEF InviteOK
    <3> QED BY <2>2, <3>7
  <2> QED BY <2>1, <2>2
<1>7. InvitesOK'
  BY <1>6 DEF InvitesOK
<1> QED BY <1>4, <1>5, <1>7 DEF MbInv

LEMMA CheckInviteKeeps ==
  ASSUME MbInv, NEW r \in MbRequests, NEW i \in Invites, CheckInvite(r, i)
  PROVE  MbInv'
<1>1. invite[i] = "none" /\ BeginAbout(r, "invite", i, "pending")
      /\ UNCHANGED <<role, shared, invite, late, used, overtaken, mbFaults>>
  BY DEF CheckInvite
<1> QED BY <1>1, BeginsAbout DEF Statuses

LEMMA CheckAcceptKeeps ==
  ASSUME MbInv, NEW r \in MbRequests, NEW i \in Invites, CheckAccept(r, i)
  PROVE  MbInv'
<1>1. invite[i] = "pending" /\ BeginAbout(r, "join", i, "accepted")
      /\ UNCHANGED <<role, shared, invite, late, used, overtaken, mbFaults>>
  BY DEF CheckAccept
<1> QED BY <1>1, BeginsAbout DEF Statuses

LEMMA CheckCloseKeeps ==
  ASSUME MbInv, NEW r \in MbRequests, NEW i \in Invites, NEW to \in Statuses,
         CheckClose(r, i, to)
  PROVE  MbInv'
<1>1. to \in {"declined", "revoked", "expired"} /\ BeginAbout(r, "close", i, to)
      /\ UNCHANGED <<role, shared, invite, late, used, overtaken, mbFaults>>
      /\ (i \in OrgInvites => invite[i] = "pending")
  BY MembersAssumption DEF CheckClose, Closable
<1> QED BY <1>1, BeginsAbout

(* AcceptInvite lets somebody in who was not in, so it makes no admin less. *)
LEMMA JoinKeeps ==
  ASSUME MbInv, NEW r \in MbRequests, Join(r)
  PROVE  MbInv'
<1>1. request[r].at = "join" /\ request[r].about \in Invites /\ request[r] \in Requests
  BY DEF Join, MbInv, MbTypes
<1>2. PICK i \in Invites : i = request[r].about
  BY <1>1
<1>3. UNCHANGED <<invite, late, raced, overtaken, mbFaults>>
      /\ \/ /\ request' = [request EXCEPT ![r] = Quiet]
            /\ UNCHANGED <<role, shared, used>>
         \/ /\ ~IsIn(i) /\ request' = [request EXCEPT ![r].at = "mark"]
            /\ role' = IF i \in OrgInvites THEN [role EXCEPT ![Invitee[i]] = "member"] ELSE role
            /\ used' = used \cup {i}
  BY <1>2 DEF Join
<1>4. CASE request' = [request EXCEPT ![r] = Quiet] /\ UNCHANGED <<role, shared, used>>
  <2>1. \A q \in MbRequests : request'[q] = IF q = r THEN Quiet ELSE request[q]
    BY <1>4 DEF MbInv, MbTypes
  <2>2. request' \in [MbRequests -> Requests]
    BY <1>4, QuietOK DEF MbInv, MbTypes
  <2>3. MbTypes'
    BY <1>3, <1>4, <2>1, <2>2, QuietOK DEF MbInv, MbTypes
  <2>4. AdminsOK'
    BY <1>3, <1>4, <2>1, QuietOK, AdminsStay
  <2>5. ASSUME NEW k \in OrgInvites, k \notin raced PROVE InviteOK(k)'
    <3>1. InviteOK(k)
      BY <2>5 DEF MbInv, InvitesOK
    <3>2. \A q \in MbRequests : IsAbout(q, k)' => IsAbout(q, k) /\ request'[q] = request[q]
      BY <2>1, QuietOK DEF IsAbout
    <3>3. \A q \in MbRequests : IsAbout(q, k) /\ request[q].at = "mark" =>
            IsAbout(q, k)' /\ request'[q].at = "mark"
      BY <1>1, <2>1 DEF IsAbout
    <3>4. (\A q, t \in MbRequests : IsAbout(q, k) /\ IsAbout(t, k) => q = t)'
      BY <3>1, <3>2 DEF InviteOK
    <3>5. (\A q \in MbRequests : IsAbout(q, k) => Expected(q, k))'
      BY <1>3, <1>4, <3>1, <3>2 DEF InviteOK, Expected
    <3>6. (/\ invite[k] = "accepted" => k \in used
           /\ k \in used => \/ invite[k] = "accepted" \/ mbFaults > 0
                            \/ \E q \in MbRequests : IsAbout(q, k) /\ request[q].at = "mark")'
      BY <1>3, <1>4, <3>1, <3>3 DEF InviteOK
    <3> QED BY <3>4, <3>5, <3>6 DEF InviteOK
  <2>6. InvitesOK'
    BY <1>3, <2>5 DEF InvitesOK
  <2> QED BY <2>3, <2>4, <2>6 DEF MbInv
<1>5. CASE /\ ~IsIn(i) /\ request' = [request EXCEPT ![r].at = "mark"]
           /\ role' = IF i \in OrgInvites THEN [role EXCEPT ![Invitee[i]] = "member"] ELSE role
           /\ used' = used \cup {i}
  <2>1. \A q \in MbRequests : IF q = r THEN /\ request'[q].at = "mark" /\ request'[q].about = i
                                           /\ request'[q].to = request[q].to
                              ELSE request'[q] = request[q]
    BY <1>1, <1>2, <1>5 DEF MbInv, MbTypes, Requests
  <2>2. request' \in [MbRequests -> Requests]
    BY <1>1, <1>5 DEF MbInv, MbTypes, Requests
  <2>3. role' \in [Members -> Roles]
    BY <1>5 DEF MbInv, MbTypes, Roles
  <2>4. MbTypes'
    <3>1. request[r].to \in Statuses
      BY <1>1 DEF MbInv, MbTypes
    <3> QED BY <1>3, <2>1, <2>2, <2>3, <3>1 DEF MbInv, MbTypes
  <2>5. AdminsOK'
    <3>1. Admins' = Admins
      BY <1>5, MembersAssumption DEF Admins, IsIn, MbInv, MbTypes, Members, Invites
    <3>2. LeavesOne => LeavesOne'
      BY <2>1, <3>1 DEF LeavesOne
    <3> QED BY <1>3, <3>1, <3>2 DEF MbInv, AdminsOK
  <2>6. ASSUME NEW k \in OrgInvites, k \notin raced PROVE InviteOK(k)'
    <3>1. CASE k # i
      <4>1. ~IsAbout(r, k) /\ ~IsAbout(r, k)'
        BY <1>2, <2>1, <3>1 DEF IsAbout
      <4> QED BY <1>3, <1>5, <2>1, <2>6, <3>1, <4>1, InviteStays DEF MbInv, MbTypes
    <3>2. CASE k = i
      <4>1. InviteOK(i)
        BY <2>6, <3>2 DEF MbInv, InvitesOK
      <4>2. IsAbout(r, i) /\ \A q \in MbRequests : IsAbout(q, i) => q = r
        BY <1>1, <1>2, <4>1 DEF InviteOK, IsAbout
      <4>3. Expected(r, i) /\ invite[i] = "pending" /\ request[r].to = "accepted"
        BY <1>1, <4>1, <4>2 DEF InviteOK, Expected
      <4>4. \A q \in MbRequests : IsAbout(q, i)' => q = r
        BY <2>1, <4>2 DEF IsAbout
      <4>5. Expected(r, i)' /\ IsAbout(r, i)' /\ request'[r].at = "mark"
        BY <1>3, <1>5, <2>1, <4>3 DEF Expected, IsAbout
      <4>6. InviteOK(i)'
        BY <1>3, <1>5, <4>3, <4>4, <4>5 DEF InviteOK
      <4> QED BY <3>2, <4>6
    <3> QED BY <3>1, <3>2
  <2>7. InvitesOK'
    BY <1>3, <2>6 DEF InvitesOK
  <2> QED BY <2>4, <2>5, <2>7 DEF MbInv
<1> QED BY <1>3, <1>4, <1>5

(* SetStatus: whatever the status has become meanwhile, unless nobody raced. *)
LEMMA WriteStatusKeeps ==
  ASSUME MbInv, NEW r \in MbRequests, WriteStatus(r)
  PROVE  MbInv'
<1>1. request[r].at \in {"invite", "mark", "close"} /\ request[r].about \in Invites
      /\ request[r].to \in Statuses
  BY DEF WriteStatus, MbInv, MbTypes
<1>2. PICK i \in Invites, to \in Statuses : i = request[r].about /\ to = request[r].to
  BY <1>1
<1>3. invite' = [invite EXCEPT ![i] = to] /\ request' = [request EXCEPT ![r] = Quiet]
      /\ UNCHANGED <<role, shared, late, used, raced, overtaken, mbFaults>>
  BY <1>2 DEF WriteStatus
<1>4. \A q \in MbRequests : request'[q] = IF q = r THEN Quiet ELSE request[q]
  BY <1>3 DEF MbInv, MbTypes
<1>5. \A k \in Invites : invite'[k] = IF k = i THEN to ELSE invite[k]
  BY <1>3 DEF MbInv, MbTypes
<1>6. request' \in [MbRequests -> Requests] /\ invite' \in [Invites -> Statuses]
  BY <1>3, QuietOK DEF MbInv, MbTypes
<1>7. MbTypes'
  BY <1>3, <1>4, <1>6, QuietOK DEF MbInv, MbTypes
<1>8. AdminsOK'
  BY <1>3, <1>4, QuietOK, AdminsStay
<1>9. ASSUME NEW k \in OrgInvites, k \notin raced PROVE InviteOK(k)'
  <2>1. CASE k # i
    <3>1. ~IsAbout(r, k) /\ ~IsAbout(r, k)'
      BY <1>2, <1>4, <2>1, QuietOK DEF IsAbout
    <3>2. invite'[k] = invite[k]
      BY <1>5, <2>1 DEF Invites
    <3> QED BY <1>3, <1>4, <1>9, <3>1, <3>2, InviteStays DEF MbInv, MbTypes
  <2>2. CASE k = i
    <3>1. InviteOK(i)
      BY <1>9, <2>2 DEF MbInv, InvitesOK
    <3>2. IsAbout(r, i) /\ \A q \in MbRequests : IsAbout(q, i) => q = r
      BY <1>1, <1>2, <3>1 DEF InviteOK, IsAbout
    <3>3. Expected(r, i)
      BY <3>1, <3>2 DEF InviteOK
    <3>4. \A q \in MbRequests : ~IsAbout(q, i)'
      BY <1>4, <3>2, QuietOK DEF IsAbout
    <3>5. to = "accepted" => i \in used
      BY <1>1, <1>2, <3>3 DEF Expected
    <3>6. i \in used => to = "accepted" \/ mbFaults > 0
      BY <1>1, <1>2, <3>1, <3>2, <3>3 DEF Expected, InviteOK
    <3>7. InviteOK(i)'
      BY <1>3, <1>5, <3>4, <3>5, <3>6 DEF InviteOK
    <3> QED BY <2>2, <3>7
  <2> QED BY <2>1, <2>2
<1>10. InvitesOK'
  BY <1>3, <1>9 DEF InvitesOK
<1> QED BY <1>7, <1>8, <1>10 DEF MbInv

LEMMA CutShortKeeps ==
  ASSUME MbInv, NEW r \in MbRequests, CutShort(r)
  PROVE  MbInv'
<1>1. request' = [request EXCEPT ![r] = Quiet] /\ mbFaults' = mbFaults + 1
      /\ UNCHANGED <<role, shared, invite, late, used, raced, overtaken>>
  BY DEF CutShort
<1>2. \A q \in MbRequests : request'[q] = IF q = r THEN Quiet ELSE request[q]
  BY <1>1 DEF MbInv, MbTypes
<1>3. mbFaults' \in Nat /\ mbFaults' > 0
  BY <1>1 DEF MbInv, MbTypes
<1>4. request' \in [MbRequests -> Requests]
  BY <1>1, QuietOK DEF MbInv, MbTypes
<1>5. MbTypes'
  BY <1>1, <1>2, <1>3, <1>4, QuietOK DEF MbInv, MbTypes
<1>6. AdminsOK'
  BY <1>1, <1>2, QuietOK, AdminsStay
<1>7. ASSUME NEW k \in OrgInvites, k \notin raced PROVE InviteOK(k)'
  <2>1. InviteOK(k)
    BY <1>7 DEF MbInv, InvitesOK
  <2>2. \A q \in MbRequests : IsAbout(q, k)' => IsAbout(q, k) /\ request'[q] = request[q]
    BY <1>2, QuietOK DEF IsAbout
  <2>3. (\A q, t \in MbRequests : IsAbout(q, k) /\ IsAbout(t, k) => q = t)'
    BY <2>1, <2>2 DEF InviteOK
  <2>4. (\A q \in MbRequests : IsAbout(q, k) => Expected(q, k))'
    BY <1>1, <2>1, <2>2 DEF InviteOK, Expected
  <2>5. (invite[k] = "accepted" => k \in used)'
    BY <1>1, <2>1 DEF InviteOK
  <2> QED BY <1>3, <2>3, <2>4, <2>5 DEF InviteOK
<1>8. InvitesOK'
  BY <1>1, <1>7 DEF InvitesOK
<1> QED BY <1>5, <1>6, <1>8 DEF MbInv

LEMMA MembersStay ==
  ASSUME MbInv, UNCHANGED <<role, invite, request, used, raced, overtaken, mbFaults>>
  PROVE  MbInv'
<1>1. MbTypes'
  BY DEF MbInv, MbTypes
<1>2. AdminsOK'
  BY AdminsStay
<1>3. ASSUME NEW k \in OrgInvites, k \notin raced PROVE InviteOK(k)'
  BY <1>3, InviteStays DEF MbInv, MbTypes
<1> QED BY <1>1, <1>2, <1>3 DEF MbInv, InvitesOK

LEMMA MbInitOK == MbInit => MbInv
<1> SUFFICES ASSUME MbInit PROVE MbInv
  OBVIOUS
<1>1. \A r \in MbRequests : request[r] = Quiet
  BY DEF MbInit
<1>2. MbTypes
  <2>1. request \in [MbRequests -> Requests]
    BY QuietOK DEF MbInit
  <2> QED BY <1>1, <2>1, QuietOK DEF MbInit, MbTypes, Roles, Statuses
<1>3. Admins = {Founder}
  BY DEF MbInit, Admins, Members
<1>4. AdminsOK
  <2>1. IsFiniteSet(Admins)
    BY <1>3, FS_Singleton, Zenon
  <2>2. LeavesOne
    BY <1>1, QuietOK DEF LeavesOne
  <2> QED BY <1>3, <2>1, <2>2 DEF AdminsOK
<1>5. ASSUME NEW i \in OrgInvites PROVE InviteOK(i)
  <2>1. \A r \in MbRequests : ~IsAbout(r, i)
    BY <1>1, QuietOK DEF IsAbout
  <2>2. invite[i] # "accepted" /\ i \notin used
    BY DEF MbInit, Invites
  <2> QED BY <2>1, <2>2 DEF InviteOK
<1> QED BY <1>2, <1>4, <1>5 DEF MbInv, InvitesOK

LEMMA MbNextOK == MbInv /\ [MbNext]_MbVars => MbInv'
<1>1. MbInv /\ MbNext => MbInv'
  <2> SUFFICES ASSUME MbInv, MbNext PROVE MbInv'
    OBVIOUS
  <2>1. ASSUME NEW r \in MbRequests,
               \/ \E u \in Members, new \in Roles : CheckChange(r, u, new)
               \/ \E i \in Invites : CheckInvite(r, i) \/ CheckAccept(r, i)
               \/ \E i \in Invites, to \in Statuses : CheckClose(r, i, to)
               \/ WriteChange(r) \/ Join(r) \/ WriteStatus(r) \/ CutShort(r)
        PROVE  MbInv'
    BY <2>1, CheckChangeKeeps, CheckInviteKeeps, CheckAcceptKeeps, CheckCloseKeeps,
       WriteChangeKeeps, JoinKeeps, WriteStatusKeeps, CutShortKeeps
  <2>2. ASSUME NEW u \in Guests, RemoveCollaborator(u) PROVE MbInv'
    BY <2>2, MembersStay DEF RemoveCollaborator
  <2>3. ASSUME NEW i \in Invites, Expire(i) PROVE MbInv'
    BY <2>3, MembersStay DEF Expire
  <2> QED BY <2>1, <2>2, <2>3 DEF MbNext
<1>2. MbInv /\ UNCHANGED MbVars => MbInv'
  BY MembersStay DEF MbVars
<1> QED BY <1>1, <1>2

(* An organisation keeps an admin unless two requests that take one each looked  *)
(* before the other wrote (requireNotLastAdmin); and an invite to it is accepted *)
(* exactly if somebody got in by it, unless two requests were about it at a time *)
(* or one was cut short (AcceptInvite, SetStatus).                               *)
THEOREM MembersStayInOrder == MbSpec => []MembersInOrder
<1>1. MbInit => MbInv
  BY MbInitOK
<1>2. MbInv /\ [MbNext]_MbVars => MbInv'
  BY MbNextOK
<1>3. MbInv => MembersInOrder
  BY DEF MbInv, AdminsOK, InvitesOK, InviteOK, IsAbout, MembersInOrder, AdminRemains, AnsweredOnce
<1> QED BY <1>1, <1>2, <1>3, PTL DEF MbSpec
=============================================================================
