--------------------------- MODULE Identity_proofs ---------------------------
(***************************************************************************)
(* Proofs about Identity, for any requests, any sessions, any limit of     *)
(* failed logins and any number of tabs and of calls, and about the        *)
(* address an account's reports go to (Addresses), for any requests and    *)
(* any number of links.                                                    *)
(*                                                                         *)
(* All parts are about requests that read a row and write it later.  What  *)
(* a request has read is true of the row until another one writes it, and  *)
(* from then on the request is stale: so the invariants say what holds of  *)
(* the requests that are not.  Of the account, a count that was read is    *)
(* the count, and a registration that found no account is alone (AcInv);   *)
(* of a session, a token about to be consumed is live, and of the requests *)
(* that have consumed one at most one is about to issue the next (SsInv);  *)
(* of a browser, which tokens are somewhere and which of them are the      *)
(* latest, and that a tab shows what it acts on or has asked (BwInv); of   *)
(* the report address, one that waits is the one its link was made for     *)
(* (AdInv).                                                                *)
(***************************************************************************)
EXTENDS Identity, Addresses, FiniteSetTheorems, TLAPS

(* A finite set with one element more, or one less. *)
LEMMA Counted ==
  ASSUME NEW S, NEW x, IsFiniteSet(S)
  PROVE  /\ Cardinality(S) \in Nat
         /\ IsFiniteSet(S \cup {x}) /\ Cardinality(S \cup {x}) \in Nat
         /\ Cardinality(S \cup {x}) <= Cardinality(S) + 1
         /\ x \notin S => Cardinality(S \cup {x}) = Cardinality(S) + 1
         /\ IsFiniteSet(S \ {x}) /\ Cardinality(S \ {x}) \in Nat
         /\ x \in S => Cardinality(S \ {x}) = Cardinality(S) - 1
<1>1. Cardinality(S) \in Nat
  BY FS_CardinalityType
<1>2. IsFiniteSet(S \cup {x}) /\ (x \notin S => Cardinality(S \cup {x}) = Cardinality(S) + 1)
  BY FS_AddElement
<1>3. x \in S => S \cup {x} = S
  OBVIOUS
<1>4. IsFiniteSet(S \ {x}) /\ (x \in S => Cardinality(S \ {x}) = Cardinality(S) - 1)
  BY FS_RemoveElement
<1>5. Cardinality(S \cup {x}) \in Nat /\ Cardinality(S \ {x}) \in Nat
  BY <1>2, <1>4, FS_CardinalityType
<1>6. Cardinality(S \cup {x}) <= Cardinality(S) + 1
  <2>1. CASE x \in S
    <3>1. Cardinality(S \cup {x}) = Cardinality(S)
      BY <1>3, <2>1, Zenon
    <3> QED BY <1>1, <3>1
  <2>2. CASE x \notin S
    BY <1>1, <1>2, <2>2
  <2> QED BY <2>1, <2>2
<1> QED BY <1>1, <1>2, <1>4, <1>5, <1>6

-----------------------------------------------------------------------------
(***************************************************************************)
(* The account                                                             *)
(***************************************************************************)

Barrable == {"user", "org"}
AcPlaces == {"free", "found", "user", "org", "password", "gate"}
Doing == [at : AcPlaces, count : Nat, barred : SUBSET Barrable, stale : BOOLEAN]

AcTypes ==
    /\ orgs \in Nat /\ suspended \subseteq Barrable
    /\ account \in BOOLEAN /\ locked \in BOOLEAN /\ lockOver \in BOOLEAN
    /\ miscounted \in BOOLEAN /\ letIn \in BOOLEAN
    /\ failed \in Nat /\ wrong \in Nat /\ beaten \in Nat
    /\ doing \in [AcRequests -> Doing]
    /\ locks \in Nat /\ acFaults \in Nat

\* What a request knows that nobody has overtaken: the count it read, and that
\* there is no account.  And whom it lets pass is not barred.
RequestOK(d) ==
    /\ (d.at \in {"org", "password"} /\ ~d.stale) => d.count = failed
    /\ (d.at \in {"found", "user"} /\ ~d.stale) => ~account
    /\ d.barred \subseteq suspended
    /\ d.at \in {"org", "password", "gate"} => "user" \notin d.barred
    /\ d.at = "password" => "org" \notin d.barred
RequestsOK == \A r \in AcRequests : RequestOK(doing[r])

\* As long as no count went wrong, the row counts the wrong passwords.
CountOK ==
    ~miscounted => /\ failed = wrong
                   /\ wrong >= MaxFailedLogins => locked \/ lockOver
                   /\ locked => wrong >= MaxFailedLogins

Founding == {r \in AcRequests : doing[r].at = "user"}
FoundersOK ==
    /\ IsFiniteSet(Founding)
    /\ orgs <= (IF account THEN 1 ELSE 0) + Cardinality(Founding) + beaten + acFaults

AcInv == AcTypes /\ RequestsOK /\ CountOK /\ FoundersOK /\ ~letIn

(* A request that ends, or goes on to a place other than the founding of an  *)
(* organisation, from such a place changes no founding.                      *)
LEMMA SameFounding ==
  ASSUME AcTypes, NEW r \in AcRequests, NEW d, Does(r, d),
         d.at # "user", doing[r].at # "user"
  PROVE  Founding' = Founding
BY DEF AcTypes, Founding, Does

(* The other requests that write the row are stale from then on. *)
LEMMA WritingRow ==
  ASSUME AcTypes, NEW r \in AcRequests, WritesRow(r)
  PROVE  /\ doing' \in [AcRequests -> Doing]
         /\ doing'[r] = Free
         /\ \A q \in AcRequests \ {r} :
              \/ doing'[q] = Free /\ doing[q] = Free
              \/ /\ doing'[q].stale /\ doing'[q].at = doing[q].at
                 /\ doing'[q].barred = doing[q].barred
         /\ Founding' = Founding \ {r}
<1>1. \A q \in AcRequests \ {r} :
        \/ doing'[q] = Free /\ doing[q] = Free
        \/ /\ doing'[q].stale /\ doing'[q].at = doing[q].at
           /\ doing'[q].barred = doing[q].barred
  BY DEF AcTypes, WritesRow, Doing
<1>2. doing' \in [AcRequests -> Doing]
  BY DEF AcTypes, WritesRow, Doing, Free, AcPlaces, Barrable
<1>3. doing'[r] = Free
  BY DEF WritesRow
<1>4. Founding' = Founding \ {r}
  BY <1>1, <1>3 DEF Founding, Free
<1> QED BY <1>1, <1>2, <1>3, <1>4

(* A request that goes on and writes no row. *)
LEMMA Going ==
  ASSUME AcTypes, RequestsOK, NEW r \in AcRequests, NEW d \in Doing, Does(r, d),
         UNCHANGED <<failed, account, suspended>>, RequestOK(d)
  PROVE  doing' \in [AcRequests -> Doing] /\ RequestsOK'
<1>1. doing' \in [AcRequests -> Doing]
  BY DEF AcTypes, Does
<1>2. \A q \in AcRequests : doing'[q] = IF q = r THEN d ELSE doing[q]
  BY DEF AcTypes, Does
<1>3. \A q \in AcRequests : RequestOK(doing'[q])
  BY <1>2 DEF RequestsOK
<1> QED BY <1>1, <1>3 DEF RequestsOK, RequestOK

LEMMA FreeOK == Free \in Doing /\ RequestOK(Free)
BY DEF Free, Doing, AcPlaces, Barrable, RequestOK

(* The founders of an organisation: one more, or one less. *)
LEMMA FoundingBegins ==
  ASSUME AcTypes, NEW r \in AcRequests, NEW d \in Doing, d.at = "user", Does(r, d)
  PROVE  Founding' = Founding \cup {r}
BY DEF AcTypes, Does, Founding

LEMMA FoundingEnds ==
  ASSUME AcTypes, NEW r \in AcRequests, NEW d \in Doing, d.at # "user", Does(r, d)
  PROVE  Founding' = Founding \ {r}
BY DEF AcTypes, Does, Founding

LEMMA CheckAddressKeeps ==
  ASSUME AcInv, NEW r \in AcRequests, CheckAddress(r)
  PROVE  AcInv'
<1> DEFINE d == Begins("found", 0)
<1>1. d \in Doing /\ RequestOK(d)
  BY DEF AcInv, AcTypes, Begins, Doing, AcPlaces, Barrable, RequestOK, CheckAddress
<1>2. Does(r, d) /\ doing[r] = Free /\ UNCHANGED <<orgs, account, failed, locked, suspended,
         wrong, lockOver, miscounted, beaten, letIn, locks, acFaults>>
  BY DEF CheckAddress
<1>3. doing' \in [AcRequests -> Doing] /\ RequestsOK'
  BY <1>1, <1>2, Going DEF AcInv
<1>4. Founding' = Founding
  <2>1. d.at # "user" /\ doing[r].at # "user"
    BY <1>2 DEF Begins, Free
  <2> QED BY <1>2, <2>1, SameFounding DEF AcInv
<1> QED BY <1>2, <1>3, <1>4 DEF AcInv, AcTypes, CountOK, FoundersOK

LEMMA FoundOrganisationKeeps ==
  ASSUME AcInv, NEW r \in AcRequests, FoundOrganisation(r)
  PROVE  AcInv'
<1> DEFINE d == [doing[r] EXCEPT !.at = "user"]
<1>1. d \in Doing /\ RequestOK(d)
  BY DEF AcInv, AcTypes, Doing, AcPlaces, RequestsOK, RequestOK, FoundOrganisation
<1>2. Does(r, d) /\ doing[r].at = "found" /\ orgs' = orgs + 1
      /\ UNCHANGED <<account, failed, locked, suspended, wrong, lockOver, miscounted,
                     beaten, letIn, locks, acFaults>>
  BY DEF FoundOrganisation, Does
<1>3. doing' \in [AcRequests -> Doing] /\ RequestsOK'
  BY <1>1, <1>2, Going DEF AcInv
<1>4. Founding' = Founding \cup {r} /\ r \notin Founding
  <2>1. d.at = "user"
    BY <1>1 DEF Doing
  <2>2. Founding' = Founding \cup {r}
    BY <1>1, <1>2, <2>1, FoundingBegins DEF AcInv
  <2> QED BY <1>2, <2>2 DEF Founding
<1>5. IsFiniteSet(Founding') /\ Cardinality(Founding') = Cardinality(Founding) + 1
      /\ Cardinality(Founding) \in Nat
  BY <1>4, Counted DEF AcInv, FoundersOK
<1>6. FoundersOK'
  BY <1>2, <1>5 DEF AcInv, AcTypes, FoundersOK
<1> QED BY <1>2, <1>3, <1>6 DEF AcInv, AcTypes, CountOK

(* Whatever a request writes into the row, nobody else relies on it any more. *)
LEMMA Writing ==
  ASSUME AcTypes, RequestsOK, NEW r \in AcRequests, WritesRow(r), suspended' = suspended
  PROVE  /\ doing' \in [AcRequests -> Doing] /\ RequestsOK'
         /\ Founding' = Founding \ {r}
<1> DEFINE Fits(d) ==
      /\ (d.at \in {"org", "password"} /\ ~d.stale) => d.count = failed'
      /\ (d.at \in {"found", "user"} /\ ~d.stale) => ~account'
      /\ d.barred \subseteq suspended'
      /\ d.at \in {"org", "password", "gate"} => "user" \notin d.barred
      /\ d.at = "password" => "org" \notin d.barred
<1>1. ASSUME NEW q \in AcRequests PROVE Fits(doing'[q])
  <2>1. CASE doing'[q] = Free
    BY <2>1 DEF Free
  <2>2. CASE /\ doing'[q].stale /\ doing'[q].at = doing[q].at
             /\ doing'[q].barred = doing[q].barred
    <3>1. RequestOK(doing[q])
      BY DEF RequestsOK
    <3> QED BY <2>2, <3>1 DEF RequestOK
  <2> QED BY <2>1, <2>2, WritingRow
<1>2. RequestsOK'
  BY <1>1 DEF RequestsOK, RequestOK
<1> QED BY <1>2, WritingRow

(* CreateUser: who founded an organisation gets it, or was beaten to the address. *)
LEMMA CreateUserKeeps ==
  ASSUME AcInv, NEW r \in AcRequests, CreateUser(r)
  PROVE  AcInv'
<1>1. /\ doing[r].at = "user" /\ account' = TRUE
      /\ beaten' = IF account /\ doing[r].stale THEN beaten + 1 ELSE beaten
      /\ IF account THEN Does(r, Free) ELSE WritesRow(r)
      /\ UNCHANGED <<orgs, failed, locked, suspended, wrong, lockOver, miscounted, letIn,
                     locks, acFaults>>
  BY DEF CreateUser
<1>2. doing' \in [AcRequests -> Doing] /\ RequestsOK' /\ Founding' = Founding \ {r}
  <2>1. CASE account
    <3>1. account' = account
      BY <1>1, <2>1 DEF AcInv, AcTypes
    <3>2. Free.at # "user" /\ Does(r, Free)
      BY <1>1, <2>1 DEF Free
    <3> QED BY <1>1, <3>1, <3>2, FreeOK, Going, FoundingEnds DEF AcInv
  <2>2. CASE ~account
    BY <1>1, <2>2, Writing DEF AcInv
  <2> QED BY <2>1, <2>2
<1>3. /\ IsFiniteSet(Founding') /\ Cardinality(Founding') = Cardinality(Founding) - 1
      /\ Cardinality(Founding') \in Nat /\ Cardinality(Founding) \in Nat
  <2>1. r \in Founding
    BY <1>1 DEF Founding
  <2>2. /\ IsFiniteSet(Founding \ {r}) /\ Cardinality(Founding \ {r}) = Cardinality(Founding) - 1
        /\ Cardinality(Founding \ {r}) \in Nat /\ Cardinality(Founding) \in Nat
    BY <2>1, Counted DEF AcInv, FoundersOK
  <2> QED BY <1>2, <2>2, Zenon
<1>4. account => doing[r].stale
  BY <1>1 DEF AcInv, AcTypes, Doing, RequestsOK, RequestOK
<1>5. FoundersOK'
  <2>1. CASE account
    BY <1>1, <1>3, <1>4, <2>1 DEF AcInv, AcTypes, FoundersOK
  <2>2. CASE ~account
    BY <1>1, <1>3, <2>2 DEF AcInv, AcTypes, FoundersOK
  <2> QED BY <2>1, <2>2
<1>6. AcTypes'
  BY <1>1, <1>2 DEF AcInv, AcTypes
<1> QED BY <1>1, <1>2, <1>5, <1>6 DEF AcInv, CountOK

LEMMA ReadUserKeeps ==
  ASSUME AcInv, NEW r \in AcRequests, ReadUser(r)
  PROVE  AcInv'
<1> DEFINE d == Begins("org", failed)
<1>1. d \in Doing /\ RequestOK(d)
  BY DEF AcInv, AcTypes, Begins, Doing, AcPlaces, Barrable, RequestOK, ReadUser
<1>2. Does(r, d) /\ doing[r] = Free /\ UNCHANGED <<orgs, account, failed, locked, suspended,
         wrong, lockOver, miscounted, beaten, letIn, locks, acFaults>>
  BY DEF ReadUser
<1>3. doing' \in [AcRequests -> Doing] /\ RequestsOK'
  BY <1>1, <1>2, Going DEF AcInv
<1>4. Founding' = Founding
  <2>1. d.at # "user" /\ doing[r].at # "user"
    BY <1>2 DEF Begins, Free
  <2> QED BY <1>2, <2>1, SameFounding DEF AcInv
<1> QED BY <1>2, <1>3, <1>4 DEF AcInv, AcTypes, CountOK, FoundersOK

LEMMA ReadOrganisationKeeps ==
  ASSUME AcInv, NEW r \in AcRequests, ReadOrganisation(r)
  PROVE  AcInv'
<1> DEFINE d == IF "org" \in suspended THEN Free ELSE [doing[r] EXCEPT !.at = "password"]
<1>1. d \in Doing /\ RequestOK(d)
  <2>1. CASE "org" \in suspended
    BY <2>1, FreeOK
  <2>2. CASE "org" \notin suspended
    BY <2>2 DEF AcInv, AcTypes, Doing, AcPlaces, RequestsOK, RequestOK, ReadOrganisation
  <2> QED BY <2>1, <2>2
<1>2. Does(r, d) /\ doing[r].at = "org" /\ UNCHANGED <<orgs, account, failed, locked, suspended,
         wrong, lockOver, miscounted, beaten, letIn, locks, acFaults>>
  BY DEF ReadOrganisation, Does
<1>3. doing' \in [AcRequests -> Doing] /\ RequestsOK'
  BY <1>1, <1>2, Going DEF AcInv
<1>4. Founding' = Founding
  <2>1. d.at # "user" /\ doing[r].at # "user"
    BY <1>2 DEF Free, AcInv, AcTypes, Doing
  <2> QED BY <1>2, <2>1, SameFounding DEF AcInv
<1> QED BY <1>2, <1>3, <1>4 DEF AcInv, AcTypes, CountOK, FoundersOK

(* SetFailedLogin: the count that was read is the count, or the count is off. *)
LEMMA WrongPasswordKeeps ==
  ASSUME AcInv, NEW r \in AcRequests, WrongPassword(r)
  PROVE  AcInv'
<1> DEFINE n == doing[r].count + 1
<1>1. /\ doing[r].at = "password" /\ failed' = n /\ locked' = (n >= MaxFailedLogins)
      /\ wrong' = wrong + 1 /\ lockOver' = FALSE
      /\ miscounted' = (miscounted \/ doing[r].stale) /\ WritesRow(r)
      /\ UNCHANGED <<orgs, account, suspended, beaten, letIn, locks, acFaults>>
  BY DEF WrongPassword, Locks
<1>2. doing' \in [AcRequests -> Doing] /\ RequestsOK' /\ Founding' = Founding \ {r}
  BY <1>1, Writing DEF AcInv
<1>3. Founding' = Founding
  BY <1>1, <1>2 DEF Founding
<1>4. n \in Nat /\ doing[r].stale \in BOOLEAN
  BY DEF AcInv, AcTypes, Doing
<1>5. CountOK'
  BY <1>1, <1>4 DEF AcInv, AcTypes, CountOK, RequestsOK, RequestOK
<1>6. AcTypes'
  <2>1. (n >= MaxFailedLogins) \in BOOLEAN /\ (miscounted \/ doing[r].stale) \in BOOLEAN
    OBVIOUS
  <2>2. locked' \in BOOLEAN /\ miscounted' \in BOOLEAN
    BY <1>1, <2>1, Zenon
  <2>3. failed' \in Nat
    BY <1>1, <1>4, Zenon
  <2>4. wrong' \in Nat
    BY <1>1 DEF AcInv, AcTypes
  <2>5. lockOver' \in BOOLEAN
    BY <1>1, Zenon
  <2> QED BY <1>1, <1>2, <2>2, <2>3, <2>4, <2>5 DEF AcInv, AcTypes
<1> QED BY <1>1, <1>2, <1>3, <1>5, <1>6 DEF AcInv, FoundersOK

LEMMA RightPasswordKeeps ==
  ASSUME AcInv, NEW r \in AcRequests, RightPassword(r)
  PROVE  AcInv'
<1>1. /\ doing[r].at = "password" /\ failed' = 0 /\ locked' = FALSE
      /\ wrong' = 0 /\ lockOver' = FALSE /\ miscounted' = FALSE
      /\ letIn' = (letIn \/ doing[r].barred # {}) /\ WritesRow(r)
      /\ UNCHANGED <<orgs, account, suspended, beaten, locks, acFaults>>
  BY DEF RightPassword
<1>2. doing' \in [AcRequests -> Doing] /\ RequestsOK' /\ Founding' = Founding \ {r}
  BY <1>1, Writing DEF AcInv
<1>3. Founding' = Founding
  BY <1>1, <1>2 DEF Founding
<1>4. letIn' = FALSE
  BY <1>1 DEF AcInv, AcTypes, Doing, Barrable, RequestsOK, RequestOK
<1>5. CountOK'
  BY <1>1, AccountsAssumption DEF CountOK
<1> QED BY <1>1, <1>2, <1>3, <1>4, <1>5 DEF AcInv, AcTypes, FoundersOK

LEMMA LockRunsOutKeeps ==
  ASSUME AcInv, LockRunsOut
  PROVE  AcInv'
<1>1. /\ locked' = FALSE /\ lockOver' = TRUE /\ locks' = locks + 1
      /\ UNCHANGED <<orgs, account, failed, suspended, doing, wrong, miscounted, beaten,
                     letIn, acFaults>>
  BY DEF LockRunsOut
<1>2. RequestsOK'
  BY <1>1 DEF AcInv, RequestsOK, RequestOK
<1>3. CountOK'
  BY <1>1 DEF AcInv, CountOK
<1>4. FoundersOK'
  <2>1. Founding' = Founding
    BY <1>1 DEF Founding
  <2> QED BY <1>1, <2>1 DEF AcInv, FoundersOK
<1>5. AcTypes'
  <2>1. locked' \in BOOLEAN /\ lockOver' \in BOOLEAN
    BY <1>1, Zenon
  <2>2. locks' \in Nat
    BY <1>1 DEF AcInv, AcTypes
  <2> QED BY <1>1, <2>1, <2>2 DEF AcInv, AcTypes
<1> QED BY <1>1, <1>2, <1>3, <1>4, <1>5 DEF AcInv

LEMMA SuspendKeeps ==
  ASSUME AcInv, NEW what \in {"user", "org"}, SuspendUserOrOrganization(what)
  PROVE  AcInv'
<1>1. suspended' = suspended \cup {what} /\ UNCHANGED <<orgs, account, failed, locked, doing, wrong,
        lockOver, miscounted, beaten, letIn, locks, acFaults>>
  BY DEF SuspendUserOrOrganization
<1>2. RequestsOK'
  BY <1>1 DEF AcInv, RequestsOK, RequestOK
<1> QED BY <1>1, <1>2 DEF AcInv, AcTypes, Barrable, CountOK, FoundersOK, Founding

LEMMA ReinstateKeeps ==
  ASSUME AcInv, NEW what \in {"user", "org"}, Reinstate(what)
  PROVE  AcInv'
<1>1. /\ suspended' = suspended \ {what}
      /\ doing' = [r \in AcRequests |-> [doing[r] EXCEPT !.barred = @ \ {what}]]
      /\ UNCHANGED <<orgs, account, failed, locked, wrong, lockOver, miscounted, beaten,
                     letIn, locks, acFaults>>
  BY DEF Reinstate
<1>2. \A r \in AcRequests : /\ doing'[r] \in Doing /\ doing'[r].at = doing[r].at
                            /\ doing'[r].count = doing[r].count /\ doing'[r].stale = doing[r].stale
                            /\ doing'[r].barred = doing[r].barred \ {what}
  BY <1>1 DEF AcInv, AcTypes, Doing
<1>3. RequestsOK'
  BY <1>1, <1>2 DEF AcInv, RequestsOK, RequestOK
<1>4. Founding' = Founding
  BY <1>2 DEF Founding
<1>5. doing' \in [AcRequests -> Doing]
  BY <1>1, <1>2
<1> QED BY <1>1, <1>3, <1>4, <1>5 DEF AcInv, AcTypes, CountOK, FoundersOK

LEMMA CheckUserKeeps ==
  ASSUME AcInv, NEW r \in AcRequests, CheckUser(r)
  PROVE  AcInv'
<1> DEFINE d == Begins("gate", 0)
<1>1. d \in Doing /\ RequestOK(d)
  BY DEF AcInv, AcTypes, Begins, Doing, AcPlaces, Barrable, RequestOK, CheckUser
<1>2. Does(r, d) /\ doing[r] = Free /\ UNCHANGED <<orgs, account, failed, locked, suspended,
         wrong, lockOver, miscounted, beaten, letIn, locks, acFaults>>
  BY DEF CheckUser
<1>3. doing' \in [AcRequests -> Doing] /\ RequestsOK'
  BY <1>1, <1>2, Going DEF AcInv
<1>4. Founding' = Founding
  <2>1. d.at # "user" /\ doing[r].at # "user"
    BY <1>2 DEF Begins, Free
  <2> QED BY <1>2, <2>1, SameFounding DEF AcInv
<1> QED BY <1>2, <1>3, <1>4 DEF AcInv, AcTypes, CountOK, FoundersOK

(* CheckSuspension: who passes both looks was barred by neither. *)
LEMMA CheckOrganisationKeeps ==
  ASSUME AcInv, NEW r \in AcRequests, CheckOrganisation(r)
  PROVE  AcInv'
<1>1. /\ doing[r].at = "gate" /\ Does(r, Free)
      /\ letIn' = (letIn \/ ("org" \notin suspended /\ doing[r].barred # {}))
      /\ UNCHANGED <<orgs, account, failed, locked, suspended, wrong, lockOver, miscounted,
                     beaten, locks, acFaults>>
  BY DEF CheckOrganisation
<1>2. letIn' = FALSE
  BY <1>1 DEF AcInv, AcTypes, Doing, Barrable, RequestsOK, RequestOK
<1>3. doing' \in [AcRequests -> Doing] /\ RequestsOK'
  BY <1>1, FreeOK, Going DEF AcInv
<1>4. Founding' = Founding
  <2>1. Free.at # "user" /\ doing[r].at # "user"
    BY <1>1 DEF Free
  <2> QED BY <1>1, <2>1, SameFounding DEF AcInv
<1> QED BY <1>1, <1>2, <1>3, <1>4 DEF AcInv, AcTypes, CountOK, FoundersOK

LEMMA AcCutShortKeeps ==
  ASSUME AcInv, NEW r \in AcRequests, AcCutShort(r)
  PROVE  AcInv'
<1>1. /\ acFaults' = acFaults + 1 /\ Does(r, Free)
      /\ UNCHANGED <<orgs, account, failed, locked, suspended, wrong, lockOver, miscounted,
                     beaten, letIn, locks>>
  BY DEF AcCutShort
<1>2. doing' \in [AcRequests -> Doing] /\ RequestsOK'
  BY <1>1, FreeOK, Going DEF AcInv
<1>3. Founding' = Founding \ {r}
  <2>1. Free.at # "user"
    BY DEF Free
  <2> QED BY <1>1, <2>1, FreeOK, FoundingEnds DEF AcInv
<1>4. /\ IsFiniteSet(Founding') /\ Cardinality(Founding') \in Nat /\ Cardinality(Founding) \in Nat
      /\ Cardinality(Founding') = Cardinality(Founding)
           \/ Cardinality(Founding') = Cardinality(Founding) - 1
  <2>1. r \notin Founding => Founding \ {r} = Founding
    OBVIOUS
  <2>2. r \notin Founding => Cardinality(Founding') = Cardinality(Founding)
    BY <1>3, <2>1, Zenon
  <2> QED BY <1>3, <2>2, Counted DEF AcInv, FoundersOK
<1>5. FoundersOK'
  BY <1>1, <1>4 DEF AcInv, AcTypes, FoundersOK
<1> QED BY <1>1, <1>2, <1>5 DEF AcInv, AcTypes, CountOK

LEMMA AcInitOK == AcInit => AcInv
<1> SUFFICES ASSUME AcInit PROVE AcInv
  OBVIOUS
<1>1. Founding = {}
  BY DEF AcInit, Founding, Free
<1>2. IsFiniteSet(Founding) /\ Cardinality(Founding) = 0
  BY <1>1, FS_EmptySet
<1>3. FoundersOK
  BY <1>2 DEF AcInit, FoundersOK
<1>4. AcTypes
  BY FreeOK DEF AcInit, AcTypes, Barrable
<1>5. RequestsOK
  BY FreeOK DEF AcInit, RequestsOK
<1> QED BY <1>3, <1>4, <1>5, AccountsAssumption DEF AcInit, AcInv, CountOK

LEMMA AcNextOK == AcInv /\ AcNext => AcInv'
<1> SUFFICES ASSUME AcInv, AcNext PROVE AcInv'
  OBVIOUS
<1>1. ASSUME NEW r \in AcRequests,
             \/ CheckAddress(r) \/ FoundOrganisation(r) \/ CreateUser(r)
             \/ ReadUser(r) \/ ReadOrganisation(r) \/ WrongPassword(r) \/ RightPassword(r)
             \/ CheckUser(r) \/ CheckOrganisation(r) \/ AcCutShort(r)
      PROVE AcInv'
  BY <1>1, CheckAddressKeeps, FoundOrganisationKeeps, CreateUserKeeps, ReadUserKeeps,
     ReadOrganisationKeeps, WrongPasswordKeeps, RightPasswordKeeps, CheckUserKeeps,
     CheckOrganisationKeeps, AcCutShortKeeps
<1> QED BY <1>1, SuspendKeeps, ReinstateKeeps, LockRunsOutKeeps DEF AcNext

LEMMA AcUnchanged == AcInv /\ UNCHANGED AcVars => AcInv'
BY DEF AcInv, AcVars, AcTypes, RequestsOK, RequestOK, CountOK, FoundersOK, Founding

LEMMA AcInvImplies == AcInv => AccountsInOrder
BY DEF AcInv, CountOK, FoundersOK, Founding, AccountsInOrder, LockedByItsFailures,
       FoundersHaveTheirs, SuspensionIsImmediate

-----------------------------------------------------------------------------
(***************************************************************************)
(* The sessions                                                            *)
(***************************************************************************)

SsPlaces == {"none", "consume", "role", "issue", "revoke"}
Ending == [at : SsPlaces, token : Tokens \cup {<<>>}, stale : BOOLEAN]

SsTypes ==
    /\ scope \in [Families -> {"unused", "home", "other"}]
    /\ issued \in [Families -> Nat] /\ extra \in [Families -> Nat]
    /\ ending \in [SsRequests -> Ending]

\* What a request knows: its token is one of the session's, and to be consumed
\* it is live, as long as nobody has overtaken the request.
KnownOK(d) ==
    /\ d.at = "none" => d = NoRequest
    /\ d.at # "none" => d.token \in Tokens /\ d.token[2] <= issued[Family(d.token)]
    /\ (d.at = "consume" /\ ~d.stale) => d.token \notin consumed \cup revoked
KnownAll == \A r \in SsRequests : KnownOK(ending[r])

\* A session nobody has started has no token, and one that was revoked has.
Starts ==
    \A f \in Families : /\ scope[f] = "unused" => issued[f] = 0
                        /\ f \in ended => issued[f] > 0

\* The requests that owe the session a token: nobody has overtaken them since
\* they consumed one. There is one at most.
Owing(f) ==
    {r \in SsRequests : /\ ending[r].at \in {"role", "issue"} /\ ~ending[r].stale
                        /\ Family(ending[r].token) = f}
OneOwes == \A f \in Families : \A q, r \in Owing(f) : q = r
Owed(f) == IF Owing(f) = {} THEN 0 ELSE 1
Room(f) == extra[f] + (IF f \in ended THEN 0 ELSE 1)

\* So the token that is owed has room beside those that are live.
LiveOK == \A f \in Families : Cardinality(Live(f)) + Owed(f) <= Room(f)

SsInv == SsTypes /\ KnownAll /\ Starts /\ OneOwes /\ LiveOK

LEMMA FamilyOfTokens ==
  ASSUME NEW t \in Tokens
  PROVE  Family(t) \in Families /\ t = <<Family(t), t[2]>> /\ t[2] \in 1 .. MaxTokens
BY DEF Tokens, Family

(* The tokens of a session are finitely many, now and after the step. *)
LEMMA FinitelyMany ==
  ASSUME NEW f \in Families
  PROVE  /\ IsFiniteSet(Live(f)) /\ Cardinality(Live(f)) \in Nat
         /\ IsFiniteSet(Live(f)') /\ Cardinality(Live(f)') \in Nat
<1> DEFINE P == {f} \X (1 .. MaxTokens)
<1>1. IsFiniteSet(P)
  <2>1. MaxTokens \in Nat
    BY SessionsAssumption
  <2>2. MaxTokens \in Int /\ 1 \in Int
    BY <2>1
  <2>3. IsFiniteSet(1 .. MaxTokens)
    BY <2>2, FS_Interval
  <2>4. IsFiniteSet({f})
    BY FS_Singleton
  <2> QED BY <2>3, <2>4, FS_Product
<1>2. Live(f) \subseteq P /\ Live(f)' \subseteq P
  BY DEF Live, FamilyTokens, Tokens, Family
<1>3. IsFiniteSet(Live(f)) /\ IsFiniteSet(Live(f)')
  BY <1>1, <1>2, FS_Subset
<1> QED BY <1>3, FS_CardinalityType

(* The room of a session after a step in which it keeps its numbers, has no    *)
(* more live tokens and owes no more.                                          *)
LEMMA NoMore ==
  ASSUME SsInv, NEW f \in Families, Live(f)' \subseteq Live(f),
         Owing(f)' \subseteq Owing(f), Room(f)' = Room(f)
  PROVE  (Cardinality(Live(f)) + Owed(f) <= Room(f))'
<1>1. Cardinality(Live(f)') <= Cardinality(Live(f))
  BY FinitelyMany, FS_Subset
<1>2. Owed(f)' <= Owed(f) /\ Owed(f)' \in Nat /\ Owed(f) \in Nat
  BY DEF Owed
<1>3. Cardinality(Live(f)) + Owed(f) <= Room(f) /\ Room(f) \in Nat
  BY DEF SsInv, SsTypes, LiveOK, Room
<1> DEFINE a == Cardinality(Live(f))
           b == Cardinality(Live(f)')
           c == Owed(f)
           d == Owed(f)'
<1>4. a \in Nat /\ b \in Nat
  BY FinitelyMany
<1>5. b + d <= Room(f)
  <2> HIDE DEF a, b, c, d
  <2>1. b <= a /\ d <= c /\ d \in Nat /\ c \in Nat /\ a + c <= Room(f) /\ Room(f) \in Nat
    BY <1>1, <1>2, <1>3 DEF a, b, c, d
  <2> QED BY <1>4, <2>1
<1>6. Cardinality(Live(f)') + Owed(f)' <= Room(f)'
  BY <1>5
<1> QED BY <1>6

LEMMA SsInitOK == SsInit => SsInv
<1> SUFFICES ASSUME SsInit PROVE SsInv
  OBVIOUS
<1>1. SsTypes
  BY DEF SsInit, SsTypes, NoRequest, Ending, SsPlaces
<1>2. KnownAll
  BY DEF SsInit, KnownAll, KnownOK, NoRequest
<1>3. Starts
  BY DEF SsInit, Starts
<1>4. ASSUME NEW f \in Families PROVE Owing(f) = {} /\ Cardinality(Live(f)) = 0 /\ Room(f) = 1
  <2>1. Live(f) = {}
    BY DEF SsInit, Live, FamilyTokens, Tokens, Family
  <2>2. Cardinality(Live(f)) = 0
    BY <2>1, FS_EmptySet, Zenon
  <2>3. Owing(f) = {}
    BY DEF SsInit, Owing, NoRequest
  <2> QED BY <2>2, <2>3 DEF SsInit, Room
<1>5. OneOwes
  BY <1>4 DEF OneOwes
<1>6. LiveOK
  <2> SUFFICES ASSUME NEW f \in Families PROVE Cardinality(Live(f)) + Owed(f) <= Room(f)
    BY DEF LiveOK
  <2>1. Owed(f) = 0
    BY <1>4 DEF Owed
  <2> QED BY <1>4, <2>1
<1> QED BY <1>1, <1>2, <1>3, <1>5, <1>6 DEF SsInv

(* A step that leaves the tokens and the requests alone, *)
LEMMA SessionsStay ==
  ASSUME SsInv, UNCHANGED <<scope, issued, consumed, revoked, ending, ended, extra>>
  PROVE  SsInv'
<1>1. SsTypes' /\ KnownAll' /\ Starts'
  BY DEF SsInv, SsTypes, KnownAll, KnownOK, Starts
<1>2. ASSUME NEW f \in Families
      PROVE  Live(f)' = Live(f) /\ Owing(f)' = Owing(f) /\ Room(f)' = Room(f)
  BY DEF Live, FamilyTokens, Owing, Room
<1>3. OneOwes'
  BY <1>2 DEF SsInv, OneOwes
<1>4. LiveOK'
  BY <1>2, NoMore DEF LiveOK
<1> QED BY <1>1, <1>3, <1>4 DEF SsInv

(* and one in which a request goes on that owes nothing it did not owe before. *)
LEMMA Goes ==
  ASSUME SsInv, NEW r \in SsRequests, NEW d \in Ending, KnownOK(d),
         ending' = [ending EXCEPT ![r] = d],
         d.at \in {"role", "issue"} =>
           /\ ending[r].at \in {"role", "issue"} /\ d.token = ending[r].token
           /\ d.stale = ending[r].stale,
         UNCHANGED <<scope, issued, consumed, revoked, ended, extra>>
  PROVE  SsInv'
<1>1. SsTypes'
  BY DEF SsInv, SsTypes
<1>2. \A q \in SsRequests : ending'[q] = IF q = r THEN d ELSE ending[q]
  BY DEF SsInv, SsTypes
<1>3. KnownAll'
  BY <1>2 DEF SsInv, KnownAll, KnownOK
<1>4. Starts'
  BY DEF SsInv, Starts
<1>5. ASSUME NEW f \in Families
      PROVE  Live(f)' = Live(f) /\ Owing(f)' \subseteq Owing(f) /\ Room(f)' = Room(f)
  BY <1>2 DEF Live, FamilyTokens, Owing, Room
<1>6. OneOwes'
  BY <1>5 DEF SsInv, OneOwes
<1>7. LiveOK'
  BY <1>5, NoMore DEF LiveOK
<1> QED BY <1>1, <1>3, <1>4, <1>6, <1>7 DEF SsInv

LEMMA ReadTokenKeeps ==
  ASSUME SsInv, NEW r \in SsRequests, NEW t \in Tokens, ReadToken(r, t)
  PROVE  SsInv'
<1> DEFINE d == [at |-> IF EndsSession(t) THEN "revoke" ELSE "consume", token |-> t,
                 stale |-> FALSE]
<1>1. d \in Ending
  BY DEF Ending, SsPlaces
<1>2. t \in FamilyTokens(Family(t)) /\ t \notin revoked
      /\ ending' = [ending EXCEPT ![r] = d]
      /\ UNCHANGED <<scope, issued, consumed, revoked, ended, extra>>
  BY DEF ReadToken
<1>3. KnownOK(d)
  BY <1>2 DEF KnownOK, FamilyTokens, EndsSession
<1>4. d.at \notin {"role", "issue"}
  OBVIOUS
<1> HIDE DEF d
<1> QED BY <1>1, <1>2, <1>3, <1>4, Goes

LEMMA ReadForLogoutKeeps ==
  ASSUME SsInv, NEW r \in SsRequests, NEW t \in Tokens, ReadForLogout(r, t)
  PROVE  SsInv'
<1> DEFINE d == [at |-> "revoke", token |-> t, stale |-> FALSE]
<1>1. d \in Ending
  BY DEF Ending, SsPlaces
<1>2. t \in FamilyTokens(Family(t)) /\ ending' = [ending EXCEPT ![r] = d]
      /\ UNCHANGED <<scope, issued, consumed, revoked, ended, extra>>
  BY DEF ReadForLogout
<1>3. KnownOK(d)
  BY <1>2 DEF KnownOK, FamilyTokens
<1>4. d.at \notin {"role", "issue"}
  OBVIOUS
<1> HIDE DEF d
<1> QED BY <1>1, <1>2, <1>3, <1>4, Goes

LEMMA ReadRoleKeeps ==
  ASSUME SsInv, NEW r \in SsRequests, ReadRole(r)
  PROVE  SsInv'
<1> DEFINE next == IF scope[Family(ending[r].token)] = "home" \/ belongs
                   THEN "issue" ELSE "revoke"
           d == [ending[r] EXCEPT !.at = next]
<1>1. ending[r] \in Ending /\ ending[r].at = "role" /\ KnownOK(ending[r])
  BY DEF SsInv, SsTypes, ReadRole, KnownAll
<1>2. d \in Ending /\ d.at \in {"issue", "revoke"} /\ d.token = ending[r].token
      /\ d.stale = ending[r].stale
  BY <1>1 DEF Ending, SsPlaces
<1>3. KnownOK(d)
  BY <1>1, <1>2 DEF KnownOK
<1>4. ending' = [ending EXCEPT ![r] = d]
      /\ UNCHANGED <<scope, issued, consumed, revoked, ended, extra>>
  BY DEF ReadRole
<1> HIDE DEF d
<1> QED BY <1>1, <1>2, <1>3, <1>4, Goes

LEMMA DropRequestKeeps ==
  ASSUME SsInv, NEW r \in SsRequests, DropRequest(r)
  PROVE  SsInv'
<1>1. NoRequest \in Ending /\ KnownOK(NoRequest) /\ NoRequest.at \notin {"role", "issue"}
  BY DEF NoRequest, Ending, SsPlaces, KnownOK
<1>2. ending' = [ending EXCEPT ![r] = NoRequest]
      /\ UNCHANGED <<scope, issued, consumed, revoked, ended, extra>>
  BY DEF DropRequest
<1> QED BY <1>1, <1>2, Goes

(* The first token has the room of the session. *)
LEMMA StartSessionKeeps ==
  ASSUME SsInv, NEW g \in Families, NEW where \in {"home", "organisation", "project"},
         StartSession(g, where)
  PROVE  SsInv'
<1> DEFINE to == IF where = "home" THEN "home" ELSE "other"
<1>1. /\ scope[g] = "unused" /\ scope' = [scope EXCEPT ![g] = to]
      /\ issued' = [issued EXCEPT ![g] = 1]
      /\ UNCHANGED <<consumed, revoked, ending, ended, extra>>
  BY DEF StartSession
<1>2. issued[g] = 0 /\ g \notin ended /\ Room(g) \in Nat /\ Room(g) >= 1 /\ Room(g)' = Room(g)
  BY <1>1 DEF SsInv, SsTypes, Starts, Room
<1>3. SsTypes'
  BY <1>1 DEF SsInv, SsTypes
<1>4. \A f \in Families : issued'[f] = IF f = g THEN 1 ELSE issued[f]
  BY <1>1 DEF SsInv, SsTypes
<1>5. ASSUME NEW q \in SsRequests, ending[q].at # "none"
      PROVE  ending[q].token \in Tokens /\ Family(ending[q].token) # g
  <2>1. KnownOK(ending[q])
    BY DEF SsInv, KnownAll
  <2> QED BY <1>2, <1>5, <2>1, FamilyOfTokens DEF KnownOK
<1>6. KnownAll'
  <2> SUFFICES ASSUME NEW q \in SsRequests PROVE KnownOK(ending[q])'
    BY DEF KnownAll
  <2>1. KnownOK(ending[q])
    BY DEF SsInv, KnownAll
  <2>2. ending[q].at # "none" => issued'[Family(ending[q].token)] = issued[Family(ending[q].token)]
    BY <1>4, <1>5, FamilyOfTokens
  <2> QED BY <1>1, <2>1, <2>2 DEF KnownOK
<1>7. Starts'
  <2>1. to # "unused"
    OBVIOUS
  <2> HIDE DEF to
  <2> QED BY <1>1, <1>4, <2>1 DEF SsInv, SsTypes, Starts
<1>8. ASSUME NEW f \in Families PROVE Owing(f)' = Owing(f)
  BY <1>1 DEF Owing
<1>9. OneOwes'
  BY <1>8 DEF SsInv, OneOwes
<1>10. ASSUME NEW f \in Families PROVE (Cardinality(Live(f)) + Owed(f) <= Room(f))'
  <2>1. CASE f # g
    <3>1. Live(f)' = Live(f)
      BY <1>1, <1>4, <2>1 DEF Live, FamilyTokens
    <3>2. Room(f)' = Room(f)
      BY <1>1 DEF Room
    <3> QED BY <1>8, <3>1, <3>2, NoMore
  <2>2. CASE f = g
    <3>1. Owing(f)' = {}
      BY <1>1, <1>5, <2>2 DEF Owing
    <3>2. Owed(f)' = 0
      BY <3>1 DEF Owed
    <3>3. Live(f)' \subseteq {<<g, 1>>}
      BY <1>4, <2>2 DEF Live, FamilyTokens, Tokens, Family
    <3>4. Cardinality(Live(f)') <= 1
      <4>1. IsFiniteSet({<<g, 1>>}) /\ Cardinality({<<g, 1>>}) = 1
        BY FS_Singleton
      <4>2. Cardinality(Live(f)') <= Cardinality({<<g, 1>>})
        BY <3>3, <4>1, FS_Subset
      <4> QED BY <4>1, <4>2
    <3>5. Cardinality(Live(f)') \in Nat
      BY FinitelyMany
    <3>6. Cardinality(Live(f)') + Owed(f)' <= Room(f)'
      BY <1>2, <2>2, <3>2, <3>4, <3>5
    <3> QED BY <3>6
  <2> QED BY <2>1, <2>2
<1>11. LiveOK'
  BY <1>10 DEF LiveOK
<1> QED BY <1>3, <1>6, <1>7, <1>9, <1>11 DEF SsInv

(* Who overtakes the other requests about its session leaves none of them     *)
(* owing it a token.                                                          *)
LEMMA Overtaking ==
  ASSUME SsInv, NEW r \in SsRequests, NEW next \in Ending, ending[r].at # "none",
         ending' = Overtake(r, next)
  PROVE  /\ ending' \in [SsRequests -> Ending] /\ ending'[r] = next
         /\ \A q \in SsRequests \ {r} :
              \/ /\ ending'[q] = ending[q]
                 /\ \/ ending[q] = NoRequest
                    \/ Family(ending[q].token) # Family(ending[r].token)
              \/ /\ ending'[q].at = ending[q].at /\ ending'[q].token = ending[q].token
                 /\ ending'[q].stale /\ ending[q] # NoRequest
<1>1. \A q \in SsRequests : ending'[q] =
        IF q = r THEN next
        ELSE IF ending[q] = NoRequest \/ Family(ending[q].token) # Family(ending[r].token)
        THEN ending[q]
        ELSE [ending[q] EXCEPT !.stale = TRUE]
  BY DEF Overtake
<1>2. \A q \in SsRequests : ending[q] \in Ending
  BY DEF SsInv, SsTypes
<1>3. \A q \in SsRequests : [ending[q] EXCEPT !.stale = TRUE] \in Ending
  BY <1>2 DEF Ending
<1>4. \A q \in SsRequests : ending'[q] \in Ending
  BY <1>1, <1>2, <1>3
<1>5. ending' \in [SsRequests -> Ending]
  BY <1>4 DEF Overtake
<1> QED BY <1>1, <1>2, <1>5 DEF Ending

(* MarkConsumed: of two requests with one token the later owes nothing.       *)
LEMMA ConsumeTokenKeeps ==
  ASSUME SsInv, NEW r \in SsRequests, ConsumeToken(r)
  PROVE  SsInv'
<1>1. ending[r].at = "consume" /\ ending[r] \in Ending /\ KnownOK(ending[r])
  BY DEF ConsumeToken, SsInv, SsTypes, KnownAll
<1>2. PICK t \in Tokens : t = ending[r].token
  BY <1>1 DEF KnownOK
<1>3. PICK g \in Families : g = Family(t)
  BY FamilyOfTokens
<1>4. t[2] <= issued[g] /\ (~ending[r].stale => t \notin consumed \cup revoked)
  BY <1>1, <1>2, <1>3 DEF KnownOK
<1> DEFINE next == [ending[r] EXCEPT !.at = "role"]
<1>5. /\ consumed' = consumed \cup {t} /\ ending' = Overtake(r, next)
      /\ UNCHANGED <<scope, issued, revoked, ended, extra>>
  BY <1>2 DEF ConsumeToken
<1>0. next \in Ending /\ next.at = "role" /\ next.token = t /\ next.stale = ending[r].stale
  BY <1>1, <1>2 DEF Ending, SsPlaces
<1> HIDE DEF next
<1>6. /\ ending' \in [SsRequests -> Ending] /\ ending'[r] = next
      /\ \A q \in SsRequests \ {r} :
           \/ /\ ending'[q] = ending[q]
              /\ \/ ending[q] = NoRequest
                 \/ Family(ending[q].token) # g
           \/ /\ ending'[q].at = ending[q].at /\ ending'[q].token = ending[q].token
              /\ ending'[q].stale /\ ending[q] # NoRequest
  BY <1>0, <1>1, <1>2, <1>3, <1>5, Overtaking
<1>7. SsTypes' /\ Starts'
  BY <1>5, <1>6 DEF SsInv, SsTypes, Starts
<1>8. KnownAll'
  <2> SUFFICES ASSUME NEW q \in SsRequests PROVE KnownOK(ending[q])'
    BY DEF KnownAll
  <2>1. CASE q = r
    BY <1>0, <1>3, <1>4, <1>5, <1>6, <2>1 DEF KnownOK
  <2>2. CASE q # r
    <3>1. KnownOK(ending[q])
      BY DEF SsInv, KnownAll
    <3>2. CASE ending'[q] = ending[q] /\ (ending[q] = NoRequest \/ Family(ending[q].token) # g)
      <4>1. ending[q].at = "none" => ending[q] = NoRequest
        BY <3>1 DEF KnownOK
      <4>2. ending[q].at # "none" => ending[q].token # t
        BY <1>3, <3>2 DEF NoRequest
      <4> QED BY <1>5, <3>1, <3>2, <4>2 DEF KnownOK
    <3>3. CASE /\ ending'[q].at = ending[q].at /\ ending'[q].token = ending[q].token
               /\ ending'[q].stale /\ ending[q] # NoRequest
      BY <1>5, <3>1, <3>3 DEF KnownOK
    <3> QED BY <1>6, <2>2, <3>2, <3>3
  <2> QED BY <2>1, <2>2
<1>9. ASSUME NEW f \in Families, f # g
      PROVE  Owing(f)' \subseteq Owing(f) /\ Live(f)' \subseteq Live(f) /\ Room(f)' = Room(f)
  BY <1>0, <1>3, <1>5, <1>6, <1>9 DEF Owing, Live, FamilyTokens, Room
<1>10. Owing(g)' \subseteq {r} /\ (ending[r].stale => Owing(g)' = {})
  BY <1>0, <1>6 DEF Owing, NoRequest
<1>11. OneOwes'
  BY <1>9, <1>10 DEF SsInv, OneOwes
<1>12. Live(g)' = Live(g) \ {t} /\ Room(g)' = Room(g)
  BY <1>5 DEF Live, FamilyTokens, Room
<1>13. (Cardinality(Live(g)) + Owed(g) <= Room(g))'
  <2>1. CASE ending[r].stale
    BY <1>10, <1>12, <2>1, NoMore
  <2>2. CASE ~ending[r].stale
    <3>1. t \in Live(g)
      BY <1>3, <1>4, <2>2 DEF Live, FamilyTokens
    <3>2. IsFiniteSet(Live(g)) /\ Cardinality(Live(g)) \in Nat
      BY FinitelyMany
    <3>3. Cardinality(Live(g) \ {t}) = Cardinality(Live(g)) - 1
      BY <3>1, <3>2, Counted
    <3>4. Cardinality(Live(g)') = Cardinality(Live(g)) - 1
      BY <1>12, <3>3, Zenon
    <3>5. Owed(g)' <= 1 /\ Owed(g)' \in Nat /\ Owed(g) \in Nat
      BY DEF Owed
    <3>6. Cardinality(Live(g)) + Owed(g) <= Room(g) /\ Room(g) \in Nat
      BY DEF SsInv, SsTypes, LiveOK, Room
    <3>7. Cardinality(Live(g)') + Owed(g)' <= Room(g)'
      BY <1>12, <3>2, <3>4, <3>5, <3>6
    <3> QED BY <3>7
  <2>3. ending[r].stale \in BOOLEAN
    BY <1>1 DEF Ending
  <2> QED BY <2>1, <2>2, <2>3
<1>14. LiveOK'
  BY <1>9, <1>13, NoMore DEF LiveOK
<1> QED BY <1>7, <1>8, <1>11, <1>14 DEF SsInv

(* issueTokenPairInFamily: the token that is owed takes the room kept for it,  *)
(* and one that is not takes room of its own.                                  *)
LEMMA IssueTokenKeeps ==
  ASSUME SsInv, NEW r \in SsRequests, IssueToken(r)
  PROVE  SsInv'
<1>1. ending[r].at = "issue" /\ ending[r] \in Ending /\ KnownOK(ending[r])
  BY DEF IssueToken, SsInv, SsTypes, KnownAll
<1>2. PICK g \in Families : g = Family(ending[r].token)
  BY <1>1, FamilyOfTokens DEF KnownOK
<1>3. /\ issued' = [issued EXCEPT ![g] = @ + 1]
      /\ extra' = [extra EXCEPT ![g] = IF ending[r].stale THEN @ + 1 ELSE @]
      /\ ending' = [ending EXCEPT ![r] = NoRequest]
      /\ UNCHANGED <<scope, consumed, revoked, ended>>
  BY <1>2 DEF IssueToken
<1>4. PICK n \in Nat : n = issued[g] + 1
  BY DEF SsInv, SsTypes
<1>5. /\ \A f \in Families : issued'[f] = IF f = g THEN n ELSE issued[f]
      /\ \A f \in Families : issued[f] \in Nat /\ extra[f] \in Nat
      /\ \A q \in SsRequests : ending'[q] = IF q = r THEN NoRequest ELSE ending[q]
      /\ \A f \in Families :
           extra'[f] = IF f = g /\ ending[r].stale THEN extra[g] + 1 ELSE extra[f]
  BY <1>3, <1>4 DEF SsInv, SsTypes
<1>6. SsTypes'
  <2>1. NoRequest \in Ending
    BY DEF NoRequest, Ending, SsPlaces
  <2>2. ending' \in [SsRequests -> Ending]
    BY <1>3, <2>1 DEF SsInv, SsTypes
  <2> QED BY <1>3, <2>2 DEF SsInv, SsTypes
<1>7. KnownAll'
  <2> SUFFICES ASSUME NEW q \in SsRequests PROVE KnownOK(ending[q])'
    BY DEF KnownAll
  <2>1. CASE q = r
    BY <1>5, <2>1 DEF KnownOK, NoRequest
  <2>2. CASE q # r
    <3>1. KnownOK(ending[q]) /\ ending'[q] = ending[q]
      BY <1>5, <2>2 DEF SsInv, KnownAll
    <3>2. ending[q].at # "none" => /\ ending[q].token[2] <= issued'[Family(ending[q].token)]
      BY <1>4, <1>5, <3>1, FamilyOfTokens DEF KnownOK
    <3> QED BY <1>3, <3>1, <3>2 DEF KnownOK
  <2> QED BY <2>1, <2>2
<1>8. Starts'
  <2>1. scope[g] # "unused"
    BY <1>1, <1>2, <1>5, FamilyOfTokens DEF SsInv, Starts, KnownOK
  <2> QED BY <1>3, <1>4, <1>5, <2>1 DEF SsInv, Starts
<1>9. ASSUME NEW f \in Families PROVE Owing(f)' = Owing(f) \ {r}
  BY <1>5 DEF Owing, NoRequest
<1>10. OneOwes'
  BY <1>9 DEF SsInv, OneOwes
<1>11. ASSUME NEW f \in Families, f # g PROVE Live(f)' = Live(f) /\ Room(f)' = Room(f)
  BY <1>3, <1>5, <1>11 DEF Live, FamilyTokens, Room
<1>12. Live(g)' \subseteq Live(g) \cup {<<g, n>>}
  BY <1>3, <1>4, <1>5 DEF Live, FamilyTokens, Tokens, Family
<1>13. Cardinality(Live(g)') <= Cardinality(Live(g)) + 1
       /\ Cardinality(Live(g)') \in Nat /\ Cardinality(Live(g)) \in Nat
  <2> DEFINE S == Live(g) \cup {<<g, n>>}
  <2>1. IsFiniteSet(S) /\ Cardinality(S) <= Cardinality(Live(g)) + 1 /\ Cardinality(S) \in Nat
    BY Counted, FinitelyMany
  <2>2. Cardinality(Live(g)') <= Cardinality(S)
    BY <1>12, <2>1, FS_Subset
  <2>3. Cardinality(Live(g)') \in Nat /\ Cardinality(Live(g)) \in Nat
    BY FinitelyMany
  <2> HIDE DEF S
  <2> QED BY <2>1, <2>2, <2>3
<1>14. (Cardinality(Live(g)) + Owed(g) <= Room(g))'
  <2>1. Cardinality(Live(g)) + Owed(g) <= Room(g) /\ Room(g) \in Nat
        /\ Owed(g) \in Nat /\ Owed(g)' \in Nat
    BY DEF SsInv, SsTypes, LiveOK, Room, Owed
  <2>2. CASE ending[r].stale
    <3>1. Room(g)' = Room(g) + 1
      BY <1>3, <1>5, <2>2 DEF Room
    <3>2. Owed(g)' <= Owed(g)
      BY <1>9 DEF Owed
    <3>3. Cardinality(Live(g)') + Owed(g)' <= Room(g)'
      BY <1>13, <2>1, <3>1, <3>2
    <3> QED BY <3>3
  <2>3. CASE ~ending[r].stale
    <3>1. Room(g)' = Room(g)
      BY <1>3, <1>5, <2>3 DEF Room
    <3>2. r \in Owing(g)
      BY <1>1, <1>2, <2>3 DEF Owing
    <3>3. Owing(g)' = {}
      BY <1>9, <3>2 DEF SsInv, OneOwes
    <3>4. Owed(g)' = 0 /\ Owed(g) = 1
      BY <3>2, <3>3 DEF Owed
    <3>5. Cardinality(Live(g)') + Owed(g)' <= Room(g)'
      BY <1>13, <2>1, <3>1, <3>4
    <3> QED BY <3>5
  <2> QED BY <2>2, <2>3
<1>15. ASSUME NEW f \in Families, f # g PROVE (Cardinality(Live(f)) + Owed(f) <= Room(f))'
  BY <1>9, <1>11, <1>15, NoMore
<1>16. LiveOK'
  BY <1>14, <1>15 DEF LiveOK
<1> QED BY <1>6, <1>7, <1>8, <1>10, <1>16 DEF SsInv

(* RevokeFamily: no token of the session is left, and none is owed. *)
LEMMA RevokeFamilyKeeps ==
  ASSUME SsInv, NEW r \in SsRequests, RevokeFamily(r)
  PROVE  SsInv'
<1>1. ending[r].at = "revoke" /\ ending[r] \in Ending /\ KnownOK(ending[r])
  BY DEF RevokeFamily, SsInv, SsTypes, KnownAll
<1>2. PICK t \in Tokens : t = ending[r].token
  BY <1>1 DEF KnownOK
<1>3. PICK g \in Families : g = Family(t)
  BY FamilyOfTokens
<1>4. /\ revoked' = revoked \cup FamilyTokens(g) /\ ended' = ended \cup {g}
      /\ ending' = Overtake(r, NoRequest)
      /\ UNCHANGED <<scope, issued, consumed, extra>>
  BY <1>2, <1>3 DEF RevokeFamily, RevokedWith
<1>5. NoRequest \in Ending /\ NoRequest.at = "none"
  BY DEF NoRequest, Ending, SsPlaces
<1>6. /\ ending' \in [SsRequests -> Ending] /\ ending'[r] = NoRequest
      /\ \A q \in SsRequests \ {r} :
           \/ /\ ending'[q] = ending[q]
              /\ \/ ending[q] = NoRequest
                 \/ Family(ending[q].token) # g
           \/ /\ ending'[q].at = ending[q].at /\ ending'[q].token = ending[q].token
              /\ ending'[q].stale /\ ending[q] # NoRequest
  BY <1>1, <1>2, <1>3, <1>4, <1>5, Overtaking
<1>7. SsTypes'
  BY <1>4, <1>6 DEF SsInv, SsTypes
<1>8. Starts'
  <2>1. issued[g] > 0
    BY <1>1, <1>2, <1>3, FamilyOfTokens DEF KnownOK, SsInv, SsTypes
  <2> QED BY <1>4, <2>1 DEF SsInv, Starts
<1>9. KnownAll'
  <2> SUFFICES ASSUME NEW q \in SsRequests PROVE KnownOK(ending[q])'
    BY DEF KnownAll
  <2>1. CASE q = r
    BY <1>5, <1>6, <2>1 DEF KnownOK
  <2>2. CASE q # r
    <3>1. KnownOK(ending[q])
      BY DEF SsInv, KnownAll
    <3>2. CASE ending'[q] = ending[q] /\ (ending[q] = NoRequest \/ Family(ending[q].token) # g)
      <4>1. ending[q].at # "none" => ending[q].token \notin FamilyTokens(g)
        BY <3>2 DEF FamilyTokens, NoRequest
      <4> QED BY <1>4, <3>1, <3>2, <4>1 DEF KnownOK
    <3>3. CASE /\ ending'[q].at = ending[q].at /\ ending'[q].token = ending[q].token
               /\ ending'[q].stale /\ ending[q] # NoRequest
      BY <1>4, <3>1, <3>3 DEF KnownOK
    <3> QED BY <1>6, <2>2, <3>2, <3>3
  <2> QED BY <2>1, <2>2
<1>10. ASSUME NEW f \in Families, f # g
       PROVE  Owing(f)' \subseteq Owing(f) /\ Live(f)' \subseteq Live(f) /\ Room(f)' = Room(f)
  BY <1>4, <1>5, <1>6, <1>10 DEF Owing, Live, FamilyTokens, Room
<1>11. Owing(g)' = {}
  BY <1>5, <1>6 DEF Owing, NoRequest
<1>12. OneOwes'
  BY <1>10, <1>11 DEF SsInv, OneOwes
<1>13. (Cardinality(Live(g)) + Owed(g) <= Room(g))'
  <2>1. Live(g)' = {}
    BY <1>4 DEF Live, FamilyTokens
  <2>2. Cardinality(Live(g)') = 0
    BY <2>1, FS_EmptySet, Zenon
  <2>3. Owed(g)' = 0
    BY <1>11 DEF Owed
  <2>4. Room(g)' \in Nat
    BY <1>7 DEF SsTypes, Room
  <2>5. Cardinality(Live(g)') + Owed(g)' <= Room(g)'
    BY <2>2, <2>3, <2>4
  <2> QED BY <2>5
<1>14. LiveOK'
  BY <1>10, <1>13, NoMore DEF LiveOK
<1> QED BY <1>7, <1>8, <1>9, <1>12, <1>14 DEF SsInv

LEMMA SsNextOK == SsInv /\ SsNext => SsInv'
<1> SUFFICES ASSUME SsInv, SsNext PROVE SsInv'
  OBVIOUS
<1>1. ASSUME NEW r \in SsRequests,
             \/ \E t \in Tokens : ReadToken(r, t) \/ ReadForLogout(r, t)
             \/ ConsumeToken(r) \/ ReadRole(r) \/ IssueToken(r) \/ RevokeFamily(r)
             \/ DropRequest(r)
      PROVE SsInv'
  BY <1>1, ReadTokenKeeps, ReadForLogoutKeeps, ConsumeTokenKeeps, ReadRoleKeeps,
     IssueTokenKeeps, RevokeFamilyKeeps, DropRequestKeeps
<1>2. ASSUME NEW f \in Families, Age(f) PROVE SsInv'
  BY <1>2, SessionsStay DEF Age
<1>3. ASSUME NEW m \in BOOLEAN, NEW c \in BOOLEAN, ChangeAccess(m, c) PROVE SsInv'
  BY <1>3, SessionsStay DEF ChangeAccess
<1> QED BY <1>1, <1>2, <1>3, StartSessionKeeps DEF SsNext

LEMMA SsUnchanged == SsInv /\ UNCHANGED SsVars => SsInv'
BY SessionsStay DEF SsVars

LEMMA SsInvImplies == SsInv => OneTokenPerSession
<1> SUFFICES ASSUME SsInv, NEW f \in Families
             PROVE  Cardinality(Live(f)) <= extra[f] + (IF f \in ended THEN 0 ELSE 1)
  BY DEF OneTokenPerSession
<1>1. Cardinality(Live(f)) + Owed(f) <= Room(f) /\ Owed(f) \in Nat /\ Room(f) \in Nat
  BY DEF SsInv, SsTypes, LiveOK, Owed, Room
<1>2. Cardinality(Live(f)) \in Nat
  BY FinitelyMany
<1>3. Cardinality(Live(f)) <= Room(f)
  BY <1>1, <1>2
<1> QED BY <1>3 DEF Room

-----------------------------------------------------------------------------
(***************************************************************************)
(* The tabs of a browser                                                   *)
(***************************************************************************)
\* The records of Browser.
BwKinds == {"poll", "login", "logout", "switch", "me", "boot", "bootMe"}
NamedScopes == Scopes \cup {"none"}
BwCookies == {NoCookie} \cup (BwFamilies \X (Nat \ {0}))
BwAccesses == [scope : NamedScopes, fresh : BOOLEAN]
BwAnswers == [result : {"none", "ok", "refused", "expired"}, scope : NamedScopes,
              cookie : BwCookies, clears : BOOLEAN]
BwRequests == [at : {"sent", "answered", "waiting"}, kind : BwKinds, where : NamedScopes,
               access : BwAccesses, retry : BOOLEAN, carries : BwCookies,
               on : Calls \cup {"nobody"}, answer : BwAnswers]
BwFlights == [at : {"sent", "answered", "self"}, cookie : BwCookies,
              from : Tabs \cup {"nobody"}, answer : BwAnswers]

BwTyped ==
    /\ tabOf \in [Calls -> Tabs]
    /\ call \in [Calls -> {NoCall} \cup BwRequests]
    /\ flight \in [Calls -> {NoFlight} \cup BwFlights]
    /\ tab \in [Tabs -> [access : BwAccesses, user : NamedScopes]]
    /\ cookie \in BwCookies
    /\ broughtBy \in Tabs \cup {"nobody"}
    /\ sessions \in [BwFamilies -> [scope : NamedScopes, latest : Nat]]

\* the tokens that are somewhere
Takes(c) == IF flight[c].at = "none" THEN NoCookie ELSE flight[c].cookie
Renews(c) == IF flight[c].at = "answered" THEN flight[c].answer.cookie ELSE NoCookie
Brings(c) == IF call[c].at = "answered" THEN call[c].answer.cookie ELSE NoCookie

\* The server has issued every token there is, and scoped its family.
Known(ck) == ck # NoCookie => ck[2] <= sessions[ck[1]].latest
TokensKnown ==
    /\ Known(cookie)
    /\ \A c \in Calls : Known(Takes(c)) /\ Known(Renews(c)) /\ Known(Brings(c))
    /\ \A f \in BwFamilies : sessions[f].latest > 0 => sessions[f].scope \in Scopes

\* What an answer says, by the kind of its call.
AnswerOK(c) ==
    LET kind == call[c].kind  answer == call[c].answer IN
    IF answer.result # "ok" THEN answer.cookie = NoCookie
    ELSE \/ /\ kind \in {"login", "switch"}
            /\ answer.cookie # NoCookie /\ ~answer.clears /\ answer.scope \in Scopes
            /\ sessions[answer.cookie[1]].scope = answer.scope
         \/ /\ kind \in {"me", "bootMe"}
            /\ answer.cookie = NoCookie /\ ~answer.clears /\ answer.scope = call[c].access.scope
         \/ /\ kind = "logout"
            /\ answer.cookie = NoCookie /\ answer.clears

\* A call that waits, waits for a refresh of its own tab.
CallOK(c) ==
    call[c].at # "idle" =>
        /\ call[c].kind = "boot" => call[c].at = "waiting"
        /\ call[c].kind \in {"login", "switch"} => call[c].where \in Scopes
        /\ call[c].at = "waiting" =>
              /\ call[c].on \in Calls /\ tabOf[call[c].on] = tabOf[c]
              /\ flight[call[c].on].at # "none"
        /\ call[c].at = "answered" => AnswerOK(c)

\* A refresh is answered with a token of the same family, if with any.
RenewalOK(c) ==
    LET answer == flight[c].answer IN
    IF answer.result # "ok" THEN answer.cookie = NoCookie
    ELSE /\ flight[c].cookie # NoCookie /\ answer.cookie # NoCookie /\ ~answer.clears
         /\ answer.cookie[1] = flight[c].cookie[1]
         /\ answer.scope = ScopeAfterRefresh(sessions[answer.cookie[1]].scope)

\* The call that has started a refresh waits for it, and it is the one of its tab.
FlightOK(c) ==
    flight[c].at # "none" =>
        /\ call[c].at = "waiting" /\ call[c].on = c
        /\ flight[c].at = "answered" => RenewalOK(c)
        /\ \A d \in Calls : flight[d].at # "none" /\ tabOf[d] = tabOf[c] => d = c

Plays(c, t, kinds) == tabOf[c] = t /\ call[c].at # "idle" /\ call[c].kind \in kinds

\* A token is for what the tab acts on: but a shared project is not kept with one.
Agrees(t, ck) ==
    ck # NoCookie /\ sessions[ck[1]].scope # "project" /\ tab[t].access.scope # "none" =>
        sessions[ck[1]].scope = tab[t].access.scope

\* A tab shows what it acts on, or a call will say what that is, or none did.
ShowsOrAsks(t) ==
    \/ tab[t].user = tab[t].access.scope
    \/ \E c \in Calls : Plays(c, t, {"me", "bootMe", "boot"})
    \/ t \in halfSwitched
\* Such a call is about the token the tab has.
AsksAbout(t) ==
    \A c \in Calls : Plays(c, t, {"me", "bootMe"}) =>
        /\ tab[t].access.scope # "none"
        /\ call[c].at # "waiting" => call[c].access.scope = tab[t].access.scope
\* A page that was just loaded shows nobody and asks for nothing else.
BootsAlone(t) ==
    \A c \in Calls : Plays(c, t, {"boot", "bootMe"}) =>
        /\ tab[t].user = "none"
        /\ \A d \in Calls : Plays(d, t, BwKinds \ {"login"}) => d = c
\* A cookie the tab has set itself is for what the tab acts on, in the jar and with a
\* refresh.
JarFits(t) == broughtBy = t => Agrees(t, cookie)
FlightsFit(t) ==
    \A c \in Calls : tabOf[c] = t /\ flight[c].at # "none" /\ flight[c].from = t =>
        Agrees(t, flight[c].cookie)
TabOK(t) == ShowsOrAsks(t) /\ AsksAbout(t) /\ BootsAlone(t) /\ JarFits(t) /\ FlightsFit(t)

TabsOK == \A t \in Tabs \ mixedUp : TabOK(t)

\* A token whose family has not been revoked, and the last of its family.
Usable(ck) == ck # NoCookie /\ ck[1] \notin dead
Latest(ck) == ck[2] = sessions[ck[1]].latest

\* Refreshes have different tokens, the latest when they are sent; a token that an answer
\* brings is the latest of its family, and nobody has it yet.
Distinct(c) == \A d \in Calls : Takes(c) # NoCookie /\ Takes(c) = Takes(d) => d = c
SentIsLatest(c) == flight[c].at = "sent" /\ Usable(flight[c].cookie) => Latest(flight[c].cookie)
RenewedIsLatest(c) ==
    Usable(Renews(c)) =>
        /\ Latest(Renews(c)) /\ Renews(c)[2] = Takes(c)[2] + 1
        /\ cookie # Renews(c) /\ \A d \in Calls : Takes(d) # Renews(c)
GrantedIsNew(c) ==
    Usable(Brings(c)) =>
        /\ Latest(Brings(c)) /\ Brings(c)[2] = 1
        /\ cookie # NoCookie => cookie[1] # Brings(c)[1]
        /\ \A d \in Calls : Takes(d) # NoCookie => Takes(d)[1] # Brings(c)[1]
        /\ \A d \in Calls : Brings(d) # NoCookie /\ Brings(d)[1] = Brings(c)[1] => d = c
\* The cookie is the latest, or a refresh that has it is answered with the next.
JarIsLatest ==
    Usable(cookie) => Latest(cookie) \/ \E c \in Calls : Renews(c) # NoCookie /\ Takes(c) = cookie

\* Until two tabs refresh with one token, or an answer is lost.
NothingTwice ==
    doubled \/ lostOne \/
      /\ reused = {} /\ JarIsLatest
      /\ \A c \in Calls : Distinct(c) /\ SentIsLatest(c) /\ RenewedIsLatest(c) /\ GrantedIsNew(c)

BwInv ==
    /\ BwTyped /\ TokensKnown
    /\ \A c \in Calls : CallOK(c) /\ FlightOK(c)
    /\ TabsOK /\ NothingTwice

(* A token is a pair of a family and a number, and no empty cookie. *)
LEMMA TokenTyped ==
    ASSUME NEW f \in BwFamilies, NEW n \in Nat \ {0}
    PROVE  <<f, n>> \in BwCookies /\ <<f, n>> # NoCookie /\ <<f, n>>[1] = f /\ <<f, n>>[2] = n
BY DEF BwCookies, NoCookie

LEMMA CookieTyped ==
    ASSUME NEW ck \in BwCookies, ck # NoCookie
    PROVE  ck[1] \in BwFamilies /\ ck[2] \in Nat \ {0} /\ ck = <<ck[1], ck[2]>>
BY DEF BwCookies

(* The records of Browser have the types the invariant gives them. *)
LEMMA BwRecordsTyped ==
    /\ NoAnswer \in BwAnswers /\ NoCookie \in BwCookies /\ NoAccess \in BwAccesses
    /\ \A s \in NamedScopes, ck \in BwCookies : Ok(s, ck) \in BwAnswers
    /\ \A b \in BOOLEAN : Refusal(b) \in BwAnswers /\ Expired(b) \in BwAnswers
    /\ \A s \in Scopes : Token(s) \in BwAccesses
BY DEF BwAnswers, BwCookies, BwAccesses, NoAnswer, NoCookie, NoAccess, Ok, Refusal, Expired,
    Token, NamedScopes, Scopes

(* A call or a refresh is under way or it is not. *)
LEMMA OpenOrIdle ==
    ASSUME BwTyped, NEW c \in Calls
    PROVE  /\ call[c] = NoCall <=> call[c].at = "idle"
           /\ call[c].at # "idle" => call[c] \in BwRequests
           /\ flight[c] = NoFlight <=> flight[c].at = "none"
           /\ flight[c].at # "none" => flight[c] \in BwFlights
<1>1. call[c] \in {NoCall} \cup BwRequests /\ flight[c] \in {NoFlight} \cup BwFlights
  BY DEF BwTyped
<1>2. NoCall.at = "idle" /\ NoFlight.at = "none"
  BY DEF NoCall, NoFlight
<1>3. \A r \in BwRequests : r.at # "idle"
  BY DEF BwRequests
<1>4. \A r \in BwFlights : r.at # "none"
  BY DEF BwFlights
<1> QED BY <1>1, <1>2, <1>3, <1>4

(* What a step of one tab leaves of another tab t: its store, its calls and *)
(* refreshes; and the cookie, unless it is cleared or is set by the other   *)
(* tab.                                                                     *)
Others(t) ==
    /\ tabOf' = tabOf /\ tab'[t] = tab[t] /\ (t \in halfSwitched => t \in halfSwitched')
    /\ \A c \in Calls : tabOf[c] = t => call'[c] = call[c] /\ flight'[c] = flight[c]
    /\ broughtBy' = t => cookie' = NoCookie \/ (cookie' = cookie /\ broughtBy = t)
    /\ \A f \in BwFamilies : sessions[f].latest > 0 => sessions'[f].scope = sessions[f].scope

(* Then it shows what it did, for the server keeps the scope of a session. *)
LEMMA TabStands ==
    ASSUME BwTyped, TokensKnown, NEW t \in Tabs, TabOK(t), Others(t)
    PROVE  TabOK(t)'
<1>1. ASSUME NEW ck \in BwCookies, Known(ck) PROVE ck # NoCookie
    => sessions'[ck[1]].scope = sessions[ck[1]].scope
  <2> HAVE ck # NoCookie
  <2>1. ck[1] \in BwFamilies /\ ck[2] \in Nat \ {0} BY CookieTyped
  <2>2. sessions[ck[1]].latest \in Nat BY <2>1 DEF BwTyped
  <2> QED BY <1>1, <2>1, <2>2 DEF Others, Known
<1>2. \A c \in Calls : Plays(c, t, {"me", "bootMe", "boot"})' = Plays(c, t, {"me", "bootMe", "boot"})
  BY DEF Plays, Others
<1>3. \A c \in Calls : Plays(c, t, {"me", "bootMe"})' = Plays(c, t, {"me", "bootMe"})
  BY DEF Plays, Others
<1>4. \A c \in Calls : Plays(c, t, {"boot", "bootMe"})' = Plays(c, t, {"boot", "bootMe"})
  BY DEF Plays, Others
<1>5. \A c \in Calls : Plays(c, t, BwKinds \ {"login"})' = Plays(c, t, BwKinds \ {"login"})
  BY DEF Plays, Others
<1>6. ShowsOrAsks(t)' /\ AsksAbout(t)' /\ BootsAlone(t)'
  BY <1>2, <1>3, <1>4, <1>5 DEF TabOK, ShowsOrAsks, AsksAbout, BootsAlone, Others, Plays
<1>7. JarFits(t)'
  <2>1. cookie \in BwCookies /\ Known(cookie) BY DEF BwTyped, TokensKnown
  <2> QED BY <2>1, <1>1 DEF TabOK, JarFits, Agrees, Others
<1>8. FlightsFit(t)'
  <2> SUFFICES ASSUME NEW c \in Calls, tabOf[c] = t, flight[c].at # "none", flight[c].from = t
       PROVE Agrees(t, flight[c].cookie)'
    BY DEF FlightsFit, Others
  <2>1. flight[c].cookie \in BwCookies BY OpenOrIdle DEF BwFlights
  <2>2. Known(flight[c].cookie) BY DEF TokensKnown, Takes
  <2>3. Agrees(t, flight[c].cookie) BY DEF TabOK, FlightsFit
  <2> QED BY <2>1, <2>2, <2>3, <1>1 DEF Agrees, Others
<1> QED BY <1>6, <1>7, <1>8 DEF TabOK

(* A call that starts is a login when the tab shows nobody and asks about *)
(* nobody.                                                                *)
LEMMA StartCallKeeps ==
    ASSUME BwInv, NEW c \in Calls, NEW kind \in BwKinds \ {"boot", "bootMe", "me"},
        NEW where \in NamedScopes, StartCall(c, kind, where),
       kind \in {"login", "switch"} => where \in Scopes
    PROVE  BwInv'
<1>0. BwTyped /\ TokensKnown /\ (\A d \in Calls : CallOK(d) /\ FlightOK(d)) /\ TabsOK
    /\ NothingTwice
  BY DEF BwInv
<1>1. PICK r \in BwRequests : /\ call' = [call EXCEPT ![c] = r]
                              /\ r.at = "sent"
                              /\ r.kind = kind
                              /\ r.where = where
                              /\ r.access = tab[tabOf[c]].access
  <2> tab[tabOf[c]].access \in BwAccesses /\ cookie \in BwCookies BY <1>0 DEF BwTyped
  <2>1. kind \in BwKinds /\ FALSE \in BOOLEAN OBVIOUS
  <2>2. Request(kind, where, tab[tabOf[c]].access, FALSE, cookie) \in BwRequests
    BY BwRecordsTyped, <2>1 DEF Request, BwRequests
  <2> QED BY <2>2 DEF StartCall, Request
<1>2. UNCHANGED <<tabOf, flight, tab, cookie, broughtBy, sessions, dead, idleOut, reused,
                  doubled, lostOne, mixedUp, halfSwitched, bwFaults>>
  BY DEF StartCall, Jar, ServerVars, GhostVars
<1>3. call[c].at = "idle"
  BY OpenOrIdle, <1>0 DEF StartCall
<1>4. call \in [Calls -> {NoCall} \cup BwRequests] /\ call'[c] = r
    /\ \A d \in Calls \ {c} : call'[d] = call[d]
  BY <1>0, <1>1 DEF BwTyped
<1>5. BwTyped'
  BY <1>0, <1>1, <1>2 DEF BwTyped
<1>6. \A d \in Calls : Takes(d)' = Takes(d) /\ Renews(d)' = Renews(d) /\ Brings(d)' = Brings(d)
  BY <1>1, <1>2, <1>3, <1>4 DEF Takes, Renews, Brings
<1>7. TokensKnown'
  BY <1>0, <1>2, <1>6 DEF TokensKnown, Known
<1>8. ASSUME NEW d \in Calls PROVE CallOK(d)' /\ FlightOK(d)'
  BY <1>0, <1>1, <1>2, <1>3, <1>4 DEF CallOK, FlightOK, AnswerOK, RenewalOK
<1>9. TabsOK'
  <2> SUFFICES ASSUME NEW t \in Tabs, t \notin mixedUp, TabOK(t) PROVE TabOK(t)'
    BY <1>0, <1>2 DEF TabsOK
  <2>1. CASE t # tabOf[c]
    BY <2>1, <1>0, <1>2, <1>4, TabStands DEF Others
  <2>2. CASE t = tabOf[c]
    <3>1. ~Plays(c, t, {"boot", "bootMe", "me"})
      BY <1>3 DEF Plays
    <3>2. r.kind \notin {"boot", "bootMe", "me"} /\ call'[c].kind = kind
      BY <1>1, <1>4
    <3>3. tab'[t] = tab[t] /\ tabOf' = tabOf BY <1>2
    <3>4. ShowsOrAsks(t)'
      BY <3>1, <3>3, <1>2, <1>4 DEF TabOK, ShowsOrAsks, Plays
    <3>5. AsksAbout(t)'
      BY <3>1, <3>2, <3>3, <1>4 DEF TabOK, AsksAbout, Plays
    <3>6. BootsAlone(t)'
      <4>1. tab[t].user = "none" => kind = "login"
        BY <2>2 DEF StartCall
      <4> QED BY <3>1, <3>2, <3>3, <4>1, <1>4 DEF TabOK, BootsAlone, Plays
    <3>7. JarFits(t)' /\ FlightsFit(t)'
      BY <3>3, <1>2 DEF TabOK, JarFits, FlightsFit, Agrees
    <3> QED BY <3>4, <3>5, <3>6, <3>7 DEF TabOK
  <2> QED BY <2>1, <2>2
<1>10. NothingTwice'
  BY <1>0, <1>2, <1>6 DEF NothingTwice, JarIsLatest, Distinct, SentIsLatest, RenewedIsLatest,
      GrantedIsNew, Usable, Latest
<1> QED BY <1>5, <1>7, <1>8, <1>9, <1>10 DEF BwInv

(* A step that brings forth no token: answers may be thrown away, sessions *)
(* revoked and the cookie cleared, but no answer with a new token is lost  *)
(* unnoticed.                                                              *)
Shrinks ==
    /\ dead \subseteq dead' /\ (reused = {} => reused' = {} \/ doubled \/ lostOne)
    /\ (doubled => doubled') /\ (lostOne => lostOne')
    /\ \A f \in BwFamilies : sessions'[f].latest = sessions[f].latest
    /\ cookie' \in {cookie, NoCookie}
    /\ \A c \in Calls :
         /\ Brings(c)' \in {Brings(c), NoCookie}
         /\ Takes(c)' \in {Takes(c), NoCookie}
         /\ \/ /\ Renews(c)' = Renews(c)
               /\ Renews(c) # NoCookie => Takes(c)' = Takes(c)
            \/ /\ Renews(c)' = NoCookie
               /\ lostOne' \/ Renews(c) = NoCookie
         /\ flight'[c].at = "sent" => flight[c].at = "sent"
            /\ flight'[c].cookie = flight[c].cookie

LEMMA TokensTyped ==
    ASSUME BwTyped, NEW c \in Calls
    PROVE  Takes(c) \in BwCookies /\ Renews(c) \in BwCookies /\ Brings(c) \in BwCookies
        /\ cookie \in BwCookies
<1>1. NoCookie \in BwCookies /\ cookie \in BwCookies BY DEF BwCookies, BwTyped
<1>2. flight[c].at # "none" => flight[c].cookie \in BwCookies
    /\ flight[c].answer.cookie \in BwCookies
  BY OpenOrIdle DEF BwFlights, BwAnswers
<1>3. call[c].at # "idle" => call[c].answer.cookie \in BwCookies
  BY OpenOrIdle DEF BwRequests, BwAnswers
<1> QED BY <1>1, <1>2, <1>3 DEF Takes, Renews, Brings

(* Such a step presents nothing twice. *)
LEMMA NothingTwiceShrinks ==
    ASSUME BwTyped, BwTyped', NothingTwice, Shrinks
    PROVE  NothingTwice'
<1> SUFFICES ASSUME ~doubled', ~lostOne' PROVE NothingTwice'
  BY DEF NothingTwice
<1>0. ~doubled /\ ~lostOne BY DEF Shrinks
<1>1. reused' = {} BY <1>0 DEF NothingTwice, Shrinks
<1>2. ASSUME NEW ck \in BwCookies PROVE /\ Usable(ck)' => Usable(ck)
                                        /\ ck # NoCookie => Latest(ck)' = Latest(ck)
  <2>1. ck # NoCookie => ck[1] \in BwFamilies BY CookieTyped
  <2> QED BY <2>1 DEF Usable, Latest, Shrinks
<1>3. \A c \in Calls : Takes(c) \in BwCookies /\ Renews(c) \in BwCookies
    /\ Brings(c) \in BwCookies
  BY TokensTyped
<1>4. cookie \in BwCookies /\ NoCookie \in BwCookies /\ \A f : ~Usable(NoCookie)
  BY DEF BwTyped, BwCookies, Usable
<1>5. \A c \in Calls : Renews(c)' = Renews(c)
  BY DEF Shrinks
<1>6. \A c \in Calls : Renews(c) # NoCookie => Takes(c)' = Takes(c)
  BY <1>5 DEF Shrinks
<1>7. JarIsLatest'
  <2> SUFFICES ASSUME Usable(cookie)'
      PROVE Latest(cookie)' \/ \E c \in Calls : (Renews(c) # NoCookie /\ Takes(c) = cookie)'
    BY DEF JarIsLatest
  <2>1. cookie' = cookie BY DEF Shrinks, Usable
  <2>2. Usable(cookie) BY <2>1, <1>2, <1>4 DEF Usable
  <2>3. Latest(cookie) \/ \E c \in Calls : Renews(c) # NoCookie /\ Takes(c) = cookie
    BY <1>0, <2>2 DEF NothingTwice, JarIsLatest
  <2>4. CASE Latest(cookie)
    BY <2>4, <2>1, <2>2, <1>2, <1>4 DEF Usable, Latest
  <2>5. CASE \E c \in Calls : Renews(c) # NoCookie /\ Takes(c) = cookie
    BY <2>5, <2>1, <1>5, <1>6
  <2> QED BY <2>3, <2>4, <2>5
<1>8. ASSUME NEW c \in Calls PROVE Distinct(c)' /\ SentIsLatest(c)' /\ RenewedIsLatest(c)'
    /\ GrantedIsNew(c)'
  <2>0. Distinct(c) /\ SentIsLatest(c) /\ RenewedIsLatest(c) /\ GrantedIsNew(c)
    BY <1>0 DEF NothingTwice
  <2>1. Distinct(c)'
    BY <2>0 DEF Distinct, Shrinks
  <2>2. SentIsLatest(c)'
    <3> SUFFICES ASSUME flight'[c].at = "sent", Usable(flight[c].cookie)'
        PROVE Latest(flight[c].cookie)'
      BY DEF SentIsLatest
    <3>1. flight[c].at = "sent" /\ flight'[c].cookie = flight[c].cookie BY DEF Shrinks
    <3>2. flight[c].cookie \in BwCookies BY <1>3, <3>1 DEF Takes
    <3> QED BY <3>1, <3>2, <2>0, <1>2 DEF SentIsLatest, Usable, Latest
  <2>3. RenewedIsLatest(c)'
    <3> SUFFICES ASSUME Usable(Renews(c))' PROVE /\ Latest(Renews(c))' /\ Renews(c)'[2] = Takes(c)'[2] + 1
                                               /\ cookie' # Renews(c)'
                                                  /\ \A d \in Calls : Takes(d)' # Renews(c)'
      BY DEF RenewedIsLatest
    <3>1. Renews(c)' = Renews(c) /\ Renews(c) # NoCookie /\ Takes(c)' = Takes(c) BY <1>5, <1>6
        DEF Usable
    <3>2. Usable(Renews(c)) /\ Latest(Renews(c))'
      <4>1. Usable(Renews(c)) BY <3>1, <1>2, <1>3 DEF Usable
      <4> QED BY <4>1, <3>1, <1>2, <1>3, <2>0 DEF RenewedIsLatest, Latest
    <3> QED BY <3>1, <3>2, <2>0 DEF RenewedIsLatest, Shrinks
  <2>4. GrantedIsNew(c)'
    <3> SUFFICES ASSUME Usable(Brings(c))' PROVE GrantedIsNew(c)'
      BY DEF GrantedIsNew
    <3>1. Brings(c)' = Brings(c) /\ Brings(c) # NoCookie BY DEF Usable, Shrinks
    <3>2. Usable(Brings(c)) BY <3>1, <1>2, <1>3 DEF Usable
    <3>3. Latest(Brings(c))' BY <3>2, <3>1, <1>2, <1>3, <2>0 DEF GrantedIsNew, Latest
    <3> QED BY <3>1, <3>2, <3>3, <2>0 DEF GrantedIsNew, Shrinks
  <2> QED BY <2>1, <2>2, <2>3, <2>4
<1> QED BY <1>1, <1>7, <1>8 DEF NothingTwice

(* A call that awaits a refresh joins the one of its tab, and if there is  *)
(* none takes the cookie along: the latest token of its family, or another *)
(* refresh has it and belongs to another tab (refreshAccessToken).         *)
LEMMA AwaitKeeps ==
    ASSUME BwInv, NEW c \in Calls, NEW w \in BwRequests, AwaitRefresh(c, w),
           UNCHANGED <<tabOf, tab, cookie, broughtBy, sessions, dead, idleOut, reused,
                       lostOne, mixedUp, halfSwitched>>,
           w.kind \in {"login", "switch"} => w.where \in Scopes,
           \/ /\ call[c].at = "answered" /\ w.kind = call[c].kind /\ w.kind # "boot"
           \/ /\ call[c].at = "idle" /\ w.kind = "boot" /\ tab[tabOf[c]].user = "none"
              /\ \A d \in Calls : tabOf[d] = tabOf[c] => call[d].at = "idle"
    PROVE  BwInv'
<1>0. BwTyped /\ TokensKnown /\ (\A d \in Calls : CallOK(d) /\ FlightOK(d)) /\ TabsOK
    /\ NothingTwice
  BY DEF BwInv
<1> DEFINE t == tabOf[c]
            d == RefreshOf(c)
            new == [at |-> "sent", cookie |-> cookie, from |-> broughtBy, answer |-> NoAnswer]
<1>1. t \in Tabs BY <1>0 DEF BwTyped
<1>2. /\ d \in Calls /\ tabOf[d] = t
      /\ \/ d = c /\ \A e \in Calls : tabOf[e] = t => flight[e].at = "none"
         \/ d # c /\ flight[d].at # "none"
  <2>1. flight[c].at = "none" BY <1>0 DEF FlightOK
  <2>2. Flights(t) = {e \in Calls : tabOf[e] = t /\ flight[e].at # "none"}
    BY <1>0, OpenOrIdle DEF Flights, CallsOf
  <2>3. CASE Flights(t) = {}
    BY <2>2, <2>3 DEF RefreshOf
  <2>4. CASE Flights(t) # {}
    <3>1. d = CHOOSE e \in Flights(t) : TRUE BY <2>4 DEF RefreshOf
    <3>2. d \in Flights(t) BY <2>4, <3>1
    <3> QED BY <3>2, <2>2, <2>1
  <2> QED BY <2>3, <2>4
<1>3. PICK r \in BwRequests : /\ call' = [call EXCEPT ![c] = r]
                              /\ r.at = "waiting"
                              /\ r.on = d
                              /\ r.kind = w.kind
                              /\ r.where = w.where
  <2>1. [w EXCEPT !.at = "waiting", !.on = d] \in BwRequests
    BY <1>2 DEF BwRequests
  <2>2. call' = [call EXCEPT ![c] = [w EXCEPT !.at = "waiting", !.on = d]]
    BY DEF AwaitRefresh
  <2> DEFINE r == [w EXCEPT !.at = "waiting", !.on = d]
  <2>3. r.at = "waiting" /\ r.on = d /\ r.kind = w.kind /\ r.where = w.where
    BY DEF BwRequests
  <2> QED BY <2>1, <2>2, <2>3
<1>4. call'[c] = r /\ \A e \in Calls \ {c} : call'[e] = call[e]
  BY <1>0, <1>3 DEF BwTyped
<1>5. new \in BwFlights /\ new.at = "sent" /\ new.cookie = cookie /\ new.from = broughtBy
  BY <1>0, BwRecordsTyped DEF BwFlights, BwTyped
<1>6. flight' = IF d = c THEN [flight EXCEPT ![c] = new] ELSE flight
  BY DEF AwaitRefresh
<1>7. flight' \in [Calls -> {NoFlight} \cup BwFlights]
  BY <1>0, <1>5, <1>6 DEF BwTyped
<1>8. (d = c => flight'[c] = new) /\ (d # c => flight'[c] = flight[c])
    /\ \A e \in Calls \ {c} : flight'[e] = flight[e]
  BY <1>0, <1>6 DEF BwTyped
<1>9. BwTyped'
  BY <1>0, <1>3, <1>7 DEF BwTyped
<1>10. doubled' = (doubled \/ (d = c /\ \E e \in Calls : tabOf[e] # t /\ flight[e].at # "none"
    /\ flight[e].cookie = cookie))
  BY <1>0, OpenOrIdle DEF AwaitRefresh, CallsOf
<1>11. \A e \in Calls : Brings(e)' \in {Brings(e), NoCookie} /\ Renews(e)' = Renews(e)
  BY <1>2, <1>3, <1>4, <1>5, <1>8 DEF Brings, Renews
<1>12. /\ d = c => Takes(c)' = cookie /\ Takes(c) = NoCookie
       /\ \A e \in Calls : e # c \/ d # c => Takes(e)' = Takes(e)
  BY <1>2, <1>5, <1>8 DEF Takes
<1>13. TokensKnown'
  BY <1>0, <1>11, <1>12 DEF TokensKnown, Known
<1>14. ASSUME NEW e \in Calls PROVE CallOK(e)' /\ FlightOK(e)'
  <2>0. CallOK(e) /\ FlightOK(e) BY <1>0
  <2>1. CallOK(e)'
    <3>1. CASE e = c
      BY <3>1, <1>2, <1>3, <1>4, <1>5, <1>8 DEF CallOK
    <3>2. CASE e # c
      BY <3>2, <2>0, <1>2, <1>3, <1>4, <1>5, <1>8 DEF CallOK, AnswerOK
    <3> QED BY <3>1, <3>2
  <2>2. FlightOK(e)'
    BY <2>0, <1>1, <1>2, <1>3, <1>4, <1>5, <1>8 DEF FlightOK, RenewalOK
  <2> QED BY <2>1, <2>2
<1>15. TabsOK'
  <2> SUFFICES ASSUME NEW u \in Tabs, u \notin mixedUp, TabOK(u) PROVE TabOK(u)'
    BY <1>0 DEF TabsOK
  <2>1. CASE u # t
    BY <2>1, <1>0, <1>4, <1>8, TabStands DEF Others
  <2>2. CASE u = t
    <3>1. tab'[u] = tab[u] /\ tabOf' = tabOf OBVIOUS
    <3>2. ShowsOrAsks(u)'
      BY <3>1, <2>2, <1>3, <1>4 DEF TabOK, ShowsOrAsks, Plays
    <3>3. AsksAbout(u)'
      BY <3>1, <2>2, <1>3, <1>4 DEF TabOK, AsksAbout, Plays
    <3>4. BootsAlone(u)'
      BY <3>1, <2>2, <1>3, <1>4 DEF TabOK, BootsAlone, Plays, BwKinds
    <3>5. JarFits(u)'
      BY <3>1 DEF TabOK, JarFits, Agrees
    <3>6. FlightsFit(u)'
      BY <3>1, <1>5, <1>8 DEF TabOK, FlightsFit, JarFits, Agrees
    <3> QED BY <3>2, <3>3, <3>4, <3>5, <3>6 DEF TabOK
  <2> QED BY <2>1, <2>2
<1>16. NothingTwice'
  <2>1. CASE d # c
    <3>1. Shrinks
      <4>1. \A e \in Calls : flight'[e] = flight[e] /\ Takes(e)' = Takes(e) BY <2>1, <1>8, <1>12
      <4>2. doubled => doubled' BY <2>1, <1>10
      <4>3. \A e \in Calls : Renews(e)' = Renews(e) /\ Brings(e)' \in {Brings(e), NoCookie}
          BY <1>11
      <4> QED BY <4>1, <4>2, <4>3 DEF Shrinks
    <3> QED BY <3>1, <1>0, <1>9, NothingTwiceShrinks
  <2>2. CASE d = c
    <3> SUFFICES ASSUME ~doubled', ~lostOne' PROVE NothingTwice'
      BY DEF NothingTwice
    <3>1. reused = {} /\ JarIsLatest /\ \A e \in Calls : Distinct(e) /\ SentIsLatest(e)
        /\ RenewedIsLatest(e) /\ GrantedIsNew(e)
      BY <1>0, <1>10 DEF NothingTwice
    <3>2. \A e \in Calls : flight[e].at # "none" => flight[e].cookie # cookie
      BY <1>2, <1>10, <2>2
    <3>3. \A e \in Calls : Takes(e) # cookie \/ cookie = NoCookie
      BY <3>2 DEF Takes
    <3>4. ASSUME Usable(cookie) PROVE Latest(cookie)
      <4>1. \A e \in Calls : Renews(e) # NoCookie => flight[e].at # "none"
        BY DEF Renews
      <4> QED BY <3>1, <3>3, <3>4 DEF JarIsLatest, Usable
    <3>5. JarIsLatest'
      BY <3>4 DEF JarIsLatest, Usable, Latest
    <3>6. ASSUME NEW e \in Calls PROVE Distinct(e)' /\ SentIsLatest(e)' /\ RenewedIsLatest(e)'
        /\ GrantedIsNew(e)'
      <4>1. Distinct(e)'
        BY <3>1, <3>3, <2>2, <1>12 DEF Distinct
      <4>2. SentIsLatest(e)'
        BY <3>1, <3>4, <2>2, <1>5, <1>8 DEF SentIsLatest, Usable, Latest
      <4>3. RenewedIsLatest(e)'
        <5>1. Renews(c) = NoCookie BY <1>2, <2>2 DEF Renews
        <5> QED BY <5>1, <3>1, <2>2, <1>11, <1>12 DEF RenewedIsLatest, Usable, Latest
      <4>4. GrantedIsNew(e)'
        BY <3>1, <2>2, <1>11, <1>12 DEF GrantedIsNew, Usable, Latest
      <4> QED BY <4>1, <4>2, <4>3, <4>4
    <3> QED BY <3>1, <3>5, <3>6 DEF NothingTwice
  <2> QED BY <2>1, <2>2
<1> QED BY <1>9, <1>13, <1>14, <1>15, <1>16 DEF BwInv

LEMMA ArrivesExpiredKeeps ==
    ASSUME BwInv, NEW c \in Calls, ArrivesExpired(c)
    PROVE  BwInv'
<1>0. BwTyped /\ CallOK(c) BY DEF BwInv
<1>1. call[c].at = "answered" /\ call[c] \in BwRequests BY <1>0, OpenOrIdle DEF ArrivesExpired
<1> DEFINE w == Request(call[c].kind, call[c].where, NoAccess, TRUE, NoCookie)
<1>2. w \in BwRequests /\ w.kind = call[c].kind /\ w.where = call[c].where
  BY <1>1, BwRecordsTyped DEF Request, BwRequests
<1>3. w.kind # "boot" /\ (w.kind \in {"login", "switch"} => w.where \in Scopes)
  BY <1>0, <1>1, <1>2 DEF CallOK
<1>4. AwaitRefresh(c, w)
    /\ UNCHANGED <<tabOf, tab, cookie, broughtBy, sessions, dead, idleOut, reused, lostOne,
                   mixedUp, halfSwitched>>
  BY DEF ArrivesExpired, Jar, ServerVars
<1> HIDE DEF w
<1> QED BY <1>1, <1>2, <1>3, <1>4, AwaitKeeps

LEMMA BootstrapKeeps ==
    ASSUME BwInv, NEW c \in Calls, Bootstrap(c)
    PROVE  BwInv'
<1>0. BwTyped BY DEF BwInv
<1> DEFINE w == Request("boot", "none", NoAccess, FALSE, NoCookie)
<1>1. w \in BwRequests /\ w.kind = "boot"
  BY BwRecordsTyped DEF Request, BwRequests, BwKinds, NamedScopes
<1>2. tab[tabOf[c]].user = "none"
  BY DEF Bootstrap, SignedOut
<1>3. \A d \in Calls : tabOf[d] = tabOf[c] => call[d].at = "idle"
  BY DEF Bootstrap, CallsOf, NoCall
<1>4. AwaitRefresh(c, w)
    /\ UNCHANGED <<tabOf, tab, cookie, broughtBy, sessions, dead, idleOut, reused, lostOne,
                   mixedUp, halfSwitched>>
  BY DEF Bootstrap, Jar, ServerVars
<1> HIDE DEF w
<1> QED BY <1>1, <1>2, <1>3, <1>4, AwaitKeeps

(* A login or a switch is answered with the first token of a family nobody *)
(* has heard of.                                                           *)
LEMMA NewSessionKeeps ==
    ASSUME BwInv, NEW c \in Calls, call[c].at = "sent", call[c].kind \in {"login", "switch"},
        NewSession(c),
           UNCHANGED <<tabOf, flight, tab, cookie, broughtBy, dead, idleOut, reused, doubled,
                       lostOne, mixedUp, halfSwitched>>
    PROVE  BwInv'
<1>0. BwTyped /\ TokensKnown /\ (\A d \in Calls : CallOK(d) /\ FlightOK(d)) /\ TabsOK
    /\ NothingTwice
  BY DEF BwInv
<1>1. call[c] \in BwRequests /\ call[c].where \in Scopes BY <1>0, OpenOrIdle DEF CallOK
<1>2. PICK f \in BwFamilies :
        /\ sessions[f].latest = 0
        /\ sessions' = [sessions EXCEPT ![f] = [scope |-> call[c].where, latest |-> 1]]
        /\ call' = [call EXCEPT ![c].at = "answered", ![c].answer = Ok(call[c].where, <<f, 1>>)]
  BY DEF NewSession
<1>3. <<f, 1>> \in BwCookies /\ <<f, 1>> # NoCookie /\ <<f, 1>>[1] = f /\ <<f, 1>>[2] = 1
  BY TokenTyped
<1> DEFINE ck == <<f, 1>>
<1> HIDE DEF ck
<1>4. PICK r \in BwRequests : /\ call' = [call EXCEPT ![c] = r]
                              /\ r.at = "answered"
                              /\ r.kind = call[c].kind
                              /\ r.where = call[c].where /\ r.access = call[c].access
                              /\ r.answer.result = "ok" /\ r.answer.scope = call[c].where
                              /\ r.answer.cookie = ck /\ ~r.answer.clears
  <2> DEFINE a == Ok(call[c].where, <<f, 1>>)
              r == [call[c] EXCEPT !.at = "answered", !.answer = a]
  <2>1. a \in BwAnswers /\ a.result = "ok" /\ a.scope = call[c].where /\ a.cookie = ck
      /\ ~a.clears
    BY <1>1, <1>3, BwRecordsTyped DEF Ok, ck, NamedScopes
  <2> HIDE DEF a
  <2>2. call' = [call EXCEPT ![c] = r]
    BY <1>0, <1>2 DEF BwTyped, a
  <2>3. r \in BwRequests
    BY <1>1, <2>1 DEF BwRequests
  <2>4. r.at = "answered" /\ r.kind = call[c].kind /\ r.where = call[c].where
      /\ r.access = call[c].access /\ r.answer = a
    BY <1>1 DEF BwRequests
  <2> QED BY <2>1, <2>2, <2>3, <2>4
<1>5. call'[c] = r /\ \A e \in Calls \ {c} : call'[e] = call[e]
  BY <1>0, <1>4 DEF BwTyped
<1>6. sessions'[f].scope = call[c].where /\ sessions'[f].latest = 1
    /\ \A g \in BwFamilies \ {f} : sessions'[g] = sessions[g]
  BY <1>0, <1>2 DEF BwTyped
<1>7. BwTyped'
  <2>1. [scope |-> call[c].where, latest |-> 1] \in [scope : NamedScopes, latest : Nat]
    BY <1>1 DEF NamedScopes
  <2>2. sessions' \in [BwFamilies -> [scope : NamedScopes, latest : Nat]]
    BY <1>0, <1>2, <2>1 DEF BwTyped
  <2>3. call' \in [Calls -> {NoCall} \cup BwRequests]
    BY <1>0, <1>4 DEF BwTyped
  <2> QED BY <1>0, <2>2, <2>3 DEF BwTyped
<1>8. /\ ck \in BwCookies /\ ck # NoCookie /\ ck[1] = f /\ ck[2] = 1
  BY <1>3 DEF ck
<1>9. ASSUME NEW k \in BwCookies, Known(k) PROVE k # NoCookie => k[1] \in BwFamilies \ {f}
  <2> HAVE k # NoCookie
  <2>1. k[1] \in BwFamilies /\ k[2] \in Nat \ {0} BY CookieTyped
  <2> QED BY <2>1, <1>2, <1>9 DEF Known
<1>10. /\ \A e \in Calls : Takes(e)' = Takes(e) /\ Renews(e)' = Renews(e)
       /\ \A e \in Calls \ {c} : Brings(e)' = Brings(e)
       /\ Brings(c)' = ck
  BY <1>4, <1>5 DEF Takes, Renews, Brings
<1>11. /\ \A e \in Calls : /\ Takes(e) \in BwCookies
                           /\ Takes(e) # NoCookie => Takes(e)[1] \in BwFamilies \ {f}
                           /\ Renews(e) \in BwCookies /\ (Renews(e) # NoCookie
                              => Renews(e)[1] \in BwFamilies \ {f})
                           /\ Brings(e) \in BwCookies /\ (Brings(e) # NoCookie
                              => Brings(e)[1] \in BwFamilies \ {f})
       /\ cookie \in BwCookies /\ (cookie # NoCookie => cookie[1] \in BwFamilies \ {f})
  BY <1>0, <1>9, TokensTyped DEF TokensKnown
<1>12. TokensKnown'
  <2>1. Known(cookie)' BY <1>0, <1>6, <1>11 DEF TokensKnown, Known
  <2>2. ASSUME NEW e \in Calls PROVE Known(Takes(e))' /\ Known(Renews(e))' /\ Known(Brings(e))'
    BY <1>0, <1>6, <1>8, <1>10, <1>11 DEF TokensKnown, Known
  <2>3. ASSUME NEW g \in BwFamilies, sessions'[g].latest > 0 PROVE sessions'[g].scope \in Scopes
    BY <1>0, <1>1, <1>6, <2>3 DEF TokensKnown
  <2> QED BY <2>1, <2>2, <2>3 DEF TokensKnown
<1>13. ASSUME NEW e \in Calls PROVE CallOK(e)' /\ FlightOK(e)'
  <2>0. CallOK(e) /\ FlightOK(e) BY <1>0
  <2>1. CallOK(e)'
    <3>1. CASE e = c
      BY <3>1, <1>1, <1>4, <1>5, <1>6, <1>8 DEF CallOK, AnswerOK
    <3>2. CASE e # c
      <4>1. call[e].at = "answered" => Brings(e) = call[e].answer.cookie BY DEF Brings
      <4> QED BY <3>2, <4>1, <2>0, <1>4, <1>5, <1>6, <1>11 DEF CallOK, AnswerOK
    <3> QED BY <3>1, <3>2
  <2>2. FlightOK(e)'
    <3>1. flight[e].at = "answered" => Renews(e) = flight[e].answer.cookie BY DEF Renews
    <3> QED BY <3>1, <2>0, <1>4, <1>5, <1>6, <1>11 DEF FlightOK, RenewalOK
  <2> QED BY <2>1, <2>2
<1>14. TabsOK'
  <2> SUFFICES ASSUME NEW u \in Tabs, u \notin mixedUp, TabOK(u) PROVE TabOK(u)'
    BY <1>0 DEF TabsOK
  <2>1. CASE u # tabOf[c]
    <3>1. \A g \in BwFamilies : sessions[g].latest > 0 => sessions'[g].scope = sessions[g].scope
      BY <1>2, <1>6
    <3>2. Others(u)
      BY <2>1, <3>1, <1>5 DEF Others
    <3> QED BY <3>2, <1>0, TabStands
  <2>2. CASE u = tabOf[c]
    <3>1. tab'[u] = tab[u] /\ tabOf' = tabOf OBVIOUS
    <3>2. \A e \in Calls : e # c \/ (~Plays(c, u, {"boot", "bootMe", "me"})
        /\ ~Plays(c, u, {"boot", "bootMe", "me"})')
      BY <1>4, <1>5 DEF Plays
    <3>3. ShowsOrAsks(u)'
      BY <3>1, <3>2, <1>5 DEF TabOK, ShowsOrAsks, Plays
    <3>4. AsksAbout(u)'
      BY <3>1, <3>2, <1>4, <1>5 DEF TabOK, AsksAbout, Plays
    <3>5. BootsAlone(u)'
      BY <3>1, <3>2, <1>4, <1>5 DEF TabOK, BootsAlone, Plays
    <3>6. JarFits(u)'
      BY <3>1, <1>6, <1>11 DEF TabOK, JarFits, Agrees
    <3>7. FlightsFit(u)'
      <4>1. \A e \in Calls : flight[e].at # "none" => flight[e].cookie = Takes(e) BY DEF Takes
      <4> QED BY <3>1, <4>1, <1>6, <1>11 DEF TabOK, FlightsFit, Agrees
    <3> QED BY <3>3, <3>4, <3>5, <3>6, <3>7 DEF TabOK
  <2> QED BY <2>1, <2>2
<1>15. NothingTwice'
  <2> SUFFICES ASSUME ~doubled, ~lostOne PROVE NothingTwice'
    BY DEF NothingTwice
  <2>1. reused = {} /\ JarIsLatest /\ \A e \in Calls : Distinct(e) /\ SentIsLatest(e)
      /\ RenewedIsLatest(e) /\ GrantedIsNew(e)
    BY <1>0 DEF NothingTwice
  <2>2. JarIsLatest'
    BY <2>1, <1>6, <1>10, <1>11 DEF JarIsLatest, Usable, Latest
  <2>3. ASSUME NEW e \in Calls PROVE Distinct(e)' /\ SentIsLatest(e)' /\ RenewedIsLatest(e)'
      /\ GrantedIsNew(e)'
    <3>1. Distinct(e)' BY <2>1, <1>10 DEF Distinct
    <3>2. SentIsLatest(e)'
      <4>1. flight[e].at = "sent" => flight[e].cookie = Takes(e) BY DEF Takes
      <4> QED BY <4>1, <2>1, <1>6, <1>11 DEF SentIsLatest, Usable, Latest
    <3>3. RenewedIsLatest(e)'
      BY <2>1, <1>6, <1>10, <1>11 DEF RenewedIsLatest, Usable, Latest
    <3>4. GrantedIsNew(e)'
      <4>1. CASE e = c
        BY <4>1, <2>1, <1>6, <1>8, <1>10, <1>11 DEF GrantedIsNew, Usable, Latest
      <4>2. CASE e # c
        BY <4>2, <2>1, <1>6, <1>8, <1>10, <1>11 DEF GrantedIsNew, Usable, Latest
      <4> QED BY <4>1, <4>2
    <3> QED BY <3>1, <3>2, <3>3, <3>4
  <2> QED BY <2>1, <2>2, <2>3 DEF NothingTwice
<1> QED BY <1>7, <1>12, <1>13, <1>14, <1>15 DEF BwInv

(* A step of one call and its tab that brings no token and leaves the *)
(* refreshes.                                                         *)
CallMoves(c, r) ==
    /\ call[c].at # "waiting" /\ r.at # "waiting"
    /\ call' = [call EXCEPT ![c] = r]
       /\ UNCHANGED <<tabOf, flight, sessions, reused, doubled, lostOne>>
    /\ r.at = "answered" => r.answer.cookie = NoCookie
    /\ dead \subseteq dead'
    /\ cookie' = NoCookie \/ (cookie' = cookie /\ broughtBy' = broughtBy)
    /\ broughtBy' \in Tabs \cup {"nobody"}
    /\ \A t \in Tabs : t # tabOf[c] => tab'[t] = tab[t] /\ (t \in mixedUp <=> t \in mixedUp')
        /\ (t \in halfSwitched => t \in halfSwitched')

(* What is left to show of it is about that call and that tab. *)
LEMMA CallMovesKeeps ==
    ASSUME BwInv, NEW c \in Calls, NEW r \in {NoCall} \cup BwRequests, CallMoves(c, r),
           tab' \in [Tabs -> [access : BwAccesses, user : NamedScopes]],
           CallOK(c)', NEW t \in Tabs, t = tabOf[c], t \notin mixedUp' => TabOK(t)'
    PROVE  BwInv'
<1>0. BwTyped /\ TokensKnown /\ (\A d \in Calls : CallOK(d) /\ FlightOK(d)) /\ TabsOK
    /\ NothingTwice
  BY DEF BwInv
<1>1. call'[c] = r /\ \A e \in Calls \ {c} : call'[e] = call[e]
  BY <1>0 DEF BwTyped, CallMoves
<1>2. UNCHANGED <<tabOf, flight, sessions, reused, doubled, lostOne>> BY DEF CallMoves
<1>3. cookie' \in {cookie, NoCookie} /\ call[c].at # "waiting" /\ r.at # "waiting" BY
    DEF CallMoves
<1>4. BwTyped'
  <2>1. call' \in [Calls -> {NoCall} \cup BwRequests]
    BY <1>0 DEF BwTyped, CallMoves
  <2>2. cookie' \in BwCookies /\ broughtBy' \in Tabs \cup {"nobody"}
    BY <1>0, <1>3, BwRecordsTyped DEF CallMoves, BwTyped
  <2> QED BY <1>0, <1>2, <2>1, <2>2 DEF BwTyped
<1>5. \A e \in Calls : Takes(e)' = Takes(e) /\ Renews(e)' = Renews(e)
    /\ Brings(e)' \in {Brings(e), NoCookie}
  BY <1>1, <1>2 DEF Takes, Renews, Brings, CallMoves
<1>6. TokensKnown'
  BY <1>0, <1>2, <1>3, <1>5 DEF TokensKnown, Known
<1>7. ASSUME NEW e \in Calls PROVE CallOK(e)' /\ FlightOK(e)'
  <2>0. CallOK(e) /\ FlightOK(e) BY <1>0
  <2>1. CASE e = c
    <3>1. flight[c].at = "none" BY <2>0, <2>1, <1>3 DEF FlightOK
    <3> QED BY <2>1, <3>1, <1>2 DEF FlightOK
  <2>2. CASE e # c
    BY <2>0, <2>2, <1>1, <1>2 DEF CallOK, AnswerOK, FlightOK, RenewalOK
  <2> QED BY <2>1, <2>2
<1>8. TabsOK'
  <2> SUFFICES ASSUME NEW u \in Tabs, u \notin mixedUp' PROVE TabOK(u)'
    BY DEF TabsOK
  <2>1. CASE u # tabOf[c]
    <3>1. TabOK(u) BY <2>1, <1>0 DEF TabsOK, CallMoves
    <3>2. Others(u) BY <2>1, <1>1, <1>2 DEF Others, CallMoves
    <3> QED BY <3>1, <3>2, <1>0, TabStands
  <2>2. CASE u = tabOf[c]
    BY <2>2
  <2> QED BY <2>1, <2>2
<1>9. NothingTwice'
  <2>1. Shrinks BY <1>2, <1>3, <1>5 DEF Shrinks, CallMoves
  <2> QED BY <2>1, <1>0, <1>4, NothingTwiceShrinks
<1> QED BY <1>4, <1>6, <1>7, <1>8, <1>9 DEF BwInv

(* An answer without a token, to a call that is underway. *)
LEMMA ReplyKeeps ==
    ASSUME BwInv, NEW c \in Calls, call[c].at = "sent", NEW a \in BwAnswers,
        a.cookie = NoCookie,
           call' = [call EXCEPT ![c].at = "answered", ![c].answer = a],
           UNCHANGED <<tabOf, flight, tab, cookie, broughtBy, sessions, reused, doubled,
                       lostOne, mixedUp, halfSwitched>>,
           dead \subseteq dead',
           a.result = "ok" => \/ /\ call[c].kind \in {"me", "bootMe"}
                                 /\ ~a.clears /\ a.scope = call[c].access.scope
                              \/ call[c].kind = "logout" /\ a.clears
    PROVE  BwInv'
<1>0. BwTyped /\ CallOK(c) /\ TabsOK
  BY DEF BwInv
<1>1. call[c] \in BwRequests BY <1>0, OpenOrIdle
<1>2. PICK r \in BwRequests : /\ call' = [call EXCEPT ![c] = r]
                              /\ r.at = "answered"
                              /\ r.kind = call[c].kind
                              /\ r.where = call[c].where /\ r.access = call[c].access
                                 /\ r.answer = a
  <2> DEFINE r == [call[c] EXCEPT !.at = "answered", !.answer = a]
  <2>2. call' = [call EXCEPT ![c] = r]
    BY <1>0 DEF BwTyped
  <2>3. r \in BwRequests
    BY <1>1 DEF BwRequests
  <2>4. r.at = "answered" /\ r.kind = call[c].kind /\ r.where = call[c].where
      /\ r.access = call[c].access /\ r.answer = a
    BY <1>1 DEF BwRequests
  <2> QED BY <2>2, <2>3, <2>4
<1>3. call'[c] = r /\ \A e \in Calls \ {c} : call'[e] = call[e]
  BY <1>0, <1>2 DEF BwTyped
<1>4. CallMoves(c, r)
  BY <1>0, <1>2 DEF CallMoves, BwTyped
<1>5. CallOK(c)'
  BY <1>0, <1>2, <1>3 DEF CallOK, AnswerOK
<1> PICK u \in Tabs : u = tabOf[c] BY <1>0 DEF BwTyped
<1>6. ASSUME u \notin mixedUp' PROVE TabOK(u)'
  <2>1. TabOK(u) BY <1>0, <1>6 DEF TabsOK, BwTyped
  <2>2. tab'[u] = tab[u] /\ tabOf' = tabOf OBVIOUS
  <2>7. \A e \in Calls : \A kinds : Plays(e, u, kinds)' <=> Plays(e, u, kinds)
    BY <1>2, <1>3 DEF Plays
  <2>3. ShowsOrAsks(u)'
    BY <2>1, <2>2, <2>7 DEF TabOK, ShowsOrAsks
  <2>4. AsksAbout(u)'
    <3>1. \A e \in Calls : call'[e].at # "waiting" => call[e].at # "waiting"
        /\ call'[e].access = call[e].access
      BY <1>2, <1>3
    <3> QED BY <2>1, <2>2, <2>7, <3>1 DEF TabOK, AsksAbout
  <2>5. BootsAlone(u)'
    BY <2>1, <2>2, <2>7 DEF TabOK, BootsAlone
  <2>6. JarFits(u)' /\ FlightsFit(u)'
    BY <2>1, <2>2 DEF TabOK, JarFits, FlightsFit, Agrees
  <2> QED BY <2>3, <2>4, <2>5, <2>6 DEF TabOK
<1> QED
  <2>1. tab' \in [Tabs -> [access : BwAccesses, user : NamedScopes]] BY <1>0 DEF BwTyped
  <2> QED BY <2>1, <1>4, <1>5, <1>6, CallMovesKeeps

LEMMA ServeCallKeeps ==
    ASSUME BwInv, NEW c \in Calls, ServeCall(c)
    PROVE  BwInv'
<1>0. BwTyped BY DEF BwInv
<1>1. call[c].at = "sent" /\ call[c] \in BwRequests /\ call[c].access \in BwAccesses
  BY <1>0, OpenOrIdle DEF ServeCall, BwRequests
<1>2. UNCHANGED <<tabOf, flight, tab, cookie, broughtBy, reused, idleOut, doubled, lostOne,
                  mixedUp, halfSwitched>>
  BY DEF ServeCall, Jar, GhostVars
<1>3. CASE call[c].kind \in {"login", "switch"} /\ NewSession(c)
  <2>1. UNCHANGED dead BY <1>3 DEF NewSession
  <2> QED BY <1>1, <1>2, <1>3, <2>1, NewSessionKeeps
<1>4. CASE /\ call[c].kind # "login" /\ UNCHANGED <<sessions, dead>>
           /\ call' = [call EXCEPT ![c].at = "answered",
                                   ![c].answer = IF call[c].access.scope = "none" THEN Refusal(FALSE)
                                                  ELSE Expired(FALSE)]
  <2>1. PICK a \in BwAnswers :
            /\ a = IF call[c].access.scope = "none" THEN Refusal(FALSE) ELSE Expired(FALSE)
            /\ a.result # "ok" /\ a.cookie = NoCookie
    BY BwRecordsTyped DEF Refusal, Expired, NoAnswer
  <2> QED BY <1>1, <1>2, <1>4, <2>1, ReplyKeeps
<1>5. CASE call[c].kind = "logout" /\ ServeLogout(c)
  <2>1. PICK a \in BwAnswers : a = [Ok("none", NoCookie) EXCEPT !.clears = TRUE] /\ a.clears
      /\ a.cookie = NoCookie
    <3> PICK b \in BwAnswers : b = Ok("none", NoCookie) /\ b.cookie = NoCookie
      <4>1. "none" \in NamedScopes BY DEF NamedScopes
      <4>2. Ok("none", NoCookie) \in BwAnswers BY <4>1, BwRecordsTyped, Zenon
      <4>3. Ok("none", NoCookie).cookie = NoCookie BY DEF Ok
      <4> QED BY <4>2, <4>3
    <3>1. [b EXCEPT !.clears = TRUE] \in BwAnswers /\ [b EXCEPT !.clears = TRUE].clears
        /\ [b EXCEPT !.clears = TRUE].cookie = NoCookie
      BY DEF BwAnswers
    <3> QED BY <3>1
  <2>2. dead \subseteq dead' /\ UNCHANGED sessions BY <1>5 DEF ServeLogout
  <2>3. call' = [call EXCEPT ![c].at = "answered", ![c].answer = a] BY <1>5, <2>1
      DEF ServeLogout
  <2> QED BY <1>1, <1>2, <1>5, <2>1, <2>2, <2>3, ReplyKeeps
<1>6. CASE /\ call[c].kind \in {"me", "bootMe"} /\ UNCHANGED <<sessions, dead>>
           /\ call' = [call EXCEPT ![c].at = "answered", ![c].answer = Ok(call[c].access.scope, NoCookie)]
  <2>1. PICK a \in BwAnswers : a = Ok(call[c].access.scope, NoCookie)
      /\ a.scope = call[c].access.scope /\ ~a.clears /\ a.cookie = NoCookie
    BY <1>1, BwRecordsTyped DEF Ok, BwAccesses
  <2> QED BY <1>1, <1>2, <1>6, <2>1, ReplyKeeps
<1>7. CASE /\ call[c].kind = "poll" /\ UNCHANGED <<sessions, dead>>
              /\ call' = [call EXCEPT ![c] = NoCall]
  <2> PICK u \in Tabs : u = tabOf[c] BY <1>0 DEF BwTyped
  <2>1. call'[c] = NoCall /\ (\A e \in Calls \ {c} : call'[e] = call[e]) /\ NoCall.at = "idle"
    BY <1>0, <1>7 DEF BwTyped, NoCall
  <2>2. CallMoves(c, NoCall)
    BY <1>0, <1>1, <1>2, <1>7, <2>1 DEF CallMoves, BwTyped
  <2>3. CallOK(c)' BY <2>1 DEF CallOK
  <2>4. ASSUME u \notin mixedUp' PROVE TabOK(u)'
    <3>1. TabOK(u) BY <1>0, <1>2, <2>4 DEF TabsOK, BwTyped, BwInv
    <3>2. tab'[u] = tab[u] /\ tabOf' = tabOf BY <1>2
    <3>3. ShowsOrAsks(u)' BY <3>1, <3>2, <1>2, <1>7, <2>1 DEF TabOK, ShowsOrAsks, Plays
    <3>4. AsksAbout(u)' BY <3>1, <3>2, <2>1 DEF TabOK, AsksAbout, Plays
    <3>5. BootsAlone(u)' BY <3>1, <3>2, <2>1 DEF TabOK, BootsAlone, Plays
    <3>6. JarFits(u)' /\ FlightsFit(u)'
      BY <3>1, <3>2, <1>2, <1>7 DEF TabOK, JarFits, FlightsFit, Agrees
    <3> QED BY <3>3, <3>4, <3>5, <3>6 DEF TabOK
  <2>5. tab' \in [Tabs -> [access : BwAccesses, user : NamedScopes]] BY <1>0, <1>2 DEF BwTyped
  <2> QED BY <2>2, <2>3, <2>4, <2>5, CallMovesKeeps
<1> QED BY <1>3, <1>4, <1>5, <1>6, <1>7 DEF ServeCall

(* A refresh is answered with no token, or awaits itself. *)
FlightMoves(c, g) ==
    /\ flight[c].at # "none" /\ Renews(c) = NoCookie
    /\ flight' = [flight EXCEPT ![c] = g]
    /\ g.at \in {"answered", "self"} /\ g.cookie = flight[c].cookie /\ g.from = flight[c].from
    /\ g.at = "answered" => g.answer.cookie = NoCookie /\ g.answer.result # "ok"
    /\ UNCHANGED <<tabOf, call, tab, doubled, lostOne, mixedUp, halfSwitched, sessions>>
    /\ cookie' = NoCookie \/ (cookie' = cookie /\ broughtBy' = broughtBy)
    /\ broughtBy' \in Tabs \cup {"nobody"}
    /\ dead \subseteq dead' /\ (reused = {} => reused' = {} \/ doubled \/ lostOne)

LEMMA FlightMovesKeeps ==
    ASSUME BwInv, NEW c \in Calls, NEW g \in BwFlights, FlightMoves(c, g)
    PROVE  BwInv'
<1>0. BwTyped /\ TokensKnown /\ (\A d \in Calls : CallOK(d) /\ FlightOK(d)) /\ TabsOK
    /\ NothingTwice
  BY DEF BwInv
<1>1. flight'[c] = g /\ \A e \in Calls \ {c} : flight'[e] = flight[e]
  BY <1>0 DEF BwTyped, FlightMoves
<1>2. UNCHANGED <<tabOf, call, tab, doubled, lostOne, mixedUp, halfSwitched, sessions>> BY DEF FlightMoves
<1>3. cookie' \in {cookie, NoCookie} /\ g.at \in {"answered", "self"}
    /\ g.cookie = flight[c].cookie /\ g.from = flight[c].from
      /\ flight[c].at # "none" /\ (g.at = "answered" => g.answer.cookie = NoCookie
         /\ g.answer.result # "ok")
  BY DEF FlightMoves
<1>4. BwTyped'
  <2>1. flight' \in [Calls -> {NoFlight} \cup BwFlights]
    BY <1>0 DEF BwTyped, FlightMoves
  <2>2. cookie' \in BwCookies /\ broughtBy' \in Tabs \cup {"nobody"}
    BY <1>0, <1>3, BwRecordsTyped DEF FlightMoves, BwTyped
  <2> QED BY <1>0, <1>2, <2>1, <2>2 DEF BwTyped
<1>5. \A e \in Calls : Takes(e)' = Takes(e) /\ Renews(e)' = Renews(e) /\ Brings(e)' = Brings(e)
  <2>1. Renews(c)' = NoCookie /\ Renews(c) = NoCookie /\ Takes(c)' = Takes(c)
    BY <1>1, <1>3 DEF Renews, Takes, FlightMoves
  <2> QED BY <1>1, <1>2, <2>1 DEF Takes, Renews, Brings
<1>6. TokensKnown'
  BY <1>0, <1>2, <1>3, <1>5 DEF TokensKnown, Known
<1>7. \A e \in Calls : (flight'[e].at # "none" <=> flight[e].at # "none")
    /\ flight'[e].cookie = flight[e].cookie /\ flight'[e].from = flight[e].from
  BY <1>1, <1>3
<1>8. ASSUME NEW e \in Calls PROVE CallOK(e)' /\ FlightOK(e)'
  <2>0. CallOK(e) /\ FlightOK(e) BY <1>0
  <2>1. CallOK(e)' BY <2>0, <1>2, <1>7 DEF CallOK, AnswerOK
  <2>2. FlightOK(e)' BY <2>0, <1>1, <1>2, <1>3, <1>7 DEF FlightOK, RenewalOK
  <2> QED BY <2>1, <2>2
<1>9. TabsOK'
  <2> SUFFICES ASSUME NEW u \in Tabs, u \notin mixedUp, TabOK(u) PROVE TabOK(u)'
    BY <1>0, <1>2 DEF TabsOK
  <2>1. \A e \in Calls : \A kinds : Plays(e, u, kinds)' <=> Plays(e, u, kinds)
    BY <1>2 DEF Plays
  <2>2. ShowsOrAsks(u)' /\ AsksAbout(u)' /\ BootsAlone(u)'
    BY <2>1, <1>2 DEF TabOK, ShowsOrAsks, AsksAbout, BootsAlone
  <2>3. JarFits(u)'
    BY <1>2 DEF TabOK, JarFits, Agrees, FlightMoves
  <2>4. FlightsFit(u)'
    BY <1>2, <1>7 DEF TabOK, FlightsFit, Agrees
  <2> QED BY <2>2, <2>3, <2>4 DEF TabOK
<1>10. NothingTwice'
  <2>1. \A e \in Calls : flight'[e].at = "sent" => flight[e].at = "sent"
      /\ flight'[e].cookie = flight[e].cookie
    BY <1>1, <1>3
  <2>2. \A f \in BwFamilies : sessions'[f].latest = sessions[f].latest BY <1>2
  <2>3. dead \subseteq dead' /\ (reused = {} => reused' = {} \/ doubled \/ lostOne) /\ (doubled
      => doubled') /\ (lostOne => lostOne')
    BY <1>2 DEF FlightMoves
  <2>4. Shrinks BY <2>1, <2>2, <2>3, <1>3, <1>5 DEF Shrinks
  <2> QED BY <2>4, <1>0, <1>4, NothingTwiceShrinks
<1> QED BY <1>4, <1>6, <1>8, <1>9, <1>10 DEF BwInv

LEMMA FlightWith ==
    ASSUME BwTyped, NEW c \in Calls, flight[c].at = "sent", NEW a \in BwAnswers,
           flight' = [flight EXCEPT ![c].at = "answered", ![c].answer = a]
    PROVE  \E g \in BwFlights : /\ flight' = [flight EXCEPT ![c] = g]
                                /\ g.at = "answered" /\ g.cookie = flight[c].cookie
                                   /\ g.from = flight[c].from
                                /\ g.answer = a
<1> DEFINE g == [flight[c] EXCEPT !.at = "answered", !.answer = a]
<1>1. flight[c] \in BwFlights BY OpenOrIdle
<1>2. g \in BwFlights BY <1>1 DEF BwFlights
<1>3. flight' = [flight EXCEPT ![c] = g]
  BY DEF BwTyped
<1>4. g.at = "answered" /\ g.cookie = flight[c].cookie /\ g.from = flight[c].from
    /\ g.answer = a
  BY <1>1 DEF BwFlights
<1> QED BY <1>2, <1>3, <1>4

LEMMA RefusedKeeps ==
    ASSUME BwInv, NEW c \in Calls, flight[c].at = "sent", NEW a \in BwAnswers,
        a.cookie = NoCookie, a.result # "ok",
           flight' = [flight EXCEPT ![c].at = "answered", ![c].answer = a],
           UNCHANGED <<tabOf, call, tab, cookie, broughtBy, sessions, doubled, lostOne, mixedUp, halfSwitched>>,
           dead \subseteq dead', reused = {} => reused' = {} \/ doubled \/ lostOne
    PROVE  BwInv'
<1>0. BwTyped BY DEF BwInv
<1>1. PICK g \in BwFlights : /\ flight' = [flight EXCEPT ![c] = g]
                             /\ g.at = "answered" /\ g.cookie = flight[c].cookie
                                /\ g.from = flight[c].from /\ g.answer = a
  BY <1>0, FlightWith
<1>2. FlightMoves(c, g)
  BY <1>0, <1>1 DEF FlightMoves, Renews, BwTyped
<1> QED BY <1>2, FlightMovesKeeps

(* A refresh that succeeds had the latest token of its family: so no other  *)
(* refresh had it or brings one of that family, and no login has just begun *)
(* it.                                                                      *)
LEMMA RenewedKeeps ==
    ASSUME BwInv, NEW c \in Calls, flight[c].at = "sent", flight[c].cookie # NoCookie,
           NEW f \in BwFamilies, f = flight[c].cookie[1], f \notin dead,
           flight[c].cookie[2] = sessions[f].latest,
           sessions' = [sessions EXCEPT ![f].latest = @ + 1],
           flight' = [flight EXCEPT ![c].at = "answered",
                                    ![c].answer = Ok(ScopeAfterRefresh(sessions[f].scope), <<f, sessions[f].latest + 1>>)],
           UNCHANGED <<tabOf, call, tab, cookie, broughtBy, dead, reused, doubled, lostOne,
                       mixedUp, halfSwitched>>
    PROVE  BwInv'
<1>0. BwTyped /\ TokensKnown /\ (\A d \in Calls : CallOK(d) /\ FlightOK(d)) /\ TabsOK
    /\ NothingTwice
  BY DEF BwInv
<1>1. flight[c].cookie \in BwCookies BY <1>0, OpenOrIdle DEF BwFlights
<1>2. PICK n \in Nat \ {0} : n = sessions[f].latest /\ flight[c].cookie = <<f, n>>
  BY <1>1, CookieTyped
<1>3. PICK ck \in BwCookies : ck = <<f, n + 1>> /\ ck # NoCookie /\ ck[1] = f /\ ck[2] = n + 1
  <2>1. n + 1 \in Nat \ {0} BY <1>2
  <2>2. <<f, n + 1>> \in BwCookies /\ <<f, n + 1>> # NoCookie /\ <<f, n + 1>>[1] = f
      /\ <<f, n + 1>>[2] = n + 1
    BY <2>1, TokenTyped
  <2> QED BY <2>2
<1>4. sessions[f].scope \in Scopes BY <1>0, <1>2 DEF TokensKnown
<1>5. PICK s \in Scopes : s = ScopeAfterRefresh(sessions[f].scope)
  BY <1>4 DEF ScopeAfterRefresh, Scopes
<1>6. PICK a \in BwAnswers : a = Ok(s, ck) /\ a.result = "ok" /\ a.scope = s /\ a.cookie = ck
    /\ ~a.clears
  <2>1. s \in NamedScopes BY DEF NamedScopes
  <2>2. Ok(s, ck) \in BwAnswers BY <2>1, BwRecordsTyped, Zenon
  <2> QED BY <2>2 DEF Ok
<1>7. flight' = [flight EXCEPT ![c].at = "answered", ![c].answer = a]
  BY <1>2, <1>3, <1>5, <1>6
<1>8. PICK g \in BwFlights : /\ flight' = [flight EXCEPT ![c] = g]
                             /\ g.at = "answered" /\ g.cookie = flight[c].cookie
                                /\ g.from = flight[c].from /\ g.answer = a
  BY <1>0, <1>7, FlightWith
<1>9. flight'[c] = g /\ \A e \in Calls \ {c} : flight'[e] = flight[e]
  BY <1>0, <1>8 DEF BwTyped
<1>10. /\ sessions'[f].latest = n + 1 /\ \A h \in BwFamilies \ {f} : sessions'[h] = sessions[h]
       /\ \A h \in BwFamilies : sessions'[h].scope = sessions[h].scope
  BY <1>0, <1>2 DEF BwTyped
<1>11. BwTyped'
  <2>1. sessions' \in [BwFamilies -> [scope : NamedScopes, latest : Nat]]
    BY <1>0 DEF BwTyped
  <2>2. flight' \in [Calls -> {NoFlight} \cup BwFlights]
    BY <1>0, <1>8 DEF BwTyped
  <2> QED BY <1>0, <2>1, <2>2 DEF BwTyped
<1>12. /\ \A e \in Calls : Takes(e)' = Takes(e) /\ Brings(e)' = Brings(e)
       /\ \A e \in Calls \ {c} : Renews(e)' = Renews(e)
       /\ Renews(c)' = ck /\ Renews(c) = NoCookie /\ Takes(c) = flight[c].cookie
  BY <1>6, <1>8, <1>9 DEF Takes, Renews, Brings
<1>13. ASSUME NEW k \in BwCookies, Known(k) PROVE Known(k)' /\ k # ck /\ (k # NoCookie
    => k[1] \in BwFamilies)
  <2>1. CASE k = NoCookie BY <2>1, <1>3 DEF Known
  <2>2. CASE k # NoCookie
    <3>1. k[1] \in BwFamilies /\ k[2] \in Nat \ {0} /\ k[2] <= sessions[k[1]].latest BY <2>2,
        <1>13, CookieTyped DEF Known
    <3>2. \A h \in BwFamilies : sessions[h].latest \in Nat BY <1>0 DEF BwTyped
    <3>3. sessions'[k[1]].latest >= sessions[k[1]].latest BY <3>1, <3>2, <1>2, <1>10
    <3>4. sessions'[k[1]].latest \in Nat BY <3>1, <3>2, <1>2, <1>10
    <3>5. k # ck BY <3>1, <1>2, <1>3
    <3> QED BY <3>1, <3>2, <3>3, <3>4, <3>5 DEF Known
  <2> QED BY <2>1, <2>2
<1>14. \A e \in Calls : /\ Takes(e) \in BwCookies /\ Renews(e) \in BwCookies /\ Brings(e) \in BwCookies
                        /\ Known(Takes(e)) /\ Known(Renews(e)) /\ Known(Brings(e))
  BY <1>0, TokensTyped DEF TokensKnown
<1>15. cookie \in BwCookies /\ Known(cookie) BY <1>0 DEF TokensKnown, BwTyped
<1>16. TokensKnown'
  <2>1. Known(cookie)' BY <1>13, <1>15 DEF Known
  <2>2. Known(ck)' BY <1>3, <1>10 DEF Known
  <2>3. ASSUME NEW e \in Calls PROVE Known(Takes(e))' /\ Known(Renews(e))' /\ Known(Brings(e))'
    BY <2>2, <1>12, <1>13, <1>14 DEF Known
  <2>4. ASSUME NEW h \in BwFamilies, sessions'[h].latest > 0 PROVE sessions'[h].scope \in Scopes
    BY <1>0, <1>4, <1>10, <2>4 DEF TokensKnown
  <2> QED BY <2>1, <2>3, <2>4 DEF TokensKnown
<1>17. \A k \in BwCookies : Known(k) => (k # NoCookie
    => sessions'[k[1]].scope = sessions[k[1]].scope)
  BY <1>10, <1>13
<1>18. ASSUME NEW e \in Calls PROVE CallOK(e)' /\ FlightOK(e)'
  <2>0. CallOK(e) /\ FlightOK(e) BY <1>0
  <2>3. \A d \in Calls : flight'[d].at # "none" <=> flight[d].at # "none"
    BY <1>8, <1>9
  <2>1. CallOK(e)'
    <3>1. call[e].at = "answered" => Brings(e) = call[e].answer.cookie BY DEF Brings
    <3>2. call[e].at = "answered" /\ call[e].answer.cookie # NoCookie =>
             sessions'[call[e].answer.cookie[1]].scope = sessions[call[e].answer.cookie[1]].scope
      BY <3>1, <1>14, <1>17
    <3>3. AnswerOK(e) /\ call[e].at = "answered" => AnswerOK(e)'
      BY <3>2 DEF AnswerOK
    <3> QED BY <3>3, <2>0, <2>3 DEF CallOK
  <2>2. FlightOK(e)'
    <3>1. flight[e].at = "answered" => Renews(e) = flight[e].answer.cookie BY DEF Renews
    <3>2. CASE e = c
      <4>1. flight'[c].answer = a /\ flight'[c].cookie = flight[c].cookie BY <1>8, <1>9
      <4>2. a.scope = ScopeAfterRefresh(sessions'[f].scope) BY <1>5, <1>6, <1>10
      <4>3. RenewalOK(c)' BY <4>1, <4>2, <1>3, <1>6 DEF RenewalOK
      <4> QED BY <3>2, <4>3, <2>0, <2>3 DEF FlightOK
    <3>3. CASE e # c
      <4>1. flight'[e] = flight[e] BY <3>3, <1>9
      <4>2. flight[e].at = "answered" /\ flight[e].answer.cookie # NoCookie =>
               sessions'[flight[e].answer.cookie[1]].scope = sessions[flight[e].answer.cookie[1]].scope
        BY <3>1, <1>14, <1>17
      <4>3. RenewalOK(e) /\ flight[e].at = "answered" => RenewalOK(e)'
        BY <4>1, <4>2 DEF RenewalOK
      <4> QED BY <4>1, <4>3, <2>0, <2>3 DEF FlightOK
    <3> QED BY <3>2, <3>3
  <2> QED BY <2>1, <2>2
<1>19. TabsOK'
  <2> SUFFICES ASSUME NEW u \in Tabs, u \notin mixedUp, TabOK(u) PROVE TabOK(u)'
    BY <1>0 DEF TabsOK
  <2>1. \A e \in Calls : \A kinds : Plays(e, u, kinds)' <=> Plays(e, u, kinds)
    BY DEF Plays
  <2>2. ShowsOrAsks(u)' /\ AsksAbout(u)' /\ BootsAlone(u)'
    BY <2>1 DEF TabOK, ShowsOrAsks, AsksAbout, BootsAlone
  <2>3. JarFits(u)'
    BY <1>15, <1>17 DEF TabOK, JarFits, Agrees
  <2>4. FlightsFit(u)'
    <3>1. \A e \in Calls : flight[e].at # "none" => flight[e].cookie = Takes(e) BY DEF Takes
    <3>2. \A e \in Calls : (flight'[e].at # "none" <=> flight[e].at # "none")
        /\ flight'[e].cookie = flight[e].cookie /\ flight'[e].from = flight[e].from
      BY <1>8, <1>9
    <3>3. \A e \in Calls : flight[e].at # "none" /\ Agrees(u, flight[e].cookie)
        => Agrees(u, flight[e].cookie)'
      <4> TAKE e \in Calls
      <4> HAVE flight[e].at # "none" /\ Agrees(u, flight[e].cookie)
      <4>1. PICK k \in BwCookies : k = flight[e].cookie /\ k = flight'[e].cookie /\ Known(k)
        BY <3>1, <3>2, <1>14
      <4>2. k # NoCookie => sessions'[k[1]].scope = sessions[k[1]].scope BY <4>1, <1>17
      <4> QED BY <4>1, <4>2 DEF Agrees
    <3> QED BY <3>2, <3>3 DEF TabOK, FlightsFit
  <2> QED BY <2>2, <2>3, <2>4 DEF TabOK
<1>20. NothingTwice'
  <2> SUFFICES ASSUME ~doubled, ~lostOne PROVE NothingTwice'
    BY DEF NothingTwice
  <2>1. reused = {} /\ JarIsLatest /\ \A e \in Calls : Distinct(e) /\ SentIsLatest(e)
      /\ RenewedIsLatest(e) /\ GrantedIsNew(e)
    BY <1>0 DEF NothingTwice
  <2>2. Takes(c) # NoCookie /\ Takes(c)[1] = f /\ Takes(c)[2] = n /\ Takes(c) = <<f, n>>
    BY <1>2, <1>12
  <2>3. ASSUME NEW k \in BwCookies, k # NoCookie, k[1] = f, k[2] = n PROVE k = Takes(c)
    BY <2>2, <2>3, CookieTyped
  \* no other renewal of the family is under way, and no login has just begun it
  <2>4. ASSUME NEW e \in Calls PROVE Renews(e) # NoCookie => Renews(e)[1] # f
    <3> SUFFICES ASSUME Renews(e) # NoCookie, Renews(e)[1] = f PROVE FALSE OBVIOUS
    <3>1. Usable(Renews(e)) BY DEF Usable
    <3>2. Renews(e)[2] = n /\ Takes(c) # Renews(e) BY <3>1, <2>1, <1>2 DEF RenewedIsLatest,
        Latest
    <3> QED BY <3>2, <2>3, <1>14
  <2>5. ASSUME NEW e \in Calls PROVE Brings(e) # NoCookie => Brings(e)[1] # f
    <3> SUFFICES ASSUME Brings(e) # NoCookie, Brings(e)[1] = f PROVE FALSE OBVIOUS
    <3>1. Usable(Brings(e)) BY DEF Usable
    <3> QED BY <3>1, <2>1, <2>2 DEF GrantedIsNew
  <2>6. \A k \in BwCookies : k # NoCookie /\ k[1] # f => Latest(k)' = Latest(k)
    <3> TAKE k \in BwCookies
    <3> HAVE k # NoCookie /\ k[1] # f
    <3>1. k[1] \in BwFamilies \ {f} BY CookieTyped
    <3> QED BY <3>1, <1>10 DEF Latest
  <2>7. JarIsLatest'
    <3> SUFFICES ASSUME Usable(cookie)
        PROVE Latest(cookie)' \/ \E e \in Calls : Renews(e)' # NoCookie /\ Takes(e)' = cookie
      BY DEF JarIsLatest, Usable
    <3>1. CASE \E e \in Calls : Renews(e) # NoCookie /\ Takes(e) = cookie
      BY <3>1, <1>12
    <3>2. CASE Latest(cookie) /\ cookie[1] # f
      BY <3>2, <2>6, <1>15 DEF Usable, Latest
    <3>3. CASE Latest(cookie) /\ cookie[1] = f
      <4>1. cookie = Takes(c) BY <3>3, <2>3, <1>2, <1>15 DEF Usable, Latest
      <4> QED BY <4>1, <1>3, <1>12
    <3> QED BY <2>1, <3>1, <3>2, <3>3 DEF JarIsLatest
  <2>8. ASSUME NEW e \in Calls PROVE Distinct(e)' /\ SentIsLatest(e)' /\ RenewedIsLatest(e)'
      /\ GrantedIsNew(e)'
    <3>1. Distinct(e)' BY <2>1, <1>12 DEF Distinct
    <3>2. SentIsLatest(e)'
      <4> SUFFICES ASSUME flight'[e].at = "sent", Usable(flight'[e].cookie)
          PROVE Latest(flight[e].cookie)'
        BY DEF SentIsLatest, Usable
      <4>1. e # c /\ flight'[e] = flight[e] BY <1>8, <1>9
      <4>2. flight[e].cookie = Takes(e) BY <4>1 DEF Takes
      <4>3. Usable(Takes(e)) /\ Latest(Takes(e)) BY <4>1, <4>2, <2>1 DEF SentIsLatest
      <4>4. Takes(e)[1] # f BY <4>1, <4>3, <2>1, <2>2, <2>3, <1>2, <1>14 DEF Usable, Latest,
          Distinct
      <4> QED BY <4>1, <4>2, <4>3, <4>4, <2>6, <1>14 DEF Usable, Latest
    <3>3. RenewedIsLatest(e)'
      <4>1. CASE e = c
        <5>1. Latest(ck)' BY <1>3, <1>10 DEF Latest
        <5>2. cookie # ck /\ \A d \in Calls : Takes(d) # ck BY <1>13, <1>14, <1>15
        <5> QED BY <4>1, <5>1, <5>2, <2>2, <1>3, <1>12 DEF RenewedIsLatest, Latest
      <4>2. CASE e # c
        <5>1. Renews(e)' = Renews(e) BY <4>2, <1>12
        <5> QED BY <5>1, <2>1, <2>4, <2>6, <1>12, <1>14 DEF RenewedIsLatest, Usable, Latest
      <4> QED BY <4>1, <4>2
    <3>4. GrantedIsNew(e)'
      BY <2>1, <2>5, <2>6, <1>12, <1>14 DEF GrantedIsNew, Usable, Latest
    <3> QED BY <3>1, <3>2, <3>3, <3>4
  <2> QED BY <2>1, <2>7, <2>8 DEF NothingTwice
<1> QED BY <1>11, <1>16, <1>18, <1>19, <1>20 DEF BwInv

(* A token that is not the latest comes only after two tabs had the same, *)
(* or an answer was lost.                                                 *)
LEMMA ServeRefreshKeeps ==
    ASSUME BwInv, NEW c \in Calls, ServeRefresh(c)
    PROVE  BwInv'
<1>0. BwTyped /\ TokensKnown /\ NothingTwice BY DEF BwInv
<1>1. flight[c].at = "sent" BY DEF ServeRefresh
<1>2. UNCHANGED <<tabOf, call, tab, cookie, broughtBy, doubled, lostOne, mixedUp, halfSwitched>>
  BY DEF ServeRefresh, Jar, GhostVars
<1>3. PICK no \in BwAnswers, reject \in BwAnswers, late \in BwAnswers :
        /\ no = Refusal(FALSE) /\ reject = Refusal(TRUE) /\ late = Expired(TRUE)
        /\ no.cookie = NoCookie /\ reject.cookie = NoCookie /\ late.cookie = NoCookie
        /\ no.result # "ok" /\ reject.result # "ok" /\ late.result # "ok"
  BY BwRecordsTyped DEF Refusal, Expired, NoAnswer
<1>4. CASE flight' = [flight EXCEPT ![c].at = "answered", ![c].answer = no]
    /\ UNCHANGED <<sessions, dead, reused>>
  BY <1>1, <1>2, <1>3, <1>4, RefusedKeeps
<1>5. CASE flight' = [flight EXCEPT ![c].at = "answered", ![c].answer = late]
    /\ UNCHANGED <<sessions, dead, reused>>
  BY <1>1, <1>2, <1>3, <1>5, RefusedKeeps
<1>6. CASE /\ flight' = [flight EXCEPT ![c].at = "answered", ![c].answer = reject]
              /\ UNCHANGED <<sessions>>
           /\ dead \subseteq dead' /\ (reused = {} => reused' = {} \/ doubled \/ lostOne)
  BY <1>1, <1>2, <1>3, <1>6, RefusedKeeps
<1>7. CASE flight[c].cookie # NoCookie
  <2>1. PICK f \in BwFamilies : f = flight[c].cookie[1] /\ flight[c].cookie[2] \in Nat
    <3>1. flight[c].cookie \in BwCookies BY <1>0, <1>1, OpenOrIdle DEF BwFlights
    <3> QED BY <3>1, <1>7, CookieTyped
  <2>2. CASE /\ f \notin dead /\ flight[c].cookie[2] < sessions[f].latest
             /\ dead' = dead \cup {f} /\ reused' = reused \cup {f}
             /\ flight' = [flight EXCEPT ![c].at = "answered", ![c].answer = reject]
                /\ UNCHANGED sessions
    <3>1. doubled \/ lostOne
      <4>1. sessions[f].latest \in Nat BY <1>0 DEF BwTyped
      <4> QED BY <4>1, <2>1, <2>2, <1>0, <1>1, <1>7 DEF NothingTwice, SentIsLatest, Usable,
          Latest
    <3> QED BY <3>1, <2>2, <1>6
  <2>3. CASE /\ f \notin dead /\ flight[c].cookie[2] = sessions[f].latest
             /\ sessions' = [sessions EXCEPT ![f].latest = @ + 1]
             /\ flight' = [flight EXCEPT ![c].at = "answered",
                                         ![c].answer = Ok(ScopeAfterRefresh(sessions[f].scope), <<f, sessions[f].latest + 1>>)]
             /\ UNCHANGED <<dead, reused>>
    BY <2>1, <2>3, <1>1, <1>2, <1>7, RenewedKeeps
  <2> QED BY <1>3, <1>5, <1>6, <1>7, <2>1, <2>2, <2>3 DEF ServeRefresh
<1> QED BY <1>3, <1>4, <1>7 DEF ServeRefresh

(* The tab has a call under way that will say who the user is; a refresh *)
(* under way.                                                            *)
Asking(t) == \E c \in Calls : Plays(c, t, {"me", "bootMe", "boot"})
InFlight(t) == \E c \in Calls : tabOf[c] = t /\ flight[c].at # "none"

LEMMA FlightsThere ==
    ASSUME BwTyped, NEW t \in Tabs
    PROVE  Flights(t) # {} <=> InFlight(t)
<1>1. \A c \in Calls : flight[c] # NoFlight <=> flight[c].at # "none" BY OpenOrIdle
<1> QED BY <1>1 DEF Flights, CallsOf, InFlight

(* Such a call waits for a refresh, or it is sent or answered. *)
LEMMA NobodySignedIn ==
    ASSUME BwTyped, \A c \in Calls : CallOK(c), NEW t \in Tabs, ~InFlight(t), ~MeUnderWay(t)
    PROVE  ~Asking(t)
<1> SUFFICES ASSUME NEW c \in Calls, Plays(c, t, {"me", "bootMe", "boot"}) PROVE FALSE
  BY DEF Asking
<1>1. call[c].at = "waiting"
  BY DEF Plays, MeUnderWay, CallsOf, Kind, CallOK
<1> QED BY <1>1 DEF CallOK, InFlight, Plays

LEMMA SignedOutFits ==
    ASSUME NEW t \in Tabs, tab'[t] = SignedOut, ~Asking(t)'
    PROVE  TabOK(t)'
<1>1. tab'[t].user = "none" /\ tab'[t].access.scope = "none"
  BY DEF SignedOut, NoAccess
<1>2. \A c \in Calls : ~Plays(c, t, {"me", "bootMe", "boot"})' BY DEF Asking
<1>3. \A c \in Calls : ~Plays(c, t, {"me", "bootMe"})' /\ ~Plays(c, t, {"boot", "bootMe"})'
    BY <1>2 DEF Plays
<1> QED BY <1>1, <1>3 DEF TabOK, ShowsOrAsks, AsksAbout, BootsAlone, JarFits, FlightsFit,
    Agrees

(* A call that fails leaves the tab as it was, or signed out. *)
LEMMA CallFailsKeeps ==
    ASSUME BwInv, NEW c \in Calls, call[c].at \in {"sent", "answered"}, CallFails(c),
           UNCHANGED <<tabOf, flight, cookie, broughtBy, sessions, dead, reused, doubled,
                       lostOne>>
    PROVE  BwInv'
<1>0. BwTyped /\ (\A d \in Calls : CallOK(d) /\ FlightOK(d)) /\ TabsOK BY DEF BwInv
<1> PICK u \in Tabs : u = tabOf[c] BY <1>0 DEF BwTyped
<1>1. call[c] \in BwRequests /\ call[c].kind # "boot" BY <1>0, OpenOrIdle DEF CallOK
<1>2. call'[c] = NoCall /\ (\A e \in Calls \ {c} : call'[e] = call[e]) /\ NoCall.at = "idle"
  BY <1>0 DEF BwTyped, CallFails, NoCall
<1>3. SignedOut \in [access : BwAccesses, user : NamedScopes]
  BY BwRecordsTyped DEF SignedOut, NamedScopes
<1>4. tab' = [tab EXCEPT ![u] = IF call[c].kind \in {"logout", "bootMe"} THEN SignedOut ELSE tab[u]]
  BY DEF CallFails, AfterFailure
<1>5. tab' \in [Tabs -> [access : BwAccesses, user : NamedScopes]]
  BY <1>0, <1>3, <1>4 DEF BwTyped
<1>6. CallMoves(c, NoCall)
  <2>1. \A t \in Tabs : t # u => tab'[t] = tab[t] /\ (t \in mixedUp <=> t \in mixedUp')
        /\ (t \in halfSwitched => t \in halfSwitched')
    BY <1>0, <1>4 DEF CallFails, BwTyped
  <2> QED BY <2>1, <1>0, <1>2 DEF CallMoves, CallFails, BwTyped
<1>7. CallOK(c)' BY <1>2 DEF CallOK
<1>8. ASSUME u \notin mixedUp' PROVE TabOK(u)'
  <2>1. u \notin mixedUp /\ (call[c].kind = "logout" => Flights(u) = {} /\ ~MeUnderWay(u))
    BY <1>8 DEF CallFails
  <2>2. TabOK(u) BY <2>1, <1>0 DEF TabsOK
  <2>3. \A e \in Calls : \A kinds : Plays(e, u, kinds)' <=> (Plays(e, u, kinds) /\ e # c)
    BY <1>2 DEF Plays
  <2>4. CASE call[c].kind \in {"logout", "bootMe"}
    <3>1. \A e \in Calls : e # c => ~Plays(e, u, {"me", "bootMe", "boot"})
      <4>1. CASE call[c].kind = "logout"
        BY <4>1, <2>1, <1>0, FlightsThere, NobodySignedIn DEF Asking
      <4>2. CASE call[c].kind = "bootMe"
        <5>1. Plays(c, u, {"boot", "bootMe"}) BY <4>2 DEF Plays
        <5>2. \A e \in Calls : Plays(e, u, BwKinds \ {"login"}) => e = c BY <5>1, <2>2
            DEF TabOK, BootsAlone
        <5> QED BY <5>2 DEF Plays, BwKinds
      <4> QED BY <2>4, <4>1, <4>2
    <3>2. ~Asking(u)' BY <3>1, <2>3 DEF Asking
    <3>3. tab'[u] = SignedOut BY <2>4, <1>0, <1>4 DEF BwTyped
    <3> QED BY <3>2, <3>3, SignedOutFits
  <2>5. CASE call[c].kind \notin {"logout", "bootMe"}
    <3>1. tab'[u] = tab[u] BY <2>5, <1>0, <1>4 DEF BwTyped
    <3>2. call[c].kind = "me" => u \in halfSwitched' BY DEF CallFails
    <3>7. u \in halfSwitched => u \in halfSwitched' BY <2>5 DEF CallFails
    <3>8. call[c].kind # "me" => ~Plays(c, u, {"me", "bootMe", "boot"}) BY <2>5, <1>1 DEF Plays
    <3>3. ShowsOrAsks(u)' BY <2>2, <2>3, <3>1, <3>2, <3>7, <3>8 DEF TabOK, ShowsOrAsks
    <3>4. AsksAbout(u)' BY <2>2, <2>3, <3>1, <1>2 DEF TabOK, AsksAbout
    <3>5. BootsAlone(u)' BY <2>2, <2>3, <3>1 DEF TabOK, BootsAlone
    <3>6. JarFits(u)' /\ FlightsFit(u)'
      BY <2>2, <3>1 DEF TabOK, JarFits, FlightsFit, Agrees
    <3> QED BY <3>3, <3>4, <3>5, <3>6 DEF TabOK
  <2> QED BY <2>4, <2>5
<1> QED BY <1>5, <1>6, <1>7, <1>8, CallMovesKeeps

(* The answer to who the user is, is about the token the tab has. *)
LEMMA UserArrivesKeeps ==
    ASSUME BwInv, NEW c \in Calls, Arrives(c), call[c].kind \in {"me", "bootMe"}
    PROVE  BwInv'
<1>0. BwTyped /\ (\A d \in Calls : CallOK(d) /\ FlightOK(d)) /\ TabsOK BY DEF BwInv
<1> PICK u \in Tabs : u = tabOf[c] BY <1>0 DEF BwTyped
<1>1. call[c].at = "answered" /\ call[c] \in BwRequests BY <1>0, OpenOrIdle DEF Arrives
<1>2. PICK s \in NamedScopes : s = call[c].answer.scope
  BY <1>1 DEF BwRequests, BwAnswers
<1>3. call[c].answer.cookie = NoCookie /\ ~call[c].answer.clears /\ s = call[c].access.scope
  BY <1>0, <1>1, <1>2 DEF CallOK, AnswerOK, Arrives
<1>4. /\ UNCHANGED <<tabOf, flight, cookie, sessions, dead, reused, doubled, lostOne, mixedUp>>
      /\ halfSwitched' = halfSwitched \ {u}
  BY <1>3 DEF Arrives, SetCookie, CookieAfter, ServerVars
<1>5. broughtBy' = broughtBy \/ (cookie' = NoCookie /\ broughtBy' = "nobody")
  BY <1>3, <1>4 DEF Arrives, SetCookie, CookieAfter
<1>6. tab' = [tab EXCEPT ![u].user = s] BY <1>2 DEF Arrives
<1>7. call' = [call EXCEPT ![c] = NoCall] BY DEF Arrives
<1>8. call'[c] = NoCall /\ (\A e \in Calls \ {c} : call'[e] = call[e]) /\ NoCall.at = "idle"
  BY <1>0, <1>7 DEF BwTyped, NoCall
<1>9. /\ tab' \in [Tabs -> [access : BwAccesses, user : NamedScopes]]
      /\ tab'[u].user = s /\ tab'[u].access = tab[u].access
         /\ \A t \in Tabs \ {u} : tab'[t] = tab[t]
  BY <1>0, <1>6 DEF BwTyped
<1>10. CallMoves(c, NoCall)
  BY <1>0, <1>1, <1>4, <1>5, <1>7, <1>8, <1>9 DEF CallMoves, BwTyped
<1>11. CallOK(c)' BY <1>8 DEF CallOK
<1>12. ASSUME u \notin mixedUp' PROVE TabOK(u)'
  <2>1. TabOK(u) BY <1>12, <1>0, <1>4 DEF TabsOK
  <2>2. Plays(c, u, {"me", "bootMe"}) BY <1>1 DEF Plays
  <2>3. s = tab[u].access.scope
    BY <2>1, <2>2, <1>1, <1>3 DEF TabOK, AsksAbout
  <2>4. \A e \in Calls : \A kinds : Plays(e, u, kinds)' <=> (Plays(e, u, kinds) /\ e # c)
    BY <1>4, <1>8 DEF Plays
  <2>5. ShowsOrAsks(u)' BY <2>3, <1>9 DEF ShowsOrAsks
  <2>6. AsksAbout(u)' BY <2>1, <2>4, <1>8, <1>9 DEF TabOK, AsksAbout
  <2>7. BootsAlone(u)'
    <3> SUFFICES ASSUME NEW e \in Calls, e # c, Plays(e, u, {"boot", "bootMe"}) PROVE FALSE
      BY <2>4 DEF BootsAlone
    <3>1. \A d \in Calls : Plays(d, u, BwKinds \ {"login"}) => d = e BY <2>1 DEF TabOK,
        BootsAlone
    <3>2. Plays(c, u, BwKinds \ {"login"}) BY <2>2 DEF Plays, BwKinds
    <3> QED BY <3>1, <3>2
  <2>8. JarFits(u)' /\ FlightsFit(u)'
    <3>1. JarFits(u)' BY <2>1, <1>4, <1>5, <1>9 DEF TabOK, JarFits, Agrees
    <3>2. FlightsFit(u)' BY <2>1, <1>4, <1>9 DEF TabOK, FlightsFit, Agrees
    <3> QED BY <3>1, <3>2
  <2> QED BY <2>5, <2>6, <2>7, <2>8 DEF TabOK
<1> QED BY <1>9, <1>10, <1>11, <1>12, CallMovesKeeps

LEMMA LogoutArrivesKeeps ==
    ASSUME BwInv, NEW c \in Calls, Arrives(c), call[c].kind = "logout"
    PROVE  BwInv'
<1>0. BwTyped /\ (\A d \in Calls : CallOK(d) /\ FlightOK(d)) /\ TabsOK BY DEF BwInv
<1> PICK u \in Tabs : u = tabOf[c] BY <1>0 DEF BwTyped
<1>1. call[c].at = "answered" /\ call[c] \in BwRequests BY <1>0, OpenOrIdle DEF Arrives
<1>2. call[c].answer.clears
  BY <1>0, <1>1 DEF CallOK, AnswerOK, Arrives
<1>3. cookie' = NoCookie /\ broughtBy' = "nobody" BY <1>2 DEF Arrives, SetCookie, CookieAfter
<1>4. UNCHANGED <<tabOf, flight, sessions, dead, reused, doubled, lostOne>>
  BY DEF Arrives, ServerVars
<1>5. tab' = [tab EXCEPT ![u] = SignedOut] /\ call' = [call EXCEPT ![c] = NoCall]
  BY DEF Arrives
<1>6. call'[c] = NoCall /\ (\A e \in Calls \ {c} : call'[e] = call[e]) /\ NoCall.at = "idle"
  BY <1>0, <1>5 DEF BwTyped, NoCall
<1>7. SignedOut \in [access : BwAccesses, user : NamedScopes]
  BY BwRecordsTyped DEF SignedOut, NamedScopes
<1>8. /\ tab' \in [Tabs -> [access : BwAccesses, user : NamedScopes]]
      /\ tab'[u] = SignedOut /\ \A t \in Tabs \ {u} : tab'[t] = tab[t]
  BY <1>0, <1>5, <1>7 DEF BwTyped
<1>9. CallMoves(c, NoCall)
  <2>1. \A t \in Tabs : t # u => tab'[t] = tab[t] /\ (t \in mixedUp <=> t \in mixedUp')
        /\ (t \in halfSwitched => t \in halfSwitched')
    BY <1>8 DEF Arrives
  <2> QED BY <2>1, <1>1, <1>3, <1>4, <1>5, <1>6 DEF CallMoves
<1>10. CallOK(c)' BY <1>6 DEF CallOK
<1>11. ASSUME u \notin mixedUp' PROVE TabOK(u)'
  <2>1. Flights(u) = {} /\ ~MeUnderWay(u) BY <1>11 DEF Arrives
  <2>2. ~Asking(u) BY <2>1, <1>0, FlightsThere, NobodySignedIn
  <2>3. ~Asking(u)' BY <2>2, <1>4, <1>6 DEF Asking, Plays
  <2> QED BY <2>3, <1>8, SignedOutFits
<1> QED BY <1>8, <1>9, <1>10, <1>11, CallMovesKeeps

(* The answer to a login or a switch comes with a token that is nowhere *)
(* else.                                                                *)
LEMMA SessionArrivesKeeps ==
    ASSUME BwInv, NEW c \in Calls, Arrives(c), call[c].kind \in {"login", "switch"}
    PROVE  BwInv'
<1>0. BwTyped /\ TokensKnown /\ (\A d \in Calls : CallOK(d) /\ FlightOK(d)) /\ TabsOK
    /\ NothingTwice
  BY DEF BwInv
<1> PICK u \in Tabs : u = tabOf[c] BY <1>0 DEF BwTyped
<1>1. call[c].at = "answered" /\ call[c] \in BwRequests BY <1>0, OpenOrIdle DEF Arrives
<1>2. PICK s \in Scopes, ck \in BwCookies : s = call[c].answer.scope
    /\ ck = call[c].answer.cookie
  BY <1>0, <1>1 DEF CallOK, AnswerOK, Arrives, BwRequests, BwAnswers
<1>3. ck # NoCookie /\ ~call[c].answer.clears /\ sessions[ck[1]].scope = s
  BY <1>0, <1>1, <1>2 DEF CallOK, AnswerOK, Arrives
<1>4. cookie' = ck /\ broughtBy' = u
  BY <1>2, <1>3 DEF Arrives, SetCookie, CookieAfter
<1>5. UNCHANGED <<tabOf, flight, sessions, dead, reused, doubled, lostOne>>
  BY DEF Arrives, ServerVars
<1>6. s \in NamedScopes /\ s # "none" BY DEF NamedScopes, Scopes
<1>7. PICK r \in {NoCall} \cup BwRequests :
         /\ call' = [call EXCEPT ![c] = r]
         /\ \/ r = NoCall /\ call[c].kind = "login"
            \/ r.at = "sent" /\ r.kind = "me" /\ r.access.scope = s /\ call[c].kind = "switch"
  <2>1. CASE call[c].kind = "login"
    BY <2>1 DEF Arrives
  <2>2. CASE call[c].kind = "switch"
    <3> DEFINE r == Request("me", "none", Token(s), FALSE, NoCookie)
    <3>1. Token(s) \in BwAccesses /\ Token(s).scope = s BY BwRecordsTyped DEF Token
    <3>2. r \in BwRequests BY <3>1, BwRecordsTyped DEF Request, BwRequests, BwKinds, NamedScopes
    <3>3. r.at = "sent" /\ r.kind = "me" /\ r.access.scope = s BY <3>1 DEF Request
    <3>4. call' = [call EXCEPT ![c] = r] BY <2>2, <1>2 DEF Arrives
    <3> QED BY <2>2, <3>2, <3>3, <3>4
  <2> QED BY <2>1, <2>2
<1>8. call'[c] = r /\ (\A e \in Calls \ {c} : call'[e] = call[e]) /\ NoCall.at = "idle"
  BY <1>0, <1>7 DEF BwTyped, NoCall
<1>9. /\ tab' \in [Tabs -> [access : BwAccesses, user : NamedScopes]]
      /\ tab'[u].access.scope = s /\ (call[c].kind = "login" => tab'[u].user = s)
      /\ \A t \in Tabs \ {u} : tab'[t] = tab[t]
  <2>1. Token(s) \in BwAccesses /\ Token(s).scope = s BY BwRecordsTyped DEF Token
  <2>2. CASE call[c].kind = "login"
    <3>1. tab' = [tab EXCEPT ![u] = [access |-> Token(s), user |-> s]] BY <2>2, <1>2 DEF Arrives
    <3> QED BY <2>1, <3>1, <1>0, <1>6 DEF BwTyped
  <2>3. CASE call[c].kind = "switch"
    <3>1. tab' = [tab EXCEPT ![u].access = Token(s)] BY <2>3, <1>2 DEF Arrives
    <3> QED BY <2>1, <2>3, <3>1, <1>0 DEF BwTyped
  <2> QED BY <2>2, <2>3
<1>10. BwTyped'
  <2>1. call' \in [Calls -> {NoCall} \cup BwRequests]
    BY <1>0, <1>7 DEF BwTyped
  <2> QED BY <2>1, <1>0, <1>4, <1>5, <1>9 DEF BwTyped
<1>11. /\ \A e \in Calls : Takes(e)' = Takes(e) /\ Renews(e)' = Renews(e)
       /\ \A e \in Calls \ {c} : Brings(e)' = Brings(e)
       /\ Brings(c)' = NoCookie /\ Brings(c) = ck
  BY <1>1, <1>2, <1>5, <1>7, <1>8 DEF Takes, Renews, Brings
<1>12. TokensKnown'
  BY <1>0, <1>4, <1>5, <1>11 DEF TokensKnown, Known
<1>13. ASSUME NEW e \in Calls PROVE CallOK(e)' /\ FlightOK(e)'
  <2>0. CallOK(e) /\ FlightOK(e) BY <1>0
  <2>1. CASE e = c
    <3>1. flight[c].at = "none" BY <2>0, <2>1, <1>1 DEF FlightOK
    <3>2. CallOK(c)' BY <1>7, <1>8 DEF CallOK
    <3> QED BY <2>1, <3>1, <3>2, <1>5 DEF FlightOK
  <2>2. CASE e # c
    BY <2>0, <2>2, <1>5, <1>8 DEF CallOK, AnswerOK, FlightOK, RenewalOK
  <2> QED BY <2>1, <2>2
<1>14. TabsOK'
  <2> SUFFICES ASSUME NEW t \in Tabs, t \notin mixedUp' PROVE TabOK(t)'
    BY DEF TabsOK
  <2>1. t \notin mixedUp /\ (t = u => Flights(u) = {} /\ ~MeUnderWay(u)) BY DEF Arrives
  <2>2. TabOK(t) BY <2>1, <1>0 DEF TabsOK
  <2>3. CASE t # u
    <3>0. t \in halfSwitched => t \in halfSwitched' BY <2>3 DEF Arrives
    <3>1. Others(t) BY <2>3, <3>0, <1>4, <1>5, <1>8, <1>9 DEF Others
    <3> QED BY <3>1, <2>2, <1>0, TabStands
  <2>4. CASE t = u
    <3>1. ~Asking(u) /\ ~InFlight(u) BY <2>1, <2>4, <1>0, FlightsThere, NobodySignedIn
    <3>2. \A e \in Calls : e # c => ~Plays(e, u, {"me", "bootMe", "boot"})'
      BY <3>1, <1>5, <1>8 DEF Asking, Plays
    <3>3. ShowsOrAsks(u)'
      <4>1. CASE call[c].kind = "login" BY <4>1, <1>9 DEF ShowsOrAsks
      <4>2. CASE call[c].kind = "switch"
        <5>1. Plays(c, u, {"me", "bootMe", "boot"})' BY <4>2, <1>5, <1>7, <1>8 DEF Plays
        <5> QED BY <5>1 DEF ShowsOrAsks
      <4> QED BY <4>1, <4>2
    <3>4. AsksAbout(u)'
      <4> SUFFICES ASSUME NEW e \in Calls, Plays(e, u, {"me", "bootMe"})'
           PROVE tab'[u].access.scope # "none" /\ call'[e].access.scope = tab'[u].access.scope
        BY DEF AsksAbout
      <4>1. e = c BY <3>2 DEF Plays
      <4>2. r.access.scope = s BY <4>1, <1>7, <1>8 DEF Plays
      <4> QED BY <4>1, <4>2, <1>6, <1>8, <1>9
    <3>5. BootsAlone(u)'
      <4>1. ~Plays(c, u, {"boot", "bootMe"})' BY <1>7, <1>8 DEF Plays
      <4>2. \A e \in Calls : ~Plays(e, u, {"boot", "bootMe"})' BY <4>1, <3>2 DEF Plays
      <4> QED BY <4>2 DEF BootsAlone
    <3>6. JarFits(u)' BY <1>3, <1>4, <1>5, <1>9 DEF JarFits, Agrees
    <3>7. FlightsFit(u)' BY <3>1, <1>5 DEF FlightsFit, InFlight
    <3> QED BY <2>4, <3>3, <3>4, <3>5, <3>6, <3>7 DEF TabOK
  <2> QED BY <2>3, <2>4
<1>15. NothingTwice'
  <2> SUFFICES ASSUME ~doubled, ~lostOne PROVE NothingTwice'
    BY <1>5 DEF NothingTwice
  <2>1. reused = {} /\ JarIsLatest /\ \A e \in Calls : Distinct(e) /\ SentIsLatest(e)
      /\ RenewedIsLatest(e) /\ GrantedIsNew(e)
    BY <1>0 DEF NothingTwice
  <2>2. Usable(ck) => /\ Latest(ck) /\ \A d \in Calls : Takes(d) # NoCookie => Takes(d)[1] # ck[1]
                    /\ \A d \in Calls : Brings(d) # NoCookie /\ Brings(d)[1] = ck[1] => d = c
    BY <2>1, <1>11 DEF GrantedIsNew
  <2>3. JarIsLatest' BY <2>2, <1>4, <1>5 DEF JarIsLatest, Usable, Latest
  <2>4. ASSUME NEW e \in Calls PROVE Distinct(e)' /\ SentIsLatest(e)' /\ RenewedIsLatest(e)'
      /\ GrantedIsNew(e)'
    <3>1. Distinct(e)' BY <2>1, <1>11 DEF Distinct
    <3>2. SentIsLatest(e)' BY <2>1, <1>5 DEF SentIsLatest, Usable, Latest
    <3>3. RenewedIsLatest(e)'
      <4> SUFFICES ASSUME Usable(Renews(e)) PROVE RenewedIsLatest(e)'
        BY <1>5, <1>11 DEF RenewedIsLatest, Usable
      <4>1. ck # Renews(e)
        <5>1. Takes(e) # NoCookie /\ Takes(e)[1] = Renews(e)[1]
          BY <1>0 DEF FlightOK, RenewalOK, Usable, Renews, Takes
        <5> QED BY <5>1, <2>2
      <4> QED BY <4>1, <2>1, <1>4, <1>5, <1>11 DEF RenewedIsLatest, Usable, Latest
    <3>4. GrantedIsNew(e)'
      <4>1. CASE e = c BY <4>1, <1>11 DEF GrantedIsNew, Usable
      <4>2. CASE e # c
        <5> SUFFICES ASSUME Usable(Brings(e)) PROVE GrantedIsNew(e)'
          BY <4>2, <1>5, <1>11 DEF GrantedIsNew, Usable
        <5>1. ck[1] # Brings(e)[1] BY <4>2, <2>2, <1>3 DEF Usable
        <5> QED BY <4>2, <5>1, <2>1, <1>4, <1>5, <1>11 DEF GrantedIsNew, Usable, Latest
      <4> QED BY <4>1, <4>2
    <3> QED BY <3>1, <3>2, <3>3, <3>4
  <2> QED BY <2>1, <2>3, <2>4, <1>5 DEF NothingTwice
<1> QED BY <1>10, <1>12, <1>13, <1>14, <1>15 DEF BwInv

LEMMA ArrivesKeeps ==
    ASSUME BwInv, NEW c \in Calls, Arrives(c)
    PROVE  BwInv'
<1>1. call[c].kind \in {"login", "switch", "me", "bootMe", "logout"}
  BY DEF BwInv, CallOK, AnswerOK, Arrives
<1> QED BY <1>1, SessionArrivesKeeps, UserArrivesKeeps, LogoutArrivesKeeps

LEMMA SelfAwaitedKeeps ==
    ASSUME BwInv, NEW c \in Calls, RefreshAwaitsItself(c)
    PROVE  BwInv'
<1>0. BwTyped /\ FlightOK(c) BY DEF BwInv
<1>1. flight[c].at = "answered" /\ flight[c].answer.cookie = NoCookie /\ flight[c] \in BwFlights
  BY <1>0, OpenOrIdle DEF RefreshAwaitsItself, FlightOK, RenewalOK
<1>2. PICK g \in BwFlights : flight' = [flight EXCEPT ![c] = g] /\ g.at = "self"
    /\ g.cookie = flight[c].cookie /\ g.from = flight[c].from
  <2> DEFINE g == [flight[c] EXCEPT !.at = "self"]
  <2>1. g \in BwFlights /\ g.at = "self" /\ g.cookie = flight[c].cookie
      /\ g.from = flight[c].from BY <1>1 DEF BwFlights
  <2>2. flight' = [flight EXCEPT ![c] = g] BY <1>0 DEF RefreshAwaitsItself, BwTyped
  <2> QED BY <2>1, <2>2
<1>3. UNCHANGED <<tabOf, call, tab, doubled, lostOne, mixedUp, halfSwitched, sessions, dead, reused>>
  BY DEF RefreshAwaitsItself, ServerVars, GhostVars
<1>4. cookie' = NoCookie \/ (cookie' = cookie /\ broughtBy' = broughtBy)
  BY <1>1 DEF RefreshAwaitsItself, SetCookie, CookieAfter
<1>5. broughtBy' \in Tabs \cup {"nobody"}
  BY <1>0, <1>1 DEF RefreshAwaitsItself, SetCookie, BwTyped
<1>6. FlightMoves(c, g)
  BY <1>1, <1>2, <1>3, <1>4, <1>5 DEF FlightMoves, Renews
<1> QED BY <1>6, FlightMovesKeeps

(* Clocks run, or nothing happens. *)
LEMMA ClockKeeps ==
    ASSUME BwInv,
        UNCHANGED <<tabOf, call, flight, tab, sessions, dead, reused, doubled, lostOne, mixedUp, halfSwitched>>,
           \/ UNCHANGED <<cookie, broughtBy>>
           \/ cookie' = NoCookie /\ broughtBy' = "nobody"
    PROVE  BwInv'
<1>0. BwTyped /\ TokensKnown /\ (\A d \in Calls : CallOK(d) /\ FlightOK(d)) /\ TabsOK
    /\ NothingTwice
  BY DEF BwInv
<1>1. BwTyped' BY <1>0, BwRecordsTyped DEF BwTyped
<1>2. \A e \in Calls : Takes(e)' = Takes(e) /\ Renews(e)' = Renews(e) /\ Brings(e)' = Brings(e)
  BY DEF Takes, Renews, Brings
<1>3. TokensKnown' BY <1>0, <1>2 DEF TokensKnown, Known
<1>4. \A e \in Calls : CallOK(e)' /\ FlightOK(e)' BY <1>0 DEF CallOK, AnswerOK, FlightOK,
    RenewalOK
<1>5. TabsOK'
  <2> SUFFICES ASSUME NEW t \in Tabs, t \notin mixedUp PROVE TabOK(t)' BY DEF TabsOK
  <2>1. TabOK(t) BY <1>0 DEF TabsOK
  <2>2. Others(t) BY DEF Others
  <2> QED BY <2>1, <2>2, <1>0, TabStands
<1>6. Shrinks BY <1>2 DEF Shrinks
<1>7. NothingTwice' BY <1>0, <1>1, <1>6, NothingTwiceShrinks
<1> QED BY <1>1, <1>3, <1>4, <1>5, <1>7 DEF BwInv

\* The refresh c ends: the calls that waited for it go on or fail.
(* The refresh c ends: calls that waited for it go out again, if it was ok, *)
(* or fail.                                                                 *)
Resumed(c, ok) ==
    /\ flight' = [flight EXCEPT ![c] = NoFlight]
    /\ UNCHANGED <<tabOf, sessions, dead, reused, doubled>>
    /\ \A e \in Calls :
         IF call[e].at # "waiting" \/ call[e].on # c THEN call'[e] = call[e]
         ELSE IF ~ok THEN call'[e] = NoCall
         ELSE /\ call'[e] \in BwRequests /\ call'[e].at = "sent"
              /\ call'[e].where = call[e].where \/ call'[e].kind = "bootMe"
              /\ call'[e].kind = IF call[e].kind = "boot" THEN "bootMe" ELSE call[e].kind

(* As a tab has one refresh at a time, none of its calls waits any longer. *)
LEMMA ResumedCalls ==
    ASSUME BwTyped, \A d \in Calls : CallOK(d) /\ FlightOK(d), NEW c \in Calls,
        NEW ok \in BOOLEAN, Resumed(c, ok), flight[c].at # "none"
    PROVE  /\ \A e \in Calls : CallOK(e)' /\ FlightOK(e)'
           /\ \A e \in Calls : tabOf[e] # tabOf[c] => call'[e] = call[e]
              /\ flight'[e] = flight[e]
           /\ \A e \in Calls : tabOf[e] = tabOf[c] => flight'[e].at = "none"
              /\ call'[e].at # "waiting"
           /\ \A e \in Calls : Brings(e)' = Brings(e)
           /\ \A e \in Calls \ {c} : Takes(e)' = Takes(e) /\ Renews(e)' = Renews(e)
           /\ Takes(c)' = NoCookie /\ Renews(c)' = NoCookie
           /\ flight'[c].at = "none" /\ \A e \in Calls \ {c} : flight'[e] = flight[e]
<1>1. flight'[c] = NoFlight /\ NoFlight.at = "none" /\ NoCall.at = "idle"
    /\ \A e \in Calls \ {c} : flight'[e] = flight[e]
  BY DEF Resumed, BwTyped, NoFlight, NoCall
<1>2. UNCHANGED <<tabOf, sessions>> BY DEF Resumed
<1>3. ASSUME NEW e \in Calls, tabOf[e] = tabOf[c] PROVE flight'[e].at = "none"
    /\ call'[e].at # "waiting"
  <2>1. flight[e].at # "none" => e = c BY <1>3 DEF FlightOK
  <2>2. call[e].at = "waiting" => call[e].on = c
    BY <1>3 DEF CallOK, FlightOK
  <2>3. CASE call[e].at # "waiting" BY <2>1, <2>3, <1>1 DEF Resumed
  <2>4. CASE call[e].at = "waiting" /\ ok BY <2>1, <2>2, <2>4, <1>1 DEF Resumed
  <2>5. CASE call[e].at = "waiting" /\ ~ok BY <2>1, <2>2, <2>5, <1>1 DEF Resumed
  <2> QED BY <2>3, <2>4, <2>5
<1>4. ASSUME NEW e \in Calls, tabOf[e] # tabOf[c] PROVE call'[e] = call[e]
    /\ flight'[e] = flight[e]
  BY <1>1, <1>4 DEF Resumed, CallOK
<1>5. ASSUME NEW e \in Calls PROVE Brings(e)' = Brings(e)
  <2>1. CASE call[e].at # "waiting" \/ call[e].on # c BY <2>1 DEF Resumed, Brings
  <2>2. CASE ~(call[e].at # "waiting" \/ call[e].on # c)
    <3>1. call'[e].at # "answered" BY <2>2, <1>1 DEF Resumed
    <3> QED BY <2>2, <3>1 DEF Brings
  <2> QED BY <2>1, <2>2
<1>6. \A e \in Calls \ {c} : Takes(e)' = Takes(e) /\ Renews(e)' = Renews(e)
  BY <1>1 DEF Takes, Renews
<1>7. Takes(c)' = NoCookie /\ Renews(c)' = NoCookie BY <1>1 DEF Takes, Renews
<1>8. ASSUME NEW e \in Calls PROVE CallOK(e)' /\ FlightOK(e)'
  <2>0. CallOK(e) /\ FlightOK(e) OBVIOUS
  <2>1. CallOK(e)'
    <3>1. CASE call[e].at # "waiting" \/ call[e].on # c
      <4>1. call'[e] = call[e] BY <3>1 DEF Resumed
      <4>2. call[e].at = "waiting" => call[e].on \in Calls \ {c} BY <3>1, <2>0 DEF CallOK
      <4> QED BY <4>1, <4>2, <2>0, <1>1, <1>2 DEF CallOK, AnswerOK
    <3>2. CASE ~(call[e].at # "waiting" \/ call[e].on # c) /\ ~ok
      BY <3>2, <1>1 DEF Resumed, CallOK
    <3>3. CASE ~(call[e].at # "waiting" \/ call[e].on # c) /\ ok
      <4>1. call'[e].at = "sent" /\ call'[e].kind # "boot" BY <3>3 DEF Resumed
      <4>2. call'[e].kind \in {"login", "switch"} => call'[e].where \in Scopes
        BY <3>3, <2>0 DEF Resumed, CallOK
      <4> QED BY <4>1, <4>2 DEF CallOK
    <3> QED BY <3>1, <3>2, <3>3
  <2>2. FlightOK(e)'
    <3>1. CASE e = c BY <3>1, <1>1 DEF FlightOK
    <3>2. CASE e # c /\ flight[e].at = "none" BY <3>2, <1>1 DEF FlightOK
    <3>3. CASE e # c /\ flight[e].at # "none"
      <4>1. call[e].at = "waiting" /\ call[e].on = e /\ (flight[e].at = "answered"
          => RenewalOK(e))
            /\ \A d \in Calls : flight[d].at # "none" /\ tabOf[d] = tabOf[e] => d = e
        BY <3>3, <2>0 DEF FlightOK
      <4>2. call'[e] = call[e] BY <3>3, <4>1 DEF Resumed
      <4> QED BY <3>3, <4>1, <4>2, <1>1, <1>2 DEF FlightOK, RenewalOK
    <3> QED BY <3>1, <3>2, <3>3
  <2> QED BY <2>1, <2>2
<1> QED BY <1>1, <1>3, <1>4, <1>5, <1>6, <1>7, <1>8

(* A refresh that fails signs the tab out. *)
LEMMA EndRefreshKeeps ==
    ASSUME BwInv, NEW c \in Calls, flight[c].at # "none", EndRefresh(c),
           UNCHANGED <<tabOf, sessions, dead, reused, doubled>>,
           cookie' = NoCookie \/ (cookie' = cookie /\ broughtBy' = broughtBy),
           broughtBy' \in Tabs \cup {"nobody"},
           lostOne => lostOne', Renews(c) # NoCookie => lostOne'
    PROVE  BwInv'
<1>0. BwTyped /\ TokensKnown /\ (\A d \in Calls : CallOK(d) /\ FlightOK(d)) /\ TabsOK
    /\ NothingTwice
  BY DEF BwInv
<1> PICK u \in Tabs : u = tabOf[c] BY <1>0 DEF BwTyped
<1>1. Resumed(c, FALSE) BY DEF EndRefresh, Resumed, Resume
<1>2. /\ \A e \in Calls : CallOK(e)' /\ FlightOK(e)'
      /\ \A e \in Calls : tabOf[e] # u => call'[e] = call[e] /\ flight'[e] = flight[e]
      /\ \A e \in Calls : tabOf[e] = u => flight'[e].at = "none" /\ call'[e].at # "waiting"
      /\ \A e \in Calls : Brings(e)' = Brings(e)
      /\ \A e \in Calls \ {c} : Takes(e)' = Takes(e) /\ Renews(e)' = Renews(e)
      /\ Takes(c)' = NoCookie /\ Renews(c)' = NoCookie
      /\ flight'[c].at = "none" /\ \A e \in Calls \ {c} : flight'[e] = flight[e]
  BY <1>0, <1>1, ResumedCalls
<1>3. call' = Resume(c, NoAccess, NoCookie)
    /\ \A e \in Calls : call'[e] = call[e] \/ call'[e] = NoCall
  BY DEF EndRefresh, Resume
<1>4. SignedOut \in [access : BwAccesses, user : NamedScopes]
  BY BwRecordsTyped DEF SignedOut, NamedScopes
<1>5. tab' = [tab EXCEPT ![u] = SignedOut] /\ flight' = [flight EXCEPT ![c] = NoFlight]
  BY DEF EndRefresh
<1>6. BwTyped'
  <2>1. call' \in [Calls -> {NoCall} \cup BwRequests]
    BY <1>0 DEF EndRefresh, Resume, BwTyped
  <2>2. flight' \in [Calls -> {NoFlight} \cup BwFlights] BY <1>0, <1>5 DEF BwTyped
  <2>3. tab' \in [Tabs -> [access : BwAccesses, user : NamedScopes]] BY <1>0, <1>4, <1>5
      DEF BwTyped
  <2> QED BY <2>1, <2>2, <2>3, <1>0, BwRecordsTyped DEF BwTyped
<1>7. tab'[u] = SignedOut /\ \A t \in Tabs \ {u} : tab'[t] = tab[t]
  BY <1>0, <1>5 DEF BwTyped
<1>8. TokensKnown' BY <1>0, <1>2 DEF TokensKnown, Known
<1>9. TabsOK'
  <2> SUFFICES ASSUME NEW t \in Tabs, t \notin mixedUp' PROVE TabOK(t)' BY DEF TabsOK
  <2>1. t \notin mixedUp /\ (t = u => ~MeUnderWay(u)) BY DEF EndRefresh
  <2>2. CASE t # u
    <3>0. t \in halfSwitched => t \in halfSwitched' BY <2>2 DEF EndRefresh
    <3>1. Others(t) BY <2>2, <3>0, <1>2, <1>7 DEF Others
    <3>2. TabOK(t) BY <2>1, <1>0 DEF TabsOK
    <3> QED BY <3>1, <3>2, <1>0, TabStands
  <2>3. CASE t = u
    <3>1. ~Asking(u)'
      <4> SUFFICES ASSUME NEW e \in Calls, Plays(e, u, {"me", "bootMe", "boot"})' PROVE FALSE
          BY DEF Asking
      <4>1. call'[e].at # "waiting" /\ call'[e].at # "idle"
          /\ call'[e].kind \in {"me", "bootMe", "boot"} /\ tabOf[e] = u
        BY <1>2 DEF Plays
      <4>2. call'[e] = call[e] BY <4>1, <1>3 DEF NoCall
      <4>3. call[e].kind # "boot" BY <4>1, <4>2, <1>0 DEF CallOK
      <4> QED BY <4>1, <4>2, <4>3, <2>1, <2>3 DEF MeUnderWay, CallsOf, Kind
    <3> QED BY <2>3, <3>1, <1>7, SignedOutFits
  <2> QED BY <2>2, <2>3
<1>10. NothingTwice'
  <2>1. \A e \in Calls : /\ Brings(e)' \in {Brings(e), NoCookie} /\ Takes(e)' \in {Takes(e), NoCookie}
                         /\ flight'[e].at = "sent" => flight[e].at = "sent"
                            /\ flight'[e].cookie = flight[e].cookie
    BY <1>2
  <2>2. \A e \in Calls : \/ Renews(e)' = Renews(e) /\ (Renews(e) # NoCookie => Takes(e)' = Takes(e))
                         \/ Renews(e)' = NoCookie /\ (lostOne' \/ Renews(e) = NoCookie)
    BY <1>2
  <2>3. Shrinks BY <2>1, <2>2 DEF Shrinks
  <2> QED BY <2>3, <1>0, <1>6, NothingTwiceShrinks
<1> QED BY <1>2, <1>6, <1>8, <1>9, <1>10 DEF BwInv

LEMMA RefreshRefusedKeeps ==
    ASSUME BwInv, NEW c \in Calls, RefreshRefused(c)
    PROVE  BwInv'
<1>0. BwTyped /\ FlightOK(c) BY DEF BwInv
<1>1. flight[c].at = "answered" /\ flight[c].answer.cookie = NoCookie
  BY <1>0 DEF RefreshRefused, FlightOK, RenewalOK
<1>2. UNCHANGED <<tabOf, sessions, dead, reused, doubled, lostOne>> /\ EndRefresh(c)
  BY DEF RefreshRefused, ServerVars
<1>3. cookie' = NoCookie \/ (cookie' = cookie /\ broughtBy' = broughtBy)
  BY <1>1 DEF RefreshRefused, SetCookie, CookieAfter
<1>4. broughtBy' \in Tabs \cup {"nobody"}
  BY <1>0, <1>1 DEF RefreshRefused, SetCookie, BwTyped
<1> QED BY <1>1, <1>2, <1>3, <1>4, EndRefreshKeeps DEF Renews

LEMMA LoseRefreshKeeps ==
    ASSUME BwInv, NEW c \in Calls, LoseRefresh(c)
    PROVE  BwInv'
<1>0. BwTyped BY DEF BwInv
<1>1. flight[c].at # "none" /\ EndRefresh(c)
    /\ UNCHANGED <<tabOf, sessions, dead, reused, doubled, cookie, broughtBy>>
  BY DEF LoseRefresh, Jar, ServerVars
<1>2. (lostOne => lostOne') /\ (Renews(c) # NoCookie => lostOne')
  BY DEF LoseRefresh, Renews
<1>3. broughtBy' \in Tabs \cup {"nobody"} BY <1>0, <1>1 DEF BwTyped
<1> QED BY <1>1, <1>2, <1>3, EndRefreshKeeps

(* The answer to a refresh has the one token that follows the one         *)
(* presented, for the scope of its session: which is what the tab showed, *)
(* if it had set the cookie itself.                                       *)
LEMMA RefreshArrivesKeeps ==
    ASSUME BwInv, NEW c \in Calls, RefreshArrives(c)
    PROVE  BwInv'
<1>0. BwTyped /\ TokensKnown /\ (\A d \in Calls : CallOK(d) /\ FlightOK(d)) /\ TabsOK
    /\ NothingTwice
  BY DEF BwInv
<1> PICK u \in Tabs : u = tabOf[c] BY <1>0 DEF BwTyped
<1>1. flight[c].at = "answered" /\ flight[c].answer.result = "ok" /\ flight[c] \in BwFlights
    /\ flight[c].answer \in BwAnswers
  BY <1>0, OpenOrIdle DEF RefreshArrives, BwFlights
<1>2. PICK ck \in BwCookies, s \in NamedScopes, f \in BwFamilies :
        /\ ck = flight[c].answer.cookie /\ s = flight[c].answer.scope /\ f = ck[1]
           /\ ck # NoCookie
        /\ ~flight[c].answer.clears /\ flight[c].cookie # NoCookie /\ flight[c].cookie[1] = f
        /\ s = ScopeAfterRefresh(sessions[f].scope)
  <2>1. flight[c].answer.cookie # NoCookie /\ flight[c].answer.cookie \in BwCookies
      /\ flight[c].answer.scope \in NamedScopes
    BY <1>0, <1>1 DEF FlightOK, RenewalOK, BwAnswers
  <2>2. flight[c].answer.cookie[1] \in BwFamilies BY <2>1, CookieTyped
  <2> QED BY <2>1, <2>2, <1>0, <1>1 DEF FlightOK, RenewalOK
<1>3. Renews(c) = ck /\ Takes(c) = flight[c].cookie BY <1>1, <1>2 DEF Renews, Takes
<1>4. sessions[f].scope \in Scopes
  <2>1. Known(ck) /\ ck[2] \in Nat \ {0} BY <1>0, <1>2, <1>3, CookieTyped DEF TokensKnown
  <2>2. sessions[f].latest \in Nat BY <1>0 DEF BwTyped
  <2>3. ck[2] <= sessions[f].latest
    <3>1. ck # NoCookie /\ ck[1] = f BY <1>2
    <3> QED BY <2>1, <3>1 DEF Known
  <2>4. sessions[f].latest > 0 BY <2>1, <2>2, <2>3
  <2> QED BY <2>4, <1>0 DEF TokensKnown
<1>5. s \in Scopes /\ s # "none" /\ (sessions[f].scope # "project" => s = sessions[f].scope)
  BY <1>2, <1>4 DEF ScopeAfterRefresh, Scopes
<1>6. cookie' = ck /\ broughtBy' = u
  BY <1>2 DEF RefreshArrives, SetCookie, CookieAfter
<1>7. Token(s) \in BwAccesses /\ Token(s).scope = s /\ Token(s) # NoAccess
  BY <1>5, BwRecordsTyped DEF Token, NoAccess
<1>8. tab' = [tab EXCEPT ![u].access = Token(s)] /\ call' = Resume(c, Token(s), ck)
    /\ flight' = [flight EXCEPT ![c] = NoFlight]
  BY <1>2, <1>6 DEF RefreshArrives, SetCookie
<1>9. UNCHANGED <<tabOf, sessions, dead, reused, doubled, lostOne>> BY DEF RefreshArrives,
    ServerVars
<1>10. ASSUME NEW e \in Calls
       PROVE  IF call[e].at # "waiting" \/ call[e].on # c THEN call'[e] = call[e]
              ELSE /\ call'[e] \in BwRequests /\ call'[e].at = "sent" /\ call'[e].access = Token(s)
                   /\ call'[e].where = call[e].where \/ call'[e].kind = "bootMe"
                   /\ call'[e].kind = IF call[e].kind = "boot" THEN "bootMe" ELSE call[e].kind
  <2>1. call'[e] = IF call[e].at # "waiting" \/ call[e].on # c THEN call[e]
                   ELSE IF call[e].kind = "boot" THEN Request("bootMe", "none", Token(s), FALSE, NoCookie)
                   ELSE Request(call[e].kind, call[e].where, Token(s), TRUE, ck)
    BY <1>7, <1>8 DEF Resume
  <2>2. call[e].at = "waiting" => call[e].kind \in BwKinds /\ call[e].where \in NamedScopes
    BY <1>0, OpenOrIdle DEF BwRequests
  <2>3. Request("bootMe", "none", Token(s), FALSE, NoCookie) \in BwRequests
    BY <1>7, BwRecordsTyped DEF Request, BwRequests, BwKinds, NamedScopes
  <2>4. call[e].at = "waiting"
      => Request(call[e].kind, call[e].where, Token(s), TRUE, ck) \in BwRequests
    BY <2>2, <1>7, BwRecordsTyped DEF Request, BwRequests
  <2> QED BY <2>1, <2>3, <2>4 DEF Request
<1>11. Resumed(c, TRUE) BY <1>8, <1>9, <1>10 DEF Resumed
<1>12. /\ \A e \in Calls : CallOK(e)' /\ FlightOK(e)'
       /\ \A e \in Calls : tabOf[e] # u => call'[e] = call[e] /\ flight'[e] = flight[e]
       /\ \A e \in Calls : tabOf[e] = u => flight'[e].at = "none" /\ call'[e].at # "waiting"
       /\ \A e \in Calls : Brings(e)' = Brings(e)
       /\ \A e \in Calls \ {c} : Takes(e)' = Takes(e) /\ Renews(e)' = Renews(e)
       /\ Takes(c)' = NoCookie /\ Renews(c)' = NoCookie
       /\ flight'[c].at = "none" /\ \A e \in Calls \ {c} : flight'[e] = flight[e]
  BY <1>0, <1>1, <1>11, ResumedCalls
<1>13. BwTyped'
  <2>1. call' \in [Calls -> {NoCall} \cup BwRequests]
    <3>1. \A e \in Calls : call'[e] \in {NoCall} \cup BwRequests BY <1>0, <1>10 DEF BwTyped
    <3>2. call' = [e \in Calls |-> call'[e]] BY <1>8 DEF Resume
    <3> QED BY <3>1, <3>2
  <2>2. flight' \in [Calls -> {NoFlight} \cup BwFlights] BY <1>0, <1>8 DEF BwTyped
  <2>3. tab' \in [Tabs -> [access : BwAccesses, user : NamedScopes]] BY <1>0, <1>7, <1>8
      DEF BwTyped
  <2> QED BY <2>1, <2>2, <2>3, <1>0, <1>6, <1>9 DEF BwTyped
<1>14. tab'[u].access.scope = s /\ tab'[u].user = tab[u].user
    /\ \A t \in Tabs \ {u} : tab'[t] = tab[t]
  BY <1>0, <1>7, <1>8 DEF BwTyped
<1>15. TokensKnown'
  BY <1>0, <1>3, <1>6, <1>9, <1>12 DEF TokensKnown, Known
<1>16. TabsOK'
  <2> SUFFICES ASSUME NEW t \in Tabs, t \notin mixedUp' PROVE TabOK(t)' BY DEF TabsOK
  <2>1. t \notin mixedUp /\ halfSwitched' = halfSwitched BY DEF RefreshArrives
  <2>2. TabOK(t) BY <2>1, <1>0 DEF TabsOK
  <2>3. CASE t # u
    <3>1. Others(t) BY <2>1, <2>3, <1>6, <1>9, <1>12, <1>14 DEF Others
    <3> QED BY <3>1, <2>2, <1>0, TabStands
  <2>4. CASE t = u
    <3>1. /\ \/ flight[c].from = u /\ sessions[f].scope # "project"
             \/ tab[u].user = "none" /\ ~MeUnderWay(u)
          /\ tab[u].user = "none" => \E d \in Calls : Plays(d, u, {"boot", "bootMe"})
      BY <2>4, <1>2 DEF RefreshArrives, CallsOf, Kind, Plays
    <3>2. flight[c].from = u /\ sessions[f].scope # "project" /\ tab[u].access.scope # "none"
        => tab[u].access.scope = s
      BY <2>2, <2>4, <1>1, <1>2, <1>5 DEF TabOK, FlightsFit, Agrees
    <3>3. \A d \in Calls : /\ Plays(d, u, {"me", "bootMe"}) => Plays(d, u, {"me", "bootMe"})'
                           /\ Plays(d, u, {"boot"}) => Plays(d, u, {"bootMe"})'
      <4> TAKE d \in Calls
      <4>1. CASE call[d].at # "waiting" \/ call[d].on # c
        <5>1. call'[d] = call[d] BY <4>1, <1>10
        <5>2. ~Plays(d, u, {"boot"}) BY <5>1, <1>0, <1>12 DEF Plays, CallOK
        <5> QED BY <5>1, <5>2, <1>9 DEF Plays
      <4>2. CASE ~(call[d].at # "waiting" \/ call[d].on # c)
        BY <4>2, <1>9, <1>10 DEF Plays
      <4> QED BY <4>1, <4>2
    <3>4. ShowsOrAsks(u)'
      <4>1. CASE \E d \in Calls : Plays(d, u, {"me", "bootMe", "boot"})
        <5>1. \E d \in Calls : Plays(d, u, {"me", "bootMe", "boot"})' BY <4>1, <3>3 DEF Plays
        <5> QED BY <5>1 DEF ShowsOrAsks
      <4>2. CASE ~\E d \in Calls : Plays(d, u, {"me", "bootMe", "boot"})
        <5>1. tab[u].user = tab[u].access.scope \/ u \in halfSwitched'
          BY <4>2, <2>1, <2>2, <2>4 DEF TabOK, ShowsOrAsks
        <5>2. tab[u].user # "none" BY <4>2, <3>1 DEF Plays
        <5> QED BY <5>1, <5>2, <3>1, <3>2, <1>14 DEF ShowsOrAsks
      <4> QED BY <4>1, <4>2
    <3>5. AsksAbout(u)'
      <4> SUFFICES ASSUME NEW e \in Calls, Plays(e, u, {"me", "bootMe"})'
          PROVE call'[e].access.scope = s
        BY <1>5, <1>14 DEF AsksAbout
      <4>1. CASE call[e].at # "waiting" \/ call[e].on # c
        <5>1. call'[e] = call[e] /\ call[e].at # "waiting" BY <4>1, <1>9, <1>10, <1>12 DEF Plays
        <5>2. Plays(e, u, {"me", "bootMe"}) BY <5>1, <1>9 DEF Plays
        <5>3. MeUnderWay(u) BY <5>1, <5>2 DEF Plays, MeUnderWay, CallsOf, Kind
        <5>4. tab[u].access.scope # "none" /\ call[e].access.scope = tab[u].access.scope
          BY <5>1, <5>2, <2>2, <2>4 DEF TabOK, AsksAbout
        <5> QED BY <5>1, <5>3, <5>4, <3>1, <3>2
      <4>2. CASE ~(call[e].at # "waiting" \/ call[e].on # c)
        BY <4>2, <1>7, <1>10
      <4> QED BY <4>1, <4>2
    <3>6. BootsAlone(u)'
      <4>1. \A d \in Calls : /\ Plays(d, u, {"boot", "bootMe"})' => Plays(d, u, {"boot", "bootMe"})
                             /\ Plays(d, u, BwKinds \ {"login"})'
                                => Plays(d, u, BwKinds \ {"login"})
        <5> TAKE d \in Calls
        <5>1. CASE call[d].at # "waiting" \/ call[d].on # c
          BY <5>1, <1>9, <1>10 DEF Plays
        <5>2. CASE ~(call[d].at # "waiting" \/ call[d].on # c)
          BY <5>2, <1>9, <1>10 DEF Plays, BwKinds
        <5> QED BY <5>1, <5>2
      <4>2. BootsAlone(u) BY <2>2, <2>4 DEF TabOK
      <4> QED BY <4>1, <4>2, <1>14 DEF BootsAlone
    <3>7. JarFits(u)' BY <1>2, <1>5, <1>6, <1>9, <1>14 DEF JarFits, Agrees
    <3>8. FlightsFit(u)' BY <1>9, <1>12 DEF FlightsFit
    <3> QED BY <2>4, <3>4, <3>5, <3>6, <3>7, <3>8 DEF TabOK
  <2> QED BY <2>3, <2>4
<1>17. NothingTwice'
  <2> SUFFICES ASSUME ~doubled, ~lostOne PROVE NothingTwice'
    BY <1>9 DEF NothingTwice
  <2>1. reused = {} /\ JarIsLatest /\ \A e \in Calls : Distinct(e) /\ SentIsLatest(e)
      /\ RenewedIsLatest(e) /\ GrantedIsNew(e)
    BY <1>0 DEF NothingTwice
  <2>2. Usable(ck) => Latest(ck) /\ ck[2] = Takes(c)[2] + 1 /\ \A d \in Calls : Takes(d) # ck
    BY <2>1, <1>3 DEF RenewedIsLatest
  <2>3. JarIsLatest' BY <2>2, <1>6, <1>9 DEF JarIsLatest, Usable, Latest
  <2>4. ASSUME NEW e \in Calls PROVE Distinct(e)' /\ SentIsLatest(e)' /\ RenewedIsLatest(e)'
      /\ GrantedIsNew(e)'
    <3>1. Distinct(e)' BY <2>1, <1>12 DEF Distinct
    <3>2. SentIsLatest(e)' BY <2>1, <1>9, <1>12 DEF SentIsLatest, Usable, Latest
    <3>3. RenewedIsLatest(e)'
      <4> SUFFICES ASSUME e # c, Usable(Renews(e)) PROVE RenewedIsLatest(e)'
        BY <1>9, <1>12 DEF RenewedIsLatest, Usable
      <4>1. ck # Renews(e)
        <5> SUFFICES ASSUME ck = Renews(e) PROVE FALSE OBVIOUS
        <5>1. Takes(e) # NoCookie /\ Takes(e)[1] = f /\ Takes(e) \in BwCookies
            /\ Takes(c) \in BwCookies
          <6>1. flight[e].at = "answered" /\ flight[e].answer.cookie = ck BY <1>2 DEF Renews
          <6>2. RenewalOK(e) BY <6>1, <1>0 DEF FlightOK
          <6>3. flight[e].cookie # NoCookie /\ flight[e].cookie[1] = f BY <6>1, <6>2, <1>2
              DEF RenewalOK
          <6> QED BY <6>1, <6>3, <1>0, TokensTyped DEF Takes
        <5>2. ck[2] = Takes(e)[2] + 1 /\ ck[2] = Takes(c)[2] + 1 BY <2>1, <2>2
            DEF RenewedIsLatest
        <5>3. Takes(c) = <<f, Takes(c)[2]>> /\ Takes(e) = <<f, Takes(e)[2]>>
            /\ Takes(c)[2] \in Nat /\ Takes(e)[2] \in Nat
          BY <5>1, <1>2, <1>3, CookieTyped
        <5>4. Takes(c)[2] = Takes(e)[2] BY <5>2, <5>3
        <5> QED BY <5>1, <5>3, <5>4, <2>1 DEF Distinct
      <4> QED BY <4>1, <2>1, <1>6, <1>9, <1>12 DEF RenewedIsLatest, Usable, Latest
    <3>4. GrantedIsNew(e)'
      <4> SUFFICES ASSUME Usable(Brings(e)) PROVE GrantedIsNew(e)'
        BY <1>9, <1>12 DEF GrantedIsNew, Usable
      <4>1. ck[1] # Brings(e)[1] BY <2>1, <1>2, <1>3 DEF GrantedIsNew
      <4> QED BY <4>1, <2>1, <1>6, <1>9, <1>12 DEF GrantedIsNew, Usable, Latest
    <3> QED BY <3>1, <3>2, <3>3, <3>4
  <2> QED BY <2>1, <2>3, <2>4, <1>9 DEF NothingTwice
<1> QED BY <1>12, <1>13, <1>15, <1>16, <1>17 DEF BwInv

LEMMA AccessExpiresKeeps ==
    ASSUME BwInv, NEW t \in Tabs, AccessExpires(t)
    PROVE  BwInv'
<1>0. BwTyped /\ TokensKnown /\ (\A d \in Calls : CallOK(d) /\ FlightOK(d)) /\ TabsOK
    /\ NothingTwice
  BY DEF BwInv
<1>1. UNCHANGED <<tabOf, flight, cookie, broughtBy, sessions, dead, reused, doubled, lostOne,
                  mixedUp, halfSwitched>>
  BY DEF AccessExpires, Jar, ServerVars, GhostVars
<1>2. \A e \in Calls : \/ call'[e] = call[e]
                       \/ call[e].at = "sent" /\ tabOf[e] = t
                          /\ call'[e] = [call[e] EXCEPT !.access.fresh = FALSE]
  BY DEF AccessExpires
<1>3. ASSUME NEW e \in Calls, call'[e] # call[e]
      PROVE  /\ call'[e] \in BwRequests /\ call'[e].at = "sent" /\ call[e].at = "sent" /\ tabOf[e] = t
             /\ call'[e].kind = call[e].kind /\ call'[e].where = call[e].where
             /\ call'[e].access.scope = call[e].access.scope
  <2>1. call[e].at = "sent" /\ tabOf[e] = t
      /\ call'[e] = [call[e] EXCEPT !.access.fresh = FALSE] BY <1>2, <1>3
  <2>2. call[e] \in BwRequests BY <2>1, <1>0, OpenOrIdle
  <2>3. PICK r \in BwRequests : r = call[e] BY <2>2
  <2>4. PICK a \in BwAccesses : a = [r.access EXCEPT !.fresh = FALSE]
      /\ a.scope = r.access.scope
    <3>1. r.access \in BwAccesses BY DEF BwRequests
    <3>2. [r.access EXCEPT !.fresh = FALSE] \in BwAccesses
        /\ [r.access EXCEPT !.fresh = FALSE].scope = r.access.scope
      BY <3>1 DEF BwAccesses
    <3> QED BY <3>2
  <2>5. call'[e] = [r EXCEPT !.access = a]
    BY <2>1, <2>3, <2>4 DEF BwRequests
  <2>6. [r EXCEPT !.access = a] \in BwRequests BY DEF BwRequests
  <2>7. /\ [r EXCEPT !.access = a].at = r.at /\ [r EXCEPT !.access = a].kind = r.kind
        /\ [r EXCEPT !.access = a].where = r.where /\ [r EXCEPT !.access = a].access = a
    BY DEF BwRequests
  <2> QED BY <2>1, <2>3, <2>4, <2>5, <2>6, <2>7
<1>4. BwTyped'
  <2>1. call' \in [Calls -> {NoCall} \cup BwRequests]
    <3>1. \A e \in Calls : call'[e] \in {NoCall} \cup BwRequests BY <1>0, <1>3 DEF BwTyped
    <3>2. call' = [e \in Calls |-> call'[e]] BY DEF AccessExpires
    <3> QED BY <3>1, <3>2
  <2>2. tab' \in [Tabs -> [access : BwAccesses, user : NamedScopes]]
    BY <1>0 DEF AccessExpires, BwTyped, BwAccesses
  <2> QED BY <2>1, <2>2, <1>0, <1>1 DEF BwTyped
<1>5. \A u \in Tabs : tab'[u].user = tab[u].user /\ tab'[u].access.scope = tab[u].access.scope
  BY <1>0 DEF AccessExpires, BwTyped, BwAccesses
<1>6. \A e \in Calls : Takes(e)' = Takes(e) /\ Renews(e)' = Renews(e) /\ Brings(e)' = Brings(e)
  BY <1>1, <1>3 DEF Takes, Renews, Brings
<1>7. TokensKnown' BY <1>0, <1>1, <1>6 DEF TokensKnown, Known
<1>8. ASSUME NEW e \in Calls PROVE CallOK(e)' /\ FlightOK(e)'
  <2>0. CallOK(e) /\ FlightOK(e) BY <1>0
  <2>1. CASE call'[e] = call[e]
    BY <2>0, <2>1, <1>1 DEF CallOK, AnswerOK, FlightOK, RenewalOK
  <2>2. CASE call'[e] # call[e]
    BY <2>0, <2>2, <1>1, <1>3 DEF CallOK, FlightOK
  <2> QED BY <2>1, <2>2
<1>9. TabsOK'
  <2> SUFFICES ASSUME NEW u \in Tabs, u \notin mixedUp, TabOK(u) PROVE TabOK(u)'
    BY <1>0, <1>1 DEF TabsOK
  <2>1. \A e \in Calls : \A kinds : Plays(e, u, kinds)' <=> Plays(e, u, kinds)
    BY <1>1, <1>3 DEF Plays
  <2>2. ShowsOrAsks(u)' BY <2>1, <1>1, <1>5 DEF TabOK, ShowsOrAsks
  <2>3. AsksAbout(u)'
    <3>1. \A e \in Calls : call'[e].at # "waiting" => call[e].at # "waiting"
        /\ call'[e].access.scope = call[e].access.scope
      BY <1>3
    <3> QED BY <3>1, <2>1, <1>5 DEF TabOK, AsksAbout
  <2>4. BootsAlone(u)' BY <2>1, <1>5 DEF TabOK, BootsAlone
  <2>5. JarFits(u)' BY <1>1, <1>5 DEF TabOK, JarFits, Agrees
  <2>6. FlightsFit(u)' BY <1>1, <1>5 DEF TabOK, FlightsFit, Agrees
  <2> QED BY <2>2, <2>3, <2>4, <2>5, <2>6 DEF TabOK
<1>10. NothingTwice'
  <2>1. Shrinks BY <1>1, <1>6 DEF Shrinks
  <2> QED BY <2>1, <1>0, <1>4, NothingTwiceShrinks
<1> QED BY <1>4, <1>7, <1>8, <1>9, <1>10 DEF BwInv

LEMMA ReloadKeeps ==
    ASSUME BwInv, NEW t \in Tabs, Reload(t)
    PROVE  BwInv'
<1>0. BwTyped /\ TokensKnown /\ (\A d \in Calls : CallOK(d) /\ FlightOK(d)) /\ TabsOK
    /\ NothingTwice
  BY DEF BwInv
<1>1. UNCHANGED <<tabOf, cookie, broughtBy, sessions, dead, reused, doubled>>
  BY DEF Reload, Jar, ServerVars
<1>2. \A e \in Calls : IF tabOf[e] = t THEN call'[e] = NoCall /\ flight'[e] = NoFlight
                       ELSE call'[e] = call[e] /\ flight'[e] = flight[e]
  BY DEF Reload
<1>3. NoCall.at = "idle" /\ NoFlight.at = "none" BY DEF NoCall, NoFlight
<1>4. SignedOut \in [access : BwAccesses, user : NamedScopes]
  BY BwRecordsTyped DEF SignedOut, NamedScopes
<1>5. BwTyped'
  <2>1. call' \in [Calls -> {NoCall} \cup BwRequests] BY <1>0 DEF Reload, BwTyped
  <2>2. flight' \in [Calls -> {NoFlight} \cup BwFlights] BY <1>0 DEF Reload, BwTyped
  <2>3. tab' \in [Tabs -> [access : BwAccesses, user : NamedScopes]] BY <1>0, <1>4 DEF Reload,
      BwTyped
  <2> QED BY <2>1, <2>2, <2>3, <1>0, <1>1 DEF BwTyped
<1>6. tab'[t] = SignedOut /\ \A u \in Tabs \ {t} : tab'[u] = tab[u]
  BY <1>0 DEF Reload, BwTyped
<1>7. \A e \in Calls : IF tabOf[e] = t THEN Takes(e)' = NoCookie /\ Renews(e)' = NoCookie
    /\ Brings(e)' = NoCookie
                       ELSE Takes(e)' = Takes(e) /\ Renews(e)' = Renews(e)
                           /\ Brings(e)' = Brings(e)
  BY <1>2, <1>3 DEF Takes, Renews, Brings
<1>8. TokensKnown' BY <1>0, <1>1, <1>7 DEF TokensKnown, Known
<1>9. ASSUME NEW e \in Calls PROVE CallOK(e)' /\ FlightOK(e)'
  <2>0. CallOK(e) /\ FlightOK(e) BY <1>0
  <2>1. CASE tabOf[e] = t BY <2>1, <1>2, <1>3 DEF CallOK, FlightOK
  <2>2. CASE tabOf[e] # t
    <3>1. call'[e] = call[e] /\ flight'[e] = flight[e] BY <2>2, <1>2
    <3>2. CallOK(e)'
      <4>1. call[e].at = "waiting" /\ call[e].on \in Calls /\ tabOf[call[e].on] = tabOf[e]
          => flight'[call[e].on] = flight[call[e].on]
        BY <2>2, <1>2
      <4> QED BY <4>1, <3>1, <2>0, <1>1 DEF CallOK, AnswerOK
    <3>3. FlightOK(e)' BY <3>1, <2>0, <2>2, <1>1, <1>2 DEF FlightOK, RenewalOK
    <3> QED BY <3>2, <3>3
  <2> QED BY <2>1, <2>2
<1>10. TabsOK'
  <2> SUFFICES ASSUME NEW u \in Tabs, u \notin mixedUp' PROVE TabOK(u)' BY DEF TabsOK
  <2>1. CASE u # t
    <3>1. TabOK(u) BY <2>1, <1>0 DEF TabsOK, Reload
    <3>3. u \in halfSwitched => u \in halfSwitched' BY <2>1 DEF Reload
    <3>2. Others(u) BY <2>1, <3>3, <1>1, <1>2, <1>6 DEF Others
    <3> QED BY <3>1, <3>2, <1>0, TabStands
  <2>2. CASE u = t
    <3>1. ~Asking(t)' BY <1>1, <1>2, <1>3 DEF Asking, Plays
    <3> QED BY <3>1, <2>2, <1>6, SignedOutFits
  <2> QED BY <2>1, <2>2
<1>11. NothingTwice'
  <2>1. (lostOne => lostOne') /\ \A e \in Calls : tabOf[e] = t /\ Renews(e) # NoCookie
      => lostOne'
    <3>1. \A e \in Calls : Renews(e) # NoCookie => flight[e].at = "answered" BY DEF Renews
    <3>2. \A e \in Calls : tabOf[e] = t /\ flight[e].at = "answered" => e \in Flights(t)
      BY DEF Flights, CallsOf, NoFlight
    <3> QED BY <3>1, <3>2 DEF Reload
  <2>2. \A e \in Calls : /\ Brings(e)' \in {Brings(e), NoCookie} /\ Takes(e)' \in {Takes(e), NoCookie}
                         /\ flight'[e].at = "sent" => flight[e].at = "sent"
                            /\ flight'[e].cookie = flight[e].cookie
    BY <1>2, <1>3, <1>7
  <2>3. \A e \in Calls : \/ Renews(e)' = Renews(e) /\ (Renews(e) # NoCookie => Takes(e)' = Takes(e))
                         \/ Renews(e)' = NoCookie /\ (lostOne' \/ Renews(e) = NoCookie)
    BY <1>7, <2>1
  <2>4. Shrinks BY <1>1, <2>1, <2>2, <2>3 DEF Shrinks
  <2> QED BY <2>4, <1>0, <1>5, NothingTwiceShrinks
<1> QED BY <1>5, <1>8, <1>9, <1>10, <1>11 DEF BwInv

LEMMA LoseCallKeeps ==
    ASSUME BwInv, NEW c \in Calls, LoseCall(c) \/ ArrivesRefused(c)
    PROVE  BwInv'
<1>1. /\ call[c].at \in {"sent", "answered"} /\ CallFails(c)
      /\ UNCHANGED <<tabOf, flight, cookie, broughtBy, sessions, dead, reused, doubled, lostOne>>
  BY DEF LoseCall, ArrivesRefused, Jar, ServerVars
<1> QED BY <1>1, CallFailsKeeps

LEMMA BwInitOK == BwInit => BwInv
<1> SUFFICES ASSUME BwInit PROVE BwInv OBVIOUS
<1>1. SignedOut \in [access : BwAccesses, user : NamedScopes] /\ SignedOut.user = "none"
    /\ SignedOut.access.scope = "none"
  BY BwRecordsTyped DEF SignedOut, NamedScopes, NoAccess
<1>2. BwTyped
  BY <1>1, BwRecordsTyped DEF BwInit, BwTyped, NamedScopes
<1>3. \A c \in Calls : call[c].at = "idle" /\ flight[c].at = "none"
  BY DEF BwInit, NoCall, NoFlight
<1>4. \A c \in Calls : Takes(c) = NoCookie /\ Renews(c) = NoCookie /\ Brings(c) = NoCookie
  BY <1>3 DEF Takes, Renews, Brings
<1>5. TokensKnown
  BY <1>4 DEF BwInit, TokensKnown, Known
<1>6. \A c \in Calls : CallOK(c) /\ FlightOK(c)
  BY <1>3 DEF CallOK, FlightOK
<1>7. TabsOK
  BY <1>1, <1>3 DEF BwInit, TabsOK, TabOK, ShowsOrAsks, AsksAbout, BootsAlone, JarFits,
      FlightsFit, Agrees, Plays
<1>8. NothingTwice
  BY <1>3, <1>4 DEF BwInit, NothingTwice, JarIsLatest, Distinct, SentIsLatest, RenewedIsLatest,
      GrantedIsNew, Usable
<1> QED BY <1>2, <1>5, <1>6, <1>7, <1>8 DEF BwInv

LEMMA BwNextOK == ASSUME BrowserAssumption, BwInv, [BwNext]_BwVars PROVE BwInv'
<1>1. CASE UNCHANGED BwVars
  BY <1>1, ClockKeeps DEF BwVars, Jar, ServerVars, GhostVars
<1>2. ASSUME NEW c \in Calls, BwCallStep(c) PROVE BwInv'
  <2>1. "none" \in NamedScopes /\ "home" \in Scopes /\ Scopes \subseteq NamedScopes
      /\ Destinations \subseteq Scopes
    BY BrowserAssumption DEF NamedScopes, Scopes, BrowserAssumption
  <2>2. ASSUME NEW kind, kind \in {"login", "poll", "logout", "switch"},
      NEW where \in NamedScopes,
               kind \in {"login", "switch"} => where \in Scopes, StartCall(c, kind, where)
        PROVE  BwInv'
    <3>1. kind \in BwKinds \ {"boot", "bootMe", "me"} BY <2>2 DEF BwKinds
    <3> QED BY <2>2, <3>1, StartCallKeeps
  <2>3. CASE StartCall(c, "login", "home") \/ StartCall(c, "poll", "none") \/ StartCall(c, "logout", "none")
    <3>1. PICK k \in {"login", "poll", "logout", "switch"},
        w \in NamedScopes : StartCall(c, k, w) /\ (k \in {"login", "switch"} => w \in Scopes)
      BY <2>1, <2>3
    <3> QED BY <2>2, <3>1
  <2>4. CASE \E s \in Destinations : StartCall(c, "switch", s)
    <3>1. PICK k \in {"login", "poll", "logout", "switch"},
        w \in NamedScopes : StartCall(c, k, w) /\ (k \in {"login", "switch"} => w \in Scopes)
      BY <2>1, <2>4
    <3> QED BY <2>2, <3>1
  <2> QED
    BY <1>2, <2>3, <2>4, BootstrapKeeps, ServeCallKeeps, ServeRefreshKeeps,
        ArrivesExpiredKeeps, LoseCallKeeps, ArrivesKeeps,
       RefreshArrivesKeeps, RefreshRefusedKeeps, SelfAwaitedKeeps, LoseRefreshKeeps
           DEF BwCallStep
<1>3. ASSUME NEW t \in Tabs, AccessExpires(t) \/ Reload(t) PROVE BwInv'
  BY <1>3, AccessExpiresKeeps, ReloadKeeps
<1>4. ASSUME NEW f \in BwFamilies, SessionIdlesOut(f) PROVE BwInv'
  BY <1>4, ClockKeeps DEF SessionIdlesOut, Jar
<1>5. CASE CookieIdlesOut
  BY <1>5, ClockKeeps DEF CookieIdlesOut, ServerVars, GhostVars
<1> QED BY <1>1, <1>2, <1>3, <1>4, <1>5 DEF BwNext

LEMMA BwInvImplies == BwInv => TabsInOrder
<1> SUFFICES ASSUME BwInv PROVE TabsInOrder OBVIOUS
<1>1. ShowsWhereItActs
  <2> SUFFICES ASSUME NEW t \in Tabs \ (mixedUp \cup halfSwitched),
                      \A c \in CallsOf(t) : call[c] = NoCall
       PROVE tab[t].user = tab[t].access.scope
    BY DEF ShowsWhereItActs
  <2>1. ShowsOrAsks(t) BY DEF BwInv, TabsOK, TabOK
  <2>2. \A c \in Calls : ~Plays(c, t, {"me", "bootMe", "boot"}) BY DEF Plays, CallsOf, NoCall
  <2> QED BY <2>1, <2>2 DEF ShowsOrAsks
<1>2. SessionSurvivesItsClient BY DEF BwInv, NothingTwice, SessionSurvivesItsClient
<1> QED BY <1>1, <1>2 DEF TabsInOrder

LEMMA BwUnchanged == BwInv /\ UNCHANGED BwVars => BwInv'
BY BrowserAssumption, BwNextOK

-----------------------------------------------------------------------------
IdInv == AcInv /\ SsInv /\ BwInv

(* What requests know of the account and of a session stays true of all that *)
(* nobody has overtaken, and what a tab's calls carry stays in step with     *)
(* what it shows and with the sessions of the server.                        *)
THEOREM IdentityInductive == IdSpec => []IdInv
<1>1. IdInit => IdInv
  BY AcInitOK, SsInitOK, BwInitOK DEF IdInit, IdInv
<1>2. IdInv /\ [IdNext]_IdVars => IdInv'
  BY AcNextOK, SsNextOK, BwNextOK, AcUnchanged, SsUnchanged, BwUnchanged, BrowserAssumption
     DEF IdInv, IdNext, IdVars
<1> QED BY <1>1, <1>2, PTL DEF IdSpec

(* However many logins, refreshes and logouts overlap: an account whose count  *)
(* of failures no two logins wrote at a time is locked by exactly its own      *)
(* failures, an organisation founded in vain has a request that was cut short  *)
(* or beaten, who was suspended all along gets in nowhere (Login, Register,    *)
(* CheckSuspension); and a session has one token that refreshes it, none once  *)
(* it was revoked, but for those issued by a request that another overtook     *)
(* (Refresh, Logout).  And the browser in front of them: a tab with nothing    *)
(* under way shows what its access token acts on, and no token is presented    *)
(* twice by one tab, through expiries, refreshes and lost answers, for any     *)
(* number of tabs and calls (authStore.ts, apiClient.ts).                      *)
THEOREM SignedInStaysInOrder == IdSpec => []SignedInInOrder
<1>1. IdInv => SignedInInOrder
  BY AcInvImplies, SsInvImplies, BwInvImplies DEF IdInv, SignedInInOrder
<1> QED BY <1>1, IdentityInductive, PTL

-----------------------------------------------------------------------------
(***************************************************************************)
(* The report address                                                      *)
(***************************************************************************)

AdTypes ==
    /\ {report, waiting, wanted} \subseteq Somewhere /\ crossed \in BOOLEAN
    /\ link \in Nat /\ madeFor \in [Links -> Somewhere]
    /\ mailed \subseteq Links /\ opened \subseteq Links
    /\ asking \in [AdRequests -> [at : {"none", "write", "send"}, to : Somewhere, with : Nat]]
    /\ \A q \in AdRequests : asking[q].at = "send" => asking[q].with \in Links

\* The link in the row was made for the address that waits.
LinkOK == link # 0 => link \in Links /\ madeFor[link] = waiting
Verified == report # Account => \E l \in opened : madeFor[l] = report

\* Who went back to the account's address, and nobody got in the way: the
\* request that says so is the only one, or it is done and no address waits.
NobodyAsks == \A q \in AdRequests : asking[q] = NotAsking
BackOK ==
    wanted = Account /\ ~crossed =>
      \/ NobodyAsks /\ report = Account /\ waiting = Account
      \/ \E q \in AdRequests : asking[q] = Asked(Account) /\ Alone(q)

AdInv == AdTypes /\ LinkOK /\ Verified /\ BackOK

LEMMA NotAskingOK ==
  /\ NotAsking \in [at : {"none", "write", "send"}, to : Somewhere, with : Nat]
  /\ NotAsking.at = "none"
BY DEF NotAsking, Somewhere

LEMMA AdInitOK == AdInit => AdInv
<1> SUFFICES ASSUME AdInit PROVE AdInv
  OBVIOUS
<1>1. \A q \in AdRequests : asking[q] = NotAsking
  BY DEF AdInit
<1>2. AdTypes
  <2>1. asking \in [AdRequests -> [at : {"none", "write", "send"}, to : Somewhere, with : Nat]]
    BY NotAskingOK DEF AdInit
  <2>2. \A q \in AdRequests : asking[q].at = "send" => asking[q].with \in Links
    BY <1>1, NotAskingOK
  <2>3. madeFor \in [Links -> Somewhere] /\ {report, waiting, wanted} \subseteq Somewhere
    BY DEF AdInit, Somewhere
  <2>4. crossed \in BOOLEAN /\ link \in Nat /\ mailed \subseteq Links /\ opened \subseteq Links
    BY DEF AdInit
  <2> QED BY <2>1, <2>2, <2>3, <2>4 DEF AdTypes
<1>3. LinkOK /\ Verified /\ BackOK
  BY <1>1 DEF AdInit, LinkOK, Verified, BackOK, NobodyAsks
<1> QED BY <1>2, <1>3 DEF AdInv

(* Requests that leave the address, its link and what was opened alone. *)
LEMMA AsksOnly ==
  ASSUME AdInv, NEW q \in AdRequests,
         NEW d \in [at : {"none", "write", "send"}, to : Somewhere, with : Nat],
         d.at = "send" => d.with \in Links, asking' = [asking EXCEPT ![q] = d],
         UNCHANGED <<report, waiting, link, madeFor, opened>>
  PROVE  /\ \A r \in AdRequests : asking'[r] = IF r = q THEN d ELSE asking[r]
         /\ asking' \in [AdRequests -> [at : {"none", "write", "send"}, to : Somewhere, with : Nat]]
         /\ \A r \in AdRequests : asking'[r].at = "send" => asking'[r].with \in Links
         /\ LinkOK' /\ Verified'
<1>1. /\ \A r \in AdRequests : asking'[r] = IF r = q THEN d ELSE asking[r]
      /\ asking' \in [AdRequests -> [at : {"none", "write", "send"}, to : Somewhere, with : Nat]]
  BY DEF AdInv, AdTypes
<1>2. \A r \in AdRequests : asking'[r].at = "send" => asking'[r].with \in Links
  BY <1>1 DEF AdInv, AdTypes
<1>3. LinkOK' /\ Verified'
  BY DEF AdInv, LinkOK, Verified
<1> QED BY <1>1, <1>2, <1>3

LEMMA AskedOK ==
  ASSUME NEW a \in Somewhere
  PROVE  /\ Asked(a) \in [at : {"none", "write", "send"}, to : Somewhere, with : Nat]
         /\ Asked(a).at = "write" /\ Asked(a) # NotAsking
BY DEF Asked, NotAsking

LEMMA ReadForChangeKeeps ==
  ASSUME AdInv, NEW q \in AdRequests, NEW a \in Somewhere, ReadForChange(q, a)
  PROVE  AdInv'
<1> DEFINE d == IF NothingToDo(a) THEN NotAsking ELSE Asked(a)
<1>1. asking[q] = NotAsking /\ asking' = [asking EXCEPT ![q] = d] /\ wanted' = a
      /\ crossed' = ~Alone(q) /\ UNCHANGED <<report, waiting, link, madeFor, mailed, opened>>
  BY DEF ReadForChange
<1>2. d \in [at : {"none", "write", "send"}, to : Somewhere, with : Nat] /\ d.at # "send"
  BY NotAskingOK, AskedOK
<1>3. a = Account => \/ d = NotAsking /\ report = Account /\ waiting = Account
                     \/ d = Asked(Account)
  BY DEF NothingToDo
<1> HIDE DEF d
<1>4. /\ \A r \in AdRequests : asking'[r] = IF r = q THEN d ELSE asking[r]
      /\ asking' \in [AdRequests -> [at : {"none", "write", "send"}, to : Somewhere, with : Nat]]
      /\ \A r \in AdRequests : asking'[r].at = "send" => asking'[r].with \in Links
      /\ LinkOK' /\ Verified'
  BY <1>1, <1>2, AsksOnly
<1>5. BackOK'
  <2> SUFFICES ASSUME a = Account, Alone(q)
               PROVE  \/ NobodyAsks' /\ report' = Account /\ waiting' = Account
                      \/ \E r \in AdRequests : asking'[r] = Asked(Account) /\ Alone(r)'
    BY <1>1 DEF BackOK, Asked
  <2>1. Alone(q)'
    BY <1>4 DEF Alone
  <2>2. CASE d = NotAsking /\ report = Account /\ waiting = Account
    BY <1>1, <1>4, <2>2 DEF Alone, NobodyAsks
  <2>3. CASE d = Asked(Account)
    BY <1>4, <2>1, <2>3
  <2> QED BY <1>3, <2>2, <2>3
<1>6. AdTypes'
  <2>1. crossed' \in BOOLEAN
    BY <1>1 DEF Alone
  <2> QED BY <1>1, <1>4, <2>1 DEF AdInv, AdTypes
<1> QED BY <1>4, <1>5, <1>6 DEF AdInv

(* ResendVerification: an address waits, so nobody has gone back and is done. *)
LEMMA ReadForResendKeeps ==
  ASSUME AdInv, NEW q \in AdRequests, ReadForResend(q)
  PROVE  AdInv'
<1>1. asking[q] = NotAsking /\ waiting # Account /\ asking' = [asking EXCEPT ![q] = Asked(waiting)]
      /\ crossed' = (crossed \/ ~Alone(q))
      /\ UNCHANGED <<report, waiting, link, madeFor, mailed, opened, wanted>>
  BY DEF ReadForResend
<1>2. Asked(waiting) \in [at : {"none", "write", "send"}, to : Somewhere, with : Nat]
      /\ Asked(waiting).at # "send"
  BY AskedOK DEF AdInv, AdTypes
<1>3. /\ asking' \in [AdRequests -> [at : {"none", "write", "send"}, to : Somewhere, with : Nat]]
      /\ \A r \in AdRequests : asking'[r].at = "send" => asking'[r].with \in Links
      /\ LinkOK' /\ Verified'
  BY <1>1, <1>2, AsksOnly
<1>4. BackOK'
  <2> SUFFICES ASSUME wanted = Account, ~crossed, Alone(q) PROVE FALSE
    BY <1>1 DEF BackOK
  <2>1. PICK r \in AdRequests : asking[r] = Asked(Account) /\ Alone(r)
    BY <1>1 DEF AdInv, BackOK
  <2>2. asking[r] # NotAsking
    BY <2>1 DEF Asked, NotAsking
  <2> QED BY <1>1, <2>2 DEF Alone
<1>5. AdTypes'
  <2>1. crossed' \in BOOLEAN
    BY <1>1 DEF Alone
  <2> QED BY <1>1, <1>3, <2>1 DEF AdInv, AdTypes
<1> QED BY <1>3, <1>4, <1>5 DEF AdInv

LEMMA UseAccountEmailKeeps ==
  ASSUME AdInv, NEW q \in AdRequests, UseAccountEmail(q)
  PROVE  AdInv'
<1>1. asking[q].at = "write" /\ asking' = [asking EXCEPT ![q] = NotAsking]
      /\ report' = Account /\ waiting' = Account /\ link' = 0
      /\ UNCHANGED <<madeFor, mailed, opened, wanted, crossed>>
  BY DEF UseAccountEmail
<1>2. \A r \in AdRequests : asking'[r] = IF r = q THEN NotAsking ELSE asking[r]
  BY <1>1 DEF AdInv, AdTypes
<1>3. AdTypes'
  <2>1. asking' \in [AdRequests -> [at : {"none", "write", "send"}, to : Somewhere, with : Nat]]
    BY <1>1, NotAskingOK DEF AdInv, AdTypes
  <2>2. \A r \in AdRequests : asking'[r].at = "send" => asking'[r].with \in Links
    BY <1>2, NotAskingOK DEF AdInv, AdTypes
  <2>3. Account \in Somewhere
    BY DEF Somewhere
  <2> QED BY <1>1, <2>1, <2>2, <2>3 DEF AdInv, AdTypes
<1>4. BackOK'
  <2> SUFFICES ASSUME wanted = Account, ~crossed PROVE NobodyAsks'
    BY <1>1 DEF BackOK
  <2>1. asking[q] # NotAsking
    BY <1>1 DEF NotAsking
  <2>2. Alone(q)
    BY <2>1 DEF AdInv, BackOK, NobodyAsks, Alone
  <2> QED BY <1>2, <2>2 DEF Alone, NobodyAsks
<1> QED BY <1>1, <1>3, <1>4 DEF AdInv, LinkOK, Verified

(* SetPendingEmail: its link is new, so it takes none from an address that was *)
(* verified.                                                                   *)
LEMMA SetPendingEmailKeeps ==
  ASSUME AdInv, NEW q \in AdRequests, NEW l \in Links, SetPendingEmail(q, l)
  PROVE  AdInv'
<1> DEFINE to == asking[q].to
<1>1. asking[q].at = "write" /\ to # Account /\ madeFor[l] = Account
      /\ madeFor' = [madeFor EXCEPT ![l] = to] /\ waiting' = to /\ link' = l
      /\ asking' = [asking EXCEPT ![q].at = "send", ![q].with = l]
      /\ UNCHANGED <<report, mailed, opened, wanted, crossed>>
  <2>1. LinksMade = 1 .. (l - 1) /\ l \notin 1 .. (l - 1)
    BY DEF SetPendingEmail, Links
  <2>2. madeFor[l] = Account
    BY <2>1 DEF LinksMade
  <2> QED BY <2>2 DEF SetPendingEmail, HashOf
<1>2. to \in Somewhere /\ l \in Nat
  BY DEF AdInv, AdTypes, Links
<1>3. \A m \in Links : madeFor'[m] = IF m = l THEN to ELSE madeFor[m]
  BY <1>1 DEF AdInv, AdTypes
<1>4. \A r \in AdRequests : IF r = q THEN asking'[r].at = "send" /\ asking'[r].with = l
                                    /\ asking'[r].to = to
                             ELSE asking'[r] = asking[r]
  BY <1>1 DEF AdInv, AdTypes
<1>5. AdTypes'
  <2>1. asking' \in [AdRequests -> [at : {"none", "write", "send"}, to : Somewhere, with : Nat]]
    BY <1>1, <1>2 DEF AdInv, AdTypes
  <2>2. \A r \in AdRequests : asking'[r].at = "send" => asking'[r].with \in Links
    BY <1>4 DEF AdInv, AdTypes
  <2>3. madeFor' \in [Links -> Somewhere]
    BY <1>1, <1>2 DEF AdInv, AdTypes
  <2> QED BY <1>1, <1>2, <2>1, <2>2, <2>3 DEF AdInv, AdTypes
<1>6. BackOK'
  <2> SUFFICES ASSUME wanted = Account, ~crossed PROVE FALSE
    BY <1>1 DEF BackOK
  <2>1. asking[q] # NotAsking /\ asking[q] # Asked(Account)
    BY <1>1 DEF NotAsking, Asked
  <2> QED BY <2>1 DEF AdInv, BackOK, NobodyAsks, Alone
<1>7. Verified'
  BY <1>1, <1>3 DEF AdInv, AdTypes, Verified
<1> QED BY <1>1, <1>3, <1>5, <1>6, <1>7 DEF AdInv, LinkOK

LEMMA SendLinkKeeps ==
  ASSUME AdInv, NEW q \in AdRequests, SendLink(q)
  PROVE  AdInv'
<1>1. asking[q].at = "send" /\ asking' = [asking EXCEPT ![q] = NotAsking]
      /\ mailed' = mailed \cup {asking[q].with} /\ asking[q].with \in Links
      /\ UNCHANGED <<report, waiting, link, madeFor, opened, wanted, crossed>>
  BY DEF SendLink, AdInv, AdTypes
<1>2. /\ asking' \in [AdRequests -> [at : {"none", "write", "send"}, to : Somewhere, with : Nat]]
      /\ \A r \in AdRequests : asking'[r].at = "send" => asking'[r].with \in Links
      /\ LinkOK' /\ Verified'
  BY <1>1, NotAskingOK, AsksOnly
<1>3. BackOK'
  <2> SUFFICES ASSUME wanted = Account, ~crossed PROVE FALSE
    BY <1>1 DEF BackOK
  <2>1. asking[q] # NotAsking /\ asking[q] # Asked(Account)
    BY <1>1 DEF NotAsking, Asked
  <2> QED BY <2>1 DEF AdInv, BackOK, NobodyAsks, Alone
<1>4. AdTypes'
  BY <1>1, <1>2 DEF AdInv, AdTypes
<1> QED BY <1>2, <1>3, <1>4 DEF AdInv

LEMMA CutOffKeeps ==
  ASSUME AdInv, NEW q \in AdRequests, CutOff(q)
  PROVE  AdInv'
<1>1. asking' = [asking EXCEPT ![q] = NotAsking] /\ crossed' = TRUE
      /\ UNCHANGED <<report, waiting, link, madeFor, mailed, opened, wanted>>
  BY DEF CutOff
<1>2. /\ asking' \in [AdRequests -> [at : {"none", "write", "send"}, to : Somewhere, with : Nat]]
      /\ \A r \in AdRequests : asking'[r].at = "send" => asking'[r].with \in Links
      /\ LinkOK' /\ Verified'
  BY <1>1, NotAskingOK, AsksOnly
<1>3. AdTypes'
  <2>1. crossed' \in BOOLEAN
    BY <1>1, Zenon
  <2> QED BY <1>1, <1>2, <2>1 DEF AdInv, AdTypes
<1> QED BY <1>1, <1>2, <1>3 DEF AdInv, BackOK

(* ConfirmReportEmail: the address that waits is the one the link was made for. *)
LEMMA OpenKeeps ==
  ASSUME AdInv, NEW l \in Links, Open(l)
  PROVE  AdInv'
<1>1. /\ opened' = opened \cup {l}
      /\ \/ link = l /\ report' = waiting /\ waiting' = Account /\ link' = 0
         \/ UNCHANGED <<report, waiting, link>>
      /\ UNCHANGED <<madeFor, mailed, asking, wanted, crossed>>
  BY DEF Open
<1>2. CASE link = l /\ report' = waiting /\ waiting' = Account /\ link' = 0
  <2>1. madeFor[l] = waiting
    BY <1>2 DEF AdInv, LinkOK, Links
  <2>2. Verified'
    BY <1>1, <1>2, <2>1 DEF Verified
  <2>3. AdTypes'
    BY <1>1, <1>2 DEF AdInv, AdTypes, Somewhere
  <2>4. BackOK'
    BY <1>1, <1>2 DEF AdInv, BackOK, NobodyAsks, Alone
  <2> QED BY <1>2, <2>2, <2>3, <2>4 DEF AdInv, LinkOK
<1>3. CASE UNCHANGED <<report, waiting, link>>
  <2>1. Verified'
    BY <1>1, <1>3 DEF AdInv, Verified
  <2>2. AdTypes' /\ LinkOK'
    BY <1>1, <1>3 DEF AdInv, AdTypes, LinkOK
  <2>3. BackOK'
    BY <1>1, <1>3 DEF AdInv, BackOK, NobodyAsks, Alone
  <2> QED BY <2>1, <2>2, <2>3 DEF AdInv
<1> QED BY <1>1, <1>2, <1>3

LEMMA AddressStays ==
  ASSUME AdInv,
         UNCHANGED <<report, waiting, link, madeFor, mailed, opened, asking, wanted, crossed>>
  PROVE  AdInv'
BY DEF AdInv, AdTypes, LinkOK, Verified, BackOK, NobodyAsks, Alone

LEMMA AdNextOK == AdInv /\ [AdNext]_AdVars => AdInv'
<1>1. AdInv /\ AdNext => AdInv'
  BY ReadForChangeKeeps, ReadForResendKeeps, UseAccountEmailKeeps, SetPendingEmailKeeps,
     SendLinkKeeps, CutOffKeeps, OpenKeeps, AddressStays DEF AdNext, Lapse
<1>2. AdInv /\ UNCHANGED AdVars => AdInv'
  BY AddressStays DEF AdVars
<1> QED BY <1>1, <1>2

(* However requests for an address and links that were mailed overlap: reports  *)
(* go to the account's address or to one where somebody opened its link         *)
(* (SetPendingEmail, ConfirmReportEmail), and to the account's once the user    *)
(* has gone back to it and no request was cut short or got in the way.          *)
THEOREM ReportsStayVerified == AdSpec => []ReportsGoWhereVerified
<1>1. AdInit => AdInv
  BY AdInitOK
<1>2. AdInv /\ [AdNext]_AdVars => AdInv'
  BY AdNextOK
<1>3. AdInv => ReportsGoWhereVerified
  <2> SUFFICES ASSUME AdInv PROVE ReportsGoWhereVerified
    OBVIOUS
  <2>1. ASSUME NEW q \in AdRequests, asking[q] = Asked(Account) PROVE asking[q] # NotAsking
    BY <2>1 DEF Asked, NotAsking
  <2> QED BY <2>1 DEF AdInv, Verified, BackOK, NobodyAsks, ReportsGoWhereVerified
<1> QED BY <1>1, <1>2, <1>3, PTL DEF AdSpec
=============================================================================
