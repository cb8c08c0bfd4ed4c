----------------------------- MODULE MCRequests -----------------------------
(***************************************************************************)
(* What people and GitHub ask of the API, two requests at a time: live     *)
(* scanning of a project, the members of an organisation and of a shared   *)
(* project, an account with its logins, a user's sessions and report       *)
(* address, a project with its repository, its target and its documents,   *)
(* the tabs of a browser, the language model, a scan on its launcher, and  *)
(* what is shown of scans that run.  They share no state, so a behaviour is*)
(* one of one of them: part says which, and the others stand still.  first *)
(* and second are the two of every kind: workers, requests, calls, tabs.   *)
(***************************************************************************)
EXTENDS LiveScan, Members, Identity, Projects, Addresses, Assistant, ScanRequests,
        ScanWatch, TLC

CONSTANTS first, second, founder, guest, orgInvite, shareInvite, session, t1, t2,
          office, home, only, question, review, wide, narrow

BothForTheGuest == (orgInvite :> guest) @@ (shareInvite :> guest)

OnScans == [j \in {"code", "deps", "web"} |-> IF j = "web" THEN narrow ELSE wide]
DeepPentest == {[preset |-> "deep", tuned |-> FALSE]}

VARIABLE part

ScreenVars == <<SrVars, SwVars>>
Clients == <<BwVars, AsVars, ScreenVars>>
Users == <<AcVars, SsVars, AdVars>>
RqVars == <<LsVars, MbVars, Users, PjVars, Clients, part>>

RqParts == {"live faults", "live hours", "organisation", "sharing", "account",
            "sessions", "addresses", "repository", "target", "documents", "tab", "tabs",
            "commands", "key pool", "launch all", "launch picked", "scan page", "indicator"}

RqInit ==
    /\ part \in RqParts
    /\ LsInit /\ MbInit /\ AcInit /\ SsInit /\ PjInit /\ AdInit /\ BwInit /\ AsInit /\ SrInit /\ SwInit
    /\ part \notin {"live faults", "live hours"} => balance = CHOOSE b \in Balances : TRUE
    /\ part # "sessions" => belongs /\ granted
    /\ IF part \in {"launch all", "launch picked"}
       THEN world.balance = 60000 /\ (world.target # "attested" => ceiling = 10)
       ELSE /\ world = [repo |-> FALSE, target |-> "none", plan |-> "free", balance |-> 2000]
            /\ ceiling = 10
    /\ part # "scan page" => together
    /\ viewer = "owner" \/ (part = "indicator" /\ viewer = "collaborator")
    /\ tabOf = [c \in Calls |-> IF part = "tabs" THEN c ELSE only]

\* Live scanning with faults but within one hour, or through the hours without.
LiveFaults == LsNext /\ hour' = hour
LiveHours  == LsNext /\ lsFaults' = lsFaults

About(invites) == \A r \in MbRequests : request'[r].about \notin invites
Organisation == MbNext /\ About(ShareInvites)
Sharing      == MbNext /\ About(OrgInvites) /\ role' = role

\* A project with one of the three things that hang on it.
Repository ==
    \/ \E r \in PjRequests : PjRowStep(r) \/ PjRepositoryStep(r) \/ PjCutShort(r)
    \/ \E t \in PersonalTokens : RefuseToken(t)
    \/ \E t \in PersonalTokens \cup {NoToken} : StoreCredential(t)
Target ==
    \/ RegisterTarget
    \/ \E r \in PjRequests : CreateProject(r, FALSE) \/ PjTargetStep(r) \/ PjCutShort(r)
Documents ==
    \/ DeleteDocument
    \/ \E r \in PjRequests : CreateProject(r, FALSE) \/ PjDocumentStep(r) \/ PjCutShort(r)

\* One tab with faults (and after one, no session that follows an ended one), or
\* two without, with a shared project to switch to.
OneTab ==
    /\ BwNext
    /\ \A q \in Calls : call'[q] # NoCall => call'[q].where # "project"
    /\ bwFaults' # 0 /\ dead' # {} => \A f \in BwFamilies \ {1} : sessions'[f].latest = 0
TwoTabs ==
    /\ BwNext
    /\ \A q \in Calls : call'[q] # NoCall => call'[q].where # "other"
    /\ bwFaults' = bwFaults

\* Commands while the keys last, or passes while they run out and come back.
AskCommands ==
    \/ \E r \in AsRequests, q \in Commands : Quote(r, q)
    \/ \E r \in AsRequests : AsRequestStep(r)
    \/ \E q \in Commands : CacheExpires(q)
    \/ SpendElsewhere \/ Restart
AskPasses ==
    \/ \E r \in AsRequests, q \in Passes : StartPass(r, q)
    \/ \E r \in AsRequests : AsRequestStep(r)
    \/ \E k \in Keys : QuotaChanges(k)
    \/ \E q \in Passes : CacheExpires(q)
    \/ Restart

\* One button of the launcher, with the estimate of the other never answered.
LaunchAll ==
    /\ SrNext
    /\ picked' = picked /\ estimate'.picked.request \in {NotAsked, RequestPicked(setting')}
    /\ create' # NotAsked => create'.all
    /\ srFaults' # 0 => changes' = 0
LaunchPicked ==
    /\ SrNext
    /\ estimate'.all.request \in {NotAsked, RequestAll(setting')}
    /\ create' # NotAsked => ~create'.all
    /\ srFaults' = 0

\* The page of a scan of two engines, one of which never runs and one finds
\* something whenever it does: its faults without cancelling and without reports.
ScanPage ==
    /\ RunsOn \/ PageStep
    /\ scanRow'[narrow] = "absent" /\ "deps" \notin begun'
    /\ jobRow'["deps"] = "absent" => jobRow'["code"] = "absent"
    /\ page' # Closed => (begun' = {} => jobRow'["code"] = "closed")
    /\ \A j \in SwJobs : found'[j] = 1 <=> j \in begun /\ jobRow'[j] = "closed"
    /\ page # Closed => (wish' # wish => page'.cancel = "done")
    /\ ~together => live' = live
    /\ swFaults' # 0 => page'.cancel = "no" /\ ~wish'[wide] /\ live' = [j \in SwJobs |-> NoReport]

\* Two scans of one engine that find nothing, one of them shared: with one scan
\* only when a request fails, the session changes, the indicator stops, or two
\* ticks overlap.
Indicator ==
    /\ RunsOn \/ IndicatorStep
    /\ <<wish', begun', live', found'>> = <<wish, begun, live, found>>
    /\ jobRow'["deps"] = "absent"
    /\ swFaults' # 0 \/ (\A t \in SwTicks : tick'[t] # NoTick) => scanRow'[narrow] = "absent"

RqNext ==
    /\ part' = part
    /\ \/ part = "live faults" /\ LiveFaults /\ UNCHANGED <<MbVars, Users, PjVars, Clients>>
       \/ part = "live hours" /\ LiveHours /\ UNCHANGED <<MbVars, Users, PjVars, Clients>>
       \/ part = "organisation" /\ Organisation /\ UNCHANGED <<LsVars, Users, PjVars, Clients>>
       \/ part = "sharing" /\ Sharing /\ UNCHANGED <<LsVars, Users, PjVars, Clients>>
       \/ part = "account" /\ AcNext /\ UNCHANGED <<LsVars, MbVars, SsVars, AdVars, PjVars, Clients>>
       \/ part = "sessions" /\ SsNext /\ UNCHANGED <<LsVars, MbVars, AcVars, AdVars, PjVars, Clients>>
       \/ part = "addresses" /\ AdNext /\ UNCHANGED <<LsVars, MbVars, AcVars, SsVars, PjVars, Clients>>
       \/ part = "repository" /\ Repository /\ UNCHANGED <<LsVars, MbVars, Users, Clients>>
       \/ part = "target" /\ Target /\ UNCHANGED <<LsVars, MbVars, Users, Clients>>
       \/ part = "documents" /\ Documents /\ UNCHANGED <<LsVars, MbVars, Users, Clients>>
       \/ part = "tab" /\ OneTab /\ UNCHANGED <<LsVars, MbVars, Users, PjVars, AsVars, ScreenVars>>
       \/ part = "tabs" /\ TwoTabs /\ UNCHANGED <<LsVars, MbVars, Users, PjVars, AsVars, ScreenVars>>
       \/ part = "commands" /\ AskCommands
          /\ UNCHANGED <<LsVars, MbVars, Users, PjVars, BwVars, ScreenVars>>
       \/ part = "key pool" /\ AskPasses
          /\ UNCHANGED <<LsVars, MbVars, Users, PjVars, BwVars, ScreenVars>>
       \/ /\ \/ part = "launch all" /\ LaunchAll
             \/ part = "launch picked" /\ LaunchPicked
          /\ UNCHANGED <<LsVars, MbVars, Users, PjVars, BwVars, AsVars, SwVars>>
       \/ /\ \/ part = "scan page" /\ ScanPage
             \/ part = "indicator" /\ Indicator
          /\ UNCHANGED <<LsVars, MbVars, Users, PjVars, BwVars, AsVars, SrVars>>

RqSpec == RqInit /\ [][RqNext]_RqVars

\* The two of a kind are nowhere compared or ordered.
RqSymmetry == Permutations({first, second})

\* Every variable has its type: those of the module that moves, for the others
\* are as they were at first.
RequestsTypeOK ==
    CASE part \in {"live faults", "live hours"} -> LsTypeOK
      [] part \in {"organisation", "sharing"} -> MbTypeOK
      [] part = "account" -> AcTypeOK
      [] part = "sessions" -> SsTypeOK
      [] part = "addresses" -> AdTypeOK
      [] part \in {"repository", "target", "documents"} -> PjTypeOK
      [] part \in {"tab", "tabs"} -> BwTypeOK
      [] part \in {"commands", "key pool"} -> AsTypeOK
      [] part \in {"launch all", "launch picked"} -> SrTypeOK
      [] part \in {"scan page", "indicator"} -> SwTypeOK

\* What a browser shows and asks for: a scan is charged as its launcher showed
\* it, and is shown as it goes on (ScansChargedAsShown of ScanRequests,
\* ScansShownAsTheyAre of ScanWatch).
ScreensInOrder == ScansChargedAsShown /\ ScansShownAsTheyAre
=============================================================================
