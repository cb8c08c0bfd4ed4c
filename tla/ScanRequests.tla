---------------------------- MODULE ScanRequests ----------------------------
(***************************************************************************)
(* How a scan is asked for: the launcher of a project's page shows what    *)
(* its two buttons would cost (frontend/.../project/ScanLauncher.tsx), the *)
(* estimate resolves the engines as the scan itself will (PreviewScan and  *)
(* CreateScan of orchestrator/service.go), and both are priced by the same *)
(* catalogue (billing/pricing.go, catalog.go).  In between, others attach  *)
(* a repository, attest a target, spend tokens or change the plan.         *)
(*                                                                         *)
(* A scan is followed up to its payment; Billing takes the tokens, and     *)
(* ScanLifecycle goes on from there.  Left out: half prices (a webhook's   *)
(* scans have no launcher), the numbers of a pentest's settings but for    *)
(* the rate that is capped, the branch, and a second click on the other    *)
(* button while a scan is being created.                                   *)
(***************************************************************************)
EXTENDS Integers, FiniteSets

LOCAL INSTANCE FiniteSetsExt

CONSTANTS
    SrEngines,    \* the engines the registry has
    Settings,     \* what the panel of the pentest offers
    NoSettings,   \* none sent
    Ceilings,     \* GUARDPIPE_PENTEST_RATE_LIMIT
    SrBalances,
    MaxChanges,   \* bound: what others change
    MaxSrFaults   \* bound: estimates lost

VARIABLES
    world,      \* the project, its organisation's plan and balance
    ceiling,    \* the rate no pentest may exceed
    changes,    \* changes of the world so far
    copy,       \* the page's copy of the project
    billing,    \* and of the plan and balance
    picked,     \* engines selected
    setting,    \* of the pentest
    due,        \* the launcher waits a moment before it asks again
    estimate,   \* its two: requests under way, and what is shown
    create,     \* the scan being created
    srFaults

SrWorld == <<world, ceiling, changes>>
SrChoices == <<copy, billing, picked, setting>>
SrVars == <<SrWorld, SrChoices, due, estimate, create, srFaults>>

(***************************************************************************)
(* Engines and prices                                                      *)
(***************************************************************************)

EnginePrice ==
    [depscan |-> 1500, k8sscan |-> 1500, cicdscan |-> 2500, containerscan |-> 4000,
     codescan |-> 5000, docreview |-> 6000, pentest |-> 25000]

\* In tenths.
PentestMultiplier == [stealth |-> 6, standard |-> 10, deep |-> 20, custom |-> 10]

\* Plan.Allows: all but the pentest are free.
PlanAllows(plan, e) == plan = "pro" \/ e # "pentest"
Blocked(plan, engines) == {e \in engines : ~PlanAllows(plan, e)}

\* roundUp50, of a price in tenths.
RoundUp50(tenths) == ((tenths + 499) \div 500) * 50

FullPrice(e, preset) ==
    IF e = "pentest" THEN RoundUp50(EnginePrice[e] * PentestMultiplier[preset]) ELSE EnginePrice[e]
QuoteScan(engines, preset) == MapThenSumSet(LAMBDA e : FullPrice(e, preset), engines)

\* toDomain: a named preset with any field of its own is a custom one.
ToDomain(s) == CASE s.tuned -> "custom"
                 [] ~s.tuned /\ s.preset \in {"standard", "deep"} -> s.preset
                 [] OTHER -> "stealth"
Requested(s) == IF s = NoSettings THEN "stealth" ELSE ToDomain(s)

PresetRate == [stealth |-> 2, standard |-> 5, deep |-> 10]

\* ClampPentestScanConfig: above the ceiling, a preset is no longer itself.
Clamp(preset) == IF preset # "custom" /\ PresetRate[preset] > ceiling THEN "custom" ELSE preset

\* Instead: the estimate prices what was asked for.
PresetAsAsked(s) == Requested(s)
\* PreviewScan: "Same clamp CreateScan applies, so the priced preset is the real one."
PreviewPreset(s) == Clamp(Requested(s))

EngineRequiresRepository(e) == e \notin {"pentest", "docreview"}
Runnable(e, repo, target) ==
    CASE e = "pentest" -> target
      [] EngineRequiresRepository(e) -> repo
      [] OTHER -> TRUE

(***************************************************************************)
(* A request: an estimate (PreviewScan, Estimate) or a scan (CreateScan)   *)
(***************************************************************************)

NoEstimate == [engines |-> {}, total |-> -1, allowed |-> TRUE, affordable |-> TRUE, began |-> 0]
NotAsked == [at |-> "none"]
NewRequest(all, engines, sent) ==
    [at |-> "project", all |-> all, engines |-> engines, sent |-> sent, repo |-> FALSE,
     began |-> 0, plan |-> "none", total |-> 0, why |-> "none", answer |-> NoEstimate,
     shown |-> NoEstimate, settled |-> FALSE]

RequestAll(s) == NewRequest(TRUE, {}, s)
RequestPicked(s) == NewRequest(FALSE, picked, IF "pentest" \in picked THEN s ELSE NoSettings)

\* projects.Get
GetProject(r) == [r EXCEPT !.repo = world.repo, !.began = changes, !.at = "target"]

\* GetAttestedTarget and resolveEngines: a partial scan is refused for an engine
\* that cannot run here, "everything" leaves it out.
Resolve(r) ==
    LET target == world.target = "attested"
        runnable == {e \in SrEngines : Runnable(e, r.repo, target)} IN
    IF r.all THEN [r EXCEPT !.engines = runnable, !.at = "plan"]
    ELSE IF r.engines \subseteq runnable THEN [r EXCEPT !.at = "price"]
    ELSE [r EXCEPT !.at = "refused", !.why = "engine_unavailable"]

\* AllowedEngines
ReadPlan(r) == [r EXCEPT !.plan = world.plan, !.at = "price",
                         !.engines = r.engines \ Blocked(world.plan, r.engines)]

\* Estimate
PriceEstimate(r) ==
    LET total == QuoteScan(r.engines, PreviewPreset(r.sent)) IN
    [r EXCEPT !.at = "answered",
              !.answer = [engines |-> r.engines, total |-> total,
                          allowed |-> Blocked(world.plan, r.engines) = {},
                          affordable |-> world.balance >= total, began |-> r.began]]

RefusedFor(r, why) == [r EXCEPT !.at = "refused", !.why = why]

\* CreateScan with Charge: all of it, or none.
PriceScan(r) ==
    LET total == QuoteScan(r.engines, Clamp(Requested(r.sent))) IN
    CASE r.engines = {} -> RefusedFor(r, "no_engines_available")
      [] r.engines # {} /\ Blocked(world.plan, r.engines) # {} -> RefusedFor(r, "plan_required")
      [] OTHER -> IF world.balance < total THEN RefusedFor(r, "insufficient_tokens")
                  ELSE [r EXCEPT !.at = "paid", !.total = total]

RequestStep(r, Price(_)) ==
    CASE r.at = "project" -> GetProject(r)
      [] r.at = "target" -> Resolve(r)
      [] r.at = "plan" -> ReadPlan(r)
      [] r.at = "price" -> Price(r)
UnderWay(r) == r.at \in {"project", "target", "plan", "price"}

(***************************************************************************)
(* The launcher                                                            *)
(***************************************************************************)

Launching == create = NotAsked
NoEstimates == [k \in {"all", "picked"} |-> [request |-> NotAsked, shown |-> NoEstimate]]

\* isSelectable: a pentest may be picked while its target awaits attestation.
IsSelectable(e) ==
    IF e = "pentest" THEN copy.target # "none" ELSE Runnable(e, copy.repo, FALSE)

\* Instead: what has changed is only looked at when engines are picked.
OnPicksOnly(pick, other) == pick
\* The effect's inputs: selectedKey, pentestConfig, the plan and the balance.
AsksAgain(pick, other) == pick \/ other

\* The effect starts over: answers to what it asked are dropped, and a timer set.
StartOver(pick, other) ==
    IF AsksAgain(pick, other)
    THEN /\ due' = TRUE
         /\ estimate' = [k \in {"all", "picked"} |-> [estimate[k] EXCEPT !.request = NotAsked]]
    ELSE UNCHANGED <<due, estimate>>

Toggle(e) ==
    /\ Launching /\ IsSelectable(e)
    /\ picked' = (picked \cup {e}) \ (picked \cap {e})
    /\ StartOver(TRUE, FALSE)
    /\ UNCHANGED <<SrWorld, copy, billing, setting, create, srFaults>>

\* PentestOptionsPanel
Choose(s) ==
    /\ Launching /\ "pentest" \in picked /\ IsSelectable("pentest") /\ s # setting
    /\ setting' = s
    /\ StartOver(FALSE, TRUE)
    /\ UNCHANGED <<SrWorld, copy, billing, picked, create, srFaults>>

RefreshBilling ==
    /\ Launching /\ billing # <<world.plan, world.balance>>
    /\ billing' = <<world.plan, world.balance>>
    /\ StartOver(FALSE, TRUE)
    /\ UNCHANGED <<SrWorld, copy, picked, setting, create, srFaults>>

\* The project is loaded anew; the estimates are not.
RefreshProject ==
    /\ Launching /\ copy # [repo |-> world.repo, target |-> world.target]
    /\ copy' = [repo |-> world.repo, target |-> world.target]
    /\ UNCHANGED <<SrWorld, billing, picked, setting, due, estimate, create, srFaults>>

TimerFires ==
    /\ Launching /\ due
    /\ due' = FALSE
    /\ estimate' = [all |-> [estimate.all EXCEPT !.request = RequestAll(setting)],
                    picked |-> IF picked = {} THEN NoEstimates.picked
                               ELSE [estimate.picked EXCEPT !.request = RequestPicked(setting)]]
    /\ UNCHANGED <<SrWorld, SrChoices, create, srFaults>>

ServeEstimate(k) ==
    /\ Launching /\ UnderWay(estimate[k].request)
    /\ estimate' = [estimate EXCEPT ![k].request = RequestStep(@, PriceEstimate)]
    /\ UNCHANGED <<SrWorld, SrChoices, due, create, srFaults>>

Shows(k, answer) == [estimate EXCEPT ![k] = [request |-> NotAsked, shown |-> answer]]

\* An estimate that is refused or lost leaves nothing to show.
EstimateArrives(k) ==
    /\ Launching /\ estimate[k].request.at \in {"answered", "refused"}
    /\ estimate' = Shows(k, estimate[k].request.answer)
    /\ UNCHANGED <<SrWorld, SrChoices, due, create, srFaults>>
LoseEstimate(k) ==
    /\ Launching /\ estimate[k].request # NotAsked /\ srFaults < MaxSrFaults
    /\ srFaults' = srFaults + 1
    /\ estimate' = Shows(k, NoEstimate)
    /\ UNCHANGED <<SrWorld, SrChoices, due, create>>

\* costBlock: what is not known does not block.
CostBlock(shown) == ~shown.allowed \/ ~shown.affordable

Click(k, request) ==
    /\ Launching /\ ~CostBlock(estimate[k].shown)
    /\ create' = [request EXCEPT !.shown = estimate[k].shown,
                                 !.settled = ~due /\ estimate[k].request = NotAsked]
    /\ UNCHANGED <<SrWorld, SrChoices, due, estimate, srFaults>>

RunAll ==
    Click("all", RequestAll(IF IsSelectable("pentest") THEN setting ELSE NoSettings))

NeedsAttestation == "pentest" \in picked /\ copy.target = "pending"
RunPicked ==
    /\ picked # {}
    /\ Click("picked", [RequestPicked(setting) EXCEPT
                           !.at = IF NeedsAttestation THEN "attest" ELSE "project"])

(***************************************************************************)
(* The world                                                               *)
(***************************************************************************)

Becomes(w) == world' = w /\ changes' = changes + 1

\* attestPendingTarget, before the scan is asked for: whatever became of the
\* target, it is attested.
AttestFirst ==
    /\ create.at = "attest"
    /\ create' = [create EXCEPT !.at = "project"]
    /\ IF world.target = "attested" THEN UNCHANGED <<world, changes>>
       ELSE Becomes([world EXCEPT !.target = "attested"])
    /\ UNCHANGED <<ceiling, SrChoices, due, estimate, srFaults>>

ServeCreate ==
    /\ UnderWay(create)
    /\ create' = RequestStep(create, PriceScan)
    /\ UNCHANGED <<SrWorld, SrChoices, due, estimate, srFaults>>

\* A repository is attached, a target registered, attested or revoked, the plan
\* changed, tokens spent or bought.
Worlds == [repo: BOOLEAN, target: {"none", "pending", "attested"}, plan: {"free", "pro"},
           balance: SrBalances]
OneApart(v, w) ==
    /\ Cardinality({f \in DOMAIN v : v[f] # w[f]}) = 1
    /\ v.repo => w.repo
    /\ v.target = "none" => w.target # "attested"
    /\ v.target = "attested" => w.target # "pending"
Change(w) ==
    /\ changes < MaxChanges /\ create.at \notin {"paid", "refused"}
    /\ OneApart(world, w)
    /\ Becomes(w)
    /\ UNCHANGED <<ceiling, SrChoices, due, estimate, create, srFaults>>

\* The panel as it opens: an empty object.
Untouched == [preset |-> "none", tuned |-> FALSE]

SrInit ==
    /\ world \in Worlds /\ ceiling \in Ceilings /\ changes = 0
    /\ copy = [repo |-> world.repo, target |-> world.target]
    /\ billing = <<world.plan, world.balance>>
    /\ picked = {e \in SrEngines : Runnable(e, world.repo, world.target = "attested")}
    /\ setting = Untouched
    /\ due = TRUE /\ estimate = NoEstimates /\ create = NotAsked /\ srFaults = 0

SrNext ==
    \/ \E e \in SrEngines : Toggle(e)
    \/ \E s \in Settings : Choose(s)
    \/ RefreshBilling \/ RefreshProject \/ TimerFires
    \/ \E k \in {"all", "picked"} : ServeEstimate(k) \/ EstimateArrives(k) \/ LoseEstimate(k)
    \/ RunAll \/ RunPicked \/ AttestFirst \/ ServeCreate
    \/ \E w \in Worlds : Change(w)

SrSpec == SrInit /\ [][SrNext]_SrVars

Estimates == [engines: SUBSET SrEngines, total: Int, allowed: BOOLEAN, affordable: BOOLEAN,
              began: 0 .. MaxChanges + 1]
Requests ==
    [at: {"attest", "project", "target", "plan", "price", "answered", "paid", "refused"},
     all: BOOLEAN, engines: SUBSET SrEngines, sent: Settings \cup {NoSettings, Untouched},
     repo: BOOLEAN, began: 0 .. MaxChanges + 1, plan: {"none", "free", "pro"}, total: Nat,
     why: {"none", "engine_unavailable", "no_engines_available", "plan_required",
           "insufficient_tokens"},
     answer: Estimates, shown: Estimates, settled: BOOLEAN]

\* Every variable has its type.
SrTypeOK ==
    /\ world \in Worlds /\ ceiling \in Ceilings /\ changes \in 0 .. MaxChanges + 1
    /\ copy.repo \in BOOLEAN /\ copy.target \in {"none", "pending", "attested"}
    /\ billing \in {"free", "pro"} \X SrBalances
    /\ picked \subseteq SrEngines /\ setting \in Settings \cup {Untouched} /\ due \in BOOLEAN
    /\ \A k \in {"all", "picked"} :
          estimate[k].request \in {NotAsked} \cup Requests /\ estimate[k].shown \in Estimates
    /\ create \in {NotAsked} \cup Requests /\ srFaults \in 0 .. MaxSrFaults

(***************************************************************************)
(* Properties                                                              *)
(***************************************************************************)

\* "the estimate and the real charge resolve engines identically"
\* (orchestrator/service.go:693): when nothing has changed since an estimate
\* began and the launcher has no newer one to wait for, the scan its button
\* starts has the engines and the price that were shown, but for settings the
\* page did not send, and is refused only when there was nothing to run.
ChargedAsShown ==
    create.at \in {"paid", "refused"} =>
        LET shown == create.shown IN
        (shown # NoEstimate /\ create.settled /\ changes = shown.began) =>
            IF create.at = "refused" THEN shown.engines = {}
            ELSE /\ create.engines = shown.engines
                 /\ create.total = shown.total \/ create.sent = NoSettings

\* "Run everything available" never fails for an engine the plan leaves out,
\* unless the plan was changed between the two looks at it (AllowedEngines and
\* Charge).
PlanLeavesOut ==
    (create.at = "refused" /\ create.all /\ create.why = "plan_required") =>
        create.plan # world.plan

\* A scan is charged as it was shown.
ScansChargedAsShown == ChargedAsShown /\ PlanLeavesOut
=============================================================================
