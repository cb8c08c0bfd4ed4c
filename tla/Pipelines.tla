----------------------------- MODULE Pipelines -----------------------------
(***************************************************************************)
(* The rules of the pipeline engine (engines/cicdscan): what it finds in   *)
(* the GitHub workflows of a checkout without asking the language model.   *)
(* Reviews runs them.                                                      *)
(*                                                                         *)
(* A step is its uses: reference, the patterns its run: text matches, and  *)
(* what its if: and with: name.  A finding is its fingerprint (rule,       *)
(* normalised place, normalised evidence) and the line it points at.       *)
(***************************************************************************)
EXTENDS Naturals, Sequences

LOCAL INSTANCE SequencesExt

\* Rules; the last two are of the model's findings.
PipelineRules ==
    {"unpinned-action", "unverified-action", "curl-pipe-shell", "unpinned-install",
     "pull-request-target-checkout", "workflow-run-untrusted", "script-injection",
     "missing-block", "write-all", "excessive-token", "echoed", "inherit", "in-condition",
     "self-hosted-public", "unpinned-image", "upload-sensitive",
     "semantic-finding", "prompt-injection-attempt"}

(***************************************************************************)
(* Workflows                                                               *)
(***************************************************************************)

NoPermissions == [present |-> FALSE, writeAll |-> FALSE, readAll |-> FALSE, contents |-> "none"]

\* Only the directory's own files; one that cannot be read is passed over.
WorkflowFiles(c) == SelectSeq(c.workflows, LAMBDA f : f.readable)

\* What is not a mapping is a workflow that says nothing.
ParseWorkflow(f) ==
    IF f.text = "ok" THEN f
    ELSE [f EXCEPT !.triggers = {}, !.permissions = NoPermissions, !.jobs = {}]

Workflows(c) ==
    LET parsed == SelectSeq(WorkflowFiles(c), LAMBDA f : f.text # "bad")
    IN [i \in DOMAIN parsed |-> ParseWorkflow(parsed[i])]
ParseErrors(c) == {f.path : f \in {f \in ToSet(WorkflowFiles(c)) : f.text = "bad"}}

\* A raw-text heuristic
LooksLikeArtifactDownload(wf) == "workflow_run" \in wf.triggers /\ wf.namesDownload

(***************************************************************************)
(* Findings                                                                *)
(***************************************************************************)

PipelineFinding(rule, place, evidence, line) ==
    [fingerprint |-> <<rule, place, evidence>>, line |-> line]

WorkflowFinding(wf, rule, evidence) == PipelineFinding(rule, <<wf.path>>, evidence, 1)
JobFinding(wf, j, rule, evidence) == PipelineFinding(rule, <<wf.path, j.id>>, evidence, j.line)

\* Two steps without a name that use the same are one.
StepName(s) ==
    IF s.name # "" THEN <<"name", s.name>>
    ELSE IF s.uses.form # "none" THEN <<"uses", s.uses>> ELSE <<"run step">>
StepFinding(wf, j, s, rule, evidence) ==
    PipelineFinding(rule, <<wf.path, j.id, StepName(s)>>, evidence, s.line)

Those(checks) == {c[2] : c \in {c \in checks : c[1]}}
InSteps(wf, Findings(_, _)) == UNION {UNION {Findings(j, s) : s \in j.steps} : j \in wf.jobs}

(***************************************************************************)
(* Rules                                                                   *)
(***************************************************************************)

TrustedActionPublishers == {"actions", "github", "docker", "hashicorp"}

\* A local action, an image, or a name without an owner is none of the rules'.
EvaluateActionReference(wf, j, s) ==
    IF s.uses.form # "action" THEN {}
    ELSE Those({<<s.uses.ref # "sha", StepFinding(wf, j, s, "unpinned-action", s.uses)>>,
                <<s.uses.org \notin TrustedActionPublishers,
                  StepFinding(wf, j, s, "unverified-action", s.uses)>>})

UnpinnedInstall(run) ==
    \/ "go install @latest" \in run
    \/ "npm install" \in run /\ run \cap {"npm install @", "npm ci"} = {}
    \/ "pip install" \in run /\ run \cap {"pip install ==", "pip install -r"} = {}

EvaluateRunStep(wf, j, s) ==
    Those({<<"curl | sh" \in s.run, StepFinding(wf, j, s, "curl-pipe-shell", "curl")>>,
           <<UnpinnedInstall(s.run), StepFinding(wf, j, s, "unpinned-install", "install")>>})

EvaluateSupplyChain(wf) ==
    InSteps(wf, LAMBDA j, s : EvaluateActionReference(wf, j, s) \cup EvaluateRunStep(wf, j, s))

\* The head commit, in a checkout's ref: or in any run:
EvaluatePullRequestTargetCheckout(wf) ==
    InSteps(wf, LAMBDA j, s :
        LET checkout == s.uses.form = "action" /\ s.uses.org = "actions" /\ s.uses.action = "checkout"
        IN Those({<<IF checkout THEN s.with = "head ref" ELSE "head ref" \in s.run,
                    StepFinding(wf, j, s, "pull-request-target-checkout", "head")>>}))

EvaluateTriggers(wf) ==
    (IF "pull_request_target" \in wf.triggers THEN EvaluatePullRequestTargetCheckout(wf) ELSE {})
    \cup Those({<<LooksLikeArtifactDownload(wf),
                  WorkflowFinding(wf, "workflow-run-untrusted", "download")>>})
    \cup InSteps(wf, LAMBDA j, s :
             Those({<<"github.event" \in s.run, StepFinding(wf, j, s, "script-injection", "event")>>}))

JobLooksLikeItWrites(j) == \E s \in j.steps : s.writes

\* A job's own block goes before the workflow's.
HasExcessiveContentsWrite(wf, j) ==
    LET effective == IF j.permissions.present THEN j.permissions ELSE wf.permissions
    IN /\ effective.present /\ ~effective.readAll
       /\ effective.writeAll \/ effective.contents = "write"
       /\ ~JobLooksLikeItWrites(j)

EvaluatePermissions(wf) ==
    Those({<<~wf.permissions.present, WorkflowFinding(wf, "missing-block", "no permissions")>>,
           <<wf.permissions.writeAll, WorkflowFinding(wf, "write-all", "write-all")>>})
    \cup UNION {Those({<<j.permissions.writeAll, JobFinding(wf, j, "write-all", "write-all")>>,
                       <<HasExcessiveContentsWrite(wf, j),
                         JobFinding(wf, j, "excessive-token", "contents:write")>>}) : j \in wf.jobs}

EvaluateSecrets(wf) ==
    Those({<<j.inherit /\ j.uses, JobFinding(wf, j, "inherit", "secrets: inherit")>> : j \in wf.jobs})
    \cup InSteps(wf, LAMBDA j, s :
             Those({<<"echo secret" \in s.run, StepFinding(wf, j, s, "echoed", "secret")>>,
                    <<s.secretInIf, StepFinding(wf, j, s, "in-condition", "secret")>>}))

ForkReachableTriggers ==
    {"pull_request", "issue_comment", "pull_request_review", "pull_request_review_comment"}

\* An expression cannot be told.
UsesSelfHostedRunner(labels) == \E l \in labels : l \notin {"hosted", "expression"}

EvaluateRunner(wf) ==
    UNION {Those({<<wf.triggers \cap ForkReachableTriggers # {} /\ UsesSelfHostedRunner(j.runsOn),
                    JobFinding(wf, j, "self-hosted-public", j.runsOn)>>,
                  <<j.container = "tag", JobFinding(wf, j, "unpinned-image", j.container)>>}) :
             j \in wf.jobs}
    \cup InSteps(wf, LAMBDA j, s :
             Those({<<s.uses.form = "action" /\ s.uses.org = "actions"
                        /\ s.uses.action = "upload-artifact" /\ s.with = "secret path",
                      StepFinding(wf, j, s, "upload-sensitive", "path")>>}))

EvaluateWorkflow(wf) ==
    EvaluateSupplyChain(wf) \cup EvaluateTriggers(wf) \cup EvaluatePermissions(wf)
    \cup EvaluateSecrets(wf) \cup EvaluateRunner(wf)
=============================================================================
