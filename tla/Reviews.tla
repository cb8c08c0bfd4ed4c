------------------------------ MODULE Reviews ------------------------------
(***************************************************************************)
(* The two engines that ask a language model: the pipeline engine, whose   *)
(* rules (Pipelines) find what they find before the model is asked for     *)
(* more, and the document engine, which has nothing but the model.         *)
(* Between them and the model is the AI service (modules/ai), which looks  *)
(* at every answer before an engine sees it.  (What becomes of keys,       *)
(* quota and cached answers is Assistant's subject.)                       *)
(*                                                                         *)
(* A scan has a job of each engine.  An answer is what the checks tell     *)
(* apart: its shape, whether it echoes instructions, its size, and the     *)
(* findings it names.                                                      *)
(***************************************************************************)
EXTENDS Pipelines

LOCAL INSTANCE SequencesExt

CONSTANTS
    ReviewedScans,    \* scans with the two jobs
    Repositories,     \* what there may be to scan
    ModelAnswers,     \* what the model may answer
    Categories,       \* rules a document may break: docreview's Rules but the last
    MaxWorkflows,     \* maxAIWorkflowFiles
    MaxDocuments      \* maxDocumentsPerScan

ASSUME ReviewsAssumption ==
    /\ MaxWorkflows \in Nat \ {0} /\ MaxDocuments \in Nat \ {0}
    /\ "prompt-injection-attempt" \notin Categories

VARIABLES
    aiConfigured,   \* whether there is an AI service at all (aiSvc)
    pipelineRun,    \* the run of the pipeline engine, by scan
    documentRun,    \* the run of the document engine, by scan
    reviewRows      \* rows of findings, by scan and engine

RvVars == <<aiConfigured, pipelineRun, documentRun, reviewRows>>

(***************************************************************************)
(* The AI service                                                          *)
(* (An operator whose comment says "instead" is a plausible mistake in the *)
(* operator it precedes; only the mutants use it.)                         *)
(***************************************************************************)

\* What the provider gives up on is an answer without any.
NoAnswer == [shape |-> "none", echo |-> FALSE, oversize |-> FALSE, findings |-> {}]

\* The shape comes before the echo, the echo before the size.
Validate(a) ==
    CASE a.shape = "none" -> "error"
      [] a.shape = "bad" -> "schema"
      [] a.shape = "filled" /\ a.echo -> "injection"
      [] a.shape = "filled" /\ ~a.echo /\ a.oversize -> "schema"
      [] OTHER -> "valid"

\* A second answer is asked for when the first has the wrong shape.
Accepted(first, second) == IF Validate(first) = "schema" THEN second ELSE first

\* injectionFinding: with what the model said as the evidence
InjectionFinding(path, a) == PipelineFinding("prompt-injection-attempt", <<path>>, a, 1)

(***************************************************************************)
(* The pipeline engine                                                     *)
(***************************************************************************)

NoPipeline == [at |-> "waiting", repository |-> "none", next |-> 1, found |-> {}, noted |-> {}]

Save(s, engine, findings) ==
    reviewRows' = [reviewRows EXCEPT ![s][engine] = {f.fingerprint : f \in findings}]

StartPipeline(s, c) ==
    LET applicable == c.listed /\ (Workflows(c) # <<>> \/ ParseErrors(c) # {})
    IN /\ pipelineRun[s].at = "waiting"
       /\ pipelineRun' = [pipelineRun EXCEPT
             ![s].repository = c,
             ![s].at = IF applicable THEN "rules" ELSE "skipped",
             ![s].noted = IF applicable THEN {<<"parse_error", p>> : p \in ParseErrors(c)} ELSE {}]
       /\ UNCHANGED <<aiConfigured, documentRun, reviewRows>>

\* The rules on the next workflow
EvaluateNext(s) ==
    LET r == pipelineRun[s]
    IN /\ r.at = "rules" /\ r.next <= Len(Workflows(r.repository))
       /\ pipelineRun' = [pipelineRun EXCEPT
             ![s].next = @ + 1,
             ![s].found = @ \cup EvaluateWorkflow(Workflows(r.repository)[r.next])]
       /\ UNCHANGED <<aiConfigured, documentRun, reviewRows>>

\* The job's context ends: looked at before each workflow. What was found is kept.
StopRules(s) ==
    /\ pipelineRun[s].at = "rules"
    /\ pipelineRun[s].next <= Len(Workflows(pipelineRun[s].repository))
    /\ pipelineRun' = [pipelineRun EXCEPT ![s].at = "failed"]
    /\ Save(s, "cicdscan", pipelineRun[s].found)
    /\ UNCHANGED <<aiConfigured, documentRun>>

\* Without an AI service the rules are all there is.
AskForMore(s) ==
    /\ pipelineRun[s].at = "rules"
    /\ pipelineRun[s].next > Len(Workflows(pipelineRun[s].repository))
    /\ pipelineRun' = [pipelineRun EXCEPT
          ![s].next = 1,
          ![s].at = IF aiConfigured THEN "review" ELSE "succeeded",
          ![s].noted = IF aiConfigured THEN @ ELSE @ \cup {<<"ai_pass_unavailable", "">>}]
    /\ IF aiConfigured THEN UNCHANGED reviewRows ELSE Save(s, "cicdscan", pipelineRun[s].found)
    /\ UNCHANGED <<aiConfigured, documentRun>>

FiredLines(r, path) == {f.line : f \in {f \in r.found : f.fingerprint[2][1] = path}}

\* Instead: only a finding of the very line is the same.
OnALine(hint, lines) == hint \in lines
\* lineNearMiss
NearAny(hint, lines) == \E l \in lines : hint <= l + 2 /\ l <= hint + 2

\* aiFinding: the rule is always the one; the place is what the model says it is. A hint
\* without a number is 0.
SemanticFinding(path, f) ==
    PipelineFinding("semantic-finding", <<path, f.hint>>, f.title, 0)

\* The lines are those of the rules: what the model found before in this file
\* does not count. An error is only counted.
ReviewWorkflow(s, first, second) ==
    LET r == pipelineRun[s]
        wf == Workflows(r.repository)[r.next]
        answer == Accepted(first, second)
        new == {f \in answer.findings : f.hint = 0 \/ ~NearAny(f.hint, FiredLines(r, wf.path))}
    IN /\ r.at = "review" /\ r.next <= Len(Workflows(r.repository)) /\ r.next <= MaxWorkflows
       /\ pipelineRun' = [pipelineRun EXCEPT
             ![s].next = @ + 1,
             ![s].found = @ \cup CASE Validate(answer) = "injection" -> {InjectionFinding(wf.path, answer)}
                                   [] Validate(answer) = "valid" -> {SemanticFinding(wf.path, f) : f \in new}
                                   [] OTHER -> {}]
       /\ UNCHANGED <<aiConfigured, documentRun, reviewRows>>

\* Every workflow of the first MaxWorkflows has been reviewed, or the job's
\* context has ended: the run succeeds all the same.
EndReview(s) ==
    /\ pipelineRun[s].at = "review"
    /\ pipelineRun' = [pipelineRun EXCEPT ![s].at = "succeeded"]
    /\ Save(s, "cicdscan", pipelineRun[s].found)
    /\ UNCHANGED <<aiConfigured, documentRun>>

PipelineStep(s) ==
    \/ \E c \in Repositories : StartPipeline(s, c)
    \/ EvaluateNext(s)
    \/ StopRules(s)
    \/ AskForMore(s)
    \/ \E first, second \in ModelAnswers : ReviewWorkflow(s, first, second)
    \/ EndReview(s)

(***************************************************************************)
(* The document engine                                                     *)
(***************************************************************************)

ReviewDirs == {"root", "docs", "documentation", "design", "architecture", "adr"}

\* The root's own files and all below the others, but for what is excluded by
\* name, looks generated, is not a text or cannot be read.
RepoDocuments(c) ==
    SelectSeq(c.documents, LAMBDA d : /\ d.dir \in ReviewDirs /\ ~d.excluded /\ ~d.generated
                                      /\ d.isText /\ d.readable)

NoDocuments == [at |-> "waiting", repository |-> "none", uploaded |-> <<>>, queue |-> <<>>,
                reviewed |-> <<>>, found |-> {}]

\* What was uploaded comes first.
Capped(uploaded, found) ==
    LET all == uploaded \o found IN SubSeq(all, 1, IF Len(all) < MaxDocuments THEN Len(all) ELSE MaxDocuments)

\* The worker reads what was uploaded; if it cannot, the scan does without.
StartDocuments(s, c, fetched) ==
    LET uploaded == IF fetched THEN c.uploaded ELSE <<>>
        applicable == uploaded # <<>> \/ (c.listed /\ RepoDocuments(c) # <<>>)
        asked == applicable /\ c.listed /\ aiConfigured
    IN /\ documentRun[s].at = "waiting"
       /\ documentRun' = [documentRun EXCEPT
             ![s].repository = c,
             ![s].uploaded = uploaded,
             ![s].queue = IF asked THEN Capped(uploaded, RepoDocuments(c)) ELSE <<>>,
             ![s].at = IF asked THEN "review" ELSE IF applicable THEN "failed" ELSE "skipped"]
       /\ UNCHANGED <<aiConfigured, pipelineRun, reviewRows>>

\* aiFinding: the rule is the one the model names, the evidence what it quotes
DocumentFinding(path, f) == PipelineFinding(f.rule, <<path, f.hint>>, f.title, 0)

\* A rule the engine does not have is dropped; an error is the end, and what was
\* found is kept.
ReviewDocument(s, first, second) ==
    LET r == documentRun[s]
        path == Head(r.queue).path
        answer == Accepted(first, second)
        known == {f \in answer.findings : f.rule \in Categories}
        outcome == Validate(answer)
    IN /\ r.at = "review" /\ r.queue # <<>>
       /\ documentRun' = [documentRun EXCEPT
             ![s].at = IF outcome \in {"error", "schema"} THEN "failed" ELSE @,
             ![s].queue = IF outcome \in {"error", "schema"} THEN <<>> ELSE Tail(@),
             ![s].reviewed = IF outcome \in {"error", "schema"} THEN @ ELSE Append(@, path),
             ![s].found = @ \cup CASE outcome = "injection" -> {InjectionFinding(path, answer)}
                                   [] outcome = "valid" -> {DocumentFinding(path, f) : f \in known}
                                   [] OTHER -> {}]
       /\ IF outcome \in {"error", "schema"} THEN Save(s, "docreview", r.found)
                                             ELSE UNCHANGED reviewRows
       /\ UNCHANGED <<aiConfigured, pipelineRun>>

\* The job's context ends: looked at before each document.
StopDocuments(s) ==
    /\ documentRun[s].at = "review" /\ documentRun[s].queue # <<>>
    /\ documentRun' = [documentRun EXCEPT ![s].at = "failed", ![s].queue = <<>>]
    /\ Save(s, "docreview", documentRun[s].found)
    /\ UNCHANGED <<aiConfigured, pipelineRun>>

\* Instead: whatever there is left to review.
EndDocumentsEarly(s) ==
    /\ documentRun[s].at = "review"
    /\ documentRun' = [documentRun EXCEPT ![s].at = "succeeded"]
    /\ Save(s, "docreview", documentRun[s].found)
    /\ UNCHANGED <<aiConfigured, pipelineRun>>
EndDocuments(s) ==
    /\ documentRun[s].at = "review" /\ documentRun[s].queue = <<>>
    /\ documentRun' = [documentRun EXCEPT ![s].at = "succeeded"]
    /\ Save(s, "docreview", documentRun[s].found)
    /\ UNCHANGED <<aiConfigured, pipelineRun>>

DocumentStep(s) ==
    \/ \E c \in Repositories, fetched \in BOOLEAN : StartDocuments(s, c, fetched)
    \/ \E first, second \in ModelAnswers : ReviewDocument(s, first, second)
    \/ StopDocuments(s)
    \/ EndDocuments(s)

RvInit ==
    /\ aiConfigured \in BOOLEAN
    /\ pipelineRun = [s \in ReviewedScans |-> NoPipeline]
    /\ documentRun = [s \in ReviewedScans |-> NoDocuments]
    /\ reviewRows = [s \in ReviewedScans |-> [cicdscan |-> {}, docreview |-> {}]]

RvNext == \E s \in ReviewedScans : PipelineStep(s) \/ DocumentStep(s)
RvSpec == RvInit /\ [][RvNext]_RvVars

(***************************************************************************)
(* Properties                                                              *)
(***************************************************************************)

RvTypeOK ==
    /\ aiConfigured \in BOOLEAN
    /\ \A s \in ReviewedScans :
         /\ pipelineRun[s].at \in {"waiting", "rules", "review", "succeeded", "failed", "skipped"}
         /\ documentRun[s].at \in {"waiting", "review", "succeeded", "failed", "skipped"}
         /\ documentRun[s].queue # <<>> => documentRun[s].at = "review"
         /\ reviewRows[s].cicdscan # {} => pipelineRun[s].at \in {"succeeded", "failed"}
         /\ reviewRows[s].docreview # {} => documentRun[s].at \in {"succeeded", "failed"}

ModelRules == {"semantic-finding", "prompt-injection-attempt"}
RowsOf(rows, rule, path) == {r \in rows : r[1] = rule /\ r[2][1] = path}

\* What the rules find in the workflows of a commit is in the findings of a job
\* that succeeds, all of it, whatever the model says and whether it says
\* anything. What it adds is in no place within two lines of a rule's, and an
\* answer that echoes instructions is a finding of its own and leaves nothing
\* else of the model's behind in its file. (engines/cicdscan, modules/ai)
RulesStandAlone ==
    \A s \in ReviewedScans : pipelineRun[s].at = "succeeded" =>
      LET c == pipelineRun[s].repository
          rows == reviewRows[s].cicdscan
          rules == {r \in rows : r[1] \notin ModelRules}
      IN /\ rules = {f.fingerprint : f \in UNION {EvaluateWorkflow(wf) : wf \in ToSet(Workflows(c))}}
         /\ {r[1] : r \in rows} \subseteq PipelineRules
         /\ ~aiConfigured => rows = rules /\ <<"ai_pass_unavailable", "">> \in pipelineRun[s].noted
         /\ \A path \in {r[2][1] : r \in rows} :
              LET injected == RowsOf(rows, "prompt-injection-attempt", path)
                  added == RowsOf(rows, "semantic-finding", path)
                  fired == {f \in pipelineRun[s].found : f.fingerprint[1] \notin ModelRules
                                                           /\ f.fingerprint[2][1] = path}
              IN /\ injected # {} => added = {}
                 /\ \A r \in added, f \in fired :
                      r[2][2] = 0 \/ r[2][2] \notin (f.line - 2) .. (f.line + 2)

\* A document job that succeeds has reviewed all it could, up to the cap: none of
\* the repository's unless all that were uploaded are among them, and fewer than
\* the cap only if there are no more. (Their names tell them apart; the samples
\* have none that is both uploaded and in the repository.) And what it says of a
\* document is of the engine's own rules, or that the document tries to instruct
\* the model, and never both. (engines/docreview, modules/ai)
UploadedReviewedFirst ==
    \A s \in ReviewedScans : documentRun[s].at = "succeeded" =>
      LET r == documentRun[s]
          paths(docs) == {docs[i].path : i \in DOMAIN docs}
          reviewed == ToSet(r.reviewed)
      IN /\ Len(r.reviewed) <= MaxDocuments
         /\ \/ reviewed \subseteq paths(r.uploaded)
            \/ paths(r.uploaded) \subseteq reviewed
         /\ paths(r.uploaded) \cup paths(RepoDocuments(r.repository)) \subseteq reviewed
              \/ Len(r.reviewed) = MaxDocuments
         /\ \A row \in reviewRows[s].docreview :
              /\ row[2][1] \in reviewed
              /\ row[1] \in Categories \/ RowsOf(reviewRows[s].docreview, row[1], row[2][1]) = {row}
              /\ row[1] = "prompt-injection-attempt" =>
                   \A other \in reviewRows[s].docreview : other[2][1] = row[2][1] => other = row

TheModelOnlyAdds == RulesStandAlone /\ UploadedReviewedFirst
=============================================================================
