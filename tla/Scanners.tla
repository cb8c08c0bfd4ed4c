------------------------------ MODULE Scanners ------------------------------
(***************************************************************************)
(* The engines that wrap a scanner of others: the code engine              *)
(* (engines/codescan), which has SonarQube analyse the project and reads   *)
(* back what is open, and the container engine (engines/containerscan),    *)
(* which has Trivy look at the Dockerfiles and at an image; and the        *)
(* catalogue of rules both write to while they run (modules/advisory).     *)
(*                                                                         *)
(* The scans are of one project, so they share one SonarQube project.  A   *)
(* commit is its place on the branch.  What the scanners leave behind is   *)
(* Docker's and Sandboxes' subject.                                        *)
(***************************************************************************)
EXTENDS Naturals, Sequences, FiniteSets

LOCAL INSTANCE SequencesExt
LOCAL INSTANCE FiniteSetsExt

CONSTANTS
    WrappedScans,   \* scans with the two jobs
    Branch,         \* the commits there come to be: sequence of what is in them
    ImageContents,  \* what Trivy finds in a registry's image, by its name
    StaticRules,    \* rules the code declares: in the order they are synced
    PageSize,       \* pageSize
    MaxCollected,   \* maxDockerfileBytes
    MaxReviews,     \* bound: hotspots somebody reviews
    MaxSwitches     \* bound: rules an operator turns off or on

ASSUME ScannersAssumption ==
    /\ Branch # <<>> /\ PageSize \in Nat \ {0}
    /\ {MaxCollected, MaxReviews, MaxSwitches} \subseteq Nat

VARIABLES
    backend,    \* "docker" or "kubernetes": SandboxBackend
    tip,        \* the last commit that has been pushed
    codeRun,    \* the run of the code engine, by scan
    tasks,      \* analyses SonarQube has not come to: sequence of scans
    analysisOf,      \* what became of a scan's analysis
    current,    \* the commit of the analysis it did last
    known,      \* issues it has ever found in the project
    reviewed,   \* hotspots somebody has reviewed
    shifted,    \* runs whose lists changed while they read them
    imageRun,   \* the run of the container engine, by scan
    rules,      \* the catalogue: the rules that are enabled, and those that are not
    said,       \* the last word of an operator on a rule (history)
    switches,   \* how often there was one
    wrappedRows \* rows of findings, by scan and engine

SnVars == <<backend, tip, codeRun, tasks, analysisOf, current, known, reviewed, shifted, imageRun,
            rules, said, switches, wrappedRows>>
SonarQube == <<tasks, analysisOf, current, known, reviewed>>

(***************************************************************************)
(* The catalogue of rules                                                  *)
(***************************************************************************)

Catalogue == rules.on \cup rules.off

\* Inserted as enabled; of one that is there everything is refreshed but that.
Upserted(r, new) == [r EXCEPT !.on = @ \cup (new \ r.off)]

\* SyncRules: at every start, one after the other up to one that fails.
SyncRules(upTo) ==
    /\ upTo \in 0 .. Len(StaticRules)
    /\ rules' = Upserted(rules, ToSet(SubSeq(StaticRules, 1, upTo)))
    /\ UNCHANGED <<backend, tip, codeRun, SonarQube, shifted, imageRun, said, switches, wrappedRows>>

SetRuleEnabled(rule, enabled) ==
    /\ rule \in Catalogue /\ switches < MaxSwitches
    /\ rules' = IF enabled THEN [on |-> rules.on \cup {rule}, off |-> rules.off \ {rule}]
                ELSE [on |-> rules.on \ {rule}, off |-> rules.off \cup {rule}]
    /\ said' = [on |-> IF enabled THEN said.on \cup {rule} ELSE said.on \ {rule},
                off |-> IF enabled THEN said.off \ {rule} ELSE said.off \cup {rule}]
    /\ switches' = switches + 1
    /\ UNCHANGED <<backend, tip, codeRun, SonarQube, shifted, imageRun, wrappedRows>>

\* findings.rule_id is a foreign key: rows of rules that are not there are not
\* stored, and nothing of their job is.
Store(s, engine, findings) ==
    /\ {f[1] : f \in findings} \subseteq Catalogue
    /\ wrappedRows' = [wrappedRows EXCEPT ![s][engine] = findings]

(***************************************************************************)
(* The code engine                                                         *)
(* (An operator whose comment says "instead" is a plausible mistake in the *)
(* operator it precedes; only the mutants use it.)                         *)
(***************************************************************************)

NoCodeRun == [at |-> "waiting", commit |-> 0, analysed |-> 0, page |-> 1, read |-> <<>>,
              registered |-> {}, emitted |-> {}]

\* The rule, the path and the message
FingerprintOfIssue(i) == <<i.rule, i.path, i.text>>

Push ==
    /\ tip < Len(Branch)
    /\ tip' = tip + 1
    /\ UNCHANGED <<backend, codeRun, SonarQube, shifted, imageRun, rules, said, switches, wrappedRows>>

CodeRunIs(s, r) ==
    /\ codeRun' = [codeRun EXCEPT ![s] = r]
    /\ UNCHANGED <<backend, tip, imageRun, said, switches>>

\* On what the scan has checked out
StartCode(s) ==
    /\ codeRun[s].at = "waiting"
    /\ CodeRunIs(s, [codeRun[s] EXCEPT !.commit = tip,
                                       !.at = IF Branch[tip].sources THEN "analyse" ELSE "skipped"])
    /\ UNCHANGED <<SonarQube, shifted, rules, wrappedRows>>

\* The Docker backend analyses the checkout; a Kubernetes Job has none and clones
\* the branch itself.
Analyze(s) ==
    LET version == IF backend = "docker" THEN codeRun[s].commit ELSE tip
    IN /\ codeRun[s].at = "analyse"
       /\ CodeRunIs(s, [codeRun[s] EXCEPT !.at = "poll", !.analysed = version])
       /\ tasks' = Append(tasks, s)
       /\ UNCHANGED <<analysisOf, current, known, reviewed, shifted, rules, wrappedRows>>

\* pollTask: until it has an end
SeeTask(s) ==
    /\ codeRun[s].at = "poll" /\ analysisOf[s] # "none"
    /\ CodeRunIs(s, [codeRun[s] EXCEPT !.at = IF analysisOf[s] = "success" THEN "issues" ELSE "failed"])
    /\ UNCHANGED <<SonarQube, shifted, rules, wrappedRows>>

\* The container, a question or the rule's upsert fails, or the time is up: what
\* it has emitted is kept, and an analysis that was asked for goes on without it.
FailCode(s) ==
    /\ codeRun[s].at \in {"analyse", "poll", "issues", "hotspots", "emit"}
    /\ CodeRunIs(s, [codeRun[s] EXCEPT !.at = "failed"])
    /\ Store(s, "codescan", codeRun[s].emitted)
    /\ UNCHANGED <<SonarQube, shifted, rules>>

\* Instead: resolved ones are asked for too.
ListedWithResolved(kind) ==
    IF kind = "issues" THEN known ELSE Branch[current].hotspots \ reviewed
\* resolved=false; TO_REVIEW
Listed(kind) == IF kind = "issues" THEN Branch[current].issues ELSE Branch[current].hotspots \ reviewed

\* SearchIssues, SearchHotspots: page after page, of what is listed when it is
\* asked for, to the last or to an empty one.
ReadPage(s) ==
    LET r == codeRun[s]
        all == SetToSeq(Listed(r.at))
        page == SubSeq(all, (r.page - 1) * PageSize + 1,
                       IF r.page * PageSize < Len(all) THEN r.page * PageSize ELSE Len(all))
        last == r.page * PageSize >= Len(all) \/ page = <<>>
    IN /\ r.at \in {"issues", "hotspots"}
       /\ CodeRunIs(s, [r EXCEPT
             !.read = @ \o page,
             !.page = IF last THEN 1 ELSE @ + 1,
             !.at = IF ~last THEN @ ELSE IF @ = "issues" THEN "hotspots" ELSE "emit"])
       /\ UNCHANGED <<SonarQube, shifted, rules, wrappedRows>>

\* The next: its rule, if this run has not registered it, and the finding. A rule
\* SonarQube cannot describe is registered without a description.
EmitCode(s) ==
    LET r == codeRun[s]
        i == Head(r.read)
    IN /\ r.at = "emit" /\ r.read # <<>>
       /\ rules' = IF i.rule \in r.registered THEN rules ELSE Upserted(rules, {i.rule})
       /\ CodeRunIs(s, [r EXCEPT !.read = Tail(@), !.registered = @ \cup {i.rule},
                                 !.emitted = @ \cup {FingerprintOfIssue(i)}])
       /\ UNCHANGED <<SonarQube, shifted, wrappedRows>>

EndCode(s) ==
    /\ codeRun[s].at = "emit" /\ codeRun[s].read = <<>>
    /\ CodeRunIs(s, [codeRun[s] EXCEPT !.at = "succeeded"])
    /\ Store(s, "codescan", codeRun[s].emitted)
    /\ UNCHANGED <<SonarQube, shifted, rules>>

\* SonarQube does the project's analyses one after the other; an issue that is
\* not found again is resolved.
Process(how) ==
    LET s == Head(tasks)
        readers == {o \in WrappedScans \ {s} : analysisOf[o] = "success"
                                                 /\ codeRun[o].at \in {"poll", "issues", "hotspots"}}
    IN /\ tasks # <<>>
       /\ tasks' = Tail(tasks)
       /\ analysisOf' = [analysisOf EXCEPT ![s] = how]
       /\ IF how = "success"
          THEN /\ current' = codeRun[s].analysed
               /\ known' = known \cup Branch[codeRun[s].analysed].issues
               /\ shifted' = shifted \cup readers
          ELSE UNCHANGED <<current, known, shifted>>
       /\ UNCHANGED <<backend, tip, codeRun, reviewed, imageRun, rules, said, switches, wrappedRows>>

ReviewHotspot ==
    /\ current # 0 /\ Cardinality(reviewed) < MaxReviews
    /\ \E h \in Listed("hotspots") : reviewed' = reviewed \cup {h}
    /\ shifted' = shifted \cup {s \in WrappedScans : analysisOf[s] = "success" /\ codeRun[s].at \in {"poll", "issues", "hotspots"}}
    /\ UNCHANGED <<backend, tip, codeRun, tasks, analysisOf, current, known, imageRun, rules, said,
                   switches, wrappedRows>>

CodeStep(s) ==
    StartCode(s) \/ Analyze(s) \/ SeeTask(s) \/ FailCode(s) \/ ReadPage(s) \/ EmitCode(s) \/ EndCode(s)

(***************************************************************************)
(* The container engine                                                    *)
(***************************************************************************)

NoImageRun == [at |-> "waiting", commit |-> 0, found |-> <<>>, emitted |-> {}, image |-> "none"]

\* What the engine takes for the Dockerfiles: skipDirs are passed over.
Dockerfiles(commit) == SelectSeq(Branch[commit].dockerfiles, LAMBDA d : ~d.skipped)
TheDockerfile(commit) == Dockerfiles(commit)[1]

\* The last FROM, its stage aliases followed back; "" if that cannot be known
\* without a build.
FinalBaseImage(stages) ==
    LET alias[i \in 0 .. Len(stages)] ==
            IF i = 0 THEN [last |-> "", named |-> {}]
            ELSE LET before == alias[i - 1]
                     from == stages[i].from
                     image == IF \E n \in before.named : n[1] = from
                              THEN (CHOOSE n \in before.named : n[1] = from)[2] ELSE from
                 IN [last |-> image,
                     named |-> IF stages[i].as = "" THEN before.named
                               ELSE {n \in before.named : n[1] # stages[i].as} \cup {<<stages[i].as, image>>}]
        base == alias[Len(stages)].last
    IN IF base \in {"scratch", "$ARG"} THEN "" ELSE base

\* What of the checkout there is to send to a Kubernetes Job
Collected(commit) == SelectSeq(Dockerfiles(commit), LAMBDA d : d.readable)
SizeOf(files) == FoldSeq(LAMBDA d, n : d.size + n, 0, files)
\* On Docker, Trivy looks for itself, in all of the checkout: nothing tells it of
\* skipDirs.
Misconfigurations(commit) ==
    LET scanned == IF backend = "docker" THEN Branch[commit].dockerfiles ELSE Collected(commit)
    IN UNION {d.misconfigured : d \in ToSet(scanned)}

ImageRunIs(s, r) ==
    /\ imageRun' = [imageRun EXCEPT ![s] = r]
    /\ UNCHANGED <<backend, tip, codeRun, SonarQube, shifted, said, switches>>

ImageRunEnds(s, how) ==
    /\ ImageRunIs(s, [imageRun[s] EXCEPT !.at = how])
    /\ Store(s, "containerscan", imageRun[s].emitted)
    /\ UNCHANGED rules

StartImage(s) ==
    /\ imageRun[s].at = "waiting"
    /\ ImageRunIs(s, [imageRun[s] EXCEPT !.commit = tip,
                                         !.at = IF Dockerfiles(tip) # <<>> THEN "config" ELSE "skipped"])
    /\ UNCHANGED <<rules, wrappedRows>>

ScanConfig(s) ==
    LET r == imageRun[s]
        tooLarge == backend = "kubernetes" /\ SizeOf(Collected(r.commit)) > MaxCollected
    IN /\ r.at = "config"
       /\ IF tooLarge THEN ImageRunEnds(s, "failed")
          ELSE /\ ImageRunIs(s, [r EXCEPT !.at = "emit config",
                                          !.found = SetToSeq(Misconfigurations(r.commit))])
               /\ UNCHANGED <<rules, wrappedRows>>

\* A scan, a build or an upsert fails, or the time is up: what it has emitted is
\* kept.
FailImage(s) ==
    /\ imageRun[s].at \in {"config", "emit config", "image", "scan image", "emit image"}
    /\ ImageRunEnds(s, "failed")

\* The next: its rule, and the finding
EmitImage(s) ==
    LET r == imageRun[s] IN
    /\ r.at \in {"emit config", "emit image"} /\ r.found # <<>>
    /\ rules' = Upserted(rules, {Head(r.found)[1]})
    /\ ImageRunIs(s, [r EXCEPT !.found = Tail(@), !.emitted = @ \cup {Head(r.found)}])
    /\ UNCHANGED wrappedRows
AllConfigEmitted(s) ==
    /\ imageRun[s].at = "emit config" /\ imageRun[s].found = <<>>
    /\ ImageRunIs(s, [imageRun[s] EXCEPT !.at = "image"])
    /\ UNCHANGED <<rules, wrappedRows>>

\* With a daemon the first Dockerfile is built, in the root and else where it is;
\* without one its base image is taken, and if that is not known there is nothing
\* more to do.
TakeImage(s) ==
    LET r == imageRun[s]
        d == TheDockerfile(r.commit)
        base == IF d.readable THEN FinalBaseImage(d.stages) ELSE ""
    IN /\ r.at = "image"
       /\ IF backend = "docker" /\ d.builds = "nowhere" THEN ImageRunEnds(s, "failed")
          ELSE IF backend = "kubernetes" /\ base = "" THEN ImageRunEnds(s, "succeeded")
          ELSE /\ ImageRunIs(s, [r EXCEPT !.at = "scan image",
                                          !.image = IF backend = "docker" THEN "built" ELSE base])
               /\ UNCHANGED <<rules, wrappedRows>>

\* On Kubernetes a name that does not look like an image's is refused, and one no
\* registry has fails.
ScanImage(s) ==
    LET r == imageRun[s]
        finds(content) == /\ ImageRunIs(s, [r EXCEPT !.at = "emit image", !.found = SetToSeq(content)])
                          /\ UNCHANGED <<rules, wrappedRows>>
    IN /\ r.at = "scan image"
       /\ IF r.image = "built" THEN finds(TheDockerfile(r.commit).inImage)
          ELSE IF r.image \in DOMAIN ImageContents THEN finds(ImageContents[r.image])
          ELSE ImageRunEnds(s, "failed")

EndImage(s) ==
    /\ imageRun[s].at = "emit image" /\ imageRun[s].found = <<>>
    /\ ImageRunEnds(s, "succeeded")

ImageStep(s) ==
    \/ StartImage(s) \/ ScanConfig(s) \/ FailImage(s) \/ EmitImage(s) \/ AllConfigEmitted(s)
    \/ TakeImage(s) \/ ScanImage(s) \/ EndImage(s)

CatalogueStep ==
    \/ \E upTo \in 0 .. Len(StaticRules) : SyncRules(upTo)
    \/ \E rule \in Catalogue, enabled \in BOOLEAN : SetRuleEnabled(rule, enabled)

SnInit ==
    /\ backend \in {"docker", "kubernetes"} /\ tip \in 1 .. Len(Branch)
    /\ codeRun = [s \in WrappedScans |-> NoCodeRun] /\ imageRun = [s \in WrappedScans |-> NoImageRun]
    /\ tasks = <<>> /\ analysisOf = [s \in WrappedScans |-> "none"] /\ current = 0 /\ known = {}
    /\ reviewed = {} /\ shifted = {}
    /\ rules = [on |-> {}, off |-> {}] /\ said = [on |-> {}, off |-> {}] /\ switches = 0
    /\ wrappedRows = [s \in WrappedScans |-> [codescan |-> {}, containerscan |-> {}]]

SnNext ==
    \/ \E s \in WrappedScans : CodeStep(s) \/ ImageStep(s)
    \/ \E how \in {"success", "failed"} : Process(how)
    \/ Push \/ ReviewHotspot \/ CatalogueStep

SnSpec == SnInit /\ [][SnNext]_SnVars

(***************************************************************************)
(* Properties                                                              *)
(***************************************************************************)

SnTypeOK ==
    /\ backend \in {"docker", "kubernetes"} /\ tip \in 1 .. Len(Branch) /\ current \in 0 .. Len(Branch)
    /\ shifted \subseteq WrappedScans /\ ToSet(tasks) \subseteq WrappedScans
    /\ \A s \in WrappedScans :
         /\ codeRun[s].at \in {"waiting", "analyse", "poll", "issues", "hotspots", "emit",
                               "succeeded", "failed", "skipped"}
         /\ imageRun[s].at \in {"waiting", "config", "emit config", "image", "scan image",
                                "emit image", "succeeded", "failed", "skipped"}
         /\ analysisOf[s] \in {"none", "success", "failed"}
         /\ wrappedRows[s].codescan # {} => codeRun[s].at \in {"succeeded", "failed"}
         /\ wrappedRows[s].containerscan # {} => imageRun[s].at \in {"succeeded", "failed"}
    /\ rules.on \cap rules.off = {} /\ switches \in 0 .. MaxSwitches

\* What a code scan that succeeds reports is what is open in the commit it had
\* analysed, all of it, however many pages that takes and whatever the project's
\* earlier analyses found: unless the project changed in SonarQube while it read.
\* That commit is the one the scan has checked out, on Docker; on Kubernetes it is
\* that or a later one. (engines/codescan, adapters/sonarqube)
ReportsWhatIsOpen ==
    \A s \in WrappedScans : codeRun[s].at = "succeeded" =>
      LET v == codeRun[s].analysed
          open == {FingerprintOfIssue(i) : i \in Branch[v].issues}
          hotspots(without) == {FingerprintOfIssue(h) : h \in Branch[v].hotspots \ without}
      IN /\ s \notin shifted =>
              /\ wrappedRows[s].codescan \subseteq open \cup hotspots({})
              /\ open \cup hotspots(reviewed) \subseteq wrappedRows[s].codescan
         /\ IF backend = "docker" THEN v = codeRun[s].commit ELSE v \in codeRun[s].commit .. tip

\* A container scan that succeeds reports what is wrong in the Dockerfiles: on
\* Docker in all of the checkout, vendored ones too; on Kubernetes in all that are
\* in no skipped directory and can be read, and in no other. And it reports what
\* is in the image: the one that was built or, without a daemon, the one the first
\* Dockerfile's last stage comes from in the end, through however many stages.
\* (engines/containerscan, adapters/trivy, adapters/k8strivyscanner)
Chased(stages) ==
    LET comesFrom[i \in 0 .. Len(stages)] ==
            IF i = 0 THEN ""
            ELSE LET named == {j \in 1 .. (i - 1) : stages[j].as # "" /\ stages[j].as = stages[i].from}
                 IN IF named = {} THEN stages[i].from ELSE comesFrom[Max(named)]
    IN comesFrom[Len(stages)]
ReportsTheImage ==
    \A s \in WrappedScans : imageRun[s].at = "succeeded" =>
      LET c == imageRun[s].commit
          d == TheDockerfile(c)
          base == Chased(d.stages)
          looked == {f \in ToSet(Branch[c].dockerfiles) : backend = "docker" \/ (f.readable /\ ~f.skipped)}
          inImage == IF backend = "docker" THEN d.inImage
                     ELSE IF d.readable /\ base \notin {"", "scratch", "$ARG"} THEN ImageContents[base] ELSE {}
      IN /\ wrappedRows[s].containerscan = UNION {f.misconfigured : f \in looked} \cup inImage
         /\ backend = "docker" => d.builds # "nowhere"

\* A scan that fails halfway keeps what it has found, and nothing else: of the
\* image no more than is in the Dockerfiles and in it, and of the project only
\* what SonarQube has ever found there. (Pool.processJob, PersistJobResult)
KeepsWhatItFound ==
    \A s \in WrappedScans :
      LET c == imageRun[s].commit
          everKnown == known \cup UNION {Branch[v].hotspots : v \in 1 .. Len(Branch)}
      IN /\ codeRun[s].at = "failed" =>
              /\ wrappedRows[s].codescan = codeRun[s].emitted
              /\ wrappedRows[s].codescan \subseteq {FingerprintOfIssue(i) : i \in everKnown}
         /\ imageRun[s].at = "failed" /\ imageRun[s].image \in {"none", "built"} =>
              wrappedRows[s].containerscan \subseteq
                Misconfigurations(c) \cup IF imageRun[s].image = "none" THEN {} ELSE TheDockerfile(c).inImage

\* A rule an operator has turned off stays off, whatever is synced at a start or
\* registered by a run meanwhile, and all others are on; and a run that has come
\* to its end finds all its rules in the catalogue, so that its findings can be
\* stored. (modules/advisory, store/repo/rule_repo.go)
RulesStayAsSaid ==
    /\ rules.off = said.off /\ said.on \subseteq rules.on
    /\ \A s \in WrappedScans :
         /\ {f[1] : f \in codeRun[s].emitted} \subseteq Catalogue
         /\ {f[1] : f \in imageRun[s].emitted} \subseteq Catalogue

\* A scan reports what is there, all that is there if it succeeds, and under
\* rules that are in the catalogue; and changes nothing an operator has said about
\* them.
ScannersReportWhatIsThere ==
    ReportsWhatIsOpen /\ ReportsTheImage /\ KeepsWhatItFound /\ RulesStayAsSaid
=============================================================================
