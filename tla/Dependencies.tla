---------------------------- MODULE Dependencies ----------------------------
(***************************************************************************)
(* The dependency engine (engines/depscan): what its five parsers make of  *)
(* a checkout, what it asks the advisory service (modules/advisory) about  *)
(* it and the service asks OSV.dev (adapters/osv), and the findings that   *)
(* come of it.  Scans run at the same time; what they share is the cache.  *)
(*                                                                         *)
(* A finding is its fingerprint: rule, normalised place, normalised        *)
(* evidence.  findings has one row for each, so a set of them is what is   *)
(* stored.  A version is a pair of an operator and a number, "" when it is *)
(* exact.                                                                  *)
(*                                                                         *)
(* Left out: the texts of findings, references, severities.                *)
(***************************************************************************)
EXTENDS Naturals, FiniteSets

CONSTANTS
    DepScans,      \* scans with a dependency job
    Checkouts,     \* what there may be to scan
    AdvisoryOf,    \* what OSV.dev comes to know, by id
    KnownAtFirst,  \* ids it knows at first
    BatchSize,     \* MaxBatchSize: queries of one call
    MaxOutages,    \* bound: calls that fail
    MaxExpiries    \* bound: answers whose TTL ends

ASSUME DependenciesAssumption ==
    /\ KnownAtFirst \subseteq DOMAIN AdvisoryOf
    /\ BatchSize \in Nat \ {0} /\ MaxOutages \in Nat /\ MaxExpiries \in Nat

VARIABLES
    depscan,   \* the state of each run
    depRows,   \* rows of findings, by scan
    answered,  \* gp:cache:osv: what the cache holds, an entry for a key
    osvKnows,  \* ids OSV.dev knows
    outages,   \* calls that have failed, by scan
    expiries

DsVars == <<depscan, depRows, answered, osvKnows, outages, expiries>>

(***************************************************************************)
(* Parsing                                                                 *)
(* (An operator whose comment says "instead" is a plausible mistake in the *)
(* operator it precedes; only the mutants use it.)                         *)
(***************************************************************************)

Exact(number) == <<"", number>>
NoRange == <<"", "">>

Dependency(m, name, version, range) ==
    [eco |-> m.eco, name |-> name, version |-> version, at |-> m.dir, range |-> range]

\* findManifestDirs: anywhere but under node_modules, vendor and the like
Manifests(c, eco) == {m \in c.manifests : m.eco = eco /\ ~m.noise}

\* directRangeOrEmpty
DeclaredRange(m, name) == IF name \in DOMAIN m.direct THEN m.direct[name] ELSE NoRange

\* What the lockfile says is installed, direct or not
Locked(m) == {Dependency(m, r.name, Exact(r.number), DeclaredRange(m, r.name)) : r \in m.locked}

\* directOnlyNPM: the range without its operator
DirectOnlyNpm(m) ==
    {Dependency(m, n, Exact(m.direct[n][2]), m.direct[n]) : n \in DOMAIN m.direct}

Declared(m) == {Dependency(m, n, m.direct[n], m.direct[n]) : n \in DOMAIN m.direct}

\* A lockfile of version 1 is passed over.
ParseNpmAt(m) ==
    [fails |-> m.text = "bad" \/ m.lock = "bad", locked |-> m.lock = "ok",
     deps |-> IF m.lock = "ok" THEN Locked(m) ELSE DirectOnlyNpm(m)]

\* php itself is not among what is declared.
ParseComposerAt(m) ==
    [fails |-> m.text = "bad" \/ m.lock = "bad", locked |-> m.lock = "ok",
     deps |-> IF m.lock = "ok" THEN Locked(m)
              ELSE {d \in Declared(m) : d.name # "php"}]

\* go.sum has each version that was looked at, go.mod only exact ones.
ParseGoAt(m) ==
    [fails |-> m.text = "bad" \/ m.lock = "bad", locked |-> m.lock = "ok",
     deps |-> IF m.lock = "ok" THEN Locked(m) ELSE Declared(m)]

\* A pom.xml counts as its own lockfile.
ParseMavenAt(m) == [fails |-> m.text = "bad", locked |-> TRUE, deps |-> Declared(m)]

\* A line without an operator does not match; requirements.txt counts as its own
\* lockfile.
ParsePypiAt(m) ==
    [fails |-> m.text = "bad", locked |-> TRUE,
     deps |-> {d \in DirectOnlyNpm(m) : d.range[1] # ""}]

ParseAt(m) ==
    CASE m.eco = "npm" -> ParseNpmAt(m)
      [] m.eco = "composer" -> ParseComposerAt(m)
      [] m.eco = "go" -> ParseGoAt(m)
      [] m.eco = "maven" -> ParseMavenAt(m)
      [] m.eco = "pypi" -> ParsePypiAt(m)

Parsers == {"npm", "pypi", "go", "maven", "composer"}
AllManifests(c) == UNION {Manifests(c, eco) : eco \in Parsers}
\* A directory that cannot be walked ends the search, for Applicable with nothing.
Applicable(c) == c.walkable /\ AllManifests(c) # {}
ParsingFails(c) == \E m \in AllManifests(c) : ParseAt(m).fails
Inventory(c) == UNION {ParseAt(m).deps : m \in AllManifests(c)}

(***************************************************************************)
(* Findings                                                                *)
(***************************************************************************)

NoLockfile(m) == <<"no-lockfile", m.eco, m.dir>>
WildcardVersion(d) == <<"wildcard-version", d.eco, d.name, d.at, d.range>>
IsWildcard(range) == range \in {<<"", v>> : v \in {"*", "latest", "x", "X"}}

HygieneFindings(c) ==
    {NoLockfile(m) : m \in {m \in AllManifests(c) : ~ParseAt(m).locked}} \cup
    {WildcardVersion(d) : d \in {d \in Inventory(c) : IsWildcard(d.range)}}

KnownCve(d, id) == <<"known-cve", d.eco, d.name, id>>
NoFix(d, id) == <<"no-fix-available", d.eco, d.name, id>>

\* translateVulnerability: a fix of any package the advisory is about counts.
HasFix(id) == AdvisoryOf[id].fixedIn # {}

FindingsAbout(d, ids) ==
    {KnownCve(d, id) : id \in ids} \cup {NoFix(d, id) : id \in {id \in ids : ~HasFix(id)}}

\* normalizeEvidence: a quoted string is any quoted string.
NormalEvidence(l) == IF l.quoted THEN <<l.name>> ELSE <<l.name, l.value>>

SecretFinding(f, l) == <<"committed-credential", f.path, NormalEvidence(l)>>

\* scanFileForSecrets: nothing of a binary, and nothing of a file that cannot be
\* read to its end; a placeholder only where the name gives the secret away.
SecretLines(f) ==
    IF f.readable /\ ~f.binary THEN {l \in f.lines : ~(l.byName /\ l.placeholder)} ELSE {}

SweptFiles(c) == {f \in c.files : ~f.noise}

SweepFindings(c) ==
    UNION {{SecretFinding(f, l) : l \in SecretLines(f)} : f \in SweptFiles(c)} \cup
    {<<"env-file-committed", f.path>> : f \in {f \in SweptFiles(c) : f.kind = "env"}} \cup
    {<<"key-file-committed", f.path>> : f \in {f \in SweptFiles(c) : f.kind = "key"}}

(***************************************************************************)
(* The advisory service                                                    *)
(***************************************************************************)

Key(d) == <<d.eco, d.name, d.version>>

\* ecosystemName: names are case-sensitive
EcosystemName(eco) ==
    CASE eco = "npm" -> "npm" [] eco = "pypi" -> "PyPI" [] eco = "go" -> "Go"
      [] eco = "maven" -> "Maven" [] eco = "composer" -> "Packagist" [] OTHER -> eco

OsvEcosystems == {"npm", "PyPI", "Go", "Maven", "Packagist"}

\* What OSV.dev answers to one query of a batch (external)
Affecting(key, ids) ==
    {id \in ids : /\ AdvisoryOf[id].eco = key[1] /\ AdvisoryOf[id].name = key[2]
                  /\ key[3][1] = "" /\ key[3][2] \in AdvisoryOf[id].numbers}

NotAnswered == [ids |-> {}, known |-> {}, ok |-> FALSE]
Whole(ids, known) == [ids |-> ids, known |-> known, ok |-> TRUE]

Entries(d) == {e \in answered : e.key = Key(d)}

NoRun == [at |-> "waiting", checkout |-> "none", toAsk |-> {}, chunk |-> {}, known |-> {},
          details |-> {}, answers |-> <<>>]

DsInit ==
    /\ depscan = [s \in DepScans |-> NoRun]
    /\ depRows = [s \in DepScans |-> {}]
    /\ answered = {} /\ osvKnows = KnownAtFirst
    /\ outages = [s \in DepScans |-> 0] /\ expiries = 0

Emit(s, new) == depRows' = [depRows EXCEPT ![s] = @ \cup new]

\* All manifests are parsed before anything is emitted.
TakeInventory(s, c) ==
    /\ depscan[s].at = "waiting"
    /\ depscan' = [depscan EXCEPT
                      ![s].checkout = c,
                      ![s].toAsk = IF ParsingFails(c) \/ ~Applicable(c) THEN {} ELSE Inventory(c),
                      ![s].at = CASE ~Applicable(c) -> "skipped"
                                  [] ParsingFails(c) -> "failed"
                                  [] OTHER -> "reading"]
    /\ Emit(s, IF ParsingFails(c) \/ ~Applicable(c) THEN {} ELSE HygieneFindings(c))
    /\ UNCHANGED <<answered, osvKnows, outages, expiries>>

\* The job's context has ended before anything was looked up; what was emitted is
\* kept.
StopDependencies(s) ==
    /\ depscan[s].at = "reading"
    /\ depscan' = [depscan EXCEPT ![s].at = "failed", ![s].toAsk = {}]
    /\ UNCHANGED <<depRows, answered, osvKnows, outages, expiries>>

\* Lookup asks the cache about each dependency first; an error is a miss.
ReadCache(s, hits) ==
    /\ depscan[s].at = "reading"
    /\ \A d \in hits : Entries(d) # {}
    /\ depscan' = [depscan EXCEPT
                      ![s].at = "asking",
                      ![s].toAsk = @ \ hits,
                      ![s].answers = [d \in hits |->
                          LET e == CHOOSE e \in Entries(d) : TRUE IN Whole(e.ids, e.known)]]
    /\ UNCHANGED <<depRows, answered, osvKnows, outages, expiries>>

Chunks(s) ==
    {C \in SUBSET depscan[s].toAsk :
        Cardinality(C) = IF Cardinality(depscan[s].toAsk) < BatchSize
                         THEN Cardinality(depscan[s].toAsk) ELSE BatchSize}

Unanswered(s, D) == [d \in D \cup DOMAIN depscan[s].answers |->
                        IF d \in D THEN NotAnswered ELSE depscan[s].answers[d]]

\* QueryBatch: one name OSV.dev does not know and the batch is refused.
AskBatch(s, C) ==
    LET accepted == \A d \in C : EcosystemName(d.eco) \in OsvEcosystems
    IN /\ depscan[s].at = "asking" /\ C # {}
       /\ depscan' = [depscan EXCEPT
             ![s].toAsk = @ \ C,
             ![s].known = osvKnows,
             ![s].chunk = IF accepted THEN C ELSE {},
             ![s].at = IF accepted THEN "resolving" ELSE "asking",
             ![s].answers = IF accepted THEN @ ELSE Unanswered(s, C)]
       /\ UNCHANGED <<depRows, answered, osvKnows, outages, expiries>>

\* An outage, a rate limit, or the job's context has ended: the rest goes on.
BatchFails(s, C) ==
    /\ depscan[s].at = "asking" /\ C # {}
    /\ outages[s] < MaxOutages /\ outages' = [outages EXCEPT ![s] = @ + 1]
    /\ depscan' = [depscan EXCEPT ![s].toAsk = @ \ C, ![s].answers = Unanswered(s, C)]
    /\ UNCHANGED <<depRows, answered, osvKnows, expiries>>

\* Instead: what has been fetched is cached although a detail is missing.
IsCachedAnyway(fetched, ids) == TRUE
\* Only a whole answer is cached.
IsCached(fetched, ids) == ids \subseteq fetched

\* One dependency of the chunk: the details that no other has fetched, up to the
\* first that fails; a whole answer is cached unless the write fails.
Resolve(s, d, fetched, written) ==
    LET r == depscan[s]
        ids == Affecting(Key(d), r.known)
        details == r.details \cup fetched
        whole == ids \subseteq details
    IN /\ r.at = "resolving" /\ d \in r.chunk
       /\ fetched \subseteq ids \ r.details
       /\ ~whole => outages[s] < MaxOutages
       /\ outages' = [outages EXCEPT ![s] = IF whole THEN @ ELSE @ + 1]
       /\ depscan' = [depscan EXCEPT
             ![s].chunk = @ \ {d},
             ![s].at = IF r.chunk = {d} THEN "asking" ELSE @,
             ![s].details = details,
             ![s].answers = [k \in {d} \cup DOMAIN @ |->
                 IF k # d THEN @[k]
                 ELSE IF whole THEN Whole(ids, r.known) ELSE NotAnswered]]
       /\ answered' = IF written /\ IsCached(details, ids)
                      THEN {e \in answered : e.key # Key(d)} \cup
                           {[key |-> Key(d), ids |-> ids \cap details, known |-> r.known]}
                      ELSE answered
       /\ UNCHANGED <<depRows, osvKnows, expiries>>

\* emitAdvisoryFindings, once every dependency has its answer
EmitAdvisories(s) ==
    /\ depscan[s].at = "asking" /\ depscan[s].toAsk = {}
    /\ Emit(s, UNION {FindingsAbout(d, depscan[s].answers[d].ids) : d \in DOMAIN depscan[s].answers})
    /\ depscan' = [depscan EXCEPT ![s].at = "sweeping", ![s].known = {}, ![s].details = {}]
    /\ UNCHANGED <<answered, osvKnows, outages, expiries>>

\* The sweep; the worker stores what was emitted.
SweepSecrets(s) ==
    /\ depscan[s].at = "sweeping"
    /\ Emit(s, SweepFindings(depscan[s].checkout))
    /\ depscan' = [depscan EXCEPT ![s].at = "succeeded"]
    /\ UNCHANGED <<answered, osvKnows, outages, expiries>>

\* OSV.dev learns of a vulnerability (external).
Publish(id) ==
    /\ id \notin osvKnows /\ osvKnows' = osvKnows \cup {id}
    /\ UNCHANGED <<depscan, depRows, answered, outages, expiries>>

\* The TTL of an answer ends.
Expire(e) ==
    /\ expiries < MaxExpiries /\ expiries' = expiries + 1
    /\ answered' = answered \ {e}
    /\ UNCHANGED <<depscan, depRows, osvKnows, outages>>

DsStep(s) ==
    \/ \E c \in Checkouts : TakeInventory(s, c)
    \/ StopDependencies(s)
    \/ \E H \in SUBSET depscan[s].toAsk : ReadCache(s, H)
    \/ \E C \in Chunks(s) : AskBatch(s, C) \/ BatchFails(s, C)
    \/ \E d \in depscan[s].chunk, F \in SUBSET osvKnows, w \in BOOLEAN : Resolve(s, d, F, w)
    \/ EmitAdvisories(s)
    \/ SweepSecrets(s)

DsNext ==
    \/ \E s \in DepScans : DsStep(s)
    \/ \E id \in DOMAIN AdvisoryOf : Publish(id)
    \/ \E e \in answered : Expire(e)

DsSpec == DsInit /\ [][DsNext]_DsVars

(***************************************************************************)
(* Properties                                                              *)
(***************************************************************************)

DsTypeOK ==
    /\ \A s \in DepScans :
         /\ depscan[s].at \in {"waiting", "reading", "asking", "resolving", "sweeping",
                              "succeeded", "failed", "skipped"}
         /\ depscan[s].chunk # {} <=> depscan[s].at = "resolving"
         /\ depscan[s].known \subseteq osvKnows /\ outages[s] \in 0 .. MaxOutages
    /\ osvKnows \subseteq DOMAIN AdvisoryOf /\ expiries \in 0 .. MaxExpiries
    /\ \A e, g \in answered : e.key = g.key => e = g

\* What a manifest has installed, by its lockfile or else by its ranges
Installs(m) ==
    IF m.lock # "none" THEN m.locked
    ELSE {[name |-> n, number |-> m.direct[n][2]] : n \in DOMAIN m.direct}

\* What the parsers cannot see: a package that only an old package-lock.json has,
\* a requirement that names no version, a range of composer or maven without a
\* lockfile, which is looked up as it is written.
Overlooked(m, p) ==
    \/ m.eco = "npm" /\ m.lock = "old" /\ p.name \notin DOMAIN m.direct
    \/ m.eco = "pypi" /\ m.direct[p.name][1] = ""
    \/ m.eco \in {"composer", "maven"} /\ m.lock = "none" /\ m.direct[p.name][1] # ""

\* A run that lost an answer: nothing in its result says which.
LostAnswer(s, name) ==
    outages[s] > 0 /\ \E d \in DOMAIN depscan[s].answers :
        d.name = name /\ depscan[s].answers[d] = NotAnswered

\* What OSV.dev has always known about a package a checkout has installed is
\* reported by every run that succeeds, in one row for all manifests and versions,
\* with a second row when no fix is known for any package, whatever other runs left in the
\* cache: an answer in it is all of what OSV.dev knew. A credential in a file
\* that can be read is reported too. The runs that lost an answer and the packages the
\* parsers overlook are the exceptions, and they go unmentioned.
AdvisoriesReported ==
    /\ \A e \in answered : e.ids = Affecting(e.key, e.known)
    /\ \A s \in DepScans : depscan[s].at = "succeeded" =>
         /\ \A m \in AllManifests(depscan[s].checkout) : \A p \in Installs(m) :
              \/ Overlooked(m, p) \/ LostAnswer(s, p.name)
              \/ \A id \in Affecting(<<m.eco, p.name, Exact(p.number)>>, KnownAtFirst) :
                   /\ <<"known-cve", m.eco, p.name, id>> \in depRows[s]
                   /\ AdvisoryOf[id].fixedIn = {} =>
                        <<"no-fix-available", m.eco, p.name, id>> \in depRows[s]
         /\ \A f \in depscan[s].checkout.files : \A l \in f.lines :
              f.noise \/ ~f.readable \/ f.binary \/ l.placeholder
                \/ \E r \in depRows[s] : r[1] = "committed-credential" /\ r[2] = f.path
=============================================================================
