----------------------------- MODULE Deployment -----------------------------
(***************************************************************************)
(* The processes of a deployment, from the environment they are started    *)
(* with to their end (cmd/guardpipe/main.go, platform/config): what each   *)
(* refuses, what it opens and in which order, the migrations and the rules *)
(* it brings into the database all of them share, the loops and the HTTP   *)
(* server its role has it run, and how it stops.                           *)
(*                                                                         *)
(* One action per step of run() that may fail or that another process can  *)
(* see.  A step that fails returns, and what has been opened is closed by  *)
(* the defers, the last one first.                                         *)
(*                                                                         *)
(* Left out: the services that are put together on the way and hold        *)
(* nothing, the sweeps (module Sandboxes), what the loops do (modules      *)
(* ScanLifecycle, Schedules, LiveScan, Outbox and Billing), and that the   *)
(* pool waits, when it is closed, for the queries under way.               *)
(***************************************************************************)
EXTENDS Naturals

CONSTANTS
    Nodes,         \* replicas, of whatever role
    SettingsOf,    \* the environments each may be started with
    NoSettings,    \* what a process that is down has instead
    RuleIDs,       \* the rules the engines register
    Migrations,    \* how many migrations the binary brings
    RulesSince,    \* the one that makes the table of rules
    MaxRequests,   \* bound: requests in hand
    MaxBoots,      \* bound: starts of processes
    MaxDpFaults    \* bound: steps that fail

\* What an environment may say, as far as it matters here: pace stands for the
\* limits that have a least value, address for the well-formed mail settings.
Settings ==
    [role : {"all", "api", "worker", "other"}, migrate : BOOLEAN,
     secrets : {"good", "missing", "short"}, ai : {"off", "keyless", "on"},
     backend : {"docker", "kubernetes", "other"}, image : BOOLEAN,
     billing : {"demo", "off", "stripe"}, mail : {"off", "log", "smtp", "ses", "other"},
     address : BOOLEAN, pace : BOOLEAN]

ASSUME DeploymentAssumption ==
    /\ RuleIDs # {} /\ Migrations \in Nat /\ RulesSince \in 1 .. Migrations
    /\ {MaxRequests, MaxBoots, MaxDpFaults} \subseteq Nat
    /\ \A n \in Nodes : SettingsOf[n] \subseteq Settings

VARIABLES
    node,        \* each process: see Node
    schema,      \* how many migrations the database has seen
    catalogue,   \* the rules in its table
    boots,       \* starts so far
    dpFaults     \* steps that failed so far

DpVars == <<node, schema, catalogue, boots, dpFaults>>

\* What a process opens and closes again, and when its turn is.
Turn == [database |-> 1, redis |-> 2, docker |-> 3, workers |-> 4]
Clients == {"database", "redis", "docker"}

Starting == {"migrate", "apply", "database", "redis", "rules", "docker", "codescan",
             "containerscan", "ai", "pentest", "services", "loops"}
Loops == {"pool", "sweeper", "scheduler", "livescan", "sender", "ticker"}

\* A process: the step it is at, its settings, the migrations it saw, the rules it
\* brought, what it has open, the loops still going and whether they were told to
\* stop, its HTTP server, the requests in hand, and whether it left without
\* waiting for them any longer.
Node == [at : Starting \cup {"down", "serve", "exposed", "waiting", "stopping", "draining",
                             "closing"},
         env : Settings \cup {NoSettings}, seen : Nat, brought : SUBSET RuleIDs,
         open : SUBSET DOMAIN Turn, loops : SUBSET Loops, told : BOOLEAN,
         server : {"none", "listening", "failed", "closed"}, requests : 0 .. MaxRequests,
         hurried : BOOLEAN]

Down == [at |-> "down", env |-> NoSettings, seen |-> 0, brought |-> {}, open |-> {},
         loops |-> {}, told |-> FALSE, server |-> "none", requests |-> 0, hurried |-> FALSE]

DpTypeOK ==
    /\ node \in [Nodes -> Node]
    /\ schema \in 0 .. Migrations /\ catalogue \subseteq RuleIDs
    /\ boots \in 0 .. MaxBoots /\ dpFaults \in 0 .. MaxDpFaults

DpInit ==
    /\ node = [n \in Nodes |-> Down]
    /\ schema = 0 /\ catalogue = {} /\ boots = 0 /\ dpFaults = 0

(***************************************************************************)
(* Coming up                                                               *)
(***************************************************************************)

\* The JWT secret has its 32 bytes, the encryption key decodes to as many.
SecretsAccepted(e) == e.secrets = "good"

\* Mail that is off asks for nothing.
MailAccepted(e) == e.mail \in {"off", "log", "smtp", "ses"} /\ (e.mail = "off" \/ e.address)

\* Load finds nothing wrong; it looks at everything before it says so.
Accepted(e) ==
    /\ SecretsAccepted(e) /\ MailAccepted(e) /\ e.ai # "keyless"
    /\ e.role \in {"all", "api", "worker"} /\ e.backend \in {"docker", "kubernetes"}
    /\ e.billing \in {"demo", "off"} /\ e.pace
    /\ e.backend = "kubernetes" => e.image

Stays == UNCHANGED <<schema, catalogue, boots, dpFaults>>
Goes(n, to) == node' = [node EXCEPT ![n].at = to]
Opens(n, client, to) ==
    node' = [node EXCEPT ![n].at = to, ![n].open = @ \cup {client}]

\* A process is started; one whose settings are refused is gone at once.
Boot(n, e) ==
    /\ node[n].at = "down" /\ boots < MaxBoots
    /\ boots' = boots + 1
    /\ node' = IF Accepted(e)
               THEN [node EXCEPT ![n].at = IF e.migrate THEN "migrate" ELSE "database",
                                 ![n].env = e]
               ELSE node
    /\ UNCHANGED <<schema, catalogue, dpFaults>>

\* A step may fail: a URL does not parse, the database does not answer, there is
\* no cluster around the process, the scripts cannot be written, AWS has no
\* configuration. The language model's client has been given its keys.
MayFail(n) ==
    LET e == node[n].env
    IN  \/ node[n].at \in {"migrate", "apply", "database", "redis", "rules", "docker"}
        \/ node[n].at \in {"codescan", "containerscan"} /\ e.backend = "kubernetes"
        \/ node[n].at = "pentest" /\ e.image
        \/ node[n].at = "services" /\ e.mail = "ses"
StepFails(n) ==
    /\ MayFail(n) /\ dpFaults < MaxDpFaults
    /\ dpFaults' = dpFaults + 1
    /\ Goes(n, "closing")
    /\ UNCHANGED <<schema, catalogue, boots>>

\* goose asks for the version, and runs what comes after it in a transaction.
LookAtSchema(n) ==
    /\ node[n].at = "migrate"
    /\ node' = [node EXCEPT ![n].seen = schema,
                            ![n].at = IF schema = Migrations THEN "database" ELSE "apply"]
    /\ Stays
ApplyMigration(n) ==
    /\ node[n].at = "apply" /\ schema = node[n].seen
    /\ schema' = schema + 1
    /\ Goes(n, "migrate")
    /\ UNCHANGED <<catalogue, boots, dpFaults>>
\* Another process was faster: what is there cannot be made again, but for the
\* statement that says it may be there.
MigrationIsThere(n) ==
    /\ node[n].at = "apply" /\ schema # node[n].seen
    /\ \E to \in {"migrate", "closing"} : Goes(n, to)
    /\ Stays

\* Opening the pool, or Redis, or Docker, asks nothing of the other side.
OpenDatabase(n) == node[n].at = "database" /\ Opens(n, "database", "redis") /\ Stays
OpenRedis(n)    == node[n].at = "redis" /\ Opens(n, "redis", "rules") /\ Stays

\* SyncRules: one statement for each rule.
BringRule(n, r) ==
    /\ node[n].at = "rules" /\ r \notin node[n].brought /\ schema >= RulesSince
    /\ catalogue' = catalogue \cup {r}
    /\ node' = [node EXCEPT ![n].brought = @ \cup {r},
                            ![n].at = IF node[n].brought \cup {r} = RuleIDs
                                      THEN "docker" ELSE "rules"]
    /\ UNCHANGED <<schema, boots, dpFaults>>
NoTableOfRules(n) ==
    node[n].at = "rules" /\ schema < RulesSince /\ Goes(n, "closing") /\ Stays

OpenDocker(n) == node[n].at = "docker" /\ Opens(n, "docker", "codescan") /\ Stays

\* The scanners, the language model and the sandbox of the chosen backend.
ChooseCodeScanner(n) == node[n].at = "codescan" /\ Goes(n, "containerscan") /\ Stays
ChooseImageScanner(n) == node[n].at = "containerscan" /\ Goes(n, "ai") /\ Stays
ConnectModel(n) == node[n].at = "ai" /\ Goes(n, "pentest") /\ Stays
ChooseSandbox(n) == node[n].at = "pentest" /\ Goes(n, "services") /\ Stays
WireServices(n) == node[n].at = "services" /\ Goes(n, "loops") /\ Stays

\* The loops of the settings: none for an api, who mails only if mail is on, who
\* renews only if there is billing.
LoopsOf(e) ==
    IF e.role = "api" THEN {}
    ELSE {"pool", "sweeper", "scheduler", "livescan"}
         \cup (IF e.mail # "off" THEN {"sender"} ELSE {})
         \cup (IF e.billing # "off" THEN {"ticker"} ELSE {})
StartLoops(n) ==
    LET e == node[n].env
    IN  /\ node[n].at = "loops"
        /\ node' = [node EXCEPT ![n].loops = LoopsOf(e),
                                ![n].open = IF e.role = "api" THEN @ ELSE @ \cup {"workers"},
                                ![n].at = IF e.role = "worker" THEN "waiting" ELSE "serve"]
        /\ Stays

\* The server listens in a goroutine before run listens for signals.
Serve(n) ==
    /\ node[n].at = "serve"
    /\ node' = [node EXCEPT ![n].at = "exposed", ![n].server = "listening"]
    /\ Stays
ListenForSignals(n) == node[n].at = "exposed" /\ Goes(n, "waiting") /\ Stays

(***************************************************************************)
(* At work                                                                 *)
(***************************************************************************)

TakeRequest(n) ==
    /\ node[n].server = "listening" /\ node[n].requests < MaxRequests
    /\ node' = [node EXCEPT ![n].requests = @ + 1]
    /\ Stays
AnswerRequest(n) ==
    /\ node[n].requests > 0
    /\ node' = [node EXCEPT ![n].requests = @ - 1]
    /\ Stays

ServerFails(n) ==
    /\ node[n].server = "listening" /\ dpFaults < MaxDpFaults
    /\ node' = [node EXCEPT ![n].server = "failed"]
    /\ dpFaults' = dpFaults + 1
    /\ UNCHANGED <<schema, catalogue, boots>>

(***************************************************************************)
(* Going down                                                              *)
(***************************************************************************)

\* SIGTERM: the loops are told, nobody waits for them.
Signal(n) ==
    /\ node[n].at = "waiting"
    /\ node' = [node EXCEPT ![n].at = "stopping", ![n].told = (node[n].env.role # "api")]
    /\ Stays
\* The server's error ends the wait as well, but then nothing is shut down.
SeeServerError(n) ==
    /\ node[n].at = "waiting" /\ node[n].server = "failed"
    /\ node' = [node EXCEPT ![n].at = "closing", ![n].hurried = TRUE]
    /\ Stays

\* A worker has no server: it closes. Shutdown takes no more connections.
CloseListener(n) ==
    /\ node[n].at = "stopping"
    /\ node' = IF node[n].env.role = "worker"
               THEN [node EXCEPT ![n].at = "closing"]
               ELSE [node EXCEPT ![n].at = "draining", ![n].server = "closed"]
    /\ Stays

\* Shutdown returns when the last request has been answered, or after thirty
\* seconds.
Drained(n) ==
    node[n].at = "draining" /\ node[n].requests = 0 /\ Goes(n, "closing") /\ Stays
Deadline(n) ==
    /\ node[n].at = "draining"
    /\ node' = [node EXCEPT ![n].at = "closing", ![n].hurried = TRUE]
    /\ Stays

LoopsReturn(n) ==
    /\ node[n].told /\ node[n].loops # {}
    /\ node' = [node EXCEPT ![n].loops = {}]
    /\ Stays

\* The defers of run, the last one first; stopWorkers is one of them.
CloseLast(n) ==
    /\ node[n].at = "closing"
    /\ \E x \in node[n].open :
         /\ \A y \in node[n].open : Turn[y] <= Turn[x]
         /\ node' = [node EXCEPT ![n].open = @ \ {x}, ![n].told = @ \/ x = "workers"]
    /\ Stays
Exit(n) ==
    /\ node[n].at = "closing" /\ node[n].open = {}
    /\ node' = [node EXCEPT ![n] = Down]
    /\ Stays

\* A crash, or a signal before anything listens for it.
Die(n) ==
    /\ node[n].at # "down"
    /\ node' = [node EXCEPT ![n] = Down]
    /\ Stays

DpStep(n) ==
    \/ \E e \in SettingsOf[n] : Boot(n, e)
    \/ StepFails(n) \/ LookAtSchema(n) \/ ApplyMigration(n) \/ MigrationIsThere(n)
    \/ OpenDatabase(n) \/ OpenRedis(n)
    \/ \E r \in RuleIDs : BringRule(n, r)
    \/ NoTableOfRules(n) \/ OpenDocker(n)
    \/ ChooseCodeScanner(n) \/ ChooseImageScanner(n) \/ ConnectModel(n) \/ ChooseSandbox(n)
    \/ WireServices(n) \/ StartLoops(n) \/ Serve(n) \/ ListenForSignals(n)
    \/ TakeRequest(n) \/ AnswerRequest(n) \/ ServerFails(n)
    \/ Signal(n) \/ SeeServerError(n) \/ CloseListener(n) \/ Drained(n) \/ Deadline(n)
    \/ LoopsReturn(n) \/ CloseLast(n) \/ Exit(n) \/ Die(n)

DpNext == \E n \in Nodes : DpStep(n)

DpSpec == DpInit /\ [][DpNext]_DpVars

(***************************************************************************)
(* Properties                                                              *)
(***************************************************************************)

Works(n) == node[n].loops # {} \/ node[n].server = "listening"

\* Findings refer to the rules: whoever works has all of them in the database, and
\* every table his migrations make if he ran them.
WorksOnAWholeDatabase(n) ==
    Works(n) => /\ catalogue = RuleIDs /\ schema >= RulesSince
                /\ node[n].env.migrate => schema = Migrations

\* A loop that has not been told to stop finds what it uses open, however its
\* process ends.
LoopsHaveTheirClients(n) ==
    node[n].loops # {} /\ ~node[n].told => Clients \subseteq node[n].open

\* The database is closed under a request only after a failure of the server, or
\* after the deadline.
RequestsHaveTheirDatabase(n) ==
    node[n].requests > 0 /\ "database" \notin node[n].open => node[n].hurried

\* A process that fails to start has done nothing yet.
NothingRunsBeforeItsTime(n) ==
    node[n].at \in Starting =>
        node[n].loops = {} /\ node[n].server = "none" /\ node[n].requests = 0

\* Processes that come up together, fail on the way, are stopped and started again
\* never work with something that is not there yet, or not there any more
\* (cmd/guardpipe/main.go).
ProcessesInOrder ==
    \A n \in Nodes :
        WorksOnAWholeDatabase(n) /\ LoopsHaveTheirClients(n) /\ RequestsHaveTheirDatabase(n)
        /\ NothingRunsBeforeItsTime(n)
=============================================================================
