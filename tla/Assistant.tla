----------------------------- MODULE Assistant -----------------------------
(***************************************************************************)
(* What one process asks of the language model: the commands of the        *)
(* finding assistant, which are paid for (assist/assist.go), and the       *)
(* passes of engines and reports, which are not.  All go through the AI    *)
(* service with its cache and its one repair (ai/service.go, ai/cache.go)  *)
(* and a client that rotates through a pool of API keys                    *)
(* (adapters/gemini/client.go, rotation.go).                               *)
(*                                                                         *)
(* One action is one access to what requests share: the account, the       *)
(* cache, the index of the pool, each under a lock of its own; and the     *)
(* model's answer.  A question stands for a prompt with its inputs, so     *)
(* for a key of the cache and for a command on a finding.                  *)
(***************************************************************************)
EXTENDS Naturals, FiniteSets

CONSTANTS
    AsRequests,   \* what runs at a time: requests, engines, reports
    Commands,     \* questions of the assistant, one organisation's
    Passes,       \* questions of an engine or a report
    PoolSize,     \* API keys
    Price,        \* of a command
    MaxBalance    \* bound: tokens the organisation has at first

ASSUME AssistantAssumption ==
    /\ PoolSize \in Nat \ {0} /\ Price \in Nat \ {0} /\ MaxBalance \in Nat
    /\ Commands \cap Passes = {}

Questions == Commands \cup Passes
Keys == 1 .. PoolSize

VARIABLES
    ask,        \* what each request is at
    current,    \* KeyPool.current
    spent,      \* keys that are out of quota, as Gemini sees it
    cached,     \* MemoryCache.entries
    tokens,     \* the organisation's balance
    paid,       \* commands with an entry in the ledger
    charged,    \* the tokens taken for commands
    usable,     \* questions the model gave a usable answer to
    delivered   \* commands that were answered

AsVars == <<ask, current, spent, cached, tokens, paid, charged, usable, delivered>>

NoAsk == [at |-> "none"]

\* tries counts the loop in Complete; tried are the keys it used and overtaken
\* says that another request moved the pool on meanwhile.
NewAsk(q, quoted) ==
    [at |-> "cache", question |-> q, quoted |-> quoted, repaired |-> FALSE,
     tries |-> 0, tried |-> {}, overtaken |-> FALSE, key |-> 1]

Asks ==
    [at : {"cache", "key", "sent", "rotate", "exhausted", "charge", "reply"},
     question : Questions, quoted : BOOLEAN, repaired : BOOLEAN, tries : 0 .. PoolSize,
     tried : SUBSET Keys, overtaken : BOOLEAN, key : Keys]

AsTypeOK ==
    /\ ask \in [AsRequests -> {NoAsk} \cup Asks]
    /\ current \in Keys /\ spent \subseteq Keys
    /\ cached \subseteq Questions /\ usable \subseteq Questions
    /\ tokens \in 0 .. MaxBalance /\ charged \in Nat
    /\ paid \subseteq Commands /\ delivered \subseteq Commands

AsInit ==
    /\ ask = [r \in AsRequests |-> NoAsk]
    /\ current = 1 /\ spent = {} /\ cached = {}
    /\ tokens = MaxBalance /\ paid = {} /\ charged = 0
    /\ usable = {} /\ delivered = {}

(***************************************************************************)
(* A command, or a pass, up to the client                                  *)
(* (An operator whose comment says "instead" is a plausible mistake in the *)
(* operator it precedes; only the mutants use it.)                         *)
(***************************************************************************)

\* AIQuote: who could not pay is refused before the model is asked.
Quote(r, q) ==
    /\ ask[r] = NoAsk /\ q \in Commands
    /\ q \in paid \/ tokens >= Price
    /\ ask' = [ask EXCEPT ![r] = NewAsk(q, q \in paid)]
    /\ UNCHANGED <<current, spent, cached, tokens, paid, charged, usable, delivered>>

\* reviewOneDocument, reviewOneWorkflow, attachExecutiveSummary
StartPass(r, q) ==
    /\ ask[r] = NoAsk /\ q \in Passes
    /\ ask' = [ask EXCEPT ![r] = NewAsk(q, TRUE)]
    /\ UNCHANGED <<current, spent, cached, tokens, paid, charged, usable, delivered>>

LookUp(r) ==
    /\ ask[r].at = "cache"
    /\ ask' = [ask EXCEPT ![r].at = IF ask[r].question \in cached THEN "charge" ELSE "key"]
    /\ UNCHANGED <<current, spent, cached, tokens, paid, charged, usable, delivered>>

(***************************************************************************)
(* Complete                                                                *)
(***************************************************************************)

TakeKey(r) ==
    /\ ask[r].at = "key"
    /\ ask' = [ask EXCEPT ![r] = [@ EXCEPT !.at = "sent", !.key = current]]
    /\ UNCHANGED <<current, spent, cached, tokens, paid, charged, usable, delivered>>

\* 429 or RESOURCE_EXHAUSTED
QuotaRefusal(r) ==
    /\ ask[r].at = "sent" /\ ask[r].key \in spent
    /\ ask' = [ask EXCEPT ![r] = [@ EXCEPT !.at = "rotate", !.tried = ask[r].tried \cup {ask[r].key}]]
    /\ UNCHANGED <<current, spent, cached, tokens, paid, charged, usable, delivered>>

InComplete(r) == ask[r].at \in {"key", "sent", "rotate"}

Advance(k) == (k % PoolSize) + 1

\* The pool moves on from wherever it is, which need not be the key that this
\* request was refused.
Rotate(r) ==
    LET tries == ask[r].tries + 1 IN
    /\ ask[r].at = "rotate"
    /\ current' = Advance(current)
    /\ ask' = [q \in AsRequests |->
                 IF q = r
                 THEN [ask[r] EXCEPT !.tries = tries,
                                     !.at = IF tries < PoolSize THEN "key" ELSE "exhausted"]
                 ELSE IF InComplete(q) THEN [ask[q] EXCEPT !.overtaken = TRUE]
                 ELSE ask[q]]
    /\ UNCHANGED <<spent, cached, tokens, paid, charged, usable, delivered>>

\* An answer that does not fit the schema is asked for again, once.
Repair(r) ==
    /\ ask[r].at = "sent" /\ ask[r].key \notin spent /\ ~ask[r].repaired
    /\ ask' = [ask EXCEPT ![r] = [NewAsk(@.question, @.quoted) EXCEPT
                                    !.at = "key", !.repaired = TRUE]]
    /\ UNCHANGED <<current, spent, cached, tokens, paid, charged, usable, delivered>>

Answer(r) ==
    /\ ask[r].at = "sent" /\ ask[r].key \notin spent
    /\ cached' = cached \cup {ask[r].question}
    /\ usable' = usable \cup {ask[r].question}
    /\ ask' = [ask EXCEPT ![r].at = "charge"]
    /\ UNCHANGED <<current, spent, tokens, paid, charged, delivered>>

\* A second bad answer, one that looks manipulated, any other error of the
\* model's, "every configured API key is rate-limited"; or the caller has gone.
GiveUp(r) ==
    /\ ask[r] # NoAsk
    /\ ask' = [ask EXCEPT ![r] = NoAsk]
    /\ UNCHANGED <<current, spent, cached, tokens, paid, charged, usable, delivered>>

(***************************************************************************)
(* Payment                                                                 *)
(***************************************************************************)

\* Instead: what the quote said is believed.
OwedAsQuoted(r) == ask[r].question \in Commands /\ ~ask[r].quoted
\* Run charges what was not paid for when it asked, and ChargeAI looks again.
Owed(r) == /\ ask[r].question \in Commands /\ ~ask[r].quoted
           /\ ask[r].question \notin paid

\* ChargeAI, all or nothing. Who cannot pay any more gets no answer.
ChargeCommand(r) ==
    /\ ask[r].at = "charge" /\ Owed(r)
    /\ \/ /\ tokens >= Price
          /\ tokens' = tokens - Price /\ charged' = charged + Price
          /\ paid' = paid \cup {ask[r].question}
          /\ ask' = [ask EXCEPT ![r].at = "reply"]
       \/ /\ tokens < Price
          /\ ask' = [ask EXCEPT ![r] = NoAsk]
          /\ UNCHANGED <<tokens, charged, paid>>
    /\ UNCHANGED <<current, spent, cached, usable, delivered>>

OwesNothing(r) ==
    /\ ask[r].at = "charge" /\ ~Owed(r)
    /\ ask' = [ask EXCEPT ![r].at = "reply"]
    /\ UNCHANGED <<current, spent, cached, tokens, paid, charged, usable, delivered>>

Reply(r) ==
    /\ ask[r].at = "reply"
    /\ delivered' = delivered \cup ({ask[r].question} \cap Commands)
    /\ ask' = [ask EXCEPT ![r] = NoAsk]
    /\ UNCHANGED <<current, spent, cached, tokens, paid, charged, usable>>

(***************************************************************************)
(* What happens around                                                     *)
(***************************************************************************)

QuotaChanges(k) ==
    /\ spent' = IF k \in spent THEN spent \ {k} ELSE spent \cup {k}
    /\ UNCHANGED <<ask, current, cached, tokens, paid, charged, usable, delivered>>

\* Get deletes an entry past its time.
CacheExpires(q) ==
    /\ q \in cached /\ cached' = cached \ {q}
    /\ UNCHANGED <<ask, current, spent, tokens, paid, charged, usable, delivered>>

\* A scan of the organisation's is charged.
SpendElsewhere ==
    /\ tokens > 0 /\ tokens' = tokens - 1
    /\ UNCHANGED <<ask, current, spent, cached, paid, charged, usable, delivered>>

\* Pool, cache and requests are the process's.
Restart ==
    /\ ask' = [r \in AsRequests |-> NoAsk] /\ current' = 1 /\ cached' = {}
    /\ UNCHANGED <<spent, tokens, paid, charged, usable, delivered>>

AsRequestStep(r) ==
    \/ LookUp(r) \/ TakeKey(r) \/ QuotaRefusal(r) \/ Rotate(r) \/ Repair(r) \/ Answer(r)
    \/ GiveUp(r) \/ ChargeCommand(r) \/ OwesNothing(r) \/ Reply(r)

AsNext ==
    \/ \E r \in AsRequests, q \in Questions : Quote(r, q) \/ StartPass(r, q)
    \/ \E r \in AsRequests : AsRequestStep(r)
    \/ \E k \in Keys : QuotaChanges(k)
    \/ \E q \in Questions : CacheExpires(q)
    \/ SpendElsewhere \/ Restart

AsSpec == AsInit /\ [][AsNext]_AsVars

(***************************************************************************)
(* Properties                                                              *)
(***************************************************************************)

\* Whoever is told that every key is out of quota was refused with each of them
\* ("continuing until either a key succeeds or the whole pool has been tried",
\* client.go), unless another request moved the pool on in between: two that are
\* refused the same key skip one between them.
WholePoolTried ==
    \A r \in AsRequests :
        ask[r].at = "exhausted" => ask[r].tried = Keys \/ ask[r].overtaken

\* A command is paid for once however many asked it at a time, only after the
\* model had given a usable answer, and nobody has an answer that was not paid
\* for, though answers wait in the cache and the balance may have gone meanwhile.
AnswersArePaidFor ==
    /\ charged = Price * Cardinality(paid)
    /\ delivered \subseteq paid /\ paid \subseteq usable

\* The model is asked with every key there is, and what it says is paid for.
AskedAndPaidFor == WholePoolTried /\ AnswersArePaidFor
=============================================================================
