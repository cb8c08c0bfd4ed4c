-------------------------- MODULE Requests_proofs --------------------------
(***************************************************************************)
(* Proofs about what is asked of the server from outside: the finding      *)
(* assistant (Assistant), for any number of API keys and requests, any     *)
(* price and any commands and passes, and live scanning (LiveScan), for    *)
(* any number of workers, pushes and pull requests, any limits and any     *)
(* balance.                                                                *)
(***************************************************************************)
EXTENDS Assistant, LiveScan, FiniteSetTheorems, TLAPS

-----------------------------------------------------------------------------
(***************************************************************************)
(* The finding assistant.                                                  *)
(*                                                                         *)
(* The keys a request has tried are those just behind the pool's index for *)
(* as long as nobody else has moved it (PoolOK): after as many rotations   *)
(* as there are keys that is all of them.  What is owed for a command is   *)
(* settled between the answer and the reply (PaidOK), however many         *)
(* requests are at the same command.                                       *)
(***************************************************************************)

Stages == {"cache", "key", "sent", "rotate", "exhausted", "charge", "reply"}

\* How many rotations lead from key k to key c: a whole turn from c to itself
Turns(k, c) == IF k < c THEN c - k ELSE c - k + PoolSize

\* The n keys behind the pool's index
Behind(n) == {k \in Keys : Turns(k, current) <= n}

PoolOK(r) ==
    /\ ask[r].at = "cache" => ask[r].tries = 0 /\ ask[r].tried = {} /\ ~ask[r].overtaken
    /\ ask[r].at \in {"key", "sent", "rotate"} => ask[r].tries < PoolSize
    /\ ask[r].at \in {"key", "sent"} /\ ~ask[r].overtaken => ask[r].tried = Behind(ask[r].tries)
    /\ ask[r].at \in {"sent", "rotate"} /\ ~ask[r].overtaken => ask[r].key = current
    /\ ask[r].at = "rotate" /\ ~ask[r].overtaken
          => ask[r].tried = Behind(ask[r].tries) \cup {current}
    /\ ask[r].at = "exhausted" /\ ~ask[r].overtaken => ask[r].tried = Keys

PaidOK(r) ==
    ask[r] # NoAsk =>
       /\ ask[r].at = "charge" => ask[r].question \in usable
       /\ ask[r].question \in Commands /\ (ask[r].at = "reply" \/ ask[r].quoted)
             => ask[r].question \in paid

BooksOK ==
    /\ IsFiniteSet(paid) /\ charged = Price * Cardinality(paid)
    /\ delivered \subseteq paid /\ paid \subseteq usable /\ cached \subseteq usable

AsInv == AsTypeOK /\ BooksOK /\ \A r \in AsRequests : PoolOK(r) /\ PaidOK(r)

-----------------------------------------------------------------------------
(***************************************************************************)
(* The pool                                                                *)
(***************************************************************************)

(* The index moves on by one, and from the last key to the first.              *)
LEMMA AdvanceIs ==
  ASSUME NEW k \in Keys
  PROVE  Advance(k) = IF k = PoolSize THEN 1 ELSE k + 1
BY AssistantAssumption DEF Advance, Keys

(* The key the pool moves on from is one turn behind, and every other one more
   than it was.                                                                *)
LEMMA TurnsAdvance ==
  ASSUME NEW c \in Keys, NEW k \in Keys
  PROVE  /\ Turns(k, c) \in 1 .. PoolSize
         /\ Turns(k, Advance(c)) = IF k = c THEN 1 ELSE Turns(k, c) + 1
BY AssistantAssumption, AdvanceIs DEF Turns, Keys

(* Nothing is behind before the first rotation, everything after a whole round,
   and one rotation adds the key the index stood on.                           *)
LEMMA BehindGrows ==
  ASSUME current \in Keys
  PROVE  /\ Behind(0) = {} /\ Behind(PoolSize) = Keys
         /\ \A n \in Nat : current' = Advance(current) => Behind(n + 1)' = Behind(n) \cup {current}
<1>1. \A k \in Keys : Turns(k, current) \in 1 .. PoolSize
  BY TurnsAdvance
<1>2. ASSUME NEW n \in Nat, current' = Advance(current)
      PROVE  Behind(n + 1)' = Behind(n) \cup {current}
  <2>1. Behind(n + 1)' = {k \in Keys : Turns(k, Advance(current)) <= n + 1}
    BY <1>2 DEF Behind, Turns
  <2>2. \A k \in Keys : Turns(k, Advance(current)) <= n + 1 <=> k = current \/ Turns(k, current) <= n
    BY TurnsAdvance
  <2> QED BY <2>1, <2>2 DEF Behind
<1> QED BY <1>1, <1>2, AssistantAssumption DEF Behind

-----------------------------------------------------------------------------
(***************************************************************************)
(* Type correctness                                                        *)
(***************************************************************************)

(* A request is at its beginning what a request may be.                         *)
LEMMA NewAskIs ==
  ASSUME NEW q \in Questions, NEW quoted \in BOOLEAN
  PROVE  NewAsk(q, quoted) \in Asks
BY AssistantAssumption DEF NewAsk, Asks, Keys

(* And stays it in every step.                                                 *)
LEMMA AsksStay ==
  ASSUME NEW a \in Asks
  PROVE  /\ \A at \in Stages : [a EXCEPT !.at = at] \in Asks
         /\ \A k \in Keys : [a EXCEPT !.at = "sent", !.key = k] \in Asks
         /\ [a EXCEPT !.at = "rotate", !.tried = a.tried \cup {a.key}] \in Asks
         /\ \A n \in 0 .. PoolSize, at \in Stages : [a EXCEPT !.tries = n, !.at = at] \in Asks
         /\ [a EXCEPT !.overtaken = TRUE] \in Asks
         /\ [a EXCEPT !.at = "key", !.repaired = TRUE] \in Asks
BY DEF Asks, Stages

(* Every variable keeps its type.                                             *)
LEMMA AsTypesNext ==
  ASSUME AsInv, AsNext
  PROVE  AsTypeOK'
<1> USE AssistantAssumption DEF AsInv, AsTypeOK, NoAsk
<1>1. ASSUME NEW r \in AsRequests, NEW q \in Questions, Quote(r, q) \/ StartPass(r, q)
      PROVE  AsTypeOK'
  <2>1. (q \in paid) \in BOOLEAN /\ TRUE \in BOOLEAN
    OBVIOUS
  <2> QED BY <1>1, <2>1, NewAskIs DEF Quote, StartPass
<1>2. ASSUME NEW r \in AsRequests, AsRequestStep(r) PROVE AsTypeOK'
  <2>0. ask[r] # NoAsk => ask[r] \in Asks
    OBVIOUS
  <2>a. ASSUME NEW at \in Stages, ask[r] # NoAsk, ask' = [ask EXCEPT ![r].at = at]
        PROVE  ask' \in [AsRequests -> {NoAsk} \cup Asks]
    <3>1. [ask[r] EXCEPT !.at = at] \in Asks
      BY <2>0, <2>a, AsksStay
    <3> QED BY <2>a, <3>1
  <2>1. CASE LookUp(r)
    <3>1. ask[r] # NoAsk /\ \E at \in Stages : ask' = [ask EXCEPT ![r].at = at]
      <4>1. ask[r] # NoAsk
        BY <2>1 DEF LookUp
      <4>2. ask' = [ask EXCEPT ![r].at = IF ask[r].question \in cached THEN "charge" ELSE "key"]
        BY <2>1 DEF LookUp
      <4>3. (IF ask[r].question \in cached THEN "charge" ELSE "key") \in Stages
        BY DEF Stages
      <4> QED BY <4>1, <4>2, <4>3
    <3> QED BY <2>1, <2>a, <3>1 DEF LookUp
  <2>2. CASE TakeKey(r)
    <3>1. [ask[r] EXCEPT !.at = "sent", !.key = current] \in Asks
      <4>1. ask[r] \in Asks /\ current \in Keys
        BY <2>0, <2>2 DEF TakeKey
      <4> QED BY ONLY <4>1, AsksStay
    <3> QED BY <2>2, <3>1 DEF TakeKey
  <2>3. CASE QuotaRefusal(r)
    <3>1. [ask[r] EXCEPT !.at = "rotate", !.tried = ask[r].tried \cup {ask[r].key}] \in Asks
      <4>1. ask[r] \in Asks
        BY <2>0, <2>3 DEF QuotaRefusal
      <4> QED BY ONLY <4>1, AsksStay
    <3> QED BY <2>3, <3>1 DEF QuotaRefusal
  <2>4. CASE Rotate(r)
    <3>1. Advance(current) \in Keys
      BY AdvanceIs DEF Keys
    <3>2. PICK n \in 0 .. PoolSize : n = ask[r].tries + 1
      BY <2>0, <2>4 DEF Rotate, PoolOK, Asks
    <3>3. PICK at \in Stages : at = IF n < PoolSize THEN "key" ELSE "exhausted"
      BY DEF Stages
    <3>4. [ask[r] EXCEPT !.tries = n, !.at = at] \in Asks
      <4>1. ask[r] \in Asks
        BY <2>0, <2>4 DEF Rotate
      <4> QED BY ONLY <4>1, AsksStay, n \in 0 .. PoolSize, at \in Stages
    <3>5. \A q \in AsRequests : InComplete(q) => [ask[q] EXCEPT !.overtaken = TRUE] \in Asks
      <4>1. ASSUME NEW q \in AsRequests, InComplete(q) PROVE ask[q] \in Asks
        BY <4>1 DEF InComplete
      <4>2. ASSUME NEW a \in Asks PROVE [a EXCEPT !.overtaken = TRUE] \in Asks
        BY AsksStay
      <4> QED BY <4>1, <4>2
    <3> QED BY <2>4, <3>1, <3>2, <3>3, <3>4, <3>5 DEF Rotate
  <2>5. CASE Repair(r)
    <3>1. ask[r].question \in Questions /\ ask[r].quoted \in BOOLEAN
      BY <2>0, <2>5 DEF Repair, Asks
    <3>2. [NewAsk(ask[r].question, ask[r].quoted) EXCEPT !.at = "key", !.repaired = TRUE] \in Asks
      BY <3>1, NewAskIs, AsksStay
    <3> QED BY <2>5, <3>2 DEF Repair
  <2>6. CASE Answer(r)
    <3>1. ask[r] # NoAsk /\ "charge" \in Stages /\ ask[r].question \in Questions
      BY <2>0, <2>6 DEF Answer, Stages, Asks
    <3> QED BY <2>6, <2>a, <3>1 DEF Answer
  <2>7. CASE GiveUp(r)
    BY <2>7 DEF GiveUp
  <2>8. CASE ChargeCommand(r)
    <3>1. ask[r] # NoAsk /\ "reply" \in Stages
      BY <2>8 DEF ChargeCommand, Stages
    <3>2. CASE tokens >= Price
      <4>1. ask' = [ask EXCEPT ![r].at = "reply"] /\ paid' = paid \cup {ask[r].question}
            /\ ask[r].question \in Commands /\ tokens' = tokens - Price /\ charged' = charged + Price
        BY <2>8, <3>2 DEF ChargeCommand, Owed
      <4>2. ask' \in [AsRequests -> {NoAsk} \cup Asks]
        BY <2>a, <3>1, <4>1
      <4>3. tokens' \in 0 .. MaxBalance /\ charged' \in Nat /\ paid' \subseteq Commands
        BY <3>2, <4>1
      <4> QED BY <2>8, <4>2, <4>3 DEF ChargeCommand
    <3>3. CASE ~(tokens >= Price)
      BY <2>8, <3>3 DEF ChargeCommand
    <3> QED BY <3>2, <3>3
  <2>9. CASE OwesNothing(r)
    <3>1. ask[r] # NoAsk /\ "reply" \in Stages
      BY <2>9 DEF OwesNothing, Stages
    <3> QED BY <2>9, <2>a, <3>1 DEF OwesNothing
  <2>10. CASE Reply(r)
    BY <2>10 DEF Reply
  <2> QED BY <1>2, <2>1, <2>2, <2>3, <2>4, <2>5, <2>6, <2>7, <2>8, <2>9, <2>10 DEF AsRequestStep
<1>3. CASE \/ \E k \in Keys : QuotaChanges(k)
           \/ \E q \in Questions : CacheExpires(q)
           \/ SpendElsewhere
  BY <1>3 DEF QuotaChanges, CacheExpires, SpendElsewhere
<1>4. CASE Restart
  BY <1>4 DEF Restart, Keys
<1> QED BY <1>1, <1>2, <1>3, <1>4 DEF AsNext

-----------------------------------------------------------------------------
(***************************************************************************)
(* The keys                                                                *)
(***************************************************************************)

(* What a request has tried is what the index has left behind, until another
   one moves it: each step of the rotation, of this request and of others.      *)
LEMMA PoolNext ==
  ASSUME AsInv, AsNext, NEW r \in AsRequests
  PROVE  PoolOK(r)'
<1> USE DEF AsInv, NoAsk
<1>0. /\ ask \in [AsRequests -> {NoAsk} \cup Asks] /\ current \in Keys /\ PoolOK(r)
      /\ Behind(0) = {} /\ Behind(PoolSize) = Keys
  BY BehindGrows DEF AsTypeOK
<1>1. ASSUME current' = current, ask'[r] = ask[r]
      PROVE  PoolOK(r)'
  BY <1>0, <1>1 DEF PoolOK, Behind
<1>2. ASSUME ask'[r] = NoAsk PROVE PoolOK(r)'
  BY <1>2 DEF PoolOK
<1>3. ASSUME NEW q \in Questions, NEW quoted, ask'[r] = NewAsk(q, quoted)
      PROVE  PoolOK(r)'
  BY <1>3 DEF PoolOK, NewAsk
<1>4. ASSUME NEW q \in AsRequests, NEW c \in Questions, Quote(q, c) \/ StartPass(q, c)
      PROVE  PoolOK(r)'
  <2>1. CASE q = r
    BY <1>0, <1>3, <1>4, <2>1 DEF Quote, StartPass
  <2>2. CASE q # r
    BY <1>0, <1>1, <1>4, <2>2 DEF Quote, StartPass
  <2> QED BY <2>1, <2>2
<1>5. ASSUME NEW q \in AsRequests, q # r, AsRequestStep(q)
      PROVE  PoolOK(r)'
  <2>1. CASE Rotate(q)
    <3>1. ask'[r] = IF InComplete(r) THEN [ask[r] EXCEPT !.overtaken = TRUE] ELSE ask[r]
      BY <1>5, <2>1 DEF Rotate
    <3>2. CASE InComplete(r)
      <4>1. ask[r] \in Asks
        BY <1>0, <3>2 DEF InComplete
      <4>2. ask'[r].at = ask[r].at /\ ask'[r].tries = ask[r].tries /\ ask'[r].overtaken
        BY <3>1, <3>2, <4>1 DEF Asks
      <4> QED BY <1>0, <3>2, <4>2 DEF PoolOK, InComplete
    <3>3. CASE ~InComplete(r)
      BY <1>0, <3>1, <3>3 DEF PoolOK, InComplete
    <3> QED BY <3>2, <3>3
  <2>2. CASE ~Rotate(q)
    BY <1>0, <1>1, <1>5, <2>2
       DEF AsRequestStep, LookUp, TakeKey, QuotaRefusal, Repair, Answer, GiveUp, ChargeCommand,
           OwesNothing, Reply
  <2> QED BY <2>1, <2>2
<1>6. ASSUME AsRequestStep(r) PROVE PoolOK(r)'
  <2>1. CASE LookUp(r)
    <3>1. /\ ask'[r] = [ask[r] EXCEPT !.at = IF ask[r].question \in cached THEN "charge" ELSE "key"]
          /\ current' = current /\ ask[r] \in Asks /\ ask[r].at = "cache"
      BY <1>0, <2>1 DEF LookUp
    <3>2. ask'[r].at \in {"charge", "key"} /\ ask'[r].tries = 0 /\ ask'[r].tried = {} /\ ~ask'[r].overtaken
      BY <1>0, <3>1 DEF PoolOK, Asks
    <3>3. Behind(0)' = {}
      BY <1>0, <3>1 DEF Behind
    <3> QED BY <3>2, <3>3, AssistantAssumption DEF PoolOK
  <2>2. CASE TakeKey(r)
    <3>1. /\ ask'[r] = [ask[r] EXCEPT !.at = "sent", !.key = current]
          /\ current' = current /\ ask[r] \in Asks /\ ask[r].at = "key"
      BY <1>0, <2>2 DEF TakeKey
    <3> QED BY <1>0, <3>1 DEF PoolOK, Asks, Behind
  <2>3. CASE QuotaRefusal(r)
    <3>1. current' = current /\ ask[r] \in Asks /\ ask[r].at = "sent"
      BY <1>0, <2>3 DEF QuotaRefusal
    <3>2. ask'[r] = [ask[r] EXCEPT !.at = "rotate", !.tried = ask[r].tried \cup {ask[r].key}]
      BY <1>0, <2>3 DEF QuotaRefusal
    <3> QED BY <1>0, <3>1, <3>2 DEF PoolOK, Asks, Behind
  <2>4. CASE Rotate(r)
    <3>1. PICK n \in Nat : n = ask[r].tries /\ n < PoolSize
      BY <1>0, <2>4, AssistantAssumption DEF Rotate, PoolOK, Asks
    <3>2. /\ ask'[r] = [ask[r] EXCEPT !.tries = n + 1,
                                      !.at = IF n + 1 < PoolSize THEN "key" ELSE "exhausted"]
          /\ current' = Advance(current) /\ ask[r] \in Asks /\ ask[r].at = "rotate"
      BY <1>0, <2>4, <3>1 DEF Rotate
    <3>3. Behind(n + 1)' = Behind(n) \cup {current}
      BY <1>0, <3>1, <3>2, BehindGrows
    <3>4. ~ask[r].overtaken => ask[r].tried = Behind(n + 1)'
      BY <1>0, <3>1, <3>2, <3>3 DEF PoolOK
    <3>5. /\ ask'[r].at = IF n + 1 < PoolSize THEN "key" ELSE "exhausted"
          /\ ask'[r].tries = n + 1 /\ ask'[r].tried = ask[r].tried /\ ask'[r].overtaken = ask[r].overtaken
      BY <3>2 DEF Asks
    <3>6. n + 1 = PoolSize => Behind(n + 1)' = Keys
      <4>1. Advance(current) \in Keys
        BY <1>0, AdvanceIs, AssistantAssumption DEF Keys
      <4>2. \A k \in Keys : Turns(k, current)' <= PoolSize
        BY <4>1, <3>2, TurnsAdvance DEF Turns
      <4> QED BY <4>2 DEF Behind
    <3>7. CASE n + 1 < PoolSize
      BY <3>4, <3>5, <3>7 DEF PoolOK
    <3>8. CASE ~(n + 1 < PoolSize)
      <4>1. n + 1 = PoolSize
        BY <3>1, <3>8, AssistantAssumption
      <4> QED BY <3>4, <3>5, <3>6, <4>1 DEF PoolOK
    <3> QED BY <3>7, <3>8
  <2>5. CASE Repair(r)
    <3>1. /\ ask'[r].at = "key" /\ ask'[r].tries = 0 /\ ask'[r].tried = {} /\ ~ask'[r].overtaken
          /\ current' = current
      BY <1>0, <2>5 DEF Repair, NewAsk
    <3>2. Behind(0)' = {}
      BY <1>0, <3>1 DEF Behind
    <3> QED BY <3>1, <3>2, AssistantAssumption DEF PoolOK
  <2>6. CASE Answer(r) \/ ChargeCommand(r) \/ OwesNothing(r)
    <3>1. ask'[r] = NoAsk \/ ask'[r].at \in {"charge", "reply"}
      <4>1. ask[r] \in Asks
        BY <1>0, <2>6 DEF Answer, ChargeCommand, OwesNothing
      <4>2. \/ ask'[r] = NoAsk
            \/ \E at \in {"charge", "reply"} : ask'[r] = [ask[r] EXCEPT !.at = at]
        BY <1>0, <2>6 DEF Answer, ChargeCommand, OwesNothing
      <4> QED BY <4>1, <4>2 DEF Asks
    <3> QED BY <3>1 DEF PoolOK
  <2>7. CASE GiveUp(r) \/ Reply(r)
    BY <1>0, <1>2, <2>7 DEF GiveUp, Reply
  <2> QED BY <1>6, <2>1, <2>2, <2>3, <2>4, <2>5, <2>6, <2>7 DEF AsRequestStep
<1>7. CASE \/ \E k \in Keys : QuotaChanges(k)
           \/ \E q \in Questions : CacheExpires(q)
           \/ SpendElsewhere
  BY <1>1, <1>7 DEF QuotaChanges, CacheExpires, SpendElsewhere
<1>8. CASE Restart
  BY <1>2, <1>8 DEF Restart
<1> QED BY <1>4, <1>5, <1>6, <1>7, <1>8 DEF AsNext

-----------------------------------------------------------------------------
(***************************************************************************)
(* The books                                                               *)
(***************************************************************************)

(* One more command paid for is the price more charged.                        *)
LEMMA BooksNext ==
  ASSUME AsInv, AsNext
  PROVE  BooksOK'
<1>0. BooksOK /\ ask \in [AsRequests -> {NoAsk} \cup Asks] /\ \A r \in AsRequests : PaidOK(r)
  BY DEF AsInv, AsTypeOK
<1>1. ASSUME NEW r \in AsRequests, ChargeCommand(r), tokens >= Price
      PROVE  BooksOK'
  <2>1. /\ charged' = charged + Price /\ paid' = paid \cup {ask[r].question}
        /\ ask[r].at = "charge" /\ ask[r].question \notin paid
        /\ UNCHANGED <<cached, usable, delivered>>
    BY <1>1, AssistantAssumption DEF ChargeCommand, Owed, AsInv, AsTypeOK
  <2>2. ask[r].question \in usable
    BY <1>0, <2>1 DEF PaidOK, NoAsk
  <2>3. IsFiniteSet(paid') /\ Cardinality(paid') = Cardinality(paid) + 1 /\ Cardinality(paid) \in Nat
    BY <1>0, <2>1, FS_AddElement, FS_CardinalityType DEF BooksOK
  <2>4. charged' = Price * Cardinality(paid')
    <3>1. charged' = Price * Cardinality(paid) + Price
      BY <1>0, <2>1 DEF BooksOK
    <3> QED BY <2>3, <3>1, AssistantAssumption
  <2> QED BY <1>0, <2>1, <2>2, <2>3, <2>4 DEF BooksOK
<1>2. ASSUME NEW r \in AsRequests, Reply(r)
      PROVE  BooksOK'
  BY <1>0, <1>2 DEF Reply, BooksOK, PaidOK, NoAsk
<1>3. ASSUME UNCHANGED <<charged, paid, delivered>>, usable \subseteq usable', cached' \subseteq cached \cup usable'
      PROVE  BooksOK'
  BY <1>0, <1>3 DEF BooksOK
<1>4. CASE \E r \in AsRequests, q \in Questions : Quote(r, q) \/ StartPass(r, q)
  BY <1>3, <1>4 DEF Quote, StartPass
<1>5. ASSUME NEW r \in AsRequests, AsRequestStep(r), ~Reply(r), ~(ChargeCommand(r) /\ tokens >= Price)
      PROVE  BooksOK'
  BY <1>3, <1>5 DEF AsRequestStep, LookUp, TakeKey, QuotaRefusal, Rotate, Repair, Answer, GiveUp,
                    ChargeCommand, OwesNothing
<1>6. CASE \/ \E k \in Keys : QuotaChanges(k)
           \/ \E q \in Questions : CacheExpires(q)
           \/ SpendElsewhere \/ Restart
  BY <1>3, <1>6 DEF QuotaChanges, CacheExpires, SpendElsewhere, Restart
<1> QED BY <1>1, <1>2, <1>4, <1>5, <1>6 DEF AsNext, AsRequestStep

(* A request that is about to reply has an answer that was paid for.           *)
LEMMA PaidNext ==
  ASSUME AsInv, AsNext, NEW r \in AsRequests
  PROVE  PaidOK(r)'
<1>0. /\ BooksOK /\ ask \in [AsRequests -> {NoAsk} \cup Asks] /\ PaidOK(r)
  BY DEF AsInv, AsTypeOK
<1>1. usable \subseteq usable' /\ paid \subseteq paid'
  BY DEF AsNext, Quote, StartPass, AsRequestStep, LookUp, TakeKey, QuotaRefusal, Rotate, Repair,
         Answer, GiveUp, ChargeCommand, OwesNothing, Reply, QuotaChanges, CacheExpires,
         SpendElsewhere, Restart
<1>2. ASSUME \/ ask'[r] = NoAsk \/ ask'[r] = ask[r]
             \/ /\ ask[r] # NoAsk /\ ask'[r].question = ask[r].question
                /\ ask'[r].quoted = ask[r].quoted /\ ask'[r].at \notin {"charge", "reply"}
      PROVE  PaidOK(r)'
  BY <1>0, <1>1, <1>2 DEF PaidOK
<1>3. ASSUME NEW q \in AsRequests, NEW c \in Questions, Quote(q, c) \/ StartPass(q, c)
      PROVE  PaidOK(r)'
  <2>1. CASE q # r
    BY <1>0, <1>2, <1>3, <2>1 DEF Quote, StartPass
  <2>2. CASE q = r
    <3>1. \/ ask'[r] = NewAsk(c, c \in paid) /\ paid' = paid
          \/ ask'[r] = NewAsk(c, TRUE) /\ c \in Passes
      BY <1>0, <1>3, <2>2 DEF Quote, StartPass
    <3>2. /\ ask'[r].at = "cache" /\ ask'[r].question = c
          /\ ask'[r].quoted => c \in paid' \/ c \in Passes
      <4>1. CASE ask'[r] = NewAsk(c, c \in paid) /\ paid' = paid
        <5>1. ask'[r].quoted = (c \in paid)
          BY <4>1 DEF NewAsk
        <5>2. ask'[r].at = "cache" /\ ask'[r].question = c
          BY <4>1 DEF NewAsk
        <5> QED BY <4>1, <5>1, <5>2
      <4>2. CASE ask'[r] = NewAsk(c, TRUE) /\ c \in Passes
        BY <4>2 DEF NewAsk
      <4> QED BY <3>1, <4>1, <4>2
    <3> QED BY <3>2, AssistantAssumption DEF PaidOK
  <2> QED BY <2>1, <2>2
<1>4. ASSUME NEW q \in AsRequests, q # r, AsRequestStep(q)
      PROVE  PaidOK(r)'
  <2>1. CASE Rotate(q)
    <3>1. ask'[r] = IF InComplete(r) THEN [ask[r] EXCEPT !.overtaken = TRUE] ELSE ask[r]
      BY <1>4, <2>1 DEF Rotate
    <3> QED BY <1>0, <1>2, <3>1 DEF InComplete, Asks, NoAsk
  <2>2. CASE ~Rotate(q)
    <3>1. ask'[r] = ask[r]
      BY <1>0, <1>4, <2>2
         DEF AsRequestStep, LookUp, TakeKey, QuotaRefusal, Repair, Answer, GiveUp, ChargeCommand,
             OwesNothing, Reply
    <3> QED BY <1>2, <3>1
  <2> QED BY <2>1, <2>2
<1>5. ASSUME AsRequestStep(r) PROVE PaidOK(r)'
  <2>0. ask[r] = NoAsk \/ ask[r] \in Asks
    BY <1>0
  <2>1. CASE LookUp(r)
    <3>1. /\ ask'[r] = [ask[r] EXCEPT !.at = IF ask[r].question \in cached THEN "charge" ELSE "key"]
          /\ ask[r] \in Asks
      BY <1>0, <2>0, <2>1 DEF LookUp, NoAsk
    <3>2. /\ ask'[r].question = ask[r].question /\ ask'[r].quoted = ask[r].quoted
          /\ ask'[r].at = IF ask[r].question \in cached THEN "charge" ELSE "key"
      BY <3>1 DEF Asks
    <3> QED BY <1>0, <1>1, <2>1, <3>2 DEF PaidOK, BooksOK, LookUp, NoAsk
  <2>2. CASE TakeKey(r) \/ QuotaRefusal(r) \/ Rotate(r) \/ Repair(r)
    <3>1. ask[r] \in Asks
      BY <2>0, <2>2 DEF TakeKey, QuotaRefusal, Rotate, Repair, NoAsk
    <3>2. /\ ask'[r].question = ask[r].question /\ ask'[r].quoted = ask[r].quoted
          /\ ask'[r].at \notin {"charge", "reply"} /\ ask[r] # NoAsk
      <4>1. CASE TakeKey(r)
        BY <1>0, <3>1, <4>1 DEF TakeKey, Asks, NoAsk
      <4>2. CASE QuotaRefusal(r)
        BY <1>0, <3>1, <4>2 DEF QuotaRefusal, Asks, NoAsk
      <4>3. CASE Rotate(r)
        <5>1. ask'[r] = [ask[r] EXCEPT !.tries = ask[r].tries + 1,
                                       !.at = IF ask[r].tries + 1 < PoolSize THEN "key" ELSE "exhausted"]
          BY <1>0, <4>3 DEF Rotate
        <5>2. ask[r] # NoAsk
          BY <4>3 DEF Rotate, NoAsk
        <5> QED BY <3>1, <5>1, <5>2 DEF Asks
      <4>4. CASE Repair(r)
        BY <1>0, <3>1, <4>4 DEF Repair, NewAsk, Asks, NoAsk
      <4> QED BY <2>2, <4>1, <4>2, <4>3, <4>4
    <3> QED BY <1>2, <3>2
  <2>3. CASE Answer(r)
    <3>1. ask[r] \in Asks /\ ask'[r] = [ask[r] EXCEPT !.at = "charge"] /\ ask[r].question \in usable'
      BY <1>0, <2>0, <2>3 DEF Answer, NoAsk
    <3>2. /\ ask'[r].question = ask[r].question /\ ask'[r].quoted = ask[r].quoted
          /\ ask'[r].at = "charge"
      BY <3>1 DEF Asks
    <3> QED BY <1>0, <1>1, <2>3, <3>1, <3>2 DEF PaidOK, Answer, NoAsk
  <2>4. CASE ChargeCommand(r)
    <3>1. ask[r] \in Asks
      BY <2>0, <2>4 DEF ChargeCommand, NoAsk
    <3>2. \/ ask'[r] = NoAsk
          \/ ask'[r] = [ask[r] EXCEPT !.at = "reply"] /\ ask[r].question \in paid'
      BY <1>0, <2>4 DEF ChargeCommand
    <3>3. CASE ask'[r] = NoAsk
      BY <1>2, <3>3
    <3>4. CASE ask'[r] = [ask[r] EXCEPT !.at = "reply"] /\ ask[r].question \in paid'
      BY <3>1, <3>4 DEF PaidOK, Asks
    <3> QED BY <3>2, <3>3, <3>4
  <2>5. CASE OwesNothing(r)
    <3>1. ask[r] \in Asks /\ ask'[r] = [ask[r] EXCEPT !.at = "reply"] /\ ~Owed(r) /\ ask[r] # NoAsk
      BY <1>0, <2>0, <2>5 DEF OwesNothing, NoAsk
    <3>2. ask'[r].question = ask[r].question /\ ask'[r].at = "reply"
      BY <3>1 DEF Asks
    <3> QED BY <1>0, <1>1, <3>1, <3>2 DEF PaidOK, Owed
  <2>6. CASE GiveUp(r) \/ Reply(r)
    BY <1>0, <1>2, <2>6 DEF GiveUp, Reply
  <2> QED BY <1>5, <2>1, <2>2, <2>3, <2>4, <2>5, <2>6 DEF AsRequestStep
<1>6. CASE \/ \E k \in Keys : QuotaChanges(k)
           \/ \E q \in Questions : CacheExpires(q)
           \/ SpendElsewhere
  BY <1>2, <1>6 DEF QuotaChanges, CacheExpires, SpendElsewhere
<1>7. CASE Restart
  BY <1>2, <1>7 DEF Restart
<1> QED BY <1>3, <1>4, <1>5, <1>6, <1>7 DEF AsNext

-----------------------------------------------------------------------------
(***************************************************************************)
(* Theorems                                                                *)
(***************************************************************************)

(* The invariant is inductive: it holds of the first state and of every one that
   a request, a quota, the cache's clock, another scan or a restart leads to.   *)
THEOREM AssistantInductive == AsSpec => []AsInv
<1>1. AsInit => AsInv
  <2> SUFFICES ASSUME AsInit PROVE AsInv
    OBVIOUS
  <2>1. AsTypeOK
    BY AssistantAssumption DEF AsInit, AsTypeOK, Keys
  <2>2. BooksOK
    BY FS_EmptySet, AssistantAssumption DEF AsInit, BooksOK
  <2> QED BY <2>1, <2>2 DEF AsInit, AsInv, PoolOK, PaidOK, NoAsk
<1>2. AsInv /\ [AsNext]_AsVars => AsInv'
  <2> SUFFICES ASSUME AsInv, [AsNext]_AsVars PROVE AsInv'
    OBVIOUS
  <2>1. CASE AsNext
    BY <2>1, AsTypesNext, BooksNext, PoolNext, PaidNext DEF AsInv
  <2>2. CASE UNCHANGED AsVars
    BY <2>2 DEF AsVars, AsInv, AsTypeOK, BooksOK, PoolOK, PaidOK, Behind
  <2> QED BY <2>1, <2>2
<1> QED BY <1>1, <1>2, PTL DEF AsSpec

(* Every variable has its type; a request never makes more tries than there are keys. *)
THEOREM AssistantTypes == AsSpec => []AsTypeOK
<1>1. AsInv => AsTypeOK
  BY DEF AsInv
<1> QED BY <1>1, AssistantInductive, PTL

(* Who is told that every key is out of quota was refused with each of them or
   overtaken, and a command is paid for once, and before anybody has its answer:
   the property AskedAndPaidFor of the run requests.                            *)
THEOREM EveryAnswerPaidFor == AsSpec => []AskedAndPaidFor
<1>1. AsInv => AskedAndPaidFor
  BY DEF AsInv, BooksOK, PoolOK, AskedAndPaidFor, WholePoolTried, AnswersArePaidFor
<1> QED BY <1>1, AssistantInductive, PTL

-----------------------------------------------------------------------------
(***************************************************************************)
(* Live scanning.                                                          *)
(*                                                                         *)
(* A pushed commit leads to its scan along a chain of hand-overs (queue,   *)
(* worker, window, worker), each of which takes it from one place before   *)
(* or after it is put in the next.  The invariant says where it can be     *)
(* (NoneLost): the commit, or a later one, is in one of the places, in a   *)
(* scan or in a record of why there is none.  That there are not too many  *)
(* scans is a matter of two tallies: the scans of a commit and the workers *)
(* about to create one are no more than its markers (AllOnce), those of an *)
(* hour and the triggers of it that may become one no more than were       *)
(* counted (AllHours).                                                     *)
(***************************************************************************)

(* A finite set with one element more, or one less. *)
LEMMA Counted ==
  ASSUME NEW S, NEW x, IsFiniteSet(S)
  PROVE  /\ Cardinality(S) \in Nat
         /\ IsFiniteSet(S \cup {x}) /\ Cardinality(S \cup {x}) \in Nat
         /\ Cardinality(S \cup {x}) <= Cardinality(S) + 1
         /\ IsFiniteSet(S \ {x}) /\ Cardinality(S \ {x}) \in Nat
         /\ x \in S => Cardinality(S \ {x}) = Cardinality(S) - 1
<1>1. Cardinality(S) \in Nat
  BY FS_CardinalityType
<1>2. IsFiniteSet(S \cup {x}) /\ (x \notin S => Cardinality(S \cup {x}) = Cardinality(S) + 1)
  BY FS_AddElement
<1>3. x \in S => S \cup {x} = S
  OBVIOUS
<1>4. IsFiniteSet(S \ {x}) /\ (x \in S => Cardinality(S \ {x}) = Cardinality(S) - 1)
  BY FS_RemoveElement
<1>5. Cardinality(S \cup {x}) \in Nat /\ Cardinality(S \ {x}) \in Nat
  BY <1>2, <1>4, FS_CardinalityType
<1>6. Cardinality(S \cup {x}) <= Cardinality(S) + 1
  <2>1. CASE x \in S
    <3>1. Cardinality(S \cup {x}) = Cardinality(S)
      BY <1>3, <2>1, Zenon
    <3> QED BY <1>1, <3>1
  <2>2. CASE x \notin S
    BY <1>1, <1>2, <2>2
  <2> QED BY <2>1, <2>2
<1> QED BY <1>1, <1>2, <1>4, <1>5, <1>6

Bearing == {"arm", "count", "expire", "judge", "mark", "create"}
Work == [at : LsPlaces, d : {"push", "pr"} \X (0 .. MaxHead), hour : Nat, n : Nat, raced : BOOLEAN]

LsTypes ==
    /\ head \in 0 .. MaxHead /\ seen \subseteq Deliveries /\ events \in Seq(Deliveries)
    /\ window \in [commit : 0 .. MaxHead, due : BOOLEAN]
    /\ counter \in [n : Nat, expires : BOOLEAN]
    /\ balance \in Nat /\ hour \in Nat /\ lsFaults \in Nat /\ excused \in BOOLEAN
    /\ wk \in [LsWorkers -> Work]

\* Whatever commit is under way is on the branch.
Pushed ==
    /\ \A i \in 1 .. Len(events) : Commit(events[i]) \in 1 .. head
    /\ window.commit <= head
    /\ \A w \in LsWorkers : wk[w].at \in Bearing => Commit(wk[w].d) \in 1 .. head

\* Who is about to pay is within the hour's limit and, unless somebody else paid
\* meanwhile, above the floor.
Paying ==
    \A w \in LsWorkers : IsPaying(w) =>
        wk[w].n <= HourlyLimit /\ (wk[w].raced \/ balance >= Floor + 1)

\* A marker stands for one scan, made or about to be.
ScansOf(c) == {s \in scans : s.commit = c}
Creating(c) == {w \in LsWorkers : wk[w].at = "create" /\ Commit(wk[w].d) = c}
Markers(c) == IF c \in marked THEN lsFaults + 1 ELSE lsFaults
OnceOK(c) ==
    /\ IsFiniteSet(ScansOf(c)) /\ IsFiniteSet(Creating(c))
    /\ Cardinality(ScansOf(c)) + Cardinality(Creating(c)) <= Markers(c)
AllOnce == \A c \in 1 .. MaxHead : OnceOK(c)

\* The scans of an hour and the triggers of it that may become scans: as many as were
\* counted, and no more than the limit.
InPlaces == {"expire", "judge", "mark", "create"}
ScansIn(h) == {s \in scans : s.hour = h}
Triggers(h) ==
    {w \in LsWorkers : wk[w].at \in InPlaces /\ wk[w].hour = h /\ wk[w].n <= HourlyLimit}
Allowed(h) == IF h > hour THEN 0 ELSE IF h = hour THEN counter.n ELSE HourlyLimit
HourOK(h) ==
    /\ IsFiniteSet(ScansIn(h)) /\ IsFiniteSet(Triggers(h))
    /\ Cardinality(ScansIn(h)) + Cardinality(Triggers(h)) <= Allowed(h)
    /\ Cardinality(ScansIn(h)) + Cardinality(Triggers(h)) <= HourlyLimit
AllHours == \A h \in Nat : HourOK(h)

\* Where a push can be: in the queue, with a worker, in the window, or answered.
Queued(c) == \E i \in 1 .. Len(events) : events[i][1] = "push" /\ Commit(events[i]) >= c
Held(c) == \E w \in LsWorkers : wk[w].at \in Bearing /\ Commit(wk[w].d) >= c
Answered(c) == (\E s \in scans : s.head >= c) \/ (\E r \in recorded : r >= c)
Accounted(c) == Queued(c) \/ Held(c) \/ window.commit >= c \/ Answered(c)
Marked(m) == (\E w \in LsWorkers : wk[w].at = "create" /\ Commit(wk[w].d) = m) \/ Answered(m)
Numbers ==
    /\ \A s \in scans : s.head \in Nat
    /\ recorded \subseteq Nat /\ marked \subseteq Nat
NoneLost ==
    ~excused => /\ \A c \in 1 .. MaxHead : <<"push", c>> \in seen => Accounted(c)
                /\ \A m \in marked : Marked(m)

LsInv ==
    /\ LsTypes /\ Pushed /\ Numbers /\ Paying /\ FloorIsKept /\ OnlyAFaultKeepsTheCounter
    /\ AllOnce /\ AllHours /\ NoneLost

LEMMA LsConstants ==
  /\ MaxHead \in Nat /\ HourlyLimit \in Nat /\ Floor \in Nat /\ BreakerFactor \in Nat
  /\ Balances \subseteq Nat
BY LiveScanAssumption

LEMMA IdleOK == Idle \in Work /\ Idle.at = "pop" /\ ~Idle.raced
BY LsConstants DEF Idle, Work, LsPlaces, None

(* What a worker's step leaves of the tallies. *)
LEMMA OnceStays ==
  ASSUME LsInv, UNCHANGED scans, marked \subseteq marked', lsFaults' \in Nat,
         lsFaults' >= lsFaults, NEW c \in 1 .. MaxHead, Creating(c)' \subseteq Creating(c)
  PROVE  OnceOK(c)'
<1>1. OnceOK(c)
  BY DEF LsInv, AllOnce
<1>2. ScansOf(c)' = ScansOf(c)
  BY DEF ScansOf
<1>3. IsFiniteSet(Creating(c)') /\ Cardinality(Creating(c)') <= Cardinality(Creating(c))
  BY <1>1, FS_Subset DEF OnceOK
<1>4. Cardinality(ScansOf(c)) \in Nat /\ Cardinality(Creating(c)) \in Nat
      /\ Cardinality(Creating(c)') \in Nat
  BY <1>1, <1>3, FS_CardinalityType DEF OnceOK
<1>5. Markers(c)' >= Markers(c) /\ Markers(c) \in Nat /\ Markers(c)' \in Nat
  <2>1. lsFaults \in Nat /\ lsFaults' \in Nat /\ lsFaults' >= lsFaults
    BY DEF LsInv, LsTypes
  <2>2. CASE c \in marked
    <3>1. c \in marked'
      BY <2>2
    <3>2. Markers(c)' = lsFaults' + 1 /\ Markers(c) = lsFaults + 1
      BY <2>2, <3>1 DEF Markers
    <3>3. \A a, b \in Nat : a >= b => a + 1 \in Nat /\ b + 1 \in Nat /\ a + 1 >= b + 1
      OBVIOUS
    <3> QED BY <2>1, <3>2, <3>3, Zenon
  <2>3. CASE c \notin marked
    <3>1. Markers(c) = lsFaults
      BY <2>3 DEF Markers
    <3>2. Markers(c)' = lsFaults' + 1 \/ Markers(c)' = lsFaults'
      BY DEF Markers
    <3> QED BY <2>1, <3>1, <3>2
  <2> QED BY <2>2, <2>3
<1>6. Cardinality(ScansOf(c)') = Cardinality(ScansOf(c)) /\ IsFiniteSet(ScansOf(c)')
  BY <1>1, <1>2, Zenon DEF OnceOK
<1>7. Cardinality(ScansOf(c)) + Cardinality(Creating(c)) <= Markers(c)
  BY <1>1 DEF OnceOK
<1>8. Cardinality(ScansOf(c)') + Cardinality(Creating(c)') <= Markers(c)'
  BY <1>3, <1>4, <1>5, <1>6, <1>7
<1> QED BY <1>3, <1>6, <1>8 DEF OnceOK

LEMMA HourStays ==
  ASSUME LsInv, UNCHANGED <<scans, hour>>, counter'.n = counter.n, NEW h \in Nat,
         Triggers(h)' \subseteq Triggers(h)
  PROVE  HourOK(h)'
<1>1. HourOK(h)
  BY DEF LsInv, AllHours
<1>2. ScansIn(h)' = ScansIn(h)
  BY DEF ScansIn
<1>3. IsFiniteSet(Triggers(h)') /\ Cardinality(Triggers(h)') <= Cardinality(Triggers(h))
  BY <1>1, FS_Subset DEF HourOK
<1>4. Cardinality(ScansIn(h)) \in Nat /\ Cardinality(Triggers(h)) \in Nat
      /\ Cardinality(Triggers(h)') \in Nat
  BY <1>1, <1>3, FS_CardinalityType DEF HourOK
<1>5. Allowed(h)' = Allowed(h) /\ Allowed(h) \in Nat /\ HourlyLimit \in Nat
  BY LsConstants DEF Allowed, LsInv, LsTypes
<1>6. Cardinality(ScansIn(h)') = Cardinality(ScansIn(h)) /\ IsFiniteSet(ScansIn(h)')
  BY <1>1, <1>2, Zenon DEF HourOK
<1>7. Cardinality(ScansIn(h)) + Cardinality(Triggers(h)) <= Allowed(h)
      /\ Cardinality(ScansIn(h)) + Cardinality(Triggers(h)) <= HourlyLimit
  BY <1>1 DEF HourOK
<1>8. Cardinality(ScansIn(h)') + Cardinality(Triggers(h)') <= Allowed(h)'
      /\ Cardinality(ScansIn(h)') + Cardinality(Triggers(h)') <= HourlyLimit
  BY <1>3, <1>4, <1>5, <1>6, <1>7
<1> QED BY <1>3, <1>6, <1>8 DEF HourOK

Moves(w, d) == d \in Work /\ wk' = [wk EXCEPT ![w] = d]

LEMMA Moved ==
  ASSUME LsInv, NEW w \in LsWorkers, NEW d, Moves(w, d)
  PROVE  wk' \in [LsWorkers -> Work] /\ \A v \in LsWorkers : wk'[v] = IF v = w THEN d ELSE wk[v]
BY DEF LsInv, LsTypes, Moves

(* A worker that goes on, and neither counts a trigger nor gets to create a scan. *)
LEMMA TalliesStay ==
  ASSUME LsInv, NEW w \in LsWorkers, NEW d, Moves(w, d),
         UNCHANGED <<scans, hour>>, counter'.n = counter.n, marked \subseteq marked',
         lsFaults' \in Nat, lsFaults' >= lsFaults, d.at # "create",
         d.at \in InPlaces => wk[w].at \in InPlaces /\ d.hour = wk[w].hour /\ d.n = wk[w].n
  PROVE  AllOnce' /\ AllHours'
<1>1. \A v \in LsWorkers : wk'[v] = IF v = w THEN d ELSE wk[v]
  BY Moved
<1>2. \A c : Creating(c)' \subseteq Creating(c)
  BY <1>1 DEF Creating
<1>3. \A h : Triggers(h)' \subseteq Triggers(h)
  BY <1>1 DEF Triggers
<1>4. AllOnce'
  BY <1>2, OnceStays DEF AllOnce
<1>5. AllHours'
  BY <1>3, HourStays DEF AllHours
<1> QED BY <1>4, <1>5

(* A commit a worker is about stays accounted for. *)
LEMMA HeldMoves ==
  ASSUME LsInv, NEW w \in LsWorkers, NEW d, Moves(w, d),
         UNCHANGED events, window'.commit = window.commit,
         scans \subseteq scans', recorded \subseteq recorded',
         wk[w].at \in Bearing =>
           \/ d.at \in Bearing /\ Commit(d.d) = Commit(wk[w].d)
           \/ \E s \in scans' : s.head \in Nat /\ s.head >= Commit(wk[w].d)
           \/ \E r \in recorded' : r \in Nat /\ r >= Commit(wk[w].d)
           \/ \E v \in LsWorkers \ {w} : wk[v].at \in Bearing
                                         /\ Commit(wk[v].d) = Commit(wk[w].d),
         NEW c \in 1 .. MaxHead, Accounted(c)
  PROVE  Accounted(c)'
<1>1. \A v \in LsWorkers : wk'[v] = IF v = w THEN d ELSE wk[v]
  BY Moved
<1>2. Queued(c) \/ window.commit >= c \/ Answered(c) => Accounted(c)'
  BY DEF Accounted, Queued, Answered
<1>3. ASSUME NEW v \in LsWorkers, wk[v].at \in Bearing, Commit(wk[v].d) >= c PROVE Accounted(c)'
  <2>1. CASE v # w
    BY <1>1, <1>3, <2>1 DEF Accounted, Held
  <2>2. CASE v = w
    <3>1. Commit(wk[w].d) \in Nat /\ c \in Nat
      BY <1>3, <2>2 DEF LsInv, Pushed
    <3>2. CASE d.at \in Bearing /\ Commit(d.d) = Commit(wk[w].d)
      BY <1>1, <1>3, <2>2, <3>2 DEF Accounted, Held
    <3>3. CASE \E s \in scans' : s.head \in Nat /\ s.head >= Commit(wk[w].d)
      BY <1>3, <2>2, <3>1, <3>3 DEF Accounted, Answered
    <3>4. CASE \E r \in recorded' : r \in Nat /\ r >= Commit(wk[w].d)
      BY <1>3, <2>2, <3>1, <3>4 DEF Accounted, Answered
    <3>5. CASE \E v2 \in LsWorkers \ {w} : wk[v2].at \in Bearing
                                          /\ Commit(wk[v2].d) = Commit(wk[w].d)
      BY <1>1, <1>3, <2>2, <3>5 DEF Accounted, Held
    <3> QED BY <1>3, <2>2, <3>2, <3>3, <3>4, <3>5
  <2> QED BY <2>1, <2>2
<1> QED BY <1>2, <1>3 DEF Accounted, Held

(* The markers of the others stay. *)
LEMMA MarkedStays ==
  ASSUME LsInv, NEW w \in LsWorkers, NEW d, Moves(w, d),
         scans \subseteq scans', recorded \subseteq recorded',
         wk[w].at = "create" =>
           \/ \E s \in scans' : s.head >= Commit(wk[w].d)
           \/ \E r \in recorded' : r >= Commit(wk[w].d),
         NEW m, Marked(m)
  PROVE  Marked(m)'
<1>1. \A v \in LsWorkers : wk'[v] = IF v = w THEN d ELSE wk[v]
  BY Moved
<1> QED BY <1>1 DEF Marked, Answered

(* A worker that goes on: what is left to show of its step. *)
LEMMA GoesOn ==
  ASSUME LsInv, NEW w \in LsWorkers, NEW d, Moves(w, d),
         UNCHANGED <<head, seen, scans, hour, balance>>,
         events' \in Seq(Deliveries), \A i \in 1 .. Len(events') : Commit(events'[i]) \in 1 .. head,
         window' \in [commit : 0 .. MaxHead, due : BOOLEAN], window'.commit <= head,
         counter' \in [n : Nat, expires : BOOLEAN], counter'.n = counter.n,
         marked \subseteq marked', marked' \subseteq Nat, recorded' \subseteq Nat,
         lsFaults' \in Nat, lsFaults' >= lsFaults, excused' \in BOOLEAN, d.at # "create",
         d.at \in InPlaces => wk[w].at \in InPlaces /\ d.hour = wk[w].hour /\ d.n = wk[w].n,
         d.at \in Bearing => Commit(d.d) \in 1 .. head,
         d.at = "mark" => d.n <= HourlyLimit /\ (d.raced \/ balance >= Floor + 1),
         OnlyAFaultKeepsTheCounter', NoneLost'
  PROVE  LsInv'
<1>1. /\ wk' \in [LsWorkers -> Work]
      /\ \A v \in LsWorkers : wk'[v] = IF v = w THEN d ELSE wk[v]
  BY Moved
<1>2. AllOnce' /\ AllHours'
  BY TalliesStay
<1>3. LsTypes'
  BY <1>1 DEF LsInv, LsTypes
<1>4. Pushed'
  BY <1>1 DEF LsInv, Pushed
<1>5. Numbers'
  BY DEF LsInv, Numbers
<1>6. Paying'
  BY <1>1 DEF LsInv, Paying, IsPaying
<1>7. FloorIsKept'
  BY DEF LsInv, FloorIsKept
<1> QED BY <1>2, <1>3, <1>4, <1>5, <1>6, <1>7 DEF LsInv

(* The counter has a worker to set its expiry, unless it is that worker that goes. *)
LEMMA CounterStays ==
  ASSUME LsInv, NEW w \in LsWorkers, NEW d, Moves(w, d), counter' = counter,
         lsFaults' = lsFaults, wk[w].at # "expire"
  PROVE  OnlyAFaultKeepsTheCounter'
<1>1. \A v \in LsWorkers : wk'[v] = IF v = w THEN d ELSE wk[v]
  BY Moved
<1> QED BY <1>1 DEF LsInv, OnlyAFaultKeepsTheCounter

(* PopEvent: the oldest event goes to the worker that takes it. *)
LEMMA PopEventKeeps ==
  ASSUME LsInv, NEW w \in LsWorkers, PopEvent(w)
  PROVE  LsInv'
<1> DEFINE e == Head(events)
           d == IF hook # "active" THEN [Idle EXCEPT !.at = "list"]
                ELSE [Idle EXCEPT !.d = e, !.at = IF e[1] = "pr" THEN "count" ELSE "arm"]
<1>1. /\ wk[w].at = "pop" /\ events # <<>> /\ wk' = [wk EXCEPT ![w] = d]
      /\ events' = Tail(events) /\ excused' = (excused \/ hook # "active")
      /\ UNCHANGED <<head, seen, window, counter, marked, hook, balance, scans, recorded,
                     hour, lsFaults>>
  BY DEF PopEvent
<1>2. /\ events \in Seq(Deliveries) /\ e = events[1] /\ e \in Deliveries
      /\ events' \in Seq(Deliveries) /\ Len(events') = Len(events) - 1 /\ Len(events) \in Nat
      /\ 1 \in 1 .. Len(events)
      /\ \A i \in 1 .. Len(events') : events'[i] = events[i + 1]
  BY <1>1 DEF LsInv, LsTypes
<1>3. Commit(e) \in 1 .. head
  BY <1>2 DEF LsInv, Pushed
<1>4. e \in {"push", "pr"} \X (0 .. MaxHead)
  BY <1>2, LsConstants DEF Deliveries
<1>5. d \in Work /\ d.at \in {"list", "count", "arm"}
      /\ (d.at \in {"count", "arm"} => d.d = e) /\ (hook = "active" => d.at \in {"count", "arm"})
  BY <1>4, IdleOK DEF Idle, Work, LsPlaces
<1> HIDE DEF d
<1>6. Moves(w, d)
  BY <1>1, <1>5 DEF Moves
<1>7. \A v \in LsWorkers : wk'[v] = IF v = w THEN d ELSE wk[v]
  BY <1>6, Moved
<1>8. NoneLost'
  <2> SUFFICES ASSUME ~excused, hook = "active" PROVE NoneLost'
    BY <1>1 DEF NoneLost
  <2>1. ASSUME NEW c \in 1 .. MaxHead, <<"push", c>> \in seen PROVE Accounted(c)'
    <3>1. Accounted(c)
      BY <2>1 DEF LsInv, NoneLost
    <3>2. CASE Held(c)
      BY <1>1, <1>7, <3>2 DEF Held, Accounted, Bearing
    <3>3. CASE window.commit >= c \/ Answered(c)
      BY <1>1, <3>3 DEF Accounted, Answered
    <3>4. ASSUME NEW i \in 1 .. Len(events), events[i][1] = "push", Commit(events[i]) >= c
          PROVE  Accounted(c)'
      <4>1. CASE i = 1
        <5>1. d.at \in Bearing /\ Commit(d.d) >= c
          BY <1>2, <1>5, <3>4, <4>1 DEF Bearing
        <5> QED BY <1>7, <5>1 DEF Held, Accounted
      <4>2. CASE i # 1
        <5>1. i - 1 \in 1 .. Len(events') /\ events'[i - 1] = events[i]
          BY <1>2, <4>2
        <5> QED BY <3>4, <5>1 DEF Queued, Accounted
      <4> QED BY <4>1, <4>2
    <3> QED BY <3>1, <3>2, <3>3, <3>4 DEF Accounted, Queued
  <2>2. ASSUME NEW m \in marked PROVE Marked(m)'
    BY <1>1, <1>6, <2>2, MarkedStays DEF LsInv, NoneLost
  <2> QED BY <1>1, <2>1, <2>2 DEF NoneLost
<1>9. OnlyAFaultKeepsTheCounter'
  BY <1>1, <1>6, CounterStays
<1>10. \A i \in 1 .. Len(events') : Commit(events'[i]) \in 1 .. head
  <2>1. \A i \in 1 .. Len(events') : i + 1 \in 1 .. Len(events)
    BY <1>2
  <2> QED BY <1>2, <2>1 DEF LsInv, Pushed
<1>11. excused' \in BOOLEAN
  BY <1>1, Zenon
<1>12. d.at \in Bearing => Commit(d.d) \in 1 .. head
  BY <1>3, <1>5 DEF Bearing
<1>13. d.at # "create" /\ d.at \notin InPlaces /\ d.at # "mark"
  BY <1>5 DEF InPlaces
<1>14. /\ window' \in [commit : 0 .. MaxHead, due : BOOLEAN] /\ window'.commit <= head
       /\ counter' \in [n : Nat, expires : BOOLEAN] /\ counter'.n = counter.n
       /\ marked \subseteq marked' /\ marked' \subseteq Nat /\ recorded' \subseteq Nat
       /\ lsFaults' \in Nat /\ lsFaults' >= lsFaults
  BY <1>1 DEF LsInv, LsTypes, Pushed, Numbers
<1>15. UNCHANGED <<head, seen, scans, hour, balance>> /\ events' \in Seq(Deliveries)
  BY <1>1, <1>2
<1> QED BY <1>6, <1>8, <1>9, <1>10, <1>11, <1>12, <1>13, <1>14, <1>15, GoesOn

\* What GoesOn asks of the variables other than wk.
Framed ==
    /\ UNCHANGED <<head, seen, scans, hour, balance>>
    /\ events' \in Seq(Deliveries)
    /\ \A i \in 1 .. Len(events') : Commit(events'[i]) \in 1 .. head
    /\ window' \in [commit : 0 .. MaxHead, due : BOOLEAN] /\ window'.commit <= head
    /\ counter' \in [n : Nat, expires : BOOLEAN] /\ counter'.n = counter.n
    /\ marked \subseteq marked' /\ marked' \subseteq Nat /\ recorded' \subseteq Nat
    /\ lsFaults' \in Nat /\ lsFaults' >= lsFaults /\ excused' \in BOOLEAN

LEMMA FrameOf ==
  ASSUME LsInv, UNCHANGED <<head, seen, events, window, counter, marked, balance, scans,
                            hour, lsFaults>>,
         recorded' \subseteq Nat, excused' \in BOOLEAN
  PROVE  Framed
<1>1. \A i \in 1 .. Len(events') : Commit(events'[i]) \in 1 .. head
  BY DEF LsInv, Pushed
<1>2. window' \in [commit : 0 .. MaxHead, due : BOOLEAN] /\ window'.commit <= head
      /\ counter' \in [n : Nat, expires : BOOLEAN] /\ events' \in Seq(Deliveries)
      /\ marked' \subseteq Nat /\ lsFaults' \in Nat /\ lsFaults' >= lsFaults
  BY DEF LsInv, LsTypes, Pushed, Numbers
<1> QED BY <1>1, <1>2 DEF Framed

(* ArmPending: a window that closes over a later commit is what excused says. *)
LEMMA ArmPendingKeeps ==
  ASSUME LsInv, NEW w \in LsWorkers, ArmPending(w)
  PROVE  LsInv'
<1> DEFINE d == [Idle EXCEPT !.at = "list"]
<1>1. PICK c : c = Commit(wk[w].d)
  OBVIOUS
<1>2. /\ wk[w].at = "arm" /\ wk' = [wk EXCEPT ![w] = d]
      /\ window' = [commit |-> c, due |-> window.due]
      /\ excused' = (excused \/ window.commit > c)
      /\ UNCHANGED <<head, seen, events, counter, marked, hook, balance, scans, recorded,
                     hour, lsFaults>>
  BY <1>1 DEF ArmPending
<1>3. c \in 1 .. head /\ c \in 0 .. MaxHead /\ c \in Nat /\ window.commit \in Nat
      /\ window.due \in BOOLEAN
  BY <1>1, <1>2, LsConstants DEF LsInv, LsTypes, Pushed, Bearing
<1>4. d \in Work /\ d.at = "list"
  BY IdleOK DEF Idle, Work, LsPlaces
<1> HIDE DEF d
<1>5. Moves(w, d)
  BY <1>2, <1>4 DEF Moves
<1>6. \A v \in LsWorkers : wk'[v] = IF v = w THEN d ELSE wk[v]
  BY <1>5, Moved
<1>7. NoneLost'
  <2> SUFFICES ASSUME ~excused, ~(window.commit > c) PROVE NoneLost'
    BY <1>2 DEF NoneLost
  <2>1. window.commit <= c /\ window'.commit = c
    BY <1>2, <1>3
  <2>2. ASSUME NEW k \in 1 .. MaxHead, <<"push", k>> \in seen PROVE Accounted(k)'
    <3>1. Accounted(k) /\ k \in Nat
      BY <2>2 DEF LsInv, NoneLost
    <3>2. CASE window.commit >= k
      BY <1>3, <2>1, <3>1, <3>2 DEF Accounted
    <3>3. CASE Queued(k) \/ Answered(k)
      BY <1>2, <3>3 DEF Accounted, Queued, Answered
    <3>4. ASSUME NEW v \in LsWorkers, wk[v].at \in Bearing, Commit(wk[v].d) >= k
          PROVE  Accounted(k)'
      <4>1. CASE v = w
        BY <1>1, <2>1, <3>4, <4>1 DEF Accounted
      <4>2. CASE v # w
        BY <1>6, <3>4, <4>2 DEF Accounted, Held
      <4> QED BY <4>1, <4>2
    <3> QED BY <3>1, <3>2, <3>3, <3>4 DEF Accounted, Held
  <2>3. ASSUME NEW m \in marked PROVE Marked(m)'
    BY <1>2, <1>5, <2>3, MarkedStays DEF LsInv, NoneLost
  <2> QED BY <1>2, <2>2, <2>3 DEF NoneLost
<1>8. OnlyAFaultKeepsTheCounter'
  BY <1>2, <1>5, CounterStays
<1>9. Framed
  <2>1. excused' \in BOOLEAN
    BY <1>2, Zenon
  <2>2. window' \in [commit : 0 .. MaxHead, due : BOOLEAN] /\ window'.commit <= head
    BY <1>2, <1>3 DEF LsInv, LsTypes
  <2>3. \A i \in 1 .. Len(events') : Commit(events'[i]) \in 1 .. head
    BY <1>2 DEF LsInv, Pushed
  <2> QED BY <1>2, <2>1, <2>2, <2>3 DEF Framed, LsInv, LsTypes, Numbers
<1>10. d.at # "create" /\ d.at \notin InPlaces /\ d.at # "mark" /\ d.at \notin Bearing
  BY <1>4 DEF InPlaces, Bearing
<1> QED BY <1>5, <1>7, <1>8, <1>9, <1>10, GoesOn DEF Framed

LEMMA ListDueKeeps ==
  ASSUME LsInv, NEW w \in LsWorkers, ListDue(w)
  PROVE  LsInv'
<1> DEFINE d == [Idle EXCEPT !.at =
                   IF window.commit # None /\ window.due THEN "claim" ELSE "pop"]
<1>1. /\ wk[w].at \in {"list", "pop"} /\ wk' = [wk EXCEPT ![w] = d]
      /\ UNCHANGED <<head, seen, events, window, counter, marked, hook, balance, scans,
                     recorded, hour, lsFaults, excused>>
  BY DEF ListDue, LooksAtWindows
<1>2. d \in Work /\ d.at \in {"claim", "pop"}
  BY IdleOK DEF Idle, Work, LsPlaces
<1> HIDE DEF d
<1>3. Moves(w, d)
  BY <1>1, <1>2 DEF Moves
<1>4. wk[w].at \notin Bearing /\ wk[w].at # "create"
  BY <1>1 DEF Bearing
<1>5. NoneLost'
  <2>1. \A c \in 1 .. MaxHead : Accounted(c) => Accounted(c)'
    BY <1>1, <1>3, <1>4, HeldMoves
  <2>2. \A m : Marked(m) => Marked(m)'
    BY <1>1, <1>3, <1>4, MarkedStays
  <2> QED BY <1>1, <2>1, <2>2 DEF LsInv, NoneLost
<1>6. OnlyAFaultKeepsTheCounter'
  BY <1>1, <1>3, CounterStays
<1>7. Framed
  BY <1>1, FrameOf DEF LsInv, LsTypes, Numbers
<1>8. d.at # "create" /\ d.at \notin InPlaces /\ d.at # "mark" /\ d.at \notin Bearing
  BY <1>2 DEF InPlaces, Bearing
<1> QED BY <1>3, <1>5, <1>6, <1>7, <1>8, GoesOn DEF Framed

(* popPendingScript: the window's commit goes to the worker. *)
LEMMA ClaimWindowKeeps ==
  ASSUME LsInv, NEW w \in LsWorkers, ClaimWindow(w)
  PROVE  LsInv'
<1> DEFINE takes == window.commit # None /\ hook = "active"
           d == IF takes THEN [Idle EXCEPT !.at = "count", !.d = <<"push", window.commit>>]
                ELSE Idle
<1>1. /\ wk[w].at = "claim" /\ wk' = [wk EXCEPT ![w] = d]
      /\ window' = [commit |-> None, due |-> FALSE]
      /\ excused' = (excused \/ (window.commit # None /\ hook # "active"))
      /\ UNCHANGED <<head, seen, events, counter, marked, hook, balance, scans, recorded,
                     hour, lsFaults>>
  BY DEF ClaimWindow
<1>2. window.commit \in 0 .. MaxHead /\ window.commit \in Nat /\ window.commit <= head
      /\ head \in Nat
  BY LsConstants DEF LsInv, LsTypes, Pushed
<1>3. d \in Work /\ d.at \in {"count", "pop"} /\ (takes => d.at = "count")
      /\ (d.at = "count" => d.d = <<"push", window.commit>> /\ window.commit # None)
  BY <1>2, IdleOK DEF Idle, Work, LsPlaces
<1>4. d.at = "count" => Commit(d.d) = window.commit /\ window.commit \in 1 .. head
  BY <1>2, <1>3 DEF Commit, None
<1> HIDE DEF d
<1>5. Moves(w, d)
  BY <1>1, <1>3 DEF Moves
<1>6. \A v \in LsWorkers : wk'[v] = IF v = w THEN d ELSE wk[v]
  BY <1>5, Moved
<1>7. NoneLost'
  <2> SUFFICES ASSUME ~excused, window.commit = None \/ hook = "active" PROVE NoneLost'
    BY <1>1 DEF NoneLost
  <2>1. ASSUME NEW k \in 1 .. MaxHead, <<"push", k>> \in seen PROVE Accounted(k)'
    <3>1. Accounted(k) /\ k \in Nat /\ k > 0
      BY <2>1 DEF LsInv, NoneLost
    <3>2. CASE window.commit >= k
      <4>1. takes
        BY <1>2, <3>1, <3>2 DEF None
      <4>2. d.at \in Bearing /\ Commit(d.d) >= k
        BY <1>3, <1>4, <3>2, <4>1 DEF Bearing
      <4> QED BY <1>6, <4>2 DEF Accounted, Held
    <3>3. CASE Queued(k) \/ Answered(k)
      BY <1>1, <3>3 DEF Accounted, Queued, Answered
    <3>4. CASE Held(k)
      BY <1>1, <1>6, <3>4 DEF Accounted, Held, Bearing
    <3> QED BY <3>1, <3>2, <3>3, <3>4 DEF Accounted
  <2>2. ASSUME NEW m \in marked PROVE Marked(m)'
    BY <1>1, <1>5, <2>2, MarkedStays DEF LsInv, NoneLost
  <2> QED BY <1>1, <2>1, <2>2 DEF NoneLost
<1>8. OnlyAFaultKeepsTheCounter'
  BY <1>1, <1>5, CounterStays
<1>9. Framed
  <2>1. excused' \in BOOLEAN
    BY <1>1, Zenon
  <2>2. window' \in [commit : 0 .. MaxHead, due : BOOLEAN] /\ window'.commit <= head
    BY <1>1, <1>2, LsConstants DEF None
  <2>3. \A i \in 1 .. Len(events') : Commit(events'[i]) \in 1 .. head
    BY <1>1 DEF LsInv, Pushed
  <2> QED BY <1>1, <2>1, <2>2, <2>3 DEF Framed, LsInv, LsTypes, Numbers
<1>10. d.at # "create" /\ d.at \notin InPlaces /\ d.at # "mark"
       /\ (d.at \in Bearing => Commit(d.d) \in 1 .. head)
  BY <1>3, <1>4 DEF InPlaces, Bearing
<1> QED BY <1>5, <1>7, <1>8, <1>9, <1>10, GoesOn DEF Framed

(* DropOverLimit, the balance too low or the charge refused: the commit has its *)
(* reason recorded.                                                             *)
LEMMA DropKeeps ==
  ASSUME LsInv, NEW w \in LsWorkers, wk[w].at \in {"judge", "create"},
         wk' = [wk EXCEPT ![w] = After(w)], recorded' = recorded \cup {Commit(wk[w].d)},
         UNCHANGED <<head, seen, events, window, counter, marked, balance, scans, hour,
                     lsFaults, excused>>
  PROVE  LsInv'
<1> DEFINE d == After(w)
<1>1. d \in Work /\ d.at \in {"list", "pop"}
  BY IdleOK DEF Idle, Work, LsPlaces, After
<1> HIDE DEF d
<1>2. Moves(w, d)
  BY <1>1 DEF Moves, d
<1>3. PICK r \in recorded' : r \in Nat /\ r = Commit(wk[w].d)
  BY DEF LsInv, Pushed, Bearing
<1>4. r >= Commit(wk[w].d) /\ r \in Nat /\ wk[w].at # "expire"
  BY <1>3
<1>5. NoneLost'
  <2>1. \A c \in 1 .. MaxHead : Accounted(c) => Accounted(c)'
    BY <1>2, <1>4, HeldMoves
  <2>2. \A m : Marked(m) => Marked(m)'
    BY <1>2, <1>4, MarkedStays
  <2> QED BY <2>1, <2>2 DEF LsInv, NoneLost
<1>6. OnlyAFaultKeepsTheCounter'
  BY <1>2, <1>4, CounterStays
<1>7. Framed
  BY <1>3, FrameOf DEF LsInv, LsTypes, Numbers
<1>8. d.at # "create" /\ d.at \notin InPlaces /\ d.at # "mark" /\ d.at \notin Bearing
  BY <1>1 DEF InPlaces, Bearing
<1> QED BY <1>2, <1>5, <1>6, <1>7, <1>8, GoesOn DEF Framed

LEMMA DropOverLimitKeeps ==
  ASSUME LsInv, NEW w \in LsWorkers, DropOverLimit(w)
  PROVE  LsInv'
BY DropKeeps DEF DropOverLimit

LEMMA CreateScanRefusedKeeps ==
  ASSUME LsInv, NEW w \in LsWorkers, CreateScanRefused(w)
  PROVE  LsInv'
BY DropKeeps DEF CreateScanRefused

(* LiveScanAllowed: who passes has the floor left, for now. *)
LEMMA CheckTokensKeeps ==
  ASSUME LsInv, NEW w \in LsWorkers, CheckTokens(w)
  PROVE  LsInv'
<1>1. /\ wk[w].at = "judge" /\ ~(wk[w].n > HourlyLimit)
      /\ wk' = [wk EXCEPT ![w] = IF LeavesFloor THEN [@ EXCEPT !.at = "mark"] ELSE After(w)]
      /\ recorded' = IF LeavesFloor THEN recorded ELSE recorded \cup {Commit(wk[w].d)}
      /\ UNCHANGED <<head, seen, events, window, counter, marked, hook, balance, scans, hour,
                     lsFaults, excused>>
  BY DEF CheckTokens, OverLimit
<1>2. CASE ~LeavesFloor
  BY <1>1, <1>2, DropKeeps
<1>3. CASE LeavesFloor
  <2> DEFINE d == [wk[w] EXCEPT !.at = "mark"]
  <2>1. wk[w] \in Work /\ wk[w].n \in Nat /\ Commit(wk[w].d) \in 1 .. head
    BY <1>1 DEF LsInv, LsTypes, Pushed, Bearing, Work
  <2>2. /\ d \in Work /\ d.at = "mark" /\ d.d = wk[w].d /\ d.hour = wk[w].hour
        /\ d.n = wk[w].n
    BY <2>1 DEF Work, LsPlaces
  <2>3. wk' = [wk EXCEPT ![w] = d] /\ recorded' = recorded
    BY <1>1, <1>3
  <2> HIDE DEF d
  <2>4. Moves(w, d)
    BY <2>2, <2>3 DEF Moves
  <2>5. NoneLost'
    <3>1. \A c \in 1 .. MaxHead : Accounted(c) => Accounted(c)'
      BY <1>1, <2>2, <2>3, <2>4, HeldMoves DEF Bearing
    <3>2. \A m : Marked(m) => Marked(m)'
      BY <1>1, <2>3, <2>4, MarkedStays
    <3> QED BY <1>1, <3>1, <3>2 DEF LsInv, NoneLost
  <2>6. OnlyAFaultKeepsTheCounter'
    BY <1>1, <2>4, CounterStays
  <2>7. Framed
    BY <1>1, <2>3, FrameOf DEF LsInv, LsTypes, Numbers
  <2>8. d.n <= HourlyLimit /\ balance >= Floor + 1 /\ wk[w].at \in InPlaces
    BY <1>1, <1>3, <2>1, <2>2, LsConstants DEF LeavesFloor, InPlaces
  <2> QED BY <2>1, <2>2, <2>4, <2>5, <2>6, <2>7, <2>8, GoesOn DEF Framed
<1> QED BY <1>2, <1>3

LEMMA ExpireCounterKeeps ==
  ASSUME LsInv, NEW w \in LsWorkers, ExpireCounter(w)
  PROVE  LsInv'
<1> DEFINE d == [wk[w] EXCEPT !.at = "judge"]
<1>1. /\ wk[w].at = "expire" /\ wk' = [wk EXCEPT ![w] = d]
      /\ counter' = [counter EXCEPT !.expires = TRUE]
      /\ UNCHANGED <<head, seen, events, window, marked, hook, balance, scans, recorded,
                     hour, lsFaults, excused>>
  BY DEF ExpireCounter
<1>2. wk[w] \in Work /\ Commit(wk[w].d) \in 1 .. head
  BY <1>1 DEF LsInv, LsTypes, Pushed, Bearing
<1>3. d \in Work /\ d.at = "judge" /\ d.d = wk[w].d /\ d.hour = wk[w].hour /\ d.n = wk[w].n
  BY <1>2 DEF Work, LsPlaces
<1> HIDE DEF d
<1>4. Moves(w, d)
  BY <1>1, <1>3 DEF Moves
<1>5. NoneLost'
  <2>1. \A c \in 1 .. MaxHead : Accounted(c) => Accounted(c)'
    BY <1>1, <1>3, <1>4, HeldMoves DEF Bearing
  <2>2. \A m : Marked(m) => Marked(m)'
    BY <1>1, <1>4, MarkedStays
  <2> QED BY <1>1, <2>1, <2>2 DEF LsInv, NoneLost
<1>6. counter' \in [n : Nat, expires : BOOLEAN] /\ counter'.n = counter.n /\ counter'.expires
  BY <1>1 DEF LsInv, LsTypes
<1>7. Framed
  <2>1. \A i \in 1 .. Len(events') : Commit(events'[i]) \in 1 .. head
    BY <1>1 DEF LsInv, Pushed
  <2> QED BY <1>1, <1>6, <2>1 DEF Framed, LsInv, LsTypes, Numbers, Pushed
<1>8. OnlyAFaultKeepsTheCounter'
  BY <1>6 DEF OnlyAFaultKeepsTheCounter
<1>9. d.at # "create" /\ d.at # "mark" /\ wk[w].at \in InPlaces
  BY <1>1, <1>3 DEF InPlaces
<1> QED BY <1>2, <1>3, <1>4, <1>5, <1>7, <1>8, <1>9, GoesOn DEF Framed

LEMMA LoseWorkKeeps ==
  ASSUME LsInv, NEW w \in LsWorkers, LoseWork(w)
  PROVE  LsInv'
<1>1. /\ wk' = [wk EXCEPT ![w] = Idle] /\ lsFaults' = lsFaults + 1 /\ excused' = TRUE
      /\ UNCHANGED <<head, seen, events, window, counter, marked, hook, balance, scans,
                     recorded, hour>>
  BY DEF LoseWork
<1>2. Moves(w, Idle)
  BY <1>1, IdleOK DEF Moves
<1>3. lsFaults' \in Nat /\ lsFaults' >= lsFaults /\ lsFaults' > 0
  BY <1>1 DEF LsInv, LsTypes
<1>4. NoneLost' /\ OnlyAFaultKeepsTheCounter'
  BY <1>1, <1>3 DEF NoneLost, OnlyAFaultKeepsTheCounter
<1>5. Framed
  <2>1. excused' \in BOOLEAN
    BY <1>1, Zenon
  <2>2. \A i \in 1 .. Len(events') : Commit(events'[i]) \in 1 .. head
    BY <1>1 DEF LsInv, Pushed
  <2> QED BY <1>1, <1>3, <2>1, <2>2 DEF Framed, LsInv, LsTypes, Numbers, Pushed
<1>6. Idle.at # "create" /\ Idle.at # "mark" /\ Idle.at \notin InPlaces /\ Idle.at \notin Bearing
  BY IdleOK DEF InPlaces, Bearing
<1> QED BY <1>2, <1>4, <1>5, <1>6, GoesOn DEF Framed

(* IncrWindowCount: the trigger is one of the hour's, and may become a scan if it *)
(* is among the first.                                                            *)
LEMMA CountTriggerKeeps ==
  ASSUME LsInv, NEW w \in LsWorkers, CountTrigger(w)
  PROVE  LsInv'
<1>1. PICK n \in Nat : n = counter.n + 1
  BY DEF LsInv, LsTypes
<1>2. PICK at \in {"expire", "judge"} : at = IF StartsHour(n) THEN "expire" ELSE "judge"
  OBVIOUS
<1> DEFINE d == [wk[w] EXCEPT !.n = n, !.hour = hour, !.at = at]
<1>3. /\ wk[w].at = "count" /\ wk' = [wk EXCEPT ![w] = d]
      /\ counter' = [counter EXCEPT !.n = n]
      /\ UNCHANGED <<head, seen, events, window, marked, hook, balance, scans, recorded,
                     hour, lsFaults, excused>>
  BY <1>1, <1>2 DEF CountTrigger, LsInv, LsTypes, Work
<1>4. wk[w] \in Work /\ Commit(wk[w].d) \in 1 .. head /\ hour \in Nat
  BY <1>3 DEF LsInv, LsTypes, Pushed, Bearing
<1>5. d \in Work /\ d.at = at /\ d.d = wk[w].d /\ d.hour = hour /\ d.n = n
  BY <1>4 DEF Work, LsPlaces
<1> HIDE DEF d
<1>6. Moves(w, d)
  BY <1>3, <1>5 DEF Moves
<1>7. /\ wk' \in [LsWorkers -> Work]
      /\ \A v \in LsWorkers : wk'[v] = IF v = w THEN d ELSE wk[v]
  BY <1>6, Moved
<1>8. /\ counter' \in [n : Nat, expires : BOOLEAN]
      /\ counter'.n = n /\ counter'.expires = counter.expires
  BY <1>3 DEF LsInv, LsTypes
<1>9. LsTypes' /\ Numbers'
  BY <1>3, <1>7, <1>8 DEF LsInv, LsTypes, Numbers
<1>10. Pushed'
  BY <1>3, <1>4, <1>5, <1>7 DEF LsInv, Pushed
<1>11. Paying' /\ FloorIsKept'
  BY <1>3, <1>5, <1>7 DEF LsInv, Paying, IsPaying, FloorIsKept
<1>12. OnlyAFaultKeepsTheCounter'
  <2>1. CASE n = 1
    <3>1. wk'[w].at = "expire"
      BY <1>2, <1>5, <1>7, <2>1 DEF StartsHour
    <3> QED BY <3>1 DEF OnlyAFaultKeepsTheCounter
  <2>2. CASE n # 1
    <3>1. counter.n > 0
      BY <1>1, <2>2 DEF LsInv, LsTypes
    <3> QED BY <1>3, <1>7, <1>8, <3>1 DEF LsInv, OnlyAFaultKeepsTheCounter
  <2> QED BY <2>1, <2>2
<1>13. AllOnce'
  <2>1. ASSUME NEW c \in 1 .. MaxHead PROVE Creating(c)' \subseteq Creating(c)
    BY <1>5, <1>7 DEF Creating
  <2>2. lsFaults' \in Nat /\ lsFaults' >= lsFaults
    BY <1>3 DEF LsInv, LsTypes
  <2> QED BY <1>3, <2>1, <2>2, OnceStays DEF AllOnce
<1>14. AllHours'
  <2> SUFFICES ASSUME NEW h \in Nat PROVE HourOK(h)'
    BY DEF AllHours
  <2>1. HourOK(h)
    BY DEF LsInv, AllHours
  <2> DEFINE S == Cardinality(ScansIn(h))
             T == Cardinality(Triggers(h))
             U == Cardinality(Triggers(h)')
  <2>2. ScansIn(h)' = ScansIn(h)
    BY <1>3 DEF ScansIn
  <2>3. Cardinality(ScansIn(h)') = S /\ IsFiniteSet(ScansIn(h)')
    BY <2>1, <2>2, Zenon DEF HourOK
  <2>4. S \in Nat /\ T \in Nat /\ S + T <= HourlyLimit /\ S + T <= Allowed(h)
    BY <2>1, FS_CardinalityType DEF HourOK
  <2>5. CASE h = hour /\ n <= HourlyLimit
    <3>1. Triggers(h)' = Triggers(h) \cup {w}
      BY <1>3, <1>5, <1>7, <2>5 DEF Triggers, InPlaces
    <3>2. IsFiniteSet(Triggers(h) \cup {w}) /\ Cardinality(Triggers(h) \cup {w}) <= T + 1
          /\ Cardinality(Triggers(h) \cup {w}) \in Nat
      BY <2>1, Counted DEF HourOK
    <3>3. IsFiniteSet(Triggers(h)') /\ U <= T + 1 /\ U \in Nat
      BY <3>1, <3>2, Zenon
    <3>4. Allowed(h) = counter.n /\ Allowed(h)' = n
      BY <1>3, <1>4, <1>8, <2>5 DEF Allowed
    <3>5. counter.n \in Nat
      BY DEF LsInv, LsTypes
    <3> HIDE DEF S, T, U
    <3>6. S + U <= n /\ S + U <= HourlyLimit
      BY <1>1, <2>4, <2>5, <3>3, <3>4, <3>5, LsConstants
    <3> QED BY <2>3, <3>3, <3>4, <3>6 DEF HourOK, S, U
  <2>6. CASE ~(h = hour /\ n <= HourlyLimit)
    <3>1. Triggers(h)' = Triggers(h)
      BY <1>3, <1>5, <1>7, <2>6 DEF Triggers, InPlaces
    <3>2. IsFiniteSet(Triggers(h)') /\ U = T
      BY <2>1, <3>1, Zenon DEF HourOK
    <3>3. Allowed(h)' >= Allowed(h) /\ Allowed(h)' \in Nat /\ Allowed(h) \in Nat
      BY <1>1, <1>3, <1>4, <1>8, LsConstants DEF Allowed, LsInv, LsTypes
    <3> HIDE DEF S, T, U
    <3>4. S + U <= Allowed(h)' /\ S + U <= HourlyLimit
      BY <2>4, <3>2, <3>3
    <3> QED BY <2>3, <3>2, <3>4 DEF HourOK, S, U
  <2> QED BY <2>5, <2>6
<1>15. NoneLost'
  <2>1. \A c \in 1 .. MaxHead : Accounted(c) => Accounted(c)'
    BY <1>3, <1>5, <1>6, HeldMoves DEF Bearing
  <2>2. \A m : Marked(m) => Marked(m)'
    BY <1>3, <1>6, MarkedStays
  <2> QED BY <1>3, <2>1, <2>2 DEF LsInv, NoneLost
<1> QED BY <1>9, <1>10, <1>11, <1>12, <1>13, <1>14, <1>15 DEF LsInv

(* A worker about to create the scan: the marker it set, or the fault, allows for it. *)
LEMMA Admitted ==
  ASSUME LsInv, NEW w \in LsWorkers, wk[w].at = "mark", wk' = [wk EXCEPT ![w].at = "create"],
         NEW c, c = Commit(wk[w].d),
         marked' \subseteq marked \cup {c}, marked \subseteq marked', lsFaults' \in Nat,
         \/ c \notin marked /\ c \in marked' /\ lsFaults' = lsFaults
         \/ lsFaults' = lsFaults + 1 /\ marked' = marked,
         excused' \in BOOLEAN, ~excused' => ~excused /\ c \in marked' /\ lsFaults' = lsFaults,
         UNCHANGED <<head, seen, events, window, counter, balance, scans, recorded, hour>>
  PROVE  LsInv'
<1> DEFINE d == [wk[w] EXCEPT !.at = "create"]
<1>1. wk[w] \in Work /\ c \in 1 .. head /\ c \in 1 .. MaxHead /\ c \in Nat
  BY LsConstants DEF LsInv, LsTypes, Pushed, Bearing
<1>2. /\ d \in Work /\ d.at = "create" /\ d.d = wk[w].d /\ d.hour = wk[w].hour
      /\ d.n = wk[w].n /\ d.raced = wk[w].raced
  BY <1>1 DEF Work, LsPlaces
<1>3. wk' = [wk EXCEPT ![w] = d]
  OBVIOUS
<1> HIDE DEF d
<1>4. Moves(w, d)
  BY <1>2, <1>3 DEF Moves
<1>5. /\ wk' \in [LsWorkers -> Work]
      /\ \A v \in LsWorkers : wk'[v] = IF v = w THEN d ELSE wk[v]
  BY <1>4, Moved
<1>6. LsTypes' /\ Numbers'
  BY <1>1, <1>5 DEF LsInv, LsTypes, Numbers
<1>7. Pushed'
  BY <1>1, <1>2, <1>5 DEF LsInv, Pushed
<1>8. Paying' /\ FloorIsKept'
  BY <1>2, <1>5 DEF LsInv, Paying, IsPaying, FloorIsKept
<1>9. lsFaults \in Nat /\ lsFaults' >= lsFaults
  BY DEF LsInv, LsTypes
<1>10. OnlyAFaultKeepsTheCounter'
  BY <1>2, <1>5, <1>9 DEF LsInv, OnlyAFaultKeepsTheCounter
<1>11. AllHours'
  <2>1. ASSUME NEW h \in Nat PROVE Triggers(h)' \subseteq Triggers(h)
    BY <1>2, <1>5 DEF Triggers, InPlaces
  <2> QED BY <2>1, HourStays DEF AllHours
<1>12. AllOnce'
  <2> SUFFICES ASSUME NEW k \in 1 .. MaxHead PROVE OnceOK(k)'
    BY DEF AllOnce
  <2>1. CASE k # c
    <3>1. Creating(k)' \subseteq Creating(k)
      BY <1>2, <1>5, <2>1 DEF Creating
    <3> QED BY <1>9, <3>1, OnceStays
  <2>2. CASE k = c
    <3> DEFINE S == Cardinality(ScansOf(c))
               T == Cardinality(Creating(c))
               U == Cardinality(Creating(c)')
    <3>1. OnceOK(c)
      BY <1>1 DEF LsInv, AllOnce
    <3>2. ScansOf(c)' = ScansOf(c)
      BY DEF ScansOf
    <3>3. Cardinality(ScansOf(c)') = S /\ IsFiniteSet(ScansOf(c)')
      BY <3>1, <3>2, Zenon DEF OnceOK
    <3>4. Creating(c)' = Creating(c) \cup {w}
      BY <1>2, <1>5 DEF Creating
    <3>5. IsFiniteSet(Creating(c) \cup {w}) /\ Cardinality(Creating(c) \cup {w}) <= T + 1
          /\ Cardinality(Creating(c) \cup {w}) \in Nat
      BY <3>1, Counted DEF OnceOK
    <3>6. IsFiniteSet(Creating(c)') /\ U <= T + 1 /\ U \in Nat
      BY <3>4, <3>5, Zenon
    <3>7. Markers(c)' = Markers(c) + 1 /\ Markers(c) \in Nat
      BY <1>9 DEF Markers
    <3>8. S \in Nat /\ T \in Nat /\ S + T <= Markers(c)
      BY <3>1, FS_CardinalityType DEF OnceOK
    <3> HIDE DEF S, T, U
    <3>9. S + U <= Markers(c)'
      BY <3>6, <3>7, <3>8
    <3>10. OnceOK(c)'
      BY <3>3, <3>6, <3>9 DEF OnceOK, S, U
    <3> QED BY <2>2, <3>10
  <2> QED BY <2>1, <2>2
<1>13. NoneLost'
  <2> SUFFICES ASSUME ~excused, ~excused' PROVE NoneLost'
    BY DEF NoneLost
  <2>1. \A k \in 1 .. MaxHead : Accounted(k) => Accounted(k)'
    BY <1>2, <1>4, HeldMoves DEF Bearing
  <2>2. \A m \in marked : Marked(m)'
    BY <1>4, MarkedStays DEF LsInv, NoneLost
  <2>3. Marked(c)'
    BY <1>2, <1>5 DEF Marked
  <2> QED BY <2>1, <2>2, <2>3 DEF LsInv, NoneLost
<1> QED BY <1>6, <1>7, <1>8, <1>10, <1>11, <1>12, <1>13 DEF LsInv

(* SETNX: a commit that was marked before has its scan, or its worker. *)
LEMMA MarkCommitKeeps ==
  ASSUME LsInv, NEW w \in LsWorkers, MarkCommit(w)
  PROVE  LsInv'
<1>1. PICK c : c = Commit(wk[w].d)
  OBVIOUS
<1>2. /\ wk[w].at = "mark" /\ marked' = marked \cup {c}
      /\ wk' = [wk EXCEPT ![w] = IF c \notin marked THEN [@ EXCEPT !.at = "create"] ELSE After(w)]
      /\ UNCHANGED <<head, seen, events, window, counter, hook, balance, scans, recorded,
                     hour, lsFaults, excused>>
  BY <1>1 DEF MarkCommit, Unmarked
<1>3. lsFaults' \in Nat /\ excused' \in BOOLEAN
  BY <1>2 DEF LsInv, LsTypes
<1>4. CASE c \notin marked
  <2>1. wk' = [wk EXCEPT ![w].at = "create"] /\ marked \subseteq marked' /\ c \in marked'
    BY <1>2, <1>4
  <2> QED BY <1>1, <1>2, <1>3, <1>4, <2>1, Admitted
<1>5. CASE c \in marked
  <2> DEFINE d == After(w)
  <2>1. d \in Work /\ d.at \in {"list", "pop"}
    BY IdleOK DEF Idle, Work, LsPlaces, After
  <2>2. wk' = [wk EXCEPT ![w] = d] /\ marked' = marked
    BY <1>2, <1>5
  <2> HIDE DEF d
  <2>3. Moves(w, d)
    BY <2>1, <2>2 DEF Moves
  <2>4. NoneLost'
    <3> SUFFICES ASSUME ~excused PROVE NoneLost'
      BY <1>2 DEF NoneLost
    <3>1. Marked(c)
      BY <1>5 DEF LsInv, NoneLost
    <3>2. \/ \E s \in scans' : s.head \in Nat /\ s.head >= c
          \/ \E r \in recorded' : r \in Nat /\ r >= c
          \/ \E v \in LsWorkers \ {w} : wk[v].at \in Bearing /\ Commit(wk[v].d) = c
      BY <1>2, <3>1 DEF Marked, Answered, Bearing, LsInv, Numbers
    <3>3. \A k \in 1 .. MaxHead : Accounted(k) => Accounted(k)'
      BY <1>1, <1>2, <2>3, <3>2, HeldMoves
    <3>4. \A m : Marked(m) => Marked(m)'
      BY <1>2, <2>3, MarkedStays
    <3> QED BY <1>2, <2>2, <3>3, <3>4 DEF LsInv, NoneLost
  <2>5. OnlyAFaultKeepsTheCounter'
    BY <1>2, <2>3, CounterStays
  <2>6. Framed
    BY <1>2, <1>3, <2>2, FrameOf DEF LsInv, LsTypes, Numbers
  <2>7. d.at # "create" /\ d.at \notin InPlaces /\ d.at # "mark" /\ d.at \notin Bearing
    BY <2>1 DEF InPlaces, Bearing
  <2> QED BY <2>3, <2>4, <2>5, <2>6, <2>7, GoesOn DEF Framed
<1> QED BY <1>4, <1>5

LEMMA MarkCommitFailsKeeps ==
  ASSUME LsInv, NEW w \in LsWorkers, MarkCommitFails(w)
  PROVE  LsInv'
<1>1. /\ wk[w].at = "mark" /\ wk' = [wk EXCEPT ![w].at = "create"]
      /\ lsFaults' = lsFaults + 1 /\ excused' = TRUE
      /\ UNCHANGED <<head, seen, events, window, counter, marked, hook, balance, scans,
                     recorded, hour>>
  BY DEF MarkCommitFails
<1>2. lsFaults' \in Nat
  BY <1>1 DEF LsInv, LsTypes
<1>3. excused' \in BOOLEAN /\ excused'
  BY <1>1, Zenon
<1> QED BY <1>1, <1>2, <1>3, Admitted

(* CreateScan: the worker's place in both tallies becomes the scan's, and who looked *)
(* at the balance before is overtaken.                                               *)
LEMMA CreateScanKeeps ==
  ASSUME LsInv, NEW w \in LsWorkers, CreateScan(w)
  PROVE  LsInv'
<1>1. PICK c : c = Commit(wk[w].d)
  OBVIOUS
<1>2. PICK s : s = [commit |-> c, head |-> head, hour |-> wk[w].hour, left |-> balance - 1,
                    raced |-> wk[w].raced, nth |-> Cardinality(scans)]
  OBVIOUS
<1>3. /\ wk[w].at = "create" /\ balance > 0 /\ balance' = balance - 1
      /\ scans' = scans \cup {s}
      /\ wk' = [v \in LsWorkers |-> IF v = w THEN After(w)
                                    ELSE [wk[v] EXCEPT !.raced = @ \/ IsPaying(v)]]
      /\ UNCHANGED <<head, seen, events, window, counter, marked, hook, recorded, hour,
                     lsFaults, excused>>
  BY <1>1, <1>2 DEF CreateScan
<1>4. /\ s.commit = c /\ s.head = head /\ s.hour = wk[w].hour /\ s.left = balance - 1
      /\ s.raced = wk[w].raced
  BY <1>2
<1>5. wk[w] \in Work /\ c \in 1 .. head /\ head \in Nat /\ balance \in Nat
  BY <1>1, <1>3 DEF LsInv, LsTypes, Pushed, Bearing
<1>6. After(w) \in Work /\ After(w).at \in {"list", "pop"}
  BY IdleOK DEF Idle, Work, LsPlaces, After
<1>7. \A v \in LsWorkers : v # w =>
        /\ wk'[v].at = wk[v].at /\ wk'[v].d = wk[v].d /\ wk'[v].hour = wk[v].hour
        /\ wk'[v].n = wk[v].n /\ (IsPaying(v) => wk'[v].raced)
  BY <1>3 DEF LsInv, LsTypes, Work
<1>8. wk'[w] = After(w)
  BY <1>3
<1>9. wk' \in [LsWorkers -> Work]
  <2>1. ASSUME NEW v \in LsWorkers PROVE wk'[v] \in Work
    <3>1. CASE v = w
      BY <1>6, <1>8, <3>1
    <3>2. CASE v # w
      <4>1. wk[v] \in Work
        BY DEF LsInv, LsTypes
      <4>2. (wk[v].raced \/ IsPaying(v)) \in BOOLEAN
        OBVIOUS
      <4>3. wk'[v] = [wk[v] EXCEPT !.raced = wk[v].raced \/ IsPaying(v)]
        BY <1>3, <3>2
      <4> QED BY <4>1, <4>2, <4>3 DEF Work
    <3> QED BY <3>1, <3>2
  <2> QED BY <1>3, <2>1
<1>10. LsTypes'
  <2>1. balance' \in Nat
    BY <1>3, <1>5
  <2> QED BY <1>3, <1>9, <2>1 DEF LsInv, LsTypes
<1>11. Numbers'
  BY <1>3, <1>4, <1>5 DEF LsInv, Numbers
<1>12. Pushed'
  BY <1>3, <1>6, <1>7, <1>8 DEF LsInv, Pushed, Bearing
<1>13. Paying'
  BY <1>6, <1>7, <1>8 DEF LsInv, Paying, IsPaying
<1>14. FloorIsKept'
  <2>1. s.left >= Floor \/ s.raced
    BY <1>3, <1>4, <1>5, LsConstants DEF LsInv, Paying, IsPaying
  <2> QED BY <1>3, <2>1 DEF LsInv, FloorIsKept
<1>15. OnlyAFaultKeepsTheCounter'
  BY <1>3, <1>7, <1>8 DEF LsInv, OnlyAFaultKeepsTheCounter
<1>16. AllOnce'
  <2> SUFFICES ASSUME NEW k \in 1 .. MaxHead PROVE OnceOK(k)'
    BY DEF AllOnce
  <2> DEFINE S == Cardinality(ScansOf(k))
             S2 == Cardinality(ScansOf(k)')
             T == Cardinality(Creating(k))
             U == Cardinality(Creating(k)')
  <2>1. OnceOK(k)
    BY DEF LsInv, AllOnce
  <2>2. Creating(k)' = Creating(k) \ {w}
    BY <1>6, <1>7, <1>8 DEF Creating
  <2>3. Markers(k)' = Markers(k) /\ Markers(k) \in Nat
    BY <1>3 DEF Markers, LsInv, LsTypes
  <2>4. S \in Nat /\ T \in Nat /\ S + T <= Markers(k)
    BY <2>1, FS_CardinalityType DEF OnceOK
  <2>5. IsFiniteSet(Creating(k) \ {w}) /\ Cardinality(Creating(k) \ {w}) \in Nat
        /\ (w \in Creating(k) => Cardinality(Creating(k) \ {w}) = T - 1)
    BY <2>1, Counted DEF OnceOK
  <2>6. IsFiniteSet(Creating(k)') /\ U \in Nat /\ (w \in Creating(k) => U = T - 1)
    BY <2>2, <2>5, Zenon
  <2>7. CASE k = c
    <3>1. w \in Creating(k)
      BY <1>1, <1>3, <2>7 DEF Creating
    <3>2. ScansOf(k)' = ScansOf(k) \cup {s}
      BY <1>3, <1>4, <2>7 DEF ScansOf
    <3>3. IsFiniteSet(ScansOf(k) \cup {s}) /\ Cardinality(ScansOf(k) \cup {s}) <= S + 1
          /\ Cardinality(ScansOf(k) \cup {s}) \in Nat
      BY <2>1, Counted DEF OnceOK
    <3>4. IsFiniteSet(ScansOf(k)') /\ S2 <= S + 1 /\ S2 \in Nat
      BY <3>2, <3>3, Zenon
    <3> HIDE DEF S, S2, T, U
    <3>5. S2 + U <= Markers(k)'
      BY <2>3, <2>4, <2>6, <3>1, <3>4
    <3> QED BY <2>6, <3>4, <3>5 DEF OnceOK, S2, U
  <2>8. CASE k # c
    <3>1. ScansOf(k)' = ScansOf(k)
      BY <1>3, <1>4, <2>8 DEF ScansOf
    <3>2. IsFiniteSet(ScansOf(k)') /\ S2 = S
      BY <2>1, <3>1, Zenon DEF OnceOK
    <3>3. w \notin Creating(k)
      BY <1>1, <2>8 DEF Creating
    <3>4. Creating(k)' = Creating(k)
      BY <2>2, <3>3
    <3>5. U = T
      BY <3>4, Zenon
    <3> HIDE DEF S, S2, T, U
    <3>6. S2 + U <= Markers(k)'
      BY <2>3, <2>4, <3>2, <3>5
    <3> QED BY <2>6, <3>2, <3>6 DEF OnceOK, S2, U
  <2> QED BY <2>7, <2>8
<1>17. AllHours'
  <2> SUFFICES ASSUME NEW h \in Nat PROVE HourOK(h)'
    BY DEF AllHours
  <2> DEFINE S == Cardinality(ScansIn(h))
             S2 == Cardinality(ScansIn(h)')
             T == Cardinality(Triggers(h))
             U == Cardinality(Triggers(h)')
  <2>1. HourOK(h)
    BY DEF LsInv, AllHours
  <2>2. Triggers(h)' = Triggers(h) \ {w}
    BY <1>6, <1>7, <1>8 DEF Triggers, InPlaces
  <2>3. Allowed(h)' = Allowed(h) /\ Allowed(h) \in Nat /\ HourlyLimit \in Nat
    BY <1>3, LsConstants DEF Allowed, LsInv, LsTypes
  <2>4. S \in Nat /\ T \in Nat /\ S + T <= Allowed(h) /\ S + T <= HourlyLimit
    BY <2>1, FS_CardinalityType DEF HourOK
  <2>5. IsFiniteSet(Triggers(h) \ {w}) /\ Cardinality(Triggers(h) \ {w}) \in Nat
        /\ (w \in Triggers(h) => Cardinality(Triggers(h) \ {w}) = T - 1)
    BY <2>1, Counted DEF HourOK
  <2>6. IsFiniteSet(Triggers(h)') /\ U \in Nat /\ (w \in Triggers(h) => U = T - 1)
    BY <2>2, <2>5, Zenon
  <2>7. CASE h = wk[w].hour
    <3>1. w \in Triggers(h)
      BY <1>3, <2>7 DEF Triggers, InPlaces, LsInv, Paying, IsPaying
    <3>2. ScansIn(h)' = ScansIn(h) \cup {s}
      BY <1>3, <1>4, <2>7 DEF ScansIn
    <3>3. IsFiniteSet(ScansIn(h) \cup {s}) /\ Cardinality(ScansIn(h) \cup {s}) <= S + 1
          /\ Cardinality(ScansIn(h) \cup {s}) \in Nat
      BY <2>1, Counted DEF HourOK
    <3>4. IsFiniteSet(ScansIn(h)') /\ S2 <= S + 1 /\ S2 \in Nat
      BY <3>2, <3>3, Zenon
    <3> HIDE DEF S, S2, T, U
    <3>5. S2 + U <= Allowed(h)' /\ S2 + U <= HourlyLimit
      BY <2>3, <2>4, <2>6, <3>1, <3>4
    <3> QED BY <2>6, <3>4, <3>5 DEF HourOK, S2, U
  <2>8. CASE h # wk[w].hour
    <3>1. ScansIn(h)' = ScansIn(h)
      BY <1>3, <1>4, <2>8 DEF ScansIn
    <3>2. IsFiniteSet(ScansIn(h)') /\ S2 = S
      BY <2>1, <3>1, Zenon DEF HourOK
    <3>3. w \notin Triggers(h)
      BY <2>8 DEF Triggers
    <3>4. Triggers(h)' = Triggers(h)
      BY <2>2, <3>3
    <3>5. U = T
      BY <3>4, Zenon
    <3> HIDE DEF S, S2, T, U
    <3>6. S2 + U <= Allowed(h)' /\ S2 + U <= HourlyLimit
      BY <2>3, <2>4, <3>2, <3>5
    <3> QED BY <2>6, <3>2, <3>6 DEF HourOK, S2, U
  <2> QED BY <2>7, <2>8
<1>18. NoneLost'
  <2> SUFFICES ASSUME ~excused PROVE NoneLost'
    BY <1>3 DEF NoneLost
  <2>1. s \in scans' /\ s.head >= c
    BY <1>3, <1>4, <1>5
  <2>2. ASSUME NEW k \in 1 .. MaxHead, Accounted(k) PROVE Accounted(k)'
    <3>1. Queued(k) \/ window.commit >= k \/ Answered(k) => Accounted(k)'
      BY <1>3 DEF Accounted, Queued, Answered
    <3>2. ASSUME NEW v \in LsWorkers, wk[v].at \in Bearing, Commit(wk[v].d) >= k
          PROVE  Accounted(k)'
      <4>1. CASE v = w
        <5>1. s.head >= k
          BY <1>1, <1>4, <1>5, <3>2, <4>1
        <5> QED BY <2>1, <5>1 DEF Accounted, Answered
      <4>2. CASE v # w
        BY <1>7, <3>2, <4>2 DEF Accounted, Held
      <4> QED BY <4>1, <4>2
    <3> QED BY <2>2, <3>1, <3>2 DEF Accounted, Held
  <2>3. ASSUME NEW m \in marked, Marked(m) PROVE Marked(m)'
    <3>1. CASE Answered(m)
      BY <1>3, <3>1 DEF Marked, Answered
    <3>2. ASSUME NEW v \in LsWorkers, wk[v].at = "create", Commit(wk[v].d) = m PROVE Marked(m)'
      <4>1. CASE v = w
        BY <1>1, <2>1, <3>2, <4>1 DEF Marked, Answered
      <4>2. CASE v # w
        BY <1>7, <3>2, <4>2 DEF Marked
      <4> QED BY <4>1, <4>2
    <3> QED BY <2>3, <3>1, <3>2 DEF Marked
  <2> QED BY <1>3, <2>2, <2>3 DEF LsInv, NoneLost
<1> QED BY <1>10, <1>11, <1>12, <1>13, <1>14, <1>15, <1>16, <1>17, <1>18 DEF LsInv

(* GitHub, the people and the clock: the workers keep what they hold. *)
LEMMA WorkersStay ==
  ASSUME LsInv, UNCHANGED <<wk, scans, marked, recorded, balance>>,
         lsFaults' \in Nat, lsFaults' >= lsFaults
  PROVE  /\ Paying' /\ FloorIsKept' /\ Numbers' /\ AllOnce'
         /\ \A c : Held(c)' = Held(c) /\ Answered(c)' = Answered(c) /\ Marked(c)' = Marked(c)
         /\ \A h : Triggers(h)' = Triggers(h)
<1>1. Paying' /\ FloorIsKept' /\ Numbers'
  BY DEF LsInv, Paying, IsPaying, FloorIsKept, Numbers
<1>2. \A c : Creating(c)' = Creating(c)
  BY DEF Creating
<1>3. AllOnce'
  BY <1>2, OnceStays DEF AllOnce
<1>4. \A c : Held(c)' = Held(c) /\ Answered(c)' = Answered(c) /\ Marked(c)' = Marked(c)
  BY DEF Held, Answered, Marked
<1>5. \A h : Triggers(h)' = Triggers(h)
  BY DEF Triggers
<1> QED BY <1>1, <1>3, <1>4, <1>5

LEMMA PushKeeps ==
  ASSUME LsInv, Push
  PROVE  LsInv'
<1>1. head < MaxHead /\ head' = head + 1
      /\ UNCHANGED <<seen, events, window, counter, marked, hook, balance, wk, scans,
                     recorded, hour, lsFaults, excused>>
  BY DEF Push
<1>2. head \in Nat /\ head' \in 0 .. MaxHead /\ head' \in Nat /\ lsFaults \in Nat
      /\ window.commit \in Nat
  BY <1>1, LsConstants DEF LsInv, LsTypes
<1>3. /\ Paying' /\ FloorIsKept' /\ Numbers' /\ AllOnce'
      /\ \A c : Held(c)' = Held(c) /\ Answered(c)' = Answered(c) /\ Marked(c)' = Marked(c)
      /\ \A h : Triggers(h)' = Triggers(h)
  BY <1>1, <1>2, WorkersStay
<1>4. LsTypes'
  BY <1>1, <1>2 DEF LsInv, LsTypes
<1>5. Pushed'
  <2>1. \A i \in 1 .. head : i \in 1 .. head'
    BY <1>1, <1>2
  <2>2. window'.commit <= head'
    BY <1>1, <1>2 DEF LsInv, Pushed
  <2> QED BY <1>1, <2>1, <2>2 DEF LsInv, Pushed
<1>6. AllHours'
  BY <1>1, <1>3, HourStays DEF AllHours
<1>7. OnlyAFaultKeepsTheCounter'
  BY <1>1 DEF LsInv, OnlyAFaultKeepsTheCounter
<1>8. NoneLost'
  BY <1>1, <1>3 DEF LsInv, NoneLost, Accounted, Queued
<1> QED BY <1>3, <1>4, <1>5, <1>6, <1>7, <1>8 DEF LsInv

(* Receive: what is seen for the first time is queued. *)
LEMMA ReceiveKeeps ==
  ASSUME LsInv, NEW e \in Deliveries, Receive(e)
  PROVE  LsInv'
<1>1. /\ Commit(e) <= head /\ seen' = seen \cup {e}
      /\ events' = IF e \in seen THEN events ELSE Append(events, e)
      /\ UNCHANGED <<head, window, counter, marked, hook, balance, wk, scans, recorded,
                     hour, lsFaults, excused>>
  BY DEF Receive, Exists
<1>2. events \in Seq(Deliveries) /\ Len(events) \in Nat /\ lsFaults \in Nat /\ head \in Nat
      /\ Commit(e) \in 1 .. MaxHead
  BY DEF LsInv, LsTypes, Deliveries, Commit
<1>3. /\ Paying' /\ FloorIsKept' /\ Numbers' /\ AllOnce'
      /\ \A c : Held(c)' = Held(c) /\ Answered(c)' = Answered(c) /\ Marked(c)' = Marked(c)
      /\ \A h : Triggers(h)' = Triggers(h)
  BY <1>1, <1>2, WorkersStay
<1>4. events' \in Seq(Deliveries) /\ Len(events') \in Nat /\ Len(events') >= Len(events)
      /\ \A i \in 1 .. Len(events) : events'[i] = events[i] /\ i \in 1 .. Len(events')
  BY <1>1, <1>2
<1>5. e \notin seen => Len(events') = Len(events) + 1 /\ events'[Len(events')] = e
  BY <1>1, <1>2
<1>6. \A i \in 1 .. Len(events') : i \notin 1 .. Len(events) => events'[i] = e
  BY <1>1, <1>2
<1>7. LsTypes'
  BY <1>1, <1>4 DEF LsInv, LsTypes
<1>8. Pushed'
  <2>1. Commit(e) \in 1 .. head
    BY <1>1, <1>2
  <2>2. \A i \in 1 .. Len(events') : Commit(events'[i]) \in 1 .. head'
    BY <1>1, <1>4, <1>6, <2>1 DEF LsInv, Pushed
  <2> QED BY <1>1, <2>2 DEF LsInv, Pushed
<1>9. AllHours'
  BY <1>1, <1>3, HourStays DEF AllHours
<1>10. OnlyAFaultKeepsTheCounter'
  BY <1>1 DEF LsInv, OnlyAFaultKeepsTheCounter
<1>11. NoneLost'
  <2> SUFFICES ASSUME ~excused PROVE NoneLost'
    BY <1>1 DEF NoneLost
  <2>1. \A c : Accounted(c) => Accounted(c)'
    BY <1>1, <1>3, <1>4 DEF Accounted, Queued
  <2>2. ASSUME NEW c \in 1 .. MaxHead, <<"push", c>> \in seen' PROVE Accounted(c)'
    <3>1. CASE <<"push", c>> \in seen
      BY <2>1, <3>1 DEF LsInv, NoneLost
    <3>2. CASE <<"push", c>> \notin seen
      <4>1. e = <<"push", c>> /\ e \notin seen
        BY <1>1, <2>2, <3>2
      <4>2. Len(events') \in 1 .. Len(events') /\ events'[Len(events')] = <<"push", c>>
        BY <1>2, <1>5, <4>1
      <4>3. events'[Len(events')][1] = "push" /\ Commit(events'[Len(events')]) >= c
        BY <4>2 DEF Commit
      <4> QED BY <4>2, <4>3 DEF Accounted, Queued
    <3> QED BY <3>1, <3>2
  <2> QED BY <1>1, <1>3, <2>2 DEF LsInv, NoneLost
<1> QED BY <1>3, <1>7, <1>8, <1>9, <1>10, <1>11 DEF LsInv

LEMMA ReceiveFailsKeeps ==
  ASSUME LsInv, NEW e \in Deliveries, ReceiveFails(e)
  PROVE  LsInv'
<1>1. /\ seen' = seen \cup {e} /\ lsFaults' = lsFaults + 1 /\ excused' = TRUE
      /\ UNCHANGED <<head, events, window, counter, marked, hook, balance, wk, scans,
                     recorded, hour>>
  BY DEF ReceiveFails
<1>2. lsFaults' \in Nat /\ lsFaults' >= lsFaults /\ lsFaults' > 0
  BY <1>1 DEF LsInv, LsTypes
<1>3. /\ Paying' /\ FloorIsKept' /\ Numbers' /\ AllOnce'
      /\ \A h : Triggers(h)' = Triggers(h)
  BY <1>1, <1>2, WorkersStay
<1>4. LsTypes'
  <2>1. excused' \in BOOLEAN
    BY <1>1, Zenon
  <2> QED BY <1>1, <1>2, <2>1 DEF LsInv, LsTypes
<1>5. Pushed'
  BY <1>1 DEF LsInv, Pushed
<1>6. AllHours'
  BY <1>1, <1>3, HourStays DEF AllHours
<1>7. OnlyAFaultKeepsTheCounter' /\ NoneLost'
  BY <1>1, <1>2 DEF OnlyAFaultKeepsTheCounter, NoneLost
<1> QED BY <1>3, <1>4, <1>5, <1>6, <1>7 DEF LsInv

(* The webhook is turned on and off, and a window's time comes. *)
LEMMA QuietStepKeeps ==
  ASSUME LsInv, UNCHANGED <<head, seen, events, counter, marked, balance, wk, scans,
                            recorded, hour, lsFaults>>,
         window' \in [commit : 0 .. MaxHead, due : BOOLEAN], window'.commit = window.commit,
         excused' \in BOOLEAN, excused => excused'
  PROVE  LsInv'
<1>1. /\ Paying' /\ FloorIsKept' /\ Numbers' /\ AllOnce'
      /\ \A c : Held(c)' = Held(c) /\ Answered(c)' = Answered(c) /\ Marked(c)' = Marked(c)
      /\ \A h : Triggers(h)' = Triggers(h)
  <2>1. lsFaults' \in Nat /\ lsFaults' >= lsFaults
    BY DEF LsInv, LsTypes
  <2> QED BY <2>1, WorkersStay
<1>2. LsTypes' /\ Pushed'
  BY DEF LsInv, LsTypes, Pushed
<1>3. AllHours'
  BY <1>1, HourStays DEF AllHours
<1>4. OnlyAFaultKeepsTheCounter'
  BY DEF LsInv, OnlyAFaultKeepsTheCounter
<1>5. NoneLost'
  BY <1>1 DEF LsInv, NoneLost, Accounted, Queued
<1> QED BY <1>1, <1>2, <1>3, <1>4, <1>5 DEF LsInv

LEMMA HookKeeps ==
  ASSUME LsInv, EnableAgain \/ Disable \/ WindowEnds
  PROVE  LsInv'
<1>1. window \in [commit : 0 .. MaxHead, due : BOOLEAN] /\ excused \in BOOLEAN
  BY DEF LsInv, LsTypes
<1>2. CASE EnableAgain
  BY <1>1, <1>2, QuietStepKeeps DEF EnableAgain
<1>3. CASE Disable
  <2>1. excused' \in BOOLEAN /\ excused'
    BY <1>3, Zenon DEF Disable
  <2> QED BY <1>1, <1>3, <2>1, QuietStepKeeps DEF Disable
<1>4. CASE WindowEnds
  <2>1. window' \in [commit : 0 .. MaxHead, due : BOOLEAN] /\ window'.commit = window.commit
    BY <1>1, <1>4 DEF WindowEnds
  <2> QED BY <1>1, <1>4, <2>1, QuietStepKeeps DEF WindowEnds
<1> QED BY <1>2, <1>3, <1>4

(* Somebody else pays: whoever is between its look and its charge is overtaken. *)
LEMMA SpendKeeps ==
  ASSUME LsInv, Spend
  PROVE  LsInv'
<1>1. balance > 0 /\ balance' = balance - 1
      /\ wk' = [w \in LsWorkers |-> [wk[w] EXCEPT !.raced = IsPaying(w)]]
      /\ UNCHANGED <<head, seen, events, window, counter, marked, hook, scans, recorded,
                     hour, lsFaults, excused>>
  BY DEF Spend
<1>2. wk' \in [LsWorkers -> Work]
  <2>1. ASSUME NEW v \in LsWorkers PROVE wk'[v] \in Work
    <3>1. wk[v] \in Work
      BY DEF LsInv, LsTypes
    <3>2. IsPaying(v) \in BOOLEAN
      BY DEF IsPaying
    <3>3. wk'[v] = [wk[v] EXCEPT !.raced = IsPaying(v)]
      BY <1>1
    <3> QED BY <3>1, <3>2, <3>3 DEF Work
  <2> QED BY <1>1, <2>1
<1>3. \A w \in LsWorkers : /\ wk'[w].at = wk[w].at /\ wk'[w].d = wk[w].d
                           /\ wk'[w].hour = wk[w].hour /\ wk'[w].n = wk[w].n
                           /\ wk'[w].raced = IsPaying(w)
  BY <1>1 DEF LsInv, LsTypes, Work
<1>4. LsTypes' /\ Pushed' /\ Numbers' /\ FloorIsKept'
  <2>1. balance' \in Nat
    BY <1>1 DEF LsInv, LsTypes
  <2>2. LsTypes'
    BY <1>1, <1>2, <2>1 DEF LsInv, LsTypes
  <2>3. Pushed'
    BY <1>1, <1>3 DEF LsInv, Pushed
  <2>4. Numbers' /\ FloorIsKept'
    BY <1>1 DEF LsInv, Numbers, FloorIsKept
  <2> QED BY <2>2, <2>3, <2>4
<1>5. Paying'
  BY <1>3 DEF LsInv, Paying, IsPaying
<1>6. OnlyAFaultKeepsTheCounter'
  BY <1>1, <1>3 DEF LsInv, OnlyAFaultKeepsTheCounter
<1>7. AllOnce'
  <2>1. \A c : Creating(c)' \subseteq Creating(c)
    BY <1>3 DEF Creating
  <2>2. lsFaults' \in Nat /\ lsFaults' >= lsFaults
    BY <1>1 DEF LsInv, LsTypes
  <2> QED BY <1>1, <2>1, <2>2, OnceStays DEF AllOnce
<1>8. AllHours'
  <2>1. \A h : Triggers(h)' \subseteq Triggers(h)
    BY <1>3 DEF Triggers
  <2> QED BY <1>1, <2>1, HourStays DEF AllHours
<1>9. NoneLost'
  BY <1>1, <1>3 DEF LsInv, NoneLost, Accounted, Queued, Held, Answered, Marked
<1> QED BY <1>4, <1>5, <1>6, <1>7, <1>8, <1>9 DEF LsInv

(* The hour is over: nobody has a trigger of the next one yet. *)
LEMMA HourEndsKeeps ==
  ASSUME LsInv, HourEnds
  PROVE  LsInv'
<1>1. counter' = [n |-> 0, expires |-> FALSE] /\ hour' = hour + 1
      /\ UNCHANGED <<head, seen, events, window, marked, hook, balance, wk, scans, recorded,
                     lsFaults, excused>>
  BY DEF HourEnds
<1>2. hour \in Nat /\ hour' \in Nat /\ counter' \in [n : Nat, expires : BOOLEAN]
      /\ counter'.n = 0 /\ lsFaults \in Nat
  BY <1>1 DEF LsInv, LsTypes
<1>3. /\ Paying' /\ FloorIsKept' /\ Numbers' /\ AllOnce'
      /\ \A c : Held(c)' = Held(c) /\ Answered(c)' = Answered(c) /\ Marked(c)' = Marked(c)
      /\ \A h : Triggers(h)' = Triggers(h)
  BY <1>1, <1>2, WorkersStay
<1>4. LsTypes' /\ Pushed'
  BY <1>1, <1>2 DEF LsInv, LsTypes, Pushed
<1>5. OnlyAFaultKeepsTheCounter'
  BY <1>2 DEF OnlyAFaultKeepsTheCounter
<1>6. NoneLost'
  BY <1>1, <1>3 DEF LsInv, NoneLost, Accounted, Queued
<1>7. ASSUME NEW h \in Nat PROVE HourOK(h)'
  <2> DEFINE S == Cardinality(ScansIn(h))
             T == Cardinality(Triggers(h))
  <2>1. HourOK(h)
    BY DEF LsInv, AllHours
  <2>2. S \in Nat /\ T \in Nat /\ S + T <= Allowed(h) /\ S + T <= HourlyLimit
    BY <2>1, FS_CardinalityType DEF HourOK
  <2>3. ScansIn(h)' = ScansIn(h) /\ Triggers(h)' = Triggers(h)
    BY <1>1, <1>3 DEF ScansIn
  <2>4. IsFiniteSet(ScansIn(h)') /\ IsFiniteSet(Triggers(h)')
        /\ Cardinality(ScansIn(h)') = S /\ Cardinality(Triggers(h)') = T
    BY <2>1, <2>3, Zenon DEF HourOK
  <2> HIDE DEF S, T
  <2>5. S + T <= Allowed(h)'
    <3>1. CASE h > hour
      BY <1>1, <1>2, <2>2, <3>1 DEF Allowed
    <3>2. CASE ~(h > hour)
      BY <1>1, <1>2, <2>2, <3>2, LsConstants DEF Allowed
    <3> QED BY <3>1, <3>2
  <2> QED BY <2>2, <2>4, <2>5 DEF HourOK
<1> QED BY <1>3, <1>4, <1>5, <1>6, <1>7 DEF LsInv, AllHours

LEMMA LsUnchanged == LsInv /\ UNCHANGED LsVars => LsInv'
<1> SUFFICES ASSUME LsInv, UNCHANGED LsVars PROVE LsInv'
  OBVIOUS
<1>1. window' \in [commit : 0 .. MaxHead, due : BOOLEAN] /\ excused' \in BOOLEAN
  BY DEF LsInv, LsTypes, LsVars
<1> QED BY <1>1, QuietStepKeeps DEF LsVars

LEMMA LsInitOK == LsInit => LsInv
<1> SUFFICES ASSUME LsInit PROVE LsInv
  OBVIOUS
<1>1. wk \in [LsWorkers -> Work] /\ \A w \in LsWorkers : wk[w].at = "pop"
  BY IdleOK DEF LsInit
<1>2. LsTypes
  <2>1. head \in 0 .. MaxHead
    BY LsConstants DEF LsInit
  <2>2. seen \subseteq Deliveries /\ excused \in BOOLEAN
    BY Zenon DEF LsInit
  <2>3. events \in Seq(Deliveries)
    BY DEF LsInit
  <2>4. window \in [commit : 0 .. MaxHead, due : BOOLEAN]
    BY LsConstants DEF LsInit, None
  <2>5. counter \in [n : Nat, expires : BOOLEAN]
    BY DEF LsInit
  <2>6. balance \in Nat /\ hour \in Nat /\ lsFaults \in Nat
    BY LsConstants DEF LsInit
  <2> QED BY <1>1, <2>1, <2>2, <2>3, <2>4, <2>5, <2>6 DEF LsTypes
<1>3. Pushed /\ Paying /\ Numbers /\ FloorIsKept /\ OnlyAFaultKeepsTheCounter /\ NoneLost
  BY <1>1 DEF LsInit, Pushed, Bearing, None, Paying, IsPaying, Numbers, FloorIsKept,
              OnlyAFaultKeepsTheCounter, NoneLost
<1>4. IsFiniteSet({}) /\ Cardinality({}) = 0
  BY FS_EmptySet
<1>5. ASSUME NEW c \in 1 .. MaxHead PROVE OnceOK(c)
  <2>1. ScansOf(c) = {} /\ Creating(c) = {}
    BY <1>1 DEF LsInit, ScansOf, Creating
  <2>2. /\ IsFiniteSet(ScansOf(c)) /\ IsFiniteSet(Creating(c))
        /\ Cardinality(ScansOf(c)) = 0 /\ Cardinality(Creating(c)) = 0
    BY <1>4, <2>1, Zenon
  <2>3. Markers(c) \in Nat
    BY DEF LsInit, Markers
  <2> QED BY <2>2, <2>3 DEF OnceOK
<1>6. ASSUME NEW h \in Nat PROVE HourOK(h)
  <2>1. ScansIn(h) = {} /\ Triggers(h) = {}
    BY <1>1 DEF LsInit, ScansIn, Triggers, InPlaces
  <2>2. /\ IsFiniteSet(ScansIn(h)) /\ IsFiniteSet(Triggers(h))
        /\ Cardinality(ScansIn(h)) = 0 /\ Cardinality(Triggers(h)) = 0
    BY <1>4, <2>1, Zenon
  <2>3. Allowed(h) \in Nat /\ HourlyLimit \in Nat
    BY LsConstants DEF LsInit, Allowed
  <2> QED BY <2>2, <2>3 DEF HourOK
<1> QED BY <1>2, <1>3, <1>5, <1>6 DEF LsInv, AllOnce, AllHours

(* Whatever commit was pushed is under way with a commit at least as late, or its    *)
(* markers and the counter say why not; so the tallies bound the scans.              *)
THEOREM LiveScanInductive == LsSpec => []LsInv
<1>1. LsInv /\ LsNext => LsInv'
  <2> SUFFICES ASSUME LsInv, LsNext PROVE LsInv'
    OBVIOUS
  <2>1. ASSUME NEW w \in LsWorkers, LsWork(w) \/ MarkCommitFails(w) \/ LoseWork(w) PROVE LsInv'
    BY <2>1, PopEventKeeps, ArmPendingKeeps, ListDueKeeps, ClaimWindowKeeps, CountTriggerKeeps,
       ExpireCounterKeeps, DropOverLimitKeeps, CheckTokensKeeps, MarkCommitKeeps,
       CreateScanKeeps, CreateScanRefusedKeeps, MarkCommitFailsKeeps, LoseWorkKeeps DEF LsWork
  <2> QED BY <2>1, PushKeeps, HookKeeps, SpendKeeps, HourEndsKeeps, ReceiveKeeps,
             ReceiveFailsKeeps DEF LsNext
<1>2. LsInv /\ [LsNext]_LsVars => LsInv'
  BY <1>1, LsUnchanged
<1> QED BY <1>2, LsInitOK, PTL DEF LsSpec

(* One commit gets one scan, however often GitHub delivers it and however many     *)
(* workers handle it, but for markers that failed; and when everything is at rest, *)
(* the last push is in a scan or the reason why not is recorded, unless something  *)
(* failed, the webhook was stopped or deliveries overtook each other               *)
(* (armPendingScript, popPendingScript, SETNX).                                    *)
THEOREM PushesAreScannedOnce == LsSpec => []PushesScannedOnce
<1>1. LsInv => CommitScannedOnce
  <2> SUFFICES ASSUME LsInv, NEW c \in 1 .. MaxHead
               PROVE  Cardinality({s \in scans : s.commit = c}) <= 1 + lsFaults
    BY DEF CommitScannedOnce
  <2>1. OnceOK(c) /\ lsFaults \in Nat
    BY DEF LsInv, AllOnce, LsTypes
  <2>2. Cardinality(ScansOf(c)) \in Nat /\ Cardinality(Creating(c)) \in Nat
        /\ Cardinality(ScansOf(c)) + Cardinality(Creating(c)) <= Markers(c)
    BY <2>1, FS_CardinalityType DEF OnceOK
  <2>3. Markers(c) \in Nat /\ Markers(c) <= 1 + lsFaults
    BY <2>1 DEF Markers
  <2>4. Cardinality(ScansOf(c)) <= 1 + lsFaults
    BY <2>1, <2>2, <2>3
  <2> QED BY <2>4 DEF ScansOf
<1>2. LsInv => NoPushIsLost
  <2> SUFFICES ASSUME LsInv, events = <<>>, window.commit = None,
                      \A w \in LsWorkers : wk[w].at = "pop", ~excused,
                      NEW c \in 1 .. head, <<"push", c>> \in seen
               PROVE  Answered(c)
    BY DEF NoPushIsLost, Answered
  <2>1. c \in 1 .. MaxHead /\ c \in Nat /\ c > 0
    BY LsConstants DEF LsInv, LsTypes
  <2>2. Accounted(c)
    BY <2>1 DEF LsInv, NoneLost
  <2>3. ~Queued(c) /\ ~Held(c) /\ ~(window.commit >= c)
    BY <2>1 DEF Queued, Held, Bearing, None
  <2> QED BY <2>2, <2>3 DEF Accounted
<1> QED BY <1>1, <1>2, LiveScanInductive, PTL DEF PushesScannedOnce

(* No more scans of one hour than the limit, however many workers count; a counter  *)
(* that will not expire has a fault behind it; and no scan takes the balance below  *)
(* the project's floor unless something else was paid for between its check and its *)
(* charge (IncrWindowCount, LiveScanAllowed).                                       *)
THEOREM LimitsHold == LsSpec => []LiveScansStayWithinLimits
<1>1. LsInv => HourlyCapHolds
  <2> SUFFICES ASSUME LsInv, NEW h \in 0 .. hour
               PROVE  Cardinality({s \in scans : s.hour = h}) <= HourlyLimit
    BY DEF HourlyCapHolds
  <2>1. HourOK(h)
    BY DEF LsInv, AllHours, LsTypes
  <2>2. Cardinality(ScansIn(h)) \in Nat /\ Cardinality(Triggers(h)) \in Nat
        /\ Cardinality(ScansIn(h)) + Cardinality(Triggers(h)) <= HourlyLimit
    BY <2>1, FS_CardinalityType DEF HourOK
  <2>3. Cardinality(ScansIn(h)) <= HourlyLimit
    BY <2>2, LsConstants
  <2> QED BY <2>3 DEF ScansIn
<1>2. LsInv => LiveScansStayWithinLimits
  BY <1>1 DEF LsInv, LiveScansStayWithinLimits
<1> QED BY <1>2, LiveScanInductive, PTL
=============================================================================
