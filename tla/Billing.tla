------------------------------ MODULE Billing ------------------------------
(***************************************************************************)
(* The token account of one organisation (modules/billing/service.go over  *)
(* store/repo/billing_repo.go): its subscription, its token buckets, the   *)
(* ledger that explains them, and its checkouts.                           *)
(*                                                                         *)
(* Every operation is one transaction under the organisation's row lock,   *)
(* hence one action; one that returns an error leaves no trace and is not  *)
(* an action at all. What does interleave is time: an operation reads the  *)
(* clock before it waits for the lock, so its "now" may be in the past of  *)
(* the state it acts on.                                                   *)
(***************************************************************************)
EXTENDS Integers, Sequences, FiniteSets, FiniteSetsExt

CONSTANTS
    Scans,         \* scans that may be paid for
    Lines,         \* the jobs of each scan, in the order they are charged
    Price,         \* the tokens of each job
    ProOnly,       \* jobs of engines the free plan does not include
    Questions,     \* finding-assistant commands on findings
    AIPrice,       \* the tokens of one such command
    Checkouts,     \* checkout sessions that may be opened
    Packs,         \* top-up packs
    Items,         \* what may be bought: packs, and the plans that are paid for
    PackTokens,    \* the tokens of a pack
    Grant,         \* the monthly grant of each plan
    Length,        \* how many months one payment for a plan lasts
    MonthStarts,   \* when the months of a year start, in ticks of the clock
    YearLength,    \* the length of a year, in ticks
    ShortestMonth, \* of its shortest month
    LongestMonth,  \* and of its longest
    TopupValidity, \* how long top-ups and adjustments last
    CheckoutTTL,   \* how long a checkout may be paid
    GrantsPerPass, \* how many due grants one renewal makes (13 in the code)
    Adjustments,   \* adjustments an operator may make
    Deltas,        \* what one may give or take
    MaxTime,       \* bound: when the clock stops
    MaxLag,        \* bound: how old an operation's clock reading may be
    MaxAdvances    \* bound: how often an operator advances the cycle

Plans == {"free", "monthly", "annual"}
Jobs  == UNION {{Lines[s][i] : i \in DOMAIN Lines[s]} : s \in Scans}

ASSUME BillingAssumption ==
    /\ Grant \in [Plans -> Nat \ {0}] /\ Length \in [Plans -> Nat \ {0}]
    /\ Price \in [Jobs -> Nat \ {0}] /\ ProOnly \subseteq Jobs
    /\ AIPrice \in Nat \ {0} /\ PackTokens \in Nat \ {0}
    /\ Deltas \subseteq Int \ {0} /\ Items \subseteq {"monthly", "annual"} \cup Packs
    /\ {TopupValidity, CheckoutTTL, GrantsPerPass} \subseteq Nat \ {0}
    /\ {MaxTime, MaxLag, MaxAdvances} \subseteq Nat

\* A scan is paid for with at least one job, and every job is new (a UUID made
\* when its scan is requested).
ASSUME LinesAssumption ==
    /\ \A s \in Scans : Lines[s] \in Seq(Jobs) \ {<<>>}
    /\ \A s, t \in Scans : \A i \in DOMAIN Lines[s], k \in DOMAIN Lines[t] :
           Lines[s][i] = Lines[t][k] => s = t /\ i = k

\* Every year is the same (leap years are left out), a month ends where the next
\* one starts, and none lasts more than twice as long as another.
ASSUME CalendarAssumption ==
    /\ YearLength \in Nat \ {0} /\ ShortestMonth \in Nat \ {0}
    /\ LongestMonth \in Nat /\ LongestMonth <= 2 * ShortestMonth
    /\ MonthStarts \in Seq(0..YearLength - 1) \ {<<>>} /\ MonthStarts[1] = 0
    /\ \A k \in DOMAIN MonthStarts :
          LET next == IF k = Len(MonthStarts) THEN YearLength ELSE MonthStarts[k + 1]
          IN next - MonthStarts[k] \in ShortestMonth..LongestMonth

\* A plan is paid for by the month or by the year, and no pack is called like one.
ASSUME PeriodAssumption ==
    Length["monthly"] = 1 /\ Length["annual"] = Len(MonthStarts) /\ Packs \cap Plans = {}

VARIABLES
    clock,
    sub,        \* billing_subscriptions: the row, or None before the first use
    book,       \* billing_token_buckets and billing_ledger
    checkouts,  \* billing_checkout_sessions
    advances    \* how often an operator advanced the cycle

vars == <<clock, sub, book, checkouts, advances>>

None == [plan |-> "none"]

\* A ledger row is its idempotency key, its bucket and its delta; the key
\* says what it is for. Buckets are numbered in the order of creation.
EmptyBook == [buckets |-> <<>>, ledger |-> {}]

Keys(b)  == {e.key : e \in b.ledger}
Ids(b)   == DOMAIN b.buckets
Amount(S) == SumFunction([e \in S |-> e.delta])

\* addMonths and periodEnd (time.AddDate): the same day n months on. A day that
\* month does not have counts on into the next.
InYear == Len(MonthStarts)
MonthOf(t) ==
    InYear * (t \div YearLength)
      + Cardinality({k \in DOMAIN MonthStarts : MonthStarts[k] <= (t % YearLength)}) - 1
StartOf(m) == YearLength * (m \div InYear) + MonthStarts[(m % InYear) + 1]
AddMonths(t, n) == t + StartOf(MonthOf(t) + n) - StartOf(MonthOf(t))

\* FoldLeft, but with every intermediate result bound to a variable: TLC
\* evaluates an argument of an action again wherever it is used.
Fold(op(_, _), base, seq) ==
    LET f[n \in 0..Len(seq)] ==
            IF n = 0 THEN base
            ELSE CHOOSE r \in {op(acc, seq[n]) : acc \in {f[n - 1]}} : TRUE
    IN f[Len(seq)]

-----------------------------------------------------------------------------
(***************************************************************************)
(* Balance changes, each idempotent on its ledger key.                     *)
(***************************************************************************)

\* addBucket
AddBucket(b, source, amount, expires, key) ==
    IF key \in Keys(b) THEN b
    ELSE [buckets |-> Append(b.buckets, [source |-> source, amount |-> amount,
                                         left |-> amount, expires |-> expires]),
          ledger |-> b.ledger \cup
                     {[key |-> key, bucket |-> Len(b.buckets) + 1, delta |-> amount]}]

\* moveTokens, for the rows one operation writes, whose keys all differ: each
\* changes its bucket by its delta, unless its key has been seen before.
MoveTokensFirst(b, rows) ==
    [buckets |-> [i \in Ids(b) |->
                    [b.buckets[i] EXCEPT !.left = @ + Amount({r \in rows : r.bucket = i})]],
     ledger  |-> b.ledger \cup {r \in rows : r.key \notin Keys(b)}]
MoveTokens(b, rows) ==
    LET fresh == {r \in rows : r.key \notin Keys(b)} IN
    [buckets |-> [i \in Ids(b) |->
                    [b.buckets[i] EXCEPT !.left = @ + Amount({r \in fresh : r.bucket = i})]],
     ledger  |-> b.ledger \cup fresh]

\* expireBucket: its key carries the instant, so it never meets an old one.
Expire(b, i) ==
    [key    |-> <<"expire", i, Cardinality({e \in b.ledger : e.bucket = i})>>,
     bucket |-> i,
     delta  |-> -b.buckets[i].left]
ExpireAll(b, S) == MoveTokens(b, {Expire(b, i) : i \in S})

\* ExpiredBuckets and SpendableBuckets
Expired(b, now) == {i \in Ids(b) : b.buckets[i].left > 0 /\ b.buckets[i].expires <= now}
Spendable(b, now) == {i \in Ids(b) : b.buckets[i].left > 0 /\ b.buckets[i].expires > now}
Held(b, S) == SumFunction([i \in S |-> b.buckets[i].left])
Balance(b, now) == Held(b, Spendable(b, now))

\* Soonest to expire first, then oldest first
Ahead(b, now, i) ==
    {k \in Spendable(b, now) :
        \/ b.buckets[k].expires < b.buckets[i].expires
        \/ b.buckets[k].expires = b.buckets[i].expires /\ k < i}

\* The key of one piece of a payment for x. A command's first piece has the
\* command's own key, so that it is found again whichever bucket paid for it;
\* the later ones are told apart by their place in the code, by bucket here.
PieceKey(kind, x, i, first) == <<kind, x, IF kind = "ai" /\ first THEN 0 ELSE i>>

\* Take what is owed from the spendable buckets in order: from each what those
\* ahead of it leave to pay, as far as it has it.
Piece(b, now, owed, kind, x, i) ==
    [key    |-> PieceKey(kind, x, i, Ahead(b, now, i) = {}),
     bucket |-> i,
     delta  |-> -Min({b.buckets[i].left, owed - Held(b, Ahead(b, now, i))})]
Drain(b, now, owed, kind, x) ==
    MoveTokens(b, {Piece(b, now, owed, kind, x, i) :
                      i \in {k \in Spendable(b, now) : Held(b, Ahead(b, now, k)) < owed}})

\* grantPlanTokens: this plan's grant replaces what is left of the last one.
GrantPlan(b, s, now, key) ==
    IF key \in Keys(b) THEN b
    ELSE LET old == {i \in Ids(b) : b.buckets[i].left > 0 /\ b.buckets[i].source = "plan_grant"}
             expires == IF s.nextGrant > now THEN s.nextGrant ELSE AddMonths(now, 1)
         IN AddBucket(ExpireAll(b, old), "plan_grant", Grant[s.plan], expires, key)

-----------------------------------------------------------------------------
(***************************************************************************)
(* The lock, and the operations under it.                                  *)
(***************************************************************************)

\* What an operation may have read from the clock before it got the lock.
Recent == {t \in 0..clock : clock - t <= MaxLag}

\* withOrg: what the operation finds, a free plan and a first grant included
\* if the organisation is new to billing.
Found(now) ==
    IF sub # None THEN [sub |-> sub, book |-> book]
    ELSE LET fresh == [plan |-> "free", periodEnd |-> AddMonths(now, 1),
                       nextGrant |-> AddMonths(now, 1), cancelAtEnd |-> FALSE]
         IN [sub |-> fresh, book |-> GrantPlan(EmptyBook, fresh, now, <<"grant">>)]

Commit(s, b) == sub' = s /\ book' = b

Init ==
    /\ clock = 0
    /\ sub = None
    /\ book = EmptyBook
    /\ checkouts = [c \in Checkouts |-> [status |-> "none"]]
    /\ advances = 0

Tick ==
    /\ clock < MaxTime
    /\ clock' = clock + 1
    /\ UNCHANGED <<sub, book, checkouts, advances>>

\* Any operation that only reads still provisions a new organisation.
Read(now) ==
    /\ sub = None
    /\ Commit(Found(now).sub, Found(now).book)
    /\ UNCHANGED <<clock, checkouts, advances>>

Debits(b, j) == {e \in b.ledger : e.key[1] = "debit" /\ e.key[2] = j}

\* Whether the balance covers what is asked.
Affords(b, now, cost) == Balance(b, now) >= cost

\* Line by line, each from what the lines before it left
PayLines(b, now, lines) ==
    Fold(LAMBDA acc, j : Drain(acc, now, Price[j], "debit", j), b, lines)

\* Charge: every line of the scan, or none.
Charge(s, now) ==
    LET cost == SumFunction([i \in DOMAIN Lines[s] |-> Price[Lines[s][i]]]) IN
    \E st \in {Found(now)} :
    /\ Debits(st.book, Lines[s][1]) = {}
    /\ st.sub.plan = "free" => \A i \in DOMAIN Lines[s] : Lines[s][i] \notin ProOnly
    /\ Affords(st.book, now, cost)
    /\ Commit(st.sub, PayLines(st.book, now, Lines[s]))
    /\ UNCHANGED <<clock, checkouts, advances>>

\* ChargeAI: one command on one finding is paid once.
ChargeAI(q, now) ==
    \E st \in {Found(now)} :
    /\ <<"ai", q, 0>> \notin Keys(st.book)
    /\ Affords(st.book, now, AIPrice)
    /\ Commit(st.sub, Drain(st.book, now, AIPrice, "ai", q))
    /\ UNCHANGED <<clock, checkouts, advances>>

\* RefundJob: every debit of the job goes back to the bucket it came from,
\* whatever has become of that bucket.
RefundKeyPerAttempt(j, i, now) == <<"refund", j, i, now>>
RefundKey(j, i, now) == <<"refund", j, i>>

Refunds(b, j, now) ==
    {[key    |-> RefundKey(j, e.bucket, now),
      bucket |-> e.bucket,
      delta  |-> -e.delta] : e \in Debits(b, j)}

RefundJob(j, now) ==
    /\ Debits(book, j) # {}
    /\ Commit(sub, MoveTokens(book, Refunds(book, j, now)))
    /\ UNCHANGED <<clock, checkouts, advances>>

\* StartCheckout, with priceItem's refusals: the running plan again, and a
\* month on top of a running year.
Sellable(s, item, now) ==
    now < s.periodEnd => s.plan # item /\ ~(s.plan = "annual" /\ item = "monthly")

StartCheckout(c, item, now) ==
    \E st \in {Found(now)} :
    /\ checkouts[c].status = "none"
    /\ Sellable(st.sub, item, now)
    /\ checkouts' = [checkouts EXCEPT ![c] =
                        [status |-> "pending", item |-> item, expires |-> now + CheckoutTTL]]
    /\ Commit(st.sub, st.book)
    /\ UNCHANGED <<clock, advances>>

\* GetCheckout closes a session it finds expired.
GetCheckout(c, now) ==
    /\ checkouts[c].status = "pending"
    /\ now >= checkouts[c].expires
    /\ checkouts' = [checkouts EXCEPT ![c].status = "expired"]
    /\ UNCHANGED <<clock, sub, book, advances>>

\* ConfirmDemo, declined
Decline(c, now) ==
    /\ checkouts[c].status = "pending"
    /\ now < checkouts[c].expires
    /\ checkouts' = [checkouts EXCEPT ![c].status = "failed"]
    /\ UNCHANGED <<clock, sub, book, advances>>

\* A session that can still be paid: a paid one is answered without effect, a
\* closed or expired one with an error that rolls everything back.
PayableUnlessExpired(c, now) ==
    checkouts[c].status # "none" /\ now < checkouts[c].expires
Payable(c, now) == checkouts[c].status = "pending" /\ now < checkouts[c].expires

\* ConfirmDemo and fulfil: a plan starts a period of its own with a grant of
\* its own, whatever plan was running; a pack adds a bucket.
Confirm(c, now) ==
    /\ Payable(c, now)
    /\ checkouts' = [checkouts EXCEPT ![c].status = "paid"]
    /\ LET item == checkouts[c].item
           new  == [plan |-> item, periodEnd |-> AddMonths(now, Length[item]),
                    nextGrant |-> AddMonths(now, 1), cancelAtEnd |-> FALSE]
       IN IF item \in Packs
          THEN Commit(sub, AddBucket(book, "topup", PackTokens, now + TopupValidity,
                                     <<"topup", c>>))
          ELSE Commit(new, GrantPlan(book, new, now, <<"purchase", c>>))
    /\ UNCHANGED <<clock, advances>>

\* SetCancelAtPeriodEnd, both ways
SetCancel(cancel) ==
    /\ sub # None /\ sub.plan # "free"
    /\ Commit([sub EXCEPT !.cancelAtEnd = cancel], book)
    /\ UNCHANGED <<clock, checkouts, advances>>

-----------------------------------------------------------------------------
(***************************************************************************)
(* Renewal.                                                                *)
(***************************************************************************)

\* The paid period is over when its end is not after the grant that is due.
PeriodOverLate(s) == s.plan # "free" /\ s.nextGrant > s.periodEnd
PeriodOverIfCancelled(s) == s.plan # "free" /\ s.nextGrant >= s.periodEnd /\ s.cancelAtEnd
PeriodOver(s) == s.plan # "free" /\ s.nextGrant >= s.periodEnd

\* The subscription after one due grant. A plan nobody pays for ends.
NextPeriod(s, demoRenew) ==
    LET kept  == IF ~PeriodOver(s) THEN s
                 ELSE IF demoRenew /\ ~s.cancelAtEnd
                      THEN [s EXCEPT !.periodEnd = AddMonths(@, Length[s.plan])]
                      ELSE [plan |-> "free", periodEnd |-> AddMonths(s.nextGrant, 1),
                            nextGrant |-> s.nextGrant, cancelAtEnd |-> FALSE]
        freed == IF kept.plan = "free" /\ kept.periodEnd <= kept.nextGrant
                 THEN [kept EXCEPT !.periodEnd = AddMonths(kept.nextGrant, 1)]
                 ELSE kept
    IN [freed EXCEPT !.nextGrant = AddMonths(@, 1)]

\* One turn of renewLocked's loop.
RenewOnce(st, now, demoRenew) ==
    IF st.sub.nextGrant > now THEN st
    ELSE LET next == NextPeriod(st.sub, demoRenew) IN
         [sub  |-> next,
          book |-> GrantPlan(st.book, next, now, <<"grant", st.sub.nextGrant>>)]

\* renewLocked: the grants that are due, as many as one pass makes, then every
\* bucket that has expired.
Renewed(s, b, now, demoRenew) ==
    LET start == [sub |-> s, book |-> b]
        turns == [i \in 1..GrantsPerPass |-> i]
    IN CHOOSE r \in {[sub  |-> st.sub,
                     book |-> ExpireAll(st.book, Expired(st.book, now))] :
                    st \in {Fold(LAMBDA st, i : RenewOnce(st, now, demoRenew), start, turns)}} : TRUE

\* DueOrgs: a grant is due, or a bucket has expired with tokens left.
Due(now) == sub.nextGrant <= now \/ Expired(book, now) # {}

\* RenewDue on an organisation it listed; if another replica's ticker was
\* there first, nothing is due any more.
RenewDue(now) ==
    /\ sub # None /\ Due(now)
    /\ \E st \in {Renewed(sub, book, now, FALSE)} : Commit(st.sub, st.book)
    /\ UNCHANGED <<clock, checkouts, advances>>

\* AdminAdjust: a gift is a bucket, a correction takes what there is.
AdminAdjust(a, delta, now) ==
    \E st \in {Found(now)} :
    /\ ~\E e \in st.book.ledger : e.key[1] = "adjust" /\ e.key[2] = a
    /\ Commit(st.sub,
              IF delta > 0
              THEN AddBucket(st.book, "adjustment", delta, now + TopupValidity, <<"adjust", a>>)
              ELSE Drain(st.book, now, -delta, "adjust", a))
    /\ UNCHANGED <<clock, checkouts, advances>>

\* AdminAdvanceCycle moves the cycle so that it is due now, and renews it as
\* if it had been paid for. (Never twice in one second, the grain of the key.)
AdminAdvanceCycle(now) ==
    \E st \in {Found(now)} :
    LET shift == st.sub.nextGrant - now
        due   == [st.sub EXCEPT !.nextGrant = now,
                                !.periodEnd = IF st.sub.plan # "free" THEN @ - shift ELSE @]
    IN
    /\ advances < MaxAdvances
    /\ <<"grant", now>> \notin Keys(st.book)
    /\ \E done \in {Renewed(due, st.book, now, TRUE)} : Commit(done.sub, done.book)
    /\ advances' = advances + 1
    /\ UNCHANGED <<clock, checkouts>>

Next ==
    \/ Tick
    \/ \E now \in Recent :
          \/ Read(now) \/ RenewDue(now) \/ AdminAdvanceCycle(now)
          \/ \E s \in Scans : Charge(s, now)
          \/ \E j \in Jobs : RefundJob(j, now)
          \/ \E q \in Questions : ChargeAI(q, now)
          \/ \E a \in Adjustments, delta \in Deltas : AdminAdjust(a, delta, now)
          \/ \E c \in Checkouts :
                GetCheckout(c, now) \/ Decline(c, now) \/ Confirm(c, now)
                \/ \E item \in Items : StartCheckout(c, item, now)
    \/ \E cancel \in BOOLEAN : SetCancel(cancel)

Spec == Init /\ [][Next]_vars

-----------------------------------------------------------------------------
(***************************************************************************)
(* Properties.                                                             *)
(***************************************************************************)

Of(b, kind, x) == {e \in b.ledger : e.key[1] = kind /\ Len(e.key) > 1 /\ e.key[2] = x}

LedgerExplainsBuckets ==
    \A i \in Ids(book) :
        book.buckets[i].left = Amount({e \in book.ledger : e.bucket = i})

BucketsWithinBounds ==
    \A i \in Ids(book) : book.buckets[i].left \in 0..book.buckets[i].amount

\* The ledger explains every bucket, what is left in it is the sum of its rows,
\* and no bucket is overdrawn or given back more than it ever held, whatever the
\* order of charges, corrections, expiries and refunds: the CHECK the table has
\* is never what stops an operation.
BooksBalance == LedgerExplainsBuckets /\ BucketsWithinBounds

\* A scan is paid in full, every job of it, or not at all ...
PaidInFullOrNotAtAll ==
    \A s \in Scans :
        \/ \A i \in DOMAIN Lines[s] : Amount(Of(book, "debit", Lines[s][i])) = -Price[Lines[s][i]]
        \/ \A i \in DOMAIN Lines[s] : Of(book, "debit", Lines[s][i]) = {}

\* ... and a job is given back exactly what was debited for it, once.
RefundedInFullOnce ==
    \A j \in Jobs : Amount(Of(book, "refund", j)) \in {0, -Amount(Of(book, "debit", j))}

\* A command is paid once, in full.
CommandPaidOnce ==
    \A q \in Questions : Amount(Of(book, "ai", q)) \in {0, -AIPrice}

\* Whoever pays for a scan and whoever refunds its jobs (the request, a worker
\* and a sweeper may each try), from however many buckets, and whatever has
\* expired or been spent in between: no job is half paid and none is refunded
\* twice or in part; nor is a command.
PaidAndRefundedInFull == PaidInFullOrNotAtAll /\ RefundedInFullOnce /\ CommandPaidOnce

Months(item) == IF item \in Packs THEN 0 ELSE Length[item]

\* Nobody gets a paid plan's grant for a month that was not paid for: late or
\* concurrent renewals, repeated confirmations and cancelled plans included. An
\* operator who advances the cycle gives a period away, a year at most.
NobodyRidesFree ==
    Cardinality({i \in Ids(book) : /\ book.buckets[i].source = "plan_grant"
                                   /\ book.buckets[i].amount > Grant["free"]})
      <= advances * Months("annual")
           + SumFunction([c \in {c \in Checkouts : checkouts[c].status = "paid"} |->
                             Months(checkouts[c].item)])

\* A paid plan does not outlast its period for long: the organisation is on the
\* ticker's list within a month, however far one pass got, however late it was,
\* and however an operator has moved the dates. (Not on the day it ends, as
\* types.go:133 has it: what is looked at is the next grant, and a day that a
\* month does not have puts that after the end of the period.)
LapsedPlanIsDue ==
    sub # None /\ sub.plan # "free" /\ sub.periodEnd + LongestMonth <= clock => Due(clock)

\* A closed checkout stays closed: paid ones are not paid or declined again.
ClosedCheckoutStaysClosed ==
    [][\A c \in Checkouts :
          checkouts[c].status \in {"paid", "failed", "expired"} =>
              checkouts'[c] = checkouts[c]]_vars

-----------------------------------------------------------------------------
\* service_test.go:275: a running annual plan is not turned into a monthly one.
AnnualIsNotDowngraded ==
    [][sub.plan = "annual" /\ clock < sub.periodEnd => sub'.plan # "monthly"]_vars

=============================================================================
