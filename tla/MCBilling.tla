----------------------------- MODULE MCBilling -----------------------------
(***************************************************************************)
(* Small accounts: a month of two ticks of the clock and one of one make a *)
(* year, and every price and grant is a handful of tokens.  An account     *)
(* spends around the end of the first month, or goes through several and   *)
(* spends nothing: part says which.                                        *)
(***************************************************************************)
EXTENDS Billing, TLC

CONSTANTS s1, s2, j1, j2, j3, a1, c1, c2

\* What is paid for, and with what: a scan of two jobs of the free plan's
\* engines and a scan of one job that the free plan does not include.
TwoScans  == (s1 :> <<j1, j2>>) @@ (s2 :> <<j3>>)
JobPrice  == (j1 :> 2) @@ (j2 :> 1) @@ (j3 :> 4)
GiftOrCorrection == {1, -2}
PlanGrant == [free |-> 3, monthly |-> 5, annual |-> 5]

\* How many months a plan is paid for, and when they start
TwoMonths == <<0, 2>>
Years == [free |-> 1, monthly |-> 1, annual |-> 2]

\* An account on which nothing is spent
Nothing == <<>>

Interchangeable == Permutations({c1, c2})

VARIABLE part

Opened == {c \in Checkouts : checkouts[c].status # "none"}
Spending == {"debit", "ai", "refund", "adjust"}

\* Two ticks, one purchase, for a month or of tokens, and no cycle is advanced.
Spend ==
    /\ Next /\ clock' <= 2 /\ advances' = advances
    /\ Cardinality(Opened') <= 1 /\ \A c \in Opened' : checkouts'[c].item # "annual"
\* Plans only: two purchases over four ticks, or one over five
Subscribe(purchases, ticks) ==
    /\ Next /\ clock' <= ticks /\ Cardinality(Opened') <= purchases
    /\ \A key \in Keys(book') : key[1] \notin Spending
    /\ \A c \in Opened' : checkouts'[c].item \notin Packs

MCInit == Init /\ part \in {"spending", "plans", "year"}
MCNext ==
    /\ part' = part
    /\ \/ part = "spending" /\ Spend
       \/ part = "plans" /\ Subscribe(2, 4)
       \/ part = "year" /\ Subscribe(1, 5)
MCSpec == MCInit /\ [][MCNext]_<<vars, part>>
=============================================================================
