--------------------------- MODULE Billing_proofs ---------------------------
(***************************************************************************)
(* The books of an account balance, and scans and commands are paid and    *)
(* refunded in full, for any scans, prices, plans, packs, checkouts and    *)
(* adjustments, and however late an operation is; and no month of a paid   *)
(* plan is granted that nobody paid for.                                   *)
(*                                                                         *)
(* Balances are sums over sets of ledger rows, and two operations are      *)
(* folds: Charge over its lines, renewLocked over the grants that are due. *)
(* Induction comes from the least element of a set of naturals (Least),    *)
(* which the library has as a fact about sets and needs no operator to be  *)
(* supplied; a fold is unrolled into the function it is the last value of. *)
(***************************************************************************)
EXTENDS Billing, WellFoundedInduction, FiniteSetTheorems, TLAPS

-----------------------------------------------------------------------------
(***************************************************************************)
(* Induction.                                                              *)
(***************************************************************************)

(* A set of naturals has a least element: the library has it as a fact     *)
(* about an order.                                                         *)
LEMMA Least ==
  ASSUME NEW T, T \subseteq Nat, T # {}
  PROVE  \E x \in T : \A y \in T : x <= y
<1>1. IsWellFoundedOn(OpToRel(<, Nat), Nat)
  BY NatLessThanWellFounded, Zenon
<1>2. PICK x \in T : \A y \in T : <<y, x>> \notin OpToRel(<, Nat)
  BY <1>1, WFMin, Zenon
<1>3. \A y \in T : ~(y < x)
  BY <1>2 DEF OpToRel
<1> QED BY <1>3

(* What holds at 0 and is passed on from n - 1 to n holds up to N.         *)
LEMMA Steps ==
  ASSUME NEW N \in Nat, NEW T, 0 \in T, \A n \in 1 .. N : n - 1 \in T => n \in T
  PROVE  \A n \in 0 .. N : n \in T
<1> SUFFICES ASSUME (0 .. N) \ T # {} PROVE FALSE
  OBVIOUS
<1>1. PICK x \in (0 .. N) \ T : \A y \in (0 .. N) \ T : x <= y
  <2>1. (0 .. N) \ T \subseteq Nat
    OBVIOUS
  <2> QED BY <2>1, Least
<1>2. x \in 1 .. N /\ x - 1 \in 0 .. N
  OBVIOUS
<1> QED BY <1>1, <1>2

(* A set without one of its elements is smaller by one.                    *)
LEMMA Smaller ==
  ASSUME NEW S, IsFiniteSet(S), NEW s \in SUBSET S, s # {}, NEW x \in s
  PROVE  /\ s \ {x} \in SUBSET S
         /\ Cardinality(s) \in Nat \ {0}
         /\ Cardinality(s \ {x}) = Cardinality(s) - 1
<1>1. IsFiniteSet(s)
  BY FS_Subset
<1>2. Cardinality(s) \in Nat
  BY <1>1, FS_CardinalityType
<1>3. Cardinality(s) # 0
  BY <1>1, FS_EmptySet
<1>4. Cardinality(s \ {x}) = Cardinality(s) - 1
  BY <1>1, FS_RemoveElement
<1> QED BY <1>2, <1>3, <1>4

(* What holds of {} and of a set once it holds of that set without some    *)
(* element.                                                                *)
LEMMA SetInduction ==
  ASSUME NEW S, IsFiniteSet(S), NEW T, {} \in T,
         \A s \in SUBSET S : s # {} => (\E x \in s : s \ {x} \in T => s \in T)
  PROVE  \A s \in SUBSET S : s \in T
<1> SUFFICES ASSUME NEW b \in SUBSET S, b \notin T PROVE FALSE
  OBVIOUS
<1> DEFINE bad == {s \in SUBSET S : s \notin T}
           cards == {Cardinality(s) : s \in bad}
<1>1. cards \subseteq Nat /\ cards # {}
  <2>1. \A s \in SUBSET S : Cardinality(s) \in Nat
    BY FS_Subset, FS_CardinalityType
  <2> QED BY <2>1
<1>2. PICK n \in cards : \A y \in cards : n <= y
  <2> HIDE DEF cards
  <2> QED BY <1>1, Least
<1>3. PICK s \in bad : Cardinality(s) = n
  OBVIOUS
<1>4. s # {}
  OBVIOUS
<1>5. PICK x \in s : s \ {x} \in T => s \in T
  BY <1>4
<1>6. s \ {x} \in SUBSET S /\ Cardinality(s \ {x}) = n - 1 /\ n \in Nat
  BY <1>3, <1>4, Smaller
<1>7. Cardinality(s \ {x}) \in cards
  BY <1>5, <1>6
<1>8. n <= n - 1
  <2> HIDE DEF cards
  <2> QED BY <1>2, <1>6, <1>7
<1> QED BY <1>6, <1>8

-----------------------------------------------------------------------------
(***************************************************************************)
(* The calendar.                                                           *)
(***************************************************************************)

(* Division, of a number and of the next one                               *)
LEMMA Division ==
  ASSUME NEW m \in Int, NEW N \in Nat \ {0}
  PROVE  /\ m \div N \in Int /\ m % N \in 0 .. N - 1
         /\ m % N # N - 1 => (m + 1) \div N = m \div N /\ (m + 1) % N = (m % N) + 1
         /\ m % N = N - 1 => (m + 1) \div N = m \div N + 1 /\ (m + 1) % N = 0
<1>1. m \div N \in Int /\ m % N \in 0 .. N - 1
  OBVIOUS
<1>2. ASSUME m % N # N - 1 PROVE (m + 1) \div N = m \div N /\ (m + 1) % N = (m % N) + 1
  BY <1>2
<1>3. ASSUME m % N = N - 1 PROVE (m + 1) \div N = m \div N + 1 /\ (m + 1) % N = 0
  <2> DEFINE q == m \div N
  <2>1. m % N = m - N * q
    BY SMTT(60)
  <2>2. q \in Int /\ 0 \in 0 .. N - 1
    BY <1>1
  <2> HIDE DEF q
  <2>3. m + 1 = N * (q + 1) + 0
    BY <1>3, <2>1, <2>2
  <2> DEFINE l == m + 1
             d == q + 1
  <2>4. l \in Int /\ d \in Int
    BY <2>2
  <2> HIDE DEF l, d
  <2>5. l = N * d + 0
    BY <2>3 DEF l, d
  <2>6. l \div N = d /\ l % N = 0
    BY <2>2, <2>4, <2>5
  <2> QED BY <2>6 DEF l, d, q
<1> QED BY <1>1, <1>2, <1>3

(* A month starts at an instant, and the next one after no less than the   *)
(* shortest and no more than the longest month.                            *)
Follows(u, v) ==
    u \in Int /\ v \in Int /\ u + ShortestMonth <= v /\ v <= u + LongestMonth

LEMMA Following ==
  ASSUME CalendarAssumption, NEW y \in Int, NEW u \in Int, NEW v \in Int,
         v - u \in ShortestMonth .. LongestMonth
  PROVE  Follows(y + u, y + v)
  BY DEF Follows, CalendarAssumption

LEMMA MonthsFollow ==
  ASSUME CalendarAssumption, NEW m \in Int
  PROVE  Follows(StartOf(m), StartOf(m + 1))
<1> DEFINE N == InYear
           q == m \div N
           r == m % N
<1>1. /\ N \in Nat \ {0} /\ DOMAIN MonthStarts = 1 .. N /\ MonthStarts[1] = 0
      /\ \A k \in 1 .. N : MonthStarts[k] \in Int
      /\ YearLength \in Int
  BY DEF CalendarAssumption, InYear
<1>2. /\ q \in Int /\ r \in 0 .. N - 1
      /\ r # N - 1 => (m + 1) \div N = q /\ (m + 1) % N = r + 1
      /\ r = N - 1 => (m + 1) \div N = q + 1 /\ (m + 1) % N = 0
  <2> HIDE DEF N
  <2> QED BY <1>1, Division
<1> DEFINE y == YearLength * q
<1>3. /\ StartOf(m) = y + MonthStarts[r + 1]
      /\ StartOf(m + 1) = YearLength * ((m + 1) \div N) + MonthStarts[((m + 1) % N) + 1]
  BY DEF StartOf
<1> HIDE DEF N, q, r
<1>4. r + 1 \in 1 .. N /\ y \in Int /\ YearLength * (q + 1) = y + YearLength
  BY <1>1, <1>2
<1> HIDE DEF y
<1>5. CASE r # N - 1
  <2> DEFINE u == MonthStarts[r + 1]
             v == MonthStarts[(r + 1) + 1]
  <2>1. r + 1 # N /\ (r + 1) + 1 \in 1 .. N
    BY <1>1, <1>2, <1>5
  <2>2. u \in Int /\ v \in Int
    BY <1>1, <1>4, <2>1
  <2>3. v - u \in ShortestMonth .. LongestMonth
    BY <1>1, <1>4, <2>1 DEF CalendarAssumption, InYear, N
  <2>4. StartOf(m) = y + u /\ StartOf(m + 1) = y + v
    <3>1. (m + 1) \div N = q /\ (m + 1) % N = r + 1
      BY <1>2, <1>5
    <3> QED BY <1>3, <3>1, Zenon DEF y
  <2> HIDE DEF u, v
  <2>5. Follows(y + u, y + v)
    BY <1>4, <2>2, <2>3, Following
  <2> QED BY <2>4, <2>5, Zenon
<1>6. CASE r = N - 1
  <2> DEFINE u == MonthStarts[N]
             v == YearLength
  <2>1. r + 1 = N /\ u \in Int /\ v \in Int
    BY <1>1, <1>2, <1>6
  <2>2. v - u \in ShortestMonth .. LongestMonth
    BY <1>1 DEF CalendarAssumption, InYear, N
  <2>3. StartOf(m) = y + u
    BY <1>3, <2>1, Zenon
  <2>4. StartOf(m + 1) = y + v
    <3>1. (m + 1) \div N = q + 1 /\ (m + 1) % N = 0
      BY <1>2, <1>6
    <3>2. StartOf(m + 1) = YearLength * (q + 1) + MonthStarts[0 + 1]
      BY <1>3, <3>1, Zenon
    <3>3. MonthStarts[0 + 1] = 0
      BY <1>1
    <3> QED BY <1>1, <1>4, <3>2, <3>3
  <2> HIDE DEF u, v
  <2>5. Follows(y + u, y + v)
    BY <1>4, <2>1, <2>2, Following
  <2> QED BY <2>3, <2>4, <2>5, Zenon
<1> QED BY <1>5, <1>6

(* Months start one after the other.                                       *)
LEMMA MonthsPass ==
  ASSUME CalendarAssumption, NEW m \in Int, NEW n \in Nat
  PROVE  StartOf(m + n) \in Int /\ StartOf(m + n) >= StartOf(m)
<1> DEFINE T == {k \in 0 .. n : StartOf(m + k) >= StartOf(m)}
<1>1. StartOf(m) \in Int /\ m + 0 = m /\ ShortestMonth \in Nat
  BY MonthsFollow DEF CalendarAssumption, Follows
<1>2. 0 \in T
  BY <1>1
<1>3. ASSUME NEW k \in 1 .. n, k - 1 \in T PROVE k \in T
  <2> DEFINE l == m + (k - 1)
             u == StartOf(l)
             v == StartOf(m + k)
             w == StartOf(m)
  <2>1. l \in Int /\ l + 1 = m + k
    OBVIOUS
  <2>2. u >= w
    BY <1>3
  <2>3. Follows(u, v)
    <3> HIDE DEF l
    <3>1. Follows(u, StartOf(l + 1))
      BY <2>1, MonthsFollow
    <3> QED BY <2>1, <3>1, Zenon
  <2>4. v >= w
    <3>1. w \in Int
      BY <1>1
    <3> HIDE DEF u, v, w
    <3> QED BY <1>1, <2>2, <2>3, <3>1 DEF Follows
  <2> QED BY <2>4
<1>4. \A k \in 0 .. n : k \in T
  <2> HIDE DEF T
  <2> QED BY <1>2, <1>3, Steps
<1>5. n \in T
  <2> HIDE DEF T
  <2> QED BY <1>4
<1>6. m + n \in Int
  OBVIOUS
<1>7. Follows(StartOf(m + n), StartOf(m + n + 1))
  BY <1>6, MonthsFollow
<1> QED BY <1>5, <1>7 DEF Follows

(* time.AddDate: months later is an instant not before, a month later is   *)
(* no more than the longest month later, several are no less than it.      *)
LEMMA MonthsLater ==
  ASSUME CalendarAssumption, NEW t \in Int, NEW n \in Nat
  PROVE  /\ AddMonths(t, n) \in Int /\ AddMonths(t, n) >= t
         /\ n > 1 => AddMonths(t, n) >= t + LongestMonth
         /\ AddMonths(t, 1) \in Int /\ AddMonths(t, 1) <= t + LongestMonth
<1> DEFINE m == MonthOf(t)
<1>1. m \in Int
  <2> DEFINE past == {k \in DOMAIN MonthStarts : MonthStarts[k] <= (t % YearLength)}
  <2>1. past \subseteq 1 .. Len(MonthStarts) /\ Len(MonthStarts) \in Nat
    BY DEF CalendarAssumption
  <2>2. Cardinality(past) \in Nat
    <3>1. IsFiniteSet(1 .. Len(MonthStarts))
      BY <2>1, FS_Interval
    <3> HIDE DEF past
    <3> QED BY <2>1, <3>1, FS_Subset, FS_CardinalityType
  <2>3. InYear \in Int /\ t \div YearLength \in Int
    BY <2>1 DEF InYear, CalendarAssumption
  <2>4. m = InYear * (t \div YearLength) + Cardinality(past) - 1
    BY DEF MonthOf
  <2> HIDE DEF past, m
  <2> QED BY <2>2, <2>3, <2>4
<1>2. AddMonths(t, n) = t + StartOf(m + n) - StartOf(m)
      /\ AddMonths(t, 1) = t + StartOf(m + 1) - StartOf(m)
  BY DEF AddMonths
<1> HIDE DEF m
<1> DEFINE w == StartOf(m)
           x == StartOf(m + 1)
           z == StartOf(m + n)
<1>3. /\ LongestMonth \in Nat /\ ShortestMonth \in Nat
      /\ LongestMonth <= ShortestMonth + ShortestMonth
  BY DEF CalendarAssumption
<1>4. Follows(w, x)
  BY <1>1, MonthsFollow
<1>5. z \in Int /\ z >= w
  BY <1>1, MonthsPass
<1>6. ASSUME n > 1 PROVE z >= w + LongestMonth
  <2> DEFINE l == m + 1
             u == m + 2
             k == n - 2
             v == StartOf(u)
  <2>1. l \in Int /\ u \in Int /\ l + 1 = u /\ k \in Nat /\ u + k = m + n
    BY <1>1, <1>6
  <2>2. Follows(x, v)
    <3> HIDE DEF l, u
    <3>1. Follows(StartOf(l), StartOf(l + 1))
      BY <2>1, MonthsFollow
    <3> QED BY <2>1, <3>1, Zenon DEF l
  <2>3. z >= v
    <3> HIDE DEF k, u
    <3>1. StartOf(u + k) >= StartOf(u)
      BY <2>1, MonthsPass
    <3> QED BY <2>1, <3>1, Zenon
  <2> HIDE DEF w, x, z, v
  <2> QED BY <1>3, <1>4, <1>5, <2>2, <2>3 DEF Follows
<1>7. AddMonths(t, n) = t + z - w /\ AddMonths(t, 1) = t + x - w
  BY <1>2
<1> HIDE DEF w, x, z
<1> QED BY <1>3, <1>4, <1>5, <1>6, <1>7 DEF Follows

-----------------------------------------------------------------------------
(***************************************************************************)
(* Sums over finite sets do not depend on the order of their elements.     *)
(***************************************************************************)

(* The element a fold takes first, the fold of the weights w over the      *)
(* subsets of S; that weights agree, that any element may be taken first.   *)
One(s) == CHOOSE x \in s : TRUE
IsSum(it, w, S) ==
  it = [s \in SUBSET S |-> IF s = {} THEN 0 ELSE w[One(s)] + it[s \ {One(s)}]]

Agree(w, v, S) == \A x \in S : w[x] = v[x]
AnyOrder(it, w, S) == \A s \in SUBSET S : \A e \in s : it[s] = w[e] + it[s \ {e}]

(* One picks an element.                                                   *)
LEMMA OneIn == ASSUME NEW s, s # {} PROVE One(s) \in s
  BY DEF One

(* For a finite set there is a function that adds weights up as the fold   *)
(* does.                                                                   *)
LEMMA SumExists ==
  ASSUME NEW S, IsFiniteSet(S), NEW w \in [S -> Int]
  PROVE  \E it \in [SUBSET S -> Int] : IsSum(it, w, S)
<1> DEFINE N == Cardinality(S)
           At(g, s) == g[s] = IF s = {} THEN 0 ELSE w[One(s)] + g[s \ {One(s)}]
           Upto(g, n) == \A s \in SUBSET S : Cardinality(s) <= n => At(g, s)
           T == {n \in 0 .. N : \E g \in [SUBSET S -> Int] : Upto(g, n)}
<1>0. /\ N \in Nat
      /\ \A s \in SUBSET S : /\ Cardinality(s) \in Nat /\ Cardinality(s) <= N
                             /\ Cardinality(s) = 0 <=> s = {}
  BY FS_Subset, FS_CardinalityType, FS_EmptySet
<1>1. 0 \in T
  <2> DEFINE g == [s \in SUBSET S |-> 0]
  <2>1. Upto(g, 0)
    BY <1>0
  <2>2. g \in [SUBSET S -> Int] /\ 0 \in 0 .. N
    BY <1>0
  <2> HIDE DEF g, Upto, N
  <2> QED BY <2>1, <2>2
<1>2. ASSUME NEW n \in 1 .. N, n - 1 \in T
      PROVE  n \in T
  <2>1. PICK g \in [SUBSET S -> Int] : Upto(g, n - 1)
    BY <1>2
  <2> DEFINE h == [s \in SUBSET S |-> IF Cardinality(s) = n
                                       THEN w[One(s)] + g[s \ {One(s)}] ELSE g[s]]
  <2>2. h \in [SUBSET S -> Int]
    <3>1. \A s \in SUBSET S : Cardinality(s) = n => w[One(s)] + g[s \ {One(s)}] \in Int
      <4> SUFFICES ASSUME NEW s \in SUBSET S, Cardinality(s) = n
                   PROVE  w[One(s)] + g[s \ {One(s)}] \in Int
        OBVIOUS
      <4>1. One(s) \in s
        BY <1>0, <1>2, OneIn
      <4> QED BY <4>1
    <3> HIDE DEF N
    <3> QED BY <3>1
  <2>3. ASSUME NEW s \in SUBSET S, Cardinality(s) <= n
        PROVE  At(h, s)
    <3>1. CASE s = {}
      <4>1. Cardinality(s) = 0 /\ h[s] = g[s]
        BY <3>1, <1>0, <1>2
      <4> HIDE DEF h
      <4> QED BY <3>1, <4>1, <2>1, <1>0
    <3>2. CASE s # {}
      <4>1. One(s) \in s
        BY <3>2, OneIn
      <4>2. s \ {One(s)} \in SUBSET S /\ Cardinality(s \ {One(s)}) = Cardinality(s) - 1
        BY <3>2, <4>1, Smaller
      <4>3. h[s \ {One(s)}] = g[s \ {One(s)}]
        BY <4>2, <2>3, <1>0
      <4>4. CASE Cardinality(s) = n
        <5>1. h[s] = w[One(s)] + g[s \ {One(s)}]
          BY <4>4
        <5> HIDE DEF h
        <5> QED BY <5>1, <4>3, <3>2
      <4>5. CASE Cardinality(s) # n
        <5>1. h[s] = g[s] /\ Cardinality(s) <= n - 1
          BY <4>5, <2>3, <1>0
        <5>2. At(g, s)
          BY <2>1, <5>1
        <5> HIDE DEF h
        <5> QED BY <5>1, <5>2, <4>3
      <4> QED BY <4>4, <4>5
    <3> QED BY <3>1, <3>2
  <2>4. Upto(h, n)
    BY <2>3
  <2> HIDE DEF h, Upto, N
  <2> QED BY <2>2, <2>4, <1>2
<1>3. N \in T
  <2> HIDE DEF T
  <2> QED BY <1>0, <1>1, <1>2, Steps
<1>4. PICK g \in [SUBSET S -> Int] : Upto(g, N)
  BY <1>3
<1>5. \A s \in SUBSET S : At(g, s)
  BY <1>4, <1>0
<1>6. g = [s \in SUBSET S |-> IF s = {} THEN 0 ELSE w[One(s)] + g[s \ {One(s)}]]
  BY <1>5
<1> QED BY <1>6 DEF IsSum

(* There is only one, on whatever larger set it was defined.               *)
LEMMA SumUnique ==
  ASSUME NEW S, IsFiniteSet(S), NEW R \in SUBSET S, NEW w, NEW v, Agree(v, w, R),
         NEW it, NEW jt, IsSum(it, w, S), IsSum(jt, v, R)
  PROVE  \A s \in SUBSET R : it[s] = jt[s]
<1> DEFINE T == {s \in SUBSET R : it[s] = jt[s]}
<1>0. IsFiniteSet(R)
  BY FS_Subset
<1>1. /\ \A s \in SUBSET S : it[s] = IF s = {} THEN 0 ELSE w[One(s)] + it[s \ {One(s)}]
      /\ \A s \in SUBSET R : jt[s] = IF s = {} THEN 0 ELSE v[One(s)] + jt[s \ {One(s)}]
      /\ \A x \in R : v[x] = w[x]
  BY DEF IsSum, Agree
<1>2. {} \in T
  BY <1>1
<1>3. ASSUME NEW s \in SUBSET R, s # {}
      PROVE  \E x \in s : s \ {x} \in T => s \in T
  <2>1. One(s) \in s
    BY <1>3, OneIn
  <2>2. /\ it[s] = w[One(s)] + it[s \ {One(s)}]
        /\ jt[s] = v[One(s)] + jt[s \ {One(s)}]
    BY <1>1, <1>3
  <2>3. s \ {One(s)} \in T => s \in T
    BY <1>1, <2>1, <2>2
  <2> QED BY <2>1, <2>3
<1> HIDE DEF T
<1>4. \A s \in SUBSET R : s \in T
  BY <1>0, <1>2, <1>3, SetInduction
<1> QED BY <1>4 DEF T

(* The order in which elements are taken makes no difference.              *)
LEMMA SumPart ==
  ASSUME NEW S, IsFiniteSet(S), NEW w, w \in [S -> Int],
         NEW it, it \in [SUBSET S -> Int], IsSum(it, w, S)
  PROVE  AnyOrder(it, w, S)
<1>1. \A s \in SUBSET S : s # {} => it[s] = w[One(s)] + it[s \ {One(s)}]
  BY DEF IsSum
<1> DEFINE Ok(s) == \A e \in s : it[s] = w[e] + it[s \ {e}]
           U == {s \in SUBSET S : Ok(s)}
           cards == {n \in 0 .. Cardinality(S) : \A s \in SUBSET S : Cardinality(s) <= n => Ok(s)}
<1>2. /\ Cardinality(S) \in Nat
      /\ \A s \in SUBSET S : /\ Cardinality(s) \in Nat /\ Cardinality(s) <= Cardinality(S)
                             /\ Cardinality(s) = 0 <=> s = {}
  BY FS_Subset, FS_CardinalityType, FS_EmptySet
<1>3. 0 \in cards
  BY <1>2
<1>4. ASSUME NEW n \in 1 .. Cardinality(S), n - 1 \in cards,
             NEW s \in SUBSET S, Cardinality(s) <= n, NEW e \in s
      PROVE  it[s] = w[e] + it[s \ {e}]
  <2> DEFINE c == One(s)
  <2>1. c \in s
    BY OneIn
  <2>2. it[s] = w[c] + it[s \ {c}]
    BY <1>1
  <2>3. CASE e = c
    BY <2>2, <2>3
  <2>4. CASE e # c
    <3>1. /\ s \ {c} \in SUBSET S /\ s \ {e} \in SUBSET S
          /\ Cardinality(s \ {c}) = Cardinality(s) - 1 /\ Cardinality(s \ {e}) = Cardinality(s) - 1
      BY <2>1, Smaller
    <3>2. Ok(s \ {c}) /\ Ok(s \ {e})
      <4>1. \A r \in SUBSET S : Cardinality(r) <= n - 1 => Ok(r)
        <5> HIDE DEF Ok
        <5> QED BY <1>4
      <4>2. Cardinality(s \ {c}) <= n - 1 /\ Cardinality(s \ {e}) <= n - 1
        BY <3>1, <1>4, <1>2
      <4> HIDE DEF Ok
      <4> QED BY <3>1, <4>1, <4>2
    <3>3. e \in s \ {c} /\ c \in s \ {e} /\ (s \ {c}) \ {e} = (s \ {e}) \ {c}
      BY <2>1, <2>4
    <3>4. it[s \ {c}] = w[e] + it[(s \ {c}) \ {e}] /\ it[s \ {e}] = w[c] + it[(s \ {c}) \ {e}]
      BY <3>2, <3>3
    <3>5. w[e] \in Int /\ w[c] \in Int /\ it[(s \ {c}) \ {e}] \in Int
      BY <2>1
    <3> HIDE DEF c
    <3> QED BY <2>2, <3>4, <3>5
  <2> QED BY <2>3, <2>4
<1>5. \A n \in 1 .. Cardinality(S) : n - 1 \in cards => n \in cards
  BY <1>4
<1>6. Cardinality(S) \in cards
  <2> HIDE DEF cards
  <2> QED BY <1>2, <1>3, <1>5, Steps
<1> QED BY <1>6, <1>2 DEF AnyOrder

(* SumFunction of a part is such a sum.                                    *)
LEMMA SumOfPart ==
  ASSUME NEW S, IsFiniteSet(S), NEW w, NEW it, IsSum(it, w, S),
         NEW R \in SUBSET S, NEW v, DOMAIN v = R, Agree(v, w, R)
  PROVE  SumFunction(v) = it[R]
<1> DEFINE Q(jt) == jt = [s \in SUBSET R |-> IF s = {} THEN 0
                            ELSE v[CHOOSE x \in s : TRUE] + jt[s \ {CHOOSE x \in s : TRUE}]]
           jt == CHOOSE jt : Q(jt)
           kt == [s \in SUBSET R |-> it[s]]
<1>1. SumFunction(v) = jt[R]
  BY DEF SumFunction, SumFunctionOnSet, FoldFunctionOnSet, MapThenFoldSet
<1>2. \A lt : Q(lt) <=> IsSum(lt, v, R)
  BY DEF IsSum, One
<1>3. IsSum(kt, v, R)
  <2>1. ASSUME NEW s \in SUBSET R
        PROVE  kt[s] = IF s = {} THEN 0 ELSE v[One(s)] + kt[s \ {One(s)}]
    <3>1. s \in SUBSET S /\ s \ {One(s)} \in SUBSET R
      OBVIOUS
    <3>2. it[s] = IF s = {} THEN 0 ELSE w[One(s)] + it[s \ {One(s)}]
      BY <3>1 DEF IsSum
    <3>3. s # {} => v[One(s)] = w[One(s)]
      BY OneIn DEF Agree
    <3> QED BY <3>1, <3>2, <3>3
  <2> QED BY <2>1 DEF IsSum
<1>4. Q(kt)
  <2> HIDE DEF Q, kt
  <2> QED BY <1>2, <1>3
<1>5. Q(jt)
  <2> HIDE DEF Q, kt
  <2> QED BY <1>4
<1>6. IsSum(jt, v, R)
  <2> HIDE DEF Q, jt
  <2> QED BY <1>2, <1>5
<1>7. \A s \in SUBSET R : it[s] = jt[s]
  <2> HIDE DEF Q, jt, kt
  <2> QED BY <1>6, SumUnique
<1> QED BY <1>1, <1>7

(* A sum of integers is one ...                                            *)
LEMMA SumInt ==
  ASSUME NEW S, IsFiniteSet(S), NEW w, w \in [S -> Int]
  PROVE  SumFunction(w) \in Int
<1>1. PICK it \in [SUBSET S -> Int] : IsSum(it, w, S)
  BY SumExists
<1>2. SumFunction(w) = it[S]
  <2>1. DOMAIN w = S /\ Agree(w, w, S) /\ S \in SUBSET S
    BY DEF Agree
  <2> QED BY <1>1, <2>1, SumOfPart
<1> QED BY <1>1, <1>2

(* ... of any element and the sum of the others.                           *)
LEMMA SumLess ==
  ASSUME NEW S, IsFiniteSet(S), NEW w, w \in [S -> Int], NEW x \in S,
         NEW v, DOMAIN v = S \ {x}, Agree(v, w, S \ {x})
  PROVE  SumFunction(w) = w[x] + SumFunction(v)
<1>1. PICK it \in [SUBSET S -> Int] : IsSum(it, w, S)
  BY SumExists
<1>2. SumFunction(w) = it[S]
  <2>1. DOMAIN w = S /\ Agree(w, w, S) /\ S \in SUBSET S
    BY DEF Agree
  <2> QED BY <1>1, <2>1, SumOfPart
<1>3. AnyOrder(it, w, S)
  BY <1>1, SumPart
<1>4. SumFunction(v) = it[S \ {x}]
  BY <1>1, SumOfPart
<1>5. it[S] = w[x] + it[S \ {x}]
  BY <1>3 DEF AnyOrder
<1> QED BY <1>2, <1>4, <1>5

(* The sum over nothing.                                                   *)
LEMMA SumEmpty ==
  ASSUME NEW w, DOMAIN w = {}
  PROVE  SumFunction(w) = 0
<1>1. IsFiniteSet({})
  BY FS_EmptySet
<1> DEFINE v == [x \in {} |-> 0]
<1>2. v \in [{} -> Int] /\ Agree(w, v, {})
  BY DEF Agree
<1> HIDE DEF v
<1>3. PICK it \in [SUBSET {} -> Int] : IsSum(it, v, {})
  BY <1>1, <1>2, SumExists
<1>4. SumFunction(w) = it[{}]
  BY <1>1, <1>2, <1>3, SumOfPart
<1>5. it[{}] = 0
  BY <1>3 DEF IsSum
<1> QED BY <1>4, <1>5

(* What a row adds to an amount.                                           *)
LEMMA Amounts ==
  ASSUME NEW S, IsFiniteSet(S), \A e \in S : e.delta \in Int
  PROVE  /\ Amount(S) \in Int
         /\ \A e \in S : Amount(S) = e.delta + Amount(S \ {e})
<1> DEFINE w == [e \in S |-> e.delta]
<1>1. w \in [S -> Int] /\ \A e \in S : w[e] = e.delta
  OBVIOUS
<1>2. Amount(S) = SumFunction(w)
  BY Zenon DEF Amount
<1> HIDE DEF w
<1>3. ASSUME NEW x \in S PROVE Amount(S) = x.delta + Amount(S \ {x})
  <2> DEFINE v == [e \in S \ {x} |-> e.delta]
  <2>1. DOMAIN v = S \ {x} /\ Agree(v, w, S \ {x})
    BY <1>1 DEF Agree
  <2>2. Amount(S \ {x}) = SumFunction(v)
    BY Zenon DEF Amount
  <2> HIDE DEF v
  <2>3. SumFunction(w) = w[x] + SumFunction(v)
    BY <1>1, <2>1, SumLess
  <2> QED BY <1>1, <1>2, <2>2, <2>3
<1>4. SumFunction(w) \in Int
  BY <1>1, SumInt
<1> QED BY <1>2, <1>3, <1>4

(* No rows, no amount.                                                     *)
LEMMA AmountEmpty == Amount({}) = 0
<1>1. DOMAIN [e \in {} |-> e.delta] = {}
  OBVIOUS
<1> QED BY <1>1, SumEmpty, Zenon DEF Amount

(* What buckets hold together is a sum as well.                            *)
LEMMA HeldSums ==
  ASSUME NEW b, NEW S, IsFiniteSet(S), \A i \in S : b.buckets[i].left \in Int
  PROVE  /\ Held(b, S) \in Int
         /\ \A i \in S : Held(b, S) = b.buckets[i].left + Held(b, S \ {i})
<1> DEFINE w == [i \in S |-> b.buckets[i].left]
<1>1. w \in [S -> Int] /\ \A i \in S : w[i] = b.buckets[i].left
  OBVIOUS
<1>2. Held(b, S) = SumFunction(w)
  BY Zenon DEF Held
<1> HIDE DEF w
<1>3. ASSUME NEW x \in S PROVE Held(b, S) = b.buckets[x].left + Held(b, S \ {x})
  <2> DEFINE v == [i \in S \ {x} |-> b.buckets[i].left]
  <2>1. DOMAIN v = S \ {x} /\ Agree(v, w, S \ {x})
    BY <1>1 DEF Agree
  <2>2. Held(b, S \ {x}) = SumFunction(v)
    BY Zenon DEF Held
  <2> HIDE DEF v
  <2>3. SumFunction(w) = w[x] + SumFunction(v)
    BY <1>1, <2>1, SumLess
  <2> QED BY <1>1, <1>2, <2>2, <2>3
<1>4. SumFunction(w) \in Int
  BY <1>1, SumInt
<1> QED BY <1>2, <1>3, <1>4

(* No buckets hold nothing.                                                *)
LEMMA HeldEmpty == ASSUME NEW b PROVE Held(b, {}) = 0
<1>1. DOMAIN [i \in {} |-> b.buckets[i].left] = {}
  OBVIOUS
<1> QED BY <1>1, SumEmpty, Zenon DEF Held

(* One row more.                                                           *)
LEMMA AmountAdd ==
  ASSUME NEW S, IsFiniteSet(S), \A e \in S : e.delta \in Int,
         NEW x, x \notin S, x.delta \in Int
  PROVE  Amount(S \cup {x}) = Amount(S) + x.delta
<1>1. IsFiniteSet(S \cup {x}) /\ \A e \in S \cup {x} : e.delta \in Int
  BY FS_AddElement
<1>2. (S \cup {x}) \ {x} = S /\ x \in S \cup {x}
  OBVIOUS
<1>3. \A e \in S \cup {x} : Amount(S \cup {x}) = e.delta + Amount((S \cup {x}) \ {e})
  BY <1>1, Amounts
<1>4. Amount(S) \in Int
  BY Amounts
<1>5. Amount(S \cup {x}) = x.delta + Amount((S \cup {x}) \ {x})
  BY <1>2, <1>3, Zenon
<1>6. Amount((S \cup {x}) \ {x}) = Amount(S)
  BY <1>2, Zenon
<1> QED BY <1>4, <1>5, <1>6

(* Rows that only take add up to nothing or less.                          *)
LEMMA AmountNegative ==
  ASSUME NEW S, IsFiniteSet(S), \A e \in S : e.delta \in Int /\ e.delta <= 0
  PROVE  Amount(S) <= 0
<1> DEFINE T == {s \in SUBSET S : Amount(s) <= 0}
<1>1. {} \in T
  BY AmountEmpty
<1>2. ASSUME NEW s \in SUBSET S, s # {}
      PROVE  \E x \in s : s \ {x} \in T => s \in T
  <2>1. PICK x \in s : TRUE
    BY <1>2
  <2>2. IsFiniteSet(s) /\ \A e \in s : e.delta \in Int
    BY FS_Subset
  <2>3. Amount(s) = x.delta + Amount(s \ {x}) /\ Amount(s) \in Int
    BY <2>2, Amounts
  <2>4. Amount(s \ {x}) \in Int
    BY <2>2, Amounts, FS_RemoveElement
  <2>5. s \ {x} \in SUBSET S /\ x.delta \in Int /\ x.delta <= 0
    OBVIOUS
  <2>6. Amount(s \ {x}) <= 0 => Amount(s) <= 0
    BY <2>3, <2>4, <2>5
  <2> QED BY <2>1, <2>5, <2>6
<1> HIDE DEF T
<1>3. \A s \in SUBSET S : s \in T
  BY <1>1, <1>2, SetInduction
<1> QED BY <1>3 DEF T

-----------------------------------------------------------------------------
(***************************************************************************)
(* A good book, and that posting rows keeps it good.                       *)
(***************************************************************************)

(* The types of a book.                                                    *)
Bucket ==
    [source : {"plan_grant", "topup", "adjustment"}, amount : Int, left : Int, expires : Int]

(* The ledger rows of a bucket, and its debits that are not refunded.      *)
RowsOf(b, i) == {e \in b.ledger : e.bucket = i}
Open(b, i) ==
    {e \in RowsOf(b, i) : e.key[1] = "debit" /\ <<"refund", e.key[2], i>> \notin Keys(b)}

BookTypes(b) ==
    /\ b.buckets \in Seq(Bucket)
    /\ IsFiniteSet(b.ledger)
    /\ \A e \in b.ledger : e.bucket \in Ids(b) /\ e.delta \in Int
(* The ledger is unique on its key; a debit takes, and is of the bucket    *)
(* its key names.                                                          *)
KeysDiffer(b) == \A e, f \in b.ledger : e.key = f.key => e = f
DebitsOwn(b) ==
    \A e \in b.ledger :
        e.key[1] = "debit" => e.key = <<"debit", e.key[2], e.bucket>> /\ e.delta < 0
(* A bucket holds the sum of its rows; and if all its debits were          *)
(* refunded, it would still hold no more than it was made with.            *)
Explained(b) == \A i \in Ids(b) : b.buckets[i].left = Amount(RowsOf(b, i))
Covered(b) ==
    \A i \in Ids(b) : /\ b.buckets[i].left >= 0
                      /\ b.buckets[i].left - Amount(Open(b, i)) <= b.buckets[i].amount
Good(b) == BookTypes(b) /\ KeysDiffer(b) /\ DebitsOwn(b) /\ Explained(b) /\ Covered(b)

(* Rows an operation may post: one for each bucket and each key, none that *)
(* overdraws its bucket.                                                   *)
Legal(b, rows) ==
    /\ \A r \in rows : /\ r.bucket \in Ids(b) /\ r.delta \in Int
                       /\ r.key \notin Keys(b) => b.buckets[r.bucket].left + r.delta >= 0
                       /\ r.key[1] = "debit" =>
                            r.key = <<"debit", r.key[2], r.bucket>> /\ r.delta < 0
    /\ \A r, q \in rows : r.bucket = q.bucket \/ r.key = q.key => r = q

(* What a bucket of a good book holds is a number.                         *)
LEMMA BucketTypes ==
  ASSUME NEW b, Good(b), NEW i \in Ids(b)
  PROVE  /\ b.buckets[i].left \in Int /\ b.buckets[i].left >= 0
         /\ b.buckets[i].amount \in Int /\ b.buckets[i].expires \in Int
<1>1. b.buckets[i] \in Bucket
  BY DEF Good, BookTypes, Ids
<1> QED BY <1>1 DEF Bucket, Good, Covered

(* The two sums the invariant is about are sums.                           *)
LEMMA OpenSums ==
  ASSUME NEW b, BookTypes(b), NEW i
  PROVE  /\ IsFiniteSet(RowsOf(b, i)) /\ IsFiniteSet(Open(b, i))
         /\ \A e \in RowsOf(b, i) : e.delta \in Int
         /\ Amount(RowsOf(b, i)) \in Int /\ Amount(Open(b, i)) \in Int
<1>1. RowsOf(b, i) \in SUBSET b.ledger /\ Open(b, i) \in SUBSET b.ledger
  BY DEF RowsOf, Open
<1>2. IsFiniteSet(RowsOf(b, i)) /\ IsFiniteSet(Open(b, i))
  BY <1>1, FS_Subset DEF BookTypes
<1>3. /\ \A e \in RowsOf(b, i) : e.delta \in Int
      /\ \A e \in Open(b, i) : e.delta \in Int
  BY <1>1 DEF BookTypes
<1> QED BY <1>2, <1>3, Amounts

(* A bucket has one fresh row, and moves by its delta, or none, and stays. *)
LEMMA Moved ==
  ASSUME NEW b, Good(b), NEW rows, Legal(b, rows), NEW i \in Ids(b), NEW m, m = MoveTokens(b, rows)
  PROVE  /\ m.buckets[i] \in Bucket /\ m.buckets[i].amount = b.buckets[i].amount
         /\ \/ /\ \A r \in rows : r.bucket = i => r.key \in Keys(b)
               /\ m.buckets[i].left = b.buckets[i].left
               /\ RowsOf(m, i) = RowsOf(b, i)
            \/ \E r \in rows : /\ r.bucket = i /\ r.key \notin Keys(b)
                               /\ m.buckets[i].left = b.buckets[i].left + r.delta
                               /\ RowsOf(m, i) = RowsOf(b, i) \cup {r}
<1> DEFINE fresh == {r \in rows : r.key \notin Keys(b)}
           mine == {r \in fresh : r.bucket = i}
<1>1. /\ m.buckets[i] = [b.buckets[i] EXCEPT !.left = @ + Amount(mine)]
      /\ m.ledger = b.ledger \cup fresh
  BY DEF MoveTokens
<1>2. b.buckets[i] \in Bucket
  BY DEF Good, BookTypes, Ids
<1>3. CASE mine = {}
  <2>1. Amount(mine) = 0
    BY <1>3, AmountEmpty
  <2>2. RowsOf(m, i) = RowsOf(b, i)
    BY <1>1, <1>3 DEF RowsOf
  <2>3. \A r \in rows : r.bucket = i => r.key \in Keys(b)
    BY <1>3
  <2> HIDE DEF mine
  <2> QED BY <1>1, <1>2, <2>1, <2>2, <2>3 DEF Bucket
<1>4. CASE mine # {}
  <2>1. PICK r \in mine : TRUE
    BY <1>4
  <2>2. mine = {r}
    BY <2>1 DEF Legal
  <2>3. r.delta \in Int /\ r \in rows /\ r.bucket = i /\ r.key \notin Keys(b)
    BY <2>1 DEF Legal
  <2>4. Amount({r}) = r.delta
    <3>1. IsFiniteSet({}) /\ {} \cup {r} = {r} /\ r \notin {} /\ \A e \in {} : e.delta \in Int
      BY FS_EmptySet
    <3>2. Amount({} \cup {r}) = Amount({}) + r.delta
      BY <3>1, <2>3, AmountAdd
    <3>3. Amount({} \cup {r}) = Amount({r})
      BY <3>1, Zenon
    <3> QED BY <3>2, <3>3, <2>3, AmountEmpty
  <2>5. RowsOf(m, i) = RowsOf(b, i) \cup {r}
    BY <1>1, <2>2 DEF RowsOf
  <2>6. Amount(mine) = r.delta
    BY <2>2, <2>4, Zenon
  <2> HIDE DEF mine
  <2> QED BY <1>1, <1>2, <2>3, <2>5, <2>6 DEF Bucket
<1> QED BY <1>3, <1>4

(* Whatever legal rows are posted, the ledger goes on explaining the       *)
(* buckets.                                                                *)
LEMMA MovedBook ==
  ASSUME NEW b, Good(b), NEW rows, Legal(b, rows), NEW m, m = MoveTokens(b, rows)
  PROVE  /\ BookTypes(m) /\ KeysDiffer(m) /\ DebitsOwn(m) /\ Explained(m)
         /\ Ids(m) = Ids(b) /\ \A i \in Ids(m) : m.buckets[i].left >= 0
<1> DEFINE fresh == {r \in rows : r.key \notin Keys(b)}
<1>1. /\ m.buckets =
           [i \in Ids(b) |->
              [b.buckets[i] EXCEPT !.left = @ + Amount({r \in fresh : r.bucket = i})]]
      /\ m.ledger = b.ledger \cup fresh
  BY DEF MoveTokens
<1>2. Ids(m) = Ids(b)
  BY <1>1 DEF Ids
<1>3. m.buckets \in Seq(Bucket)
  <2>1. \A i \in Ids(b) : m.buckets[i] \in Bucket
    BY Moved
  <2>2. Len(b.buckets) \in Nat /\ Ids(b) = 1 .. Len(b.buckets)
    BY DEF Good, BookTypes, Ids
  <2>3. m.buckets \in [1 .. Len(b.buckets) -> Bucket]
    BY <1>1, <2>1, <2>2
  <2> QED BY <2>2, <2>3
<1>4. BookTypes(m)
  <2>1. IsFiniteSet(fresh)
    <3> DEFINE f == [r \in fresh |-> r.bucket]
    <3>1. Len(b.buckets) \in Nat /\ Ids(b) = 1 .. Len(b.buckets)
      BY DEF Good, BookTypes, Ids
    <3>2. f \in Injection(fresh, 1 .. Len(b.buckets))
      BY <3>1 DEF Legal, Injection, IsInjective
    <3>3. IsFiniteSet(1 .. Len(b.buckets))
      BY <3>1, FS_Interval
    <3> HIDE DEF f, fresh
    <3> QED BY <3>2, <3>3, FS_Injection
  <2>2. IsFiniteSet(m.ledger)
    <3>1. IsFiniteSet(b.ledger)
      BY DEF Good, BookTypes
    <3> HIDE DEF fresh
    <3>2. IsFiniteSet(b.ledger \cup fresh)
      BY <2>1, <3>1, FS_Union, Zenon
    <3> QED BY <1>1, <3>2, Zenon
  <2>3. \A e \in m.ledger : e.bucket \in Ids(m) /\ e.delta \in Int
    BY <1>1, <1>2 DEF Good, BookTypes, Legal
  <2> QED BY <1>3, <2>2, <2>3 DEF BookTypes
<1>5. KeysDiffer(m)
  BY <1>1 DEF Good, KeysDiffer, Legal, Keys
<1>6. DebitsOwn(m)
  BY <1>1 DEF Good, DebitsOwn, Legal
<1>7. ASSUME NEW i \in Ids(b)
      PROVE  m.buckets[i].left = Amount(RowsOf(m, i)) /\ m.buckets[i].left >= 0
  <2>0. /\ b.buckets[i].left = Amount(RowsOf(b, i)) /\ b.buckets[i].left >= 0
        /\ IsFiniteSet(RowsOf(b, i)) /\ \A e \in RowsOf(b, i) : e.delta \in Int
        /\ Amount(RowsOf(b, i)) \in Int
    BY OpenSums DEF Good, Explained, Covered
  <2>1. CASE m.buckets[i].left = b.buckets[i].left /\ RowsOf(m, i) = RowsOf(b, i)
    BY <2>0, <2>1
  <2>2. CASE \E r \in rows : /\ r.bucket = i /\ r.key \notin Keys(b)
                             /\ m.buckets[i].left = b.buckets[i].left + r.delta
                             /\ RowsOf(m, i) = RowsOf(b, i) \cup {r}
    <3>1. PICK r \in rows : /\ r.bucket = i /\ r.key \notin Keys(b)
                            /\ m.buckets[i].left = b.buckets[i].left + r.delta
                            /\ RowsOf(m, i) = RowsOf(b, i) \cup {r}
      BY <2>2
    <3>2. r \notin RowsOf(b, i) /\ r.delta \in Int /\ b.buckets[i].left + r.delta >= 0
      BY <3>1 DEF RowsOf, Keys, Legal
    <3>3. Amount(RowsOf(b, i) \cup {r}) = Amount(RowsOf(b, i)) + r.delta
      BY <2>0, <3>2, AmountAdd
    <3>4. Amount(RowsOf(m, i)) = Amount(RowsOf(b, i) \cup {r})
      BY <3>1, Zenon
    <3> QED BY <2>0, <3>1, <3>2, <3>3, <3>4
  <2> QED BY <2>1, <2>2, Moved
<1> QED BY <1>2, <1>4, <1>5, <1>6, <1>7 DEF Explained

(* Charges, corrections and expiries: a debit takes as much from the       *)
(* bucket as it leaves to be refunded.                                     *)
LEMMA SpendingGood ==
  ASSUME NEW b, Good(b), NEW rows, Legal(b, rows), NEW m, m = MoveTokens(b, rows),
         \A r \in rows : r.delta <= 0 /\ r.key[1] # "refund"
  PROVE  Good(m)
<1>1. m.ledger = b.ledger \cup {r \in rows : r.key \notin Keys(b)}
  BY DEF MoveTokens
<1>2. ASSUME NEW i \in Ids(b)
      PROVE  m.buckets[i].left - Amount(Open(m, i)) <= m.buckets[i].amount
  <2>1. \A x : <<"refund", x, i>> \in Keys(m) <=> <<"refund", x, i>> \in Keys(b)
    <3> SUFFICES ASSUME NEW x, <<"refund", x, i>> \in Keys(m) PROVE <<"refund", x, i>> \in Keys(b)
      BY <1>1 DEF Keys
    <3>1. PICK e \in m.ledger : e.key = <<"refund", x, i>>
      BY DEF Keys
    <3>2. e \in b.ledger
      BY <1>1, <3>1
    <3> QED BY <3>1, <3>2 DEF Keys
  <2>2. /\ Amount(Open(b, i)) \in Int /\ IsFiniteSet(Open(b, i))
        /\ \A e \in Open(b, i) : e.delta \in Int
        /\ b.buckets[i].left \in Int /\ b.buckets[i].amount \in Int
        /\ b.buckets[i].left - Amount(Open(b, i)) <= b.buckets[i].amount
    BY OpenSums, BucketTypes DEF Good, Covered, Open
  <2>3. m.buckets[i].amount = b.buckets[i].amount
    BY Moved
  <2>4. CASE m.buckets[i].left = b.buckets[i].left /\ RowsOf(m, i) = RowsOf(b, i)
    <3>1. Open(m, i) = Open(b, i)
      BY <2>1, <2>4 DEF Open
    <3> QED BY <2>2, <2>3, <2>4, <3>1
  <2>5. CASE \E r \in rows : /\ r.bucket = i /\ r.key \notin Keys(b)
                             /\ m.buckets[i].left = b.buckets[i].left + r.delta
                             /\ RowsOf(m, i) = RowsOf(b, i) \cup {r}
    <3>1. PICK r \in rows : /\ r.bucket = i /\ r.key \notin Keys(b)
                            /\ m.buckets[i].left = b.buckets[i].left + r.delta
                            /\ RowsOf(m, i) = RowsOf(b, i) \cup {r}
      BY <2>5
    <3>2. r \notin Open(b, i) /\ r.delta \in Int /\ r.delta <= 0
      BY <3>1 DEF Open, RowsOf, Keys, Legal
    <3>3. CASE Open(m, i) = Open(b, i)
      BY <2>2, <2>3, <3>1, <3>2, <3>3
    <3>4. CASE Open(m, i) = Open(b, i) \cup {r}
      <4>1. Amount(Open(b, i) \cup {r}) = Amount(Open(b, i)) + r.delta
        BY <2>2, <3>2, AmountAdd
      <4>2. Amount(Open(m, i)) = Amount(Open(b, i)) + r.delta
        BY <3>4, <4>1, Zenon
      <4> QED BY <2>2, <2>3, <3>1, <3>2, <4>2
    <3>5. \A e : e \in Open(m, i) <=> (e \in Open(b, i) \/ (e = r /\ r \in Open(m, i)))
      BY <2>1, <3>1 DEF Open
    <3>6. Open(m, i) = Open(b, i) \/ Open(m, i) = Open(b, i) \cup {r}
      BY <3>5
    <3> QED BY <3>3, <3>4, <3>6
  <2> QED BY <2>4, <2>5, Moved
<1> QED BY <1>2, MovedBook DEF Good, Covered

(* RefundJob: a refund gives back what its debit, unrefunded until now,    *)
(* has taken.                                                              *)
LEMMA RefundGood ==
  ASSUME NEW b, Good(b), NEW j, NEW now, NEW m, m = MoveTokens(b, Refunds(b, j, now))
  PROVE  Good(m)
<1> DEFINE rows == Refunds(b, j, now)
<1>0. rows = {[key    |-> <<"refund", j, e.bucket>>,
               bucket |-> e.bucket,
               delta  |-> -e.delta] : e \in Debits(b, j)}
  BY DEF Refunds, RefundKey
<1> HIDE DEF rows
<1>1. m.ledger = b.ledger \cup {r \in rows : r.key \notin Keys(b)}
  BY DEF MoveTokens, rows
<1>2. \A d \in Debits(b, j) : /\ d \in b.ledger /\ d.key = <<"debit", j, d.bucket>>
                              /\ d.bucket \in Ids(b) /\ d.delta \in Int /\ d.delta < 0
  BY DEF Debits, Good, DebitsOwn, BookTypes
<1>3. \A r \in rows : \E d \in Debits(b, j) :
         r.key = <<"refund", j, d.bucket>> /\ r.bucket = d.bucket /\ r.delta = -d.delta
  BY <1>0
<1>4. Legal(b, rows)
  <2>2. ASSUME NEW r \in rows
        PROVE  /\ r.bucket \in Ids(b) /\ r.delta \in Int /\ r.key[1] # "debit"
               /\ b.buckets[r.bucket].left + r.delta >= 0
    <3>1. PICK d \in Debits(b, j) :
            r.key = <<"refund", j, d.bucket>> /\ r.bucket = d.bucket /\ r.delta = -d.delta
      BY <1>3
    <3>2. b.buckets[d.bucket].left \in Int /\ b.buckets[d.bucket].left >= 0
      BY <1>2, BucketTypes
    <3> QED BY <1>2, <3>1, <3>2
  <2>3. ASSUME NEW r \in rows, NEW q \in rows, r.bucket = q.bucket \/ r.key = q.key
        PROVE  r = q
    <3>1. PICK d \in Debits(b, j) :
            r = [key |-> <<"refund", j, d.bucket>>, bucket |-> d.bucket, delta |-> -d.delta]
      BY <1>0
    <3>2. PICK e \in Debits(b, j) :
            q = [key |-> <<"refund", j, e.bucket>>, bucket |-> e.bucket, delta |-> -e.delta]
      BY <1>0
    <3>3. d.bucket = e.bucket
      BY <2>3, <3>1, <3>2
    <3>4. d.key = e.key
      BY <1>2, <3>3
    <3>5. d = e
      BY <1>2, <3>4 DEF Good, KeysDiffer
    <3> QED BY <3>1, <3>2, <3>5
  <2> QED BY <2>2, <2>3 DEF Legal
<1>5. ASSUME NEW i \in Ids(b)
      PROVE  m.buckets[i].left - Amount(Open(m, i)) <= m.buckets[i].amount
  <2>1. /\ Amount(Open(b, i)) \in Int /\ IsFiniteSet(Open(b, i))
        /\ \A e \in Open(b, i) : e.delta \in Int
        /\ b.buckets[i].left \in Int /\ b.buckets[i].amount \in Int
        /\ b.buckets[i].left - Amount(Open(b, i)) <= b.buckets[i].amount
    BY OpenSums, BucketTypes DEF Good, Covered, Open
  <2>2. m.buckets[i].amount = b.buckets[i].amount
    BY <1>4, Moved DEF rows
  <2>3. CASE /\ \A r \in rows : r.bucket = i => r.key \in Keys(b)
             /\ m.buckets[i].left = b.buckets[i].left /\ RowsOf(m, i) = RowsOf(b, i)
    <3>1. \A x : <<"refund", x, i>> \in Keys(m) <=> <<"refund", x, i>> \in Keys(b)
      <4> SUFFICES ASSUME NEW x, <<"refund", x, i>> \in Keys(m) PROVE <<"refund", x, i>> \in Keys(b)
        BY <1>1 DEF Keys
      <4>1. PICK e \in m.ledger : e.key = <<"refund", x, i>>
        BY DEF Keys
      <4>2. e \in b.ledger
        BY <1>1, <1>3, <2>3, <4>1
      <4> QED BY <4>1, <4>2 DEF Keys
    <3>2. Open(m, i) = Open(b, i)
      BY <2>3, <3>1 DEF Open
    <3> QED BY <2>1, <2>2, <2>3, <3>2
  <2>4. CASE \E r \in rows : /\ r.bucket = i /\ r.key \notin Keys(b)
                             /\ m.buckets[i].left = b.buckets[i].left + r.delta
                             /\ RowsOf(m, i) = RowsOf(b, i) \cup {r}
    <3>1. PICK r \in rows : /\ r.bucket = i /\ r.key \notin Keys(b)
                            /\ m.buckets[i].left = b.buckets[i].left + r.delta
                            /\ RowsOf(m, i) = RowsOf(b, i) \cup {r}
      BY <2>4
    <3>2. PICK d \in Debits(b, j) :
            r.key = <<"refund", j, i>> /\ d.bucket = i /\ r.delta = -d.delta
      BY <1>3, <3>1
    <3>3. d \in Open(b, i) /\ d.key[2] = j
      BY <1>2, <3>1, <3>2 DEF Open, RowsOf, Keys
    <3>4. \A x : <<"refund", x, i>> \in Keys(m) <=> (<<"refund", x, i>> \in Keys(b) \/ x = j)
      <4>1. ASSUME NEW x, <<"refund", x, i>> \in Keys(m), x # j PROVE <<"refund", x, i>> \in Keys(b)
        <5>1. PICK e \in m.ledger : e.key = <<"refund", x, i>>
          BY <4>1 DEF Keys
        <5>2. e \in b.ledger
          BY <1>1, <1>3, <4>1, <5>1
        <5> QED BY <5>1, <5>2 DEF Keys
      <4>2. <<"refund", j, i>> \in Keys(m)
        BY <1>1, <3>1, <3>2 DEF Keys
      <4>3. Keys(b) \subseteq Keys(m)
        BY <1>1 DEF Keys
      <4> QED BY <4>1, <4>2, <4>3
    <3>5. \A e \in Open(b, i) : e.key[2] = j => e = d
      BY <3>2, <3>3 DEF Open, RowsOf, Good, DebitsOwn, KeysDiffer
    <3>6. Open(m, i) = Open(b, i) \ {d}
      <4>1. \A e : e \in Open(m, i) <=> e \in Open(b, i) /\ e.key[2] # j
        BY <3>1, <3>2, <3>4 DEF Open
      <4> QED BY <3>3, <3>5, <4>1
    <3>7. Amount(Open(b, i)) = d.delta + Amount(Open(b, i) \ {d})
      BY <2>1, <3>3, Amounts
    <3>8. Amount(Open(b, i) \ {d}) \in Int
      BY <2>1, Amounts, FS_RemoveElement
    <3>9. Amount(Open(m, i)) = Amount(Open(b, i) \ {d})
      BY <3>6, Zenon
    <3> QED BY <1>2, <2>1, <2>2, <3>1, <3>2, <3>7, <3>8, <3>9
  <2> QED BY <1>4, <2>3, <2>4, Moved DEF rows
<1> QED BY <1>4, <1>5, MovedBook DEF rows, Good, Covered

-----------------------------------------------------------------------------
(***************************************************************************)
(* What the operations do to a book and a subscription.                    *)
(***************************************************************************)

(* billing_subscriptions                                                   *)
Subscription ==
    [plan : Plans, periodEnd : Int, nextGrant : Int, cancelAtEnd : BOOLEAN]

(* renewLocked, grantPlanTokens: a bucket that expires is emptied, not     *)
(* overdrawn.                                                              *)
LEMMA ExpireAllGood ==
  ASSUME NEW b, Good(b), NEW S \in SUBSET Ids(b)
  PROVE  Good(ExpireAll(b, S))
<1> DEFINE rows == {Expire(b, i) : i \in S}
<1>1. ASSUME NEW r \in rows
      PROVE  \E i \in S : /\ r.key = <<"expire", i, r.key[3]>> /\ r.bucket = i
                          /\ r.delta = -b.buckets[i].left /\ r = Expire(b, i)
  BY DEF Expire
<1>2. Legal(b, rows)
  <2>1. ASSUME NEW r \in rows
        PROVE  /\ r.bucket \in Ids(b) /\ r.delta \in Int /\ r.delta <= 0
               /\ b.buckets[r.bucket].left + r.delta >= 0
               /\ r.key[1] # "debit" /\ r.key[1] # "refund"
    BY <1>1, BucketTypes
  <2>2. ASSUME NEW r \in rows, NEW q \in rows, r.bucket = q.bucket \/ r.key = q.key
        PROVE  r = q
    <3>1. PICK i \in S : r.key = <<"expire", i, r.key[3]>> /\ r.bucket = i /\ r = Expire(b, i)
      BY <1>1
    <3>2. PICK k \in S : q.key = <<"expire", k, q.key[3]>> /\ q.bucket = k /\ q = Expire(b, k)
      BY <1>1
    <3>3. i = k
      BY <2>2, <3>1, <3>2
    <3> QED BY <3>1, <3>2, <3>3
  <2> HIDE DEF rows
  <2> QED BY <2>1, <2>2 DEF Legal
<1>3. \A r \in rows : r.delta <= 0 /\ r.key[1] # "refund"
  BY <1>1, BucketTypes
<1>4. Good(MoveTokens(b, rows))
  <2> HIDE DEF rows
  <2> QED BY <1>2, <1>3, SpendingGood
<1> QED BY <1>4 DEF ExpireAll

(* Min, of two                                                             *)
Lesser(x, y) == Min({x, y})

LEMMA LesserIs ==
  ASSUME NEW x \in Int, NEW y \in Int
  PROVE  Lesser(x, y) = IF x <= y THEN x ELSE y
<1>1. \E z \in {x, y} : \A u \in {x, y} : z <= u
  OBVIOUS
<1>2. Min({x, y}) \in {x, y} /\ \A u \in {x, y} : Min({x, y}) <= u
  BY <1>1 DEF Min
<1> QED BY <1>2 DEF Lesser

(* The buckets a payment takes from, the keys and the pieces.              *)
From(b, now, owed) == {k \in Spendable(b, now) : Held(b, Ahead(b, now, k)) < owed}
KeyOf(b, now, kind, x, i) == PieceKey(kind, x, i, Ahead(b, now, i) = {})
Pieces(b, now, owed, kind, x, S) == {Piece(b, now, owed, kind, x, i) : i \in S}

(* Those that can be spent are finitely many, and each holds something.    *)
LEMMA SpendableTypes ==
  ASSUME NEW b, Good(b), NEW now
  PROVE  /\ IsFiniteSet(Spendable(b, now))
         /\ \A i \in Spendable(b, now) :
              /\ i \in Ids(b) /\ i \in Nat \ {0} /\ b.buckets[i].expires \in Int
              /\ b.buckets[i].left \in Int /\ b.buckets[i].left > 0
<1>1. Spendable(b, now) \in SUBSET (1 .. Len(b.buckets)) /\ Len(b.buckets) \in Nat
  BY DEF Spendable, Ids, Good, BookTypes
<1>2. IsFiniteSet(1 .. Len(b.buckets))
  BY <1>1, FS_Interval
<1>3. IsFiniteSet(Spendable(b, now))
  BY <1>1, <1>2, FS_Subset
<1> QED BY <1>3, BucketTypes DEF Spendable, Ids, Good, BookTypes

(* What any of them hold is an integer.                                    *)
LEMMA HeldInt ==
  ASSUME NEW b, Good(b), NEW now, NEW S \in SUBSET Spendable(b, now)
  PROVE  Held(b, S) \in Int
<1>1. IsFiniteSet(S)
  BY SpendableTypes, FS_Subset
<1>2. \A i \in S : b.buckets[i].left \in Int
  BY SpendableTypes
<1> QED BY <1>1, <1>2, HeldSums

(* A piece is something, and no more than its bucket has.                  *)
LEMMA PieceIs ==
  ASSUME NEW b, Good(b), NEW now, NEW owed \in Int, NEW kind, NEW x,
         NEW i \in From(b, now, owed), NEW r, r = Piece(b, now, owed, kind, x, i)
  PROVE  /\ r.key = KeyOf(b, now, kind, x, i) /\ r.bucket = i
         /\ r.delta \in Int /\ r.delta < 0 /\ b.buckets[i].left + r.delta >= 0
<1> DEFINE rest == owed - Held(b, Ahead(b, now, i))
<1>1. Held(b, Ahead(b, now, i)) \in Int
  BY HeldInt DEF Ahead
<1>2. rest \in Int /\ rest > 0
  BY <1>1 DEF From
<1>3. r.key = KeyOf(b, now, kind, x, i) /\ r.bucket = i
      /\ r.delta = -Lesser(b.buckets[i].left, rest)
  BY DEF Piece, KeyOf, Lesser
<1>4. b.buckets[i].left \in Int /\ b.buckets[i].left > 0
  BY SpendableTypes DEF From
<1> HIDE DEF rest
<1>5. Lesser(b.buckets[i].left, rest)
        = IF b.buckets[i].left <= rest THEN b.buckets[i].left ELSE rest
  BY <1>2, <1>4, LesserIs
<1> QED BY <1>2, <1>3, <1>4, <1>5

(* Of a command's pieces only one is the first, so no two share a key.     *)
LEMMA PiecesDiffer ==
  ASSUME NEW b, Good(b), NEW now, NEW kind, NEW x,
         NEW i \in Spendable(b, now), NEW k \in Spendable(b, now),
         KeyOf(b, now, kind, x, i) = KeyOf(b, now, kind, x, k)
  PROVE  i = k
<1>1. /\ i \in Nat \ {0} /\ k \in Nat \ {0}
      /\ b.buckets[i].expires \in Int /\ b.buckets[k].expires \in Int
  BY SpendableTypes
<1>2. CASE kind # "ai"
  BY <1>2 DEF PieceKey, KeyOf
<1>3. CASE kind = "ai" /\ (Ahead(b, now, i) # {} \/ Ahead(b, now, k) # {})
  BY <1>1, <1>3 DEF PieceKey, KeyOf
<1>4. CASE Ahead(b, now, i) = {} /\ Ahead(b, now, k) = {}
  <2>1. i \notin Ahead(b, now, k) /\ k \notin Ahead(b, now, i)
    BY <1>4
  <2> QED BY <1>1, <2>1 DEF Ahead
<1> QED BY <1>2, <1>3, <1>4

(* So they may be posted.                                                  *)
LEMMA PiecesLegal ==
  ASSUME NEW b, Good(b), NEW now, NEW owed \in Int, NEW kind \in {"debit", "ai", "adjust"}, NEW x,
         NEW rows, rows = Pieces(b, now, owed, kind, x, From(b, now, owed))
  PROVE  /\ Legal(b, rows)
         /\ \A r \in rows : r.delta <= 0 /\ r.key[1] = kind /\ r.key[2] = x /\ Len(r.key) = 3
<1>1. ASSUME NEW r \in rows
      PROVE  /\ r.bucket \in Ids(b) /\ r.delta \in Int /\ r.delta < 0
             /\ b.buckets[r.bucket].left + r.delta >= 0
             /\ r.key[1] = "debit" => r.key = <<"debit", r.key[2], r.bucket>>
             /\ r.key[1] = kind /\ r.key[2] = x /\ Len(r.key) = 3
  <2>1. PICK i \in From(b, now, owed) : r = Piece(b, now, owed, kind, x, i)
    BY DEF Pieces
  <2>2. /\ r.key = KeyOf(b, now, kind, x, i) /\ r.bucket = i
        /\ r.delta \in Int /\ r.delta < 0 /\ b.buckets[i].left + r.delta >= 0
    BY PieceIs, <2>1
  <2>3. i \in Ids(b)
    BY SpendableTypes DEF From
  <2>4. /\ r.key[1] = kind /\ (kind = "debit" => r.key = <<"debit", r.key[2], i>>)
        /\ r.key[2] = x /\ Len(r.key) = 3
    BY <2>2 DEF PieceKey, KeyOf
  <2> QED BY <2>2, <2>3, <2>4
<1>2. ASSUME NEW r \in rows, NEW q \in rows, r.bucket = q.bucket \/ r.key = q.key
      PROVE  r = q
  <2>1. PICK i \in From(b, now, owed) : r = Piece(b, now, owed, kind, x, i)
    BY DEF Pieces
  <2>2. PICK k \in From(b, now, owed) : q = Piece(b, now, owed, kind, x, k)
    BY DEF Pieces
  <2>3. i = k
    <3>1. r.bucket = i /\ r.key = KeyOf(b, now, kind, x, i)
      BY PieceIs, <2>1
    <3>2. q.bucket = k /\ q.key = KeyOf(b, now, kind, x, k)
      BY PieceIs, <2>2
    <3>3. i \in Spendable(b, now) /\ k \in Spendable(b, now)
      BY DEF From
    <3> QED BY PiecesDiffer, <1>2, <3>1, <3>2, <3>3
  <2> QED BY <2>1, <2>2, <2>3
<1> QED BY <1>1, <1>2 DEF Legal

(* Charge, ChargeAI, AdminAdjust                                           *)
LEMMA DrainGood ==
  ASSUME NEW b, Good(b), NEW now, NEW owed \in Int, NEW kind \in {"debit", "ai", "adjust"}, NEW x
  PROVE  Good(Drain(b, now, owed, kind, x))
<1> DEFINE rows == Pieces(b, now, owed, kind, x, From(b, now, owed))
<1>1. Drain(b, now, owed, kind, x) = MoveTokens(b, rows)
  BY DEF Drain, Pieces, From
<1> HIDE DEF rows
<1>2. Legal(b, rows) /\ \A r \in rows : r.delta <= 0 /\ r.key[1] # "refund"
  BY PiecesLegal DEF rows
<1> QED BY <1>1, <1>2, SpendingGood

(* addBucket: the row that makes a bucket is the only one it has.          *)
LEMMA AddBucketGood ==
  ASSUME NEW b, Good(b), NEW source \in {"plan_grant", "topup", "adjustment"},
         NEW amount \in Nat, NEW expires \in Int,
         NEW key, key[1] \notin {"debit", "refund"}
  PROVE  Good(AddBucket(b, source, amount, expires, key))
<1> DEFINE m == AddBucket(b, source, amount, expires, key)
           n == Len(b.buckets) + 1
           new == [source |-> source, amount |-> amount, left |-> amount, expires |-> expires]
           row == [key |-> key, bucket |-> n, delta |-> amount]
<1>1. CASE key \in Keys(b)
  BY <1>1 DEF AddBucket
<1>2. CASE key \notin Keys(b)
  <2>1. m.buckets = Append(b.buckets, new) /\ m.ledger = b.ledger \cup {row}
    BY <1>2 DEF AddBucket
  <2> HIDE DEF m
  <2>2. b.buckets \in Seq(Bucket) /\ n - 1 \in Nat /\ Ids(b) = 1 .. n - 1 /\ new \in Bucket
    BY DEF Good, BookTypes, Ids, Bucket
  <2>3. /\ m.buckets \in Seq(Bucket) /\ Ids(m) = 1 .. n
        /\ m.buckets[n] = new /\ \A i \in Ids(b) : m.buckets[i] = b.buckets[i]
    <3> HIDE DEF new
    <3> QED BY <2>1, <2>2 DEF Ids
  <2>4. row.key = key /\ row.bucket = n /\ row.delta = amount
    OBVIOUS
  <2> HIDE DEF row
  <2>5. BookTypes(m)
    <3>1. IsFiniteSet(m.ledger)
      <4>1. IsFiniteSet(b.ledger)
        BY DEF Good, BookTypes
      <4>2. IsFiniteSet(b.ledger \cup {row})
        BY <4>1, FS_AddElement
      <4> QED BY <2>1, <4>2, Zenon
    <3>2. \A e \in m.ledger : e.bucket \in Ids(m) /\ e.delta \in Int
      BY <2>1, <2>2, <2>3, <2>4 DEF Good, BookTypes
    <3> QED BY <2>3, <3>1, <3>2 DEF BookTypes
  <2>6. KeysDiffer(m)
    BY <1>2, <2>1, <2>4 DEF Good, KeysDiffer, Keys
  <2>7. DebitsOwn(m)
    BY <2>1, <2>4 DEF Good, DebitsOwn
  <2>8. ASSUME NEW i \in Ids(b)
        PROVE  RowsOf(m, i) = RowsOf(b, i) /\ Open(m, i) = Open(b, i)
    <3>1. RowsOf(m, i) = RowsOf(b, i)
      BY <2>1, <2>2, <2>4 DEF RowsOf
    <3>2. \A x : <<"refund", x, i>> \in Keys(m) <=> <<"refund", x, i>> \in Keys(b)
      <4> SUFFICES ASSUME NEW x, <<"refund", x, i>> \in Keys(m) PROVE <<"refund", x, i>> \in Keys(b)
        BY <2>1 DEF Keys
      <4>1. PICK e \in m.ledger : e.key = <<"refund", x, i>>
        BY DEF Keys
      <4>2. e \in b.ledger
        BY <2>1, <2>4, <4>1
      <4> QED BY <4>1, <4>2 DEF Keys
    <3> QED BY <3>1, <3>2 DEF Open
  <2>9. RowsOf(m, n) = {row} /\ Open(m, n) = {}
    <3>1. \A e \in b.ledger : e.bucket # n
      BY <2>2 DEF Good, BookTypes
    <3>2. RowsOf(m, n) = {row}
      BY <2>1, <2>4, <3>1 DEF RowsOf
    <3> QED BY <3>2, <2>4 DEF Open
  <2>10. Amount({row}) = amount
    <3>1. IsFiniteSet({}) /\ {} \cup {row} = {row} /\ row \notin {} /\ \A e \in {} : e.delta \in Int
      BY FS_EmptySet
    <3>2. Amount({} \cup {row}) = Amount({}) + row.delta
      BY <3>1, <2>4, AmountAdd
    <3>3. Amount({} \cup {row}) = Amount({row})
      BY <3>1, Zenon
    <3> QED BY <3>2, <3>3, <2>4, AmountEmpty
  <2>13. Amount(RowsOf(m, n)) = amount /\ Amount(Open(m, n)) = 0
    BY <2>9, <2>10, AmountEmpty, Zenon
  <2>11. new.left = amount /\ new.amount = amount
    OBVIOUS
  <2> HIDE DEF new
  <2>12. ASSUME NEW i \in Ids(m)
         PROVE  /\ m.buckets[i].left = Amount(RowsOf(m, i)) /\ m.buckets[i].left >= 0
                /\ m.buckets[i].left - Amount(Open(m, i)) <= m.buckets[i].amount
    <3>1. CASE i \in Ids(b)
      BY <3>1, <2>3, <2>8 DEF Good, Explained, Covered
    <3>2. CASE i = n
      BY <3>2, <2>3, <2>11, <2>13
    <3> QED BY <2>2, <2>3, <3>1, <3>2
  <2>14. Good(m)
    BY <2>5, <2>6, <2>7, <2>12 DEF Good, Explained, Covered
  <2> QED BY <2>14 DEF m
<1> QED BY <1>1, <1>2

(* grantPlanTokens                                                         *)
LEMMA GrantPlanGood ==
  ASSUME BillingAssumption, CalendarAssumption, NEW b, Good(b), NEW s \in Subscription,
         NEW now \in Int,
         NEW key, key[1] \notin {"debit", "refund"}
  PROVE  Good(GrantPlan(b, s, now, key))
<1> DEFINE old == {i \in Ids(b) : b.buckets[i].left > 0 /\ b.buckets[i].source = "plan_grant"}
           expires == IF s.nextGrant > now THEN s.nextGrant ELSE AddMonths(now, 1)
<1>1. Good(ExpireAll(b, old))
  BY ExpireAllGood
<1>2. Grant[s.plan] \in Nat /\ expires \in Int
  <2>1. AddMonths(now, 1) \in Int
    BY MonthsLater
  <2> QED BY <2>1 DEF BillingAssumption, Subscription
<1> HIDE DEF old, expires
<1>3. Good(AddBucket(ExpireAll(b, old), "plan_grant", Grant[s.plan], expires, key))
  <2>1. "plan_grant" \in {"plan_grant", "topup", "adjustment"}
    OBVIOUS
  <2> QED BY <1>1, <1>2, <2>1, AddBucketGood
<1> QED BY <1>3 DEF GrantPlan, old, expires

(* The book of an account nobody has used.                                 *)
LEMMA EmptyBookGood == Good(EmptyBook)
<1>1. EmptyBook.buckets = <<>> /\ EmptyBook.ledger = {}
  BY DEF EmptyBook
<1> QED BY <1>1, FS_EmptySet DEF Good, BookTypes, KeysDiffer, DebitsOwn, Explained, Covered, Ids

(* The books f[n] after n lines of a charge                                *)
LineByLine(f, b, now, q) ==
    /\ f[0] = b
    /\ \A n \in 1 .. Len(q) : f[n] = Drain(f[n - 1], now, Price[q[n]], "debit", q[n])
    /\ f[Len(q)] = PayLines(b, now, q)

LEMMA PaidLineByLine ==
  ASSUME NEW b, NEW now, NEW q \in Seq(Jobs)
  PROVE  \E f : LineByLine(f, b, now, q)
<1> DEFINE Op(a, j) == Drain(a, now, Price[j], "debit", j)
           N == Len(q)
           Eq(m, g) == g = [n \in 0 .. m |->
                              IF n = 0 THEN b
                              ELSE CHOOSE r \in {Op(a, q[n]) : a \in {g[n - 1]}} : TRUE]
           f == CHOOSE g : Eq(N, g)
           T == {m \in 0 .. N : \E g : Eq(m, g)}
<1>0. N \in Nat
  OBVIOUS
<1>1. PayLines(b, now, q) = f[N]
  BY DEF PayLines, Fold
<1>2. \A g, n : (CHOOSE r \in {Op(a, q[n]) : a \in {g[n - 1]}} : TRUE) = Op(g[n - 1], q[n])
  <2> HIDE DEF Op
  <2> SUFFICES ASSUME NEW g, NEW n
               PROVE  (CHOOSE r \in {Op(a, q[n]) : a \in {g[n - 1]}} : TRUE) = Op(g[n - 1], q[n])
    OBVIOUS
  <2>1. {Op(a, q[n]) : a \in {g[n - 1]}} = {Op(g[n - 1], q[n])}
    OBVIOUS
  <2>2. \A e : (CHOOSE r \in {e} : TRUE) = e
    OBVIOUS
  <2> QED BY <2>1, <2>2
<1> HIDE DEF Op
<1>3. 0 \in T
  <2> DEFINE g == [n \in 0 .. 0 |-> b]
  <2>1. Eq(0, g)
    OBVIOUS
  <2> HIDE DEF g, Eq
  <2> QED BY <2>1, <1>0
<1>4. ASSUME NEW m \in 1 .. N, m - 1 \in T PROVE m \in T
  <2>1. PICK g : Eq(m - 1, g)
    BY <1>4
  <2> DEFINE h == [n \in 0 .. m |-> IF n = m THEN Op(g[m - 1], q[m]) ELSE g[n]]
  <2>2. ASSUME NEW n \in 0 .. m
        PROVE  h[n] = IF n = 0 THEN b
                      ELSE CHOOSE r \in {Op(a, q[n]) : a \in {h[n - 1]}} : TRUE
    <3>1. CASE n = 0
      BY <3>1, <2>1
    <3>2. CASE n = m
      <4>1. h[n] = Op(g[m - 1], q[m]) /\ h[m - 1] = g[m - 1]
        BY <3>2
      <4>2. (CHOOSE r \in {Op(a, q[m]) : a \in {h[m - 1]}} : TRUE) = Op(h[m - 1], q[m])
        BY <1>2
      <4> HIDE DEF h
      <4> QED BY <3>2, <4>1, <4>2
    <3>3. CASE n # 0 /\ n # m
      <4>1. h[n] = g[n] /\ h[n - 1] = g[n - 1] /\ n \in 0 .. m - 1
        BY <3>3
      <4>2. g[n] = CHOOSE r \in {Op(a, q[n]) : a \in {g[n - 1]}} : TRUE
        BY <2>1, <3>3, <4>1
      <4>3. (CHOOSE r \in {Op(a, q[n]) : a \in {h[n - 1]}} : TRUE) = Op(h[n - 1], q[n])
        BY <1>2
      <4>4. (CHOOSE r \in {Op(a, q[n]) : a \in {g[n - 1]}} : TRUE) = Op(g[n - 1], q[n])
        BY <1>2
      <4> HIDE DEF h
      <4> QED BY <3>3, <4>1, <4>2, <4>3, <4>4
    <3> QED BY <3>1, <3>2, <3>3
  <2>3. Eq(m, h)
    BY <2>2
  <2> HIDE DEF h, Eq
  <2> QED BY <2>3
<1>5. \E g : Eq(N, g)
  <2>1. \A m \in 0 .. N : m \in T
    <3> HIDE DEF T, N
    <3> QED BY <1>0, <1>3, <1>4, Steps
  <2>2. N \in T
    <3> HIDE DEF T, N
    <3> QED BY <2>1, <1>0
  <2> HIDE DEF Eq, N
  <2> QED BY <2>2
<1>6. Eq(N, f)
  <2> HIDE DEF Eq, N
  <2> QED BY <1>5
<1>7. f[0] = b /\ \A n \in 1 .. N : f[n] = Op(f[n - 1], q[n])
  <2>1. \A n \in 0 .. N : f[n] = IF n = 0 THEN b
                                 ELSE CHOOSE r \in {Op(a, q[n]) : a \in {f[n - 1]}} : TRUE
    <3> HIDE DEF f, N
    <3> QED BY <1>6
  <2> HIDE DEF f, N
  <2> QED BY <1>0, <1>2, <2>1
<1>8. f[N] = PayLines(b, now, q)
  BY <1>1
<1> HIDE DEF f
<1> QED BY <1>7, <1>8 DEF Op, LineByLine

(* Charge                                                                  *)
LEMMA ChargedGood ==
  ASSUME BillingAssumption, NEW b, Good(b), NEW now, NEW q \in Seq(Jobs)
  PROVE  Good(PayLines(b, now, q))
<1> DEFINE N == Len(q)
<1>1. PICK f : LineByLine(f, b, now, q)
  BY PaidLineByLine
<1> DEFINE U == {n \in 0 .. N : Good(f[n])}
<1>2. 0 \in U
  BY <1>1 DEF LineByLine
<1>3. ASSUME NEW n \in 1 .. N, n - 1 \in U PROVE n \in U
  <2>1. Price[q[n]] \in Int
    <3>1. q[n] \in Jobs
      OBVIOUS
    <3> QED BY <3>1 DEF BillingAssumption
  <2>2. Good(Drain(f[n - 1], now, Price[q[n]], "debit", q[n]))
    BY <1>3, <2>1, DrainGood
  <2> QED BY <1>1, <2>2 DEF LineByLine
<1>4. N \in U
  <2>1. N \in Nat
    OBVIOUS
  <2> HIDE DEF U, N
  <2>2. \A n \in 0 .. N : n \in U
    BY <1>2, <1>3, <2>1, Steps
  <2> QED BY <2>1, <2>2
<1> QED BY <1>1, <1>4 DEF LineByLine

-----------------------------------------------------------------------------
(***************************************************************************)
(* Scans and commands are paid in full or not at all, and refunds mirror   *)
(* debits.                                                                 *)
(***************************************************************************)

(* The refund of a debit of a job                                          *)
Refund(e, j) == [key |-> <<"refund", j, e.bucket>>, bucket |-> e.bucket, delta |-> -e.delta]

AllPaid(b, s) ==
    \A i \in DOMAIN Lines[s] : Amount(Of(b, "debit", Lines[s][i])) = -Price[Lines[s][i]]
NonePaid(b, s) == \A i \in DOMAIN Lines[s] : Of(b, "debit", Lines[s][i]) = {}
Mirrored(b, j) ==
    Of(b, "refund", j) \in {{}, {Refund(e, j) : e \in Of(b, "debit", j)}}
Answered(b, q) ==
    \/ Of(b, "ai", q) = {}
    \/ <<"ai", q, 0>> \in Keys(b) /\ Amount(Of(b, "ai", q)) = -AIPrice
Settled(b) ==
    /\ \A s \in Scans : AllPaid(b, s) \/ NonePaid(b, s)
    /\ \A j \in Jobs : Mirrored(b, j)
    /\ \A q \in Questions : Answered(b, q)

(* Rows of other kinds change nothing of this.                             *)
LEMMA OthersSettled ==
  ASSUME NEW b, Settled(b), NEW m, b.ledger \subseteq m.ledger,
         \A e \in m.ledger \ b.ledger : e.key[1] \notin {"debit", "refund", "ai"}
  PROVE  Settled(m)
<1>1. ASSUME NEW kind \in {"debit", "refund", "ai"}, NEW x
      PROVE  Of(m, kind, x) = Of(b, kind, x)
  BY DEF Of
<1>2. ASSUME NEW s \in Scans PROVE AllPaid(m, s) \/ NonePaid(m, s)
  <2>1. \A i \in DOMAIN Lines[s] : Of(m, "debit", Lines[s][i]) = Of(b, "debit", Lines[s][i])
    BY <1>1
  <2>2. \A i \in DOMAIN Lines[s] :
          Amount(Of(m, "debit", Lines[s][i])) = Amount(Of(b, "debit", Lines[s][i]))
    BY <2>1, Zenon
  <2> QED BY <2>1, <2>2, Zenon DEF Settled, AllPaid, NonePaid
<1>3. ASSUME NEW j \in Jobs PROVE Mirrored(m, j)
  <2>1. Of(m, "debit", j) = Of(b, "debit", j) /\ Of(m, "refund", j) = Of(b, "refund", j)
    BY <1>1
  <2> QED BY <2>1, Zenon DEF Settled, Mirrored
<1>4. ASSUME NEW q \in Questions PROVE Answered(m, q)
  <2>1. Of(m, "ai", q) = Of(b, "ai", q)
    BY <1>1
  <2>2. <<"ai", q, 0>> \in Keys(b) => <<"ai", q, 0>> \in Keys(m)
    BY DEF Keys
  <2> QED BY <2>1, <2>2, Zenon DEF Settled, Answered
<1> QED BY <1>2, <1>3, <1>4 DEF Settled

(* renewLocked, grantPlanTokens                                            *)
LEMMA ExpireAllSettled ==
  ASSUME NEW b, Settled(b), NEW S
  PROVE  Settled(ExpireAll(b, S))
<1>1. \A i : Expire(b, i).key[1] = "expire"
  BY DEF Expire
<1>2. /\ b.ledger \subseteq ExpireAll(b, S).ledger
      /\ \A e \in ExpireAll(b, S).ledger \ b.ledger : \E i \in S : e = Expire(b, i)
  BY DEF ExpireAll, MoveTokens
<1>3. \A e \in ExpireAll(b, S).ledger \ b.ledger : e.key[1] \notin {"debit", "refund", "ai"}
  BY <1>1, <1>2
<1> QED BY <1>2, <1>3, OthersSettled

(* addBucket                                                               *)
LEMMA AddBucketSettled ==
  ASSUME NEW b, Settled(b), NEW source, NEW amount, NEW expires,
         NEW key, key[1] \notin {"debit", "refund", "ai"}
  PROVE  Settled(AddBucket(b, source, amount, expires, key))
<1> DEFINE m == AddBucket(b, source, amount, expires, key)
<1>1. b.ledger \subseteq m.ledger /\ \A e \in m.ledger \ b.ledger : e.key = key
  BY DEF AddBucket
<1>2. \A e \in m.ledger \ b.ledger : e.key[1] \notin {"debit", "refund", "ai"}
  BY <1>1
<1> HIDE DEF m
<1>3. Settled(m)
  BY <1>1, <1>2, OthersSettled
<1> QED BY <1>3 DEF m

(* grantPlanTokens                                                         *)
LEMMA GrantPlanSettled ==
  ASSUME NEW b, Settled(b), NEW s, NEW now, NEW key, key[1] \notin {"debit", "refund", "ai"}
  PROVE  Settled(GrantPlan(b, s, now, key))
<1> DEFINE old == {i \in Ids(b) : b.buckets[i].left > 0 /\ b.buckets[i].source = "plan_grant"}
           expires == IF s.nextGrant > now THEN s.nextGrant ELSE AddMonths(now, 1)
<1> HIDE DEF old, expires
<1>1. Settled(AddBucket(ExpireAll(b, old), "plan_grant", Grant[s.plan], expires, key))
  BY ExpireAllSettled, AddBucketSettled
<1> QED BY <1>1 DEF GrantPlan, old, expires

(* The book of an account nobody has used                                  *)
LEMMA EmptyBookSettled == Settled(EmptyBook)
<1>1. \A kind, x : Of(EmptyBook, kind, x) = {}
  BY DEF EmptyBook, Of
<1> QED BY <1>1 DEF Settled, NonePaid, Mirrored, Answered

(* Rows of one subject are posted: the others keep theirs.                 *)
RowsFor(new, kind, x) == \A e \in new : e.key[1] = kind /\ e.key[2] = x /\ Len(e.key) = 3
OthersKeep(b, m, kind, x) == \A k, y : k # kind \/ y # x => Of(m, k, y) = Of(b, k, y)

LEMMA Posted ==
  ASSUME NEW b, NEW m, NEW new, m.ledger = b.ledger \cup new, NEW kind, NEW x,
         RowsFor(new, kind, x)
  PROVE  /\ Of(m, kind, x) = Of(b, kind, x) \cup new
         /\ OthersKeep(b, m, kind, x)
         /\ Keys(b) \subseteq Keys(m)
<1>1. Of(m, kind, x) = Of(b, kind, x) \cup new
  BY DEF Of, RowsFor
<1>2. ASSUME NEW k, NEW y, k # kind \/ y # x PROVE Of(m, k, y) = Of(b, k, y)
  BY <1>2 DEF Of, RowsFor
<1>3. Keys(b) \subseteq Keys(m)
  BY DEF Keys
<1> QED BY <1>1, <1>2, <1>3 DEF OthersKeep

(* The debits of a job                                                     *)
LEMMA DebitsOf ==
  ASSUME NEW b, Good(b), NEW j
  PROVE  /\ Of(b, "debit", j) = Debits(b, j) /\ IsFiniteSet(Debits(b, j))
         /\ \A d \in Debits(b, j) : d \in b.ledger /\ d.delta \in Int
                                    /\ d.key = <<"debit", j, d.bucket>>
         /\ \A d, e \in Debits(b, j) : d.bucket = e.bucket => d = e
<1>1. \A d \in Debits(b, j) : /\ d \in b.ledger /\ d.delta \in Int
                              /\ d.key = <<"debit", j, d.bucket>>
  BY DEF Debits, Good, DebitsOwn, BookTypes
<1>5. Len(<<"debit", j, 0>>) = 3 /\ \A d \in Debits(b, j) : Len(d.key) = 3
  BY <1>1
<1>2. Of(b, "debit", j) = Debits(b, j)
  BY <1>5 DEF Of, Debits
<1>3. \A d, e \in Debits(b, j) : d.bucket = e.bucket => d = e
  BY <1>1 DEF Good, KeysDiffer
<1>4. IsFiniteSet(Debits(b, j))
  BY FS_Subset DEF Debits, Good, BookTypes
<1> QED BY <1>1, <1>2, <1>3, <1>4

(* What is given back is what was taken.                                   *)
LEMMA MirrorAmount ==
  ASSUME NEW D, IsFiniteSet(D), NEW j,
         \A d \in D : d.delta \in Int, \A d, e \in D : d.bucket = e.bucket => d = e
  PROVE  Amount({Refund(e, j) : e \in D}) = -Amount(D)
<1> DEFINE R(s) == {Refund(e, j) : e \in s}
           T == {s \in SUBSET D : IsFiniteSet(R(s)) /\ Amount(R(s)) = -Amount(s)}
<1>1. {} \in T
  <2>1. R({}) = {}
    OBVIOUS
  <2>2. IsFiniteSet(R({})) /\ Amount(R({})) = 0 /\ Amount({}) = 0
    BY <2>1, FS_EmptySet, AmountEmpty, Zenon
  <2> HIDE DEF R
  <2> QED BY <2>2
<1>2. ASSUME NEW s \in SUBSET D, s # {}
      PROVE  \E x \in s : s \ {x} \in T => s \in T
  <2>1. PICK x \in s : TRUE
    BY <1>2
  <2>2. ASSUME s \ {x} \in T PROVE s \in T
    <3> DEFINE r == Refund(x, j)
               S == R(s \ {x})
    <3>1. r.delta = -x.delta /\ r.bucket = x.bucket /\ x.delta \in Int
      BY DEF Refund
    <3>2. \A e \in S : e.delta \in Int /\ e.bucket # x.bucket
      BY DEF Refund
    <3>3. r \notin S /\ R(s) = S \cup {r}
      BY <3>1, <3>2
    <3>4. IsFiniteSet(S) /\ Amount(S) = -Amount(s \ {x})
      BY <2>2
    <3>5. IsFiniteSet(s) /\ IsFiniteSet(s \ {x}) /\ \A e \in s : e.delta \in Int
      BY FS_Subset
    <3>6. Amount(s) = x.delta + Amount(s \ {x}) /\ Amount(s \ {x}) \in Int
      BY <3>5, Amounts
    <3> HIDE DEF r, S, R
    <3>7. IsFiniteSet(S \cup {r})
      BY <3>4, FS_AddElement
    <3>8. Amount(S \cup {r}) = Amount(S) + r.delta
      BY <3>1, <3>2, <3>3, <3>4, AmountAdd
    <3>9. IsFiniteSet(R(s)) /\ Amount(R(s)) = Amount(S \cup {r})
      BY <3>3, <3>7, Zenon
    <3> QED BY <3>1, <3>4, <3>6, <3>8, <3>9
  <2> QED BY <2>1, <2>2
<1> HIDE DEF T
<1>3. \A s \in SUBSET D : s \in T
  BY <1>1, <1>2, SetInduction
<1> QED BY <1>3 DEF T

(* RefundJob: the first refund of a job mirrors its debits, another one    *)
(* changes nothing.                                                        *)
LEMMA RefundSettled ==
  ASSUME NEW b, Good(b), Settled(b), NEW j \in Jobs, NEW now,
         NEW m, m = MoveTokens(b, Refunds(b, j, now))
  PROVE  Settled(m)
<1> DEFINE R == {Refund(e, j) : e \in Of(b, "debit", j)}
           new == {r \in R : r.key \notin Keys(b)}
<1>1. Refunds(b, j, now) = R
  BY DebitsOf DEF Refunds, RefundKey, Refund
<1>2. m.ledger = b.ledger \cup new
  <2> HIDE DEF R
  <2> QED BY <1>1 DEF MoveTokens
<1>3. RowsFor(R, "refund", j)
  BY DEF Refund, RowsFor
<1>4. CASE Of(b, "refund", j) = {}
  <2>1. \A r \in R : r.key \notin Keys(b)
    <3> HIDE DEF R
    <3> QED BY <1>3, <1>4 DEF Of, Keys, RowsFor
  <2>2. m.ledger = b.ledger \cup R
    <3> HIDE DEF R
    <3> QED BY <1>2, <2>1
  <2> HIDE DEF R
  <2>8. /\ Of(m, "refund", j) = Of(b, "refund", j) \cup R
        /\ OthersKeep(b, m, "refund", j)
        /\ Keys(b) \subseteq Keys(m)
    BY <1>3, <2>2, Posted
  <2>3. /\ Of(m, "refund", j) = R
        /\ OthersKeep(b, m, "refund", j)
        /\ Keys(b) \subseteq Keys(m)
    BY <1>4, <2>8
  <2>4. \A k \in {"debit", "ai"} : \A y : Of(m, k, y) = Of(b, k, y)
    BY <2>3 DEF OthersKeep
  <2>5. ASSUME NEW s \in Scans PROVE AllPaid(m, s) \/ NonePaid(m, s)
    <3>1. \A i \in DOMAIN Lines[s] : Of(m, "debit", Lines[s][i]) = Of(b, "debit", Lines[s][i])
      BY <2>4
    <3>2. \A i \in DOMAIN Lines[s] :
            Amount(Of(m, "debit", Lines[s][i])) = Amount(Of(b, "debit", Lines[s][i]))
      BY <3>1, Zenon
    <3> QED BY <3>1, <3>2, Zenon DEF Settled, AllPaid, NonePaid
  <2>6. ASSUME NEW y \in Jobs PROVE Mirrored(m, y)
    <3>1. Of(m, "debit", y) = Of(b, "debit", y)
      BY <2>4
    <3>2. CASE y = j
      BY <2>3, <3>1, <3>2, Zenon DEF Mirrored, R
    <3>3. CASE y # j
      <4>1. Of(m, "refund", y) = Of(b, "refund", y)
        BY <2>3, <3>3 DEF OthersKeep
      <4> QED BY <3>1, <4>1, Zenon DEF Settled, Mirrored
    <3> QED BY <3>2, <3>3
  <2>7. ASSUME NEW q \in Questions PROVE Answered(m, q)
    <3>1. Of(m, "ai", q) = Of(b, "ai", q)
      BY <2>4
    <3>2. <<"ai", q, 0>> \in Keys(b) => <<"ai", q, 0>> \in Keys(m)
      BY <2>3
    <3> QED BY <3>1, <3>2, Zenon DEF Settled, Answered
  <2> QED BY <2>5, <2>6, <2>7 DEF Settled
<1>5. CASE Of(b, "refund", j) = R
  <2>1. R \subseteq b.ledger
    BY <1>5 DEF Of
  <2>2. new = {}
    <3> HIDE DEF R
    <3> QED BY <2>1 DEF Keys
  <2>3. m.ledger = b.ledger
    BY <1>2, <2>2
  <2> QED BY <2>3, OthersSettled
<1>6. Of(b, "refund", j) = {} \/ Of(b, "refund", j) = R
  BY DEF Settled, Mirrored
<1> QED BY <1>4, <1>5, <1>6

-----------------------------------------------------------------------------
(***************************************************************************)
(* A payment takes what is owed.                                           *)
(***************************************************************************)

(* The order of the buckets is total and strict.                           *)
LEMMA AheadOrder ==
  ASSUME NEW b, Good(b), NEW now, NEW i \in Spendable(b, now), NEW k \in Spendable(b, now)
  PROVE  /\ i \notin Ahead(b, now, i)
         /\ k \in Ahead(b, now, i) => i \notin Ahead(b, now, k)
         /\ i # k => k \in Ahead(b, now, i) \/ i \in Ahead(b, now, k)
         /\ k \in Ahead(b, now, i) => Ahead(b, now, k) \subseteq Ahead(b, now, i)
<1>1. \A l \in Spendable(b, now) : l \in Nat /\ b.buckets[l].expires \in Int
  BY SpendableTypes
<1> QED BY <1>1 DEF Ahead

Last(b, now, s, m) == \A k \in s : k = m \/ k \in Ahead(b, now, m)

(* So some buckets have a last one.                                        *)
LEMMA LastExists ==
  ASSUME NEW b, Good(b), NEW now, NEW S \in SUBSET Spendable(b, now), S # {}
  PROVE  \E m \in S : Last(b, now, S, m)
<1> DEFINE All == Spendable(b, now)
           T == {s \in SUBSET All : s # {} => \E m \in s : Last(b, now, s, m)}
<1>1. {} \in T
  OBVIOUS
<1>2. ASSUME NEW s \in SUBSET All, s # {}
      PROVE  \E x \in s : s \ {x} \in T => s \in T
  <2>1. PICK x \in s : TRUE
    BY <1>2
  <2>2. ASSUME s \ {x} \in T PROVE \E m \in s : Last(b, now, s, m)
    <3>1. CASE s \ {x} = {}
      BY <3>1 DEF Last
    <3>2. CASE s \ {x} # {}
      <4>1. PICK m \in s \ {x} : Last(b, now, s \ {x}, m)
        BY <2>2, <3>2
      <4>2. m \in All /\ x \in All /\ m # x
        OBVIOUS
      <4>3. CASE x \in Ahead(b, now, m)
        BY <4>1, <4>3 DEF Last
      <4>4. CASE m \in Ahead(b, now, x)
        <5>1. Ahead(b, now, m) \subseteq Ahead(b, now, x)
          BY <4>2, <4>4, AheadOrder
        <5> QED BY <4>1, <4>4, <5>1 DEF Last
      <4> QED BY <4>2, <4>3, <4>4, AheadOrder
    <3> QED BY <3>1, <3>2
  <2> QED BY <2>1, <2>2
<1>3. IsFiniteSet(All)
  BY SpendableTypes
<1> HIDE DEF T, All
<1>4. \A s \in SUBSET All : s \in T
  BY <1>1, <1>2, <1>3, SetInduction
<1> QED BY <1>4 DEF T, All

(* Buckets with all that are ahead of them                                 *)
Closed(b, now, s) == \A k \in s : Ahead(b, now, k) \subseteq s

(* Without the last of them: the others are all that are ahead of it.      *)
LEMMA WithoutLast ==
  ASSUME NEW b, Good(b), NEW now, NEW s \in SUBSET Spendable(b, now), Closed(b, now, s),
         NEW m \in s, Last(b, now, s, m)
  PROVE  Ahead(b, now, m) = s \ {m} /\ Closed(b, now, s \ {m})
<1>1. Ahead(b, now, m) = s \ {m}
  <2>1. m \notin Ahead(b, now, m)
    BY AheadOrder
  <2> QED BY <2>1 DEF Closed, Last
<1>2. ASSUME NEW k \in s \ {m} PROVE Ahead(b, now, k) \subseteq s \ {m}
  <2>1. m \notin Ahead(b, now, k)
    BY <1>1, AheadOrder
  <2> QED BY <2>1 DEF Closed
<1> QED BY <1>1, <1>2 DEF Closed

(* Their pieces                                                            *)
Taken(b, now, owed, kind, x, s) == Pieces(b, now, owed, kind, x, s \cap From(b, now, owed))

(* They take what is owed, as far as those buckets have it.                *)
Takes(b, now, owed, kind, x, s) ==
    /\ IsFiniteSet(Taken(b, now, owed, kind, x, s))
    /\ Amount(Taken(b, now, owed, kind, x, s)) = -Min({Held(b, s), owed})

LEMMA LastTakes ==
  ASSUME NEW b, Good(b), NEW now, NEW owed \in Nat, NEW kind \in {"debit", "ai", "adjust"}, NEW x,
         NEW s \in SUBSET Spendable(b, now), Closed(b, now, s),
         NEW m \in s, Last(b, now, s, m), Takes(b, now, owed, kind, x, s \ {m})
  PROVE  Takes(b, now, owed, kind, x, s)
<1> DEFINE r == Piece(b, now, owed, kind, x, m)
           old == Taken(b, now, owed, kind, x, s \ {m})
           rest == Held(b, s \ {m})
           left == b.buckets[m].left
<1>1. rest \in Int /\ left \in Int /\ left > 0 /\ Held(b, s) = left + rest
  <2>1. IsFiniteSet(s) /\ \A i \in s : b.buckets[i].left \in Int
    BY SpendableTypes, FS_Subset
  <2>2. Held(b, s) = left + rest
    BY <2>1, HeldSums
  <2>3. rest \in Int
    BY HeldInt
  <2>4. left \in Int /\ left > 0
    BY SpendableTypes
  <2> QED BY <2>2, <2>3, <2>4
<1>2. Held(b, Ahead(b, now, m)) = rest
  <2>1. Ahead(b, now, m) = s \ {m}
    BY WithoutLast
  <2> QED BY <2>1, Zenon
<1>3. IsFiniteSet(old) /\ Amount(old) = -Lesser(rest, owed)
  BY Zenon DEF Takes, Lesser
<1>4. CASE rest < owed
  <2>1. m \in From(b, now, owed)
    BY <1>2, <1>4 DEF From
  <2>2. r.bucket = m /\ r.delta \in Int
    BY <2>1, PieceIs
  <2>3. r.delta = -Lesser(left, owed - rest)
    BY <1>2, Zenon DEF Piece, Lesser
  <2>4. \A e \in old : e.delta \in Int /\ e.bucket # m
    <3>1. ASSUME NEW i \in (s \ {m}) \cap From(b, now, owed),
                 NEW e, e = Piece(b, now, owed, kind, x, i)
          PROVE  e.delta \in Int /\ e.bucket # m
      BY <3>1, PieceIs
    <3> QED BY <3>1 DEF Taken, Pieces
  <2>5. Taken(b, now, owed, kind, x, s) = old \cup {r} /\ r \notin old
    BY <2>1, <2>2, <2>4 DEF Taken, Pieces
  <2> HIDE DEF r, old, rest, left
  <2>6. Amount(old \cup {r}) = Amount(old) + r.delta
    BY <1>3, <2>2, <2>4, <2>5, AmountAdd
  <2>7. IsFiniteSet(old \cup {r})
    BY <1>3, FS_AddElement
  <2>8. /\ IsFiniteSet(Taken(b, now, owed, kind, x, s))
        /\ Amount(Taken(b, now, owed, kind, x, s)) = Amount(old) + r.delta
    BY <2>5, <2>6, <2>7, Zenon
  <2>9. Lesser(rest, owed) = rest
    BY <1>1, <1>4, LesserIs
  <2>10. Lesser(left, owed - rest) = IF left <= owed - rest THEN left ELSE owed - rest
    BY <1>1, LesserIs
  <2>11. Lesser(left + rest, owed) = IF left + rest <= owed THEN left + rest ELSE owed
    BY <1>1, LesserIs
  <2>12. Amount(old) + r.delta = -Lesser(left + rest, owed)
    BY <1>1, <1>3, <2>3, <2>9, <2>10, <2>11
  <2> QED BY <1>1, <2>8, <2>12, Zenon DEF Takes, Lesser
<1>5. CASE ~(rest < owed)
  <2>1. m \notin From(b, now, owed)
    BY <1>2, <1>5 DEF From
  <2>2. Taken(b, now, owed, kind, x, s) = old
    BY <2>1 DEF Taken, Pieces
  <2> HIDE DEF r, old, rest, left
  <2>3. Lesser(rest, owed) = owed /\ Lesser(left + rest, owed) = owed
    <3>1. left + rest \in Int /\ left + rest > owed
      BY <1>1, <1>5
    <3> QED BY <1>1, <1>5, <3>1, LesserIs
  <2> QED BY <1>1, <1>3, <2>2, <2>3, Zenon DEF Takes, Lesser
<1> QED BY <1>4, <1>5

(* All of them take what is owed.                                          *)
LEMMA AllTake ==
  ASSUME NEW b, Good(b), NEW now, NEW owed \in Nat, NEW kind \in {"debit", "ai", "adjust"}, NEW x,
         owed <= Balance(b, now)
  PROVE  Amount(Pieces(b, now, owed, kind, x, From(b, now, owed))) = -owed
<1> DEFINE All == Spendable(b, now)
           T == {s \in SUBSET All : Closed(b, now, s) => Takes(b, now, owed, kind, x, s)}
<1>1. {} \in T
  <2>1. Taken(b, now, owed, kind, x, {}) = {}
    BY DEF Taken, Pieces
  <2>2. /\ IsFiniteSet(Taken(b, now, owed, kind, x, {}))
        /\ Amount(Taken(b, now, owed, kind, x, {})) = 0
    BY <2>1, FS_EmptySet, AmountEmpty, Zenon
  <2>3. Lesser(0, owed) = 0
    BY LesserIs
  <2>4. Lesser(Held(b, {}), owed) = Lesser(0, owed)
    BY HeldEmpty, Zenon
  <2>5. Amount(Taken(b, now, owed, kind, x, {})) = -Lesser(Held(b, {}), owed)
    BY <2>2, <2>3, <2>4
  <2>6. Takes(b, now, owed, kind, x, {})
    BY <2>2, <2>5, Zenon DEF Takes, Lesser
  <2> QED BY <2>6
<1>2. ASSUME NEW s \in SUBSET All, s # {}
      PROVE  \E m \in s : s \ {m} \in T => s \in T
  <2>1. PICK m \in s : Last(b, now, s, m)
    BY <1>2, LastExists
  <2>2. ASSUME s \ {m} \in T, Closed(b, now, s) PROVE Takes(b, now, owed, kind, x, s)
    <3>1. Closed(b, now, s \ {m})
      BY <2>1, <2>2, WithoutLast
    <3>2. Takes(b, now, owed, kind, x, s \ {m})
      BY <2>2, <3>1
    <3> QED BY <2>1, <2>2, <3>2, LastTakes
  <2> QED BY <2>1, <2>2
<1>3. IsFiniteSet(All)
  BY SpendableTypes
<1>4. \A s \in SUBSET All : s \in T
  <2> HIDE DEF T, All
  <2> QED BY <1>1, <1>2, <1>3, SetInduction
<1>5. Takes(b, now, owed, kind, x, All)
  <2>1. Closed(b, now, All)
    BY DEF Closed, Ahead
  <2> QED BY <1>4, <2>1
<1>6. Taken(b, now, owed, kind, x, All) = Pieces(b, now, owed, kind, x, From(b, now, owed))
  <2>1. All \cap From(b, now, owed) = From(b, now, owed)
    BY DEF From
  <2> QED BY <2>1, Zenon DEF Taken
<1>7. Amount(Taken(b, now, owed, kind, x, All)) = -Lesser(Balance(b, now), owed)
  BY <1>5, Zenon DEF Takes, Lesser, Balance
<1>8. Lesser(Balance(b, now), owed) = owed
  <2>1. Balance(b, now) \in Int
    BY HeldInt DEF Balance
  <2> QED BY <2>1, LesserIs
<1> QED BY <1>6, <1>7, <1>8, Zenon

(* What is left in a bucket after a payment nothing of which was posted    *)
(* before                                                                  *)
LEMMA DrainedBucket ==
  ASSUME NEW b, Good(b), NEW now, NEW owed \in Nat, NEW kind \in {"debit", "ai", "adjust"}, NEW x,
         NEW rows, rows = Pieces(b, now, owed, kind, x, From(b, now, owed)),
         \A r \in rows : r.key \notin Keys(b),
         NEW m, m = MoveTokens(b, rows), NEW i \in Ids(b)
  PROVE  /\ m.buckets[i].expires = b.buckets[i].expires
         /\ m.buckets[i].left = IF i \in From(b, now, owed)
                                THEN b.buckets[i].left + Piece(b, now, owed, kind, x, i).delta
                                ELSE b.buckets[i].left
<1>1. Legal(b, rows)
  BY PiecesLegal
<1>2. m.buckets[i].expires = b.buckets[i].expires
  <2> DEFINE mine == {r \in {q \in rows : q.key \notin Keys(b)} : r.bucket = i}
  <2>1. m.buckets[i] = [b.buckets[i] EXCEPT !.left = @ + Amount(mine)]
    BY DEF MoveTokens
  <2>2. b.buckets[i] \in Bucket
    BY DEF Good, BookTypes, Ids
  <2> HIDE DEF mine
  <2> QED BY <2>1, <2>2 DEF Bucket
<1>3. CASE i \in From(b, now, owed)
  <2> DEFINE r == Piece(b, now, owed, kind, x, i)
  <2>1. r \in rows /\ r.bucket = i
    BY <1>3, PieceIs DEF Pieces
  <2> HIDE DEF r
  <2>2. \A q \in rows : q.bucket = i => q = r
    BY <1>1, <2>1 DEF Legal
  <2>3. m.buckets[i].left = b.buckets[i].left + r.delta
    BY <1>1, <2>1, <2>2, Moved
  <2> QED BY <1>2, <1>3, <2>3 DEF r
<1>4. CASE i \notin From(b, now, owed)
  <2>1. ASSUME NEW k \in From(b, now, owed), NEW r, r = Piece(b, now, owed, kind, x, k)
        PROVE  r.bucket # i
    BY <1>4, <2>1, PieceIs
  <2>2. \A r \in rows : r.bucket # i
    BY <2>1 DEF Pieces
  <2> QED BY <1>1, <1>2, <1>4, <2>2, Moved
<1> QED BY <1>3, <1>4

(* What buckets hold after it                                              *)
LEMMA DrainedHeld ==
  ASSUME NEW b, Good(b), NEW now, NEW owed \in Nat, NEW kind \in {"debit", "ai", "adjust"}, NEW x,
         NEW rows, rows = Pieces(b, now, owed, kind, x, From(b, now, owed)),
         \A r \in rows : r.key \notin Keys(b),
         NEW m, m = MoveTokens(b, rows)
  PROVE  Held(m, Spendable(b, now)) = Held(b, Spendable(b, now)) + Amount(rows)
<1> DEFINE All == Spendable(b, now)
           taken(s) == Taken(b, now, owed, kind, x, s)
           T == {s \in SUBSET All : /\ Held(m, s) = Held(b, s) + Amount(taken(s))
                                    /\ IsFiniteSet(taken(s)) /\ Amount(taken(s)) \in Int}
<1>0. IsFiniteSet(All) /\ \A i \in All : i \in Ids(b) /\ b.buckets[i].left \in Int
  BY SpendableTypes
<1>1. {} \in T
  <2>1. Taken(b, now, owed, kind, x, {}) = {}
    BY DEF Taken, Pieces
  <2>2. IsFiniteSet(taken({})) /\ Amount(taken({})) = 0
    BY <2>1, FS_EmptySet, AmountEmpty, Zenon
  <2>3. Held(m, {}) = 0 /\ Held(b, {}) = 0
    BY HeldEmpty
  <2> QED BY <2>2, <2>3
<1>2. ASSUME NEW s \in SUBSET All, NEW i \in s, s \ {i} \in T PROVE s \in T
  <2> DEFINE r == Piece(b, now, owed, kind, x, i)
             old == taken(s \ {i})
  <2>1. /\ Held(m, s \ {i}) = Held(b, s \ {i}) + Amount(old)
        /\ IsFiniteSet(old) /\ Amount(old) \in Int
    BY <1>2
  <2>2. Held(b, s) = b.buckets[i].left + Held(b, s \ {i}) /\ Held(b, s \ {i}) \in Int
    <3>1. IsFiniteSet(s) /\ \A k \in s : b.buckets[k].left \in Int
      BY <1>0, FS_Subset
    <3>2. Held(b, s \ {i}) \in Int
      BY HeldInt
    <3> QED BY <3>1, <3>2, HeldSums
  <2>3. Held(m, s) = m.buckets[i].left + Held(m, s \ {i})
    <3>1. IsFiniteSet(s) /\ \A k \in s : k \in Ids(b)
      BY <1>0, FS_Subset
    <3>2. \A k \in s : m.buckets[k].left \in Int
      <4>1. Legal(b, rows)
        BY PiecesLegal
      <4> QED BY <3>1, <4>1, Moved DEF Bucket
    <3> QED BY <3>1, <3>2, HeldSums
  <2>4. CASE i \in From(b, now, owed)
    <3>1. m.buckets[i].left = b.buckets[i].left + r.delta
      BY <1>0, <2>4, DrainedBucket
    <3>2. r.bucket = i /\ r.delta \in Int
      BY <2>4, PieceIs
    <3>3. \A e \in old : e.delta \in Int /\ e.bucket # i
      <4>1. ASSUME NEW k \in (s \ {i}) \cap From(b, now, owed),
                   NEW e, e = Piece(b, now, owed, kind, x, k)
            PROVE  e.delta \in Int /\ e.bucket # i
        BY <4>1, PieceIs
      <4> QED BY <4>1 DEF Taken, Pieces
    <3>4. taken(s) = old \cup {r} /\ r \notin old
      BY <2>4, <3>2, <3>3 DEF Taken, Pieces
    <3> HIDE DEF r, old, taken
    <3>5. Amount(old \cup {r}) = Amount(old) + r.delta
      BY <2>1, <3>2, <3>3, <3>4, AmountAdd
    <3>6. IsFiniteSet(old \cup {r})
      BY <2>1, FS_AddElement
    <3>7. IsFiniteSet(taken(s)) /\ Amount(taken(s)) = Amount(old) + r.delta
      BY <3>4, <3>5, <3>6, Zenon
    <3> QED BY <1>0, <2>1, <2>2, <2>3, <3>1, <3>2, <3>7
  <2>5. CASE i \notin From(b, now, owed)
    <3>1. m.buckets[i].left = b.buckets[i].left
      BY <1>0, <2>5, DrainedBucket
    <3>2. taken(s) = old
      BY <2>5 DEF Taken, Pieces
    <3> HIDE DEF r, old, taken
    <3>3. Amount(taken(s)) = Amount(old) /\ IsFiniteSet(taken(s))
      BY <2>1, <3>2, Zenon
    <3> QED BY <1>0, <2>1, <2>2, <2>3, <3>1, <3>3
  <2> QED BY <2>4, <2>5
<1>3. \A s \in SUBSET All : s # {} => \E i \in s : s \ {i} \in T => s \in T
  BY <1>2
<1>4. \A s \in SUBSET All : s \in T
  <2> HIDE DEF T, All
  <2> QED BY <1>0, <1>1, <1>3, SetInduction
<1>5. Held(m, All) = Held(b, All) + Amount(taken(All))
  <2> HIDE DEF All, taken
  <2> QED BY <1>4
<1>6. taken(All) = rows
  <2>1. All \cap From(b, now, owed) = From(b, now, owed)
    BY DEF From
  <2> QED BY <2>1, Zenon DEF Taken
<1> QED BY <1>5, <1>6, Zenon

(* Empty buckets hold nothing.                                             *)
LEMMA HeldByThese ==
  ASSUME NEW b, NEW S, IsFiniteSet(S), \A i \in S : b.buckets[i].left \in Int,
         NEW R \in SUBSET S, \A i \in S \ R : b.buckets[i].left = 0
  PROVE  Held(b, S) = Held(b, R)
<1> DEFINE T == {s \in SUBSET S : Held(b, s) = Held(b, s \cap R)}
<1>1. {} \in T
  <2>1. {} \cap R = {}
    OBVIOUS
  <2>2. Held(b, {}) = Held(b, {} \cap R)
    BY <2>1, Zenon
  <2> QED BY <2>2
<1>2. ASSUME NEW s \in SUBSET S, NEW x \in s, s \ {x} \in T PROVE s \in T
  <2>1. Held(b, s) = b.buckets[x].left + Held(b, s \ {x}) /\ Held(b, s \ {x}) \in Int
    <3>1. IsFiniteSet(s) /\ IsFiniteSet(s \ {x}) /\ \A k \in s : b.buckets[k].left \in Int
      BY FS_Subset
    <3> QED BY <3>1, HeldSums
  <2>2. CASE x \in R
    <3>1. (s \ {x}) \cap R = (s \cap R) \ {x}
      OBVIOUS
    <3>2. Held(b, (s \ {x}) \cap R) = Held(b, (s \cap R) \ {x})
      BY <3>1, Zenon
    <3>3. IsFiniteSet(s \cap R) /\ x \in s \cap R /\ \A k \in s \cap R : b.buckets[k].left \in Int
      BY <2>2, FS_Subset
    <3>4. Held(b, s \cap R) = b.buckets[x].left + Held(b, (s \cap R) \ {x})
      BY <3>3, HeldSums
    <3> QED BY <1>2, <2>1, <3>2, <3>4
  <2>3. CASE x \notin R
    <3>1. (s \ {x}) \cap R = s \cap R
      BY <2>3
    <3>2. Held(b, (s \ {x}) \cap R) = Held(b, s \cap R)
      BY <3>1, Zenon
    <3> QED BY <1>2, <2>1, <2>3, <3>2
  <2> QED BY <2>2, <2>3
<1>3. \A s \in SUBSET S : s # {} => \E x \in s : s \ {x} \in T => s \in T
  BY <1>2
<1>4. \A s \in SUBSET S : s \in T
  <2> HIDE DEF T
  <2> QED BY <1>1, <1>3, SetInduction
<1>5. Held(b, S) = Held(b, S \cap R)
  BY <1>4
<1>6. S \cap R = R
  OBVIOUS
<1> QED BY <1>5, <1>6, Zenon

(* Who has something to spend has a first bucket.                          *)
LEMMA FirstExists ==
  ASSUME NEW b, Good(b), NEW now, Spendable(b, now) # {}
  PROVE  \E m \in Spendable(b, now) : Ahead(b, now, m) = {}
<1> DEFINE All == Spendable(b, now)
           T == {s \in SUBSET All : s # {} => \E m \in s : \A k \in s : k \notin Ahead(b, now, m)}
<1>1. {} \in T
  OBVIOUS
<1>2. ASSUME NEW s \in SUBSET All, NEW x \in s, s \ {x} \in T
      PROVE  \E m \in s : \A k \in s : k \notin Ahead(b, now, m)
  <2>1. x \notin Ahead(b, now, x)
    BY AheadOrder
  <2>2. CASE s \ {x} = {}
    BY <2>1, <2>2
  <2>3. CASE s \ {x} # {}
    <3>1. PICK m \in s \ {x} : \A k \in s \ {x} : k \notin Ahead(b, now, m)
      BY <1>2, <2>3
    <3>2. CASE x \notin Ahead(b, now, m)
      BY <3>1, <3>2
    <3>3. CASE x \in Ahead(b, now, m)
      <4>1. Ahead(b, now, x) \subseteq Ahead(b, now, m)
        BY <3>3, AheadOrder
      <4> QED BY <2>1, <3>1, <4>1
    <3> QED BY <3>2, <3>3
  <2> QED BY <2>2, <2>3
<1>3. \A s \in SUBSET All : s # {} => \E x \in s : s \ {x} \in T => s \in T
  BY <1>2
<1>4. IsFiniteSet(All)
  BY SpendableTypes
<1>5. \A s \in SUBSET All : s \in T
  <2> HIDE DEF T, All
  <2> QED BY <1>1, <1>3, <1>4, SetInduction
<1>6. PICK m \in All : \A k \in All : k \notin Ahead(b, now, m)
  BY <1>5
<1> QED BY <1>6 DEF Ahead

(* Charge, ChargeAI: who has enough and has not paid yet pays what is owed *)
(* for it, from his balance, and nothing else.                             *)
LEMMA DrainPays ==
  ASSUME NEW b, Good(b), NEW now, NEW owed \in Nat \ {0}, NEW kind \in {"debit", "ai"}, NEW x,
         Of(b, kind, x) = {}, owed <= Balance(b, now),
         NEW m, m = Drain(b, now, owed, kind, x)
  PROVE  /\ Amount(Of(m, kind, x)) = -owed
         /\ OthersKeep(b, m, kind, x) /\ Keys(b) \subseteq Keys(m)
         /\ Balance(m, now) = Balance(b, now) - owed
         /\ kind = "ai" => <<"ai", x, 0>> \in Keys(m)
<1> DEFINE from == From(b, now, owed)
           rows == Pieces(b, now, owed, kind, x, from)
<1>1. m = MoveTokens(b, rows)
  BY DEF Drain, Pieces, From
<1>2. Amount(rows) = -owed
  BY AllTake
<1>3. RowsFor(rows, kind, x) /\ Legal(b, rows)
  <2> HIDE DEF rows
  <2> QED BY PiecesLegal DEF RowsFor, rows
<1>4. \A r \in rows : r.key \notin Keys(b)
  <2> HIDE DEF rows
  <2> QED BY <1>3 DEF RowsFor, Keys, Of
<1>5. m.ledger = b.ledger \cup rows
  <2> HIDE DEF rows
  <2> QED BY <1>1, <1>4 DEF MoveTokens
<1>6. Of(m, kind, x) = Of(b, kind, x) \cup rows
      /\ OthersKeep(b, m, kind, x) /\ Keys(b) \subseteq Keys(m)
  <2> HIDE DEF rows
  <2> QED BY <1>3, <1>5, Posted
<1>7. Of(m, kind, x) = rows
  BY <1>6
<1>8. Amount(Of(m, kind, x)) = -owed
  BY <1>2, <1>7, Zenon
<1>9. Balance(m, now) = Balance(b, now) - owed
  <2>1. Held(m, Spendable(b, now)) = Held(b, Spendable(b, now)) + Amount(rows)
    BY <1>1, <1>4, DrainedHeld
  <2>2. ASSUME NEW i \in Ids(b)
        PROVE  /\ m.buckets[i].expires = b.buckets[i].expires
               /\ i \notin from => m.buckets[i].left = b.buckets[i].left
    BY <1>1, <1>4, DrainedBucket
  <2> HIDE DEF rows
  <2>3. Ids(m) = Ids(b) /\ \A i \in Ids(m) : m.buckets[i].left >= 0 /\ m.buckets[i].left \in Int
    <3>1. Ids(m) = Ids(b) /\ \A i \in Ids(m) : m.buckets[i].left >= 0
      BY <1>1, <1>3, MovedBook
    <3>2. \A i \in Ids(b) : m.buckets[i].left \in Int
      BY <1>1, <1>3, Moved DEF Bucket
    <3> QED BY <3>1, <3>2
  <2>4. Spendable(m, now) \in SUBSET Spendable(b, now)
    BY <2>2, <2>3 DEF Spendable, From
  <2>5. \A i \in Spendable(b, now) : i \in Ids(m) /\ b.buckets[i].expires > now
    BY <2>3 DEF Spendable
  <2>6. ASSUME NEW i \in Spendable(b, now) \ Spendable(m, now) PROVE m.buckets[i].left = 0
    <3>1. i \in Ids(m) /\ m.buckets[i].expires > now
      BY <2>2, <2>3, <2>5
    <3>2. ~(m.buckets[i].left > 0)
      BY <3>1 DEF Spendable
    <3> QED BY <2>3, <3>1, <3>2
  <2>7. IsFiniteSet(Spendable(b, now)) /\ \A i \in Spendable(b, now) : m.buckets[i].left \in Int
    BY <2>3, <2>5, SpendableTypes
  <2>8. Held(m, Spendable(b, now)) = Held(m, Spendable(m, now))
    BY <2>4, <2>6, <2>7, HeldByThese
  <2>9. Held(b, Spendable(b, now)) \in Int
    BY HeldInt
  <2> QED BY <1>2, <2>1, <2>8, <2>9 DEF Balance
<1>10. ASSUME kind = "ai" PROVE <<"ai", x, 0>> \in Keys(m)
  <2>1. Spendable(b, now) # {}
    <3>1. Held(b, {}) = 0
      BY HeldEmpty
    <3>2. Balance(b, now) # 0
      <4>1. Balance(b, now) \in Int
        BY HeldInt DEF Balance
      <4> QED BY <4>1
    <3> QED BY <3>1, <3>2, Zenon DEF Balance
  <2>2. PICK i \in Spendable(b, now) : Ahead(b, now, i) = {}
    BY <2>1, FirstExists
  <2>3. Held(b, Ahead(b, now, i)) = 0
    BY <2>2, HeldEmpty, Zenon
  <2>4. i \in from
    BY <2>3 DEF From
  <2>5. Piece(b, now, owed, kind, x, i).key = <<"ai", x, 0>>
    BY <1>10, <2>2 DEF Piece, PieceKey
  <2>6. Piece(b, now, owed, kind, x, i) \in m.ledger
    BY <1>5, <2>4 DEF Pieces
  <2> QED BY <2>5, <2>6 DEF Keys
<1> QED BY <1>6, <1>8, <1>9, <1>10

(* The price of the lines S of a scan, and of those after the first n      *)
Cost(q, S) == SumFunction([i \in S |-> Price[q[i]]])
Rest(q, n) == Cost(q, n + 1 .. Len(q))

LEMMA CostLess ==
  ASSUME NEW q, NEW S, IsFiniteSet(S), \A i \in S : Price[q[i]] \in Int, NEW x \in S
  PROVE  Cost(q, S) \in Int /\ Cost(q, S) = Price[q[x]] + Cost(q, S \ {x})
<1> DEFINE w == [i \in S |-> Price[q[i]]]
           v == [i \in S \ {x} |-> Price[q[i]]]
<1>1. w \in [S -> Int] /\ w[x] = Price[q[x]]
  OBVIOUS
<1>2. DOMAIN v = S \ {x} /\ Agree(v, w, S \ {x})
  BY DEF Agree
<1>3. Cost(q, S) = SumFunction(w) /\ Cost(q, S \ {x}) = SumFunction(v)
  BY Zenon DEF Cost
<1> HIDE DEF w, v
<1>4. SumFunction(w) = w[x] + SumFunction(v)
  BY <1>1, <1>2, SumLess
<1>5. SumFunction(w) \in Int
  BY <1>1, SumInt
<1> QED BY <1>1, <1>3, <1>4, <1>5

LEMMA RestSteps ==
  ASSUME BillingAssumption, NEW q \in Seq(Jobs), NEW n \in 1 .. Len(q)
  PROVE  Rest(q, n - 1) = Price[q[n]] + Rest(q, n)
<1> DEFINE S == n .. Len(q)
<1>1. n \in S /\ IsFiniteSet(S)
  <2>1. n \in Int /\ Len(q) \in Int /\ n \in S
    OBVIOUS
  <2> HIDE DEF S
  <2>2. IsFiniteSet(S)
    BY <2>1, FS_Interval DEF S
  <2> QED BY <2>1, <2>2
<1>2. \A i \in S : Price[q[i]] \in Int
  <2>1. \A i \in S : q[i] \in Jobs
    OBVIOUS
  <2> HIDE DEF S
  <2> QED BY <2>1 DEF BillingAssumption
<1>3. n - 1 + 1 .. Len(q) = S /\ n + 1 .. Len(q) = S \ {n}
  OBVIOUS
<1>4. Rest(q, n - 1) = Cost(q, S) /\ Rest(q, n) = Cost(q, S \ {n})
  <2> HIDE DEF S
  <2> QED BY <1>3, Zenon DEF Rest
<1> HIDE DEF S
<1>5. Cost(q, S) = Price[q[n]] + Cost(q, S \ {n})
  BY <1>1, <1>2, CostLess
<1> QED BY <1>4, <1>5, Zenon

(* It is not negative.                                                     *)
LEMMA RestNat ==
  ASSUME BillingAssumption, NEW q \in Seq(Jobs), NEW n \in 0 .. Len(q)
  PROVE  Rest(q, n) \in Nat
<1> DEFINE N == Len(q)
           T == {k \in 0 .. N : Rest(q, N - k) \in Nat}
<1>1. N \in Nat
  OBVIOUS
<1>2. 0 \in T
  <2>1. DOMAIN [i \in N - 0 + 1 .. Len(q) |-> Price[q[i]]] = {}
    OBVIOUS
  <2>2. Rest(q, N - 0) = 0
    BY <2>1, SumEmpty, Zenon DEF Rest, Cost
  <2> HIDE DEF N
  <2> QED BY <1>1, <2>2
<1>3. ASSUME NEW k \in 1 .. N, k - 1 \in T PROVE k \in T
  <2>1. N - (k - 1) \in 1 .. N /\ (N - (k - 1)) - 1 = N - k
    BY <1>1
  <2>2. Rest(q, N - (k - 1)) \in Nat
    BY <1>3
  <2> DEFINE l == N - (k - 1)
  <2>3. Rest(q, l - 1) = Price[q[l]] + Rest(q, l) /\ Price[q[l]] \in Nat
    <3>1. l \in 1 .. Len(q)
      BY <2>1
    <3> HIDE DEF l
    <3>2. q[l] \in Jobs
      BY <3>1
    <3> QED BY <3>1, <3>2, RestSteps DEF BillingAssumption
  <2>4. Rest(q, l - 1) \in Nat
    <3> HIDE DEF N, l
    <3> QED BY <2>2, <2>3 DEF l
  <2>5. l - 1 = N - k
    BY <2>1
  <2>6. Rest(q, N - k) \in Nat
    <3> HIDE DEF l
    <3> QED BY <2>4, <2>5, Zenon
  <2> QED BY <2>6
<1>4. \A k \in 0 .. N : k \in T
  <2> HIDE DEF T, N
  <2> QED BY <1>1, <1>2, <1>3, Steps
<1>5. N - n \in 0 .. N /\ N - (N - n) = n
  BY <1>1
<1>6. Rest(q, N - (N - n)) \in Nat
  <2> HIDE DEF N
  <2> QED BY <1>4, <1>5
<1>7. Rest(q, N - (N - n)) = Rest(q, n)
  BY <1>5, Zenon
<1> QED BY <1>6, <1>7

(* The first n lines are paid, the others not, there is enough for them,   *)
(* and what is not a debit of the scan is as before.                       *)
PaidUpTo(b, g, now, q, n) ==
    /\ Good(g) /\ Rest(q, n) <= Balance(g, now)
    /\ \A i \in 1 .. n : Amount(Of(g, "debit", q[i])) = -Price[q[i]]
    /\ \A i \in n + 1 .. Len(q) : Of(g, "debit", q[i]) = {}
    /\ \A k, y : k # "debit" \/ y \notin {q[i] : i \in 1 .. Len(q)} => Of(g, k, y) = Of(b, k, y)
    /\ Keys(b) \subseteq Keys(g)

LEMMA OneLine ==
  ASSUME BillingAssumption, NEW q \in Seq(Jobs),
         \A i, k \in 1 .. Len(q) : q[i] = q[k] => i = k,
         NEW b, NEW now, NEW n \in 1 .. Len(q), NEW g, PaidUpTo(b, g, now, q, n - 1),
         NEW m, m = Drain(g, now, Price[q[n]], "debit", q[n])
  PROVE  PaidUpTo(b, m, now, q, n)
<1> DEFINE N == Len(q)
           p == Price[q[n]]
<1>1. q[n] \in Jobs /\ p \in Nat \ {0}
  <2>1. q[n] \in Jobs
    OBVIOUS
  <2> QED BY <2>1 DEF BillingAssumption
<1>2. Rest(q, n - 1) = p + Rest(q, n) /\ Rest(q, n) \in Nat
  <2>1. n \in 0 .. Len(q)
    OBVIOUS
  <2> QED BY <2>1, RestSteps, RestNat
<1>3. Good(g) /\ Rest(q, n - 1) <= Balance(g, now) /\ Of(g, "debit", q[n]) = {}
  <2>1. n \in n - 1 + 1 .. Len(q)
    OBVIOUS
  <2> QED BY <2>1 DEF PaidUpTo
<1>4. Balance(g, now) \in Int
  BY <1>3, HeldInt DEF Balance
<1> HIDE DEF p
<1>5. /\ Amount(Of(m, "debit", q[n])) = -p
      /\ OthersKeep(g, m, "debit", q[n]) /\ Keys(g) \subseteq Keys(m)
      /\ Balance(m, now) = Balance(g, now) - p
  <2>1. p <= Balance(g, now)
    BY <1>1, <1>2, <1>3, <1>4
  <2>2. m = Drain(g, now, p, "debit", q[n])
    BY DEF p
  <2>3. p \in Nat \ {0} /\ Good(g) /\ Of(g, "debit", q[n]) = {}
    BY <1>1, <1>3
  <2>4. "debit" \in {"debit", "ai"}
    OBVIOUS
  <2> QED BY <2>1, <2>2, <2>3, <2>4, DrainPays
<1>6. Good(m)
  <2>1. p \in Int
    BY <1>1
  <2>2. Good(Drain(g, now, p, "debit", q[n]))
    BY <1>3, <2>1, DrainGood
  <2> QED BY <2>2 DEF p
<1>7. Rest(q, n) <= Balance(m, now)
  BY <1>1, <1>2, <1>3, <1>4, <1>5
<1>8. \A i \in 1 .. N : i # n => Of(m, "debit", q[i]) = Of(g, "debit", q[i])
  BY <1>5 DEF OthersKeep
<1>9. ASSUME NEW i \in 1 .. n PROVE Amount(Of(m, "debit", q[i])) = -Price[q[i]]
  <2>1. CASE i = n
    BY <1>5, <2>1 DEF p
  <2>2. CASE i # n
    <3>1. i \in 1 .. n - 1 /\ i \in 1 .. N
      BY <2>2
    <3>2. Amount(Of(m, "debit", q[i])) = Amount(Of(g, "debit", q[i]))
      BY <1>8, <2>2, <3>1, Zenon
    <3> QED BY <3>1, <3>2 DEF PaidUpTo
  <2> QED BY <2>1, <2>2
<1>10. ASSUME NEW i \in n + 1 .. N PROVE Of(m, "debit", q[i]) = {}
  <2>1. N \in Nat
    OBVIOUS
  <2> HIDE DEF N
  <2>2. i \in n - 1 + 1 .. N /\ i \in 1 .. N /\ i # n
    BY <2>1 DEF N
  <2>3. Of(g, "debit", q[i]) = {}
    BY <2>2 DEF PaidUpTo, N
  <2> QED BY <1>8, <2>2, <2>3, Zenon
<1>11. ASSUME NEW k, NEW y, k # "debit" \/ y \notin {q[i] : i \in 1 .. N}
       PROVE  Of(m, k, y) = Of(b, k, y)
  <2>1. Of(g, k, y) = Of(b, k, y)
    BY <1>11 DEF PaidUpTo
  <2>2. k # "debit" \/ y # q[n]
    BY <1>11
  <2> QED BY <1>5, <2>1, <2>2 DEF OthersKeep
<1>12. Keys(b) \subseteq Keys(m)
  BY <1>5 DEF PaidUpTo
<1> QED BY <1>6, <1>7, <1>9, <1>10, <1>11, <1>12 DEF PaidUpTo

(* Charge: a scan none of whose jobs was paid is paid in full.             *)
LEMMA ChargedSettled ==
  ASSUME BillingAssumption, LinesAssumption, NEW b, Good(b), Settled(b), NEW now, NEW s \in Scans,
         Debits(b, Lines[s][1]) = {}, Rest(Lines[s], 0) <= Balance(b, now),
         NEW m, m = PayLines(b, now, Lines[s])
  PROVE  Settled(m)
<1> DEFINE q == Lines[s]
           N == Len(q)
<1>1. /\ q \in Seq(Jobs) /\ N \in Nat \ {0} /\ DOMAIN q = 1 .. N
      /\ \A i, k \in 1 .. N : q[i] = q[k] => i = k
  <2>1. q \in Seq(Jobs) /\ q # <<>>
    BY DEF LinesAssumption
  <2>2. N \in Nat \ {0} /\ DOMAIN q = 1 .. N
    <3> HIDE DEF q
    <3> QED BY <2>1
  <2>3. \A i, k \in DOMAIN q : q[i] = q[k] => i = k
    BY DEF LinesAssumption
  <2> QED BY <2>1, <2>2, <2>3
<1>2. NonePaid(b, s)
  <2>1. Of(b, "debit", q[1]) = {}
    BY DebitsOf
  <2>2. Amount(Of(b, "debit", q[1])) = 0
    BY <2>1, AmountEmpty, Zenon
  <2>3. Price[q[1]] \in Nat \ {0} /\ 1 \in DOMAIN q
    <3>1. q[1] \in Jobs /\ 1 \in DOMAIN q
      BY <1>1
    <3> QED BY <3>1 DEF BillingAssumption
  <2>4. ~AllPaid(b, s)
    BY <2>2, <2>3 DEF AllPaid
  <2> QED BY <2>4 DEF Settled
<1>3. \A i \in 1 .. N : Of(b, "debit", q[i]) = {}
  BY <1>1, <1>2 DEF NonePaid
<1>4. PICK f : LineByLine(f, b, now, q)
  BY <1>1, PaidLineByLine
<1>5. f[0] = b /\ f[N] = m /\ \A n \in 1 .. N : f[n] = Drain(f[n - 1], now, Price[q[n]], "debit", q[n])
  BY <1>4 DEF LineByLine
<1>6. Rest(q, 0) <= Balance(b, now)
  OBVIOUS
<1> HIDE DEF q, N
<1> DEFINE U == {n \in 0 .. N : PaidUpTo(b, f[n], now, q, n)}
<1>7. 0 \in U
  <2>1. PaidUpTo(b, b, now, q, 0)
    BY <1>1, <1>3, <1>6 DEF PaidUpTo, N
  <2> QED BY <1>1, <1>5, <2>1
<1>8. ASSUME NEW n \in 1 .. N, n - 1 \in U PROVE n \in U
  <2>1. PaidUpTo(b, f[n], now, q, n)
    BY <1>1, <1>5, <1>8, OneLine DEF N
  <2> QED BY <1>1, <2>1
<1>9. PaidUpTo(b, m, now, q, N)
  <2>1. \A n \in 0 .. N : n \in U
    <3> HIDE DEF U
    <3> QED BY <1>1, <1>7, <1>8, Steps
  <2> QED BY <1>1, <1>5, <2>1
<1>10. /\ \A i \in 1 .. N : Amount(Of(m, "debit", q[i])) = -Price[q[i]]
       /\ \A k, y : k # "debit" \/ y \notin {q[i] : i \in 1 .. N} => Of(m, k, y) = Of(b, k, y)
       /\ Keys(b) \subseteq Keys(m)
  BY <1>9 DEF PaidUpTo, N
<1>11. ASSUME NEW t \in Scans PROVE AllPaid(m, t) \/ NonePaid(m, t)
  <2>1. CASE t = s
    BY <1>1, <1>10, <2>1 DEF AllPaid, q
  <2>2. CASE t # s
    <3>1. ASSUME NEW i \in DOMAIN Lines[t] PROVE Lines[t][i] \notin {q[k] : k \in 1 .. N}
      <4>1. ASSUME NEW k \in 1 .. N PROVE Lines[t][i] # q[k]
        <5>1. k \in DOMAIN Lines[s]
          BY <1>1 DEF q
        <5>2. Lines[t][i] # Lines[s][k]
          BY <2>2, <5>1 DEF LinesAssumption
        <5> QED BY <5>2 DEF q
      <4> QED BY <4>1
    <3>2. \A i \in DOMAIN Lines[t] : Of(m, "debit", Lines[t][i]) = Of(b, "debit", Lines[t][i])
      BY <1>10, <3>1
    <3>3. \A i \in DOMAIN Lines[t] :
            Amount(Of(m, "debit", Lines[t][i])) = Amount(Of(b, "debit", Lines[t][i]))
      BY <3>2, Zenon
    <3> QED BY <3>2, <3>3, Zenon DEF Settled, AllPaid, NonePaid
  <2> QED BY <2>1, <2>2
<1>12. ASSUME NEW j \in Jobs PROVE Mirrored(m, j)
  <2>1. Of(m, "refund", j) = Of(b, "refund", j)
    BY <1>10
  <2>2. CASE j \in {q[i] : i \in 1 .. N}
    <3>1. Of(b, "debit", j) = {}
      BY <1>3, <2>2
    <3>2. {Refund(e, j) : e \in Of(b, "debit", j)} = {}
      BY <3>1
    <3>3. Of(b, "refund", j) = {}
      BY <3>2 DEF Settled, Mirrored
    <3> QED BY <2>1, <3>3 DEF Mirrored
  <2>3. CASE j \notin {q[i] : i \in 1 .. N}
    <3>1. Of(m, "debit", j) = Of(b, "debit", j)
      BY <1>10, <2>3
    <3> QED BY <2>1, <3>1, Zenon DEF Settled, Mirrored
  <2> QED BY <2>2, <2>3
<1>13. ASSUME NEW y \in Questions PROVE Answered(m, y)
  <2>1. Of(m, "ai", y) = Of(b, "ai", y)
    BY <1>10
  <2>2. <<"ai", y, 0>> \in Keys(b) => <<"ai", y, 0>> \in Keys(m)
    BY <1>10
  <2> QED BY <2>1, <2>2, Zenon DEF Settled, Answered
<1> QED BY <1>11, <1>12, <1>13 DEF Settled

(* ChargeAI: so is a command.                                              *)
LEMMA AskedSettled ==
  ASSUME BillingAssumption, NEW b, Good(b), Settled(b), NEW now, NEW q \in Questions,
         <<"ai", q, 0>> \notin Keys(b), AIPrice <= Balance(b, now),
         NEW m, m = Drain(b, now, AIPrice, "ai", q)
  PROVE  Settled(m)
<1>1. Of(b, "ai", q) = {}
  BY DEF Settled, Answered
<1>2. AIPrice \in Nat \ {0}
  BY DEF BillingAssumption
<1>3. /\ Amount(Of(m, "ai", q)) = -AIPrice
      /\ OthersKeep(b, m, "ai", q) /\ Keys(b) \subseteq Keys(m)
      /\ <<"ai", q, 0>> \in Keys(m)
  BY <1>1, <1>2, DrainPays
<1>4. \A k \in {"debit", "refund"} : \A y : Of(m, k, y) = Of(b, k, y)
  BY <1>3 DEF OthersKeep
<1>5. ASSUME NEW s \in Scans PROVE AllPaid(m, s) \/ NonePaid(m, s)
  <2>1. \A i \in DOMAIN Lines[s] : Of(m, "debit", Lines[s][i]) = Of(b, "debit", Lines[s][i])
    BY <1>4
  <2>2. \A i \in DOMAIN Lines[s] :
          Amount(Of(m, "debit", Lines[s][i])) = Amount(Of(b, "debit", Lines[s][i]))
    BY <2>1, Zenon
  <2> QED BY <2>1, <2>2, Zenon DEF Settled, AllPaid, NonePaid
<1>6. ASSUME NEW j \in Jobs PROVE Mirrored(m, j)
  <2>1. Of(m, "debit", j) = Of(b, "debit", j) /\ Of(m, "refund", j) = Of(b, "refund", j)
    BY <1>4
  <2> QED BY <2>1, Zenon DEF Settled, Mirrored
<1>7. ASSUME NEW y \in Questions PROVE Answered(m, y)
  <2>1. CASE y = q
    BY <1>3, <2>1 DEF Answered
  <2>2. CASE y # q
    <3>1. Of(m, "ai", y) = Of(b, "ai", y)
      BY <1>3, <2>2 DEF OthersKeep
    <3>2. <<"ai", y, 0>> \in Keys(b) => <<"ai", y, 0>> \in Keys(m)
      BY <1>3
    <3> QED BY <3>1, <3>2, Zenon DEF Settled, Answered
  <2> QED BY <2>1, <2>2
<1> QED BY <1>5, <1>6, <1>7 DEF Settled

-----------------------------------------------------------------------------
(***************************************************************************)
(* Provision and renewal.                                                  *)
(***************************************************************************)

(* A book that is good and settled                                         *)
Sound(b) == Good(b) /\ Settled(b)

(* addBucket, grantPlanTokens                                              *)
LEMMA BucketSound ==
  ASSUME BillingAssumption, NEW b, Sound(b), NEW source \in {"plan_grant", "topup", "adjustment"},
         NEW amount \in Nat, NEW expires \in Int,
         NEW key, key[1] \notin {"debit", "refund", "ai"}
  PROVE  Sound(AddBucket(b, source, amount, expires, key))
  BY AddBucketGood, AddBucketSettled DEF Sound

LEMMA GrantSound ==
  ASSUME BillingAssumption, CalendarAssumption, NEW b, Sound(b), NEW s \in Subscription,
         NEW now \in Int,
         NEW key, key[1] \notin {"debit", "refund", "ai"}
  PROVE  Sound(GrantPlan(b, s, now, key))
  BY GrantPlanGood, GrantPlanSettled DEF Sound

(* ExpiredBuckets, and what is expired with them                           *)
LEMMA ExpireSound ==
  ASSUME NEW b, Sound(b), NEW S \in SUBSET Ids(b)
  PROVE  Sound(ExpireAll(b, S))
  BY ExpireAllGood, ExpireAllSettled DEF Sound

(* Charge's conditions: not charged before, and the balance covers it.     *)
Chargeable(b, now, s) ==
    /\ Debits(b, Lines[s][1]) = {}
    /\ Balance(b, now) >= SumFunction([i \in DOMAIN Lines[s] |-> Price[Lines[s][i]]])

(* Charge                                                                  *)
LEMMA ChargedSound ==
  ASSUME BillingAssumption, LinesAssumption, NEW b, Sound(b), NEW now, NEW s \in Scans,
         Chargeable(b, now, s)
  PROVE  Sound(PayLines(b, now, Lines[s]))
<1> DEFINE q == Lines[s]
           cost == SumFunction([i \in DOMAIN q |-> Price[q[i]]])
<1>0. Debits(b, q[1]) = {} /\ Balance(b, now) >= cost
  BY DEF Chargeable
<1>1. q \in Seq(Jobs)
  BY DEF LinesAssumption
<1>2. Rest(q, 0) = cost
  <2>1. DOMAIN q = 0 + 1 .. Len(q)
    <3> HIDE DEF q
    <3> QED BY <1>1
  <2> QED BY <2>1, Zenon DEF Rest, Cost
<1>3. Rest(q, 0) <= Balance(b, now)
  <2>1. Balance(b, now) \in Int
    BY HeldInt DEF Balance, Sound
  <2>2. Rest(q, 0) \in Nat
    <3>1. 0 \in 0 .. Len(q)
      BY <1>1
    <3> QED BY <1>1, <3>1, RestNat
  <2> HIDE DEF q, cost
  <2> QED BY <1>0, <1>2, <2>1, <2>2
<1>4. Good(PayLines(b, now, q))
  BY <1>1, ChargedGood DEF Sound
<1>5. Settled(PayLines(b, now, q))
  BY <1>0, <1>3, ChargedSettled DEF Sound
<1> QED BY <1>4, <1>5 DEF Sound

(* ChargeAI                                                                *)
LEMMA AskedSound ==
  ASSUME BillingAssumption, NEW b, Sound(b), NEW now, NEW q \in Questions,
         <<"ai", q, 0>> \notin Keys(b), Balance(b, now) >= AIPrice
  PROVE  Sound(Drain(b, now, AIPrice, "ai", q))
<1>1. AIPrice \in Int /\ Balance(b, now) \in Int
  BY HeldInt DEF Balance, Sound, BillingAssumption
<1>2. Good(Drain(b, now, AIPrice, "ai", q))
  BY <1>1, DrainGood DEF Sound
<1>3. AIPrice <= Balance(b, now)
  BY <1>1
<1>4. Settled(Drain(b, now, AIPrice, "ai", q))
  BY <1>3, AskedSettled DEF Sound
<1> QED BY <1>2, <1>4 DEF Sound

(* AdminAdjust, taking                                                     *)
LEMMA AdjustedSound ==
  ASSUME NEW b, Sound(b), NEW now, NEW owed \in Int, NEW a
  PROVE  Sound(Drain(b, now, owed, "adjust", a))
<1> DEFINE rows == Pieces(b, now, owed, "adjust", a, From(b, now, owed))
           m == Drain(b, now, owed, "adjust", a)
<1>1. m = MoveTokens(b, rows)
  BY DEF Drain, Pieces, From
<1>2. \A r \in rows : r.key[1] = "adjust"
  <2> HIDE DEF rows
  <2> QED BY PiecesLegal DEF rows, Sound
<1>3. Good(m)
  BY DrainGood DEF Sound
<1> HIDE DEF rows, m
<1>4. b.ledger \subseteq m.ledger /\ m.ledger \ b.ledger \subseteq rows
  BY <1>1 DEF MoveTokens
<1>5. \A e \in m.ledger \ b.ledger : e.key[1] \notin {"debit", "refund", "ai"}
  BY <1>2, <1>4
<1>6. Settled(m)
  BY <1>4, <1>5, OthersSettled DEF Sound
<1> QED BY <1>3, <1>6 DEF Sound, m

(* RefundJob                                                               *)
LEMMA RefundSound ==
  ASSUME NEW b, Sound(b), NEW j \in Jobs, NEW now
  PROVE  Sound(MoveTokens(b, Refunds(b, j, now)))
  BY RefundGood, RefundSettled DEF Sound

(* The next grant of a paid plan is due within a month of the end of its   *)
(* period, and at that end if it is paid for by the month.                 *)
InStep(s) ==
    s # None /\ s.plan # "free" =>
        /\ s.nextGrant <= s.periodEnd + LongestMonth
        /\ Length[s.plan] = 1 => s.nextGrant = s.periodEnd

Account(st) == st.sub \in Subscription /\ InStep(st.sub) /\ Sound(st.book)

(* withOrg                                                                 *)
LEMMA FoundSound ==
  ASSUME BillingAssumption, CalendarAssumption, Sound(book), InStep(sub),
         sub \in Subscription \cup {None}, NEW now \in Int
  PROVE  Account(Found(now))
<1>1. CASE sub # None
  BY <1>1 DEF Found, Account
<1>2. CASE sub = None
  <2> DEFINE fresh == [plan |-> "free", periodEnd |-> AddMonths(now, 1),
                       nextGrant |-> AddMonths(now, 1), cancelAtEnd |-> FALSE]
  <2>1. fresh \in Subscription
    <3>1. AddMonths(now, 1) \in Int
      BY MonthsLater
    <3> QED BY <3>1 DEF Subscription, Plans
  <2>6. fresh.plan = "free"
    OBVIOUS
  <2>2. Found(now).sub = fresh /\ Found(now).book = GrantPlan(EmptyBook, fresh, now, <<"grant">>)
    BY <1>2 DEF Found
  <2> HIDE DEF fresh
  <2>3. <<"grant">>[1] \notin {"debit", "refund", "ai"}
    OBVIOUS
  <2>5. Sound(EmptyBook)
    BY EmptyBookGood, EmptyBookSettled DEF Sound
  <2>4. Sound(GrantPlan(EmptyBook, fresh, now, <<"grant">>))
    BY <2>1, <2>3, <2>5, GrantSound
  <2> QED BY <2>1, <2>2, <2>4, <2>6 DEF Account, InStep
<1> QED BY <1>1, <1>2

(* A subscription with another date is one.                                *)
LEMMA Rescheduled ==
  ASSUME NEW s \in Subscription, NEW t \in Int
  PROVE  /\ [s EXCEPT !.periodEnd = t] \in Subscription
         /\ [s EXCEPT !.nextGrant = t] \in Subscription
  BY DEF Subscription

(* Its dates are numbers.                                                  *)
LEMMA Dated ==
  ASSUME NEW s \in Subscription
  PROVE  s.periodEnd \in Int /\ s.nextGrant \in Int
  BY DEF Subscription

(* renewLocked: a turn moves the grant of a period that is not over by a   *)
(* month, and ends the plan of one that is or moves its end on as well.    *)
LEMMA NextInStep ==
  ASSUME BillingAssumption, CalendarAssumption, NEW s \in Subscription, InStep(s),
         NEW demoRenew \in BOOLEAN
  PROVE  InStep(NextPeriod(s, demoRenew))
<1> DEFINE next == NextPeriod(s, demoRenew)
           ended == [plan |-> "free", periodEnd |-> AddMonths(s.nextGrant, 1),
                     nextGrant |-> s.nextGrant, cancelAtEnd |-> FALSE]
           g == s.nextGrant
           e == s.periodEnd
           L == Length[s.plan]
           h == AddMonths(g, 1)
           f == AddMonths(e, L)
<1>1. /\ g \in Int /\ e \in Int /\ LongestMonth \in Nat /\ L \in Nat \ {0}
  BY Dated DEF CalendarAssumption, BillingAssumption, Subscription
<1>2. h \in Int /\ h <= g + LongestMonth
  <2> HIDE DEF g
  <2> QED BY <1>1, MonthsLater
<1>3. f \in Int /\ (L > 1 => f >= e + LongestMonth) /\ (L = 1 => f = AddMonths(e, 1))
  <2> HIDE DEF e, L
  <2> QED BY <1>1, MonthsLater
<1>8. s.plan # "free" => g <= e + LongestMonth /\ (L = 1 => g = e)
  <2>1. s # None
    BY DEF Subscription, None, Plans
  <2> QED BY <2>1 DEF InStep
<1>4. CASE s.plan = "free"
  <2> DEFINE freed == IF s.plan = "free" /\ s.periodEnd <= s.nextGrant
                      THEN [s EXCEPT !.periodEnd = AddMonths(s.nextGrant, 1)]
                      ELSE s
  <2>1. next = [freed EXCEPT !.nextGrant = AddMonths(@, 1)]
    BY <1>4 DEF NextPeriod, PeriodOver
  <2>2. freed.plan = "free"
    BY <1>4 DEF Subscription
  <2> HIDE DEF freed, next
  <2>3. next.plan = "free"
    BY <1>4, <2>1, <2>2 DEF Subscription
  <2> QED BY <2>3 DEF InStep, next
<1>5. CASE s.plan # "free" /\ PeriodOver(s) /\ ~(demoRenew /\ ~s.cancelAtEnd)
  <2>1. \E t : \/ next = [[ended EXCEPT !.periodEnd = t] EXCEPT !.nextGrant = AddMonths(@, 1)]
              \/ next = [ended EXCEPT !.nextGrant = AddMonths(@, 1)]
    BY <1>5 DEF NextPeriod
  <2> HIDE DEF next
  <2>2. next.plan = "free"
    BY <2>1
  <2> QED BY <2>2 DEF InStep, next
<1>6. CASE s.plan # "free" /\ ~PeriodOver(s)
  <2>1. next = [s EXCEPT !.nextGrant = h]
    BY <1>6 DEF NextPeriod
  <2>2. next.periodEnd = e /\ next.nextGrant = h /\ next.plan = s.plan
    BY <2>1 DEF Subscription
  <2>3. g < e /\ (L = 1 => g = e)
    BY <1>1, <1>6, <1>8 DEF PeriodOver
  <2> HIDE DEF next, g, e, h
  <2>4. next.nextGrant <= next.periodEnd + LongestMonth /\ L # 1
    BY <1>1, <1>2, <2>2, <2>3
  <2> QED BY <2>2, <2>4 DEF InStep, next
<1>7. CASE s.plan # "free" /\ PeriodOver(s) /\ demoRenew /\ ~s.cancelAtEnd
  <2>1. next = [[s EXCEPT !.periodEnd = f] EXCEPT !.nextGrant = AddMonths(@, 1)]
    <3>1. [s EXCEPT !.periodEnd = f].plan = s.plan
      BY DEF Subscription
    <3> QED BY <1>7, <3>1 DEF NextPeriod
  <2>2. next.periodEnd = f /\ next.nextGrant = h /\ next.plan = s.plan
    BY <2>1 DEF Subscription
  <2>3. g <= e + LongestMonth /\ (L = 1 => g = e)
    BY <1>7, <1>8
  <2>4. L = 1 => f = h
    BY <1>3, <2>3, Zenon
  <2> HIDE DEF next, g, e, f, h, L
  <2>5. h <= f + LongestMonth
    <3>1. CASE L = 1
      BY <1>1, <1>2, <1>3, <2>4, <3>1
    <3>2. CASE L > 1
      BY <1>1, <1>2, <1>3, <2>3, <3>2
    <3> QED BY <1>1, <3>1, <3>2
  <2>6. /\ next.nextGrant <= next.periodEnd + LongestMonth
        /\ L = 1 => next.nextGrant = next.periodEnd
    BY <2>2, <2>4, <2>5
  <2> QED BY <2>2, <2>6 DEF InStep, next, L
<1> QED BY <1>4, <1>5, <1>6, <1>7

(* One turn of the loop of renewLocked                                     *)
LEMMA RenewOnceSound ==
  ASSUME BillingAssumption, CalendarAssumption, NEW st, Account(st), NEW now \in Int,
         NEW demoRenew \in BOOLEAN
  PROVE  Account(RenewOnce(st, now, demoRenew))
<1>1. CASE st.sub.nextGrant > now
  BY <1>1 DEF RenewOnce
<1>2. CASE ~(st.sub.nextGrant > now)
  <2> DEFINE s == st.sub
             kept == IF ~PeriodOver(s) THEN s
                     ELSE IF demoRenew /\ ~s.cancelAtEnd
                          THEN [s EXCEPT !.periodEnd = AddMonths(@, Length[s.plan])]
                          ELSE [plan |-> "free", periodEnd |-> AddMonths(s.nextGrant, 1),
                                nextGrant |-> s.nextGrant, cancelAtEnd |-> FALSE]
             freed == IF kept.plan = "free" /\ kept.periodEnd <= kept.nextGrant
                      THEN [kept EXCEPT !.periodEnd = AddMonths(kept.nextGrant, 1)]
                      ELSE kept
             next == NextPeriod(s, demoRenew)
  <2>1. s \in Subscription /\ Length[s.plan] \in Nat /\ "free" \in Plans
    BY DEF Account, BillingAssumption, Subscription, Plans
  <2>2. kept \in Subscription
    <3> HIDE DEF s
    <3>1. /\ AddMonths(s.periodEnd, Length[s.plan]) \in Int
          /\ AddMonths(s.nextGrant, 1) \in Int /\ s.nextGrant \in Int
      BY <2>1, Dated, MonthsLater
    <3>2. [s EXCEPT !.periodEnd = AddMonths(@, Length[s.plan])] \in Subscription
      BY <2>1, <3>1, Rescheduled
    <3>3. [plan |-> "free", periodEnd |-> AddMonths(s.nextGrant, 1),
           nextGrant |-> s.nextGrant, cancelAtEnd |-> FALSE] \in Subscription
      BY <2>1, <3>1 DEF Subscription
    <3> QED BY <2>1, <3>2, <3>3
  <2>3. freed \in Subscription
    <3> HIDE DEF kept
    <3>1. AddMonths(kept.nextGrant, 1) \in Int
      BY <2>2, Dated, MonthsLater
    <3>2. [kept EXCEPT !.periodEnd = AddMonths(kept.nextGrant, 1)] \in Subscription
      BY <2>2, <3>1, Rescheduled
    <3> QED BY <2>2, <3>2
  <2>4. next = [freed EXCEPT !.nextGrant = AddMonths(@, 1)]
    BY DEF NextPeriod
  <2> HIDE DEF freed, next
  <2>5. next \in Subscription
    <3>1. AddMonths(freed.nextGrant, 1) \in Int
      BY <2>3, Dated, MonthsLater
    <3>2. [freed EXCEPT !.nextGrant = AddMonths(freed.nextGrant, 1)] \in Subscription
      BY <2>3, <3>1, Rescheduled
    <3> QED BY <2>4, <3>2
  <2>6. RenewOnce(st, now, demoRenew) =
          [sub  |-> next,
           book |-> GrantPlan(st.book, next, now, <<"grant", st.sub.nextGrant>>)]
    BY <1>2 DEF RenewOnce, next
  <2>7. <<"grant", st.sub.nextGrant>>[1] \notin {"debit", "refund", "ai"}
    OBVIOUS
  <2>8. Sound(GrantPlan(st.book, next, now, <<"grant", st.sub.nextGrant>>))
    BY <2>5, <2>7, GrantSound DEF Account
  <2>9. InStep(next)
    BY NextInStep DEF Account, next
  <2> QED BY <2>5, <2>6, <2>8, <2>9 DEF Account
<1> QED BY <1>1, <1>2

(* renewLocked: the accounts f[n] after n turns, and after what has expired *)
TurnByTurn(f, s, c, now, demoRenew) ==
    /\ f[0] = [sub |-> s, book |-> c]
    /\ \A n \in 1 .. GrantsPerPass : f[n] = RenewOnce(f[n - 1], now, demoRenew)
    /\ LET st == f[GrantsPerPass]
           r  == Renewed(s, c, now, demoRenew)
       IN r.sub = st.sub /\ r.book = ExpireAll(st.book, Expired(st.book, now))

LEMMA RenewedTurnByTurn ==
  ASSUME BillingAssumption, NEW s, NEW c, NEW now, NEW demoRenew
  PROVE  \E f : TurnByTurn(f, s, c, now, demoRenew)
<1> DEFINE Op(a, i) == RenewOnce(a, now, demoRenew)
           b == [sub |-> s, book |-> c]
           q == [i \in 1 .. GrantsPerPass |-> i]
           N == Len(q)
           Eq(m, g) == g = [n \in 0 .. m |->
                              IF n = 0 THEN b
                              ELSE CHOOSE r \in {Op(a, q[n]) : a \in {g[n - 1]}} : TRUE]
           f == CHOOSE g : Eq(N, g)
           T == {m \in 0 .. N : \E g : Eq(m, g)}
<1>0. N \in Nat /\ N = GrantsPerPass
  <2>1. GrantsPerPass \in Nat
    BY DEF BillingAssumption
  <2>2. q \in Seq(Nat) /\ DOMAIN q = 1 .. GrantsPerPass
    BY <2>1
  <2> HIDE DEF q
  <2> QED BY <2>1, <2>2
<1> DEFINE st == Fold(LAMBDA a, i : RenewOnce(a, now, demoRenew), b, q)
<1>1. st = f[N]
  BY DEF Fold
<1> HIDE DEF b, q, st
<1>2. \A g, n : (CHOOSE r \in {Op(a, q[n]) : a \in {g[n - 1]}} : TRUE) = Op(g[n - 1], q[n])
  <2> HIDE DEF Op
  <2> SUFFICES ASSUME NEW g, NEW n
               PROVE  (CHOOSE r \in {Op(a, q[n]) : a \in {g[n - 1]}} : TRUE) = Op(g[n - 1], q[n])
    OBVIOUS
  <2>1. {Op(a, q[n]) : a \in {g[n - 1]}} = {Op(g[n - 1], q[n])}
    OBVIOUS
  <2>2. \A e : (CHOOSE r \in {e} : TRUE) = e
    OBVIOUS
  <2> QED BY <2>1, <2>2
<1> HIDE DEF Op
<1>3. 0 \in T
  <2> DEFINE g == [n \in 0 .. 0 |-> b]
  <2>1. Eq(0, g)
    OBVIOUS
  <2> HIDE DEF g, Eq
  <2> QED BY <2>1, <1>0
<1>4. ASSUME NEW m \in 1 .. N, m - 1 \in T PROVE m \in T
  <2>1. PICK g : Eq(m - 1, g)
    BY <1>4
  <2> DEFINE h == [n \in 0 .. m |-> IF n = m THEN Op(g[m - 1], q[m]) ELSE g[n]]
  <2>2. ASSUME NEW n \in 0 .. m
        PROVE  h[n] = IF n = 0 THEN b
                      ELSE CHOOSE r \in {Op(a, q[n]) : a \in {h[n - 1]}} : TRUE
    <3>1. CASE n = 0
      BY <3>1, <2>1
    <3>2. CASE n = m
      <4>1. h[n] = Op(g[m - 1], q[m]) /\ h[m - 1] = g[m - 1]
        BY <3>2
      <4>2. (CHOOSE r \in {Op(a, q[m]) : a \in {h[m - 1]}} : TRUE) = Op(h[m - 1], q[m])
        BY <1>2
      <4> HIDE DEF h
      <4> QED BY <3>2, <4>1, <4>2
    <3>3. CASE n # 0 /\ n # m
      <4>1. h[n] = g[n] /\ h[n - 1] = g[n - 1] /\ n \in 0 .. m - 1
        BY <3>3
      <4>2. g[n] = CHOOSE r \in {Op(a, q[n]) : a \in {g[n - 1]}} : TRUE
        BY <2>1, <3>3, <4>1
      <4>3. (CHOOSE r \in {Op(a, q[n]) : a \in {h[n - 1]}} : TRUE) = Op(h[n - 1], q[n])
        BY <1>2
      <4>4. (CHOOSE r \in {Op(a, q[n]) : a \in {g[n - 1]}} : TRUE) = Op(g[n - 1], q[n])
        BY <1>2
      <4> HIDE DEF h
      <4> QED BY <3>3, <4>1, <4>2, <4>3, <4>4
    <3> QED BY <3>1, <3>2, <3>3
  <2>3. Eq(m, h)
    BY <2>2
  <2> HIDE DEF h, Eq
  <2> QED BY <2>3
<1>5. \E g : Eq(N, g)
  <2>1. \A m \in 0 .. N : m \in T
    <3> HIDE DEF T, N
    <3> QED BY <1>0, <1>3, <1>4, Steps
  <2>2. N \in T
    <3> HIDE DEF T, N
    <3> QED BY <2>1, <1>0
  <2> HIDE DEF Eq, N
  <2> QED BY <2>2
<1>6. Eq(N, f)
  <2> HIDE DEF Eq, N
  <2> QED BY <1>5
<1>7. f[0] = b /\ \A n \in 1 .. N : f[n] = Op(f[n - 1], q[n])
  <2>1. \A n \in 0 .. N : f[n] = IF n = 0 THEN b
                                 ELSE CHOOSE r \in {Op(a, q[n]) : a \in {f[n - 1]}} : TRUE
    <3> HIDE DEF f, N
    <3> QED BY <1>6
  <2> HIDE DEF f, N
  <2> QED BY <1>0, <1>2, <2>1
<1> HIDE DEF f
<1> DEFINE done(a) == [sub |-> a.sub, book |-> ExpireAll(a.book, Expired(a.book, now))]
<1>8. Renewed(s, c, now, demoRenew) = CHOOSE r \in {done(a) : a \in {st}} : TRUE
  BY DEF Renewed, b, q, st
<1>9. Renewed(s, c, now, demoRenew) = done(st)
  <2> HIDE DEF done
  <2>1. {done(a) : a \in {st}} = {done(st)}
    OBVIOUS
  <2>2. \A e : (CHOOSE r \in {e} : TRUE) = e
    OBVIOUS
  <2> QED BY <1>8, <2>1, <2>2
<1>10. \A n \in 1 .. GrantsPerPass : f[n] = RenewOnce(f[n - 1], now, demoRenew)
  BY <1>0, <1>7 DEF Op
<1> HIDE DEF N
<1>11. LET r == Renewed(s, c, now, demoRenew)
       IN r.sub = st.sub /\ r.book = ExpireAll(st.book, Expired(st.book, now))
  <2> DEFINE d == ExpireAll(st.book, Expired(st.book, now))
  <2>1. done(st).sub = st.sub /\ done(st).book = d
    <3> HIDE DEF d
    <3>1. done(st) = [sub |-> st.sub, book |-> d]
      BY DEF d
    <3> HIDE DEF done
    <3> QED BY <3>1
  <2> HIDE DEF done
  <2> QED BY <1>9, <2>1, Zenon
<1> QED BY <1>0, <1>1, <1>7, <1>10, <1>11 DEF TurnByTurn, b

(* As many turns, then what has expired: the account stays in order.       *)
LEMMA RenewedSound ==
  ASSUME BillingAssumption, CalendarAssumption, NEW s \in Subscription, InStep(s),
         NEW c, Sound(c), NEW now \in Int, NEW demoRenew \in BOOLEAN
  PROVE  Account(Renewed(s, c, now, demoRenew))
<1> DEFINE N == GrantsPerPass
<1>0. N \in Nat
  BY DEF BillingAssumption
<1>1. PICK f : TurnByTurn(f, s, c, now, demoRenew)
  BY RenewedTurnByTurn
<1> DEFINE U == {n \in 0 .. N : Account(f[n])}
<1>2. 0 \in U
  BY <1>0, <1>1 DEF TurnByTurn, Account
<1>3. ASSUME NEW n \in 1 .. N, n - 1 \in U PROVE n \in U
  <2>1. Account(RenewOnce(f[n - 1], now, demoRenew))
    BY <1>3, RenewOnceSound
  <2> QED BY <1>1, <2>1 DEF TurnByTurn
<1>4. Account(f[N])
  <2>1. \A n \in 0 .. N : n \in U
    <3> HIDE DEF U, N
    <3> QED BY <1>0, <1>2, <1>3, Steps
  <2> QED BY <1>0, <2>1
<1> DEFINE st == f[N]
           r == Renewed(s, c, now, demoRenew)
<1>5. r.sub = st.sub /\ r.book = ExpireAll(st.book, Expired(st.book, now))
  BY <1>1 DEF TurnByTurn
<1> HIDE DEF st, r
<1>6. Account(st)
  BY <1>4 DEF st
<1>7. Sound(ExpireAll(st.book, Expired(st.book, now)))
  <2>1. Sound(st.book) /\ Expired(st.book, now) \in SUBSET Ids(st.book)
    BY <1>6 DEF Account, Expired
  <2> QED BY <2>1, ExpireSound
<1> QED BY <1>5, <1>6, <1>7 DEF Account, r

-----------------------------------------------------------------------------
(***************************************************************************)
(* The operations.                                                         *)
(***************************************************************************)

(* billing_checkout_sessions                                               *)
Opened ==
    [status : {"pending", "paid", "failed", "expired"}, item : Items, expires : Int]
Session == [status : {"none"}] \cup Opened

(* The inductive invariant.                                                *)
BillingInv ==
    /\ clock \in Nat
    /\ sub \in Subscription \cup {None} /\ InStep(sub)
    /\ Sound(book)
    /\ checkouts \in [Checkouts -> Session]

(* An end e that is moved by as much as the grant g is moved to now        *)
Shifted(g, e, now) == e - (g - now)

LEMMA ShiftedDate ==
  ASSUME NEW g \in Int, NEW e \in Int, NEW now \in Int
  PROVE  /\ Shifted(g, e, now) \in Int /\ Shifted(g, e, now) - now = e - g
         /\ \A L \in Int : g <= e + L => now <= Shifted(g, e, now) + L
         /\ g = e => now = Shifted(g, e, now)
  BY DEF Shifted

(* AdminAdvanceCycle moves both dates of a paid plan by as much.           *)
LEMMA ShiftedInStep ==
  ASSUME CalendarAssumption, NEW s \in Subscription, InStep(s), NEW now \in Int,
         NEW due, due = [s EXCEPT !.nextGrant = now,
                                  !.periodEnd = IF s.plan # "free"
                                                THEN @ - (s.nextGrant - now) ELSE @]
  PROVE  /\ due \in Subscription /\ InStep(due)
         /\ due.plan = s.plan /\ due.nextGrant = now
         /\ s.plan # "free" => due.periodEnd - now = s.periodEnd - s.nextGrant
<1> DEFINE g == s.nextGrant
           e == s.periodEnd
           f == Shifted(g, e, now)
<1>1. due.plan = s.plan /\ due.nextGrant = now
  BY DEF Subscription
<1>2. s.plan # "free" => due.periodEnd = f
  BY DEF Subscription, Shifted
<1>3. s.plan # "free" => g <= e + LongestMonth /\ (Length[s.plan] = 1 => g = e)
  <2>1. s # None
    BY DEF Subscription, None, Plans
  <2> QED BY <2>1 DEF InStep
<1>4. g \in Int /\ e \in Int /\ LongestMonth \in Int
  BY Dated DEF CalendarAssumption
<1>5. f \in Int /\ (g <= e + LongestMonth => now <= f + LongestMonth) /\ (g = e => now = f)
      /\ f - now = e - g
  <2> HIDE DEF g, e
  <2> QED BY <1>4, ShiftedDate
<1>6. due \in Subscription
  <2>1. \/ due = [s EXCEPT !.nextGrant = now]
        \/ due = [[s EXCEPT !.nextGrant = now] EXCEPT !.periodEnd = f]
    BY DEF Subscription, Shifted
  <2> HIDE DEF f
  <2>2. [s EXCEPT !.nextGrant = now] \in Subscription
    BY Rescheduled
  <2>3. [[s EXCEPT !.nextGrant = now] EXCEPT !.periodEnd = f] \in Subscription
    BY <1>5, <2>2, Rescheduled
  <2> QED BY <2>1, <2>2, <2>3
<1> HIDE DEF g, e, f
<1>7. s.plan # "free" =>
         /\ due.nextGrant <= due.periodEnd + LongestMonth
         /\ Length[s.plan] = 1 => due.nextGrant = due.periodEnd
         /\ due.periodEnd - now = e - g
  BY <1>1, <1>2, <1>3, <1>5
<1>8. InStep(due)
  BY <1>1, <1>7 DEF InStep
<1> QED BY <1>1, <1>6, <1>7, <1>8 DEF e, g

(* now is an instant.                                                      *)
LEMMA RecentInt == ASSUME BillingInv, NEW now \in Recent PROVE now \in Int
  BY DEF BillingInv, Recent

(* Every operation keeps the account in order.                             *)
LEMMA BillingStep ==
  ASSUME BillingAssumption, CalendarAssumption, BillingInv, [Next]_vars
  PROVE  BillingInv'
<1> USE DEF Commit
<1>1. CASE Tick
  BY <1>1 DEF Tick, BillingInv
<1>2. ASSUME NEW now \in Recent, Read(now) PROVE BillingInv'
  <2>1. /\ sub' = Found(now).sub /\ book' = Found(now).book
        /\ clock' = clock /\ checkouts' = checkouts
    BY <1>2 DEF Read
  <2>2. Account(Found(now))
    BY RecentInt, FoundSound DEF BillingInv
  <2> QED BY <2>1, <2>2 DEF Account, BillingInv
<1>3. ASSUME NEW now \in Recent, RenewDue(now) PROVE BillingInv'
  <2> DEFINE r == Renewed(sub, book, now, FALSE)
  <2>1. Account(r)
    <3>1. sub \in Subscription /\ InStep(sub) /\ Sound(book) /\ now \in Int
      BY <1>3, RecentInt DEF RenewDue, BillingInv
    <3> QED BY <3>1, RenewedSound
  <2>2. sub' = r.sub /\ book' = r.book
    BY <1>3 DEF RenewDue
  <2>3. clock' = clock /\ checkouts' = checkouts
    BY <1>3 DEF RenewDue
  <2> HIDE DEF r
  <2> QED BY <2>1, <2>2, <2>3 DEF Account, BillingInv
<1>4. ASSUME NEW now \in Recent, AdminAdvanceCycle(now) PROVE BillingInv'
  <2> DEFINE st == Found(now)
             shift == st.sub.nextGrant - now
             due == [st.sub EXCEPT !.nextGrant = now,
                                   !.periodEnd = IF st.sub.plan # "free" THEN @ - shift ELSE @]
  <2>1. /\ st.sub \in Subscription /\ Sound(st.book) /\ now \in Int
        /\ InStep(st.sub)
    BY RecentInt, FoundSound DEF Account, BillingInv
  <2>2. /\ sub' = Renewed(due, st.book, now, TRUE).sub
        /\ book' = Renewed(due, st.book, now, TRUE).book
        /\ clock' = clock /\ checkouts' = checkouts
    BY <1>4 DEF AdminAdvanceCycle
  <2> HIDE DEF st
  <2>3. due \in Subscription /\ InStep(due)
    <3> DEFINE s == st.sub
    <3>1. s \in Subscription /\ InStep(s)
      BY <2>1
    <3>2. due = [s EXCEPT !.nextGrant = now,
                          !.periodEnd = IF s.plan # "free"
                                        THEN @ - (s.nextGrant - now) ELSE @]
      OBVIOUS
    <3> HIDE DEF s, due
    <3> QED BY <2>1, <3>1, <3>2, ShiftedInStep, Zenon
  <2> HIDE DEF due
  <2>4. Account(Renewed(due, st.book, now, TRUE))
    BY <2>1, <2>3, RenewedSound
  <2> QED BY <2>2, <2>4 DEF Account, BillingInv
<1>5. ASSUME NEW now \in Recent, NEW s \in Scans, Charge(s, now) PROVE BillingInv'
  <2> DEFINE st == Found(now)
             paid == PayLines(st.book, now, Lines[s])
  <2>1. /\ st.sub \in Subscription /\ Sound(st.book)
        /\ InStep(st.sub)
    BY RecentInt, FoundSound DEF Account, BillingInv
  <2>2. /\ sub' = st.sub /\ book' = paid
        /\ clock' = clock /\ checkouts' = checkouts
    BY <1>5 DEF Charge
  <2> HIDE DEF st
  <2>3. Sound(paid)
    <3>1. Chargeable(st.book, now, s)
      BY <1>5 DEF Charge, Affords, Chargeable, st
    <3> QED BY <2>1, <3>1, ChargedSound, LinesAssumption
  <2> HIDE DEF paid
  <2> QED BY <2>1, <2>2, <2>3 DEF BillingInv
<1>6. ASSUME NEW now \in Recent, NEW j \in Jobs, RefundJob(j, now) PROVE BillingInv'
  <2>1. /\ sub' = sub /\ book' = MoveTokens(book, Refunds(book, j, now))
        /\ clock' = clock /\ checkouts' = checkouts
    BY <1>6 DEF RefundJob
  <2>2. Sound(MoveTokens(book, Refunds(book, j, now)))
    BY RefundSound DEF BillingInv
  <2> QED BY <2>1, <2>2 DEF BillingInv
<1>7. ASSUME NEW now \in Recent, NEW q \in Questions, ChargeAI(q, now) PROVE BillingInv'
  <2> DEFINE st == Found(now)
  <2>1. /\ st.sub \in Subscription /\ Sound(st.book)
        /\ InStep(st.sub)
    BY RecentInt, FoundSound DEF Account, BillingInv
  <2>2. /\ sub' = st.sub /\ book' = Drain(st.book, now, AIPrice, "ai", q)
        /\ clock' = clock /\ checkouts' = checkouts
    BY <1>7 DEF ChargeAI
  <2> HIDE DEF st
  <2>3. Sound(Drain(st.book, now, AIPrice, "ai", q))
    <3>1. <<"ai", q, 0>> \notin Keys(st.book) /\ Balance(st.book, now) >= AIPrice
      BY <1>7 DEF ChargeAI, Affords, st
    <3> QED BY <2>1, <3>1, AskedSound
  <2> QED BY <2>1, <2>2, <2>3 DEF BillingInv
<1>8. ASSUME NEW now \in Recent, NEW a \in Adjustments, NEW delta \in Deltas,
             AdminAdjust(a, delta, now)
      PROVE  BillingInv'
  <2> DEFINE st == Found(now)
             gift == AddBucket(st.book, "adjustment", delta, now + TopupValidity, <<"adjust", a>>)
             taken == Drain(st.book, now, -delta, "adjust", a)
  <2>1. /\ st.sub \in Subscription /\ Sound(st.book) /\ now \in Int
        /\ InStep(st.sub)
    BY RecentInt, FoundSound DEF Account, BillingInv
  <2>2. /\ sub' = st.sub /\ book' = IF delta > 0 THEN gift ELSE taken
        /\ clock' = clock /\ checkouts' = checkouts
    BY <1>8 DEF AdminAdjust
  <2> HIDE DEF st
  <2>3. delta \in Int /\ now + TopupValidity \in Int
    <3>1. TopupValidity \in Int
      BY DEF BillingAssumption
    <3>2. delta \in Int
      BY DEF BillingAssumption
    <3> QED BY <2>1, <3>1, <3>2
  <2>4. ASSUME delta > 0 PROVE Sound(gift)
    <3>1. delta \in Nat /\ <<"adjust", a>>[1] \notin {"debit", "refund", "ai"}
      BY <2>3, <2>4
    <3> QED BY <2>1, <2>3, <3>1, BucketSound
  <2>5. Sound(taken)
    <3>1. -delta \in Int
      BY <2>3
    <3> QED BY <2>1, <3>1, AdjustedSound
  <2> HIDE DEF gift, taken
  <2> QED BY <2>1, <2>2, <2>4, <2>5 DEF BillingInv
<1>9. ASSUME NEW now \in Recent, NEW c \in Checkouts, GetCheckout(c, now) \/ Decline(c, now)
      PROVE  BillingInv'
  <2>1. checkouts[c] \in Opened
    BY <1>9 DEF GetCheckout, Decline, BillingInv, Session, Opened
  <2>2. /\ clock' = clock /\ sub' = sub /\ book' = book
        /\ \E x \in {"failed", "expired"} : checkouts' = [checkouts EXCEPT ![c].status = x]
    BY <1>9 DEF GetCheckout, Decline
  <2>3. PICK x \in {"failed", "expired"} : checkouts' = [checkouts EXCEPT ![c].status = x]
    BY <2>2
  <2>4. checkouts' \in [Checkouts -> Session]
    BY <2>1, <2>3 DEF BillingInv, Session, Opened
  <2> QED BY <2>2, <2>4 DEF BillingInv
<1>10. ASSUME NEW now \in Recent, NEW c \in Checkouts, Confirm(c, now) PROVE BillingInv'
  <2> DEFINE item == checkouts[c].item
             new == [plan |-> item, periodEnd |-> AddMonths(now, Length[item]),
                     nextGrant |-> AddMonths(now, 1), cancelAtEnd |-> FALSE]
  <2>1. checkouts[c] \in Opened
    BY <1>10 DEF Confirm, Payable, BillingInv, Session, Opened
  <2>2. /\ clock' = clock /\ checkouts' = [checkouts EXCEPT ![c].status = "paid"]
       
    BY <1>10 DEF Confirm
  <2>3. checkouts' \in [Checkouts -> Session]
    BY <2>1, <2>2 DEF BillingInv, Session, Opened
  <2>4. now \in Int /\ Sound(book)
    BY RecentInt DEF BillingInv
  <2>5. CASE item \in Packs
    <3>1. /\ sub' = sub
          /\ book' = AddBucket(book, "topup", PackTokens, now + TopupValidity, <<"topup", c>>)
      BY <1>10, <2>5 DEF Confirm
    <3>2. /\ PackTokens \in Nat /\ now + TopupValidity \in Int
          /\ <<"topup", c>>[1] \notin {"debit", "refund", "ai"}
      BY <2>4 DEF BillingAssumption
    <3>3. Sound(book')
      BY <2>4, <3>1, <3>2, BucketSound
    <3> QED BY <2>2, <2>3, <3>1, <3>3 DEF BillingInv
  <2>6. CASE item \notin Packs
    <3>1. sub' = new /\ book' = GrantPlan(book, new, now, <<"purchase", c>>)
      BY <1>10, <2>6 DEF Confirm
    <3>2. item \in Plans
      BY <2>1, <2>6 DEF BillingAssumption, Plans, Opened
    <3>3. new \in Subscription
      <4>1. AddMonths(now, Length[item]) \in Int /\ AddMonths(now, 1) \in Int
        <5>1. Length[item] \in Nat
          BY <3>2 DEF BillingAssumption
        <5> QED BY <2>4, <5>1, MonthsLater
      <4> HIDE DEF item
      <4> QED BY <2>4, <3>2, <4>1 DEF Subscription
    <3>6. InStep(new)
      <4>1. AddMonths(now, Length[item]) \in Int /\ AddMonths(now, Length[item]) >= now
        <5>1. Length[item] \in Nat
          BY <3>2 DEF BillingAssumption
        <5> QED BY <2>4, <5>1, MonthsLater
      <4>2. /\ AddMonths(now, 1) \in Int /\ AddMonths(now, 1) <= now + LongestMonth
            /\ LongestMonth \in Int
        BY <2>4, MonthsLater DEF CalendarAssumption
      <4>3. new.nextGrant = AddMonths(now, 1) /\ new.periodEnd = AddMonths(now, Length[item])
        OBVIOUS
      <4> DEFINE u == AddMonths(now, 1)
                 v == AddMonths(now, Length[item])
      <4>4. u \in Int /\ v \in Int /\ v >= now /\ u <= now + LongestMonth
        BY <4>1, <4>2
      <4>7. Length[item] = 1 => u = v
        BY Zenon
      <4> HIDE DEF u, v
      <4>5. u <= v + LongestMonth
        BY <2>4, <4>2, <4>4
      <4>6. /\ new.nextGrant <= new.periodEnd + LongestMonth
            /\ Length[new.plan] = 1 => new.nextGrant = new.periodEnd
        <5>1. new.plan = item
          OBVIOUS
        <5> QED BY <4>3, <4>5, <4>7, <5>1 DEF u, v
      <4> HIDE DEF new
      <4> QED BY <4>6 DEF InStep
    <3> HIDE DEF new
    <3>4. <<"purchase", c>>[1] \notin {"debit", "refund", "ai"}
      OBVIOUS
    <3>5. Sound(GrantPlan(book, new, now, <<"purchase", c>>))
      BY <2>4, <3>3, <3>4, GrantSound
    <3> QED BY <2>2, <2>3, <3>1, <3>3, <3>5, <3>6 DEF BillingInv
  <2> QED BY <2>5, <2>6
<1>11. ASSUME NEW now \in Recent, NEW c \in Checkouts, NEW item \in Items,
              StartCheckout(c, item, now)
       PROVE  BillingInv'
  <2> DEFINE st == Found(now)
  <2>1. /\ st.sub \in Subscription /\ Sound(st.book) /\ now \in Int
        /\ InStep(st.sub)
    BY RecentInt, FoundSound DEF Account, BillingInv
  <2>2. /\ sub' = st.sub /\ book' = st.book /\ clock' = clock
        /\ checkouts' = [checkouts EXCEPT ![c] =
                            [status |-> "pending", item |-> item, expires |-> now + CheckoutTTL]]
    BY <1>11 DEF StartCheckout
  <2> HIDE DEF st
  <2>3. CheckoutTTL \in Int
    BY DEF BillingAssumption
  <2>4. checkouts' \in [Checkouts -> Session]
    BY <2>1, <2>2, <2>3 DEF BillingInv, Session, Opened
  <2> QED BY <2>1, <2>2, <2>4 DEF BillingInv
<1>12. ASSUME NEW cancel \in BOOLEAN, SetCancel(cancel) PROVE BillingInv'
  <2>1. /\ sub # None /\ sub' = [sub EXCEPT !.cancelAtEnd = cancel]
        /\ book' = book /\ clock' = clock /\ checkouts' = checkouts
    BY <1>12 DEF SetCancel
  <2>2. sub \in Subscription
    BY <2>1 DEF BillingInv
  <2>3. sub' \in Subscription
    BY <2>1, <2>2 DEF Subscription
  <2>4. /\ sub'.plan = sub.plan /\ sub'.nextGrant = sub.nextGrant
        /\ sub'.periodEnd = sub.periodEnd
    BY <2>1, <2>2 DEF Subscription
  <2>5. InStep(sub')
    BY <2>1, <2>4 DEF BillingInv, InStep
  <2> QED BY <2>1, <2>3, <2>5 DEF BillingInv
<1>13. CASE UNCHANGED vars
  BY <1>13 DEF vars, BillingInv
<1> QED BY <1>1, <1>2, <1>3, <1>4, <1>5, <1>6, <1>7, <1>8, <1>9, <1>10, <1>11, <1>12, <1>13 DEF Next

(* Whatever is done to an account and however late: its subscription, book *)
(* and checkouts are of their types, and its book is good.                 *)
THEOREM BillingInductive == Spec => []BillingInv
<1>1. Init => BillingInv
  BY EmptyBookGood, EmptyBookSettled DEF Sound, Init, BillingInv, Session, Opened, InStep
<1>2. BillingInv /\ [Next]_vars => BillingInv'
  BY BillingStep, BillingAssumption, CalendarAssumption
<1> QED BY <1>1, <1>2, PTL DEF Spec

(* addBucket, moveTokens: every bucket holds what the ledger says, never   *)
(* less than nothing and never more than it was made with.                 *)
THEOREM BooksAlwaysBalance == Spec => []BooksBalance
<1>1. BillingInv => BooksBalance
  <2> SUFFICES ASSUME BillingInv PROVE BooksBalance
    OBVIOUS
  <2>1. LedgerExplainsBuckets
    BY DEF BillingInv, Sound, Good, Explained, LedgerExplainsBuckets, RowsOf
  <2>2. ASSUME NEW i \in Ids(book) PROVE book.buckets[i].left \in 0 .. book.buckets[i].amount
    <3>1. Good(book)
      BY DEF BillingInv, Sound
    <3>2. /\ IsFiniteSet(Open(book, i)) /\ Amount(Open(book, i)) \in Int
          /\ \A e \in Open(book, i) : e.delta \in Int /\ e.delta <= 0
      <4>1. IsFiniteSet(Open(book, i)) /\ Amount(Open(book, i)) \in Int
        BY <3>1, OpenSums DEF Good
      <4>2. \A e \in Open(book, i) : e \in book.ledger /\ e.key[1] = "debit"
        BY DEF Open, RowsOf
      <4> QED BY <3>1, <4>1, <4>2 DEF Good, DebitsOwn, BookTypes
    <3>3. Amount(Open(book, i)) <= 0
      BY <3>2, AmountNegative
    <3>4. /\ book.buckets[i].left >= 0
          /\ book.buckets[i].left - Amount(Open(book, i)) <= book.buckets[i].amount
      BY <3>1 DEF Good, Covered
    <3> QED BY <3>1, <3>2, <3>3, <3>4, BucketTypes
  <2> QED BY <2>1, <2>2 DEF BooksBalance, BucketsWithinBounds
<1> QED BY <1>1, BillingInductive, PTL

(* Charge, RefundJob, ChargeAI: every job of a scan is paid in full or none *)
(* is, a job gets back exactly what was taken for it or nothing, and a     *)
(* command is paid once and in full.                                       *)
THEOREM PaidAndRefunded == Spec => []PaidAndRefundedInFull
<1>1. BillingInv => PaidAndRefundedInFull
  <2> SUFFICES ASSUME BillingInv PROVE PaidAndRefundedInFull
    OBVIOUS
  <2>1. Good(book) /\ Settled(book)
    BY DEF BillingInv, Sound
  <2>2. PaidInFullOrNotAtAll
    BY <2>1 DEF Settled, AllPaid, NonePaid, PaidInFullOrNotAtAll
  <2>3. ASSUME NEW j \in Jobs
        PROVE  Amount(Of(book, "refund", j)) \in {0, -Amount(Of(book, "debit", j))}
    <3> DEFINE D == Of(book, "debit", j)
    <3>1. D = Debits(book, j)
      BY <2>1, DebitsOf
    <3>2. /\ IsFiniteSet(D) /\ \A d \in D : d.delta \in Int
          /\ \A d, e \in D : d.bucket = e.bucket => d = e
      <4> HIDE DEF D
      <4> QED BY <2>1, <3>1, DebitsOf
    <3> HIDE DEF D
    <3>3. Amount({Refund(e, j) : e \in D}) = -Amount(D)
      BY <3>2, MirrorAmount
    <3>4. CASE Of(book, "refund", j) = {}
      BY <3>4, AmountEmpty, Zenon
    <3>5. CASE Of(book, "refund", j) = {Refund(e, j) : e \in D}
      BY <3>3, <3>5, Zenon DEF D
    <3>6. Of(book, "refund", j) \in {{}, {Refund(e, j) : e \in D}}
      BY <2>1, Zenon DEF Settled, Mirrored, D
    <3> QED BY <3>4, <3>5, <3>6, Zenon
  <2>4. ASSUME NEW q \in Questions PROVE Amount(Of(book, "ai", q)) \in {0, -AIPrice}
    <3>1. CASE Of(book, "ai", q) = {}
      BY <3>1, AmountEmpty, Zenon
    <3>2. CASE Amount(Of(book, "ai", q)) = -AIPrice
      BY <3>2
    <3> QED BY <2>1, <3>1, <3>2 DEF Settled, Answered
  <2> QED BY <2>2, <2>3, <2>4 DEF PaidAndRefundedInFull, RefundedInFullOnce, CommandPaidOnce
<1> QED BY <1>1, BillingInductive, PTL

(* DueOrgs, renewLocked: a plan whose period ended a month ago is on the   *)
(* list, unless an operator moved its dates, whatever the months are.      *)
THEOREM LapsedIsDue == Spec => []LapsedPlanIsDue
<1>1. BillingInv => LapsedPlanIsDue
  <2> SUFFICES ASSUME BillingInv, sub # None, sub.plan # "free",
                      sub.periodEnd + LongestMonth <= clock
               PROVE  sub.nextGrant <= clock
    BY DEF LapsedPlanIsDue, Due
  <2>1. sub.nextGrant <= sub.periodEnd + LongestMonth
    BY DEF BillingInv, InStep
  <2>2. sub.nextGrant \in Int /\ sub.periodEnd \in Int
    BY Dated DEF BillingInv
  <2>3. LongestMonth \in Int /\ clock \in Int
    BY CalendarAssumption DEF CalendarAssumption, BillingInv
  <2> QED BY <2>1, <2>2, <2>3
<1> QED BY <1>1, BillingInductive, PTL

(* ConfirmDemo, GetCheckout: a checkout that is paid, failed or expired    *)
(* stays what it is.                                                       *)
THEOREM ClosedStaysClosed == Spec => ClosedCheckoutStaysClosed
<1> DEFINE Kept == \A c \in Checkouts :
                      checkouts[c].status \in {"paid", "failed", "expired"} =>
                        checkouts'[c] = checkouts[c]
<1>1. BillingInv /\ [Next]_vars => [Kept]_vars
  <2> SUFFICES ASSUME BillingInv, Next, NEW c \in Checkouts,
                      checkouts[c].status \in {"paid", "failed", "expired"}
               PROVE  checkouts'[c] = checkouts[c]
    OBVIOUS
  <2>1. CASE checkouts' = checkouts
    BY <2>1
  <2>2. ASSUME NEW d \in Checkouts, NEW now,
               \/ GetCheckout(d, now) \/ Decline(d, now) \/ Confirm(d, now)
               \/ \E item \in Items : StartCheckout(d, item, now)
        PROVE  checkouts'[c] = checkouts[c]
    <3>1. d # c
      BY <2>2 DEF GetCheckout, Decline, Confirm, Payable, StartCheckout
    <3>2. \E e : checkouts' = [checkouts EXCEPT ![d] = e]
      BY <2>2 DEF GetCheckout, Decline, Confirm, StartCheckout
    <3> QED BY <3>1, <3>2 DEF BillingInv
  <2> QED BY <2>1, <2>2 DEF Next, Tick, Read, RenewDue, AdminAdvanceCycle, Charge, RefundJob,
             ChargeAI, AdminAdjust, SetCancel
<1> QED BY <1>1, BillingInductive, PTL DEF Spec, ClosedCheckoutStaysClosed

-----------------------------------------------------------------------------
(***************************************************************************)
(* Months of a calendar whose months are not alike: every instant is in    *)
(* one, MonthOf finds it, and years repeat.                                *)
(***************************************************************************)

(* Quotient and remainder are the only such numbers.                       *)
LEMMA Quotient ==
  ASSUME NEW N \in Nat \ {0}, NEW q \in Int, NEW r \in 0 .. N - 1, NEW l, l = N * q + r
  PROVE  l \div N = q /\ l % N = r
<1> DEFINE d == l \div N
           p == l % N
           k == q - d
<1>1. l \in Int
  OBVIOUS
<1>2. d \in Int /\ p \in 0 .. N - 1
  BY <1>1, Division
<1>3. p = l - N * d
  BY <1>1, SMTT(60)
<1> HIDE DEF d, p
<1>4. k \in Int /\ N * k = p - r /\ N * (k - 1) = N * k - N /\ N * (k + 1) = N * k + N
  <2>1. N * (q - d) = N * q - N * d
    BY <1>2
  <2>2. N * q \in Int /\ N * d \in Int
    BY <1>2
  <2>3. \A i \in Int : N * (i - 1) = N * i - N /\ N * (i + 1) = N * i + N
    OBVIOUS
  <2>4. k \in Int
    BY <1>2
  <2> QED BY <1>2, <1>3, <2>1, <2>2, <2>3, <2>4
<1>5. q = d + k
  BY <1>2
<1> HIDE DEF k
<1>6. ~(k >= 1)
  <2> SUFFICES ASSUME k - 1 >= 0 PROVE FALSE
    BY <1>4
  <2>1. \A i \in Nat : N * i >= 0
    OBVIOUS
  <2>2. N * (k - 1) >= 0
    BY <1>4, <2>1
  <2> QED BY <1>2, <1>4, <2>2
<1>7. ~(k <= -1)
  <2> SUFFICES ASSUME 0 - (k + 1) >= 0 PROVE FALSE
    BY <1>4
  <2>1. \A i \in Int : 0 - i >= 0 => N * i <= 0
    OBVIOUS
  <2>2. N * (k + 1) <= 0
    BY <1>4, <2>1
  <2> QED BY <1>2, <1>4, <2>2
<1>8. k = 0
  BY <1>4, <1>6, <1>7
<1>9. d = q /\ p = r
  <2>1. N * k = 0
    BY <1>8
  <2> QED BY <1>2, <1>4, <1>5, <1>8, <2>1
<1> QED BY <1>9 DEF d, p

(* Years are alike.                                                        *)
LEMMA YearsRepeat ==
  ASSUME CalendarAssumption, NEW m \in Int
  PROVE  /\ StartOf(m + InYear) = StartOf(m) + YearLength
         /\ InYear \in Nat \ {0}
<1> DEFINE N == InYear
           q == m \div N
           r == m % N
           l == m + N
<1>1. /\ N \in Nat \ {0} /\ DOMAIN MonthStarts = 1 .. N /\ YearLength \in Int
      /\ \A k \in 1 .. N : MonthStarts[k] \in Int
  BY DEF CalendarAssumption, InYear
<1> HIDE DEF N
<1>2. q \in Int /\ r \in 0 .. N - 1 /\ m = N * q + r
  BY <1>1, SMTT(60)
<1> HIDE DEF q, r
<1>3. l \in Int /\ l = N * (q + 1) + r
  BY <1>1, <1>2
<1> HIDE DEF l
<1>4. l \div N = q + 1 /\ l % N = r
  <2> DEFINE d == q + 1
  <2>1. d \in Int /\ l = N * d + r
    BY <1>2, <1>3
  <2> HIDE DEF d
  <2>2. l \div N = d /\ l % N = r
    BY <1>1, <1>2, <2>1, Quotient
  <2> QED BY <2>2 DEF d
<1> DEFINE w == MonthStarts[r + 1]
<1>5. StartOf(m) = YearLength * q + w
  BY DEF StartOf, q, r, N
<1>6. StartOf(l) = YearLength * (q + 1) + w
  BY <1>4, Zenon DEF StartOf, N
<1>7. w \in Int
  BY <1>1, <1>2
<1> HIDE DEF w
<1>8. StartOf(l) = StartOf(m) + YearLength
  BY <1>1, <1>2, <1>5, <1>6, <1>7
<1> QED BY <1>1, <1>8 DEF l, N

(* A later month starts after the one before it has.                       *)
LEMMA MonthsOrdered ==
  ASSUME CalendarAssumption, NEW m \in Int, NEW l \in Int, m < l
  PROVE  StartOf(m + 1) <= StartOf(l) /\ StartOf(m) < StartOf(l)
<1> DEFINE n == l - (m + 1)
           k == m + 1
<1>1. n \in Nat /\ k \in Int /\ k + n = l
  OBVIOUS
<1> HIDE DEF n
<1>2. StartOf(k) <= StartOf(l)
  <2> HIDE DEF k
  <2>1. StartOf(k + n) >= StartOf(k) /\ StartOf(k + n) \in Int
    BY <1>1, MonthsPass
  <2>2. StartOf(k) \in Int
    BY <1>1, MonthsFollow DEF Follows
  <2> QED BY <1>1, <2>1, <2>2
<1>3. Follows(StartOf(m), StartOf(k)) /\ StartOf(l) \in Int /\ ShortestMonth \in Nat \ {0}
  BY MonthsFollow DEF CalendarAssumption, Follows
<1> DEFINE u == StartOf(m)  v == StartOf(k)  w == StartOf(l)
<1>4. u < w
  <2>1. v <= w /\ Follows(u, v) /\ w \in Int
    BY <1>2, <1>3
  <2> HIDE DEF u, v, w
  <2> QED BY <2>1, <1>3 DEF Follows
<1> QED BY <1>2, <1>4

(* The month an instant is in                                              *)
Spans(m, t) == StartOf(m) <= t /\ t < StartOf(m + 1)

(* No instant is in two months.                                            *)
LEMMA OneMonth ==
  ASSUME CalendarAssumption, NEW t \in Int, NEW m \in Int, NEW l \in Int,
         Spans(m, t), Spans(l, t)
  PROVE  m = l
<1>1. StartOf(m) \in Int /\ StartOf(l) \in Int /\ StartOf(m + 1) \in Int /\ StartOf(l + 1) \in Int
  BY MonthsFollow DEF Follows
<1>2. CASE m < l
  <2>1. StartOf(m + 1) <= StartOf(l)
    BY <1>2, MonthsOrdered
  <2> QED BY <1>1, <2>1 DEF Spans
<1>3. CASE l < m
  <2>1. StartOf(l + 1) <= StartOf(m)
    BY <1>3, MonthsOrdered
  <2> QED BY <1>1, <2>1 DEF Spans
<1> QED BY <1>2, <1>3

(* MonthOf is that month.                                                  *)
LEMMA InMonth ==
  ASSUME CalendarAssumption, NEW t \in Int
  PROVE  MonthOf(t) \in Int /\ Spans(MonthOf(t), t)
<1> DEFINE N == InYear
           Y == YearLength
           q == t \div Y
           r == t % Y
           past == {k \in 1 .. N : MonthStarts[k] <= r}
           T == {k \in 1 .. N : MonthStarts[k] > r}
<1>1. /\ N \in Nat \ {0} /\ DOMAIN MonthStarts = 1 .. N /\ Y \in Nat \ {0}
      /\ MonthStarts[1] = 0 /\ \A k \in 1 .. N : MonthStarts[k] \in 0 .. Y - 1
  BY DEF CalendarAssumption, InYear
<1> HIDE DEF N, Y
<1>2. q \in Int /\ r \in 0 .. Y - 1 /\ t = Y * q + r
  BY <1>1, SMTT(60)
<1> HIDE DEF q, r
<1>3. \A k \in 1 .. N : StartOf(k - 1) = MonthStarts[k]
  <2> SUFFICES ASSUME NEW k \in 1 .. N PROVE StartOf(k - 1) = MonthStarts[k]
    OBVIOUS
  <2> DEFINE a == k - 1
  <2>1. a \in 0 .. N - 1 /\ a + 1 = k
    BY <1>1
  <2> HIDE DEF a
  <2>2. a \div N = 0 /\ a % N = a
    <3> DEFINE z == 0
               l == a
    <3>1. z \in Int /\ l = N * z + a
      BY <1>1, <2>1
    <3> HIDE DEF z, l
    <3>2. l \div N = z /\ l % N = a
      BY <1>1, <2>1, <3>1, Quotient
    <3> QED BY <3>2 DEF z, l
  <2>3. StartOf(a) = Y * 0 + MonthStarts[a + 1]
    BY <2>2, Zenon DEF StartOf, N, Y
  <2> DEFINE w == MonthStarts[k]
  <2>4. w \in Int /\ StartOf(a) = Y * 0 + w
    BY <1>1, <2>1, <2>3
  <2>5. StartOf(a) = w
    <3> HIDE DEF w
    <3>1. Y * 0 = 0
      BY <1>1
    <3> QED BY <2>4, <3>1
  <2> QED BY <2>5 DEF a
<1>4. \A k, l \in 1 .. N : k < l => MonthStarts[k] < MonthStarts[l]
  <2> SUFFICES ASSUME NEW k \in 1 .. N, NEW l \in 1 .. N, k < l
               PROVE  MonthStarts[k] < MonthStarts[l]
    OBVIOUS
  <2> DEFINE a == k - 1  b == l - 1
  <2>1. a \in Int /\ b \in Int /\ a < b
    OBVIOUS
  <2>2. StartOf(a) = MonthStarts[k] /\ StartOf(b) = MonthStarts[l]
    BY <1>3
  <2> HIDE DEF a, b
  <2>3. StartOf(a) < StartOf(b)
    BY <2>1, MonthsOrdered
  <2> QED BY <2>2, <2>3
<1>5. PICK j \in 1 .. N : past = 1 .. j /\ MonthStarts[j] <= r
                          /\ (j # N => MonthStarts[j + 1] > r)
  <2>1. CASE T = {}
    <3>1. past = 1 .. N /\ N \in 1 .. N
      BY <1>1, <1>2, <2>1
    <3>2. MonthStarts[N] <= r
      BY <3>1
    <3> QED BY <3>1, <3>2
  <2>2. CASE T # {}
    <3>1. PICK x \in T : \A y \in T : x <= y
      <4>1. T \subseteq Nat
        OBVIOUS
      <4> HIDE DEF T
      <4> QED BY <2>2, <4>1, Least
    <3>2. x \in 1 .. N /\ MonthStarts[x] > r /\ x # 1
      BY <1>1, <1>2, <3>1
    <3> DEFINE j == x - 1
    <3>3. j \in 1 .. N /\ j + 1 = x /\ j # N
      BY <1>1, <3>2
    <3>4. \A k \in 1 .. j : MonthStarts[k] <= r
      <4> SUFFICES ASSUME NEW k \in 1 .. j PROVE MonthStarts[k] <= r
        OBVIOUS
      <4>1. k \in 1 .. N /\ ~(x <= k)
        BY <1>1, <3>2, <3>3
      <4>2. k \notin T
        <5> HIDE DEF T
        <5> QED BY <3>1, <4>1
      <4> QED BY <1>1, <1>2, <4>1, <4>2
    <3>5. \A k \in 1 .. N : MonthStarts[k] <= r => k \in 1 .. j
      <4> SUFFICES ASSUME NEW k \in 1 .. N, k \notin 1 .. j PROVE ~(MonthStarts[k] <= r)
        OBVIOUS
      <4>1. x <= k
        BY <3>2
      <4>2. x # k => MonthStarts[x] < MonthStarts[k]
        BY <1>4, <3>2, <4>1
      <4>3. MonthStarts[x] \in Int /\ MonthStarts[k] \in Int /\ r \in Int
        BY <1>1, <1>2, <3>2
      <4> QED BY <3>2, <4>2, <4>3
    <3>6. past = 1 .. j
      <4> HIDE DEF j
      <4>1. \A k \in 1 .. j : k \in 1 .. N
        BY <1>1, <3>3
      <4> QED BY <3>4, <3>5, <4>1
    <3>7. MonthStarts[j] <= r /\ MonthStarts[j + 1] > r
      <4>1. j \in 1 .. j
        BY <3>3
      <4>2. MonthStarts[j] <= r
        <5> HIDE DEF j
        <5> QED BY <4>1, <3>4
      <4>3. MonthStarts[j + 1] > r
        <5> HIDE DEF j
        <5> QED BY <3>2, <3>3
      <4> QED BY <4>2, <4>3
    <3> HIDE DEF j, past
    <3> QED BY <3>3, <3>6, <3>7
  <2> QED BY <2>1, <2>2
<1> DEFINE n == j - 1
           m == N * q + n
<1>6. MonthOf(t) = m
  <2>1. Cardinality(past) = j
    <3>1. Cardinality(1 .. j) = j
      BY FS_Interval
    <3> QED BY <1>5, <3>1, Zenon
  <2>2. past = {k \in DOMAIN MonthStarts : MonthStarts[k] <= (t % YearLength)}
    BY <1>1 DEF r, Y
  <2> HIDE DEF past
  <2>3. MonthOf(t) = N * q + Cardinality(past) - 1
    BY <2>2, Zenon DEF MonthOf, N, q, Y
  <2>4. N * q \in Int
    BY <1>1, <1>2
  <2> DEFINE y == N * q
  <2> HIDE DEF y
  <2>5. y + j - 1 = y + (j - 1)
    BY <2>4 DEF y
  <2> QED BY <2>1, <2>3, <2>5, Zenon DEF y
<1>7. n \in 0 .. N - 1 /\ m \in Int
  BY <1>1, <1>2, <1>5
<1> HIDE DEF n
<1>8. StartOf(m) = Y * q + MonthStarts[j]
  <2>1. m \div N = q /\ m % N = n
    BY <1>1, <1>2, <1>7, Quotient DEF m
  <2>2. n + 1 = j
    BY <1>5 DEF n
  <2> QED BY <2>1, <2>2, Zenon DEF StartOf, N, Y
<1>9. t < StartOf(m + 1)
  <2> DEFINE y == Y * q
  <2>0. y \in Int /\ t = y + r /\ Y * (q + 1) = y + Y
    BY <1>1, <1>2
  <2>1. CASE j # N
    <3> DEFINE i == n + 1
               l == N * q + i
    <3>1. i \in 0 .. N - 1 /\ l = m + 1 /\ i = j
      BY <1>1, <1>2, <1>5, <1>7, <2>1 DEF n
    <3> HIDE DEF i
    <3>2. l \div N = q /\ l % N = i
      BY <1>1, <1>2, <3>1, Quotient
    <3>3. StartOf(l) = y + MonthStarts[j + 1]
      BY <3>1, <3>2, Zenon DEF StartOf, N, Y
    <3>4. MonthStarts[j + 1] \in Int /\ MonthStarts[j + 1] > r
      BY <1>1, <1>5, <2>1
    <3> HIDE DEF l, y, m
    <3> QED BY <1>2, <2>0, <3>1, <3>3, <3>4
  <2>2. CASE j = N
    <3> DEFINE l == N * (q + 1) + 0
    <3>1. l = m + 1 /\ l \in Int /\ 0 \in 0 .. N - 1 /\ q + 1 \in Int
      BY <1>1, <1>2, <1>5, <1>7, <2>2 DEF n
    <3>2. l \div N = q + 1 /\ l % N = 0
      <4> DEFINE d == q + 1
                 z == 0
      <4>1. d \in Int /\ z \in 0 .. N - 1 /\ l = N * d + z /\ l \in Int
        BY <3>1
      <4> HIDE DEF d, z, l
      <4>2. l \div N = d /\ l % N = z
        BY <1>1, <4>1, Quotient
      <4> QED BY <4>2 DEF d, z
    <3>3. StartOf(l) = Y * (q + 1) + MonthStarts[0 + 1]
      BY <3>2, Zenon DEF StartOf, N, Y
    <3>4. MonthStarts[0 + 1] = 0
      BY <1>1
    <3> HIDE DEF l, y, m
    <3> QED BY <1>1, <1>2, <2>0, <3>1, <3>3, <3>4
  <2> QED BY <2>1, <2>2
<1>10. StartOf(m) <= t
  <2> DEFINE y == Y * q
             w == MonthStarts[j]
  <2>1. w \in Int /\ w <= r /\ y \in Int /\ t = y + r /\ StartOf(m) = y + w
    BY <1>1, <1>2, <1>5, <1>8
  <2> HIDE DEF y, w, m
  <2> QED BY <1>2, <2>1
<1> HIDE DEF m
<1> QED BY <1>6, <1>7, <1>9, <1>10 DEF Spans

-----------------------------------------------------------------------------
(***************************************************************************)
(* How many grants a schedule has left to make. A month has fewer days than *)
(* the next, or more, and addMonths lets a day that a month does not have  *)
(* count on into the next: with every grant there is one less all the same, *)
(* and a year holds no more than it has months.                            *)
(***************************************************************************)

(* How far into its month an instant is, and how many grants a schedule    *)
(* makes that is at g now and stops at e: one a month, each on the day of  *)
(* the last.                                                               *)
Into(t) == t - StartOf(MonthOf(t))
GrantsUntil(g, e) == MonthOf(e) - MonthOf(g) + (IF Into(g) >= Into(e) THEN 0 ELSE 1)

(* These are numbers, and so is the start of a month.                      *)
LEMMA Placed ==
  ASSUME CalendarAssumption, NEW t \in Int
  PROVE  /\ MonthOf(t) \in Int /\ StartOf(MonthOf(t)) \in Int /\ Into(t) \in Nat
         /\ t = StartOf(MonthOf(t)) + Into(t) /\ t < StartOf(MonthOf(t) + 1)
         /\ Follows(StartOf(MonthOf(t)), StartOf(MonthOf(t) + 1))
<1> DEFINE m == MonthOf(t)
<1>1. m \in Int /\ Spans(m, t)
  BY InMonth
<1> HIDE DEF m
<1>2. Follows(StartOf(m), StartOf(m + 1))
  BY <1>1, MonthsFollow
<1>3. StartOf(m) \in Int /\ StartOf(m) <= t /\ t < StartOf(m + 1)
  BY <1>1, <1>2 DEF Spans, Follows
<1>4. Into(t) = t - StartOf(m)
  BY DEF Into, m
<1> DEFINE u == StartOf(m)
<1> HIDE DEF u
<1>5. t - u \in Nat /\ t = u + (t - u) /\ u \in Int
  BY <1>3 DEF u
<1> QED BY <1>1, <1>2, <1>3, <1>4, <1>5 DEF m, u

(* What is so many instants into a month, and not after its end, is in it. *)
LEMMA Located ==
  ASSUME CalendarAssumption, NEW m \in Int, NEW d \in Nat, NEW t, t = StartOf(m) + d,
         t < StartOf(m + 1)
  PROVE  MonthOf(t) = m /\ Into(t) = d
<1> DEFINE u == StartOf(m)
<1>1. u \in Int
  BY MonthsFollow DEF Follows
<1>2. t \in Int /\ u <= t /\ t - u = d
  <2> HIDE DEF u
  <2>1. t = u + d
    BY DEF u
  <2>2. t \in Int
    BY <1>1, <2>1
  <2> QED BY <1>1, <2>1, <2>2
<1>3. Spans(m, t)
  BY <1>2 DEF Spans
<1>4. MonthOf(t) \in Int /\ Spans(MonthOf(t), t)
  BY <1>2, InMonth
<1>5. MonthOf(t) = m
  BY <1>2, <1>3, <1>4, OneMonth
<1> QED BY <1>2, <1>5 DEF Into

(* A later instant is not in an earlier month, nor further back in its own. *)
LEMMA MonthsGoOn ==
  ASSUME CalendarAssumption, NEW s \in Int, NEW t \in Int, s <= t
  PROVE  /\ MonthOf(s) <= MonthOf(t)
         /\ MonthOf(s) = MonthOf(t) => Into(s) <= Into(t)
         /\ MonthOf(s) = MonthOf(t) /\ s < t => Into(s) < Into(t)
<1> DEFINE m == MonthOf(s)
           l == MonthOf(t)
           u == StartOf(m)
           v == StartOf(l)
           w == StartOf(l + 1)
<1>1. /\ m \in Int /\ u \in Int /\ Into(s) \in Nat /\ s = u + Into(s)
      /\ l \in Int /\ v \in Int /\ Into(t) \in Nat /\ t = v + Into(t) /\ t < w /\ w \in Int
  BY Placed DEF Follows
<1>2. l < m => w <= u
  <2> HIDE DEF l, m
  <2> QED BY <1>1, MonthsOrdered
<1>3. m = l => u = v
  OBVIOUS
<1> HIDE DEF u, v, w
<1>4. ~(l < m)
  BY <1>1, <1>2
<1>5. m <= l /\ (m = l => Into(s) <= Into(t)) /\ (m = l /\ s < t => Into(s) < Into(t))
  BY <1>1, <1>3, <1>4
<1> QED BY <1>5 DEF m, l

(* addMonths: a month later is later.                                      *)
LEMMA MonthAhead ==
  ASSUME CalendarAssumption, NEW t \in Int
  PROVE  AddMonths(t, 1) \in Int /\ t < AddMonths(t, 1)
<1> DEFINE m == MonthOf(t)
           u == StartOf(m)
           v == StartOf(m + 1)
<1>1. Follows(u, v)
  BY Placed
<1>2. AddMonths(t, 1) = t + v - u
  BY DEF AddMonths
<1> HIDE DEF u, v
<1> QED BY <1>1, <1>2 DEF Follows, CalendarAssumption

(* A year later is so many months later ...                                *)
LEMMA YearAhead ==
  ASSUME CalendarAssumption, NEW t \in Int
  PROVE  /\ AddMonths(t, InYear) = t + YearLength /\ YearLength \in Nat \ {0}
         /\ MonthOf(t + YearLength) = MonthOf(t) + InYear /\ Into(t + YearLength) = Into(t)
<1> DEFINE m == MonthOf(t)
           u == StartOf(m)
           v == StartOf(m + 1)
           d == Into(t)
           l == m + InYear
           s == t + YearLength
<1>1. /\ m \in Int /\ u \in Int /\ d \in Nat /\ t = u + d /\ t < v /\ v \in Int
      /\ YearLength \in Nat \ {0}
  BY Placed DEF Follows, CalendarAssumption
<1>2. AddMonths(t, InYear) = t + StartOf(l) - u
  BY DEF AddMonths
<1> HIDE DEF m, d
<1>3. StartOf(l) = u + YearLength /\ InYear \in Nat \ {0}
  BY <1>1, YearsRepeat
<1>4. l \in Int /\ (m + 1) + InYear = l + 1 /\ m + 1 \in Int
  BY <1>1, <1>3
<1>5. StartOf(l + 1) = v + YearLength
  BY <1>4, YearsRepeat
<1> HIDE DEF l
<1>6. s = StartOf(l) + d /\ s < StartOf(l + 1)
  <2> HIDE DEF u, v
  <2> QED BY <1>1, <1>3, <1>5
<1>7. MonthOf(s) = l /\ Into(s) = d
  <2> HIDE DEF s
  <2> QED BY <1>1, <1>4, <1>6, Located
<1>8. t + StartOf(l) - u = s
  <2> HIDE DEF u, v
  <2> QED BY <1>1, <1>3
<1> QED BY <1>1, <1>2, <1>7, <1>8 DEF m, d, l

(* ... and that many grants are made until then.                           *)
LEMMA GrantsOfAYear ==
  ASSUME CalendarAssumption, NEW g \in Int, NEW e \in Int, e - g <= YearLength
  PROVE  GrantsUntil(g, e) \in Int /\ GrantsUntil(g, e) <= InYear
<1> DEFINE f == g + YearLength
           m == MonthOf(g)
           k == MonthOf(e)
           l == MonthOf(f)
<1>1. f \in Int /\ e <= f /\ l = m + InYear /\ Into(f) = Into(g)
  <2>1. YearLength \in Int
    BY DEF CalendarAssumption
  <2>2. f \in Int /\ e <= f
    BY <2>1
  <2>3. l = m + InYear /\ Into(f) = Into(g)
    BY YearAhead
  <2> QED BY <2>2, <2>3
<1>2. /\ m \in Int /\ Into(g) \in Nat /\ k \in Int /\ Into(e) \in Nat /\ InYear \in Nat
      /\ l \in Int
  <2> HIDE DEF f
  <2> QED BY <1>1, Placed, YearsRepeat
<1>3. k <= l /\ (k = l => Into(e) <= Into(f))
  <2> HIDE DEF f
  <2> QED BY <1>1, MonthsGoOn
<1>4. GrantsUntil(g, e) = k - m + (IF Into(g) >= Into(e) THEN 0 ELSE 1)
  BY DEF GrantsUntil
<1> HIDE DEF k, l, m, f
<1> QED BY <1>1, <1>2, <1>3, <1>4

(* No grant is left at the end, at least one before it.                    *)
LEMMA GrantsLeft ==
  ASSUME CalendarAssumption, NEW g \in Int, NEW e \in Int
  PROVE  /\ GrantsUntil(g, e) \in Int /\ GrantsUntil(e, e) = 0
         /\ g < e => GrantsUntil(g, e) >= 1
<1> DEFINE m == MonthOf(g)
           k == MonthOf(e)
<1>1. m \in Int /\ Into(g) \in Nat /\ k \in Int /\ Into(e) \in Nat
  BY Placed
<1>2. g < e => m <= k /\ (m = k => Into(g) < Into(e))
  BY MonthsGoOn
<1>3. /\ GrantsUntil(g, e) = k - m + (IF Into(g) >= Into(e) THEN 0 ELSE 1)
      /\ GrantsUntil(e, e) = k - k + (IF Into(e) >= Into(e) THEN 0 ELSE 1)
  BY DEF GrantsUntil
<1> HIDE DEF k, m
<1> QED BY <1>1, <1>2, <1>3

(* addMonths: with every grant made there is one less to make, also where  *)
(* a day that the month does not have counts on into the next.             *)
LEMMA OneGrantLess ==
  ASSUME CalendarAssumption, NEW g \in Int, NEW e \in Int
  PROVE  GrantsUntil(AddMonths(g, 1), e) <= GrantsUntil(g, e) - 1
<1> DEFINE h == AddMonths(g, 1)
           m == MonthOf(g)
           l == m + 1
           j == m + 2
           k == MonthOf(e)
           d == Into(g)
           u == StartOf(m)
           v == StartOf(l)
           w == StartOf(j)
           x == StartOf(j + 1)
<1>1. m \in Int /\ u \in Int /\ d \in Nat /\ g = u + d /\ g < v /\ k \in Int /\ Into(e) \in Nat
  BY Placed
<1>2. l \in Int /\ j \in Int /\ l + 1 = j
  <2> HIDE DEF m
  <2> QED BY <1>1
<1>3. Follows(u, v) /\ Follows(v, w) /\ Follows(w, x)
  <2>1. Follows(u, v)
    BY <1>1, MonthsFollow
  <2>2. Follows(v, w)
    <3> HIDE DEF l, j
    <3>1. Follows(StartOf(l), StartOf(l + 1))
      BY <1>2, MonthsFollow
    <3> QED BY <1>2, <3>1, Zenon
  <2>3. Follows(w, x)
    <3> HIDE DEF j
    <3> QED BY <1>2, MonthsFollow
  <2> QED BY <2>1, <2>2, <2>3
<1>4. h = g + v - u
  BY DEF AddMonths
<1>5. /\ GrantsUntil(g, e) = k - m + (IF d >= Into(e) THEN 0 ELSE 1)
      /\ GrantsUntil(h, e) = k - MonthOf(h) + (IF Into(h) >= Into(e) THEN 0 ELSE 1)
  BY DEF GrantsUntil
<1>6. h = v + d /\ h \in Int
  <2> HIDE DEF h, u, v, d
  <2> QED BY <1>1, <1>3, <1>4 DEF Follows
<1>7. ASSUME h < w PROVE GrantsUntil(h, e) <= GrantsUntil(g, e) - 1
  <2>1. MonthOf(h) = l /\ Into(h) = d
    <3> HIDE DEF h, l, d, j
    <3> QED BY <1>1, <1>2, <1>6, <1>7, Located
  <2> HIDE DEF h, m, d, k
  <2> QED BY <1>1, <1>5, <2>1
<1>8. ASSUME ~(h < w) PROVE GrantsUntil(h, e) <= GrantsUntil(g, e) - 1
  <2> DEFINE c == h - w
  <2>1. c \in Nat /\ h = w + c /\ h < x
    <3> HIDE DEF h, u, v, w, x, d
    <3> QED BY <1>1, <1>3, <1>6, <1>8 DEF Follows, CalendarAssumption
  <2>2. MonthOf(h) = j
    <3> HIDE DEF h, j, c
    <3> QED BY <1>2, <2>1, Located
  <2>3. Into(h) \in Nat
    BY <1>6, Placed
  <2> HIDE DEF h, m, d, k
  <2>4. m \in Int /\ k \in Int /\ MonthOf(h) = m + 2
    BY <1>1, <2>2
  <2>5. GrantsUntil(h, e) <= k - m - 1
    BY <1>5, <2>4
  <2>6. GrantsUntil(g, e) >= k - m
    BY <1>5, <2>4
  <2>7. GrantsUntil(h, e) \in Int /\ GrantsUntil(g, e) \in Int
    BY <1>5, <2>4
  <2> QED BY <2>4, <2>5, <2>6, <2>7
<1> QED BY <1>7, <1>8

-----------------------------------------------------------------------------
(***************************************************************************)
(* Nobody rides free. The grants made cannot be counted alone: a paid plan *)
(* has more to come. What a step preserves is that the grants made and the *)
(* grants left on the schedule stay within the months paid for, with a year *)
(* for every cycle an operator has advanced.                               *)
(***************************************************************************)

(* The grants of paid plans                                                *)
PaidGrants(b) == {i \in Ids(b) : /\ b.buckets[i].source = "plan_grant"
                                 /\ b.buckets[i].amount > Grant["free"]}
Granted(b) == Cardinality(PaidGrants(b))

(* There are finitely many, in a good book.                                *)
LEMMA GrantedNat ==
  ASSUME NEW b, Good(b)
  PROVE  IsFiniteSet(PaidGrants(b)) /\ Granted(b) \in Nat
<1>1. b.buckets \in Seq(Bucket)
  BY DEF Good, BookTypes
<1>2. IsFiniteSet(Ids(b))
  <2>1. Ids(b) = 1 .. Len(b.buckets) /\ Len(b.buckets) \in Nat
    BY <1>1 DEF Ids
  <2> QED BY <2>1, FS_Interval
<1>3. PaidGrants(b) \in SUBSET Ids(b)
  BY DEF PaidGrants
<1> QED BY <1>2, <1>3, FS_Subset, FS_CardinalityType DEF Granted

(* moveTokens, hence charges, refunds, corrections and expiries: no grant  *)
(* comes or goes.                                                          *)
LEMMA MovedGrants ==
  ASSUME NEW b, Good(b), NEW rows
  PROVE  PaidGrants(MoveTokens(b, rows)) = PaidGrants(b)
<1> DEFINE m == MoveTokens(b, rows)
           given(i) == Amount({r \in {r \in rows : r.key \notin Keys(b)} : r.bucket = i})
<1>1. m.buckets = [i \in Ids(b) |-> [b.buckets[i] EXCEPT !.left = @ + given(i)]]
  BY DEF MoveTokens
<1> HIDE DEF m, given
<1>2. Ids(m) = Ids(b)
  BY <1>1 DEF Ids
<1>3. ASSUME NEW i \in Ids(b)
      PROVE  m.buckets[i].source = b.buckets[i].source /\ m.buckets[i].amount = b.buckets[i].amount
  <2>1. b.buckets[i] \in Bucket
    BY DEF Good, BookTypes, Ids
  <2>2. m.buckets[i] = [b.buckets[i] EXCEPT !.left = @ + given(i)]
    BY <1>1
  <2> QED BY <2>1, <2>2 DEF Bucket
<1>4. PaidGrants(m) = PaidGrants(b)
  BY <1>2, <1>3 DEF PaidGrants
<1> QED BY <1>4 DEF m

(* renewLocked: what has expired is emptied, the grant stays on record ... *)
LEMMA ExpiredGrants ==
  ASSUME NEW b, Good(b), NEW S
  PROVE  PaidGrants(ExpireAll(b, S)) = PaidGrants(b)
  BY MovedGrants DEF ExpireAll

(* ... and so it does when Charge or ChargeAI spends it.                   *)
LEMMA DrainedGrants ==
  ASSUME NEW b, Good(b), NEW now, NEW owed, NEW kind, NEW x
  PROVE  PaidGrants(Drain(b, now, owed, kind, x)) = PaidGrants(b)
  BY MovedGrants DEF Drain

(* addBucket: one more at most, and none if it is no grant of a paid plan. *)
LEMMA AddedGrants ==
  ASSUME NEW b, Good(b), NEW source \in {"plan_grant", "topup", "adjustment"},
         NEW amount \in Int, NEW expires, NEW key, NEW m, m = AddBucket(b, source, amount, expires, key)
  PROVE  /\ Granted(m) \in Nat /\ Granted(m) <= Granted(b) + 1
         /\ ~(source = "plan_grant" /\ amount > Grant["free"]) => Granted(m) = Granted(b)
<1> DEFINE n == Len(b.buckets) + 1
           new == [source |-> source, amount |-> amount, left |-> amount, expires |-> expires]
<1>0. IsFiniteSet(PaidGrants(b)) /\ Granted(b) \in Nat
  BY GrantedNat
<1>1. CASE key \in Keys(b)
  BY <1>0, <1>1 DEF AddBucket
<1>2. CASE key \notin Keys(b)
  <2>1. m.buckets = Append(b.buckets, new)
    BY <1>2 DEF AddBucket
  <2>2. b.buckets \in Seq(Bucket) /\ n - 1 \in Nat /\ Ids(b) = 1 .. n - 1
    BY DEF Good, BookTypes, Ids
  <2>3. new.source = source /\ new.amount = amount
    OBVIOUS
  <2> HIDE DEF new
  <2>4. Ids(m) = 1 .. n /\ m.buckets[n] = new /\ \A i \in Ids(b) : m.buckets[i] = b.buckets[i]
    BY <2>1, <2>2 DEF Ids
  <2>5. n \notin PaidGrants(b)
    BY <2>2 DEF PaidGrants
  <2>6. PaidGrants(m) = IF source = "plan_grant" /\ amount > Grant["free"]
                        THEN PaidGrants(b) \cup {n} ELSE PaidGrants(b)
    <3>1. Ids(m) = Ids(b) \cup {n}
      BY <2>2, <2>4
    <3> HIDE DEF n
    <3> QED BY <2>3, <2>4, <3>1 DEF PaidGrants
  <2>7. Cardinality(PaidGrants(b) \cup {n}) = Granted(b) + 1
    BY <1>0, <2>5, FS_AddElement DEF Granted
  <2> QED BY <1>0, <2>6, <2>7 DEF Granted
<1> QED BY <1>1, <1>2

(* grantPlanTokens: the free plan's grant is not one of them.              *)
LEMMA PlannedGrants ==
  ASSUME BillingAssumption, NEW b, Good(b), NEW s \in Subscription, NEW now, NEW key,
         NEW m, m = GrantPlan(b, s, now, key)
  PROVE  /\ Granted(m) \in Nat /\ Granted(m) <= Granted(b) + 1
         /\ s.plan = "free" => Granted(m) = Granted(b)
<1> DEFINE old == {i \in Ids(b) : b.buckets[i].left > 0 /\ b.buckets[i].source = "plan_grant"}
           expires == IF s.nextGrant > now THEN s.nextGrant ELSE AddMonths(now, 1)
           c == ExpireAll(b, old)
<1>0. Granted(b) \in Nat
  BY GrantedNat
<1>1. CASE key \in Keys(b)
  BY <1>0, <1>1 DEF GrantPlan
<1>2. CASE key \notin Keys(b)
  <2>1. m = AddBucket(c, "plan_grant", Grant[s.plan], expires, key)
    BY <1>2 DEF GrantPlan
  <2>2. Good(c) /\ Granted(c) = Granted(b)
    BY ExpireAllGood, ExpiredGrants DEF Granted
  <2>3. Grant[s.plan] \in Int /\ Grant["free"] \in Int /\ "plan_grant" \in {"plan_grant", "topup", "adjustment"}
    BY DEF BillingAssumption, Subscription, Plans
  <2> HIDE DEF c, expires
  <2>4. /\ Granted(m) \in Nat /\ Granted(m) <= Granted(c) + 1
        /\ ~(Grant[s.plan] > Grant["free"]) => Granted(m) = Granted(c)
    BY <2>1, <2>2, <2>3, AddedGrants
  <2> QED BY <2>2, <2>3, <2>4
<1> QED BY <1>1, <1>2

(* Charge                                                                  *)
LEMMA ChargedGrants ==
  ASSUME BillingAssumption, NEW b, Good(b), NEW now, NEW q \in Seq(Jobs)
  PROVE  PaidGrants(PayLines(b, now, q)) = PaidGrants(b)
<1> DEFINE N == Len(q)
<1>1. PICK f : LineByLine(f, b, now, q)
  BY PaidLineByLine
<1> DEFINE U == {n \in 0 .. N : Good(f[n]) /\ PaidGrants(f[n]) = PaidGrants(b)}
<1>2. 0 \in U
  BY <1>1 DEF LineByLine
<1>3. ASSUME NEW n \in 1 .. N, n - 1 \in U PROVE n \in U
  <2>1. Price[q[n]] \in Int
    <3>1. q[n] \in Jobs
      OBVIOUS
    <3> QED BY <3>1 DEF BillingAssumption
  <2>2. f[n] = Drain(f[n - 1], now, Price[q[n]], "debit", q[n])
    BY <1>1 DEF LineByLine
  <2>3. Good(f[n])
    <3>1. Good(Drain(f[n - 1], now, Price[q[n]], "debit", q[n]))
      BY <1>3, <2>1, DrainGood
    <3> QED BY <2>2, <3>1
  <2>4. PaidGrants(f[n]) = PaidGrants(f[n - 1])
    <3>1. PaidGrants(Drain(f[n - 1], now, Price[q[n]], "debit", q[n])) = PaidGrants(f[n - 1])
      BY <1>3, DrainedGrants
    <3> QED BY <2>2, <3>1
  <2> QED BY <1>3, <2>3, <2>4
<1>4. N \in U
  <2>1. N \in Nat
    OBVIOUS
  <2> HIDE DEF U, N
  <2>2. \A n \in 0 .. N : n \in U
    BY <1>2, <1>3, <2>1, Steps
  <2> QED BY <2>1, <2>2
<1> QED BY <1>1, <1>4 DEF LineByLine

(* A schedule that stays in a budget of n grants of paid plans, g of them  *)
(* made, and lasts no longer than a year; an account that stays in it.     *)
Scheduled(s, g, n) ==
    s # None /\ s.plan # "free" =>
        /\ g + GrantsUntil(s.nextGrant, s.periodEnd) <= n
        /\ s.periodEnd - s.nextGrant <= YearLength
InBudget(s, b, n) == Granted(b) <= n /\ Scheduled(s, Granted(b), n)

(* renewLocked: how a turn changes the subscription                        *)
LEMMA NextIs ==
  ASSUME NEW s \in Subscription, NEW demoRenew \in BOOLEAN,
         NEW next, next = NextPeriod(s, demoRenew)
  PROVE  /\ next.nextGrant = AddMonths(s.nextGrant, 1)
         /\ s.plan = "free" => next.plan = "free"
         /\ s.plan # "free" /\ ~PeriodOver(s) =>
              next.plan = s.plan /\ next.periodEnd = s.periodEnd
         /\ s.plan # "free" /\ PeriodOver(s) =>
              IF demoRenew /\ ~s.cancelAtEnd
              THEN next.plan = s.plan /\ next.periodEnd = AddMonths(s.periodEnd, Length[s.plan])
              ELSE next.plan = "free"
<1> DEFINE ended == [plan |-> "free", periodEnd |-> AddMonths(s.nextGrant, 1),
                     nextGrant |-> s.nextGrant, cancelAtEnd |-> FALSE]
           f == AddMonths(s.periodEnd, Length[s.plan])
           longer == [s EXCEPT !.periodEnd = f]
           Stepped(x) == [x EXCEPT !.nextGrant = AddMonths(@, 1)]
           Freed(x) == IF x.plan = "free" /\ x.periodEnd <= x.nextGrant
                       THEN [x EXCEPT !.periodEnd = AddMonths(x.nextGrant, 1)] ELSE x
<1>1. CASE ~PeriodOver(s)
  <2>1. next = Stepped(Freed(s))
    BY <1>1 DEF NextPeriod
  <2>2. next.nextGrant = AddMonths(s.nextGrant, 1) /\ next.plan = s.plan
        /\ (s.plan # "free" => next.periodEnd = s.periodEnd)
    BY <2>1 DEF Subscription
  <2> QED BY <1>1, <2>2
<1>2. CASE PeriodOver(s) /\ demoRenew /\ ~s.cancelAtEnd
  <2>1. next = Stepped(Freed(longer))
    BY <1>2 DEF NextPeriod
  <2>2. longer.plan = s.plan /\ longer.plan # "free"
    BY <1>2 DEF Subscription, PeriodOver
  <2>3. next = Stepped(longer)
    BY <2>1, <2>2
  <2>4. next.nextGrant = AddMonths(s.nextGrant, 1) /\ next.plan = s.plan /\ next.periodEnd = f
    BY <2>3 DEF Subscription
  <2> QED BY <1>2, <2>4 DEF PeriodOver
<1>3. CASE PeriodOver(s) /\ ~(demoRenew /\ ~s.cancelAtEnd)
  <2>1. next = Stepped(Freed(ended))
    BY <1>3 DEF NextPeriod
  <2>2. next.nextGrant = AddMonths(s.nextGrant, 1) /\ next.plan = "free"
    BY <2>1
  <2> QED BY <1>3, <2>2
<1> QED BY <1>1, <1>2, <1>3

(* A subscription is not the absence of one.                               *)
LEMMA SubscriptionIsOne == ASSUME NEW s \in Subscription PROVE s # None
  BY DEF Subscription, None, Plans

(* One turn that is not paid for: a paid plan's grant is one of those left *)
(* to make.                                                                *)
LEMMA TurnInBudget ==
  ASSUME BillingAssumption, CalendarAssumption, NEW st, Account(st), NEW now \in Int,
         NEW n \in Int, InBudget(st.sub, st.book, n), NEW r, r = RenewOnce(st, now, FALSE)
  PROVE  InBudget(r.sub, r.book, n)
<1>1. CASE st.sub.nextGrant > now
  BY <1>1 DEF RenewOnce
<1>2. CASE ~(st.sub.nextGrant > now)
  <2> DEFINE s == st.sub
             next == NextPeriod(s, FALSE)
             key == <<"grant", s.nextGrant>>
             u == Granted(st.book)
             v == Granted(r.book)
  <2>1. r.sub = next /\ r.book = GrantPlan(st.book, next, now, key)
    BY <1>2 DEF RenewOnce
  <2>2. s \in Subscription /\ Good(st.book)
    BY DEF Account, Sound
  <2>3. next \in Subscription
    BY <2>1, RenewOnceSound DEF Account
  <2>4. u \in Nat /\ v \in Nat /\ v <= u + 1 /\ (next.plan = "free" => v = u)
    <3> DEFINE m == GrantPlan(st.book, next, now, key)
    <3>1. v = Granted(m) /\ u \in Nat
      BY <2>1, <2>2, GrantedNat
    <3> HIDE DEF next, key
    <3>2. Granted(m) \in Nat /\ Granted(m) <= u + 1 /\ (next.plan = "free" => Granted(m) = u)
      BY <2>2, <2>3, PlannedGrants
    <3> HIDE DEF m, u, v
    <3> QED BY <3>1, <3>2
  <2>5. CASE next.plan = "free"
    <3> HIDE DEF next
    <3> QED BY <2>1, <2>4, <2>5 DEF InBudget, Scheduled
  <2>6. CASE next.plan # "free"
    <3> DEFINE g == s.nextGrant
               e == s.periodEnd
               h == AddMonths(g, 1)
    <3> HIDE DEF next, s
    <3>1. s.plan # "free" /\ ~PeriodOver(s) /\ next.nextGrant = h /\ next.periodEnd = e
      BY <2>2, <2>6, NextIs DEF next
    <3>2. g \in Int /\ e \in Int
      BY <2>2, Dated
    <3>3. g < e
      BY <3>1, <3>2 DEF PeriodOver
    <3>4. h \in Int /\ g < h
      <4> HIDE DEF g
      <4> QED BY <3>2, MonthAhead
    <3>5. /\ GrantsUntil(h, e) \in Int /\ GrantsUntil(g, e) \in Int
          /\ GrantsUntil(g, e) >= 1 /\ GrantsUntil(h, e) <= GrantsUntil(g, e) - 1
      <4>1. GrantsUntil(g, e) \in Int /\ GrantsUntil(g, e) >= 1
        <5> HIDE DEF g, e
        <5> QED BY <3>2, <3>3, GrantsLeft
      <4>2. GrantsUntil(h, e) \in Int
        <5> HIDE DEF h, e
        <5> QED BY <3>2, <3>4, GrantsLeft
      <4>3. GrantsUntil(h, e) <= GrantsUntil(g, e) - 1
        <5> HIDE DEF g, e
        <5> QED BY <3>2, OneGrantLess
      <4> QED BY <4>1, <4>2, <4>3
    <3>6. u + GrantsUntil(g, e) <= n /\ e - g <= YearLength
      <4>1. s # None
        BY <2>2, SubscriptionIsOne
      <4> QED BY <3>1, <4>1 DEF InBudget, Scheduled, s
    <3>7. v <= n /\ v + GrantsUntil(h, e) <= n
      <4> DEFINE x == GrantsUntil(g, e)
                 y == GrantsUntil(h, e)
      <4>1. /\ x \in Int /\ y \in Int /\ x >= 1 /\ y <= x - 1 /\ u + x <= n
            /\ u \in Nat /\ v \in Nat /\ v <= u + 1
        BY <2>4, <3>5, <3>6
      <4> HIDE DEF x, y, u, v
      <4>2. v <= n /\ v + y <= n
        BY <4>1
      <4> QED BY <4>2 DEF y
    <3>8. e - h <= YearLength
      <4>1. YearLength \in Int
        BY DEF CalendarAssumption
      <4> HIDE DEF h, g, e
      <4> QED BY <3>2, <3>4, <3>6, <4>1
    <3>9. r.sub.nextGrant = h /\ r.sub.periodEnd = e
      BY <2>1, <3>1
    <3> HIDE DEF h, e
    <3> QED BY <3>7, <3>8, <3>9 DEF InBudget, Scheduled
  <2> QED BY <2>5, <2>6
<1> QED BY <1>1, <1>2

(* After one grant of a year y there is the rest of it to come.            *)
LEMMA OneGrantFits ==
  ASSUME NEW u \in Nat, NEW v \in Nat, NEW y \in Nat \ {0}, NEW n \in Int, v <= u + 1, u + y <= n
  PROVE  v <= n /\ v + y - 1 <= n
  OBVIOUS

(* The turn an operator gives: what it starts is at most a year.           *)
LEMMA TurnGivenAway ==
  ASSUME BillingAssumption, CalendarAssumption, PeriodAssumption, NEW st, Account(st),
         NEW now \in Int, st.sub.nextGrant = now,
         st.sub.plan # "free" => st.sub.periodEnd - now <= YearLength,
         NEW n \in Int, Granted(st.book) + InYear <= n, NEW r, r = RenewOnce(st, now, TRUE)
  PROVE  InBudget(r.sub, r.book, n) /\ r.sub.nextGrant > now
<1> DEFINE s == st.sub
           next == NextPeriod(s, TRUE)
           key == <<"grant", s.nextGrant>>
           u == Granted(st.book)
           v == Granted(r.book)
           h == AddMonths(now, 1)
           e == s.periodEnd
           f == next.periodEnd
<1>1. r.sub = next /\ r.book = GrantPlan(st.book, next, now, key)
  <2>1. ~(st.sub.nextGrant > now)
    OBVIOUS
  <2> QED BY <2>1 DEF RenewOnce
<1>2. s \in Subscription /\ Good(st.book)
  BY DEF Account, Sound
<1>3. next \in Subscription
  <2>1. TRUE \in BOOLEAN
    OBVIOUS
  <2>2. Account(RenewOnce(st, now, TRUE))
    BY <2>1, RenewOnceSound, Zenon
  <2> QED BY <1>1, <2>2 DEF Account
<1>4. u \in Nat /\ v \in Nat /\ v <= u + 1 /\ (next.plan = "free" => v = u)
  <2> DEFINE m == GrantPlan(st.book, next, now, key)
  <2>1. v = Granted(m) /\ u \in Nat
    BY <1>1, <1>2, GrantedNat
  <2> HIDE DEF next, key
  <2>2. Granted(m) \in Nat /\ Granted(m) <= u + 1 /\ (next.plan = "free" => Granted(m) = u)
    BY <1>2, <1>3, PlannedGrants
  <2> HIDE DEF m, u, v
  <2> QED BY <2>1, <2>2
<1>5. h \in Int /\ now < h
  BY MonthAhead
<1>6. InYear \in Nat \ {0} /\ YearLength \in Nat \ {0}
  BY YearAhead, YearsRepeat
<1>7. /\ next.nextGrant = h /\ (s.plan = "free" => next.plan = "free")
      /\ s.plan # "free" /\ ~PeriodOver(s) => next.plan = s.plan /\ f = e
      /\ s.plan # "free" /\ PeriodOver(s) =>
           \/ next.plan = "free"
           \/ next.plan = s.plan /\ f = AddMonths(e, Length[s.plan])
  <2> DEFINE demo == TRUE
  <2>1. demo \in BOOLEAN /\ next = NextPeriod(s, demo) /\ s.nextGrant = now
    OBVIOUS
  <2> HIDE DEF s, next, demo
  <2>2. /\ next.nextGrant = AddMonths(s.nextGrant, 1)
        /\ s.plan = "free" => next.plan = "free"
        /\ s.plan # "free" /\ ~PeriodOver(s) =>
             next.plan = s.plan /\ next.periodEnd = s.periodEnd
        /\ s.plan # "free" /\ PeriodOver(s) =>
             IF demo /\ ~s.cancelAtEnd
             THEN next.plan = s.plan /\ next.periodEnd = AddMonths(s.periodEnd, Length[s.plan])
             ELSE next.plan = "free"
    BY <1>2, <2>1, NextIs, Zenon
  <2> QED BY <2>1, <2>2
<1> HIDE DEF next, v
<1>8. v <= n /\ v + InYear - 1 <= n
  <2>1. u + InYear <= n
    OBVIOUS
  <2> DEFINE y == InYear
  <2>2. u \in Nat /\ v \in Nat /\ v <= u + 1 /\ y \in Nat \ {0} /\ u + y <= n
    BY <1>4, <1>6, <2>1
  <2> HIDE DEF u, y
  <2>3. v <= n /\ v + y - 1 <= n
    BY <2>2, OneGrantFits
  <2> QED BY <2>3 DEF y
<1>9. CASE next.plan = "free"
  BY <1>1, <1>5, <1>7, <1>8, <1>9 DEF InBudget, Scheduled, v
<1>10. CASE next.plan # "free"
  <2>1. e \in Int /\ f \in Int
    BY <1>2, <1>3, Dated
  <2>2. /\ s.plan # "free" /\ next.plan = s.plan
        /\ f = IF PeriodOver(s) THEN AddMonths(e, Length[s.plan]) ELSE e
    BY <1>7, <1>10
  <2>3. e - now <= YearLength /\ (PeriodOver(s) => e <= now)
    BY <2>2 DEF PeriodOver
  <2>4. f = h \/ f - now <= YearLength
    <3>1. CASE ~PeriodOver(s)
      BY <2>2, <2>3, <3>1
    <3>2. CASE PeriodOver(s) /\ s.plan = "monthly"
      <4>1. s # None /\ Length[s.plan] = 1
        BY <1>2, <3>2 DEF Subscription, None, Plans, PeriodAssumption
      <4>2. e = now
        BY <2>2, <4>1 DEF Account, InStep
      <4> QED BY <2>2, <3>2, <4>1, <4>2
    <3>3. CASE PeriodOver(s) /\ s.plan = "annual"
      <4>1. Length[s.plan] = InYear
        BY <3>3 DEF PeriodAssumption, InYear
      <4>2. f = e + YearLength
        <5>1. f = AddMonths(e, InYear)
          BY <2>2, <3>3, <4>1
        <5> HIDE DEF e, f
        <5> QED BY <2>1, <5>1, YearAhead
      <4> HIDE DEF e, f
      <4> QED BY <1>6, <2>1, <2>3, <3>3, <4>2
    <3> QED BY <1>2, <2>2, <3>1, <3>2, <3>3 DEF Subscription, Plans
  <2> HIDE DEF h, f
  <2>5. f - h <= YearLength
    BY <1>5, <1>6, <2>1, <2>4
  <2>6. v + GrantsUntil(h, f) <= n
    <3>1. CASE f = h
      <4>1. GrantsUntil(f, f) = 0
        BY <2>1, GrantsLeft
      <4> QED BY <1>4, <1>8, <3>1, <4>1
    <3>2. CASE f - now <= YearLength
      <4>1. GrantsUntil(now, f) \in Int /\ GrantsUntil(now, f) <= InYear
        BY <2>1, <3>2, GrantsOfAYear
      <4>2. GrantsUntil(h, f) \in Int
        BY <1>5, <2>1, GrantsLeft
      <4>3. GrantsUntil(h, f) <= GrantsUntil(now, f) - 1
        BY <2>1, OneGrantLess DEF h
      <4>4. v \in Int
        BY <1>4
      <4> QED BY <1>6, <1>8, <4>1, <4>2, <4>3, <4>4
    <3> QED BY <2>4, <3>1, <3>2
  <2>7. r.sub.nextGrant = h /\ r.sub.periodEnd = f
    BY <1>1, <1>7 DEF f
  <2> QED BY <1>5, <1>8, <2>5, <2>6, <2>7 DEF InBudget, Scheduled, v
<1> QED BY <1>9, <1>10

(* renewLocked on an account whose plan was not paid for again             *)
LEMMA RenewedInBudget ==
  ASSUME BillingAssumption, CalendarAssumption, NEW s \in Subscription, InStep(s),
         NEW c, Sound(c), NEW now \in Int, NEW n \in Int, InBudget(s, c, n),
         NEW r, r = Renewed(s, c, now, FALSE)
  PROVE  InBudget(r.sub, r.book, n)
<1> DEFINE N == GrantsPerPass
           Fine(a) == Account(a) /\ InBudget(a.sub, a.book, n)
<1>0. N \in Nat /\ FALSE \in BOOLEAN
  BY DEF BillingAssumption
<1>1. PICK f : TurnByTurn(f, s, c, now, FALSE)
  BY RenewedTurnByTurn
<1> DEFINE U == {k \in 0 .. N : Fine(f[k])}
<1>2. 0 \in U
  BY <1>0, <1>1 DEF TurnByTurn, Account
<1>3. ASSUME NEW k \in 1 .. N, k - 1 \in U PROVE k \in U
  <2> DEFINE a == f[k - 1]
             b == f[k]
  <2>1. Account(a) /\ InBudget(a.sub, a.book, n) /\ b = RenewOnce(a, now, FALSE)
    BY <1>1, <1>3 DEF TurnByTurn
  <2> HIDE DEF a, b
  <2>2. Account(b)
    BY <1>0, <2>1, RenewOnceSound
  <2>3. InBudget(b.sub, b.book, n)
    BY <2>1, TurnInBudget
  <2> QED BY <2>2, <2>3 DEF b
<1>4. Fine(f[N])
  <2>1. \A k \in 0 .. N : k \in U
    <3> HIDE DEF U, N
    <3> QED BY <1>0, <1>2, <1>3, Steps
  <2> QED BY <1>0, <2>1
<1> DEFINE a == f[N]
<1>5. r.sub = a.sub /\ r.book = ExpireAll(a.book, Expired(a.book, now))
  BY <1>1 DEF TurnByTurn
<1> HIDE DEF a
<1>6. Account(a) /\ InBudget(a.sub, a.book, n)
  BY <1>4 DEF a
<1>7. PaidGrants(r.book) = PaidGrants(a.book)
  BY <1>5, <1>6, ExpiredGrants DEF Account, Sound
<1> QED BY <1>5, <1>6, <1>7 DEF InBudget, Granted

(* ... and on one whose cycle an operator has advanced: the first turn     *)
(* gives a period away, and there is none after it.                        *)
LEMMA AdvancedInBudget ==
  ASSUME BillingAssumption, CalendarAssumption, PeriodAssumption, NEW s \in Subscription, InStep(s),
         NEW c, Sound(c), NEW now \in Int, s.nextGrant = now,
         s.plan # "free" => s.periodEnd - now <= YearLength,
         NEW n \in Int, Granted(c) + InYear <= n,
         NEW r, r = Renewed(s, c, now, TRUE)
  PROVE  InBudget(r.sub, r.book, n)
<1> DEFINE N == GrantsPerPass
           Fine(a) == InBudget(a.sub, a.book, n) /\ a.sub.nextGrant > now
<1>0. N \in Nat \ {0}
  BY DEF BillingAssumption
<1>1. PICK f : TurnByTurn(f, s, c, now, TRUE)
  BY RenewedTurnByTurn
<1>2. \A k \in 1 .. N : f[k] = RenewOnce(f[k - 1], now, TRUE)
  BY <1>1 DEF TurnByTurn
<1> DEFINE U == {k \in 0 .. N : Account(f[k]) /\ (k # 0 => Fine(f[k]))}
<1>3. 0 \in U
  BY <1>0, <1>1 DEF TurnByTurn, Account
<1>4. ASSUME NEW k \in 1 .. N, k - 1 \in U PROVE k \in U
  <2> DEFINE a == f[k - 1]
             b == f[k]
  <2>1. Account(a) /\ b = RenewOnce(a, now, TRUE)
    BY <1>2, <1>4
  <2>2. k - 1 = 0 => a.sub = s /\ a.book = c
    BY <1>1 DEF TurnByTurn
  <2>3. k - 1 # 0 => InBudget(a.sub, a.book, n) /\ a.sub.nextGrant > now
    BY <1>4
  <2> HIDE DEF a, b
  <2>4. Account(b)
    BY <2>1, RenewOnceSound
  <2>5. InBudget(b.sub, b.book, n) /\ b.sub.nextGrant > now
    <3>1. CASE k - 1 = 0
      <4>1. a.sub.nextGrant = now /\ Granted(a.book) + InYear <= n
            /\ (a.sub.plan # "free" => a.sub.periodEnd - now <= YearLength)
        BY <2>2, <3>1
      <4> QED BY <2>1, <4>1, TurnGivenAway
    <3>2. CASE k - 1 # 0
      BY <2>1, <2>3, <3>2 DEF RenewOnce
    <3> QED BY <3>1, <3>2
  <2> QED BY <2>4, <2>5 DEF b
<1>5. Account(f[N]) /\ Fine(f[N])
  <2>1. \A k \in 0 .. N : k \in U
    <3> HIDE DEF U, N
    <3> QED BY <1>0, <1>3, <1>4, Steps
  <2> QED BY <1>0, <2>1
<1> DEFINE a == f[N]
<1>6. r.sub = a.sub /\ r.book = ExpireAll(a.book, Expired(a.book, now))
  BY <1>1 DEF TurnByTurn
<1> HIDE DEF a
<1>7. Account(a) /\ InBudget(a.sub, a.book, n)
  BY <1>5 DEF a
<1>8. PaidGrants(r.book) = PaidGrants(a.book)
  BY <1>6, <1>7, ExpiredGrants DEF Account, Sound
<1> QED BY <1>6, <1>7, <1>8 DEF InBudget, Granted

(* withOrg                                                                 *)
LEMMA FoundInBudget ==
  ASSUME BillingAssumption, CalendarAssumption, Sound(book), InStep(sub),
         sub \in Subscription \cup {None}, NEW now \in Int, NEW n \in Int, InBudget(sub, book, n)
  PROVE  InBudget(Found(now).sub, Found(now).book, n)
<1>1. CASE sub # None
  BY <1>1 DEF Found
<1>2. CASE sub = None
  <2> DEFINE s == Found(now).sub
             b == Found(now).book
  <2>1. s.plan = "free" /\ b = GrantPlan(EmptyBook, s, now, <<"grant">>)
    BY <1>2 DEF Found
  <2>2. s \in Subscription
    BY FoundSound DEF Account
  <2>3. Granted(EmptyBook) = 0
    <3>1. PaidGrants(EmptyBook) = {}
      BY DEF PaidGrants, EmptyBook, Ids
    <3> QED BY <3>1, FS_EmptySet DEF Granted
  <2> HIDE DEF s, b
  <2>4. Granted(b) = 0
    BY <2>1, <2>2, <2>3, EmptyBookGood, PlannedGrants
  <2>5. 0 <= n
    <3>1. Granted(book) \in Nat
      BY GrantedNat DEF Sound
    <3> QED BY <3>1 DEF InBudget
  <2>6. InBudget(s, b, n)
    BY <2>1, <2>4, <2>5 DEF InBudget, Scheduled
  <2> QED BY <2>6 DEF s, b
<1> QED BY <1>1, <1>2

(* Whatever moves tokens only leaves an account in its budget.             *)
LEMMA SameGrants ==
  ASSUME NEW s, NEW b, NEW n, InBudget(s, b, n), NEW m, PaidGrants(m) = PaidGrants(b)
  PROVE  InBudget(s, m, n)
  BY DEF InBudget, Granted

(* ConfirmDemo: a purchase makes one of the grants it pays for, and leaves *)
(* the others to be made.                                                  *)
LEMMA BoughtInBudget ==
  ASSUME BillingAssumption, CalendarAssumption, PeriodAssumption, NEW b, Good(b), NEW now \in Int,
         NEW s \in Subscription, s.plan \in {"monthly", "annual"},
         s.periodEnd = AddMonths(now, Length[s.plan]), s.nextGrant = AddMonths(now, 1),
         NEW n \in Int, Granted(b) <= n, NEW key, NEW m, m = GrantPlan(b, s, now, key)
  PROVE  InBudget(s, m, n + Length[s.plan])
<1> DEFINE u == Granted(b)
           v == Granted(m)
           h == AddMonths(now, 1)
           f == AddMonths(now, Length[s.plan])
           L == Length[s.plan]
<1>1. u \in Nat /\ v \in Nat /\ v <= u + 1
  BY GrantedNat, PlannedGrants
<1>2. h \in Int /\ now < h
  BY MonthAhead
<1>3. InYear \in Nat \ {0} /\ YearLength \in Nat \ {0}
  BY YearAhead, YearsRepeat
<1> HIDE DEF u, v, h
<1>4. L \in Int /\ L >= 1 /\ f \in Int /\ GrantsUntil(h, f) + 1 <= L /\ f - h <= YearLength
  <2>1. CASE s.plan = "monthly"
    <3>1. L = 1 /\ f = h
      BY <2>1 DEF PeriodAssumption, h
    <3>2. GrantsUntil(h, h) = 0
      BY <1>2, GrantsLeft
    <3> HIDE DEF L, f
    <3> QED BY <1>2, <1>3, <3>1, <3>2
  <2>2. CASE s.plan = "annual"
    <3>1. L = InYear /\ f = now + YearLength
      <4>1. L = InYear
        BY <2>2 DEF PeriodAssumption, InYear
      <4>2. AddMonths(now, InYear) = now + YearLength
        BY YearAhead
      <4> QED BY <4>1, <4>2, Zenon
    <3> HIDE DEF L, f
    <3>2. f \in Int /\ f - now <= YearLength
      BY <1>3, <3>1
    <3>3. GrantsUntil(now, f) \in Int /\ GrantsUntil(now, f) <= InYear
      BY <3>2, GrantsOfAYear
    <3>4. GrantsUntil(h, f) \in Int
      BY <1>2, <3>2, GrantsLeft
    <3>5. GrantsUntil(h, f) <= GrantsUntil(now, f) - 1
      BY <3>2, OneGrantLess DEF h
    <3>6. f - h <= YearLength
      BY <1>2, <1>3, <3>2
    <3> QED BY <1>3, <3>1, <3>2, <3>3, <3>4, <3>5, <3>6
  <2> QED BY <2>1, <2>2
<1>5. GrantsUntil(h, f) \in Int
  <2> HIDE DEF f, L
  <2> QED BY <1>2, <1>4, GrantsLeft
<1>6. s.nextGrant = h /\ s.periodEnd = f
  BY DEF h
<1> HIDE DEF f, L
<1>7. v <= n + L /\ v + GrantsUntil(h, f) <= n + L
  <2> DEFINE x == GrantsUntil(h, f)
  <2>1. /\ u <= n /\ x \in Int /\ x + 1 <= L /\ L \in Int /\ L >= 1
        /\ u \in Int /\ v \in Int /\ v <= u + 1
    BY <1>1, <1>4, <1>5 DEF u
  <2> HIDE DEF x
  <2>2. v <= n + L
    BY <2>1
  <2>3. v + x <= n + L
    BY <2>1
  <2> QED BY <2>2, <2>3 DEF x
<1> QED BY <1>4, <1>6, <1>7 DEF InBudget, Scheduled, v, L

(* The paid checkouts, and what they and the operators pay for: the        *)
(* invariant is that the account stays within it.                          *)
Paid == {c \in Checkouts : checkouts[c].status = "paid"}
Budget == advances * Months("annual") + SumFunction([c \in Paid |-> Months(checkouts[c].item)])
FairInv == advances \in Nat /\ IsFiniteSet(Paid) /\ InBudget(sub, book, Budget)

(* Both are numbers of months.                                             *)
LEMMA BudgetInt ==
  ASSUME BillingAssumption, CalendarAssumption, PeriodAssumption, BillingInv, FairInv
  PROVE  /\ Months("annual") = InYear /\ InYear \in Int /\ Budget \in Int
         /\ \A c \in Checkouts : checkouts[c].status # "none" => Months(checkouts[c].item) \in Int
<1>1. Months("annual") = InYear
  BY DEF Months, PeriodAssumption, InYear, Plans
<1>2. InYear \in Int
  BY YearsRepeat
<1>3. \A i \in Items : Months(i) \in Int
  BY DEF Months, BillingAssumption, Plans
<1>4. \A c \in Checkouts : checkouts[c].status # "none" => Months(checkouts[c].item) \in Int
  BY <1>3 DEF BillingInv, Session, Opened
<1> DEFINE w == [c \in Paid |-> Months(checkouts[c].item)]
<1>5. w \in [Paid -> Int]
  BY <1>4 DEF Paid
<1>6. SumFunction(w) \in Int
  <2> HIDE DEF w
  <2> QED BY <1>5, SumInt DEF FairInv
<1>7. Budget = advances * Months("annual") + SumFunction(w)
  BY DEF Budget
<1> HIDE DEF w
<1>8. Budget \in Int
  BY <1>1, <1>2, <1>6, <1>7 DEF FairInv
<1> QED BY <1>1, <1>2, <1>4, <1>8

(* As long as nothing else is paid for, the budget is the same.            *)
LEMMA SameBudget ==
  ASSUME FairInv, advances' = advances, Paid' = Paid,
         \A c \in Paid : checkouts'[c] = checkouts[c], InBudget(sub', book', Budget)
  PROVE  FairInv'
<1> DEFINE w == [c \in Paid |-> Months(checkouts[c].item)]
           v == [c \in Paid' |-> Months(checkouts'[c].item)]
<1>1. v = w
  OBVIOUS
<1>2. Budget = advances * Months("annual") + SumFunction(w)
      /\ Budget' = advances' * Months("annual") + SumFunction(v)
  BY DEF Budget, Months
<1> HIDE DEF w, v
<1>3. Budget' = Budget
  BY <1>1, <1>2
<1> QED BY <1>3 DEF FairInv

(* GetCheckout, ConfirmDemo declined, StartCheckout: nothing is paid for.  *)
LEMMA NotPaid ==
  ASSUME BillingInv, NEW c \in Checkouts, checkouts[c].status # "paid", NEW e, e.status # "paid",
         checkouts' = [checkouts EXCEPT ![c] = e]
  PROVE  Paid' = Paid /\ \A d \in Paid : checkouts'[d] = checkouts[d]
<1>1. checkouts'[c] = e /\ \A d \in Checkouts : d # c => checkouts'[d] = checkouts[d]
  BY DEF BillingInv
<1> QED BY <1>1 DEF Paid

(* A sum with one element more                                             *)
OneMore(R, v, x, S, w) ==
    /\ IsFiniteSet(R) /\ v \in [R -> Int] /\ x \notin R
    /\ S = R \cup {x} /\ w \in [S -> Int] /\ Agree(w, v, R)
AddsUp(v, x, S, w) ==
    IsFiniteSet(S) /\ SumFunction(v) \in Int /\ SumFunction(w) = SumFunction(v) + w[x]

(* ... is the sum and that element.                                        *)
LEMMA SumMore ==
  ASSUME NEW R, NEW v, NEW x, NEW S, NEW w, OneMore(R, v, x, S, w)
  PROVE  AddsUp(v, x, S, w)
<1> USE DEF OneMore
<1>1. IsFiniteSet(S) /\ x \in S
  BY FS_AddElement
<1>2. DOMAIN v = S \ {x} /\ Agree(v, w, S \ {x})
  BY DEF Agree
<1>3. SumFunction(w) = w[x] + SumFunction(v)
  BY <1>1, <1>2, SumLess
<1>4. SumFunction(v) \in Int
  BY SumInt
<1>5. w[x] \in Int
  BY <1>1
<1> QED BY <1>1, <1>3, <1>4, <1>5 DEF AddsUp

(* ConfirmDemo: a checkout adds the months it is for.                      *)
LEMMA PaidMonths ==
  ASSUME BillingAssumption, CalendarAssumption, PeriodAssumption, BillingInv, FairInv,
         NEW c \in Checkouts, checkouts[c].status = "pending", advances' = advances,
         checkouts' = [checkouts EXCEPT ![c].status = "paid"]
  PROVE  IsFiniteSet(Paid') /\ Budget' = Budget + Months(checkouts[c].item)
<1>1. /\ checkouts'[c].status = "paid" /\ checkouts'[c].item = checkouts[c].item
      /\ \A d \in Checkouts : d # c => checkouts'[d] = checkouts[d]
  BY DEF BillingInv, Session, Opened
<1>2. Paid' = Paid \cup {c} /\ c \notin Paid
  BY <1>1 DEF Paid
<1> DEFINE S == Paid'
           v == [d \in Paid |-> Months(checkouts[d].item)]
           w == [d \in S |-> Months(checkouts'[d].item)]
           k == Months("annual")
<1>3. \A d \in S : /\ Months(checkouts'[d].item) = Months(checkouts[d].item)
                   /\ Months(checkouts[d].item) \in Int
  <2>1. \A d \in S : d \in Checkouts /\ checkouts[d].status # "none"
                     /\ checkouts'[d].item = checkouts[d].item
    BY <1>1, <1>2 DEF Paid
  <2> QED BY <2>1, BudgetInt
<1>4. w \in [S -> Int] /\ v \in [Paid -> Int] /\ w[c] = Months(checkouts[c].item)
      /\ \A d \in Paid : w[d] = v[d]
  BY <1>2, <1>3
<1>5. Budget = advances * k + SumFunction(v) /\ Budget' = advances' * k + SumFunction(w)
  BY DEF Budget, Months
<1>6. k \in Int
  BY BudgetInt, Zenon
<1> HIDE DEF v, w, S, k
<1>7. /\ IsFiniteSet(S) /\ SumFunction(v) \in Int /\ SumFunction(w) = SumFunction(v) + w[c]
      /\ w[c] \in Int
  <2>1. S = Paid \cup {c}
    BY <1>2 DEF S
  <2>2. IsFiniteSet(Paid)
    BY DEF FairInv
  <2>3. w[c] \in Int
    BY <1>4, <2>1
  <2>4. PICK R, T, p, q : R = Paid /\ T = S /\ p = v /\ q = w
    OBVIOUS
  <2>5. OneMore(R, p, c, T, q)
    BY <1>2, <1>4, <2>1, <2>2, <2>4 DEF Agree, OneMore
  <2>6. AddsUp(p, c, T, q)
    BY <2>5, SumMore, Zenon
  <2> QED BY <2>3, <2>4, <2>6, Zenon DEF AddsUp
<1> DEFINE a == advances * k
           x == SumFunction(v)
           y == w[c]
<1>8. a \in Int /\ x \in Int /\ y \in Int
  <2>1. advances \in Int
    BY DEF FairInv
  <2> QED BY <1>6, <1>7, <2>1
<1>9. Budget = a + x /\ Budget' = a + (x + y)
  BY <1>5, <1>7
<1> HIDE DEF a, x, y
<1>10. a + (x + y) = (a + x) + y
  BY <1>8
<1>11. Budget' = Budget + y
  BY <1>9, <1>10
<1> QED BY <1>4, <1>7, <1>11 DEF y, S

(* A subscription whose next grant is moved to now, its period with it     *)
MovedTo(s, now) == [s EXCEPT !.nextGrant = now,
                             !.periodEnd = IF s.plan # "free"
                                           THEN @ - (s.nextGrant - now) ELSE @]

(* ... which leaves it in step, its period as far from the grant as before *)
InStepAt(s, due, now) ==
  /\ due \in Subscription /\ InStep(due) /\ due.plan = s.plan /\ due.nextGrant = now
  /\ s.plan # "free" => due.periodEnd - now = s.periodEnd - s.nextGrant

(* AdminAdvanceCycle moves both dates of a paid plan by as much.           *)
LEMMA MovedInStep ==
  ASSUME CalendarAssumption, NEW s \in Subscription, InStep(s), NEW now \in Int,
         NEW due, due = MovedTo(s, now)
  PROVE  InStepAt(s, due, now)
<1>1. due = [s EXCEPT !.nextGrant = now,
                      !.periodEnd = IF s.plan # "free"
                                    THEN @ - (s.nextGrant - now) ELSE @]
  BY DEF MovedTo
<1>2. due \in Subscription
  BY <1>1, ShiftedInStep, Zenon
<1>3. InStep(due)
  BY <1>1, ShiftedInStep, Zenon
<1>4. due.plan = s.plan /\ due.nextGrant = now
  BY DEF MovedTo, Subscription
<1>5. s.plan # "free" => due.periodEnd - now = s.periodEnd - s.nextGrant
  BY <1>1, ShiftedInStep, Zenon
<1> QED BY <1>2, <1>3, <1>4, <1>5 DEF InStepAt

(* Every operation leaves the account within what was paid for.            *)
LEMMA FairStep ==
  ASSUME BillingAssumption, LinesAssumption, CalendarAssumption, PeriodAssumption,
         BillingInv, FairInv, [Next]_vars
  PROVE  FairInv'
<1> USE DEF Commit
<1> DEFINE n == Budget
<1>0. n \in Int
  BY BudgetInt
<1>1. ASSUME NEW now \in Recent, NEW st, st = Found(now)
      PROVE  Account(st) /\ Good(st.book) /\ InBudget(st.sub, st.book, n) /\ now \in Int
  <2>1. now \in Int
    BY RecentInt
  <2>2. Account(st)
    BY <1>1, <2>1, FoundSound DEF BillingInv
  <2>3. InBudget(st.sub, st.book, n)
    <3> HIDE DEF n
    <3>1. InBudget(sub, book, n)
      BY DEF FairInv, n
    <3> QED BY <1>0, <1>1, <2>1, <3>1, FoundInBudget DEF BillingInv
  <2> QED BY <2>1, <2>2, <2>3 DEF Account, Sound
<1>2. ASSUME advances' = advances, checkouts' = checkouts, InBudget(sub', book', n)
      PROVE  FairInv'
  <2>1. Paid' = Paid /\ \A c \in Paid : checkouts'[c] = checkouts[c]
    BY <1>2 DEF Paid
  <2> QED BY <1>2, <2>1, SameBudget
<1>3. CASE Tick \/ UNCHANGED vars
  <2>1. advances' = advances /\ checkouts' = checkouts /\ sub' = sub /\ book' = book
    BY <1>3 DEF Tick, vars
  <2>2. InBudget(sub', book', n)
    BY <2>1 DEF FairInv
  <2> QED BY <1>2, <2>1, <2>2
<1>4. ASSUME NEW now \in Recent, Read(now) PROVE FairInv'
  <2>1. PICK st : st = Found(now)
    OBVIOUS
  <2>2. sub' = st.sub /\ book' = st.book /\ advances' = advances /\ checkouts' = checkouts
    BY <1>4, <2>1 DEF Read
  <2>3. InBudget(sub', book', n)
    BY <1>1, <2>1, <2>2
  <2> QED BY <1>2, <2>2, <2>3
<1>5. ASSUME NEW now \in Recent, RenewDue(now) PROVE FairInv'
  <2>1. PICK r : r = Renewed(sub, book, now, FALSE)
    OBVIOUS
  <2>2. sub' = r.sub /\ book' = r.book /\ advances' = advances /\ checkouts' = checkouts
    BY <1>5, <2>1 DEF RenewDue
  <2>3. sub \in Subscription /\ InStep(sub) /\ Sound(book) /\ now \in Int
    BY <1>5, RecentInt DEF RenewDue, BillingInv
  <2>4. InBudget(r.sub, r.book, n)
    <3> HIDE DEF n
    <3>1. InBudget(sub, book, n)
      BY DEF FairInv, n
    <3> QED BY <1>0, <2>1, <2>3, <3>1, RenewedInBudget
  <2> QED BY <1>2, <2>2, <2>4
<1>6. ASSUME NEW now \in Recent, AdminAdvanceCycle(now) PROVE FairInv'
  <2>1. PICK st : st = Found(now)
    OBVIOUS
  <2>2. PICK s : s = st.sub
    OBVIOUS
  <2>3. PICK due : due = [s EXCEPT !.nextGrant = now,
                                   !.periodEnd = IF s.plan # "free"
                                                 THEN @ - (s.nextGrant - now) ELSE @]
    OBVIOUS
  <2>4. PICK r : r = Renewed(due, st.book, now, TRUE)
    OBVIOUS
  <2>5. sub' = r.sub /\ book' = r.book /\ advances' = advances + 1 /\ checkouts' = checkouts
    BY <1>6, <2>1, <2>2, <2>3, <2>4, Zenon DEF AdminAdvanceCycle
  <2>6. /\ s \in Subscription /\ InStep(s) /\ Sound(st.book) /\ now \in Int
        /\ InBudget(s, st.book, n)
    BY <1>1, <2>1, <2>2 DEF Account
  <2>7. /\ due \in Subscription /\ InStep(due) /\ due.plan = s.plan /\ due.nextGrant = now
        /\ s.plan # "free" => due.periodEnd - now = s.periodEnd - s.nextGrant
    <3>1. s \in Subscription /\ InStep(s) /\ now \in Int
      BY <2>6
    <3>2. due = MovedTo(s, now)
      BY <2>3 DEF MovedTo
    <3>3. InStepAt(s, due, now)
      BY <3>1, <3>2, MovedInStep, Zenon
    <3> QED BY <3>3 DEF InStepAt
  <2>8. due.plan # "free" => due.periodEnd - now <= YearLength
    <3>1. s # None
      BY <2>6, SubscriptionIsOne
    <3> QED BY <2>6, <2>7, <3>1 DEF InBudget, Scheduled
  <2>9. Budget' = n + InYear /\ InYear \in Int
    <3> DEFINE w == SumFunction([c \in Paid |-> Months(checkouts[c].item)])
               k == Months("annual")
    <3>1. Paid' = Paid
      BY <2>5 DEF Paid
    <3>2. Budget = advances * k + w /\ Budget' = (advances + 1) * k + w
      <4>1. Budget' = advances' * k + SumFunction([c \in Paid' |-> Months(checkouts'[c].item)])
        BY DEF Budget, Months
      <4>2. SumFunction([c \in Paid' |-> Months(checkouts'[c].item)]) = w
        <5>1. [c \in Paid' |-> Months(checkouts'[c].item)] = [c \in Paid |-> Months(checkouts[c].item)]
          BY <2>5, <3>1
        <5> QED BY <5>1, Zenon
      <4> QED BY <2>5, <4>1, <4>2, Zenon DEF Budget
    <3>3. k = InYear /\ k \in Int /\ advances \in Int
      <4>1. k = InYear /\ InYear \in Int
        BY BudgetInt, Zenon
      <4> QED BY <4>1 DEF FairInv
    <3>4. w \in Int
      <4>1. [c \in Paid |-> Months(checkouts[c].item)] \in [Paid -> Int]
        BY BudgetInt DEF Paid
      <4> QED BY <4>1, SumInt DEF FairInv
    <3> HIDE DEF w, k
    <3>5. (advances + 1) * k + w = (advances * k + w) + k
      BY <3>3, <3>4
    <3> QED BY <3>2, <3>3, <3>5
  <2>10. InBudget(r.sub, r.book, n + InYear)
    <3> HIDE DEF n
    <3> DEFINE m == n + InYear
    <3>1. m \in Int /\ Granted(st.book) + InYear <= m
      <4>1. Granted(st.book) \in Nat /\ Granted(st.book) <= n
        BY <2>6, GrantedNat DEF InBudget, Sound
      <4> QED BY <1>0, <2>9, <4>1
    <3> HIDE DEF m
    <3>2. InBudget(r.sub, r.book, m)
      BY <2>4, <2>6, <2>7, <2>8, <3>1, AdvancedInBudget
    <3> QED BY <3>2 DEF m
  <2>11. InBudget(sub', book', Budget')
    BY <2>5, <2>9, <2>10
  <2> QED BY <2>5, <2>11 DEF FairInv, Paid
<1>7. ASSUME NEW now \in Recent, NEW s \in Scans, Charge(s, now) PROVE FairInv'
  <2>1. PICK st : st = Found(now)
    OBVIOUS
  <2>2. /\ sub' = st.sub /\ book' = PayLines(st.book, now, Lines[s])
        /\ advances' = advances /\ checkouts' = checkouts
    BY <1>7, <2>1 DEF Charge
  <2>3. Lines[s] \in Seq(Jobs)
    BY DEF LinesAssumption
  <2>4. PaidGrants(book') = PaidGrants(st.book)
    BY <1>1, <2>1, <2>2, <2>3, ChargedGrants
  <2>5. InBudget(sub', book', n)
    BY <1>1, <2>1, <2>2, <2>4, SameGrants
  <2> QED BY <1>2, <2>2, <2>5
<1>8. ASSUME NEW now \in Recent, NEW j \in Jobs, RefundJob(j, now) PROVE FairInv'
  <2>1. /\ sub' = sub /\ book' = MoveTokens(book, Refunds(book, j, now))
        /\ advances' = advances /\ checkouts' = checkouts
    BY <1>8 DEF RefundJob
  <2>2. PaidGrants(book') = PaidGrants(book)
    BY <2>1, MovedGrants DEF BillingInv, Sound
  <2>3. InBudget(sub', book', n)
    BY <2>1, <2>2, SameGrants DEF FairInv
  <2> QED BY <1>2, <2>1, <2>3
<1>9. ASSUME NEW now \in Recent, NEW q \in Questions, ChargeAI(q, now) PROVE FairInv'
  <2>1. PICK st : st = Found(now)
    OBVIOUS
  <2>2. /\ sub' = st.sub /\ book' = Drain(st.book, now, AIPrice, "ai", q)
        /\ advances' = advances /\ checkouts' = checkouts
    BY <1>9, <2>1 DEF ChargeAI
  <2>3. PaidGrants(book') = PaidGrants(st.book)
    BY <1>1, <2>1, <2>2, DrainedGrants
  <2>4. InBudget(sub', book', n)
    BY <1>1, <2>1, <2>2, <2>3, SameGrants
  <2> QED BY <1>2, <2>2, <2>4
<1>10. ASSUME NEW now \in Recent, NEW a \in Adjustments, NEW delta \in Deltas,
              AdminAdjust(a, delta, now)
       PROVE  FairInv'
  <2>1. PICK st : st = Found(now)
    OBVIOUS
  <2>2. /\ sub' = st.sub /\ advances' = advances /\ checkouts' = checkouts
        /\ book' = IF delta > 0
                   THEN AddBucket(st.book, "adjustment", delta, now + TopupValidity, <<"adjust", a>>)
                   ELSE Drain(st.book, now, -delta, "adjust", a)
    BY <1>10, <2>1 DEF AdminAdjust
  <2>3. Granted(book') = Granted(st.book)
    <3>1. CASE delta > 0
      <4>1. /\ delta \in Int /\ "adjustment" \in {"plan_grant", "topup", "adjustment"}
            /\ Good(st.book)
        BY <1>1, <2>1 DEF BillingAssumption
      <4>2. book' = AddBucket(st.book, "adjustment", delta, now + TopupValidity, <<"adjust", a>>)
        BY <2>2, <3>1
      <4> QED BY <4>1, <4>2, AddedGrants
    <3>2. CASE ~(delta > 0)
      BY <1>1, <2>1, <2>2, <3>2, DrainedGrants DEF Granted
    <3> QED BY <3>1, <3>2
  <2>4. InBudget(sub', book', n)
    BY <1>1, <2>1, <2>2, <2>3 DEF InBudget
  <2> QED BY <1>2, <2>2, <2>4
<1>11. ASSUME NEW c \in Checkouts, checkouts[c].status # "paid", NEW e, e.status # "paid",
              checkouts' = [checkouts EXCEPT ![c] = e], advances' = advances,
              InBudget(sub', book', n)
       PROVE  FairInv'
  <2>1. Paid' = Paid /\ \A d \in Paid : checkouts'[d] = checkouts[d]
    BY <1>11, NotPaid
  <2> QED BY <1>11, <2>1, SameBudget
<1>12. ASSUME NEW now \in Recent, NEW c \in Checkouts, GetCheckout(c, now) \/ Decline(c, now)
       PROVE  FairInv'
  <2>1. PICK x \in {"failed", "expired"} : checkouts' = [checkouts EXCEPT ![c].status = x]
    BY <1>12 DEF GetCheckout, Decline
  <2>2. checkouts[c].status = "pending" /\ sub' = sub /\ book' = book /\ advances' = advances
    BY <1>12 DEF GetCheckout, Decline
  <2>3. PICK e : e = [checkouts[c] EXCEPT !.status = x]
    OBVIOUS
  <2>4. e.status # "paid"
    BY <2>2, <2>3 DEF BillingInv, Session, Opened
  <2>5. checkouts' = [checkouts EXCEPT ![c] = e]
    BY <2>1, <2>3
  <2>6. InBudget(sub', book', n)
    BY <2>2 DEF FairInv
  <2>7. checkouts[c].status # "paid"
    BY <2>2
  <2> QED BY <1>11, <2>2, <2>4, <2>5, <2>6, <2>7
<1>13. ASSUME NEW now \in Recent, NEW c \in Checkouts, NEW item \in Items,
              StartCheckout(c, item, now)
       PROVE  FairInv'
  <2>1. PICK st : st = Found(now)
    OBVIOUS
  <2>2. PICK e : e = [status |-> "pending", item |-> item, expires |-> now + CheckoutTTL]
    OBVIOUS
  <2>3. /\ sub' = st.sub /\ book' = st.book /\ advances' = advances
        /\ checkouts' = [checkouts EXCEPT ![c] = e] /\ checkouts[c].status = "none"
    BY <1>13, <2>1, <2>2 DEF StartCheckout
  <2>4. e.status # "paid" /\ checkouts[c].status # "paid"
    BY <2>2, <2>3
  <2>5. InBudget(sub', book', n)
    BY <1>1, <2>1, <2>3
  <2> QED BY <1>11, <2>3, <2>4, <2>5
<1>14. ASSUME NEW now \in Recent, NEW c \in Checkouts, Confirm(c, now) PROVE FairInv'
  <2> DEFINE item == checkouts[c].item
  <2>1. /\ checkouts[c].status = "pending" /\ advances' = advances
        /\ checkouts' = [checkouts EXCEPT ![c].status = "paid"]
    BY <1>14 DEF Confirm, Payable
  <2>2. IsFiniteSet(Paid') /\ Budget' = n + Months(item)
    BY <2>1, PaidMonths
  <2>3. now \in Int /\ Good(book) /\ item \in Items /\ InBudget(sub, book, n)
    <3>1. item \in Items
      BY <2>1 DEF BillingInv, Session, Opened
    <3> QED BY <3>1, RecentInt DEF BillingInv, Sound, FairInv
  <2>4. InBudget(sub', book', n + Months(item))
    <3>1. CASE item \in Packs
      <4>1. /\ sub' = sub
            /\ book' = AddBucket(book, "topup", PackTokens, now + TopupValidity, <<"topup", c>>)
        BY <1>14, <3>1 DEF Confirm
      <4>2. PackTokens \in Int /\ "topup" \in {"plan_grant", "topup", "adjustment"}
        BY DEF BillingAssumption
      <4>3. Granted(book') = Granted(book)
        BY <2>3, <4>1, <4>2, AddedGrants
      <4>4. n + Months(item) = n
        <5> HIDE DEF n
        <5> QED BY <1>0, <3>1 DEF Months
      <4> QED BY <2>3, <4>1, <4>3, <4>4 DEF InBudget
    <3>2. CASE item \notin Packs
      <4>1. PICK s : s = [plan |-> item, periodEnd |-> AddMonths(now, Length[item]),
                          nextGrant |-> AddMonths(now, 1), cancelAtEnd |-> FALSE]
        OBVIOUS
      <4>2. sub' = s /\ book' = GrantPlan(book, s, now, <<"purchase", c>>)
        BY <1>14, <3>2, <4>1 DEF Confirm
      <4>3. /\ s.plan = item /\ s.periodEnd = AddMonths(now, Length[s.plan])
            /\ s.nextGrant = AddMonths(now, 1) /\ item \in {"monthly", "annual"}
        BY <2>3, <3>2, <4>1 DEF BillingAssumption
      <4>4. s \in Subscription
        <5>1. item \in Plans /\ Length[item] \in Nat
          BY <4>3 DEF Plans, BillingAssumption
        <5> HIDE DEF item
        <5>2. AddMonths(now, Length[item]) \in Int /\ AddMonths(now, 1) \in Int
          BY <2>3, <5>1, MonthsLater
        <5> QED BY <4>1, <5>1, <5>2 DEF Subscription
      <4>5. Granted(book) <= n
        BY <2>3 DEF InBudget
      <4> HIDE DEF item, n
      <4>6. InBudget(s, book', n + Length[s.plan])
        BY <1>0, <2>3, <4>2, <4>3, <4>4, <4>5, BoughtInBudget
      <4> QED BY <3>2, <4>2, <4>3, <4>6 DEF Months
    <3> QED BY <3>1, <3>2
  <2>5. advances' \in Nat
    BY <2>1 DEF FairInv
  <2> HIDE DEF item, n
  <2> QED BY <2>2, <2>4, <2>5 DEF FairInv
<1>15. ASSUME NEW cancel \in BOOLEAN, SetCancel(cancel) PROVE FairInv'
  <2>1. /\ sub # None /\ sub' = [sub EXCEPT !.cancelAtEnd = cancel] /\ book' = book
        /\ advances' = advances /\ checkouts' = checkouts
    BY <1>15 DEF SetCancel
  <2>2. /\ sub'.plan = sub.plan /\ sub'.nextGrant = sub.nextGrant
        /\ sub'.periodEnd = sub.periodEnd
    BY <2>1 DEF BillingInv, Subscription
  <2>3. InBudget(sub', book', n)
    BY <2>1, <2>2 DEF FairInv, InBudget, Scheduled
  <2> QED BY <1>2, <2>1, <2>3
<1> QED BY <1>3, <1>4, <1>5, <1>6, <1>7, <1>8, <1>9, <1>10, <1>12, <1>13, <1>14, <1>15 DEF Next

(* renewLocked, ConfirmDemo, AdminAdvanceCycle: no grant of a paid plan is *)
(* made that nobody paid for.                                              *)
THEOREM NobodyFree == Spec => []NobodyRidesFree
<1>1. Init => FairInv
  <2> SUFFICES ASSUME Init PROVE FairInv
    OBVIOUS
  <2>1. Paid = {} /\ IsFiniteSet({})
    BY FS_EmptySet DEF Init, Paid
  <2> DEFINE w == [c \in Paid |-> Months(checkouts[c].item)]
  <2>2. SumFunction(w) = 0
    <3>1. DOMAIN w = {}
      BY <2>1
    <3> HIDE DEF w
    <3> QED BY <3>1, SumEmpty
  <2>3. Months("annual") \in Int
    BY BillingAssumption, PeriodAssumption DEF Months, BillingAssumption, PeriodAssumption, Plans
  <2>4. Budget = 0
    <3>1. Budget = advances * Months("annual") + SumFunction(w)
      BY DEF Budget
    <3> HIDE DEF w
    <3> QED BY <2>2, <2>3, <3>1 DEF Init
  <2>5. Granted(book) = 0
    <3>1. PaidGrants(EmptyBook) = {}
      BY DEF PaidGrants, EmptyBook, Ids
    <3> QED BY <3>1, FS_EmptySet DEF Granted, Init
  <2> QED BY <2>1, <2>4, <2>5 DEF Init, FairInv, InBudget, Scheduled
<1>2. BillingInv /\ FairInv /\ [Next]_vars => FairInv'
  BY FairStep, BillingAssumption, LinesAssumption, CalendarAssumption, PeriodAssumption
<1>3. FairInv => NobodyRidesFree
  BY DEF FairInv, InBudget, Granted, PaidGrants, Budget, Paid, NobodyRidesFree
<1> QED BY <1>1, <1>2, <1>3, BillingInductive, PTL DEF Spec

=============================================================================
