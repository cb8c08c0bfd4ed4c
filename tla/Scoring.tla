------------------------------ MODULE Scoring -------------------------------
(***************************************************************************)
(* The risk score and verdict of a scan (modules/scoring): pure functions  *)
(* of the findings that count and of how the jobs ended.                   *)
(*                                                                         *)
(* A behaviour is a series of scans of one project, each with one finding  *)
(* more or fewer than the one before, or one job that ended otherwise.     *)
(* Findings of an engine that failed are kept, and scored.  Raw scores are *)
(* in thousandths, rounded; all else is the integer arithmetic of the      *)
(* code's last three steps.  Weights and constants are DefaultConfig's.    *)
(*                                                                         *)
(* Left out: the breakdown, informational findings (their weight is zero)  *)
(* and findings whose status does not count.                               *)
(***************************************************************************)
EXTENDS Naturals, Sequences
LOCAL INSTANCE FiniteSetsExt

CONSTANTS
    AtMost,       \* bound: findings of each class by each engine of the scan
    EngineWeight \* EngineWeights, in percent, of those engines

Scored == DOMAIN AtMost

\* A critical finding of a secrets rule is a class of its own.
Classes == {"secret", "critical", "high", "medium", "low"}

ASSUME ScoringAssumption ==
    /\ DOMAIN EngineWeight = Scored /\ \A e \in Scored : EngineWeight[e] \in Nat \ {0}
    /\ \A e \in Scored : DOMAIN AtMost[e] = Classes /\ \A c \in Classes : AtMost[e][c] \in 0 .. 7

VARIABLES
    counts,   \* findings of each class by each engine
    ended     \* how the job of each engine ended

SrVars == <<counts, ended>>

SrTypeOK ==
    /\ counts \in [Scored -> [Classes -> Nat]]
    /\ \A e \in Scored, c \in Classes : counts[e][c] <= AtMost[e][c]
    /\ ended \in [Scored -> {"succeeded", "failed", "skipped"}]

(***************************************************************************)
(* Compute                                                                 *)
(* (An operator whose comment says "instead" is a plausible mistake in the *)
(* operator it precedes; only the mutants use it.)                         *)
(***************************************************************************)

Ran == {e \in Scored : ended[e] = "succeeded"}
IsPartial == \E e \in Scored : ended[e] = "failed"

\* k (1 - exp(-n/k)) for n from 1 to 7, in thousandths
Saturate ==
    [critical |-> <<787, 1264, 1554, 1729, 1836, 1900, 1940>>,
     high     |-> <<906, 1648, 2256, 2753, 3161, 3494, 3767>>,
     medium   |-> <<967, 1872, 2719, 3511, 4252, 4945, 5594>>,
     low      |-> <<988, 1951, 2890, 3807, 4700, 5572, 6422>>]

SeverityWeight == [critical |-> 40, high |-> 15, medium |-> 4, low |-> 1]

Criticals(e) == counts[e]["secret"] + counts[e]["critical"]
BySeverity(e, s) == IF s = "critical" THEN Criticals(e) ELSE counts[e][s]

RawScore(e) ==
    MapThenSumSet(LAMBDA s : IF BySeverity(e, s) = 0 THEN 0
                             ELSE SeverityWeight[s] * Saturate[s][BySeverity(e, s)],
                  DOMAIN SeverityWeight)

\* n / d rounded, halves up
Rounded(n, d) == (2 * n + d) \div (2 * d)
AtMost100(n) == IF n > 100 THEN 100 ELSE n

\* Of RMax = 120 raw points, in percent
Subscore(e) == AtMost100(Rounded(100 * RawScore(e), 120 * 1000))

\* weightedAggregate: over the engines that ran, as a numerator and denominator
SumOfWeights == MapThenSumSet(LAMBDA e : EngineWeight[e], Ran)
WeightedSum  == MapThenSumSet(LAMBDA e : EngineWeight[e] * Subscore(e), Ran)

AllCriticals == MapThenSumSet(Criticals, Scored)
LiveSecret == \E e \in Scored : counts[e]["secret"] > 0

\* Instead: the number of critical findings is looked at first.
CriticalFloorByNumber ==
    CASE AllCriticals >= 3 -> 85
      [] AllCriticals < 3 /\ LiveSecret -> 90
      [] AllCriticals \in {1, 2} /\ ~LiveSecret -> 70
      [] AllCriticals = 0 -> 0
\* criticalFloor: of all findings that count, whether their engine ran or not
CriticalFloor ==
    CASE LiveSecret -> 90
      [] ~LiveSecret /\ AllCriticals >= 3 -> 85
      [] ~LiveSecret /\ AllCriticals \in {1, 2} -> 70
      [] AllCriticals = 0 -> 0

Score ==
    IF Ran = {} \/ WeightedSum <= CriticalFloor * SumOfWeights THEN CriticalFloor
    ELSE Rounded(WeightedSum, SumOfWeights)

Verdict ==
    CASE Score >= 70 -> "block"
      [] Score < 70 /\ (Score >= 30 \/ IsPartial) -> "warn"
      [] Score < 30 /\ ~IsPartial -> "pass"

(***************************************************************************)
(* One scan after another                                                  *)
(***************************************************************************)

SrInit ==
    /\ counts = [e \in Scored |-> [c \in Classes |-> 0]]
    /\ ended \in [Scored -> {"succeeded", "failed", "skipped"}]

Found(e, c) ==
    /\ counts[e][c] < AtMost[e][c]
    /\ counts' = [counts EXCEPT ![e][c] = @ + 1]
    /\ UNCHANGED ended

Fixed(e, c) ==
    /\ counts[e][c] > 0
    /\ counts' = [counts EXCEPT ![e][c] = @ - 1]
    /\ UNCHANGED ended

EndedOtherwise(e, status) ==
    /\ ended' = [ended EXCEPT ![e] = status]
    /\ UNCHANGED counts

SrNext ==
    \/ \E e \in Scored, c \in Classes : Found(e, c) \/ Fixed(e, c)
    \/ \E e \in Scored, s \in {"succeeded", "failed", "skipped"} : EndedOtherwise(e, s)

SrSpec == SrInit /\ [][SrNext]_SrVars

(***************************************************************************)
(* Properties                                                              *)
(***************************************************************************)

\* What a finding does to a scan's assessment: one more never lowers its score,
\* not by the step from one floor to another either; a critical one blocks the
\* scan whichever engine came by it and whatever became of that engine; and an
\* engine that fails where it had succeeded never lets a scan pass.
MoreIsNeverBetter ==
    [][ /\ (\E e \in Scored, c \in Classes : Found(e, c)) => Score' >= Score
        /\ (AllCriticals > 0)' => Verdict' = "block"
        /\ (\E e \in Scored : EndedOtherwise(e, "failed")) => Verdict' # "pass" ]_SrVars
=============================================================================
