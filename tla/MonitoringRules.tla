-------------------------- MODULE MonitoringRules --------------------------
(* The arithmetic of monitoring (monitoring/drift.py, anomaly.py,           *)
(* recommend.py, replay.py): how one column of a production window is       *)
(* compared with the baseline's, when a row may be flagged, what a replay   *)
(* changes and when retraining is proposed.                                 *)
(*                                                                          *)
(* A column is [numeric, values, rough].  Its values are a sequence of      *)
(* integers, Missing (NaN) and Infinite (inf, or -inf); the integers of a   *)
(* column of text name its categories.  What is left of it without some     *)
(* rows is a function on the others.  A column of floats is rough when the  *)
(* error that numpy makes in its mean or deviation is not small against the *)
(* deviation: np.std of three times 0.1 is 2^-56, and sums may overflow.  A *)
(* metric is a fraction <<num, den>> or Undefined (None).                   *)
EXTENDS Integers, Sequences, FiniteSets, FiniteSetsExt, Functions

CONSTANTS Missing, Infinite, Undefined

(* NaN and inf are no integers, and None is no metric.                      *)
ASSUME MissingAssumption ==
    /\ Missing \notin Int /\ Infinite \notin Int /\ Missing # Infinite
    /\ Undefined \notin Int \X Int

Severities == {"LOW", "MEDIUM", "HIGH"}

(* The thresholds of DriftConfig.                                           *)
PsiHighShare == <<1, 5>>   \* rows in an empty bin of the baseline: see Psi
KsMedium == <<1, 10>>
KsHigh == <<1, 5>>
ShiftMedium == <<1, 2>>
ShiftHigh == <<1, 1>>
MissingMedium == <<1, 20>>
MissingHigh == <<3, 20>>

Below(x, y) == x[1] * y[2] < y[1] * x[2]

Squared(x) == <<x[1] * x[1], x[2] * x[2]>>

(* _severity: the float of a fraction that is a threshold may be on either  *)
(* side of it.                                                              *)
SeveritiesOf(value, medium, high) ==
    IF value = Undefined \/ Below(value, medium) THEN {"LOW"}
    ELSE IF Below(high, value) THEN {"HIGH"}
    ELSE {s \in Severities : /\ s = "LOW" => ~Below(medium, value)
                             /\ s = "HIGH" => ~Below(value, high)}

MaxSeverity(S) ==
    IF "HIGH" \in S THEN "HIGH" ELSE IF "MEDIUM" \in S THEN "MEDIUM" ELSE "LOW"

(* The severities of a column, given those of two metrics of it.            *)
Worst(S, T) == {MaxSeverity({s, t}) : s \in S, t \in T}

-----------------------------------------------------------------------------
(* Statistics of a window *)

Without(w, value) == Restrict(w, {i \in DOMAIN w : w[i] # value})

(* dropna, and _finite                                                      *)
Present(w) == Without(w, Missing)
Finite(w) == Without(Present(w), Infinite)

Rows(w) == Cardinality(DOMAIN w)

Share(w, Test(_)) == Cardinality({i \in DOMAIN w : Test(w[i])})

Total(w) == SumFunction(w)

Squares(w) == SumFunction([i \in DOMAIN w |-> w[i] * w[i]])

(* The variance, times the square of the number of rows.                    *)
Variance(w) == Rows(w) * Squares(w) - Total(w) * Total(w)

IsConstant(w) == \A i, j \in DOMAIN w : w[i] = w[j]

Distance(x, y) == IF x > y THEN x - y ELSE y - x

(* |the share of b under Test - the share of p under Test|                  *)
ShareShift(b, p, Test(_)) ==
    <<Distance(Share(b, Test) * Rows(p), Share(p, Test) * Rows(b)), Rows(b) * Rows(p)>>

SameShares(b, p) ==
    \A v \in Range(b) \cup Range(p) : ShareShift(b, p, LAMBDA u : u = v)[1] = 0

(* The largest gap of the two empirical distributions.                      *)
KsStatistic(b, p) ==
    LET gap(x) == ShareShift(b, p, LAMBDA v : v <= x)[1]
    IN  IF Rows(b) = 0 \/ Rows(p) = 0 THEN Undefined
        ELSE <<Max({gap(x) : x \in Range(b) \cup Range(p)}), Rows(b) * Rows(p)>>

(* The squares of the standardized shifts: no roots are taken.              *)
MeanShiftSquared(b, p) ==
    IF Rows(b) = 0 \/ Rows(p) = 0 \/ Variance(b) = 0 THEN Undefined
    ELSE LET gap == Total(p) * Rows(b) - Total(b) * Rows(p)
         IN  <<gap * gap, Rows(p) * Rows(p) * Variance(b)>>

MeanShiftSeverities(b, p) ==
    SeveritiesOf(MeanShiftSquared(b, p), Squared(ShiftMedium), Squared(ShiftHigh))

(* |std(p) - std(b)| / std(b) reaches t when std(p)^2 / std(b)^2 reaches    *)
(* (1 + t)^2, or its inverse reaches 1 / (1 - t)^2, which may be 1 / 0.     *)
Up(t) == Squared(<<t[2] + t[1], t[2]>>)
Down(t) == Squared(<<t[2], t[2] - t[1]>>)

StdShiftSeverities(b, p) ==
    IF Rows(b) = 0 \/ Rows(p) = 0 \/ Variance(b) = 0 THEN {"LOW"}
    ELSE LET x == Variance(p) * Rows(b) * Rows(b)
             y == Variance(b) * Rows(p) * Rows(p)
         IN  Worst(SeveritiesOf(<<x, y>>, Up(ShiftMedium), Up(ShiftHigh)),
                   SeveritiesOf(<<y, x>>, Down(ShiftMedium), Down(ShiftHigh)))

(* _standardized_shifts: of a rough column, a shift may be of any size or   *)
(* not a number, which is below no threshold.  A single row is exact.       *)
ShiftSeverities(b, p, rough) ==
    IF rough /\ Rows(b) > 1 /\ Rows(p) > 0 THEN Severities
    ELSE Worst(MeanShiftSeverities(b, p), StdShiftSeverities(b, p))

(* _missing_shift: isna counts NaN, and no infinity.                        *)
MissingSeverities(b, p) ==
    SeveritiesOf(ShareShift(b, p, LAMBDA v : v = Missing), MissingMedium, MissingHigh)

(* The population stability index takes logarithms: what is kept is the set *)
(* of severities it may have.  Same shares give 0; rows in a bin where the *)
(* other window has none give HIGH once they are a fifth of their window,   *)
(* as epsilon is 1e-6.                                                      *)
PsiSeverities(same, displaced) ==
    IF same THEN {"LOW"}
    ELSE IF ~Below(displaced, PsiHighShare) THEN {"HIGH"} ELSE Severities

(* Numeric bins are the baseline's deciles, and one beyond each end.        *)
NumericPsi(b, p) ==
    LET outside(v) == v < Min(Range(b)) \/ v > Max(Range(b))
    IN  IF Rows(b) = 0 \/ Rows(p) = 0 \/ IsConstant(b) THEN {"LOW"}
        ELSE PsiSeverities(SameShares(b, p), <<Share(p, outside), Rows(p)>>)

CategoricalPsi(b, p) ==
    LET new(v) == v \notin Range(b)
        gone(v) == v \notin Range(p)
    IN  IF Rows(b) = 0 \/ Rows(p) = 0 THEN {"LOW"}
        ELSE PsiSeverities(SameShares(b, p),
                 LET arrived == <<Share(p, new), Rows(p)>>
                     left == <<Share(b, gone), Rows(b)>>
                 IN  IF Below(arrived, left) THEN left ELSE arrived)

(* Half the sum of the differences of the categories' shares.               *)
TotalVariation(b, p) ==
    LET gaps == [c \in Range(b) \cup Range(p) |-> ShareShift(b, p, LAMBDA v : v = c)[1]]
    IN  IF Rows(b) = 0 \/ Rows(p) = 0 THEN Undefined
        ELSE <<SumFunction(gaps), 2 * Rows(b) * Rows(p)>>

-----------------------------------------------------------------------------
KsSeverities(b, p) == SeveritiesOf(KsStatistic(b, p), KsMedium, KsHigh)

IsRough(baseline, production) == baseline.rough \/ production.rough

(* Mistake: without the test of the distributions a constant baseline,      *)
(* which has neither psi nor shifts, never drifts.                          *)
NumericDriftWithoutKs(baseline, production) ==
    LET b == Finite(baseline.values)
        p == Finite(production.values)
    IN  Worst(Worst(NumericPsi(b, p), ShiftSeverities(b, p, IsRough(baseline, production))),
              MissingSeverities(baseline.values, production.values))

(* The severities a column may be given.                                    *)
NumericDrift(baseline, production) ==
    LET b == Finite(baseline.values)
        p == Finite(production.values)
    IN  Worst(Worst(Worst(NumericPsi(b, p), KsSeverities(b, p)),
                    ShiftSeverities(b, p, IsRough(baseline, production))),
              MissingSeverities(baseline.values, production.values))

CategoricalDrift(baseline, production) ==
    LET b == Present(baseline.values)
        p == Present(production.values)
    IN  Worst(Worst(CategoricalPsi(b, p), SeveritiesOf(TotalVariation(b, p), KsMedium, KsHigh)),
              MissingSeverities(baseline.values, production.values))

AsNumbers(baseline, production) == baseline.numeric /\ production.numeric

(* detect_drift compares a column as numbers only if both windows have it   *)
(* as numbers.                                                              *)
FeatureDrift(baseline, production) ==
    IF AsNumbers(baseline, production) THEN NumericDrift(baseline, production)
    ELSE CategoricalDrift(baseline, production)

(* Why detect_drift refuses to compare the columns of two frames.           *)
DriftErrors(baseline, production, columns) ==
    {e \in {"no rows", "not in baseline", "not in production", "no columns"} :
        \/ e = "no rows" /\ (baseline.rows = 0 \/ production.rows = 0)
        \/ e = "not in baseline" /\ ~(columns \subseteq baseline.columns)
        \/ e = "not in production" /\ ~(columns \subseteq production.columns)
        \/ e = "no columns" /\ columns = {}}

-----------------------------------------------------------------------------
(* Anomaly detection: robust statistics of the baseline; the isolation      *)
(* forest that scores beside them is not modelled.                          *)
MinBaselineRows == 4

AnomalyErrors(baseline, production, features) ==
    {e \in {"no features", "few rows", "not in production", "no rows"} :
        \/ e = "no features" /\ features = {}
        \/ e = "few rows" /\ baseline.rows < MinBaselineRows
        \/ e = "not in production" /\ ~(features \subseteq production.columns)
        \/ e = "no rows" /\ production.rows = 0}

(* A replay adds noise to the numeric columns that vary and, unless it is   *)
(* normal, resamples the values of the categorical ones.                    *)
ReplayKinds == {"normal", "mild", "severe", "increased_failure_risk"}

ReplayChanges(kind, numeric, varies) == varies /\ (numeric \/ kind # "normal")

(* recommend: the triggers that fire; retraining is proposed if any does.   *)
Triggers(severity, dropped, jumped, due, manual) ==
    {t \in {"high_drift", "performance_drop", "anomaly_rate_jump", "schedule", "manual"} :
        \/ t = "high_drift" /\ severity = "HIGH"
        \/ t = "performance_drop" /\ dropped
        \/ t = "anomaly_rate_jump" /\ jumped
        \/ t = "schedule" /\ due
        \/ t = "manual" /\ manual}

-----------------------------------------------------------------------------
(* All of a window is beyond all of the other, or is new to it.             *)
Apart(baseline, production) ==
    IF AsNumbers(baseline, production)
    THEN LET b == Finite(baseline.values)
             p == Finite(production.values)
         IN  /\ Rows(b) > 0 /\ Rows(p) > 0
             /\ Max(Range(p)) < Min(Range(b)) \/ Min(Range(p)) > Max(Range(b))
    ELSE LET b == Present(baseline.values)
             p == Present(production.values)
         IN  Rows(b) > 0 /\ Rows(p) > 0 /\ Range(p) \cap Range(b) = {}

Lost(baseline, production) ==
    Range(production.values) = {Missing} /\ Missing \notin Range(baseline.values)

(* monitoring/drift.py: whatever the bins of psi, and whatever rounding     *)
(* makes of the shifts, a window whose values are all beyond those of the   *)
(* baseline, or all new, or that is all missing where the baseline misses   *)
(* nothing, is a HIGH drift, also when the baseline is constant and has no  *)
(* deviation to measure by.  A window with the same shares of values is     *)
(* none if rounding leaves the shifts alone: of the rough [0.1, 0.1, 0.1]   *)
(* the guard of drift.py:139 takes 2^-56 for a deviation, and the shift of  *)
(* [0.1, 0.1] is -1.0.                                                      *)
SeesDrift(baseline, production) ==
    /\ Apart(baseline, production) \/ Lost(baseline, production) =>
          FeatureDrift(baseline, production) = {"HIGH"}
    /\ /\ SameShares(baseline.values, production.values)
       /\ AsNumbers(baseline, production) => ~IsRough(baseline, production)
       => FeatureDrift(baseline, production) = {"LOW"}
=============================================================================
