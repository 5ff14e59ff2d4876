----------------------------- MODULE DataQuality -----------------------------
(* The health score of a dataset (data/quality.py): checks over its cells,  *)
(* its sensors and its timestamps, each with a penalty.                     *)
(*                                                                          *)
(* A frame is a sequence of rows [asset, time, class, sensor], each value   *)
(* an integer or Blank; given names the role columns that were named,       *)
(* among "asset", "time" and "class".  There is one sensor: the checks of a *)
(* sensor are made of each by itself.  The thresholds are those of          *)
(* QualityConfig, but for three that small frames never reach and that are  *)
(* parameters here.                                                         *)
EXTENDS Integers, Sequences, FiniteSets, FiniteSetsExt, Functions

CONSTANTS
    Blank,
    FlatlineMinLength,    \* 10 in the code
    FlatlineMaxRows,      \* 20 in the code: the rows to one of a run, 1 / 0.05
    MinTrainableSamples   \* 100 in the code

(* NaN is no number.                                                        *)
ASSUME BlankAssumption == Blank \notin Int

ColumnNames == {"asset", "time", "class", "sensor"}

(* n / d > x / y, false for d = 0                                           *)
Exceeds(n, d, x, y) == d > 0 /\ n * y > x * d

Filled(rows, column) == {i \in DOMAIN rows : rows[i][column] # Blank}

CountOf(rows, column, v) == Cardinality({i \in DOMAIN rows : rows[i][column] = v})

ValuesOf(rows, column) == {rows[i][column] : i \in Filled(rows, column)}

(* The k-th smallest of the values of f.                                    *)
KthSmallest(f, k) ==
    CHOOSE v \in Range(f) :
        Cardinality({x \in DOMAIN f : f[x] < v}) < k /\ k <= Cardinality({x \in DOMAIN f : f[x] <= v})

(* Twice the median of the values of f, which has some.                     *)
TwiceMedian(f) ==
    LET n == Cardinality(DOMAIN f)
    IN  KthSmallest(f, (n + 1) \div 2) + KthSmallest(f, n \div 2 + 1)

Absolute(x) == IF x < 0 THEN -x ELSE x

-----------------------------------------------------------------------------
(* Cells and rows *)

MissingPenalty(rows) ==
    LET cells == Len(rows) * Cardinality(ColumnNames)
        missing == SumFunction([c \in ColumnNames |-> CountOf(rows, c, Blank)])
    IN  IF Exceeds(missing, cells, 1, 5) THEN 15 ELSE IF Exceeds(missing, cells, 1, 20) THEN 5 ELSE 0

(* A row is a duplicate of any earlier one.                                 *)
DuplicatePenalty(rows) ==
    LET repeated == Len(rows) - Cardinality({rows[i] : i \in DOMAIN rows})
    IN  IF Exceeds(repeated, Len(rows), 1, 10) THEN 15
        ELSE IF Exceeds(repeated, Len(rows), 1, 100) THEN 5 ELSE 0

-----------------------------------------------------------------------------
(* Sensors *)

ConstantPenalty(rows) ==
    LET filled == Filled(rows, "sensor")
        distinct == Cardinality(ValuesOf(rows, "sensor"))
    IN  IF distinct <= 1 THEN 3
        ELSE IF ~Exceeds(distinct, Cardinality(filled), 1, 1000) THEN 1 ELSE 0

(* Rows whose z-score, 0.6745 |v - median| / mad, exceeds 3.5; none if the  *)
(* median of the deviations, mad, is 0.                                     *)
OutlierPenalty(rows) ==
    LET filled == Filled(rows, "sensor")
        value == [i \in filled |-> rows[i].sensor]
        median2 == TwiceMedian(value)
        deviation2 == [i \in filled |-> Absolute(2 * value[i] - median2)]
        mad4 == TwiceMedian(deviation2)
        far == {i \in filled : 6745 * 2 * deviation2[i] > 35000 * mad4}
    IN  IF Cardinality(filled) >= 2 /\ mad4 > 0 /\ Exceeds(Cardinality(far), Cardinality(filled), 1, 10)
        THEN 5 ELSE 0

-----------------------------------------------------------------------------
(* Timestamps: the rows that have one, in their order, by asset if that is  *)
(* given (rows without an asset are then left out).                         *)
InOrder(rows, S) ==
    LET before(i) == {j \in S : \/ rows[j].time < rows[i].time
                                \/ rows[j].time = rows[i].time /\ j < i}
    IN  [k \in 1..Cardinality(S) |-> CHOOSE i \in S : Cardinality(before(i)) = k - 1]

Groups(rows, given) ==
    LET timed == Filled(rows, "time")
        assets == {rows[i].asset : i \in timed} \ {Blank}
    IN  IF "asset" \in given
        THEN {InOrder(rows, {i \in timed : rows[i].asset = a}) : a \in assets}
        ELSE IF timed = {} THEN {} ELSE {InOrder(rows, timed)}

Readings(rows, group) == [k \in DOMAIN group |-> rows[group[k]].sensor]

(* _max_flatline_run of the readings of a group                             *)
FlatlineRun(values) ==
    LET flat(i, j) == values[i] # Blank /\ \A k \in i..j : values[k] = values[i]
        spans == {s \in (DOMAIN values) \X (DOMAIN values) : s[1] <= s[2] /\ flat(s[1], s[2])}
    IN  IF DOMAIN values = {} THEN 0 ELSE Max({1} \cup {s[2] - s[1] + 1 : s \in spans})

(* The groups with the longest run.                                         *)
Flattest(rows, given) ==
    LET run(g) == FlatlineRun(Readings(rows, g))
    IN  {g \in Groups(rows, given) : \A h \in Groups(rows, given) : run(h) <= run(g)}

(* The run is long, and for the length of its group too.                    *)
IsFlat(rows, group) ==
    LET run == FlatlineRun(Readings(rows, group))
    IN  run >= FlatlineMinLength /\ ~Exceeds(Len(group), run, FlatlineMaxRows, 1)

(* max takes the first of equal runs, in the order the assets appear in.    *)
FlatlinePenalty(rows, given) ==
    LET flattest == Flattest(rows, given)
        first == CHOOSE g \in flattest : \A h \in flattest : Min(Range(g)) <= Min(Range(h))
    IN  IF flattest # {} /\ IsFlat(rows, first) THEN 3 ELSE 0

DuplicateTimesPenalty(rows, given) ==
    LET timed == Filled(rows, "time")
        stamp(i) == IF "asset" \in given THEN <<rows[i].asset, rows[i].time>> ELSE <<rows[i].time>>
    IN  IF Cardinality({stamp(i) : i \in timed}) < Cardinality(timed) THEN 2 ELSE 0

(* The gaps between neighbours of a group: those of more than five times    *)
(* the median, and how irregular they are, std / median > 1.                *)
GapPenalty(rows, given) ==
    LET pairs == UNION {{<<g[k], g[k + 1]>> : k \in 1..(Len(g) - 1)} : g \in Groups(rows, given)}
        gap == [p \in pairs |-> rows[p[2]].time - rows[p[1]].time]
        n == Cardinality(pairs)
        total == SumFunction(gap)
        squares == SumFunction([p \in pairs |-> gap[p] * gap[p]])
        median2 == TwiceMedian(gap)
    IN  IF pairs = {} \/ median2 = 0 THEN 0
        ELSE (IF \E p \in pairs : 2 * gap[p] > 5 * median2 THEN 3 ELSE 0)
             + (IF 4 * (n * squares - total * total) > n * n * median2 * median2 THEN 2 ELSE 0)

-----------------------------------------------------------------------------
(* Roles *)

(* The most records of an asset against the median asset's.                 *)
AssetPenalty(rows) ==
    LET assets == ValuesOf(rows, "asset")
        records == [a \in assets |-> CountOf(rows, "asset", a)]
        most == Max({0} \cup Range(records))
    IN  IF Cardinality(assets) > 1 /\ 2 * most > 10 * TwiceMedian(records) THEN 3 ELSE 0

HasOneClass(rows) == Cardinality(ValuesOf(rows, "class")) = 1

TargetPenalty(rows) ==
    LET counts == {CountOf(rows, "class", v) : v \in ValuesOf(rows, "class")}
    IN  IF HasOneClass(rows) THEN 10
        ELSE IF counts # {} /\ Max(counts) > 20 * Min(counts) THEN 5 ELSE 0

SamplesPenalty(rows, given) ==
    LET trainable == IF "class" \in given THEN Cardinality(Filled(rows, "class")) ELSE Len(rows)
    IN  IF trainable < MinTrainableSamples THEN 10 ELSE 0

-----------------------------------------------------------------------------
(* assess: the columns that have a role are no sensors, and one that has    *)
(* none is left out here.                                                   *)
TimePenalty(rows, given) ==
    IF "time" \notin given THEN 0
    ELSE FlatlinePenalty(rows, given) + DuplicateTimesPenalty(rows, given) + GapPenalty(rows, given)

RolePenalty(rows, given) ==
    (IF "asset" \in given THEN AssetPenalty(rows) ELSE 0)
    + (IF "class" \in given THEN TargetPenalty(rows) ELSE 0)
    + SamplesPenalty(rows, given)

Penalty(rows, given) ==
    MissingPenalty(rows) + DuplicatePenalty(rows) + ConstantPenalty(rows) + OutlierPenalty(rows)
    + TimePenalty(rows, given) + RolePenalty(rows, given)

Score(rows, given) == Max({0, 100 - Penalty(rows, given)})

-----------------------------------------------------------------------------
Rearranged(rows, order) == [i \in DOMAIN rows |-> rows[order[i]]]

Recalibrated(rows) ==
    [i \in DOMAIN rows |-> [rows[i] EXCEPT !.sensor = IF @ = Blank THEN Blank ELSE 3 * @ + 5]]

(* Which of several longest runs is looked at depends on which asset the    *)
(* file begins with: it matters only if they differ in what they say.       *)
RunsAgree(rows, given) ==
    \A g, h \in Flattest(rows, given) : IsFlat(rows, g) <=> IsFlat(rows, h)

(* The score is one of the data, not of the file: neither the order of the  *)
(* rows nor the unit of a sensor matters, as long as the timestamps tell    *)
(* the order of the rows of an asset, and longest runs agree.               *)
ScoreIsOfTheData(rows, given, order) ==
    ("time" \in given => DuplicateTimesPenalty(rows, given) = 0 /\ RunsAgree(rows, given)) =>
        /\ Score(Rearranged(rows, order), given) = Score(rows, given)
        /\ Score(Recalibrated(rows), given) = Score(rows, given)
=============================================================================
