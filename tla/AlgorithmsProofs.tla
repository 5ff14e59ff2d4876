-------------------------- MODULE AlgorithmsProofs --------------------------
(* The algorithms are right for inputs of any size: splits, the exclusion   *)
(* of leaking columns, the answers of the copilot, rankings, and drift.     *)
EXTENDS MCAlgorithms, DataQualityProofs

LEMMA MinIsLeast ==
    ASSUME NEW S \in SUBSET Nat, S # {}
    PROVE  Min(S) \in S /\ \A y \in S : Min(S) <= y
BY LeastNumber DEF Min

-----------------------------------------------------------------------------
(* Splits: which rows a strategy holds out of the rows of S.                *)

Frames(assets, classes) ==
    Seq([asset : assets, time : Int \cup {NoValue}, class : classes])

Timed(rows, S) == \A i \in S : rows[i].time \in Int

(* A size that holds out a quarter at most, as the defaults do.             *)
QuarterAtMost(size) == size[1] \in Nat /\ size[2] \in Nat \ {0} /\ 4 * size[1] <= size[2]

(* The arithmetic of rounding up: half of two or more is left.              *)
LEMMA RoundedUp ==
    ASSUME NEW n \in Nat, n >= 2, NEW a \in Nat, NEW d \in Nat \ {0}, 4 * a <= d
    PROVE  (n * a + d - 1) \div d \in Nat /\ 2 * ((n * a + d - 1) \div d) <= n
<1> DEFINE m == n * a
           q == (m + d - 1) \div d
<1>1. m \in Nat /\ 4 * m <= n * d
  <2>1. n * (4 * a) <= n * d
      OBVIOUS
  <2> QED BY <2>1
<1> HIDE DEF m
<1>2. q \in Nat /\ d * q <= m + d - 1
    BY <1>1
<1> HIDE DEF q
<1>3. 4 * (d * q) < n * d + 4 * d
    BY <1>1, <1>2
<1>4. 4 * q < n + 4
  <2>1. SUFFICES ASSUME 4 * q >= n + 4 PROVE FALSE
      BY <1>2
  <2>2. d * (4 * q) >= d * (n + 4)
      BY <1>2, <2>1
  <2> QED BY <1>2, <1>3, <2>2
<1>5. 2 * q <= n
    BY <1>2, <1>4
<1> QED BY <1>2, <1>5 DEF q, m

(* Half of the rows, or of the assets, stay where they are.                 *)
LEMMA HalfIsLeft ==
    ASSUME NEW n \in Nat, n >= 2, NEW size, QuarterAtMost(size)
    PROVE  HeldOut(n, size) \in Nat /\ 2 * HeldOut(n, size) <= n /\ HeldOut(n, size) < n
<1> DEFINE q == (n * size[1] + size[2] - 1) \div size[2]
<1>1. q \in Nat /\ 2 * q <= n
    BY RoundedUp DEF QuarterAtMost
<1> HIDE DEF q
<1>2. Max({1, q}) \in {1, q}
  <2>1. \E x \in {1, q} : \A y \in {1, q} : x >= y
      BY <1>1
  <2> QED BY <2>1 DEF Max
<1>3. HeldOut(n, size) = Max({1, q})
    BY DEF HeldOut, q
<1> QED BY <1>1, <1>2, <1>3

LEMMA RowsAreFinite ==
    ASSUME NEW assets, NEW classes, NEW rows \in Frames(assets, classes), NEW S \in SUBSET DOMAIN rows
    PROVE  IsFiniteSet(S) /\ Cardinality(S) \in Nat /\ S \subseteq Nat
<1>1. DOMAIN rows = 1..Len(rows) /\ Len(rows) \in Nat
    BY DEF Frames
<1>2. IsFiniteSet(1..Len(rows))
    BY <1>1, FS_Interval
<1>3. IsFiniteSet(S)
    BY <1>1, <1>2, FS_Subset
<1> QED BY <1>1, <1>3, FS_CardinalityType

(* Timed rows are in one order.                                             *)
LEMMA EarlierIsAnOrder ==
    ASSUME NEW rows, NEW S \in SUBSET Nat, Timed(rows, S)
    PROVE  /\ \A i \in S : ~Earlier(rows, i, i)
           /\ \A i, j \in S : i # j => Earlier(rows, i, j) \/ Earlier(rows, j, i)
           /\ \A i, j, k \in S : Earlier(rows, i, j) /\ Earlier(rows, j, k) => Earlier(rows, i, k)
<1>1. \A i \in S : i \in Nat /\ rows[i].time \in Int
    BY DEF Timed
<1> QED BY <1>1 DEF Earlier

(* Of timed rows one is the first: the one with the fewest before it.       *)
LEMMA FirstRow ==
    ASSUME NEW rows, NEW S \in SUBSET Nat, IsFiniteSet(S), S # {}, Timed(rows, S)
    PROVE  \E i \in S : \A j \in S : j # i => Earlier(rows, i, j)
<1> DEFINE before(i) == {j \in S : Earlier(rows, j, i)}
<1>1. \A i \in S : IsFiniteSet(before(i)) /\ Cardinality(before(i)) \in Nat
    BY FS_Subset, FS_CardinalityType
<1> DEFINE counts == {Cardinality(before(i)) : i \in S}
<1>2. PICK least \in counts : \A n \in counts : least <= n
  <2>1. counts \subseteq Nat /\ counts # {}
      BY <1>1
  <2> HIDE DEF counts
  <2> QED BY <2>1, LeastNumber
<1>3. PICK i \in S : least = Cardinality(before(i))
    BY <1>2
<1>4. ASSUME NEW j \in S, Earlier(rows, j, i) PROVE FALSE
  <2>1. before(j) \subseteq before(i) /\ j \in before(i) /\ j \notin before(j)
      BY <1>4, EarlierIsAnOrder
  <2>2. Cardinality(before(j)) <= Cardinality(before(i)) /\ Cardinality(before(j)) # Cardinality(before(i))
    <3> HIDE DEF before
    <3> QED BY <1>1, <2>1, FS_Subset
  <2>3. Cardinality(before(i)) <= Cardinality(before(j))
      BY <1>2, <1>3
  <2>4. Cardinality(before(i)) \in Nat /\ Cardinality(before(j)) \in Nat
      BY <1>1
  <2> HIDE DEF before
  <2> QED BY <2>2, <2>3, <2>4
<1> QED BY <1>4, EarlierIsAnOrder

(* The latest k rows are later than the others, and if there are more than  *)
(* k some are left.                                                         *)
LEMMA LatestAreLater ==
    ASSUME NEW rows, NEW S \in SUBSET Nat, IsFiniteSet(S), Timed(rows, S), NEW k \in Int,
           NEW i \in S \ Latest(rows, S, k), NEW j \in Latest(rows, S, k)
    PROVE  rows[i].time <= rows[j].time
<1> DEFINE after(l) == {m \in S : Earlier(rows, l, m)}
<1>1. j \in S /\ Cardinality(after(j)) < k /\ ~(Cardinality(after(i)) < k)
    BY DEF Latest
<1>2. \A l \in S : rows[l].time \in Int
    BY DEF Timed
<1> SUFFICES ASSUME rows[j].time < rows[i].time PROVE FALSE
    BY <1>1, <1>2
<1>3. after(i) \subseteq after(j)
  <2>1. \A m \in S : Earlier(rows, i, m) => Earlier(rows, j, m)
      BY <1>1, <1>2 DEF Earlier
  <2> QED BY <2>1
<1>4. IsFiniteSet(after(i)) /\ IsFiniteSet(after(j))
    BY FS_Subset
<1> HIDE DEF after
<1>5. Cardinality(after(i)) <= Cardinality(after(j))
    BY <1>3, <1>4, FS_Subset
<1>6. Cardinality(after(i)) \in Nat /\ Cardinality(after(j)) \in Nat
    BY <1>4, FS_CardinalityType
<1> QED BY <1>1, <1>5, <1>6

LEMMA LatestLeaveSome ==
    ASSUME NEW rows, NEW S \in SUBSET Nat, IsFiniteSet(S), S # {}, Timed(rows, S),
           NEW k \in Int, k < Cardinality(S)
    PROVE  \E i \in S : i \notin Latest(rows, S, k)
<1>1. PICK i \in S : \A j \in S : j # i => Earlier(rows, i, j)
    BY FirstRow
<1>2. {j \in S : Earlier(rows, i, j)} = S \ {i}
    BY <1>1, EarlierIsAnOrder
<1>3. Cardinality(S \ {i}) = Cardinality(S) - 1
    BY FS_RemoveElement
<1>4. Cardinality(S) \in Nat
    BY FS_CardinalityType
<1>5. ~(Cardinality({j \in S : Earlier(rows, i, j)}) < k)
    BY <1>2, <1>3, <1>4
<1>6. i \notin Latest(rows, S, k)
    BY <1>5, Zenon DEF Latest
<1> QED BY <1>6

-----------------------------------------------------------------------------
(* What every strategy keeps: it holds out rows of S, some but not all.     *)

(* The strategy applies to the rows of S.                                   *)
Applies(strategy, rows, S, size) == ~Refused(strategy, rows, S, size) /\ Cardinality(S) >= 2

LEMMA TimesAreThere ==
    ASSUME NEW assets, NEW classes, NEW rows \in Frames(assets, classes), NEW S \in SUBSET DOMAIN rows,
           NEW strategy \in {"group_time", "chronological"}, NEW size,
           Applies(strategy, rows, S, size)
    PROVE  Timed(rows, S)
<1>1. \A i \in DOMAIN rows : rows[i].time # NoValue
    BY DEF Applies, Refused
<1>2. ASSUME NEW i \in DOMAIN rows PROVE rows[i].time \in Int \cup {NoValue}
  <2> DEFINE R == [asset : assets, time : Int \cup {NoValue}, class : classes]
  <2>1. rows \in Seq(R)
      BY DEF Frames
  <2>2. rows[i] \in R
    <3> HIDE DEF R
    <3> QED BY <2>1
  <2> QED BY <2>2, Zenon
<1> QED BY <1>1, <1>2 DEF Timed

(* A group of rows with a quarter at most of its assets, or of its rows,    *)
(* held out.                                                                *)
LEMMA GroupsLeaveSome ==
    ASSUME NEW assets, NEW classes, NEW rows \in Frames(assets, classes), NEW S \in SUBSET DOMAIN rows,
           NEW size, QuarterAtMost(size), Applies("group", rows, S, size),
           NEW V \in GroupFolds(rows, S, size)
    PROVE  S \ V # {}
<1> DEFINE A == AssetsOf(rows, S)
<1>1. PICK T \in kSubset(HeldOut(Cardinality(A), size), A) : V = {i \in S : rows[i].asset \in T}
    BY DEF GroupFolds
<1>2. IsFiniteSet(S)
    BY RowsAreFinite
<1>3. IsFiniteSet(A)
  <2>1. A = {rows[i].asset : i \in S}
      BY DEF AssetsOf
  <2> DEFINE f == [i \in S |-> rows[i].asset]
  <2>2. f \in Surjection(S, A)
      BY <2>1 DEF Surjection
  <2> HIDE DEF f, A
  <2> QED BY <1>2, <2>2, FS_Surjection
<1>4. Cardinality(A) \in Nat /\ Cardinality(A) >= 2
    BY <1>3, FS_CardinalityType DEF Applies, Refused
<1>5. T \in SUBSET A /\ Cardinality(T) = HeldOut(Cardinality(A), size)
    BY <1>1 DEF kSubset
<1>6. Cardinality(T) < Cardinality(A)
    BY <1>4, <1>5, HalfIsLeft
<1>7. PICK a \in A : a \notin T
    BY <1>4, <1>5, <1>6
<1>8. PICK i \in S : rows[i].asset = a
    BY DEF AssetsOf
<1> QED BY <1>1, <1>7, <1>8

LEMMA GroupTimeLeavesSome ==
    ASSUME NEW assets, NEW classes, NEW rows \in Frames(assets, classes), NEW S \in SUBSET DOMAIN rows,
           NEW size, QuarterAtMost(size), Applies("group_time", rows, S, size),
           NEW V \in GroupTimeFolds(rows, S, size)
    PROVE  S \ V # {}
<1> DEFINE multi == {a \in AssetsOf(rows, S) : Cardinality(AssetRows(rows, S, a)) >= 2}
           last(T) == Latest(rows, T, HeldOut(Cardinality(T), size))
<1>1. V = IF multi = {} THEN last(S) ELSE UNION {last(AssetRows(rows, S, a)) : a \in multi}
    BY DEF GroupTimeFolds
<1>2. Timed(rows, S)
    BY TimesAreThere
<1>3. ASSUME NEW T \in SUBSET S, Cardinality(T) >= 2 PROVE \E i \in T : i \notin last(T)
  <2>1. IsFiniteSet(T) /\ Cardinality(T) \in Nat /\ T \in SUBSET Nat
      BY RowsAreFinite
  <2>2. HeldOut(Cardinality(T), size) \in Nat /\ HeldOut(Cardinality(T), size) < Cardinality(T)
      BY <1>3, <2>1, HalfIsLeft
  <2>3. T # {}
      BY <1>3, FS_EmptySet
  <2>4. Timed(rows, T)
      BY <1>2 DEF Timed
  <2> QED BY <2>1, <2>2, <2>3, <2>4, LatestLeaveSome
<1>4. CASE multi = {}
  <2>1. Cardinality(S) >= 2
      BY DEF Applies
  <2> QED BY <1>1, <1>3, <1>4, <2>1
<1>5. CASE multi # {}
  <2>1. PICK a \in multi : TRUE
      BY <1>5
  <2>2. PICK i \in AssetRows(rows, S, a) : i \notin last(AssetRows(rows, S, a))
      BY <1>3, <2>1 DEF AssetRows
  <2>3. \A b : i \in last(AssetRows(rows, S, b)) => b = a
      BY <2>2 DEF Latest, AssetRows
  <2>4. i \in S /\ V = UNION {last(AssetRows(rows, S, b)) : b \in multi}
      BY <1>1, <1>5, <2>2 DEF AssetRows
  <2> HIDE DEF last, multi
  <2> QED BY <2>2, <2>3, <2>4
<1> QED BY <1>4, <1>5

LEMMA LatestOfAllLeaveSome ==
    ASSUME NEW assets, NEW classes, NEW rows \in Frames(assets, classes), NEW S \in SUBSET DOMAIN rows,
           NEW size, QuarterAtMost(size), Applies("chronological", rows, S, size)
    PROVE  S \ Latest(rows, S, HeldOut(Cardinality(S), size)) # {}
<1>1. IsFiniteSet(S) /\ Cardinality(S) \in Nat /\ S \in SUBSET Nat /\ Timed(rows, S)
    BY RowsAreFinite, TimesAreThere
<1>2. Cardinality(S) >= 2 /\ S # {}
    BY FS_EmptySet DEF Applies
<1>3. HeldOut(Cardinality(S), size) \in Nat /\ HeldOut(Cardinality(S), size) < Cardinality(S)
    BY <1>1, <1>2, HalfIsLeft
<1> QED BY <1>1, <1>2, <1>3, LatestLeaveSome

LEMMA DrawsLeaveSome ==
    ASSUME NEW assets, NEW classes, NEW rows \in Frames(assets, classes), NEW S \in SUBSET DOMAIN rows,
           NEW size, QuarterAtMost(size), Cardinality(S) >= 2, NEW V \in RandomFolds(rows, S, size)
    PROVE  V \subseteq S /\ S \ V # {}
<1>1. Cardinality(S) \in Nat
    BY RowsAreFinite
<1>2. V \subseteq S /\ Cardinality(V) = HeldOut(Cardinality(S), size)
    BY DEF RandomFolds, kSubset
<1>3. Cardinality(V) < Cardinality(S)
    BY <1>1, <1>2, HalfIsLeft
<1> QED BY <1>1, <1>2, <1>3

(* A class of two rows or more keeps one, as its share of the rows that are *)
(* left is one at least.                                                    *)
LEMMA ClassesAreLeft ==
    ASSUME NEW assets, NEW classes, NEW rows \in Frames(assets, classes), NEW S \in SUBSET DOMAIN rows,
           NEW size, QuarterAtMost(size), Applies("stratified", rows, S, size),
           NEW V \in StratifiedFolds(rows, S, size), NEW c \in ClassesOf(rows, S)
    PROVE  ClassRows(rows, S \ V, c) # {}
<1> DEFINE n == Cardinality(S)
           held == HeldOut(n, size)
           all == Cardinality(ClassRows(rows, S, c))
           kept == Cardinality(ClassRows(rows, S \ V, c))
<1>1. n \in Nat /\ n >= 2
    BY RowsAreFinite DEF Applies
<1>2. held \in Nat /\ 2 * held <= n
    BY <1>1, HalfIsLeft
<1>3. all \in Nat /\ all >= 2
  <2>1. ClassRows(rows, S, c) \in SUBSET DOMAIN rows
      BY DEF ClassRows
  <2>2. all \in Nat
      BY <2>1, RowsAreFinite
  <2>3. ~(all < 2)
      BY DEF Applies, Refused
  <2> QED BY <2>2, <2>3
<1>4. all * (n - held) - kept * n < n
    BY DEF StratifiedFolds
<1>5. kept # 0
  <2> HIDE DEF n, held, all, kept
  <2>1. SUFFICES ASSUME kept = 0 PROVE FALSE
      OBVIOUS
  <2>2. all * (n - held) < n
      BY <1>1, <1>2, <1>3, <1>4, <2>1
  <2>3. all * (n - held) >= 2 * (n - held)
      BY <1>1, <1>2, <1>3
  <2> QED BY <1>1, <1>2, <1>3, <2>2, <2>3
<1> QED BY <1>5, FS_EmptySet

(* What a strategy promises of the fold V it takes from the rows of S.      *)
Promises(strategy, rows, S, V) ==
    /\ strategy = "group" => \A i \in V, j \in S \ V : rows[i].asset # rows[j].asset
    /\ strategy = "group_time" => \A i \in S \ V, j \in V :
          rows[i].asset = rows[j].asset => rows[i].time <= rows[j].time
    /\ strategy = "chronological" => \A i \in S \ V, j \in V : rows[i].time <= rows[j].time
    /\ strategy = "stratified" => \A i \in S : \E j \in S \ V : rows[j].class = rows[i].class

Strategies == {"group_time", "group", "chronological", "stratified", "random"}

LEMMA FoldsKeepPromises ==
    ASSUME NEW assets, NEW classes, NEW rows \in Frames(assets, classes), NEW S \in SUBSET DOMAIN rows,
           NEW size, QuarterAtMost(size), NEW strategy \in Strategies,
           Applies(strategy, rows, S, size), NEW V \in FoldsOf(strategy, rows, S, size)
    PROVE  V \subseteq S /\ S \ V # {} /\ Promises(strategy, rows, S, V)
<1>1. IsFiniteSet(S) /\ Cardinality(S) \in Nat /\ S \in SUBSET Nat /\ Cardinality(S) >= 2
    BY RowsAreFinite DEF Applies
<1>2. ASSUME NEW T \in SUBSET S, Timed(rows, S), Cardinality(T) >= 2,
             NEW i \in T \ Latest(rows, T, HeldOut(Cardinality(T), size)),
             NEW j \in Latest(rows, T, HeldOut(Cardinality(T), size))
      PROVE  rows[i].time <= rows[j].time
  <2>1. IsFiniteSet(T) /\ Cardinality(T) \in Nat /\ T \in SUBSET Nat /\ Timed(rows, T)
      BY <1>2, RowsAreFinite DEF Timed
  <2>2. HeldOut(Cardinality(T), size) \in Int
      BY <1>2, <2>1, HalfIsLeft
  <2> QED BY <2>1, <2>2, LatestAreLater
<1>3. CASE strategy = "group_time"
  <2> DEFINE multi == {a \in AssetsOf(rows, S) : Cardinality(AssetRows(rows, S, a)) >= 2}
             last(T) == Latest(rows, T, HeldOut(Cardinality(T), size))
  <2>1. V \in GroupTimeFolds(rows, S, size) /\ Timed(rows, S)
      BY <1>3, TimesAreThere DEF FoldsOf
  <2>2. V = IF multi = {} THEN last(S) ELSE UNION {last(AssetRows(rows, S, a)) : a \in multi}
      BY <2>1 DEF GroupTimeFolds
  <2>3. S \ V # {}
      BY <1>3, <2>1, GroupTimeLeavesSome
  <2>4. CASE multi = {}
    <3>1. V = last(S) /\ V \subseteq S
        BY <2>2, <2>4 DEF Latest
    <3>2. \A i \in S \ V, j \in V : rows[i].time <= rows[j].time
        BY <1>1, <1>2, <2>1, <3>1
    <3> QED BY <1>3, <2>3, <3>1, <3>2 DEF Promises
  <2>5. CASE multi # {}
    <3>1. V = UNION {last(AssetRows(rows, S, a)) : a \in multi}
        BY <2>2, <2>5
    <3>2. ASSUME NEW j \in V
          PROVE  /\ j \in S /\ rows[j].asset \in multi
                 /\ j \in last(AssetRows(rows, S, rows[j].asset))
      <4>1. PICK a \in multi : j \in last(AssetRows(rows, S, a))
          BY <3>1
      <4>2. j \in AssetRows(rows, S, a)
          BY <4>1 DEF Latest
      <4> QED BY <4>1, <4>2 DEF AssetRows
    <3>3. ASSUME NEW i \in S \ V, NEW j \in V, rows[i].asset = rows[j].asset
          PROVE  rows[i].time <= rows[j].time
      <4> DEFINE T == AssetRows(rows, S, rows[j].asset)
      <4>1. T \in SUBSET S /\ i \in T /\ j \in last(T) /\ Cardinality(T) >= 2
          BY <3>2, <3>3 DEF AssetRows
      <4>2. i \notin last(T)
        <5> HIDE DEF last, multi
        <5> QED BY <3>1, <3>2
      <4> HIDE DEF T
      <4> QED BY <1>2, <2>1, <4>1, <4>2
    <3> QED BY <1>3, <2>3, <3>2, <3>3 DEF Promises
  <2> QED BY <2>4, <2>5
<1>4. CASE strategy = "group"
  <2>1. V \in GroupFolds(rows, S, size)
      BY <1>4 DEF FoldsOf
  <2>2. S \ V # {}
      BY <1>4, <2>1, GroupsLeaveSome
  <2>3. PICK T : V = {i \in S : rows[i].asset \in T}
      BY <2>1 DEF GroupFolds
  <2> QED BY <1>4, <2>2, <2>3 DEF Promises
<1>5. CASE strategy = "chronological"
  <2>1. V = Latest(rows, S, HeldOut(Cardinality(S), size)) /\ Timed(rows, S)
      BY <1>5, TimesAreThere DEF FoldsOf, ChronologicalFolds
  <2>2. V \subseteq S /\ S \ V # {}
      BY <1>5, <2>1, LatestOfAllLeaveSome DEF Latest
  <2>3. \A i \in S \ V, j \in V : rows[i].time <= rows[j].time
      BY <1>1, <1>2, <2>1
  <2> QED BY <1>5, <2>2, <2>3 DEF Promises
<1>6. CASE strategy = "stratified"
  <2>1. V \in StratifiedFolds(rows, S, size) /\ V \in RandomFolds(rows, S, size)
      BY <1>6 DEF FoldsOf, StratifiedFolds
  <2>2. V \subseteq S /\ S \ V # {}
      BY <1>1, <2>1, DrawsLeaveSome
  <2>3. ASSUME NEW i \in S PROVE \E j \in S \ V : rows[j].class = rows[i].class
    <3>1. rows[i].class \in ClassesOf(rows, S)
        BY DEF ClassesOf
    <3>2. ClassRows(rows, S \ V, rows[i].class) # {}
        BY <1>6, <2>1, <3>1, ClassesAreLeft
    <3> QED BY <3>2 DEF ClassRows
  <2> QED BY <1>6, <2>2, <2>3 DEF Promises
<1>7. CASE strategy = "random"
  <2>1. V \in RandomFolds(rows, S, size)
      BY <1>7 DEF FoldsOf
  <2>2. V \subseteq S /\ S \ V # {}
      BY <1>1, <2>1, DrawsLeaveSome
  <2> QED BY <1>7, <2>2 DEF Promises
<1> QED BY <1>3, <1>4, <1>5, <1>6, <1>7 DEF Strategies

(* What is left of the training rows for the validation fold.               *)
ValidationSize(test, validation) ==
    <<validation[1] * test[2], validation[2] * (test[2] - test[1])>>

LEMMA StrategyIsKnown ==
    ASSUME NEW given, NEW classification PROVE Strategy(given, classification) \in Strategies
BY DEF Strategy, Strategies

(* Two folds of all rows, the second within the rest of the first, or none. *)
InTwoSteps(rows, strategy, f) ==
    LET rest == DOMAIN rows \ f.test
    IN  /\ f.test \subseteq DOMAIN rows /\ f.test # {}
        /\ f.validation \subseteq rest /\ f.train = rest \ f.validation /\ f.train # {}
        /\ Promises(strategy, rows, DOMAIN rows, f.test)
        /\ f.validation = {} \/ Promises(strategy, rows, rest, f.validation)

LEMMA FoldsOfASplit ==
    ASSUME NEW assets, NEW classes, NEW rows \in Frames(assets, classes),
           NEW given, NEW classification, NEW present, NEW test, NEW validation,
           QuarterAtMost(test), QuarterAtMost(ValidationSize(test, validation)),
           NEW f \in Split(rows, classification, given, present, test, validation)
    PROVE  InTwoSteps(rows, Strategy(given, classification), f)
<1> DEFINE strategy == Strategy(given, classification)
           all == DOMAIN rows
           size == ValidationSize(test, validation)
<1>1. strategy \in Strategies
    BY StrategyIsKnown
<1>2. PICK g \in FirstSplits(rows, strategy, given, present, test, validation) :
        f \in WithValidation(rows, strategy, g, test, validation)
    BY DEF Split
<1> HIDE DEF strategy
<1>3. PICK T \in FoldsOf(strategy, rows, all, test) :
        /\ T \notin {{}, all} /\ g = [train |-> all \ T, test |-> T, validation |-> {}]
        /\ ~(Len(rows) < MinRows) /\ ~Refused(strategy, rows, all, test)
    BY <1>2 DEF FirstSplits
<1>4. Cardinality(all) >= 2
  <2>1. all = 1..Len(rows) /\ Len(rows) \in Nat
      BY DEF Frames
  <2> QED BY <1>3, <2>1, FS_Interval DEF MinRows
<1>5. T \subseteq all /\ all \ T # {} /\ Promises(strategy, rows, all, T)
    BY <1>1, <1>3, <1>4, FoldsKeepPromises DEF Applies
<1>6. CASE f = g
    BY <1>3, <1>5, <1>6 DEF InTwoSteps, strategy
<1>7. CASE f # g
  <2>1. PICK V \in FoldsOf(strategy, rows, all \ T, size) :
          /\ f = [g EXCEPT !.train = @ \ V, !.validation = V]
          /\ ~(Cardinality(all \ T) < MinRows) /\ ~Refused(strategy, rows, all \ T, size)
      BY <1>2, <1>3, <1>7 DEF WithValidation, ValidationSize
  <2>2. all \ T \in SUBSET DOMAIN rows /\ Cardinality(all \ T) >= 2
    <3>1. Cardinality(all \ T) \in Nat
        BY RowsAreFinite
    <3> QED BY <2>1, <3>1 DEF MinRows
  <2>3. V \subseteq all \ T /\ (all \ T) \ V # {} /\ Promises(strategy, rows, all \ T, V)
    <3> HIDE DEF size
    <3> QED BY <1>1, <2>1, <2>2, FoldsKeepPromises DEF Applies, size
  <2>4. f.test = T /\ f.validation = V /\ f.train = (all \ T) \ V
      BY <1>3, <2>1
  <2> QED BY <1>3, <1>5, <2>3, <2>4 DEF InTwoSteps, strategy
<1> QED BY <1>6, <1>7

(* data/split.py, "leakage-aware": whatever rows a dataset has, and whatever*)
(* the generators draw, no row is in two folds, no asset on both sides of a *)
(* group split, no row of the future in a fold before the one it is in, and *)
(* no class is missing from the rows that are trained on.                   *)
THEOREM SplitsKeepApart ==
    ASSUME NEW assets, NEW classes, NEW rows \in Frames(assets, classes),
           NEW given, NEW classification, NEW present, NEW test, NEW validation,
           QuarterAtMost(test), QuarterAtMost(ValidationSize(test, validation)),
           NEW f \in Split(rows, classification, given, present, test, validation)
    PROVE  KeepsApart(rows, Strategy(given, classification), f)
<1> DEFINE strategy == Strategy(given, classification)
           all == DOMAIN rows
           T == f.test
           rest == all \ T
           V == f.validation
<1>1. /\ T \subseteq all /\ T # {}
      /\ V \subseteq rest /\ f.train = rest \ V /\ f.train # {}
      /\ Promises(strategy, rows, all, T)
      /\ V = {} \/ Promises(strategy, rows, rest, V)
  <2>1. InTwoSteps(rows, strategy, f)
      BY FoldsOfASplit
  <2> HIDE DEF strategy
  <2> QED BY <2>1 DEF InTwoSteps
<1> HIDE DEF strategy, all, T, V, rest
<1>2. f.train \cup V \cup T = all
      /\ \A A, B \in {f.train, V, T} : A # B => A \cap B = {}
    BY <1>1 DEF rest
<1>3. ASSUME strategy = "group", NEW A \in {f.train, V, T},
             NEW B \in {f.train, V, T}, A # B
      PROVE  AssetsOf(rows, A) \cap AssetsOf(rows, B) = {}
  <2>1. \A i \in T, j \in rest : rows[i].asset # rows[j].asset
      BY <1>1, <1>3 DEF Promises, rest
  <2>2. ASSUME NEW i \in V, NEW j \in rest \ V PROVE rows[i].asset # rows[j].asset
    <3>1. Promises(strategy, rows, rest, V)
        BY <1>1
    <3> QED BY <1>3, <3>1 DEF Promises
  <2>3. ASSUME NEW i \in A, NEW j \in B PROVE rows[i].asset # rows[j].asset
    <3>1. CASE A = T
        BY <1>1, <1>3, <2>1, <3>1
    <3>2. CASE B = T
        BY <1>1, <1>3, <2>1, <3>2
    <3>3. CASE A # T /\ B # T
        BY <1>1, <1>3, <2>2, <3>3
    <3> QED BY <3>1, <3>2, <3>3
  <2> QED BY <2>3 DEF AssetsOf
<1>4. ASSUME strategy \in {"group_time", "chronological"}, NEW i \in all, NEW j \in all,
             strategy = "group_time" => rows[i].asset = rows[j].asset,
             (i \in f.train /\ j \notin f.train) \/ (i \in V /\ j \in T)
      PROVE  rows[i].time <= rows[j].time
  <2>1. CASE j \in T
    <3>1. i \in all \ T
        BY <1>1, <1>4 DEF rest
    <3> QED BY <1>1, <1>4, <2>1, <3>1 DEF Promises
  <2>2. CASE j \notin T
    <3>1. i \in rest \ V /\ j \in V
        BY <1>1, <1>4, <2>2 DEF rest
    <3> QED BY <1>1, <1>4, <3>1 DEF Promises
  <2> QED BY <2>1, <2>2
<1>5. ASSUME strategy = "stratified" PROVE ClassesOf(rows, f.train) = ClassesOf(rows, all)
  <2>1. \A i \in all : \E j \in rest : rows[j].class = rows[i].class
      BY <1>1, <1>5 DEF Promises, rest
  <2>2. \A i \in rest : \E j \in rest \ V : rows[j].class = rows[i].class
    <3>1. CASE V = {}
        BY <3>1
    <3>2. CASE V # {}
        BY <1>1, <1>5, <3>2 DEF Promises
    <3> QED BY <3>1, <3>2
  <2>3. \A i \in all : \E j \in f.train : rows[j].class = rows[i].class
      BY <1>1, <2>1, <2>2
  <2>4. f.train \subseteq all
      BY <1>1 DEF rest
  <2> QED BY <2>3, <2>4 DEF ClassesOf
<1> DEFINE ordered(S) == \A i, j \in S :
               (i \in f.train /\ j \notin f.train) \/ (i \in V /\ j \in T)
                   => rows[i].time <= rows[j].time
<1>6. ASSUME strategy = "group_time", NEW a PROVE ordered(AssetRows(rows, all, a))
    BY <1>4, <1>6 DEF AssetRows
<1>7. ASSUME strategy = "chronological" PROVE ordered(all)
    BY <1>4, <1>7
<1> HIDE DEF ordered
<1>8. /\ f.train # {} /\ T # {}
      /\ strategy = "group_time" => \A a \in AssetsOf(rows, all) : ordered(AssetRows(rows, all, a))
    BY <1>1, <1>6
<1>9. strategy = "group" => \A A, B \in {f.train, V, T} :
        A # B => AssetsOf(rows, A) \cap AssetsOf(rows, B) = {}
    BY <1>3
<1> QED BY <1>2, <1>5, <1>7, <1>8, <1>9, Zenon DEF KeepsApart, ordered, strategy, all, T, V

-----------------------------------------------------------------------------
(* The exclusion of leaking columns.                                        *)

(* What is wrong with a column: the first kind that applies.                *)
LEMMA FirstKindCounts ==
    ASSUME NEW c, NEW t, Applying(c, t) # {}
    PROVE  \E i \in Applying(c, t) :
              /\ LeakageOf(c, t) = LeakageKinds(c, t)[i].kind
              /\ \A j \in Applying(c, t) : i <= j
<1>1. Applying(c, t) \in SUBSET Nat
    BY DEF Applying
<1>2. Min(Applying(c, t)) \in Applying(c, t) /\ \A j \in Applying(c, t) : Min(Applying(c, t)) <= j
    BY <1>1, MinIsLeast
<1> QED BY <1>2 DEF LeakageOf

(* A column that is not blocked: either nothing applies to it, or the first *)
(* kind that does is a warning, which comes before the blocks by name.      *)
LEMMA NotBlocked ==
    ASSUME NEW c, NEW t, c.agreement \in Nat, LeakageOf(c, t) \notin Blocking
    PROVE  /\ c.agreement < 999
           /\ ~(IsNumeric(c) /\ IsNumeric(t) /\ c.correlated)
           /\ "label" \in c.hints => c.agreement >= 900
           /\ SemanticType(c) = "identifier_like" => c.agreement >= 900 \/ "post_event" \in c.hints
<1> DEFINE holds(i) == LeakageKinds(c, t)[i].holds
<1>1. /\ holds(1) <=> c.agreement >= 999
      /\ holds(2) <=> IsNumeric(c) /\ IsNumeric(t) /\ c.correlated
      /\ holds(3) <=> c.agreement >= 900
      /\ holds(4) <=> "label" \in c.hints
      /\ holds(5) <=> "post_event" \in c.hints
      /\ SemanticType(c) = "identifier_like" => holds(6)
    BY DEF LeakageKinds
<1>2. \A i : i \in Applying(c, t) <=> i \in 1..7 /\ holds(i)
    BY DEF Applying
<1> HIDE DEF holds
<1>3. CASE Applying(c, t) = {}
    BY <1>1, <1>2, <1>3
<1>4. CASE Applying(c, t) # {}
  <2>1. PICK i \in Applying(c, t) : /\ LeakageOf(c, t) = LeakageKinds(c, t)[i].kind
                                   /\ \A j \in Applying(c, t) : i <= j
      BY <1>4, FirstKindCounts
  <2>2. i \in {1, 2, 3, 4, 5, 6, 7}
      BY <2>1 DEF Applying
  <2>3. i \notin {1, 2, 4, 6}
      BY <2>1 DEF LeakageKinds, Blocking
  <2>4. ~holds(1) /\ ~holds(2)
      BY <1>2, <2>1, <2>2, <2>3
  <2>5. holds(4) => holds(3)
    <3>1. SUFFICES ASSUME holds(4) PROVE holds(3)
        OBVIOUS
    <3>2. i <= 4
        BY <1>2, <2>1, <3>1
    <3>3. i = 3
        BY <2>2, <2>3, <3>2
    <3> QED BY <1>2, <3>3
  <2>6. holds(6) => holds(3) \/ holds(5)
    <3>1. SUFFICES ASSUME holds(6) PROVE holds(3) \/ holds(5)
        OBVIOUS
    <3>2. i <= 6
        BY <1>2, <2>1, <3>1
    <3>3. i \in {3, 5}
        BY <2>2, <2>3, <3>2
    <3> QED BY <1>2, <3>3
  <2> QED BY <1>1, <2>4, <2>5, <2>6
<1> QED BY <1>3, <1>4

(* data/leakage.py and application/experiments.py: whatever columns a frame *)
(* has, and whatever is asked for, no feature of a model gives the target   *)
(* away by its values, and a verdict of safe is kept.                       *)
THEOREM LeaksStayOut ==
    ASSUME NEW frame, NEW train, NEW given, NEW asked \in SUBSET DOMAIN frame,
           NoColumn \notin DOMAIN frame,
           \A n \in DOMAIN frame : frame[n].agreement \in Nat
    PROVE  LeaksAreExcluded(frame, train, given, asked)
<1> SUFFICES ASSUME NEW n \in ResolvedFeatures(frame, train, given, asked)
             PROVE  LET c == frame[n]
                        t == frame[given.target]
                    IN  /\ n \notin {given.target, given.asset, given.time}
                        /\ c.agreement < 999
                        /\ ~(c.correlated /\ IsNumeric(c) /\ IsNumeric(t))
                        /\ "label" \in c.hints => c.agreement >= 900
                        /\ SemanticType(c) = "identifier_like" =>
                              c.agreement >= 900 \/ "post_event" \in c.hints
                        /\ Verdict(frame, given) = "safe" => Applying(c, t) = {}
                        /\ TransformerOf(train[n]) # "drop"
    BY DEF LeaksAreExcluded
<1> DEFINE c == frame[n]
           t == frame[given.target]
<1>1. /\ n \in DOMAIN frame /\ n \notin Excluded(frame, given) \cup {given.target}
      /\ ~DroppedByTraining(train[n])
    BY DEF ResolvedFeatures
<1>2. n \notin {given.target, given.asset, given.time}
    BY <1>1 DEF Excluded
<1>3. n \in Checked(frame, given) /\ LeakageOf(c, t) \notin Blocking
    BY <1>1, <1>2 DEF Checked, Excluded, Blocked
<1>4. TransformerOf(train[n]) # "drop"
    BY <1>1 DEF TransformerOf, DroppedByTraining
<1>5. ASSUME Verdict(frame, given) = "safe" PROVE Applying(c, t) = {}
  <2>1. LeakageOf(c, t) = "none"
      BY <1>3, <1>5 DEF Verdict
  <2>2. ASSUME NEW i \in 1..7 PROVE LeakageKinds(c, t)[i].kind # "none"
    <3>1. i \in {1, 2, 3, 4, 5, 6, 7}
        OBVIOUS
    <3> QED BY <3>1 DEF LeakageKinds
  <2> QED BY <2>1, <2>2, FirstKindCounts DEF Applying
<1> QED BY <1>1, <1>2, <1>3, <1>4, <1>5, NotBlocked

(* data/schema.py and tasks/infer.py: a column that is proposed as a target *)
(* has values of two kinds at least, so the task it is given can be trained.*)
THEOREM ProposalsCanBeTrained ==
    ASSUME NEW frame,
           \A n \in DOMAIN frame : /\ frame[n].filled \in Nat /\ frame[n].distinct \in Nat
                                   /\ frame[n].distinct <= frame[n].filled
    PROVE  ProposalsAreTrainable(frame)
<1> SUFFICES ASSUME NEW n \in DOMAIN frame, TargetRank(frame[n]) > 0 PROVE Trainable(frame, n)
    BY DEF ProposalsAreTrainable
<1>1. frame[n].distinct >= 2
    BY DEF TargetRank
<1>2. frame[n].filled >= 2
    BY <1>1
<1> QED BY <1>1, <1>2 DEF Trainable, TaskOf

-----------------------------------------------------------------------------
(* The copilot.                                                             *)

LEMMA PriorityOrder ==
    /\ DOMAIN Priority = 1..13
    /\ \A i \in 1..13 : Priority[i] \in {"production_promotion", "work_order"} <=> i <= 2
    /\ "unknown" \notin Keywords
<1>1. DOMAIN Priority = 1..13
    BY DEF Priority
<1>2. ASSUME NEW i \in 1..13
      PROVE  /\ Priority[i] \in {"production_promotion", "work_order"} <=> i <= 2
             /\ Priority[i] # "unknown"
  <2>1. i \in {1, 2, 3, 4, 5, 6, 7, 8, 9, 10, 11, 12, 13}
      OBVIOUS
  <2> QED BY <2>1 DEF Priority
<1> QED BY <1>1, <1>2 DEF Keywords

(* The intent is of a table that was touched, and the actions that need an  *)
(* approval go before everything else.                                      *)
LEMMA IntentIsTouched ==
    ASSUME NEW request \in SUBSET Keywords
    PROVE  /\ RouteIntent(request) \in request \cup {"unknown"}
           /\ request \cap {"production_promotion", "work_order"} # {} =>
                 RouteIntent(request) \in {"production_promotion", "work_order"}
<1> DEFINE touched == {i \in DOMAIN Priority : Priority[i] \in request}
<1>1. RouteIntent(request) = IF touched = {} THEN "unknown" ELSE Priority[Min(touched)]
    BY DEF RouteIntent
<1>2. touched \in SUBSET Nat
    BY PriorityOrder
<1>3. touched # {} => Min(touched) \in touched /\ \A i \in touched : Min(touched) <= i
    BY <1>2, MinIsLeast
<1>4. ASSUME NEW word \in request \cap {"production_promotion", "work_order"}
      PROVE  RouteIntent(request) \in {"production_promotion", "work_order"}
  <2>1. PICK i \in DOMAIN Priority : word = Priority[i]
      BY DEF Keywords
  <2>2. i \in touched /\ i \in 1..13 /\ i <= 2
      BY <1>4, <2>1, PriorityOrder
  <2>3. Min(touched) \in touched /\ Min(touched) <= i
      BY <1>3, <2>2
  <2>4. Min(touched) \in 1..13 /\ Min(touched) <= 2
      BY <2>2, <2>3, PriorityOrder
  <2>5. Priority[Min(touched)] \in {"production_promotion", "work_order"}
      BY <2>4, PriorityOrder
  <2> QED BY <1>1, <2>2, <2>5
<1>5. touched # {} => Priority[Min(touched)] \in request
    BY <1>3
<1> HIDE DEF touched
<1> QED BY <1>1, <1>4, <1>5

LEMMA NumbersOfText ==
    ASSUME NEW text, NEW x
    PROVE  x \in NumbersIn(text) <=> \E m \in text : x = m.number
BY Zenon DEF NumbersIn

(* Of numbers written apart, the pattern finds each.                        *)
LEMMA FoundApart ==
    ASSUME NEW text, WrittenApart(text)
    PROVE  FindAll(text) = NumbersIn(text)
<1>1. ASSUME NEW x \in FindAll(text) PROVE x \in NumbersIn(text)
  <2>1. PICK m \in text : x \in m.read
      BY DEF FindAll
  <2>2. x = m.number
      BY <2>1 DEF WrittenApart
  <2> QED BY <2>2, NumbersOfText
<1>2. ASSUME NEW x \in NumbersIn(text) PROVE x \in FindAll(text)
  <2>1. PICK m \in text : x = m.number
      BY NumbersOfText
  <2>2. x \in m.read
      BY <2>1 DEF WrittenApart
  <2> QED BY <2>2 DEF FindAll
<1> QED BY <1>1, <1>2

(* agent/graph.py, "Never invent statistics", "Never take concrete actions":*)
(* whatever is asked, whatever the services answer and whatever a provider  *)
(* says, an answer has only numbers a tool returned when numbers are        *)
(* written apart, it has all that the tool returned, and an action is       *)
(* proposed to those only who touch one.                                    *)
THEOREM CopilotIsGrounded ==
    ASSUME NEW request \in SUBSET Keywords, NEW inputs, NEW texts, NEW answer \in Answers(texts),
           NEW configured, NEW completion
    PROVE  IsGrounded(request, inputs, answer, configured, completion)
<1> DEFINE intent == RouteIntent(request)
           result == RunTool(intent, inputs, answer)
           narrative == Narrative(configured, completion)
           chat == Chat(request, inputs, answer, configured, completion)
           gated == {"production_promotion", "work_order"}
<1>1. /\ intent \in request \cup {"unknown"} /\ (request \cap gated # {} => intent \in gated)
      /\ "unknown" \notin Keywords
    BY IntentIsTouched, PriorityOrder
<1>5. /\ InventsNothing(request, inputs, answer, configured, completion) <=>
             NumbersIn(chat.final.says) \subseteq NumbersIn(Returned(chat))
      /\ NumbersIn({}) = {}
  <2>1. \A x : x \notin NumbersIn({})
      BY NumbersOfText
  <2> QED BY <2>1 DEF InventsNothing
<1> HIDE DEF intent
<1>2. CASE intent \in ActionIntents
  <2>1. chat = [intent |-> intent, results |-> <<>>, final |-> ActionAnswer(intent)]
      BY <1>2 DEF Chat, intent, ToolIntents, Synthesize
  <2>2. /\ ActionAnswer(intent).says = {} /\ ActionAnswer(intent).evidence = {}
        /\ intent \in gated => ActionAnswer(intent).proposed.approval
      BY DEF ActionAnswer
  <2>3. request \cap ActionIntents # {}
      BY <1>1, <1>2 DEF ActionIntents
  <2> HIDE DEF chat
  <2>4. chat.results = <<>> /\ chat.final = ActionAnswer(intent) /\ chat.intent = intent
      BY <2>1
  <2>5. InventsNothing(request, inputs, answer, configured, completion)
      BY <1>5, <2>2, <2>4
  <2> QED BY <1>1, <2>2, <2>3, <2>4, <2>5 DEF IsGrounded, chat
<1>3. CASE intent \in ToolIntents
  <2>1. intent \notin ActionIntents /\ request \cap gated = {}
      BY <1>1, <1>3 DEF ToolIntents, ActionIntents
  <2> DEFINE final == Synthesize(intent, <<result>>, narrative)
  <2>2. chat = [intent |-> intent, results |-> <<result>>, final |-> final]
      BY <1>3 DEF Chat, intent
  <2>3. Returned(chat) = result.says
    <3>1. chat.results = <<result>>
        BY <2>2
    <3> HIDE DEF chat
    <3>2. DOMAIN chat.results = {1} /\ chat.results[1] = result
        BY <3>1
    <3> QED BY <3>2 DEF Returned
  <2>4. result.tool = ToolOf(intent)
      BY DEF RunTool, CallTool, MissingInput
  <2>5. /\ result.ok => /\ answer.kind = "data" /\ Required(ToolOf(intent)) \subseteq inputs
                         /\ result.says = answer.says
        /\ result.says \subseteq answer.says
        /\ narrative.says \subseteq completion.says
      BY DEF RunTool, CallTool, MissingInput, Narrative
  <2> HIDE DEF result, narrative
  <2>6. final = IF ~result.ok THEN InsufficientEvidence ELSE Told(result, narrative)
      BY <2>1 DEF Synthesize
  <2>7. final.evidence # {} =>
            result.ok /\ final.evidence = {ToolOf(intent)} /\ result.says \subseteq final.says
      BY <2>4, <2>6 DEF InsufficientEvidence, Told
  <2>8. final.proposed = Nothing
      BY <2>6 DEF InsufficientEvidence, Told
  <2>9. ASSUME WrittenApart(answer.says \cup completion.says)
        PROVE  NumbersIn(final.says) \subseteq NumbersIn(result.says)
    <3>1. WrittenApart(result.says) /\ WrittenApart(narrative.says)
        BY <2>5, <2>9 DEF WrittenApart
    <3>2. FindAll(result.says) = NumbersIn(result.says)
        BY <3>1, FoundApart
    <3>3. FindAll(narrative.says) = NumbersIn(narrative.says)
        BY <3>1, FoundApart
    <3>4. \/ final.says \subseteq result.says
          \/ /\ final.says = result.says \cup narrative.says
             /\ FindAll(narrative.says) \subseteq FindAll(result.says)
        BY <2>6 DEF InsufficientEvidence, Told, Grounded
    <3> HIDE DEF final
    <3>5. \A S, T : S \subseteq T => NumbersIn(S) \subseteq NumbersIn(T)
      <4> SUFFICES ASSUME NEW S, NEW T, S \subseteq T, NEW x \in NumbersIn(S) PROVE x \in NumbersIn(T)
          OBVIOUS
      <4> QED BY NumbersOfText
    <3>6. \A S, T : NumbersIn(S \cup T) = NumbersIn(S) \cup NumbersIn(T)
      <4>1. \A S, T, x : x \in NumbersIn(S \cup T) <=> x \in NumbersIn(S) \/ x \in NumbersIn(T)
          BY NumbersOfText
      <4> QED BY <4>1
    <3>7. CASE final.says \subseteq result.says
        BY <3>5, <3>7
    <3>8. CASE /\ final.says = result.says \cup narrative.says
               /\ FindAll(narrative.says) \subseteq FindAll(result.says)
        BY <3>2, <3>3, <3>6, <3>8
    <3> QED BY <3>4, <3>7, <3>8
  <2> HIDE DEF final, chat
  <2>10. chat.intent = intent /\ chat.final = final
      BY <2>2
  <2>11. WrittenApart(answer.says \cup completion.says) =>
             InventsNothing(request, inputs, answer, configured, completion)
      BY <1>5, <2>3, <2>9, <2>10
  <2> QED BY <2>1, <2>5, <2>7, <2>8, <2>10, <2>11 DEF IsGrounded, chat
<1>4. CASE intent = "unknown"
  <2>1. request \cap gated = {}
      BY <1>1, <1>4
  <2>2. intent \notin ActionIntents /\ intent \notin ToolIntents
      BY <1>1, <1>4 DEF ActionIntents, ToolIntents
  <2>3. chat = [intent |-> intent, results |-> <<>>, final |-> InsufficientEvidence]
      BY <2>2 DEF Chat, intent, Synthesize
  <2>4. chat.final.says = {} /\ chat.final.evidence = {} /\ chat.final.proposed = Nothing
      BY <2>3 DEF InsufficientEvidence
  <2>5. InventsNothing(request, inputs, answer, configured, completion)
      BY <1>5, <2>4
  <2> HIDE DEF chat
  <2> QED BY <2>1, <2>4, <2>5 DEF IsGrounded, chat
<1> QED BY <1>1, <1>2, <1>3, <1>4 DEF ToolIntents

-----------------------------------------------------------------------------
(* Rankings.  A set of pairs that orders the members of S strictly and      *)
(* totally.                                                                 *)
Orders(less, S) ==
    /\ less \subseteq S \X S
    /\ \A x \in S : <<x, x>> \notin less
    /\ \A x, y, z \in S : <<x, y>> \in less /\ <<y, z>> \in less => <<x, z>> \in less
    /\ \A x, y \in S : x # y => <<x, y>> \in less \/ <<y, x>> \in less

Ordered(s, less) == \A i, j \in DOMAIN s : i < j => <<s[i], s[j]>> \in less

(* Every finite set can be sorted: the place of a member is the number of   *)
(* those before it, and no two have as many.                                *)
LEMMA CanBeSorted ==
    ASSUME NEW S, IsFiniteSet(S), NEW less, Orders(less, S)
    PROVE  \E s \in [1..Cardinality(S) -> S] : Ordered(s, less)
<1> DEFINE n == Cardinality(S)
           before(x) == {y \in S : <<y, x>> \in less}
           place == [x \in S |-> Cardinality(before(x)) + 1]
<1>1. n \in Nat
    BY FS_CardinalityType
<1>2. ASSUME NEW x \in S PROVE place[x] \in 1..n
  <2>1. before(x) \subseteq S /\ before(x) # S
      BY DEF Orders
  <2>2. Cardinality(before(x)) \in Nat /\ Cardinality(before(x)) < n
    <3> HIDE DEF before
    <3>1. IsFiniteSet(before(x)) /\ Cardinality(before(x)) <= n /\ Cardinality(before(x)) # n
        BY <2>1, FS_Subset
    <3>2. Cardinality(before(x)) \in Nat
        BY <3>1, FS_CardinalityType
    <3> QED BY <1>1, <3>1, <3>2
  <2> QED BY <1>1, <2>2
<1>3. ASSUME NEW x \in S, NEW y \in S, <<x, y>> \in less PROVE place[x] < place[y]
  <2>1. before(x) \subseteq before(y) /\ x \in before(y) \ before(x)
      BY <1>3 DEF Orders
  <2>2. before(x) \subseteq S /\ before(y) \subseteq S
      OBVIOUS
  <2>3. IsFiniteSet(before(y)) /\ IsFiniteSet(before(x))
      BY <2>2, FS_Subset
  <2>4. /\ Cardinality(before(x)) \in Nat /\ Cardinality(before(y)) \in Nat
        /\ Cardinality(before(x)) <= Cardinality(before(y))
        /\ Cardinality(before(x)) = Cardinality(before(y)) => before(x) = before(y)
      BY <2>1, <2>3, FS_Subset, FS_CardinalityType
  <2> QED BY <2>1, <2>4
<1> HIDE DEF place
<1>4. place \in Bijection(S, 1..n)
  <2>1. place \in [S -> 1..n]
    <3>1. place = [x \in S |-> place[x]]
        BY DEF place
    <3> QED BY <1>2, <3>1
  <2>2. ASSUME NEW x \in S, NEW y \in S, place[x] = place[y] PROVE x = y
    <3>1. place[x] \in Int /\ ~(place[x] < place[y]) /\ ~(place[y] < place[x])
        BY <1>2, <2>2
    <3>2. <<x, y>> \notin less /\ <<y, x>> \notin less
        BY <1>3, <3>1
    <3> QED BY <3>2 DEF Orders
  <2>3. place \in Injection(S, 1..n)
      BY <2>1, <2>2 DEF Injection, IsInjective
  <2>4. IsFiniteSet(1..n) /\ Cardinality(1..n) = n
      BY <1>1, FS_Interval
  <2>5. place \in Surjection(S, 1..n)
      BY <2>3, <2>4, FS_Injection
  <2> QED BY <2>3, <2>5 DEF Bijection
<1>5. \A i \in 1..n : \E x \in S : place[x] = i
    BY <1>4 DEF Bijection, Surjection
<1> DEFINE s == [i \in 1..n |-> CHOOSE x \in S : place[x] = i]
<1>6. \A i \in 1..n : s[i] \in S /\ place[s[i]] = i
    BY <1>5
<1>7. s \in [1..n -> S] /\ DOMAIN s = 1..n
    BY <1>6
<1> HIDE DEF s
<1>8. ASSUME NEW i \in 1..n, NEW j \in 1..n, i < j PROVE <<s[i], s[j]>> \in less
  <2>1. s[i] # s[j]
      BY <1>6, <1>8
  <2>2. <<s[j], s[i]>> \notin less
      BY <1>1, <1>3, <1>6, <1>8
  <2> QED BY <1>6, <2>1, <2>2 DEF Orders
<1> QED BY <1>7, <1>8 DEF Ordered

(* The first of a sorted sequence comes before all others.                  *)
LEMMA FirstOfSorted ==
    ASSUME NEW S, IsFiniteSet(S), S # {}, NEW less, Orders(less, S),
           NEW s \in [1..Cardinality(S) -> S], Ordered(s, less)
    PROVE  /\ 1 \in DOMAIN s
           /\ \A x \in S : x # s[1] => <<s[1], x>> \in less
<1> DEFINE n == Cardinality(S)
<1>1. n \in Nat /\ n # 0
    BY FS_CardinalityType, FS_EmptySet
<1>2. DOMAIN s = 1..n /\ 1 \in 1..n
    BY <1>1
<1>3. s \in Injection(1..n, S)
  <2>1. ASSUME NEW i \in 1..n, NEW j \in 1..n, s[i] = s[j] PROVE i = j
    <3>1. s[i] \in S /\ <<s[i], s[i]>> \notin less
        BY DEF Orders
    <3>2. ~(i < j) /\ ~(j < i)
        BY <1>2, <2>1, <3>1 DEF Ordered
    <3> QED BY <1>1, <3>2
  <2> QED BY <2>1 DEF Injection, IsInjective
<1>4. IsFiniteSet(1..n) /\ Cardinality(1..n) = n
    BY <1>1, FS_Interval
<1>5. s \in Surjection(1..n, S)
    BY <1>3, <1>4, FS_Injection
<1>6. ASSUME NEW x \in S, x # s[1] PROVE <<s[1], x>> \in less
  <2>1. PICK i \in 1..n : s[i] = x
      BY <1>5 DEF Surjection
  <2>2. 1 < i
      BY <1>1, <1>6, <2>1
  <2> QED BY <1>2, <2>1, <2>2 DEF Ordered
<1> QED BY <1>2, <1>6

(* Tuples of numbers are ordered by the first place where they differ.      *)
LEMMA LexOrders ==
    ASSUME NEW n \in Nat, NEW x \in [1..n -> Int], NEW y \in [1..n -> Int],
           NEW z \in [1..n -> Int]
    PROVE  /\ ~LexLess(x, x)
           /\ LexLess(x, y) /\ LexLess(y, z) => LexLess(x, z)
           /\ x # y => LexLess(x, y) \/ LexLess(y, x)
<1>1. ~LexLess(x, x)
    BY DEF LexLess
<1>2. ASSUME LexLess(x, y), LexLess(y, z) PROVE LexLess(x, z)
  <2>1. PICK i \in 1..n : x[i] < y[i] /\ \A k \in 1..(i - 1) : x[k] = y[k]
      BY <1>2 DEF LexLess
  <2>2. PICK j \in 1..n : y[j] < z[j] /\ \A k \in 1..(j - 1) : y[k] = z[k]
      BY <1>2 DEF LexLess
  <2>3. CASE i <= j
    <3>1. x[i] < z[i]
        BY <2>1, <2>2, <2>3
    <3>2. \A k \in 1..(i - 1) : x[k] = z[k]
        BY <2>1, <2>2, <2>3
    <3> QED BY <3>1, <3>2 DEF LexLess
  <2>4. CASE j < i
    <3>1. x[j] < z[j]
        BY <2>1, <2>2, <2>4
    <3>2. \A k \in 1..(j - 1) : x[k] = z[k]
        BY <2>1, <2>2, <2>4
    <3> QED BY <3>1, <3>2 DEF LexLess
  <2> QED BY <2>3, <2>4
<1>3. ASSUME x # y PROVE LexLess(x, y) \/ LexLess(y, x)
  <2> DEFINE apart == {k \in 1..n : x[k] # y[k]}
  <2>1. apart \in SUBSET Nat /\ apart # {}
      BY <1>3
  <2>2. PICK i \in apart : \A k \in apart : i <= k
    <3> HIDE DEF apart
    <3> QED BY <2>1, LeastNumber
  <2>3. \A k \in 1..(i - 1) : x[k] = y[k]
      BY <2>2
  <2>4. x[i] < y[i] \/ y[i] < x[i]
      BY <2>2
  <2> QED BY <2>2, <2>3, <2>4 DEF LexLess
<1> QED BY <1>1, <1>2, <1>3
-----------------------------------------------------------------------------
CatalogModels == {Catalog[i] : i \in DOMAIN Catalog}

LEMMA NamesAreOrdered ==
    ASSUME NEW m \in CatalogModels, NEW k \in CatalogModels
    PROVE  /\ NameOrder(m) \in 1..4
           /\ NameOrder(m) = NameOrder(k) => m = k
           /\ Complexity(m) \in Nat
BY DEF CatalogModels, Catalog, NameOrder, Complexity

(* Evaluations of different models.  Metrics are numbers where there is     *)
(* one, and no recall is negative.                                          *)
Evaluated(evaluations) ==
    /\ IsFiniteSet(evaluations)
    /\ \A e, f \in evaluations : e.model = f.model => e = f
    /\ \A e \in evaluations : e.model \in CatalogModels

Measured(evaluations) ==
    \A e \in evaluations :
        /\ e.latency \in Int \cup {Unknown}
        /\ \A p \in {"f1", "pr_auc", "rmse"} : e.metrics[p] \in Int \cup {Unknown}
        /\ e.metrics.recall \in Nat \cup {Unknown}

Tasks == ClassificationTasks \cup {"regression"}

(* The keys of candidates are tuples of five numbers, no two the same.      *)
LEMMA RankingKeys ==
    ASSUME NEW p \in {"f1", "pr_auc", "rmse"}, NEW e, e.model \in CatalogModels,
           e.latency \in Int \cup {Unknown}, e.metrics[p] \in Int
    PROVE  LET key == RankingKey(e, p)
           IN  /\ key \in [1..5 -> Int]
               /\ key[1] = (IF p = "rmse" THEN e.metrics[p] ELSE -e.metrics[p])
               /\ key[2] = Complexity(e.model)
               /\ key[3] = (IF e.latency = Unknown THEN 1 ELSE 0)
               /\ key[4] = (IF e.latency = Unknown THEN 0 ELSE e.latency)
               /\ key[5] = NameOrder(e.model)
<1> DEFINE c == Complexity(e.model)
           o == NameOrder(e.model)
           q == (IF p \in LowerIsBetter THEN 1 ELSE -1) * e.metrics[p]
           l == LatencyOf(e)
<1>1. c \in Int /\ o \in Int
    BY NamesAreOrdered
<1>2. q \in Int /\ q = (IF p = "rmse" THEN e.metrics[p] ELSE -e.metrics[p])
    BY DEF LowerIsBetter
<1>3. \E a, b \in Int : l = <<a, b>> /\ a = (IF e.latency = Unknown THEN 1 ELSE 0)
                                     /\ b = (IF e.latency = Unknown THEN 0 ELSE e.latency)
    BY DEF LatencyOf
<1>4. RankingKey(e, p) = <<q, c>> \o l \o <<o>>
    BY DEF RankingKey
<1> HIDE DEF c, o, q, l
<1>5. PICK a, b \in Int : l = <<a, b>> /\ a = (IF e.latency = Unknown THEN 1 ELSE 0)
                                       /\ b = (IF e.latency = Unknown THEN 0 ELSE e.latency)
    BY <1>3
<1>6. RankingKey(e, p) = <<q, c, a, b, o>>
  <2>1. <<q, c>> \o <<a, b>> = <<q, c, a, b>>
    <3>1. /\ <<q, c>> \in Seq(Int) /\ <<a, b>> \in Seq(Int)
          /\ <<q, c, a, b>> \in Seq(Int)
        BY <1>1, <1>2
    <3>2. /\ <<q, c>> \o <<a, b>> \in Seq(Int) /\ Len(<<q, c>> \o <<a, b>>) = 4
          /\ \A i \in 1..4 : (<<q, c>> \o <<a, b>>)[i] = <<q, c, a, b>>[i]
        BY <3>1, ConcatProperties
    <3> QED BY <3>1, <3>2, SeqEqual
  <2>2. <<q, c, a, b>> \o <<o>> = <<q, c, a, b, o>>
    <3>1. /\ <<q, c, a, b>> \in Seq(Int) /\ <<o>> \in Seq(Int)
          /\ <<q, c, a, b, o>> \in Seq(Int)
        BY <1>1, <1>2
    <3>2. /\ <<q, c, a, b>> \o <<o>> \in Seq(Int) /\ Len(<<q, c, a, b>> \o <<o>>) = 5
          /\ \A i \in 1..5 : (<<q, c, a, b>> \o <<o>>)[i] = <<q, c, a, b, o>>[i]
        BY <3>1, ConcatProperties
    <3> QED BY <3>1, <3>2, SeqEqual
  <2> QED BY <1>4, <1>5, <2>1, <2>2
<1>7. <<q, c, a, b, o>> \in [1..5 -> Int]
    BY <1>1, <1>2
<1> QED BY <1>2, <1>5, <1>6, <1>7 DEF c, o

LEMMA PrimaryIsKnown ==
    ASSUME NEW task \in Tasks, NEW rare, NEW evaluations
    PROVE  /\ PrimaryMetric(task, rare, evaluations) \in {"f1", "pr_auc", "rmse"}
           /\ PrimaryMetric(task, rare, evaluations) = "rmse" <=> task = "regression"
BY DEF PrimaryMetric, ResolvePrimaryMetric, Tasks, ClassificationTasks

(* What comes first by its key is not dominated.                            *)
LEMMA FirstIsNotDominated ==
    ASSUME NEW p \in {"f1", "pr_auc", "rmse"},
           NEW e, e.model \in CatalogModels, e.latency \in Int \cup {Unknown}, e.metrics[p] \in Int,
           NEW f, f.model \in CatalogModels, f.latency \in Int \cup {Unknown}, f.metrics[p] \in Int,
           LexLess(RankingKey(e, p), RankingKey(f, p))
    PROVE  ~Dominates(f, e, p)
<1> DEFINE x == RankingKey(e, p)
           y == RankingKey(f, p)
<1>1. /\ x \in [1..5 -> Int]
      /\ x[1] = (IF p = "rmse" THEN e.metrics[p] ELSE -e.metrics[p])
      /\ x[2] = Complexity(e.model)
      /\ x[3] = (IF e.latency = Unknown THEN 1 ELSE 0)
      /\ x[4] = (IF e.latency = Unknown THEN 0 ELSE e.latency)
    BY RankingKeys
<1>2. /\ y \in [1..5 -> Int]
      /\ y[1] = (IF p = "rmse" THEN f.metrics[p] ELSE -f.metrics[p])
      /\ y[2] = Complexity(f.model)
      /\ y[3] = (IF f.latency = Unknown THEN 1 ELSE 0)
      /\ y[4] = (IF f.latency = Unknown THEN 0 ELSE f.latency)
    BY RankingKeys
<1>3. Complexity(e.model) \in Nat /\ Complexity(f.model) \in Nat
    BY NamesAreOrdered
<1> HIDE DEF x, y
<1>4. PICK i \in 1..5 : x[i] < y[i] /\ \A j \in 1..(i - 1) : x[j] = y[j]
    BY <1>1 DEF LexLess, x, y
<1>5. x[1] <= y[1]
    BY <1>1, <1>2, <1>4
<1>6. x[1] = y[1] => x[2] <= y[2]
    BY <1>1, <1>2, <1>4
<1>7. x[1] = y[1] /\ x[2] = y[2] => x[3] <= y[3]
    BY <1>1, <1>2, <1>4
<1>8. x[1] = y[1] /\ x[2] = y[2] /\ x[3] = y[3] => x[4] <= y[4]
    BY <1>1, <1>2, <1>4
<1> SUFFICES ASSUME Dominates(f, e, p) PROVE FALSE
    OBVIOUS
<1>9. /\ f.metrics[p] = e.metrics[p]
      /\ \/ Complexity(f.model) < Complexity(e.model)
         \/ /\ Complexity(f.model) = Complexity(e.model)
            /\ f.latency # Unknown /\ (e.latency = Unknown \/ f.latency < e.latency)
  <2>1. CASE p = "rmse"
      BY <1>1, <1>2, <1>5, <2>1 DEF Dominates
  <2>2. CASE p # "rmse"
      BY <1>1, <1>2, <1>5, <2>2 DEF Dominates
  <2> QED BY <2>1, <2>2
<1>10. x[1] = y[1]
    BY <1>1, <1>2, <1>9
<1>11. /\ Complexity(f.model) = Complexity(e.model)
       /\ f.latency # Unknown /\ (e.latency = Unknown \/ f.latency < e.latency)
    BY <1>1, <1>2, <1>3, <1>6, <1>9, <1>10
<1>12. CASE e.latency = Unknown
    BY <1>1, <1>2, <1>7, <1>10, <1>11, <1>12
<1>13. CASE e.latency # Unknown
    BY <1>1, <1>2, <1>8, <1>10, <1>11, <1>13
<1> QED BY <1>12, <1>13

(* ml/recommend.py and ml/train.py: of any models that trained, with any    *)
(* metrics, the one that is recommended is eligible and nothing eligible is *)
(* preferred to it; without an eligible one nothing is recommended.         *)
THEOREM RecommendedIsBest ==
    ASSUME NEW task \in Tasks, NEW rare \in BOOLEAN, NEW minimumRecall \in Nat,
           NEW evaluations, Evaluated(evaluations), Measured({e \in evaluations : e.ok})
    PROVE  RecommendsTheBest(task, rare, evaluations, minimumRecall)
<1> DEFINE p == PrimaryMetric(task, rare, evaluations)
           meets(e) == e.metrics.recall = Unknown \/ e.metrics.recall >= minimumRecall
           eligible == {e \in evaluations : e.ok /\ e.metrics[p] # Unknown
                                            /\ (task = "regression" \/ meets(e))}
           key(e) == RankingKey(e, p)
           S == Candidates(task, p, evaluations, minimumRecall)
           s == SortedBy(S, key)
           less == {q \in S \X S : LexLess(RankingKey(q[1], p), RankingKey(q[2], p))}
<1>1. p \in {"f1", "pr_auc", "rmse"}
    BY PrimaryIsKnown
<1>2. S = eligible
  <2>1. ASSUME NEW e \in evaluations, e.ok
        PROVE  (task \in ClassificationTasks /\ minimumRecall > 0 =>
                   e.metrics.recall = Unknown \/ e.metrics.recall >= minimumRecall)
               <=> (task = "regression" \/ meets(e))
    <3>1. e.metrics.recall \in Nat \cup {Unknown}
        BY <2>1 DEF Measured
    <3>2. task = "regression" <=> task \notin ClassificationTasks
        BY DEF Tasks, ClassificationTasks
    <3> QED BY <3>1, <3>2
  <2> HIDE DEF p
  <2> QED BY <2>1 DEF Candidates
<1>3. IsFiniteSet(S)
  <2>1. S \subseteq evaluations
      BY DEF Candidates
  <2> HIDE DEF S
  <2> QED BY <2>1, FS_Subset DEF Evaluated
<1>4. \A e \in S : /\ e \in evaluations /\ e.model \in CatalogModels
                   /\ e.latency \in Int \cup {Unknown} /\ e.metrics[p] \in Int
  <2> HIDE DEF p
  <2> QED BY <1>1 DEF Candidates, Evaluated, Measured
<1>5. \A e \in S : RankingKey(e, p) \in [1..5 -> Int] /\ RankingKey(e, p)[5] = NameOrder(e.model)
  <2> HIDE DEF p, S
  <2> QED BY <1>1, <1>4, RankingKeys
<1>6. Orders(less, S)
  <2> HIDE DEF p, S
  <2>1. \A x \in S : ~LexLess(RankingKey(x, p), RankingKey(x, p))
      BY <1>5, LexOrders
  <2>2. ASSUME NEW x \in S, NEW y \in S, NEW z \in S,
               LexLess(RankingKey(x, p), RankingKey(y, p)), LexLess(RankingKey(y, p), RankingKey(z, p))
        PROVE  LexLess(RankingKey(x, p), RankingKey(z, p))
    <3>1. /\ RankingKey(x, p) \in [1..5 -> Int] /\ RankingKey(y, p) \in [1..5 -> Int]
          /\ RankingKey(z, p) \in [1..5 -> Int]
        BY <1>5
    <3> QED BY <2>2, <3>1, LexOrders
  <2>3. ASSUME NEW x \in S, NEW y \in S, x # y
        PROVE  LexLess(RankingKey(x, p), RankingKey(y, p)) \/ LexLess(RankingKey(y, p), RankingKey(x, p))
    <3>1. NameOrder(x.model) # NameOrder(y.model)
        BY <1>4, <2>3, NamesAreOrdered DEF Evaluated
    <3>2. RankingKey(x, p) # RankingKey(y, p)
        BY <1>5, <3>1
    <3> QED BY <1>5, <3>2, LexOrders
  <2> QED BY <2>1, <2>2, <2>3 DEF Orders
<1>7. s \in [1..Cardinality(S) -> S] /\ Ordered(s, less)
  <2>1. PICK t \in [1..Cardinality(S) -> S] : Ordered(t, less)
    <3> HIDE DEF S, less
    <3> QED BY <1>3, <1>6, CanBeSorted
  <2> HIDE DEF S, p
  <2>2. \A i, j \in DOMAIN t : i < j => LexLess(RankingKey(t[i], p), RankingKey(t[j], p))
      BY <2>1 DEF Ordered
  <2>3. s = CHOOSE u \in [1..Cardinality(S) -> S] :
               \A i, j \in DOMAIN u : i < j => LexLess(RankingKey(u[i], p), RankingKey(u[j], p))
      BY DEF SortedBy
  <2> HIDE DEF s
  <2>4. /\ s \in [1..Cardinality(S) -> S]
        /\ \A i, j \in DOMAIN s : i < j => LexLess(RankingKey(s[i], p), RankingKey(s[j], p))
      BY <2>2, <2>3
  <2>5. \A i \in DOMAIN s : s[i] \in S
      BY <2>4
  <2> QED BY <2>4, <2>5 DEF Ordered
<1> DEFINE ranking == Ranking(task, p, evaluations, minimumRecall)
<1>8. ranking = [i \in DOMAIN s |-> s[i].model]
    BY DEF Ranking
<1> HIDE DEF p, S, s, eligible, ranking
<1>9. Len(ranking) = Cardinality(eligible)
  <2>1. Cardinality(S) \in Nat
      BY <1>3, FS_CardinalityType
  <2>2. DOMAIN ranking = 1..Cardinality(S)
      BY <1>7, <1>8
  <2>3. ranking \in Seq({ranking[i] : i \in 1..Cardinality(S)})
      BY <1>8, <2>1, <2>2
  <2> QED BY <1>2, <2>1, <2>2, <2>3
<1>10. ASSUME eligible # {}
       PROVE  \E e \in eligible : e.model = ranking[1] /\ ~\E f \in eligible : Dominates(f, e, p)
  <2>1. /\ 1 \in DOMAIN s
        /\ \A f \in S : f # s[1] => <<s[1], f>> \in less
    <3> HIDE DEF less
    <3> QED BY <1>2, <1>3, <1>6, <1>7, <1>10, FirstOfSorted
  <2>2. s[1] \in S /\ s[1].model = ranking[1]
      BY <1>7, <1>8, <2>1
  <2>3. ASSUME NEW f \in S PROVE ~Dominates(f, s[1], p)
    <3>1. CASE f = s[1]
      <4>1. f.metrics[p] \in Int /\ f.latency \in Int \cup {Unknown} /\ Complexity(f.model) \in Nat
          BY <1>4, NamesAreOrdered
      <4> QED BY <3>1, <4>1 DEF Dominates
    <3>2. CASE f # s[1]
      <4>1. LexLess(RankingKey(s[1], p), RankingKey(f, p))
          BY <2>1, <2>2, <3>2
      <4> QED BY <1>1, <1>4, <2>2, <4>1, FirstIsNotDominated
    <3> QED BY <3>1, <3>2
  <2> QED BY <1>2, <2>2, <2>3
<1> QED BY <1>9, <1>10 DEF RecommendsTheBest, p, eligible, ranking

-----------------------------------------------------------------------------
(* Costs.  The errors of a model are in its matrix, in the order of its     *)
(* labels.                                                                  *)
Counted(evaluations, missed, alarms) ==
    \A e \in evaluations : e.ok =>
        /\ missed[e.model] \in Nat /\ alarms[e.model] \in Nat
        /\ \E a, b, positive :
              /\ a # b /\ e.labels = <<a, b>> /\ positive \in {a, b}
              /\ e.positive = positive \/ (e.positive = Unknown /\ positive = b)
              /\ positive # Unknown
              /\ e.matrix = ConfusionMatrix(e.labels, positive, missed[e.model], alarms[e.model])

LEMMA ErrorsAreCounted ==
    ASSUME NEW e, NEW missed, NEW alarms, NEW a, NEW b, NEW positive,
           a # b, e.labels = <<a, b>>, positive \in {a, b}, positive # Unknown,
           e.positive = positive \/ (e.positive = Unknown /\ positive = b),
           e.matrix = ConfusionMatrix(e.labels, positive, missed, alarms)
    PROVE  CountFnFp(e).fn = missed /\ CountFnFp(e).fp = alarms
<1> DEFINE at == IF positive = a THEN 1 ELSE 2
<1>1. PositiveIndex(e) = at
  <2>1. CASE e.positive = Unknown
      BY <2>1 DEF PositiveIndex
  <2>2. CASE e.positive = positive
    <3>1. \A i \in 1..2 : e.labels[i] = e.positive <=> i = at
        BY <2>2
    <3> QED BY <2>2, <3>1 DEF PositiveIndex
  <2> QED BY <2>1, <2>2
<1>2. /\ e.matrix[at][3 - at] = missed
      /\ e.matrix[3 - at][at] = alarms
    BY DEF ConfusionMatrix
<1> HIDE DEF at
<1> QED BY <1>1, <1>2 DEF CountFnFp

(* ml/cost.py: of any models that trained, the one called cheapest has      *)
(* errors that cost no more than any other's, in whichever order the labels *)
(* are and whatever a missed positive and a false alarm cost.               *)
THEOREM CheapestCostsLeast ==
    ASSUME NEW evaluations, Evaluated(evaluations),
           NEW missed, NEW alarms, Counted(evaluations, missed, alarms),
           NEW cost, cost.fn \in Nat, cost.fp \in Nat
    PROVE  CheapestIsCheapest(evaluations, missed, alarms, cost)
<1> DEFINE price(e) == missed[e.model] * cost.fn + alarms[e.model] * cost.fp
           S == {e \in evaluations : e.ok}
           key(e) == CostKey(e, cost)
           s == SortedBy(S, key)
           less == {q \in S \X S : LexLess(CostKey(q[1], cost), CostKey(q[2], cost))}
<1> SUFFICES ASSUME S # {}
             PROVE  \E e \in S : /\ e.model = CostBest(evaluations, cost)
                                 /\ \A f \in S : price(e) <= price(f)
    BY DEF CheapestIsCheapest
<1>1. ASSUME NEW e \in S
      PROVE  /\ CostKey(e, cost) \in [1..5 -> Int]
             /\ CostKey(e, cost)[1] = price(e) /\ CostKey(e, cost)[5] = NameOrder(e.model)
             /\ price(e) \in Int
  <2>1. /\ missed[e.model] \in Nat /\ alarms[e.model] \in Nat
        /\ CountFnFp(e).fn = missed[e.model] /\ CountFnFp(e).fp = alarms[e.model]
    <3>1. /\ e \in evaluations /\ e.ok
          /\ missed[e.model] \in Nat /\ alarms[e.model] \in Nat
        BY DEF Counted
    <3>2. PICK a, b, positive :
              /\ a # b /\ e.labels = <<a, b>> /\ positive \in {a, b}
              /\ e.positive = positive \/ (e.positive = Unknown /\ positive = b)
              /\ positive # Unknown
              /\ e.matrix = ConfusionMatrix(e.labels, positive, missed[e.model], alarms[e.model])
        BY <3>1 DEF Counted
    <3>3. CountFnFp(e).fn = missed[e.model] /\ CountFnFp(e).fp = alarms[e.model]
        BY <3>2, ErrorsAreCounted
    <3> QED BY <3>1, <3>3
  <2>2. /\ Complexity(e.model) \in Int /\ NameOrder(e.model) \in Int
      BY NamesAreOrdered DEF Evaluated
  <2>3. price(e) \in Int
      BY <2>1
  <2>4. ExpectedCost(e, cost) = price(e)
      BY <2>1 DEF ExpectedCost
  <2> HIDE DEF price
  <2>5. CostKey(e, cost) = <<price(e), missed[e.model], alarms[e.model], Complexity(e.model), NameOrder(e.model)>>
      BY <2>1, <2>4 DEF CostKey
  <2> QED BY <2>1, <2>2, <2>3, <2>5
<1> HIDE DEF price
<1>2. IsFiniteSet(S)
  <2>1. S \subseteq evaluations
      OBVIOUS
  <2> HIDE DEF S
  <2> QED BY <2>1, FS_Subset DEF Evaluated
<1>3. Orders(less, S)
  <2>1. \A e, f \in S : e # f => NameOrder(e.model) # NameOrder(f.model)
      BY NamesAreOrdered DEF Evaluated
  <2> HIDE DEF S
  <2>2. \A x \in S : ~LexLess(CostKey(x, cost), CostKey(x, cost))
      BY <1>1, LexOrders
  <2>3. ASSUME NEW x \in S, NEW y \in S, NEW z \in S,
               LexLess(CostKey(x, cost), CostKey(y, cost)), LexLess(CostKey(y, cost), CostKey(z, cost))
        PROVE  LexLess(CostKey(x, cost), CostKey(z, cost))
    <3>1. /\ CostKey(x, cost) \in [1..5 -> Int] /\ CostKey(y, cost) \in [1..5 -> Int]
          /\ CostKey(z, cost) \in [1..5 -> Int]
        BY <1>1
    <3> QED BY <2>3, <3>1, LexOrders
  <2>4. ASSUME NEW x \in S, NEW y \in S, x # y
        PROVE  LexLess(CostKey(x, cost), CostKey(y, cost)) \/ LexLess(CostKey(y, cost), CostKey(x, cost))
    <3>1. CostKey(x, cost) # CostKey(y, cost)
        BY <1>1, <2>1, <2>4
    <3> QED BY <1>1, <3>1, LexOrders
  <2> QED BY <2>2, <2>3, <2>4 DEF Orders
<1>4. s \in [1..Cardinality(S) -> S] /\ Ordered(s, less)
  <2>1. PICK t \in [1..Cardinality(S) -> S] : Ordered(t, less)
    <3> HIDE DEF S, less
    <3> QED BY <1>2, <1>3, CanBeSorted
  <2> HIDE DEF S
  <2>2. \A i, j \in DOMAIN t : i < j => LexLess(CostKey(t[i], cost), CostKey(t[j], cost))
      BY <2>1 DEF Ordered
  <2>3. s = CHOOSE u \in [1..Cardinality(S) -> S] :
               \A i, j \in DOMAIN u : i < j => LexLess(CostKey(u[i], cost), CostKey(u[j], cost))
      BY DEF SortedBy
  <2> HIDE DEF s
  <2>4. /\ s \in [1..Cardinality(S) -> S]
        /\ \A i, j \in DOMAIN s : i < j => LexLess(CostKey(s[i], cost), CostKey(s[j], cost))
      BY <2>2, <2>3
  <2>5. \A i \in DOMAIN s : s[i] \in S
      BY <2>4
  <2> QED BY <2>4, <2>5 DEF Ordered
<1>5. CostRows(evaluations, cost).ok = s
    BY DEF CostRows
<1> HIDE DEF S, s
<1>6. /\ 1 \in DOMAIN s
      /\ \A f \in S : f # s[1] => <<s[1], f>> \in less
  <2> HIDE DEF less
  <2> QED BY <1>2, <1>3, <1>4, FirstOfSorted
<1>7. s[1] \in S /\ s # <<>>
  <2>1. DOMAIN <<>> = {}
      OBVIOUS
  <2> QED BY <1>4, <1>6, <2>1
<1>8. s[1].model = CostBest(evaluations, cost)
    BY <1>5, <1>7 DEF CostBest
<1>9. ASSUME NEW f \in S PROVE price(s[1]) <= price(f)
  <2>1. CASE f = s[1]
      BY <1>1, <2>1
  <2>2. CASE f # s[1]
    <3>1. LexLess(CostKey(s[1], cost), CostKey(f, cost))
        BY <1>6, <2>2
    <3>2. /\ CostKey(s[1], cost) \in [1..5 -> Int] /\ CostKey(f, cost) \in [1..5 -> Int]
          /\ CostKey(s[1], cost)[1] = price(s[1]) /\ CostKey(f, cost)[1] = price(f)
        BY <1>1, <1>7
    <3>3. PICK i \in 1..5 : /\ CostKey(s[1], cost)[i] < CostKey(f, cost)[i]
                            /\ \A j \in 1..(i - 1) : CostKey(s[1], cost)[j] = CostKey(f, cost)[j]
        BY <3>1, <3>2 DEF LexLess
    <3> QED BY <3>2, <3>3
  <2> QED BY <2>1, <2>2
<1> QED BY <1>7, <1>8, <1>9

-----------------------------------------------------------------------------
(* Drift: windows are compared by how often each value is in them, so only  *)
(* shares matter.                                                           *)

LEMMA RowsAreNatural ==
    ASSUME NEW w, IsFiniteSet(DOMAIN w)
    PROVE  /\ Rows(w) \in Nat /\ (Rows(w) = 0 <=> DOMAIN w = {})
           /\ \A U \in SUBSET DOMAIN w : IsFiniteSet(U) /\ Cardinality(U) \in Nat
                  /\ Cardinality(U) <= Rows(w)
BY FS_Subset, FS_CardinalityType, FS_EmptySet DEF Rows

(* The sum of squares of the differences from x is not negative: so is n    *)
(* times the sum of squares, less the square of the sum.                    *)
LEMMA VarianceIsNatural ==
    ASSUME NEW w, Numbers(w)
    PROVE  Total(w) \in Int /\ Squares(w) \in Int /\ Variance(w) \in Nat
<1> DEFINE D == DOMAIN w
           q == [i \in D |-> w[i] * w[i]]
           S1(s) == SumFunctionOnSet(w, s)
           S2(s) == SumFunctionOnSet(q, s)
<1>1. \A i \in D : w[i] \in Int /\ q[i] \in Int /\ q[i] = w[i] * w[i]
    BY DEF Numbers
<1>2. IsFiniteSet(D)
    BY DEF Numbers
<1>3. \A s \in SUBSET D : IsFiniteSet(s) /\ Cardinality(s) \in Nat /\ S1(s) \in Int /\ S2(s) \in Int
  <2>1. ASSUME NEW s \in SUBSET D
        PROVE  IsFiniteSet(s) /\ Cardinality(s) \in Nat /\ S1(s) \in Int /\ S2(s) \in Int
    <3>1. IsFiniteSet(s) /\ Cardinality(s) \in Nat
        BY <1>2, FS_Subset, FS_CardinalityType
    <3>2. \A i \in s : w[i] \in Int /\ q[i] \in Int
        BY <1>1
    <3> HIDE DEF q
    <3>3. S1(s) \in Int /\ S2(s) \in Int
        BY <3>1, <3>2, SumType
    <3> QED BY <3>1, <3>3
  <2> HIDE DEF S1, S2, D
  <2> QED BY <2>1
<1>4. \A s \in SUBSET D : \A z \in D \ s :
          /\ S1(s \cup {z}) = w[z] + S1(s) /\ S2(s \cup {z}) = q[z] + S2(s)
          /\ Cardinality(s \cup {z}) = Cardinality(s) + 1
  <2>1. ASSUME NEW s \in SUBSET D, NEW z \in D \ s
        PROVE  /\ S1(s \cup {z}) = w[z] + S1(s) /\ S2(s \cup {z}) = q[z] + S2(s)
               /\ Cardinality(s \cup {z}) = Cardinality(s) + 1
    <3>1. Cardinality(s \cup {z}) = Cardinality(s) + 1
        BY <1>3, FS_AddElement
    <3>2. \A i \in D : w[i] \in Int
        BY <1>1
    <3>3. \A i \in D : q[i] \in Int
        BY <1>1
    <3> HIDE DEF q, D
    <3>4. S1(s \cup {z}) = w[z] + S1(s)
        BY <1>2, <3>2, SumAdd
    <3>5. S2(s \cup {z}) = q[z] + S2(s)
        BY <1>2, <3>3, SumAdd
    <3> QED BY <3>1, <3>4, <3>5
  <2> HIDE DEF S1, S2, D
  <2> QED BY <2>1
<1>5. S1({}) = 0 /\ S2({}) = 0 /\ Cardinality({}) = 0
    BY SumOfNone, FS_EmptySet
<1> HIDE DEF S1, S2, q
<1>6. ASSUME NEW x \in Int, NEW t \in SUBSET D
      PROVE  S2(t) + Cardinality(t) * (x * x) - 2 * (x * S1(t)) >= 0
  <2> DEFINE E(s) == S2(s) + Cardinality(s) * (x * x) - 2 * (x * S1(s))
             G == {s \in SUBSET D : E(s) >= 0}
  <2>1. {} \in G
      BY <1>5
  <2>2. ASSUME NEW s \in G, NEW z \in D \ s PROVE s \cup {z} \in G
    <3>1. \A a, b, n, y \in Int :
             (y * y + b) + (n + 1) * (x * x) - 2 * (x * (y + a)) = (b + n * (x * x) - 2 * (x * a)) + (y - x) * (y - x)
        OBVIOUS
    <3>2. \A y \in Int : y * y >= 0
        OBVIOUS
    <3>3. E(s \cup {z}) = E(s) + (w[z] - x) * (w[z] - x)
        BY <1>1, <1>3, <1>4, <3>1
    <3>4. E(s) \in Int /\ E(s) >= 0
        BY <1>3
    <3>5. (w[z] - x) * (w[z] - x) \in Int /\ (w[z] - x) * (w[z] - x) >= 0
        BY <1>1, <3>2
    <3>6. E(s \cup {z}) >= 0
      <4> HIDE DEF E
      <4> QED BY <3>3, <3>4, <3>5
    <3> HIDE DEF E
    <3> QED BY <3>6
  <2>3. t \in G
    <3>1. G \in SUBSET (SUBSET D)
        OBVIOUS
    <3> HIDE DEF G, D
    <3> QED BY <1>2, <2>1, <2>2, <3>1, SubsetInduction
  <2> QED BY <2>3
<1>7. Cardinality(D) * S2(D) - S1(D) * S1(D) >= 0
  <2> DEFINE V(s) == Cardinality(s) * S2(s) - S1(s) * S1(s)
             G == {s \in SUBSET D : V(s) >= 0}
  <2>1. {} \in G
      BY <1>5
  <2>2. ASSUME NEW s \in G, NEW z \in D \ s PROVE s \cup {z} \in G
    <3> DEFINE e == S2(s) + Cardinality(s) * (w[z] * w[z]) - 2 * (w[z] * S1(s))
    <3>1. \A a, b, n, y \in Int :
             (n + 1) * (y * y + b) - (y + a) * (y + a) = (n * b - a * a) + (b + n * (y * y) - 2 * (y * a))
        OBVIOUS
    <3>2. V(s \cup {z}) = V(s) + e
      <4> DEFINE a == S1(s)  b == S2(s)  n == Cardinality(s)  y == w[z]
      <4>1. a \in Int /\ b \in Int /\ n \in Int /\ y \in Int
          BY <1>1, <1>3
      <4>2. S1(s \cup {z}) = y + a /\ S2(s \cup {z}) = y * y + b /\ Cardinality(s \cup {z}) = n + 1
          BY <1>1, <1>4
      <4>3. V(s \cup {z}) = (n + 1) * (y * y + b) - (y + a) * (y + a)
          BY <4>2
      <4> HIDE DEF a, b, n, y
      <4>4. (n + 1) * (y * y + b) - (y + a) * (y + a) = (n * b - a * a) + (b + n * (y * y) - 2 * (y * a))
          BY <3>1, <4>1
      <4> QED BY <4>3, <4>4 DEF a, b, n, y
    <3>3. e \in Int /\ e >= 0
        BY <1>1, <1>3, <1>6
    <3>4. V(s) \in Int /\ V(s) >= 0
        BY <1>3
    <3>5. V(s \cup {z}) >= 0
      <4> HIDE DEF V, e
      <4> QED BY <3>2, <3>3, <3>4
    <3> HIDE DEF V
    <3> QED BY <3>5
  <2>3. D \in G
    <3>1. G \in SUBSET (SUBSET D)
        OBVIOUS
    <3> HIDE DEF G, D
    <3> QED BY <1>2, <2>1, <2>2, <3>1, SubsetInduction
  <2> QED BY <2>3
<1>8. Total(w) = S1(D) /\ Squares(w) = S2(D) /\ Rows(w) = Cardinality(D)
  <2>1. DOMAIN q = D
      BY DEF q
  <2> QED BY <2>1 DEF Total, Squares, Rows, SumFunction, S1, S2, q
<1>9. S1(D) \in Int /\ S2(D) \in Int /\ Cardinality(D) \in Nat
    BY <1>3
<1> QED BY <1>7, <1>8, <1>9 DEF Variance

-----------------------------------------------------------------------------
(* Windows with the same shares of values.                                  *)
Even(b, p) == \A v : CountIn(b, DOMAIN b, v) * Rows(p) = CountIn(p, DOMAIN p, v) * Rows(b)

LEMMA EvenMeans ==
    ASSUME NEW b, NEW p, Numbers(b), Numbers(p), Even(b, p),
           NEW h, \A v \in Range(b) \cup Range(p) : h[v] \in Int,
           NEW f, \A i \in DOMAIN b : f[i] = h[b[i]], NEW g, \A i \in DOMAIN p : g[i] = h[p[i]]
    PROVE  SumFunctionOnSet(f, DOMAIN b) * Rows(p) = SumFunctionOnSet(g, DOMAIN p) * Rows(b)
<1> DEFINE V == Range(b) \cup Range(p)
<1>1. IsFiniteSet(V)
    BY RangeIsFinite, FS_Union DEF Numbers
<1>2. (\A i \in DOMAIN b : b[i] \in V) /\ (\A i \in DOMAIN p : p[i] \in V)
    BY DEF Range
<1>3. Rows(b) \in Int /\ Rows(p) \in Int /\ IsFiniteSet(DOMAIN b) /\ IsFiniteSet(DOMAIN p)
    BY RowsAreNatural DEF Numbers
<1>4. \A v \in V : CountIn(b, DOMAIN b, v) * Rows(p) = CountIn(p, DOMAIN p, v) * Rows(b)
    BY DEF Even
<1> HIDE DEF V
<1>5. \A v \in V : h[v] \in Int
    BY DEF V
<1> QED BY <1>1, <1>2, <1>3, <1>4, <1>5, SameSharesSameMeans

LEMMA EvenTotals ==
    ASSUME NEW b, NEW p, Numbers(b), Numbers(p), Even(b, p)
    PROVE  /\ Total(b) * Rows(p) = Total(p) * Rows(b)
           /\ Squares(b) * Rows(p) = Squares(p) * Rows(b)
<1> DEFINE V == Range(b) \cup Range(p)
           id == [v \in V |-> v]
           sq == [v \in V |-> v * v]
           bb == [i \in DOMAIN b |-> b[i] * b[i]]
           pp == [i \in DOMAIN p |-> p[i] * p[i]]
<1>1. /\ \A i \in DOMAIN b : b[i] \in V /\ b[i] \in Int
      /\ \A i \in DOMAIN p : p[i] \in V /\ p[i] \in Int
      /\ \A v \in V : v \in Int
    BY DEF Range, Numbers
<1>2. /\ \A v \in V : id[v] \in Int /\ sq[v] \in Int
      /\ \A i \in DOMAIN b : b[i] = id[b[i]] /\ bb[i] = sq[b[i]]
      /\ \A i \in DOMAIN p : p[i] = id[p[i]] /\ pp[i] = sq[p[i]]
    BY <1>1
<1>3. DOMAIN bb = DOMAIN b /\ DOMAIN pp = DOMAIN p
    OBVIOUS
<1> HIDE DEF id, sq, bb, pp
<1>4. SumFunctionOnSet(b, DOMAIN b) * Rows(p) = SumFunctionOnSet(p, DOMAIN p) * Rows(b)
    BY <1>2, EvenMeans
<1>5. SumFunctionOnSet(bb, DOMAIN b) * Rows(p) = SumFunctionOnSet(pp, DOMAIN p) * Rows(b)
    BY <1>2, EvenMeans
<1> QED BY <1>3, <1>4, <1>5 DEF Total, Squares, SumFunction, bb, pp

LEMMA EvenUpTo ==
    ASSUME NEW b, NEW p, Numbers(b), Numbers(p), Even(b, p), NEW x \in Int
    PROVE  Cardinality({i \in DOMAIN b : b[i] <= x}) * Rows(p) = Cardinality({i \in DOMAIN p : p[i] <= x}) * Rows(b)
<1> DEFINE V == Range(b) \cup Range(p)
           h == [v \in V |-> IF v <= x THEN 1 ELSE 0]
           B == {i \in DOMAIN b : b[i] <= x}
           P == {i \in DOMAIN p : p[i] <= x}
           f == [i \in DOMAIN b |-> IF i \in B THEN 1 ELSE 0]
           g == [i \in DOMAIN p |-> IF i \in P THEN 1 ELSE 0]
<1>1. /\ \A v \in V : h[v] \in Int
      /\ \A i \in DOMAIN b : f[i] = h[b[i]] /\ f[i] = IF i \in B THEN 1 ELSE 0
      /\ \A i \in DOMAIN p : g[i] = h[p[i]] /\ g[i] = IF i \in P THEN 1 ELSE 0
    BY DEF Range
<1>2. B \in SUBSET DOMAIN b /\ P \in SUBSET DOMAIN p
    OBVIOUS
<1> HIDE DEF h, f, g, B, P
<1>3. Cardinality(B) = SumFunctionOnSet(f, DOMAIN b) /\ Cardinality(P) = SumFunctionOnSet(g, DOMAIN p)
    BY <1>1, <1>2, CountIsSum DEF Numbers
<1>4. SumFunctionOnSet(f, DOMAIN b) * Rows(p) = SumFunctionOnSet(g, DOMAIN p) * Rows(b)
    BY <1>1, EvenMeans
<1> QED BY <1>3, <1>4 DEF B, P

(* The metrics of such windows: no gaps, no shifts.                         *)
LEMMA EvenVariances ==
    ASSUME NEW b, NEW p, Numbers(b), Numbers(p), Even(b, p)
    PROVE  Variance(p) * Rows(b) * Rows(b) = Variance(b) * Rows(p) * Rows(p)
<1> DEFINE n == Rows(b)  m == Rows(p)  t == Total(b)  u == Total(p)  x == Squares(b)  y == Squares(p)
<1>1. n \in Int /\ m \in Int /\ t \in Int /\ u \in Int /\ x \in Int /\ y \in Int
    BY RowsAreNatural, VarianceIsNatural DEF Numbers
<1>2. t * m = u * n /\ x * m = y * n
    BY EvenTotals
<1>3. Variance(p) = m * y - u * u /\ Variance(b) = n * x - t * t
    BY DEF Variance
<1> HIDE DEF n, m, t, u, x, y
<1>4. (m * y - u * u) * n * n = (n * m) * (y * n) - (u * n) * (u * n)
    BY <1>1
<1>5. (n * x - t * t) * m * m = (n * m) * (x * m) - (t * m) * (t * m)
    BY <1>1
<1>6. (m * y - u * u) * n * n = (n * x - t * t) * m * m
    BY <1>2, <1>4, <1>5
<1> QED BY <1>3, <1>6 DEF n, m

LEMMA EvenIsLow ==
    ASSUME NEW b, NEW p, Numbers(b), Numbers(p), Even(b, p), Rows(b) > 0, Rows(p) > 0
    PROVE  /\ KsSeverities(b, p) = {"LOW"}
           /\ MeanShiftSeverities(b, p) = {"LOW"}
           /\ StdShiftSeverities(b, p) = {"LOW"}
<1> DEFINE V == Range(b) \cup Range(p)
           n == Rows(b)
           m == Rows(p)
<1>1. n \in Nat /\ m \in Nat /\ n > 0 /\ m > 0 /\ n * m \in Nat /\ n * m > 0
  <2>1. n \in Nat /\ m \in Nat
      BY RowsAreNatural DEF Numbers
  <2>2. \A i, j \in Nat : i > 0 /\ j > 0 => i * j \in Nat /\ i * j > 0
      OBVIOUS
  <2> HIDE DEF n, m
  <2> QED BY <2>1, <2>2 DEF n, m
<1>2. IsFiniteSet(V) /\ V \in SUBSET Int /\ V # {}
  <2>1. DOMAIN b # {}
    <3>1. IsFiniteSet(DOMAIN b)
        BY DEF Numbers
    <3>2. Rows(b) # 0
        BY <1>1
    <3> HIDE DEF n
    <3> QED BY <3>1, <3>2, RowsAreNatural
  <2> QED BY <2>1, RangeIsFinite, FS_Union DEF Numbers, Range
<1>3. \A x \in Int : Distance(x, x) = 0
    BY DEF Distance
<1>6. KsSeverities(b, p) = {"LOW"}
  <2> DEFINE gap(x) == ShareShift(b, p, LAMBDA v : v <= x)[1]
  <2>1. ASSUME NEW x \in V PROVE gap(x) = 0
    <3> DEFINE cb == Cardinality({i \in DOMAIN b : b[i] <= x})
               cp == Cardinality({i \in DOMAIN p : p[i] <= x})
    <3>1. cb * m = cp * n
        BY <1>2, EvenUpTo
    <3>2. cb * m \in Int
      <4>1. cb \in Nat
          BY RowsAreNatural DEF Numbers
      <4>2. \A i, j \in Nat : i * j \in Int
          OBVIOUS
      <4> HIDE DEF m, cb
      <4> QED BY <1>1, <4>1, <4>2
    <3>3. gap(x) = Distance(cb * m, cp * n)
        BY DEF ShareShift, Share
    <3> HIDE DEF gap, cb, cp
    <3> QED BY <1>3, <3>1, <3>2, <3>3
  <2>2. {gap(x) : x \in V} = {0}
    <3> HIDE DEF gap
    <3> QED BY <1>2, <2>1
  <2>3. Max({0}) = 0
      BY DEF Max
  <2>4. KsStatistic(b, p) = <<0, n * m>>
    <3>1. KsStatistic(b, p) = IF n = 0 \/ m = 0 THEN Undefined ELSE <<Max({gap(x) : x \in V}), n * m>>
        BY Zenon DEF KsStatistic
    <3> HIDE DEF gap, V, n, m
    <3> QED BY <1>1, <2>2, <2>3, <3>1
  <2>5. Below(<<0, n * m>>, KsMedium)
      BY <1>1 DEF Below, KsMedium
  <2> QED BY <2>4, <2>5 DEF KsSeverities, SeveritiesOf
<1>8. CASE Variance(b) = 0
    BY <1>6, <1>8 DEF MeanShiftSeverities, MeanShiftSquared, StdShiftSeverities, SeveritiesOf
<1>9. CASE Variance(b) # 0
  <2> DEFINE s == Variance(b) * m * m
  <2>1. s \in Int /\ s > 0 /\ s = m * m * Variance(b) /\ s = Variance(p) * n * n
    <3>1. Variance(b) \in Nat /\ Variance(b) > 0
        BY <1>9, VarianceIsNatural
    <3>2. \A i, j \in Nat : i > 0 /\ j > 0 => i * j * j \in Nat /\ i * j * j > 0 /\ i * j * j = j * j * i
      <4>1. \A i, j \in Nat : i > 0 /\ j > 0 => i * j \in Nat /\ i * j > 0
          OBVIOUS
      <4>2. \A i, j \in Nat : i > 0 /\ j > 0 => (i * j) * j \in Nat /\ (i * j) * j > 0
          BY <4>1
      <4>3. \A i, j \in Nat : i * j * j = j * j * i
          OBVIOUS
      <4> QED BY <4>2, <4>3
    <3>3. Variance(p) * n * n = Variance(b) * m * m
        BY EvenVariances
    <3> HIDE DEF m, n
    <3> QED BY <1>1, <3>1, <3>2, <3>3
  <2>2. MeanShiftSeverities(b, p) = {"LOW"}
    <3>1. Total(b) * m = Total(p) * n
        BY EvenTotals
    <3>2. Total(p) * n \in Int
      <4>1. Total(p) \in Int
          BY VarianceIsNatural
      <4> HIDE DEF n
      <4> QED BY <1>1, <4>1
    <3>3. Total(p) * n - Total(b) * m = 0
        BY <3>1, <3>2
    <3>4. MeanShiftSquared(b, p) = <<0, s>>
      <4>1. MeanShiftSquared(b, p) = <<(Total(p) * n - Total(b) * m) * (Total(p) * n - Total(b) * m), m * m * Variance(b)>>
          BY <1>1, <1>9 DEF MeanShiftSquared
      <4> QED BY <2>1, <3>3, <4>1
    <3>5. Below(<<0, s>>, Squared(ShiftMedium))
      <4> HIDE DEF s
      <4> QED BY <2>1 DEF Below, Squared, ShiftMedium
    <3> QED BY <3>4, <3>5 DEF MeanShiftSeverities, SeveritiesOf
  <2>3. StdShiftSeverities(b, p) = {"LOW"}
    <3>1. StdShiftSeverities(b, p) =
              Worst(SeveritiesOf(<<s, s>>, Up(ShiftMedium), Up(ShiftHigh)),
                    SeveritiesOf(<<s, s>>, Down(ShiftMedium), Down(ShiftHigh)))
        BY <1>1, <1>9, <2>1 DEF StdShiftSeverities
    <3> HIDE DEF s
    <3>2. Below(<<s, s>>, Up(ShiftMedium)) /\ Below(<<s, s>>, Down(ShiftMedium))
        BY <2>1 DEF Up, Down, ShiftMedium, Squared, Below
    <3>3. /\ SeveritiesOf(<<s, s>>, Up(ShiftMedium), Up(ShiftHigh)) = {"LOW"}
          /\ SeveritiesOf(<<s, s>>, Down(ShiftMedium), Down(ShiftHigh)) = {"LOW"}
        BY <3>2 DEF SeveritiesOf
    <3> QED BY <3>1, <3>3 DEF Worst, MaxSeverity
  <2> QED BY <1>6, <2>2, <2>3
<1> QED BY <1>8, <1>9

(* Categories need no numbers.                                              *)
LEMMA EvenVariesNot ==
    ASSUME NEW b, NEW p, IsFiniteSet(DOMAIN b), IsFiniteSet(DOMAIN p), Even(b, p),
           Rows(b) > 0, Rows(p) > 0
    PROVE  SeveritiesOf(TotalVariation(b, p), KsMedium, KsHigh) = {"LOW"}
<1> DEFINE V == Range(b) \cup Range(p)
           n == Rows(b)
           m == Rows(p)
           gaps == [c \in V |-> ShareShift(b, p, LAMBDA v : v = c)[1]]
<1>1. n \in Nat /\ m \in Nat /\ n > 0 /\ m > 0 /\ 2 * n * m \in Int /\ 2 * n * m > 0
  <2>1. n \in Nat /\ m \in Nat
      BY RowsAreNatural
  <2>2. \A i, j \in Nat : i > 0 /\ j > 0 => 2 * i * j \in Int /\ 2 * i * j > 0
    <3>1. \A i, j \in Nat : i > 0 /\ j > 0 => i * j \in Int /\ i * j > 0
        OBVIOUS
    <3>2. \A i, j \in Nat : 2 * i * j = 2 * (i * j)
        OBVIOUS
    <3> QED BY <3>1, <3>2
  <2> HIDE DEF n, m
  <2> QED BY <2>1, <2>2 DEF n, m
<1>2. ASSUME NEW v PROVE ShareShift(b, p, LAMBDA u : u = v)[1] = 0
  <2>1. Share(b, LAMBDA u : u = v) = CountIn(b, DOMAIN b, v)
            /\ Share(p, LAMBDA u : u = v) = CountIn(p, DOMAIN p, v)
      BY DEF Share, CountIn
  <2>2. CountIn(b, DOMAIN b, v) * m = CountIn(p, DOMAIN p, v) * n
      BY DEF Even
  <2>3. CountIn(b, DOMAIN b, v) * m \in Int
    <3>1. CountIn(b, DOMAIN b, v) \in Nat
        BY RowsAreNatural DEF CountIn
    <3>2. \A i, j \in Nat : i * j \in Int
        OBVIOUS
    <3> HIDE DEF m
    <3> QED BY <1>1, <3>1, <3>2
  <2>4. \A x \in Int : Distance(x, x) = 0
      BY DEF Distance
  <2> QED BY <2>1, <2>2, <2>3, <2>4 DEF ShareShift
<1>3. DOMAIN gaps = V /\ (\A c \in V : gaps[c] = 0) /\ IsFiniteSet(V)
  <2>1. IsFiniteSet(V)
    <3>1. IsFiniteSet(Range(b)) /\ IsFiniteSet(Range(p))
        BY RangeIsFinite
    <3> QED BY <3>1, FS_Union
  <2>2. \A c \in V : gaps[c] = ShareShift(b, p, LAMBDA v : v = c)[1]
      OBVIOUS
  <2>3. \A c \in V : gaps[c] = 0
      BY <1>2, <2>2
  <2> QED BY <2>1, <2>3
<1>4. SumFunction(gaps) = 0
  <2> HIDE DEF gaps, V
  <2>1. SumFunctionOnSet(gaps, V) = 0
      BY <1>3, SumOfZeros
  <2> QED BY <1>3, <2>1 DEF SumFunction
<1>5. TotalVariation(b, p) = <<0, 2 * n * m>>
    BY <1>1, <1>4 DEF TotalVariation
<1>6. Below(<<0, 2 * n * m>>, KsMedium)
  <2> HIDE DEF n, m
  <2> QED BY <1>1 DEF Below, KsMedium
<1> QED BY <1>5, <1>6 DEF SeveritiesOf

(* A window has rows, of numbers, Missing and Infinite.                     *)
Window(w) ==
    /\ IsFiniteSet(DOMAIN w) /\ DOMAIN w # {}
    /\ \A i \in DOMAIN w : w[i] \in Int \cup {Missing, Infinite}

LEMMA WithoutRows ==
    ASSUME NEW w, IsFiniteSet(DOMAIN w), NEW value
    PROVE  /\ DOMAIN Without(w, value) = {i \in DOMAIN w : w[i] # value}
           /\ \A i \in DOMAIN Without(w, value) : Without(w, value)[i] = w[i]
           /\ IsFiniteSet(DOMAIN Without(w, value))
<1> DEFINE D == {i \in DOMAIN w : w[i] # value}
<1>1. Without(w, value) = [i \in D |-> w[i]]
    BY DEF Without, Restrict
<1>2. IsFiniteSet(D)
    BY FS_Subset
<1> QED BY <1>1, <1>2

LEMMA FiniteRows ==
    ASSUME NEW w, Window(w)
    PROVE  IsFiniteSet(DOMAIN Present(w)) /\ Numbers(Finite(w))
<1>1. /\ DOMAIN Present(w) = {i \in DOMAIN w : w[i] # Missing} /\ IsFiniteSet(DOMAIN Present(w))
      /\ \A i \in DOMAIN Present(w) : Present(w)[i] = w[i]
    BY WithoutRows DEF Window, Present
<1>2. /\ DOMAIN Finite(w) = {i \in DOMAIN Present(w) : Present(w)[i] # Infinite}
      /\ IsFiniteSet(DOMAIN Finite(w))
      /\ \A i \in DOMAIN Finite(w) : Finite(w)[i] = Present(w)[i]
    BY <1>1, WithoutRows DEF Finite
<1> QED BY <1>1, <1>2 DEF Numbers, Window

LEMMA CountsAreNatural ==
    ASSUME NEW w, IsFiniteSet(DOMAIN w), NEW v
    PROVE  CountIn(w, DOMAIN w, v) \in Nat /\ CountIn(w, DOMAIN w, v) <= Rows(w)
           /\ (v \notin Range(w) => CountIn(w, DOMAIN w, v) = 0)
           /\ (v \in Range(w) => CountIn(w, DOMAIN w, v) > 0)
<1> DEFINE U == {i \in DOMAIN w : w[i] = v}
<1>1. U \in SUBSET DOMAIN w
    OBVIOUS
<1>2. IsFiniteSet(U) /\ Cardinality(U) \in Nat /\ Cardinality(U) <= Rows(w)
    BY <1>1, RowsAreNatural
<1>3. v \notin Range(w) => U = {}
    BY DEF Range
<1>4. v \in Range(w) => U # {}
    BY DEF Range
<1>5. Cardinality(U) = 0 <=> U = {}
    BY <1>2, FS_EmptySet
<1> HIDE DEF U
<1> QED BY <1>2, <1>3, <1>4, <1>5 DEF CountIn, U

LEMMA WithoutCounts ==
    ASSUME NEW w, IsFiniteSet(DOMAIN w), NEW value
    PROVE  /\ \A v : CountIn(Without(w, value), DOMAIN Without(w, value), v) =
                        IF v = value THEN 0 ELSE CountIn(w, DOMAIN w, v)
           /\ Rows(Without(w, value)) = Rows(w) - CountIn(w, DOMAIN w, value)
<1> DEFINE D == {i \in DOMAIN w : w[i] # value}
           M == {i \in DOMAIN w : w[i] = value}
           k == Without(w, value)
<1>1. DOMAIN k = D /\ \A i \in D : k[i] = w[i]
    BY WithoutRows
<1>2. ASSUME NEW v PROVE CountIn(k, DOMAIN k, v) = IF v = value THEN 0 ELSE CountIn(w, DOMAIN w, v)
  <2> HIDE DEF k
  <2>1. {i \in DOMAIN k : k[i] = v} = IF v = value THEN {} ELSE {i \in DOMAIN w : w[i] = v}
      BY <1>1
  <2> QED BY <2>1, FS_EmptySet DEF CountIn
<1>3. M \in SUBSET DOMAIN w /\ D = DOMAIN w \ M /\ DOMAIN w \cap M = M
    OBVIOUS
<1>4. Cardinality(D) = Cardinality(DOMAIN w) - Cardinality(M)
  <2> HIDE DEF D, M
  <2> QED BY <1>3, FS_Difference
<1> HIDE DEF k
<1> QED BY <1>1, <1>2, <1>4 DEF Rows, CountIn, k

LEMMA DistanceIsNone ==
    ASSUME NEW x \in Int, NEW y \in Int
    PROVE  Distance(x, y) \in Nat /\ (Distance(x, y) = 0 <=> x = y)
BY DEF Distance

LEMMA SameSharesAreEven ==
    ASSUME NEW b, NEW p, IsFiniteSet(DOMAIN b), IsFiniteSet(DOMAIN p)
    PROVE  SameShares(b, p) <=> Even(b, p)
<1> DEFINE x(v) == CountIn(b, DOMAIN b, v) * Rows(p)
           y(v) == CountIn(p, DOMAIN p, v) * Rows(b)
<1>1. ASSUME NEW v PROVE /\ x(v) \in Int /\ y(v) \in Int
                         /\ ShareShift(b, p, LAMBDA u : u = v)[1] = 0 <=> x(v) = y(v)
                         /\ v \notin Range(b) \cup Range(p) => x(v) = 0 /\ y(v) = 0
  <2>1. /\ CountIn(b, DOMAIN b, v) \in Nat /\ CountIn(p, DOMAIN p, v) \in Nat
        /\ Rows(b) \in Nat /\ Rows(p) \in Nat
      BY CountsAreNatural, RowsAreNatural
  <2>2. \A i, j \in Nat : i * j \in Int /\ (i = 0 => i * j = 0)
      OBVIOUS
  <2>3. x(v) \in Int /\ y(v) \in Int /\ (v \notin Range(b) \cup Range(p) => x(v) = 0 /\ y(v) = 0)
    <3>1. v \notin Range(b) \cup Range(p) => CountIn(b, DOMAIN b, v) = 0 /\ CountIn(p, DOMAIN p, v) = 0
        BY CountsAreNatural
    <3> QED BY <2>1, <2>2, <3>1
  <2>4. ShareShift(b, p, LAMBDA u : u = v)[1] = Distance(x(v), y(v))
      BY DEF ShareShift, Share, CountIn
  <2> HIDE DEF x, y
  <2> QED BY <2>3, <2>4, DistanceIsNone
<1>2. SameShares(b, p) <=> \A v \in Range(b) \cup Range(p) : x(v) = y(v)
    BY <1>1 DEF SameShares
<1>3. Even(b, p) <=> \A v : x(v) = y(v)
    BY DEF Even
<1>4. \A v : v \notin Range(b) \cup Range(p) => x(v) = y(v)
    BY <1>1
<1> HIDE DEF x, y
<1> QED BY <1>2, <1>3, <1>4

(* What is left of even windows without a value is even too.                *)
LEMMA WithoutIsEven ==
    ASSUME NEW b, NEW p, IsFiniteSet(DOMAIN b), IsFiniteSet(DOMAIN p), Even(b, p),
           Rows(b) = 0 <=> Rows(p) = 0, NEW value
    PROVE  /\ Even(Without(b, value), Without(p, value))
           /\ Rows(Without(b, value)) = 0 <=> Rows(Without(p, value)) = 0
<1> DEFINE B == Rows(b)
           P == Rows(p)
           n == Rows(Without(b, value))
           m == Rows(Without(p, value))
           lostB == CountIn(b, DOMAIN b, value)
           lostP == CountIn(p, DOMAIN p, value)
<1>1. B \in Nat /\ P \in Nat /\ n \in Nat /\ m \in Nat /\ lostB \in Nat /\ lostP \in Nat
      /\ (B = 0 <=> P = 0) /\ lostB <= B /\ lostP <= P
  <2>1. IsFiniteSet(DOMAIN Without(b, value)) /\ IsFiniteSet(DOMAIN Without(p, value))
      BY WithoutRows
  <2>2. B \in Nat /\ P \in Nat /\ n \in Nat /\ m \in Nat
      BY <2>1, RowsAreNatural
  <2>3. lostB \in Nat /\ lostP \in Nat /\ lostB <= B /\ lostP <= P
      BY CountsAreNatural
  <2> QED BY <2>2, <2>3
<1>2. n = B - lostB /\ m = P - lostP /\ lostB * P = lostP * B
    BY WithoutCounts DEF Even
<1>3. n * P = m * B
  <2>1. \A i, j, k, l \in Int : k * j = l * i => (i - k) * j = (j - l) * i
      BY Z3
  <2> HIDE DEF B, P, n, m, lostB, lostP
  <2> QED BY <1>1, <1>2, <2>1
<1>4. n = 0 <=> m = 0
  <2>1. \A i, j \in Nat : j > 0 => (i * j = 0 <=> i = 0)
      BY Z3
  <2>2. CASE B = 0
    <3> HIDE DEF B, P, n, m, lostB, lostP
    <3> QED BY <1>1, <1>2, <2>2
  <2>3. CASE B > 0
    <3> HIDE DEF B, P, n, m, lostB, lostP
    <3> QED BY <1>1, <1>3, <2>1, <2>3
  <2> HIDE DEF B, P, n, m, lostB, lostP
  <2> QED BY <1>1, <2>2, <2>3
<1>5. ASSUME NEW v
      PROVE  CountIn(Without(b, value), DOMAIN Without(b, value), v) * m
                 = CountIn(Without(p, value), DOMAIN Without(p, value), v) * n
  <2> DEFINE c == CountIn(b, DOMAIN b, v)
             d == CountIn(p, DOMAIN p, v)
             cw == CountIn(Without(b, value), DOMAIN Without(b, value), v)
             dw == CountIn(Without(p, value), DOMAIN Without(p, value), v)
  <2>1. /\ c \in Nat /\ d \in Nat /\ c <= B /\ d <= P /\ c * P = d * B
        /\ cw = IF v = value THEN 0 ELSE c
        /\ dw = IF v = value THEN 0 ELSE d
      BY CountsAreNatural, WithoutCounts DEF Even
  <2> SUFFICES cw * m = dw * n
      OBVIOUS
  <2> HIDE DEF B, P, n, m, lostB, lostP, c, d, cw, dw
  <2>2. CASE v = value
    <3>1. cw = 0 /\ dw = 0
        BY <2>1, <2>2
    <3> QED BY <1>1, <3>1
  <2>3. CASE v # value /\ B = 0
    <3>1. cw = 0 /\ dw = 0
        BY <1>1, <2>1, <2>3
    <3> QED BY <1>1, <3>1
  <2>4. CASE v # value /\ B > 0
    <3>1. (c * m) * (B * P) = (c * P) * (m * B) /\ (d * n) * (B * P) = (d * B) * (n * P)
        BY <1>1, <2>1
    <3>2. (c * m) * (B * P) = (d * n) * (B * P)
        BY <1>3, <2>1, <3>1
    <3>3. B * P \in Nat /\ B * P > 0 /\ c * m \in Nat /\ d * n \in Nat
      <4>1. P > 0
          BY <1>1, <2>4
      <4> QED BY <1>1, <2>1, <2>4, <4>1, Z3
    <3>4. \A i, j, k \in Nat : k > 0 /\ i * k = j * k => i = j
        BY Z3
    <3>5. c * m = d * n
        BY <3>2, <3>3, <3>4
    <3> QED BY <2>1, <2>4, <3>5
  <2> QED BY <1>1, <2>2, <2>3, <2>4
<1> HIDE DEF n, m
<1> QED BY <1>4, <1>5 DEF Even, n, m

LEMMA FiniteIsEven ==
    ASSUME NEW b, NEW p, Window(b), Window(p), Even(b, p)
    PROVE  /\ Even(Present(b), Present(p)) /\ (Rows(Present(b)) = 0 <=> Rows(Present(p)) = 0)
           /\ Even(Finite(b), Finite(p)) /\ (Rows(Finite(b)) = 0 <=> Rows(Finite(p)) = 0)
<1>1. IsFiniteSet(DOMAIN b) /\ IsFiniteSet(DOMAIN p) /\ Rows(b) # 0 /\ Rows(p) # 0
    BY RowsAreNatural DEF Window
<1>2. Even(Present(b), Present(p)) /\ (Rows(Present(b)) = 0 <=> Rows(Present(p)) = 0)
    BY <1>1, WithoutIsEven DEF Present
<1>3. IsFiniteSet(DOMAIN Present(b)) /\ IsFiniteSet(DOMAIN Present(p))
    BY FiniteRows
<1>4. Even(Finite(b), Finite(p)) /\ (Rows(Finite(b)) = 0 <=> Rows(Finite(p)) = 0)
    BY <1>2, <1>3, WithoutIsEven DEF Finite
<1> QED BY <1>2, <1>4

LEMMA EvenMissesNothing ==
    ASSUME NEW b, NEW p, Window(b), Window(p), Even(b, p)
    PROVE  MissingSeverities(b, p) = {"LOW"}
<1> DEFINE B == Rows(b)
           P == Rows(p)
           lostB == CountIn(b, DOMAIN b, Missing)
           lostP == CountIn(p, DOMAIN p, Missing)
<1>1. B \in Nat /\ P \in Nat /\ B > 0 /\ P > 0 /\ lostB \in Nat /\ lostP \in Nat
  <2>1. IsFiniteSet(DOMAIN b) /\ IsFiniteSet(DOMAIN p) /\ DOMAIN b # {} /\ DOMAIN p # {}
      BY DEF Window
  <2>2. B \in Nat /\ P \in Nat /\ B # 0 /\ P # 0
      BY <2>1, RowsAreNatural
  <2>3. lostB \in Nat /\ lostP \in Nat
      BY <2>1, CountsAreNatural
  <2> HIDE DEF B, P, lostB, lostP
  <2> QED BY <2>2, <2>3
<1>2. lostB * P = lostP * B
    BY DEF Even
<1>3. ShareShift(b, p, LAMBDA v : v = Missing) = <<Distance(lostB * P, lostP * B), B * P>>
    BY DEF ShareShift, Share, CountIn
<1>4. Distance(lostB * P, lostP * B) = 0
  <2> HIDE DEF B, P, lostB, lostP
  <2>1. lostP * B \in Int /\ lostB * P \in Int
      BY <1>1
  <2> QED BY <1>2, <2>1, DistanceIsNone
<1>5. B * P \in Nat /\ B * P > 0
  <2> HIDE DEF B, P, lostB, lostP
  <2> QED BY <1>1, Z3
<1>6. Below(<<0, B * P>>, MissingMedium)
  <2> HIDE DEF B, P
  <2> QED BY <1>5 DEF Below, MissingMedium
<1> QED BY <1>3, <1>4, <1>6 DEF MissingSeverities, SeveritiesOf

(* Half of all rows and more: whatever the threshold, a HIGH share.         *)
LEMMA FullIsHigh ==
    ASSUME NEW k \in Nat, k > 0, NEW x \in Nat, x >= k
    PROVE  /\ SeveritiesOf(<<x, k>>, KsMedium, KsHigh) = {"HIGH"}
           /\ SeveritiesOf(<<x, k>>, MissingMedium, MissingHigh) = {"HIGH"}
<1>1. <<x, k>> # Undefined
  <2>1. <<x, k>> \in Int \X Int
      OBVIOUS
  <2> QED BY <2>1, MissingAssumption
<1>2. /\ ~Below(<<x, k>>, KsMedium) /\ Below(KsHigh, <<x, k>>)
      /\ ~Below(<<x, k>>, MissingMedium) /\ Below(MissingHigh, <<x, k>>)
    BY DEF Below, KsMedium, KsHigh, MissingMedium, MissingHigh
<1> QED BY <1>1, <1>2 DEF SeveritiesOf

(* All of one window is where nothing of the other is.                      *)
LEMMA ApartIsHigh ==
    ASSUME NEW b, NEW p, Numbers(b), Numbers(p), Rows(b) > 0, Rows(p) > 0,
           Max(Range(p)) < Min(Range(b)) \/ Min(Range(p)) > Max(Range(b))
    PROVE  KsSeverities(b, p) = {"HIGH"}
<1> DEFINE V == Range(b) \cup Range(p)
           n == Rows(b)
           m == Rows(p)
           cb(x) == Cardinality({i \in DOMAIN b : b[i] <= x})
           cp(x) == Cardinality({i \in DOMAIN p : p[i] <= x})
           gap(x) == ShareShift(b, p, LAMBDA v : v <= x)[1]
<1>1. n \in Nat /\ m \in Nat /\ n > 0 /\ m > 0 /\ DOMAIN b # {} /\ DOMAIN p # {}
  <2>1. IsFiniteSet(DOMAIN b) /\ IsFiniteSet(DOMAIN p)
      BY DEF Numbers
  <2>2. Rows(b) \in Nat /\ Rows(p) \in Nat
      BY <2>1, RowsAreNatural
  <2>3. Rows(b) # 0 /\ Rows(p) # 0
      BY <2>2
  <2>4. DOMAIN b # {} /\ DOMAIN p # {}
      BY <2>1, <2>3, RowsAreNatural
  <2> QED BY <2>1, <2>2, <2>4
<1>2. n * m \in Nat /\ n * m > 0
  <2> HIDE DEF n, m
  <2> QED BY <1>1, Z3
<1>3. /\ IsFiniteSet(Range(b)) /\ Range(b) \in SUBSET Int /\ Range(b) # {}
      /\ IsFiniteSet(Range(p)) /\ Range(p) \in SUBSET Int /\ Range(p) # {}
  <2>1. IsFiniteSet(Range(b)) /\ IsFiniteSet(Range(p))
      BY RangeIsFinite DEF Numbers
  <2> QED BY <1>1, <2>1 DEF Numbers, Range
<1>4. IsFiniteSet(V) /\ V \in SUBSET Int
    BY <1>3, FS_Union
<1>5. ASSUME NEW x \in V PROVE gap(x) = Distance(cb(x) * m, cp(x) * n) /\ gap(x) \in Nat
  <2>1. gap(x) = Distance(cb(x) * m, cp(x) * n)
      BY DEF ShareShift, Share
  <2>2. cb(x) \in Nat /\ cp(x) \in Nat
      BY RowsAreNatural DEF Numbers
  <2>3. cb(x) * m \in Int /\ cp(x) * n \in Int
    <3> HIDE DEF cb, cp, m, n
    <3> QED BY <1>1, <2>2, Z3
  <2> HIDE DEF gap, cb, cp
  <2> QED BY <2>1, <2>3, DistanceIsNone
<1>6. \E x \in V : gap(x) = n * m
  <2>1. CASE Max(Range(p)) < Min(Range(b))
    <3> DEFINE x == Max(Range(p))
    <3>1. /\ x \in Range(p) /\ x \in Int /\ \A i \in DOMAIN p : p[i] <= x
          /\ \A i \in DOMAIN b : ~(b[i] <= x)
      <4>1. /\ x \in Range(p) /\ \A y \in Range(p) : y <= x
            /\ Min(Range(b)) \in Range(b) /\ \A y \in Range(b) : Min(Range(b)) <= y
          BY <1>3, ExtremesExist
      <4>2. x \in Int /\ Min(Range(b)) \in Int /\ x < Min(Range(b))
          BY <1>3, <2>1, <4>1
      <4>3. ASSUME NEW i \in DOMAIN b PROVE ~(b[i] <= x)
        <5>1. b[i] \in Range(b) /\ b[i] \in Int
            BY <1>3 DEF Range
        <5> HIDE DEF x
        <5> QED BY <4>1, <4>2, <5>1
      <4>4. ASSUME NEW i \in DOMAIN p PROVE p[i] <= x
        <5>1. p[i] \in Range(p)
            BY DEF Range
        <5> HIDE DEF x
        <5> QED BY <4>1, <5>1
      <4> HIDE DEF x
      <4> QED BY <4>1, <4>2, <4>3, <4>4
    <3> HIDE DEF x
    <3>2. cb(x) = 0
      <4>1. {i \in DOMAIN b : b[i] <= x} = {}
          BY <3>1
      <4> QED BY <4>1, FS_EmptySet
    <3>3. cp(x) = m
      <4>1. {i \in DOMAIN p : p[i] <= x} = DOMAIN p
          BY <3>1
      <4> QED BY <4>1 DEF Rows
    <3>4. gap(x) = Distance(0 * m, m * n)
        BY <1>5, <3>1, <3>2, <3>3
    <3>5. Distance(0 * m, m * n) = n * m
      <4> HIDE DEF n, m
      <4>1. 0 * m = 0 /\ m * n = n * m
          BY <1>1
      <4> QED BY <1>2, <4>1 DEF Distance
    <3>6. x \in V /\ gap(x) = n * m
        BY <3>1, <3>4, <3>5
    <3> HIDE DEF gap, V
    <3> QED BY <3>6
  <2>2. CASE Min(Range(p)) > Max(Range(b))
    <3> DEFINE x == Max(Range(b))
    <3>1. /\ x \in Range(b) /\ x \in Int /\ \A i \in DOMAIN b : b[i] <= x
          /\ \A i \in DOMAIN p : ~(p[i] <= x)
      <4>1. /\ x \in Range(b) /\ \A y \in Range(b) : y <= x
            /\ Min(Range(p)) \in Range(p) /\ \A y \in Range(p) : Min(Range(p)) <= y
          BY <1>3, ExtremesExist
      <4>2. x \in Int /\ Min(Range(p)) \in Int /\ x < Min(Range(p))
          BY <1>3, <2>2, <4>1
      <4>3. ASSUME NEW i \in DOMAIN p PROVE ~(p[i] <= x)
        <5>1. p[i] \in Range(p) /\ p[i] \in Int
            BY <1>3 DEF Range
        <5> HIDE DEF x
        <5> QED BY <4>1, <4>2, <5>1
      <4>4. ASSUME NEW i \in DOMAIN b PROVE b[i] <= x
        <5>1. b[i] \in Range(b)
            BY DEF Range
        <5> HIDE DEF x
        <5> QED BY <4>1, <5>1
      <4> HIDE DEF x
      <4> QED BY <4>1, <4>2, <4>3, <4>4
    <3> HIDE DEF x
    <3>2. cp(x) = 0
      <4>1. {i \in DOMAIN p : p[i] <= x} = {}
          BY <3>1
      <4> QED BY <4>1, FS_EmptySet
    <3>3. cb(x) = n
      <4>1. {i \in DOMAIN b : b[i] <= x} = DOMAIN b
          BY <3>1
      <4> QED BY <4>1 DEF Rows
    <3>4. gap(x) = Distance(n * m, 0 * n)
        BY <1>5, <3>1, <3>2, <3>3
    <3>5. Distance(n * m, 0 * n) = n * m
      <4> HIDE DEF n, m
      <4>1. 0 * n = 0
          BY <1>1
      <4> QED BY <1>2, <4>1 DEF Distance
    <3>6. x \in V /\ gap(x) = n * m
        BY <3>1, <3>4, <3>5
    <3> HIDE DEF gap, V
    <3> QED BY <3>6
  <2> QED BY <2>1, <2>2
<1> DEFINE S == {gap(x) : x \in V}
<1>7. IsFiniteSet(S) /\ S \in SUBSET Nat /\ n * m \in S
  <2> HIDE DEF gap, V
  <2> DEFINE f == [x \in V |-> gap(x)]
  <2>1. f \in Surjection(V, S)
      BY DEF Surjection
  <2>2. IsFiniteSet(S)
    <3> HIDE DEF f, S
    <3> QED BY <1>4, <2>1, FS_Surjection
  <2> QED BY <1>5, <1>6, <2>2
<1>8. Max(S) \in Nat /\ Max(S) >= n * m
  <2> HIDE DEF S
  <2>1. S \in SUBSET Int /\ S # {}
      BY <1>7
  <2>2. Max(S) \in S /\ \A y \in S : y <= Max(S)
      BY <1>7, <2>1, ExtremesExist
  <2> HIDE DEF n, m
  <2> QED BY <1>2, <1>7, <2>2
<1>9. KsStatistic(b, p) = <<Max(S), n * m>>
  <2>1. KsStatistic(b, p) = IF n = 0 \/ m = 0 THEN Undefined ELSE <<Max(S), n * m>>
      BY Zenon DEF KsStatistic
  <2> HIDE DEF S, n, m
  <2> QED BY <1>1, <2>1
<1> HIDE DEF S, n, m
<1> QED BY <1>2, <1>8, <1>9, FullIsHigh DEF KsSeverities

(* None of the values of one window is one of the other.                    *)
LEMMA NewIsHigh ==
    ASSUME NEW b, NEW p, IsFiniteSet(DOMAIN b), IsFiniteSet(DOMAIN p), Rows(b) > 0, Rows(p) > 0,
           Range(p) \cap Range(b) = {}
    PROVE  CategoricalPsi(b, p) = {"HIGH"}
<1> DEFINE n == Rows(b)
           m == Rows(p)
<1>1. /\ n \in Nat /\ m \in Nat /\ n > 0 /\ m > 0 /\ DOMAIN b # {} /\ DOMAIN p # {}
      /\ IsFiniteSet(DOMAIN b) /\ IsFiniteSet(DOMAIN p)
  <2>1. IsFiniteSet(DOMAIN b) /\ IsFiniteSet(DOMAIN p)
      OBVIOUS
  <2>2. Rows(b) \in Nat /\ Rows(p) \in Nat
      BY <2>1, RowsAreNatural
  <2>3. Rows(b) # 0 /\ Rows(p) # 0
      BY <2>2
  <2>4. DOMAIN b # {} /\ DOMAIN p # {}
      BY <2>1, <2>3, RowsAreNatural
  <2> QED BY <2>1, <2>2, <2>4
<1>2. ~SameShares(b, p)
  <2>1. SUFFICES ASSUME Even(b, p) PROVE FALSE
      BY <1>1, SameSharesAreEven
  <2>2. PICK v \in Range(b) : v \notin Range(p)
      BY <1>1 DEF Range
  <2> DEFINE c == CountIn(b, DOMAIN b, v)
             d == CountIn(p, DOMAIN p, v)
  <2>3. c \in Nat /\ c > 0 /\ d = 0
      BY <1>1, <2>2, CountsAreNatural
  <2>4. c * m = d * n
      BY <2>1 DEF Even
  <2> HIDE DEF c, d, n, m
  <2>5. c * m > 0 /\ d * n = 0
      BY <1>1, <2>3, Z3
  <2> QED BY <2>4, <2>5
<1>3. Share(p, LAMBDA v : v \notin Range(b)) = m /\ Share(b, LAMBDA v : v \notin Range(p)) = n
  <2>1. {i \in DOMAIN p : p[i] \notin Range(b)} = DOMAIN p
            /\ {i \in DOMAIN b : b[i] \notin Range(p)} = DOMAIN b
      BY DEF Range
  <2> QED BY <2>1 DEF Share, Rows
<1>4. CategoricalPsi(b, p) = PsiSeverities(SameShares(b, p), IF Below(<<m, m>>, <<n, n>>)
          THEN <<n, n>> ELSE <<m, m>>)
    BY <1>1, <1>3 DEF CategoricalPsi
<1>5. ~Below(<<m, m>>, PsiHighShare) /\ ~Below(<<n, n>>, PsiHighShare)
  <2> HIDE DEF n, m
  <2> QED BY <1>1 DEF Below, PsiHighShare
<1> HIDE DEF n, m
<1> QED BY <1>2, <1>4, <1>5 DEF PsiSeverities

(* Nothing of the one window is missing, and all of the other is.           *)
LEMMA LostIsHigh ==
    ASSUME NEW b, NEW p, Window(b), Window(p), Range(p) = {Missing}, Missing \notin Range(b)
    PROVE  MissingSeverities(b, p) = {"HIGH"}
<1> DEFINE n == Rows(b)
           m == Rows(p)
<1>1. n \in Nat /\ m \in Nat /\ n > 0 /\ m > 0 /\ IsFiniteSet(DOMAIN b) /\ IsFiniteSet(DOMAIN p)
  <2>1. IsFiniteSet(DOMAIN b) /\ IsFiniteSet(DOMAIN p) /\ DOMAIN b # {} /\ DOMAIN p # {}
      BY DEF Window
  <2>2. Rows(b) \in Nat /\ Rows(p) \in Nat /\ Rows(b) # 0 /\ Rows(p) # 0
      BY <2>1, RowsAreNatural
  <2> QED BY <2>1, <2>2
<1>2. CountIn(b, DOMAIN b, Missing) = 0
    BY <1>1, CountsAreNatural
<1>3. CountIn(p, DOMAIN p, Missing) = m
  <2>1. {i \in DOMAIN p : p[i] = Missing} = DOMAIN p
      BY DEF Range
  <2> QED BY <2>1 DEF CountIn, Rows
<1>4. ShareShift(b, p, LAMBDA v : v = Missing) = <<Distance(0 * m, m * n), n * m>>
    BY <1>2, <1>3 DEF ShareShift, Share, CountIn
<1>5. n * m \in Nat /\ n * m > 0 /\ Distance(0 * m, m * n) = n * m
  <2> HIDE DEF n, m
  <2>1. n * m \in Nat /\ n * m > 0 /\ 0 * m = 0 /\ m * n = n * m
      BY <1>1, Z3
  <2> QED BY <2>1 DEF Distance
<1>6. \A k \in Nat : k > 0 => SeveritiesOf(<<k, k>>, MissingMedium, MissingHigh) = {"HIGH"}
    BY FullIsHigh
<1>7. MissingSeverities(b, p) =
          SeveritiesOf(ShareShift(b, p, LAMBDA v : v = Missing), MissingMedium, MissingHigh)
    BY DEF MissingSeverities
<1>8. ShareShift(b, p, LAMBDA v : v = Missing) = <<n * m, n * m>>
    BY <1>4, <1>5
<1>9. SeveritiesOf(<<n * m, n * m>>, MissingMedium, MissingHigh) = {"HIGH"}
    BY <1>5, <1>6
<1> QED BY <1>7, <1>8, <1>9

-----------------------------------------------------------------------------
(* One HIGH metric makes a HIGH drift, whatever the others may be.          *)
LEMMA WorstCounts ==
    /\ \A S, T : S # {} /\ T # {} => Worst(S, T) # {}
    /\ \A S, T : S = {"HIGH"} /\ T # {} => Worst(S, T) = {"HIGH"}
    /\ \A S, T : S # {} /\ T = {"HIGH"} => Worst(S, T) = {"HIGH"}
    /\ Worst({"LOW"}, {"LOW"}) = {"LOW"}
<1>1. \A s : MaxSeverity({"HIGH", s}) = "HIGH" /\ MaxSeverity({s, "HIGH"}) = "HIGH"
    BY DEF MaxSeverity
<1>2. MaxSeverity({"LOW", "LOW"}) = "LOW"
    BY DEF MaxSeverity
<1>3. ASSUME NEW S, NEW T, S # {}, T # {} PROVE Worst(S, T) # {}
  <2>1. PICK s \in S, t \in T : TRUE
      BY <1>3
  <2>2. MaxSeverity({s, t}) \in Worst(S, T)
      BY <2>1 DEF Worst
  <2> QED BY <2>2
<1>4. ASSUME NEW S, NEW T, S = {"HIGH"}, T # {} PROVE Worst(S, T) = {"HIGH"}
  <2>1. \A s \in S, t \in T : MaxSeverity({s, t}) = "HIGH"
      BY <1>1, <1>4
  <2>2. \E s \in S, t \in T : TRUE
      BY <1>4
  <2>3. ASSUME NEW x \in Worst(S, T) PROVE x = "HIGH"
    <3>1. PICK s \in S, t \in T : x = MaxSeverity({s, t})
        BY <2>3 DEF Worst
    <3> QED BY <2>1, <3>1
  <2>4. "HIGH" \in Worst(S, T)
    <3>1. PICK s \in S, t \in T : TRUE
        BY <2>2
    <3>2. MaxSeverity({s, t}) \in Worst(S, T)
        BY <3>1 DEF Worst
    <3> QED BY <2>1, <3>1, <3>2
  <2> QED BY <2>3, <2>4
<1>5. ASSUME NEW S, NEW T, S # {}, T = {"HIGH"} PROVE Worst(S, T) = {"HIGH"}
  <2>1. \A s \in S, t \in T : MaxSeverity({s, t}) = "HIGH"
      BY <1>1, <1>5
  <2>2. \E s \in S, t \in T : TRUE
      BY <1>5
  <2>3. ASSUME NEW x \in Worst(S, T) PROVE x = "HIGH"
    <3>1. PICK s \in S, t \in T : x = MaxSeverity({s, t})
        BY <2>3 DEF Worst
    <3> QED BY <2>1, <3>1
  <2>4. "HIGH" \in Worst(S, T)
    <3>1. PICK s \in S, t \in T : TRUE
        BY <2>2
    <3>2. MaxSeverity({s, t}) \in Worst(S, T)
        BY <3>1 DEF Worst
    <3> QED BY <2>1, <3>1, <3>2
  <2> QED BY <2>3, <2>4
<1>6. Worst({"LOW"}, {"LOW"}) = {"LOW"}
    BY <1>2 DEF Worst
<1> QED BY <1>3, <1>4, <1>5, <1>6

LEMMA SeveritiesAreSome ==
    /\ \A x, y, z : SeveritiesOf(x, y, z) # {}
    /\ \A b, p : KsSeverities(b, p) # {} /\ MissingSeverities(b, p) # {}
    /\ \A b, p, rough : ShiftSeverities(b, p, rough) # {}
<1>1. ASSUME NEW x, NEW y, NEW z PROVE SeveritiesOf(x, y, z) # {}
  <2>1. "MEDIUM" \in {s \in Severities : (s = "LOW" => ~Below(y, x)) /\ (s = "HIGH" => ~Below(x, z))}
      BY DEF Severities
  <2> QED BY <2>1 DEF SeveritiesOf
<1>2. \A b, p : KsSeverities(b, p) # {} /\ MissingSeverities(b, p) # {} /\ MeanShiftSeverities(b, p) # {}
    BY <1>1 DEF KsSeverities, MissingSeverities, MeanShiftSeverities
<1>3. ASSUME NEW b, NEW p PROVE StdShiftSeverities(b, p) # {}
  <2>1. \A x, y, u, v, w, z : Worst(SeveritiesOf(x, u, v), SeveritiesOf(y, w, z)) # {}
      BY <1>1, WorstCounts
  <2> QED BY <2>1 DEF StdShiftSeverities
<1>4. \A b, p, rough : ShiftSeverities(b, p, rough) # {}
    BY <1>2, <1>3, WorstCounts DEF ShiftSeverities, Severities
<1> QED BY <1>1, <1>2, <1>4

LEMMA PsiIsSome ==
    /\ \A b, p : NumericPsi(b, p) # {} /\ CategoricalPsi(b, p) # {}
    /\ \A b, p : SameShares(b, p) => NumericPsi(b, p) = {"LOW"} /\ CategoricalPsi(b, p) = {"LOW"}
<1>1. \A same, displaced : PsiSeverities(same, displaced) # {} /\ PsiSeverities(TRUE, displaced) = {"LOW"}
    BY DEF PsiSeverities, Severities
<1>2. ASSUME NEW b, NEW p PROVE /\ NumericPsi(b, p) # {}
                                /\ SameShares(b, p) => NumericPsi(b, p) = {"LOW"}
  <2>1. \/ NumericPsi(b, p) = {"LOW"}
        \/ \E displaced : NumericPsi(b, p) = PsiSeverities(SameShares(b, p), displaced)
      BY DEF NumericPsi
  <2>2. SameShares(b, p) = TRUE \/ SameShares(b, p) = FALSE
      BY DEF SameShares
  <2> QED BY <1>1, <2>1, <2>2
<1>3. ASSUME NEW b, NEW p PROVE /\ CategoricalPsi(b, p) # {}
                                /\ SameShares(b, p) => CategoricalPsi(b, p) = {"LOW"}
  <2>1. \/ CategoricalPsi(b, p) = {"LOW"}
        \/ \E displaced : CategoricalPsi(b, p) = PsiSeverities(SameShares(b, p), displaced)
      BY DEF CategoricalPsi
  <2>2. SameShares(b, p) = TRUE \/ SameShares(b, p) = FALSE
      BY DEF SameShares
  <2> QED BY <1>1, <2>1, <2>2
<1> QED BY <1>2, <1>3

LEMMA HighNumbers ==
    ASSUME NEW baseline, NEW production,
           \/ KsSeverities(Finite(baseline.values), Finite(production.values)) = {"HIGH"}
           \/ MissingSeverities(baseline.values, production.values) = {"HIGH"}
    PROVE  NumericDrift(baseline, production) = {"HIGH"}
<1> DEFINE b == Finite(baseline.values)
           p == Finite(production.values)
           psi == NumericPsi(b, p)
           ks == KsSeverities(b, p)
           shift == ShiftSeverities(b, p, IsRough(baseline, production))
           missing == MissingSeverities(baseline.values, production.values)
<1>1. NumericDrift(baseline, production) = Worst(Worst(Worst(psi, ks), shift), missing)
    BY DEF NumericDrift
<1>2. psi # {} /\ ks # {} /\ shift # {} /\ missing # {} /\ (ks = {"HIGH"} \/ missing = {"HIGH"})
    BY PsiIsSome, SeveritiesAreSome
<1> HIDE DEF psi, ks, shift, missing
<1>3. Worst(psi, ks) # {} /\ Worst(Worst(psi, ks), shift) # {}
    BY <1>2, WorstCounts
<1>4. CASE missing = {"HIGH"}
    BY <1>1, <1>3, <1>4, WorstCounts
<1>5. CASE ks = {"HIGH"}
  <2>1. Worst(psi, ks) = {"HIGH"}
      BY <1>2, <1>5, WorstCounts
  <2>2. Worst(Worst(psi, ks), shift) = {"HIGH"}
      BY <1>2, <2>1, WorstCounts
  <2> QED BY <1>1, <1>2, <2>2, WorstCounts
<1> QED BY <1>2, <1>4, <1>5

LEMMA HighCategories ==
    ASSUME NEW baseline, NEW production,
           \/ CategoricalPsi(Present(baseline.values), Present(production.values)) = {"HIGH"}
           \/ MissingSeverities(baseline.values, production.values) = {"HIGH"}
    PROVE  CategoricalDrift(baseline, production) = {"HIGH"}
<1> DEFINE b == Present(baseline.values)
           p == Present(production.values)
           psi == CategoricalPsi(b, p)
           tv == SeveritiesOf(TotalVariation(b, p), KsMedium, KsHigh)
           missing == MissingSeverities(baseline.values, production.values)
<1>1. CategoricalDrift(baseline, production) = Worst(Worst(psi, tv), missing)
    BY DEF CategoricalDrift
<1>2. psi # {} /\ tv # {} /\ missing # {} /\ (psi = {"HIGH"} \/ missing = {"HIGH"})
    BY PsiIsSome, SeveritiesAreSome
<1> HIDE DEF psi, tv, missing
<1>3. Worst(psi, tv) # {} /\ (psi = {"HIGH"} => Worst(psi, tv) = {"HIGH"})
    BY <1>2, WorstCounts
<1> QED BY <1>1, <1>2, <1>3, WorstCounts

(* monitoring/drift.py: windows of any length, of floats that add up or not.*)
THEOREM DriftIsSeenInAll ==
    ASSUME NEW baseline, NEW production, Window(baseline.values), Window(production.values)
    PROVE  SeesDrift(baseline, production)
<1> DEFINE B == baseline.values
           P == production.values
<1>1. /\ Numbers(Finite(B)) /\ Numbers(Finite(P))
      /\ IsFiniteSet(DOMAIN Present(B)) /\ IsFiniteSet(DOMAIN Present(P))
      /\ IsFiniteSet(DOMAIN B) /\ IsFiniteSet(DOMAIN P)
    BY FiniteRows DEF Window
<1>2. ASSUME Apart(baseline, production) PROVE FeatureDrift(baseline, production) = {"HIGH"}
  <2>1. CASE AsNumbers(baseline, production)
    <3>1. KsSeverities(Finite(B), Finite(P)) = {"HIGH"}
        BY <1>1, <1>2, <2>1, ApartIsHigh DEF Apart
    <3> QED BY <2>1, <3>1, HighNumbers DEF FeatureDrift
  <2>2. CASE ~AsNumbers(baseline, production)
    <3>1. CategoricalPsi(Present(B), Present(P)) = {"HIGH"}
        BY <1>1, <1>2, <2>2, NewIsHigh DEF Apart
    <3> QED BY <2>2, <3>1, HighCategories DEF FeatureDrift
  <2> QED BY <2>1, <2>2
<1>3. ASSUME Lost(baseline, production) PROVE FeatureDrift(baseline, production) = {"HIGH"}
  <2>1. MissingSeverities(B, P) = {"HIGH"}
      BY <1>3, LostIsHigh DEF Lost
  <2> QED BY <2>1, HighNumbers, HighCategories DEF FeatureDrift
<1>4. ASSUME SameShares(B, P), AsNumbers(baseline, production) => ~IsRough(baseline, production)
      PROVE  FeatureDrift(baseline, production) = {"LOW"}
  <2>1. Even(B, P)
      BY <1>1, <1>4, SameSharesAreEven
  <2>2. MissingSeverities(B, P) = {"LOW"}
      BY <2>1, EvenMissesNothing
  <2>3. CASE AsNumbers(baseline, production)
    <3> DEFINE b == Finite(B)
               p == Finite(P)
    <3>1. Even(b, p) /\ (Rows(b) = 0 <=> Rows(p) = 0) /\ Numbers(b) /\ Numbers(p)
        BY <1>1, <2>1, FiniteIsEven
    <3> HIDE DEF b, p
    <3>2. Rows(b) \in Nat /\ Rows(p) \in Nat /\ IsFiniteSet(DOMAIN b) /\ IsFiniteSet(DOMAIN p)
        BY <3>1, RowsAreNatural DEF Numbers
    <3>3. NumericPsi(b, p) = {"LOW"}
        BY <3>1, <3>2, SameSharesAreEven, PsiIsSome
    <3>4. /\ KsSeverities(b, p) = {"LOW"}
          /\ MeanShiftSeverities(b, p) = {"LOW"}
          /\ StdShiftSeverities(b, p) = {"LOW"}
      <4>1. CASE Rows(b) = 0
          BY <4>1 DEF KsSeverities, KsStatistic, MeanShiftSeverities, MeanShiftSquared,
                      StdShiftSeverities, SeveritiesOf
      <4>2. CASE Rows(b) # 0
        <5>1. Rows(b) > 0 /\ Rows(p) > 0
            BY <3>1, <3>2, <4>2
        <5> QED BY <3>1, <5>1, EvenIsLow
      <4> QED BY <4>1, <4>2
    <3>5. ShiftSeverities(b, p, IsRough(baseline, production)) = {"LOW"}
        BY <1>4, <2>3, <3>4, WorstCounts DEF ShiftSeverities
    <3>6. NumericDrift(baseline, production) = {"LOW"}
        BY <2>2, <3>3, <3>4, <3>5, WorstCounts DEF NumericDrift, b, p
    <3> QED BY <2>3, <3>6 DEF FeatureDrift
  <2>4. CASE ~AsNumbers(baseline, production)
    <3> DEFINE b == Present(B)
               p == Present(P)
    <3>1. /\ Even(b, p) /\ (Rows(b) = 0 <=> Rows(p) = 0)
          /\ IsFiniteSet(DOMAIN b) /\ IsFiniteSet(DOMAIN p)
        BY <1>1, <2>1, FiniteIsEven
    <3> HIDE DEF b, p
    <3>2. Rows(b) \in Nat /\ Rows(p) \in Nat
        BY <3>1, RowsAreNatural
    <3>3. CategoricalPsi(b, p) = {"LOW"}
        BY <3>1, SameSharesAreEven, PsiIsSome
    <3>4. SeveritiesOf(TotalVariation(b, p), KsMedium, KsHigh) = {"LOW"}
      <4>1. CASE Rows(b) = 0
          BY <4>1 DEF TotalVariation, SeveritiesOf
      <4>2. CASE Rows(b) # 0
        <5>1. Rows(b) > 0 /\ Rows(p) > 0
            BY <3>1, <3>2, <4>2
        <5> QED BY <3>1, <5>1, EvenVariesNot
      <4> QED BY <4>1, <4>2
    <3>5. CategoricalDrift(baseline, production) = {"LOW"}
        BY <2>2, <3>3, <3>4, WorstCounts DEF CategoricalDrift, b, p
    <3> QED BY <2>4, <3>5 DEF FeatureDrift
  <2> QED BY <2>3, <2>4
<1> QED BY <1>2, <1>3, <1>4 DEF SeesDrift

-----------------------------------------------------------------------------
(* The same of the inputs that the run goes through.                        *)

SplitInput == Is("split") => case.rows \in Frames(Int \cup {NoValue}, Int \cup {NoValue})

ChatInput == Is("chat") => case.request \in SUBSET Keywords /\ case.answer \in Answers(Evidence)

BestInput == Is("best") =>
    /\ case.task \in Tasks /\ case.rare \in BOOLEAN /\ case.recall \in Nat
    /\ Evaluated(case.evaluations) /\ Measured({e \in case.evaluations : e.ok})

CostInput == Is("cost") =>
    /\ Evaluated(case.evaluations) /\ Counted(case.evaluations, case.missed, case.alarms)
    /\ case.cost.fn \in Nat /\ case.cost.fp \in Nat

LEMMA ThreeAreEvaluated ==
    ASSUME NEW x, NEW y, NEW z, x.model \in CatalogModels, y.model \in CatalogModels,
           z.model \in CatalogModels,
           x.model # y.model, x.model # z.model, y.model # z.model
    PROVE  Evaluated({x, y, z})
<1>1. IsFiniteSet({x, y, z})
  <2>1. IsFiniteSet({x} \cup {y}) /\ IsFiniteSet({z})
      BY FS_Singleton, FS_Union
  <2>2. {x, y, z} = ({x} \cup {y}) \cup {z}
      OBVIOUS
  <2> QED BY <2>1, <2>2, FS_Union
<1> QED BY <1>1 DEF Evaluated

LEMMA ClassifiedIsMeasured ==
    ASSUME NEW m, NEW prAucs \in SUBSET {0, 1, Unknown}, NEW e \in Classified(m, prAucs)
    PROVE  e.model = m /\ Measured({f \in {e} : f.ok})
BY DEF Classified, Evaluation, Metrics, FailedRun, Measured

LEMMA RegressedIsMeasured ==
    ASSUME NEW m, NEW e \in Regressed(m)
    PROVE  e.model = m /\ Measured({f \in {e} : f.ok})
BY DEF Regressed, Evaluation, Metrics, FailedRun, Measured

LEMMA ClassifiersAreInput == CompareClassifiers => BestInput'
<1> SUFFICES ASSUME CompareClassifiers PROVE BestInput'
    OBVIOUS
<1>1. PICK rare \in BOOLEAN, recall \in 0..1 :
        LET of(m) == Classified(m, IF rare THEN {0, 1, Unknown} ELSE {Unknown})
        IN  \E x \in of("logistic_regression"), y \in of("random_forest"), z \in of("xgboost") :
               case' = [kind |-> "best", task |-> "binary_classification", rare |-> rare,
                        evaluations |-> {x, y, z}, recall |-> recall]
    BY DEF CompareClassifiers
<1> DEFINE prAucs == IF rare THEN {0, 1, Unknown} ELSE {Unknown}
<1>2. PICK x \in Classified("logistic_regression", prAucs), y \in Classified("random_forest", prAucs),
           z \in Classified("xgboost", prAucs) :
        case' = [kind |-> "best", task |-> "binary_classification", rare |-> rare,
                 evaluations |-> {x, y, z}, recall |-> recall]
    BY <1>1
<1>3. prAucs \in SUBSET {0, 1, Unknown}
    OBVIOUS
<1> HIDE DEF prAucs
<1>4. /\ x.model = "logistic_regression" /\ y.model = "random_forest" /\ z.model = "xgboost"
      /\ Measured({f \in {x} : f.ok}) /\ Measured({f \in {y} : f.ok}) /\ Measured({f \in {z} : f.ok})
    BY <1>3, ClassifiedIsMeasured
<1>5. Evaluated({x, y, z})
  <2>1. {"logistic_regression", "random_forest", "xgboost"} \subseteq CatalogModels
      BY DEF CatalogModels, Catalog
  <2> QED BY <1>4, <2>1, ThreeAreEvaluated
<1>6. Measured({f \in {x, y, z} : f.ok})
    BY <1>4 DEF Measured
<1> QED BY <1>2, <1>5, <1>6 DEF BestInput, Tasks, ClassificationTasks

LEMMA RegressorsAreInput == CompareRegressors => BestInput'
<1> SUFFICES ASSUME CompareRegressors PROVE BestInput'
    OBVIOUS
<1>1. PICK x \in Regressed("ridge"), y \in Regressed("random_forest"), z \in Regressed("xgboost") :
        case' = [kind |-> "best", task |-> "regression", rare |-> FALSE,
                 evaluations |-> {x, y, z}, recall |-> 1]
    BY DEF CompareRegressors
<1>2. /\ x.model = "ridge" /\ y.model = "random_forest" /\ z.model = "xgboost"
      /\ Measured({f \in {x} : f.ok}) /\ Measured({f \in {y} : f.ok}) /\ Measured({f \in {z} : f.ok})
    BY RegressedIsMeasured
<1>3. Evaluated({x, y, z})
  <2>1. {"ridge", "random_forest", "xgboost"} \subseteq CatalogModels
      BY DEF CatalogModels, Catalog
  <2> QED BY <1>2, <2>1, ThreeAreEvaluated
<1>4. Measured({f \in {x, y, z} : f.ok})
    BY <1>2 DEF Measured
<1> QED BY <1>1, <1>3, <1>4 DEF BestInput, Tasks

LEMMA CostsAreInput == CompareCosts => CostInput'
<1> SUFFICES ASSUME CompareCosts PROVE CostInput'
    OBVIOUS
<1>1. PICK failed \in SUBSET Binary, missed \in [Binary -> 0..2], alarms \in [Binary -> 0..2],
           fn \in 1..3, fp \in 1..3,
           labels \in {<<0, 1>>, <<1, 0>>}, named \in BOOLEAN :
        LET positive == IF named THEN 1 ELSE labels[2]
            evaluation(m) ==
                [model |-> m, ok |-> m \notin failed, labels |-> labels,
                 positive |-> IF named THEN positive ELSE Unknown,
                 matrix |-> ConfusionMatrix(labels, positive, missed[m], alarms[m])]
        IN  /\ \A m \in failed : missed[m] = 0 /\ alarms[m] = 0
            /\ case' = [kind |-> "cost", evaluations |-> {evaluation(m) : m \in Binary},
                        missed |-> missed, alarms |-> alarms, cost |-> [fn |-> fn, fp |-> fp]]
    BY DEF CompareCosts
<1> DEFINE positive == IF named THEN 1 ELSE labels[2]
           evaluation(m) ==
                [model |-> m, ok |-> m \notin failed, labels |-> labels,
                 positive |-> IF named THEN positive ELSE Unknown,
                 matrix |-> ConfusionMatrix(labels, positive, missed[m], alarms[m])]
           all == {evaluation(m) : m \in Binary}
<1>2. case' = [kind |-> "cost", evaluations |-> all,
               missed |-> missed, alarms |-> alarms, cost |-> [fn |-> fn, fp |-> fp]]
    BY <1>1
<1>3. Binary = {"logistic_regression", "random_forest", "xgboost"}
    BY DEF Binary, NamesForTask, ClassificationTasks
<1>4. Evaluated(all)
  <2>1. {"logistic_regression", "random_forest", "xgboost"} \subseteq CatalogModels
      BY DEF CatalogModels, Catalog
  <2>2. \A m : evaluation(m).model = m
      OBVIOUS
  <2> HIDE DEF evaluation
  <2>3. all = {evaluation("logistic_regression"), evaluation("random_forest"), evaluation("xgboost")}
      BY <1>3
  <2>4. /\ evaluation("logistic_regression").model = "logistic_regression"
        /\ evaluation("random_forest").model = "random_forest"
        /\ evaluation("xgboost").model = "xgboost"
      BY <2>2
  <2>5. Evaluated({evaluation("logistic_regression"), evaluation("random_forest"), evaluation("xgboost")})
      BY <2>1, <2>4, ThreeAreEvaluated
  <2> QED BY <2>3, <2>5
<1>5. Counted(all, missed, alarms)
  <2> SUFFICES ASSUME NEW m \in Binary
               PROVE  LET e == evaluation(m)
                      IN  /\ missed[e.model] \in Nat /\ alarms[e.model] \in Nat
                          /\ \E a, b, q :
                                /\ a # b /\ e.labels = <<a, b>> /\ q \in {a, b}
                                /\ e.positive = q \/ (e.positive = Unknown /\ q = b)
                                /\ q # Unknown
                                /\ e.matrix = ConfusionMatrix(e.labels, q, missed[e.model], alarms[e.model])
      BY DEF Counted
  <2>1. missed[m] \in Nat /\ alarms[m] \in Nat
      OBVIOUS
  <2>2. \E a, b \in {0, 1} : a # b /\ labels = <<a, b>>
      OBVIOUS
  <2>3. PICK a \in {0, 1}, b \in {0, 1} : a # b /\ labels = <<a, b>>
      BY <2>2
  <2>4. /\ positive \in {a, b} /\ positive # Unknown
        /\ ~named => positive = b
      BY <2>3, UnknownIsNoNumber
  <2>5. /\ evaluation(m).model = m /\ evaluation(m).labels = labels
        /\ evaluation(m).positive = (IF named THEN positive ELSE Unknown)
        /\ evaluation(m).matrix = ConfusionMatrix(labels, positive, missed[m], alarms[m])
      OBVIOUS
  <2> HIDE DEF evaluation, positive
  <2> QED BY <2>1, <2>3, <2>4, <2>5
<1> HIDE DEF all
<1> QED BY <1>2, <1>4, <1>5 DEF CostInput

DriftInput == Is("drift") =>
    /\ Window(case.baseline.values) /\ Window(case.production.values)

PrepareInput == Is("prepare") =>
    /\ NoColumn \notin DOMAIN case.frame /\ case.asked \in SUBSET DOMAIN case.frame
    /\ \A n \in DOMAIN case.frame :
          LET c == case.frame[n]
          IN  c.agreement \in Nat /\ c.filled \in Nat /\ c.distinct \in Nat /\ c.distinct <= c.filled

QualityInput == Is("quality") => Table(case.rows) /\ Moves(case.order, case.rows)

LEMMA WindowsAreInput == CompareNumbers \/ CompareCategories => DriftInput'
<1>1. ASSUME NEW values \in SUBSET (Int \cup {Missing, Infinite}), NEW w \in Windows(values)
      PROVE  Window(w)
  <2>1. PICK n \in 1..3 : w \in [1..n -> values]
      BY DEF Windows
  <2>2. IsFiniteSet(1..n) /\ 1 \in 1..n
      BY FS_Interval
  <2>3. DOMAIN w = 1..n /\ \A i \in 1..n : w[i] \in Int \cup {Missing, Infinite}
      BY <2>1
  <2> QED BY <2>2, <2>3 DEF Window
<1>2. ASSUME CompareNumbers PROVE DriftInput'
  <2>1. PICK b \in Windows({0, 1, 2, Missing, Infinite}), p \in Windows({0, 1, 2, Missing, Infinite}) :
            case'.baseline.values = b /\ case'.production.values = p
      BY <1>2 DEF CompareNumbers
  <2>2. {0, 1, 2, Missing, Infinite} \in SUBSET (Int \cup {Missing, Infinite})
      OBVIOUS
  <2>3. Window(b) /\ Window(p)
      BY <1>1, <2>2
  <2> QED BY <2>1, <2>3 DEF DriftInput
<1>3. ASSUME CompareCategories PROVE DriftInput'
  <2>1. PICK b \in Windows({0, 1, 2, Missing}), p \in Windows({0, 1, 2, Missing}) :
            case'.baseline.values = b /\ case'.production.values = p
      BY <1>3 DEF CompareCategories
  <2>2. {0, 1, 2, Missing} \in SUBSET (Int \cup {Missing, Infinite})
      OBVIOUS
  <2>3. Window(b) /\ Window(p)
      BY <1>1, <2>2
  <2> QED BY <2>1, <2>3 DEF DriftInput
<1> QED BY <1>2, <1>3

LEMMA ColumnsAreInput == PrepareColumn => PrepareInput'
<1> SUFFICES ASSUME PrepareColumn PROVE PrepareInput'
    OBVIOUS
<1> DEFINE sound(c) == c.agreement \in Nat /\ c.filled \in Nat /\ c.distinct \in Nat
               /\ c.distinct <= c.filled
           t == Col("datetime", {"timestamp"}, 100, 90, FALSE, FALSE, 0, FALSE)
<1>1. PICK target \in Targets, most \in BOOLEAN :
        \E x \in MCColumns(target),
           role \in {[asset |-> NoColumn, time |-> NoColumn], [asset |-> NoColumn, time |-> "t"],
                     [asset |-> "x", time |-> "t"]},
           asked \in {{}, {"x"}} :
            LET frame == [n \in {"x", "y", "t"} |-> IF n = "x" THEN x ELSE IF n = "y" THEN target ELSE t]
            IN  case' = [kind |-> "prepare", frame |-> frame, asked |-> asked,
                         train |-> [n \in DOMAIN frame |-> InTrain(frame[n], most)],
                         given |-> [target |-> "y", asset |-> role.asset, time |-> role.time]]
    BY DEF PrepareColumn
<1>2. PICK x \in MCColumns(target), asked \in {{}, {"x"}} :
        \E train, given :
            case' = [kind |-> "prepare",
                     frame |-> [n \in {"x", "y", "t"} |-> IF n = "x" THEN x ELSE IF n = "y"
                         THEN target ELSE t],
                     asked |-> asked, train |-> train, given |-> given]
    BY <1>1
<1>3. sound(x)
    BY DEF MCColumns, Col
<1>4. sound(target) /\ sound(t)
    BY DEF Targets, Col
<1> HIDE DEF sound, t
<1> DEFINE frame == [n \in {"x", "y", "t"} |-> IF n = "x" THEN x ELSE IF n = "y" THEN target ELSE t]
<1>5. DOMAIN frame = {"x", "y", "t"} /\ \A n \in DOMAIN frame : sound(frame[n])
    BY <1>3, <1>4
<1>6. case'.frame = frame /\ case'.asked = asked
    BY <1>2
<1> HIDE DEF frame
<1>7. NoColumn \notin DOMAIN frame /\ asked \in SUBSET DOMAIN frame
    BY <1>5, NoColumnIsNoName
<1> QED BY <1>5, <1>6, <1>7 DEF PrepareInput, sound

LEMMA RowsAreTable ==
    ASSUME NEW n \in Nat, NEW rows, rows = [i \in 1..n |-> rows[i]],
           \A i \in 1..n : \E a, t, c, s :
              /\ rows[i] = [asset |-> a, time |-> t, class |-> c, sensor |-> s]
              /\ t \in Int \cup {Blank} /\ s \in Int \cup {Blank}
    PROVE  DOMAIN rows = 1..n /\ Table(rows)
<1>1. rows \in [1..n -> {rows[i] : i \in 1..n}]
    OBVIOUS
<1>2. DOMAIN rows = 1..n
    BY <1>1
<1>3. Len(rows) = n
    BY <1>1, ListingLength
<1> QED BY <1>2, <1>3 DEF Table

LEMMA FourRowsAreInput == AssessRows => QualityInput'
<1> SUFFICES ASSUME AssessRows PROVE QualityInput'
    OBVIOUS
<1>1. PICK order \in Bijection(1..4, 1..4),
           assets \in {<<1, 1, 1, 1>>, <<1, 1, 2, 2>>, <<1, 2, 1, Blank>>},
           classes \in {<<1, 1, 1, Blank>>, <<1, 2, 2, Blank>>, <<Blank, Blank, Blank, 2>>},
           sensor \in [1..4 -> {0, 1, Blank}],
           given \in {{"time"}, {"asset", "time"}, {"class"}, {"asset", "time", "class"}} :
        LET times == <<0, 1, 2, 9>>
        IN  case' = [kind |-> "quality", given |-> given, order |-> order,
                     rows |-> [i \in 1..4 |-> [asset |-> assets[i], time |-> times[i],
                                               class |-> classes[i], sensor |-> sensor[i]]]]
    BY DEF AssessRows
<1> DEFINE times == <<0, 1, 2, 9>>
           rows == [i \in 1..4 |-> [asset |-> assets[i], time |-> times[i],
                                    class |-> classes[i], sensor |-> sensor[i]]]
<1>2. case'.order = order /\ case'.rows = rows
    BY <1>1
<1>3. \A i \in 1..4 : times[i] \in Int \cup {Blank} /\ sensor[i] \in Int \cup {Blank}
    OBVIOUS
<1> HIDE DEF times
<1>4. \A i \in 1..4 : \E a, t, c, s :
          /\ rows[i] = [asset |-> a, time |-> t, class |-> c, sensor |-> s]
          /\ t \in Int \cup {Blank} /\ s \in Int \cup {Blank}
    BY <1>3
<1>5. rows = [i \in 1..4 |-> rows[i]]
    OBVIOUS
<1> HIDE DEF rows
<1>6. DOMAIN rows = 1..4 /\ Table(rows)
    BY <1>4, <1>5, RowsAreTable
<1> QED BY <1>2, <1>6 DEF QualityInput, Moves

LEMMA FiveRowsAreInput == AssessGroups => QualityInput'
<1> SUFFICES ASSUME AssessGroups PROVE QualityInput'
    OBVIOUS
<1>1. PICK order \in Bijection(1..5, 1..5), sensor \in [1..5 -> 0..1], given \in {{"time"}, {"asset", "time"}} :
        case' = [kind |-> "quality", given |-> given, order |-> order,
                 rows |-> [i \in 1..5 |-> [asset |-> IF i <= 3 THEN 1 ELSE 2, time |-> i,
                                           class |-> 1, sensor |-> sensor[i]]]]
    BY DEF AssessGroups
<1> DEFINE rows == [i \in 1..5 |-> [asset |-> IF i <= 3 THEN 1 ELSE 2, time |-> i,
                                    class |-> 1, sensor |-> sensor[i]]]
<1>2. case'.order = order /\ case'.rows = rows
    BY <1>1
<1>3. \A i \in 1..5 : i \in Int /\ sensor[i] \in Int
    OBVIOUS
<1>4. \A i \in 1..5 : \E a, t, c, s :
          /\ rows[i] = [asset |-> a, time |-> t, class |-> c, sensor |-> s]
          /\ t \in Int \cup {Blank} /\ s \in Int \cup {Blank}
    BY <1>3
<1>5. rows = [i \in 1..5 |-> rows[i]]
    OBVIOUS
<1> HIDE DEF rows
<1>6. DOMAIN rows = 1..5 /\ Table(rows)
    BY <1>4, <1>5, RowsAreTable
<1> QED BY <1>2, <1>6 DEF QualityInput, Moves

Inputs ==
    /\ SplitInput /\ ChatInput /\ BestInput /\ CostInput
    /\ DriftInput /\ PrepareInput /\ QualityInput

(* An input is of one kind: the others are about none.                      *)
LEMMA KindsApart ==
    /\ case'.kind = "drift" /\ DriftInput' => Inputs'
    /\ case'.kind = "best" /\ BestInput' => Inputs'
    /\ case'.kind = "cost" /\ CostInput' => Inputs'
    /\ case'.kind = "split" /\ SplitInput' => Inputs'
    /\ case'.kind = "prepare" /\ PrepareInput' => Inputs'
    /\ case'.kind = "quality" /\ QualityInput' => Inputs'
    /\ case'.kind = "chat" /\ ChatInput' => Inputs'
<1> USE DEF Inputs, SplitInput, ChatInput, BestInput, CostInput, DriftInput, PrepareInput, QualityInput, Is
<1>1. case'.kind = "drift" /\ DriftInput' => Inputs'
    OBVIOUS
<1>2. case'.kind = "best" /\ BestInput' => Inputs'
    OBVIOUS
<1>3. case'.kind = "cost" /\ CostInput' => Inputs'
    OBVIOUS
<1>4. case'.kind = "split" /\ SplitInput' => Inputs'
    OBVIOUS
<1>5. case'.kind = "prepare" /\ PrepareInput' => Inputs'
    OBVIOUS
<1>6. case'.kind = "quality" /\ QualityInput' => Inputs'
    OBVIOUS
<1>7. case'.kind = "chat" /\ ChatInput' => Inputs'
    OBVIOUS
<1> QED BY <1>1, <1>2, <1>3, <1>4, <1>5, <1>6, <1>7

LEMMA InputsAreOfTheirKind == Spec => []Inputs
<1>1. Init => Inputs
    BY DEF Init, Inputs, SplitInput, ChatInput, BestInput, CostInput, DriftInput, PrepareInput, QualityInput, Is
<1>2. Inputs /\ [Next]_case => Inputs'
  <2> SUFFICES ASSUME Inputs, [Next]_case PROVE Inputs'
      OBVIOUS
  <2>1. CASE CompareNumbers \/ CompareCategories
    <3>1. case'.kind = "drift"
        BY <2>1 DEF CompareNumbers, CompareCategories
    <3> QED BY <2>1, <3>1, WindowsAreInput, KindsApart
  <2>2. CASE CompareClassifiers
    <3>1. case'.kind = "best"
        BY <2>2 DEF CompareClassifiers
    <3> QED BY <2>2, <3>1, ClassifiersAreInput, KindsApart
  <2>3. CASE CompareRegressors
    <3>1. case'.kind = "best"
        BY <2>3 DEF CompareRegressors
    <3> QED BY <2>3, <3>1, RegressorsAreInput, KindsApart
  <2>4. CASE CompareCosts
    <3>1. case'.kind = "cost"
        BY <2>4 DEF CompareCosts
    <3> QED BY <2>4, <3>1, CostsAreInput, KindsApart
  <2>5. CASE DivideRows
    <3>1. case'.kind = "split" /\ SplitInput'
        BY <2>5 DEF DivideRows, SplitInput, Frames
    <3> QED BY <3>1, KindsApart
  <2>6. CASE DivideGaps
    <3>1. case'.kind = "split" /\ SplitInput'
        BY <2>6 DEF DivideGaps, SplitInput, Frames
    <3> QED BY <3>1, KindsApart
  <2>7. CASE PrepareColumn
    <3>1. case'.kind = "prepare"
        BY <2>7 DEF PrepareColumn
    <3> QED BY <2>7, <3>1, ColumnsAreInput, KindsApart
  <2>8. CASE AssessRows
    <3>1. case'.kind = "quality"
        BY <2>8 DEF AssessRows
    <3> QED BY <2>8, <3>1, FourRowsAreInput, KindsApart
  <2>9. CASE AssessGroups
    <3>1. case'.kind = "quality"
        BY <2>9 DEF AssessGroups
    <3> QED BY <2>9, <3>1, FiveRowsAreInput, KindsApart
  <2>10. CASE AskCopilot
    <3>1. case'.kind = "chat" /\ ChatInput'
        BY <2>10 DEF AskCopilot, ChatInput
    <3> QED BY <3>1, KindsApart
  <2>11. CASE UNCHANGED case
      BY <2>11 DEF Inputs, SplitInput, ChatInput, BestInput, CostInput, DriftInput, PrepareInput, QualityInput, Is
  <2> QED BY <2>1, <2>2, <2>3, <2>4, <2>5, <2>6, <2>7, <2>8, <2>9, <2>10, <2>11 DEF Next
<1> QED BY <1>1, <1>2, PTL DEF Spec

(* data/split.py with its default sizes: see SplitsKeepApart.               *)
THEOREM SplitsHold == Spec => []SplitKeepsApart
<1>1. ASSUME Inputs PROVE SplitKeepsApart
  <2>1. QuarterAtMost(<<1, 5>>) /\ QuarterAtMost(ValidationSize(<<1, 5>>, <<1, 5>>))
      BY DEF QuarterAtMost, ValidationSize
  <2> QED BY <1>1, <2>1, SplitsKeepApart DEF Inputs, SplitInput, SplitKeepsApart
<1> QED BY <1>1, InputsAreOfTheirKind, PTL

(* agent/graph.py: see CopilotIsGrounded.                                   *)
THEOREM GroundedHolds == Spec => []AnswersAreGrounded
<1>1. ASSUME Inputs PROVE AnswersAreGrounded
    BY <1>1, CopilotIsGrounded DEF Inputs, ChatInput, AnswersAreGrounded
<1> QED BY <1>1, InputsAreOfTheirKind, PTL

(* ml/recommend.py, ml/cost.py: see RecommendedIsBest, CheapestCostsLeast.  *)
THEOREM BestHolds == Spec => []BestIsRecommended
<1>1. ASSUME Inputs PROVE BestIsRecommended
  <2>1. Is("best") => RecommendsTheBest(case.task, case.rare, case.evaluations, case.recall)
      BY <1>1, RecommendedIsBest DEF Inputs, BestInput
  <2>2. Is("cost") => CheapestIsCheapest(case.evaluations, case.missed, case.alarms, case.cost)
      BY <1>1, CheapestCostsLeast DEF Inputs, CostInput
  <2> QED BY <2>1, <2>2 DEF BestIsRecommended
<1> QED BY <1>1, InputsAreOfTheirKind, PTL

(* monitoring/drift.py: see DriftIsSeenInAll.                               *)
THEOREM DriftHolds == Spec => []DriftIsSeen
<1>1. ASSUME Inputs PROVE DriftIsSeen
    BY <1>1, DriftIsSeenInAll DEF Inputs, DriftInput, DriftIsSeen
<1> QED BY <1>1, InputsAreOfTheirKind, PTL

(* tasks/infer.py and data/quality.py: a target with two values and more    *)
(* than one class can be trained for, and no other.                         *)
LEMMA TargetsAgree ==
    ASSUME NEW rows, Table(rows)
    PROVE  LET column == Col("int", {}, Cardinality(Filled(rows, "class")),
                             Cardinality(ValuesOf(rows, "class")), FALSE, FALSE, 0, FALSE)
           IN  Trainable([y |-> column], "y") <=> (column.filled >= 2 /\ ~HasOneClass(rows))
<1> DEFINE T == Filled(rows, "class")
           V == ValuesOf(rows, "class")
           column == Col("int", {}, Cardinality(T), Cardinality(V), FALSE, FALSE, 0, FALSE)
           frame == [y |-> column]
<1>1. IsFiniteSet(T) /\ Cardinality(T) \in Nat
  <2>1. T \in SUBSET DOMAIN rows
      BY DEF Filled
  <2> HIDE DEF T
  <2> QED BY <2>1, TableRows
<1>2. Cardinality(V) \in Nat /\ (Cardinality(V) = 0 <=> Cardinality(T) = 0)
  <2>1. V = {rows[i]["class"] : i \in T}
      BY DEF ValuesOf
  <2> DEFINE f == [i \in T |-> rows[i]["class"]]
  <2>2. f \in Surjection(T, V)
    <3> HIDE DEF T, V
    <3> QED BY <2>1 DEF Surjection
  <2> HIDE DEF T, V, f
  <2>3. IsFiniteSet(V)
      BY <1>1, <2>2, FS_Surjection
  <2>4. V = {} <=> T = {}
      BY <2>1
  <2> QED BY <1>1, <2>3, <2>4, FS_EmptySet, FS_CardinalityType
<1>3. column.filled = Cardinality(T) /\ column.distinct = Cardinality(V)
    BY DEF Col
<1>4. HasOneClass(rows) <=> Cardinality(V) = 1
    BY DEF HasOneClass
<1>5. "y" \in DOMAIN frame /\ frame["y"] = column
    OBVIOUS
<1> HIDE DEF T, V, column, frame
<1>6. TaskOf(frame, "y") \in {"insufficient_target", "single_class"}
          <=> Cardinality(T) < 2 \/ Cardinality(V) <= 1
    BY <1>3, <1>5 DEF TaskOf
<1>7. Trainable(frame, "y") <=> (column.filled >= 2 /\ ~HasOneClass(rows))
    BY <1>1, <1>2, <1>3, <1>4, <1>6 DEF Trainable
<1> QED BY <1>7 DEF column, frame, T, V

(* data/leakage.py, ml/preprocess.py, data/quality.py, tasks/infer.py: see  *)
(* LeaksStayOut, ProposalsCanBeTrained and ScoreIsStable.                   *)
THEOREM PreparationHolds == Spec => []PreparationIsSound
<1>1. ASSUME Inputs PROVE PreparationIsSound
  <2>1. ASSUME Is("prepare")
        PROVE  /\ LeaksAreExcluded(case.frame, case.train, case.given, case.asked)
               /\ ProposalsAreTrainable(case.frame)
      BY <1>1, <2>1, LeaksStayOut, ProposalsCanBeTrained DEF Inputs, PrepareInput
  <2>2. ASSUME Is("quality")
        PROVE  Table(case.rows) /\ ScoreIsOfTheData(case.rows, case.given, case.order)
      BY <1>1, <2>2, ScoreIsStable DEF Inputs, QualityInput
  <2> QED BY <2>1, <2>2, TargetsAgree DEF PreparationIsSound
<1> QED BY <1>1, InputsAreOfTheirKind, PTL
=============================================================================
