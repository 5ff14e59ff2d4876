------------------------------- MODULE Splits -------------------------------
(* How the rows of a dataset are divided into folds (data/split.py).        *)
(*                                                                          *)
(* A frame is a sequence of rows [asset, time, class], each value NoValue   *)
(* or not; given names the columns the caller split by, present those the   *)
(* frame has.  A size is a fraction <<num, den>>.  What a seeded generator  *)
(* draws is any draw: a split is a set of possible results.                 *)
EXTENDS Integers, Sequences, FiniteSets, FiniteSetsExt

CONSTANT NoValue

MinRows == 4

Strategy(given, classification) ==
    IF {"asset", "time"} \subseteq given THEN "group_time"
    ELSE IF "asset" \in given THEN "group"
    ELSE IF "time" \in given THEN "chronological"
    ELSE IF classification /\ "class" \in given THEN "stratified"
    ELSE "random"

(* How many of n are held out: the product is rounded up, and one at least. *)
HeldOut(n, size) == Max({1, (n * size[1] + size[2] - 1) \div size[2]})

(* Rows in the order of their timestamps; the sort is stable.               *)
Earlier(rows, i, j) ==
    \/ rows[i].time < rows[j].time
    \/ rows[i].time = rows[j].time /\ i < j

Latest(rows, S, k) == {i \in S : Cardinality({j \in S : Earlier(rows, i, j)}) < k}

AssetRows(rows, S, a) == {i \in S : rows[i].asset = a}

ClassRows(rows, S, c) == {i \in S : rows[i].class = c}

AssetsOf(rows, S) == {rows[i].asset : i \in S}

ClassesOf(rows, S) == {rows[i].class : i \in S}

-----------------------------------------------------------------------------
(* The test folds that each strategy may draw from the rows of S *)

(* The latest records of every asset that has two or more; if no asset has, *)
(* the latest records of all.                                               *)
GroupTimeFolds(rows, S, size) ==
    LET multi == {a \in AssetsOf(rows, S) : Cardinality(AssetRows(rows, S, a)) >= 2}
        last(T) == Latest(rows, T, HeldOut(Cardinality(T), size))
    IN  {IF multi = {} THEN last(S) ELSE UNION {last(AssetRows(rows, S, a)) : a \in multi}}

(* Mistake: rows are drawn where assets should be.                          *)
RowFolds(rows, S, size) == kSubset(HeldOut(Cardinality(S), size), S)

GroupFolds(rows, S, size) ==
    LET assets == AssetsOf(rows, S)
    IN  {{i \in S : rows[i].asset \in T} : T \in kSubset(HeldOut(Cardinality(assets), size), assets)}

ChronologicalFolds(rows, S, size) == {Latest(rows, S, HeldOut(Cardinality(S), size))}

RandomFolds(rows, S, size) == kSubset(HeldOut(Cardinality(S), size), S)

(* train_test_split gives every class its share of the train fold, rounded  *)
(* one way or the other.                                                    *)
StratifiedFolds(rows, S, size) ==
    LET n == Cardinality(S)
        kept(T, c) == Cardinality(ClassRows(rows, S \ T, c)) * n
        share(c) == Cardinality(ClassRows(rows, S, c)) * (n - HeldOut(n, size))
    IN  {T \in RandomFolds(rows, S, size) : \A c \in ClassesOf(rows, S) :
            kept(T, c) - share(c) < n /\ share(c) - kept(T, c) < n}

FoldsOf(strategy, rows, S, size) ==
    CASE strategy = "group_time" -> GroupTimeFolds(rows, S, size)
      [] strategy = "group" -> GroupFolds(rows, S, size)
      [] strategy = "chronological" -> ChronologicalFolds(rows, S, size)
      [] strategy = "stratified" -> StratifiedFolds(rows, S, size)
      [] OTHER -> RandomFolds(rows, S, size)

(* SplitError: why a strategy does not apply to the rows of S.              *)
Refused(strategy, rows, S, size) ==
    LET timed == strategy \in {"group_time", "chronological"}
        ofAssets == strategy \in {"group_time", "group"}
        counts == {Cardinality(ClassRows(rows, S, c)) : c \in ClassesOf(rows, S)}
        n == Cardinality(S)
    IN  \/ timed /\ \E i \in DOMAIN rows : rows[i].time = NoValue
        \/ ofAssets /\ \E i \in DOMAIN rows : rows[i].asset = NoValue
        \/ strategy = "group" /\ Cardinality(AssetsOf(rows, S)) < 2
        \/ strategy = "stratified" /\
              \/ \E i \in S : rows[i].class = NoValue
              \/ Cardinality(ClassesOf(rows, S)) < 2
              \/ \E k \in counts : k < 2
              \/ Cardinality(ClassesOf(rows, S)) > Min({HeldOut(n, size), n - HeldOut(n, size)})

-----------------------------------------------------------------------------
(* split before the validation fold: none, if it is refused                 *)
FirstSplits(rows, strategy, given, present, test, validation) ==
    LET all == DOMAIN rows
        refused == \/ Len(rows) < MinRows
                   \/ test[1] * validation[2] + validation[1] * test[2] >= test[2] * validation[2]
                   \/ ~(given \subseteq present)
                   \/ Refused(strategy, rows, all, test)
    IN  IF refused THEN {}
        ELSE {[train |-> all \ T, test |-> T, validation |-> {}] :
                 T \in {U \in FoldsOf(strategy, rows, all, test) : U \notin {{}, all}}}

(* The validation fold is drawn from the train fold in the same way, if     *)
(* that has the rows and the structure for it.                              *)
WithValidation(rows, strategy, folds, test, validation) ==
    LET size == <<validation[1] * test[2], validation[2] * (test[2] - test[1])>>
    IN  IF validation[1] = 0 \/ Cardinality(folds.train) < MinRows
           \/ Refused(strategy, rows, folds.train, size)
        THEN {folds}
        ELSE {[folds EXCEPT !.train = @ \ V, !.validation = V] :
                 V \in FoldsOf(strategy, rows, folds.train, size)}

Split(rows, classification, given, present, test, validation) ==
    LET strategy == Strategy(given, classification)
    IN  UNION {WithValidation(rows, strategy, folds, test, validation) :
                  folds \in FirstSplits(rows, strategy, given, present, test, validation)}

-----------------------------------------------------------------------------
(* The module's promise, "leakage-aware": whatever the draws, every row is  *)
(* in one fold and train and test are not empty; no asset is in two folds   *)
(* of a group split; no row of an asset (of the frame, without assets) is   *)
(* later than one of a later fold, train, validation, test in this order;   *)
(* and a stratified train fold has every class, which the trainer needs.    *)
KeepsApart(rows, strategy, f) ==
    LET ordered(S) == \A i, j \in S :
            (i \in f.train /\ j \notin f.train) \/ (i \in f.validation /\ j \in f.test)
                => rows[i].time <= rows[j].time
    IN  /\ f.train \cup f.validation \cup f.test = DOMAIN rows
        /\ \A S, T \in {f.train, f.validation, f.test} : S # T => S \cap T = {}
        /\ f.train # {} /\ f.test # {}
        /\ strategy = "group" => \A S, T \in {f.train, f.validation, f.test} :
              S # T => AssetsOf(rows, S) \cap AssetsOf(rows, T) = {}
        /\ strategy = "group_time" =>
              \A a \in AssetsOf(rows, DOMAIN rows) : ordered(AssetRows(rows, DOMAIN rows, a))
        /\ strategy = "chronological" => ordered(DOMAIN rows)
        /\ strategy = "stratified" => ClassesOf(rows, f.train) = ClassesOf(rows, DOMAIN rows)
=============================================================================
