-------------------------- MODULE ModelComparison --------------------------
(* Which of the models an experiment trained is best: by its primary metric *)
(* (ml/recommend.py), and by what its errors cost (ml/cost.py).             *)
(*                                                                          *)
(* An evaluation is [model, ok, metrics, latency, matrix, labels, positive],*)
(* where metrics maps the names of metrics to numbers or Unknown (None).    *)
EXTENDS Integers, Sequences, FiniteSets

CONSTANT Unknown

ASSUME UnknownIsNoNumber == Unknown \notin Int

Catalog == <<"logistic_regression", "random_forest", "ridge", "xgboost">>   \* sorted by name

LowerIsBetter == {"rmse", "mae", "mse"}

ClassificationTasks == {"binary_classification", "multiclass_classification"}

NamesForTask(task) ==
    CASE task \in ClassificationTasks -> {"logistic_regression", "random_forest", "xgboost"}
      [] task = "regression" -> {"ridge", "random_forest", "xgboost"}
      [] OTHER -> {}

Complexity(model) ==
    CASE model = "random_forest" -> 1 [] model = "xgboost" -> 2 [] OTHER -> 0

NameOrder(model) == CHOOSE i \in DOMAIN Catalog : Catalog[i] = model

(* Tuples are compared at the first place where they differ.                *)
LexLess(x, y) ==
    \E i \in DOMAIN x : x[i] < y[i] /\ \A j \in 1..(i - 1) : x[j] = y[j]

SortedBy(S, Key(_)) ==
    CHOOSE s \in [1..Cardinality(S) -> S] :
        \A i, j \in DOMAIN s : i < j => LexLess(Key(s[i]), Key(s[j]))

-----------------------------------------------------------------------------
ResolvePrimaryMetric(task, rare) ==
    CASE task = "regression" -> "rmse"
      [] task = "binary_classification" /\ rare -> "pr_auc"
      [] OTHER -> "f1"

(* train: binary classes that are rare are ranked by pr_auc, unless no      *)
(* model has one, as the test fold has a single class.                      *)
PrimaryMetric(task, rare, evaluations) ==
    LET metric == ResolvePrimaryMetric(task, rare)
    IN  IF metric = "pr_auc" /\ \A e \in evaluations : e.ok => e.metrics.pr_auc = Unknown
        THEN "f1" ELSE metric

(* The latency that was not measured comes after every other.               *)
LatencyOf(e) == IF e.latency = Unknown THEN <<1, 0>> ELSE <<0, e.latency>>

(* Mistake: whatever the metric, more of it is better.                      *)
HigherIsBetter(e, primary) ==
    <<-e.metrics[primary], Complexity(e.model)>> \o LatencyOf(e) \o <<NameOrder(e.model)>>

RankingKey(e, primary) ==
    LET sign == IF primary \in LowerIsBetter THEN 1 ELSE -1
    IN  <<sign * e.metrics[primary], Complexity(e.model)>> \o LatencyOf(e) \o <<NameOrder(e.model)>>

(* A candidate has the primary metric and, in a classification, the recall  *)
(* that is asked for or none.                                               *)
Candidates(task, primary, evaluations, minimumRecall) ==
    {e \in evaluations :
        /\ e.ok /\ e.metrics[primary] # Unknown
        /\ task \in ClassificationTasks /\ minimumRecall > 0 =>
              e.metrics.recall = Unknown \/ e.metrics.recall >= minimumRecall}

(* recommend: the models from the best to the worst.                        *)
Ranking(task, primary, evaluations, minimumRecall) ==
    LET key(e) == RankingKey(e, primary)
        sorted == SortedBy(Candidates(task, primary, evaluations, minimumRecall), key)
    IN  [i \in DOMAIN sorted |-> sorted[i].model]

-----------------------------------------------------------------------------
(* confusion_matrix of a binary test fold: rows are what is true, columns   *)
(* what was predicted, in the order of labels.                              *)
ConfusionMatrix(labels, positive, fn, fp) ==
    [i \in 1..2 |-> [j \in 1..2 |-> IF i = j THEN 1 ELSE IF labels[i] = positive THEN fn ELSE fp]]

(* The positive class is the one named, or the second label.                *)
PositiveIndex(e) ==
    IF e.positive = Unknown THEN 2 ELSE CHOOSE i \in 1..2 : e.labels[i] = e.positive

CountFnFp(e) ==
    LET positive == PositiveIndex(e)
        negative == 3 - positive
    IN  [fn |-> e.matrix[positive][negative], fp |-> e.matrix[negative][positive]]

ExpectedCost(e, cost) == CountFnFp(e).fn * cost.fn + CountFnFp(e).fp * cost.fp

CostKey(e, cost) ==
    <<ExpectedCost(e, cost), CountFnFp(e).fn, CountFnFp(e).fp, Complexity(e.model), NameOrder(e.model)>>

(* CostError: errors can be counted in binary classifications only, with a  *)
(* 2x2 matrix and two distinct labels, one of them the positive one.        *)
Countable(e) ==
    /\ e.matrix # Unknown
    /\ Len(e.labels) = 2 /\ e.labels[1] # e.labels[2]
    /\ e.positive = Unknown \/ e.positive \in {e.labels[1], e.labels[2]}

CostError(task, evaluations) ==
    task # "binary_classification" \/ \E e \in evaluations : e.ok /\ ~Countable(e)

(* compare_costs: rows of the models that trained, from the cheapest, then  *)
(* those that did not, by name.  The recall asked for does not count here.  *)
CostRows(evaluations, cost) ==
    LET trained == {e \in evaluations : e.ok}
        key(e) == CostKey(e, cost)
        name(e) == <<NameOrder(e.model)>>
    IN  [ok |-> SortedBy(trained, key), unavailable |-> SortedBy(evaluations \ trained, name)]

CostBest(evaluations, cost) ==
    LET rows == CostRows(evaluations, cost).ok
    IN  IF rows = <<>> THEN Unknown ELSE rows[1].model

-----------------------------------------------------------------------------
(* The order of recommend's docstring, metric by metric: e is preferred to  *)
(* f if it is strictly better in the first respect in which they differ.    *)
Dominates(e, f, primary) ==
    LET better == IF primary \in {"rmse", "mae", "mse"} THEN e.metrics[primary] < f.metrics[primary]
                  ELSE e.metrics[primary] > f.metrics[primary]
        quicker == e.latency # Unknown /\ (f.latency = Unknown \/ e.latency < f.latency)
    IN  \/ better
        \/ /\ e.metrics[primary] = f.metrics[primary]
           /\ \/ Complexity(e.model) < Complexity(f.model)
              \/ Complexity(e.model) = Complexity(f.model) /\ quicker

(* An experiment recommends one of the models that meet its recall and      *)
(* have its metric, whenever there are any, and none of these is preferred  *)
(* to it.                                                                   *)
RecommendsTheBest(task, rare, evaluations, minimumRecall) ==
    LET primary == PrimaryMetric(task, rare, evaluations)
        meets(e) == e.metrics.recall = Unknown \/ e.metrics.recall >= minimumRecall
        eligible == {e \in evaluations : e.ok /\ e.metrics[primary] # Unknown
                                         /\ (task = "regression" \/ meets(e))}
        ranking == Ranking(task, primary, evaluations, minimumRecall)
    IN  /\ Len(ranking) = Cardinality(eligible)
        /\ eligible # {} => \E e \in eligible :
              e.model = ranking[1] /\ ~\E f \in eligible : Dominates(f, e, primary)

(* Whichever way the labels are ordered, the errors that are counted are    *)
(* the missed positives and the false alarms, and no model that trained     *)
(* has cheaper ones than the one called cheapest.                           *)
CheapestIsCheapest(evaluations, missed, alarms, cost) ==
    LET price(e) == missed[e.model] * cost.fn + alarms[e.model] * cost.fp
        trained == {e \in evaluations : e.ok}
    IN  ~CostError("binary_classification", evaluations) /\ trained # {} =>
          \E e \in trained :
             /\ e.model = CostBest(evaluations, cost)
             /\ \A f \in trained : price(e) <= price(f)
=============================================================================
