---------------------------- MODULE MCAlgorithms ----------------------------
(* The algorithms over bounded inputs.  A state is one input: the first     *)
(* step picks it, and every property is about the inputs of its kind.       *)
EXTENDS MonitoringRules, ModelComparison, Splits, DataPreparation, DataQuality, Copilot, TLC

VARIABLE case

(* None is no name.                                                         *)
ASSUME NoColumnIsNoName == NoColumn \notin {"x", "y", "t"}

Is(kind) == case.kind = kind

-----------------------------------------------------------------------------
(* Windows of one to three rows, of numbers or of categories.  Some of the  *)
(* numbers may be infinite, and one window of three rows may be rough.      *)
Windows(values) == UNION {[1..n -> values] : n \in 1..3}

CompareNumbers ==
    \E b, p \in Windows({0, 1, 2, Missing, Infinite}) :
    \E rough \in {<<FALSE, FALSE>>, <<Len(b) = 3, FALSE>>, <<FALSE, Len(p) = 3>>} :
        case' = [kind |-> "drift",
                 baseline |-> [numeric |-> TRUE, values |-> b, rough |-> rough[1]],
                 production |-> [numeric |-> TRUE, values |-> p, rough |-> rough[2]]]

CompareCategories == \E b, p \in Windows({0, 1, 2, Missing}) :
    case' = [kind |-> "drift", baseline |-> [numeric |-> FALSE, values |-> b, rough |-> FALSE],
             production |-> [numeric |-> FALSE, values |-> p, rough |-> FALSE]]

-----------------------------------------------------------------------------
(* Evaluations of three models, failed ones among them.                     *)
Metrics(f1, prAuc, recall, rmse) == [f1 |-> f1, pr_auc |-> prAuc, recall |-> recall, rmse |-> rmse]

Evaluation(model, ok, metrics, latency) ==
    [model |-> model, ok |-> ok, metrics |-> metrics, latency |-> latency]

FailedRun(model) == Evaluation(model, FALSE, Metrics(Unknown, Unknown, Unknown, Unknown), Unknown)

Classified(model, prAucs) ==
    {Evaluation(model, TRUE, Metrics(f, a, r, Unknown), l) :
        f \in 0..1, a \in prAucs, r \in 0..1, l \in 1..2} \cup {FailedRun(model)}

Regressed(model) ==
    {Evaluation(model, TRUE, Metrics(Unknown, Unknown, Unknown, e), l) : e \in 0..2, l \in 1..2}
    \cup {FailedRun(model)}

CompareClassifiers == \E rare \in BOOLEAN, recall \in 0..1 :
    LET of(m) == Classified(m, IF rare THEN {0, 1, Unknown} ELSE {Unknown})
    IN  \E x \in of("logistic_regression"), y \in of("random_forest"), z \in of("xgboost") :
           case' = [kind |-> "best", task |-> "binary_classification", rare |-> rare,
                    evaluations |-> {x, y, z}, recall |-> recall]

CompareRegressors ==
    \E x \in Regressed("ridge"), y \in Regressed("random_forest"), z \in Regressed("xgboost") :
        case' = [kind |-> "best", task |-> "regression", rare |-> FALSE,
                 evaluations |-> {x, y, z}, recall |-> 1]

(* Each model misses positives and raises false alarms; the labels are in   *)
(* either order and the positive one is named or is the second.             *)
Binary == NamesForTask("binary_classification")

CompareCosts ==
    \E failed \in SUBSET Binary, missed, alarms \in [Binary -> 0..2], fn, fp \in 1..3,
       labels \in {<<0, 1>>, <<1, 0>>}, named \in BOOLEAN :
        LET positive == IF named THEN 1 ELSE labels[2]
            evaluation(m) ==
                [model |-> m, ok |-> m \notin failed, labels |-> labels,
                 positive |-> IF named THEN positive ELSE Unknown,
                 matrix |-> ConfusionMatrix(labels, positive, missed[m], alarms[m])]
        IN  /\ \A m \in failed : missed[m] = 0 /\ alarms[m] = 0
            /\ case' = [kind |-> "cost", evaluations |-> {evaluation(m) : m \in Binary},
                        missed |-> missed, alarms |-> alarms, cost |-> [fn |-> fn, fp |-> fp]]

-----------------------------------------------------------------------------
(* Frames of three to six rows, with the columns a strategy looks at.       *)
DivideRows ==
    \E n \in 3..6, given \in SUBSET {"asset", "time", "class"},
       present \in {{"asset", "time", "class"}, {"class"}} :
    \E assets \in IF "asset" \in given THEN [1..n -> 1..2] ELSE {[i \in 1..n |-> 1]},
       times \in IF "time" \in given THEN [1..n -> 1..2] ELSE {[i \in 1..n |-> 1]},
       classes \in IF given = {"class"} THEN [1..n -> 1..2] ELSE {[i \in 1..n |-> 1]} :
        case' = [kind |-> "split", given |-> given, present |-> present,
                 rows |-> [i \in 1..n |->
                              [asset |-> assets[i], time |-> times[i], class |-> classes[i]]]]

(* Four rows, any of whose values may not be there, and three assets.       *)
DivideGaps ==
    \E given \in {{"asset", "time"}, {"asset"}, {"time"}, {"class"}} :
    \E assets \in IF "asset" \in given THEN [1..4 -> {1, 2, 3, NoValue}] ELSE {[i \in 1..4 |-> 1]},
       times \in IF "time" \in given THEN [1..4 -> {1, 2, NoValue}] ELSE {[i \in 1..4 |-> 1]},
       classes \in IF given = {"class"} THEN [1..4 -> {1, 2, NoValue}] ELSE {[i \in 1..4 |-> 1]} :
        case' = [kind |-> "split", given |-> given, present |-> {"asset", "time", "class"},
                 rows |-> [i \in 1..4 |->
                              [asset |-> assets[i], time |-> times[i], class |-> classes[i]]]]

-----------------------------------------------------------------------------
(* A column x of a hundred rows beside a target y and a datetime t.         *)
Col(dtype, hints, filled, distinct, boolean, dates, agreement, correlated) ==
    [dtype |-> dtype, hints |-> hints, filled |-> filled, distinct |-> distinct,
     boolean |-> boolean, dates |-> dates, agreement |-> agreement, correlated |-> correlated]

Targets == {Col("int", {"target"}, 100, 2, TRUE, FALSE, 1000, TRUE),
            Col("float", {"target"}, 100, 95, FALSE, FALSE, 1000, TRUE),
            Col("string", {"label"}, 100, 3, FALSE, FALSE, 1000, FALSE)}

IsColumn(c, target) ==
    /\ c.distinct = 0 <=> c.filled = 0
    /\ c.distinct = 0 => c.boolean
    /\ c.boolean => c.distinct <= 2
    /\ c.dtype = "bool" => c.boolean
    /\ c.dates => c.dtype = "string" /\ ~c.boolean
    /\ c.dtype = "datetime" => ~c.boolean \/ c.distinct = 0
    /\ c.correlated => IsNumeric(c) /\ IsNumeric(target) /\ c.distinct >= 2
    /\ c.agreement = 1000 => /\ c.distinct = target.distinct
                             /\ c.dtype = target.dtype /\ c.correlated = IsNumeric(c)
    /\ c.agreement = 950 => c.distinct - target.distinct \in -5..5

MCColumns(target) ==
    {c \in {Col(d, h, IF n = 0 THEN 0 ELSE 100, n, b, s, a, r) :
               d \in Dtypes, h \in SUBSET {"identifier", "label", "post_event", "target"},
               n \in {0, 1, 2, 3, 40, 95, 100}, b \in BOOLEAN, s \in BOOLEAN,
               a \in {0, 950, 1000}, r \in BOOLEAN} : IsColumn(c, target)}

(* The train fold has half of the rows, and most of the values or half.     *)
InTrain(c, most) ==
    [c EXCEPT !.filled = @ \div 2,
              !.distinct = IF most \/ @ <= 2 THEN Min({@, c.filled \div 2}) ELSE @ \div 2]

PrepareColumn == \E target \in Targets, most \in BOOLEAN :
    \E x \in MCColumns(target),
       role \in {[asset |-> NoColumn, time |-> NoColumn], [asset |-> NoColumn, time |-> "t"],
                 [asset |-> "x", time |-> "t"]},
       asked \in {{}, {"x"}} :
        LET t == Col("datetime", {"timestamp"}, 100, 90, FALSE, FALSE, 0, FALSE)
            frame == [n \in {"x", "y", "t"} |-> IF n = "x" THEN x ELSE IF n = "y" THEN target ELSE t]
        IN  case' = [kind |-> "prepare", frame |-> frame, asked |-> asked,
                     train |-> [n \in DOMAIN frame |-> InTrain(frame[n], most)],
                     given |-> [target |-> "y", asset |-> role.asset, time |-> role.time]]

(* Four rows, read at times 0, 1, 2 and 9 in any order.                     *)
AssessRows ==
    \E order \in Bijection(1..4, 1..4), assets \in {<<1, 1, 1, 1>>, <<1, 1, 2, 2>>, <<1, 2, 1, Blank>>},
       classes \in {<<1, 1, 1, Blank>>, <<1, 2, 2, Blank>>, <<Blank, Blank, Blank, 2>>},
       sensor \in [1..4 -> {0, 1, Blank}],
       given \in {{"time"}, {"asset", "time"}, {"class"}, {"asset", "time", "class"}} :
        LET times == <<0, 1, 2, 9>>
        IN  case' = [kind |-> "quality", given |-> given, order |-> order,
                     rows |-> [i \in 1..4 |-> [asset |-> assets[i], time |-> times[i],
                                               class |-> classes[i], sensor |-> sensor[i]]]]

(* Five rows of two assets, the runs of which may be as long and not agree. *)
AssessGroups ==
    \E order \in Bijection(1..5, 1..5), sensor \in [1..5 -> 0..1], given \in {{"time"}, {"asset", "time"}} :
        case' = [kind |-> "quality", given |-> given, order |-> order,
                 rows |-> [i \in 1..5 |-> [asset |-> IF i <= 3 THEN 1 ELSE 2, time |-> i,
                                           class |-> 1, sensor |-> sensor[i]]]]

-----------------------------------------------------------------------------
(* Requests that touch up to two keyword tables, with any inputs.  A tool   *)
(* returns 1, or 2 as "1e5" is written; a provider says those, 2 apart, or  *)
(* 2 glued to a word.                                                       *)
Evidence == SUBSET {WriteApart(1), WriteBroken(2, {1})}

Prose == Evidence \cup {{WriteApart(2)}, {WriteApart(1), WriteApart(2)}, {WriteGlued(2)}}

AskCopilot ==
    \E request \in {S \in SUBSET Keywords : Cardinality(S) <= 2},
       inputs \in SUBSET {"dataset_id", "experiment_id", "model_id", "record"},
       answer \in Answers(Evidence), configured \in BOOLEAN, completion \in Completions(Prose) :
        case' = [kind |-> "chat", request |-> request, inputs |-> inputs, answer |-> answer,
                 configured |-> configured, completion |-> completion]

-----------------------------------------------------------------------------
Init == case = [kind |-> "none"]

Next ==
    /\ Is("none")
    /\ \/ CompareNumbers \/ CompareCategories
       \/ CompareClassifiers \/ CompareRegressors \/ CompareCosts
       \/ DivideRows \/ DivideGaps
       \/ PrepareColumn \/ AssessRows \/ AssessGroups
       \/ AskCopilot

Spec == Init /\ [][Next]_case

-----------------------------------------------------------------------------
(* monitoring/drift.py: see SeesDrift.                                      *)
DriftIsSeen == Is("drift") => SeesDrift(case.baseline, case.production)

(* ml/recommend.py, ml/cost.py: see RecommendsTheBest, CheapestIsCheapest.  *)
BestIsRecommended ==
    /\ Is("best") => RecommendsTheBest(case.task, case.rare, case.evaluations, case.recall)
    /\ Is("cost") => CheapestIsCheapest(case.evaluations, case.missed, case.alarms, case.cost)

(* data/split.py with its default sizes: see KeepsApart.                    *)
SplitKeepsApart == Is("split") =>
    \A folds \in Split(case.rows, TRUE, case.given, case.present, <<1, 5>>, <<1, 5>>) :
        KeepsApart(case.rows, Strategy(case.given, TRUE), folds)

(* data/leakage.py, ml/preprocess.py, data/quality.py, tasks/infer.py: see  *)
(* LeaksAreExcluded and ScoreIsOfTheData; and the rules of the schema, of   *)
(* the task and of quality agree on what a target is.                       *)
PreparationIsSound ==
    /\ Is("prepare") =>
          /\ LeaksAreExcluded(case.frame, case.train, case.given, case.asked)
          /\ ProposalsAreTrainable(case.frame)
    /\ Is("quality") =>
          LET column == Col("int", {}, Cardinality(Filled(case.rows, "class")),
                            Cardinality(ValuesOf(case.rows, "class")), FALSE, FALSE, 0, FALSE)
          IN  /\ ScoreIsOfTheData(case.rows, case.given, case.order)
              /\ Trainable([y |-> column], "y") <=> (column.filled >= 2 /\ ~HasOneClass(case.rows))

(* agent/graph.py: see IsGrounded.                                          *)
AnswersAreGrounded == Is("chat") =>
    IsGrounded(case.request, case.inputs, case.answer, case.configured, case.completion)
=============================================================================
