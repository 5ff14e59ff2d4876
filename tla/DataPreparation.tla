-------------------------- MODULE DataPreparation --------------------------
(* From the columns of a dataset to the features of a model: schema         *)
(* inference (data/schema.py), the task (tasks/infer.py), target leakage    *)
(* (data/leakage.py), what an experiment excludes (application/             *)
(* experiments.py) and what training then uses (ml/preprocess.py).          *)
(*                                                                          *)
(* A column is [dtype, hints, filled, distinct, boolean, dates, agreement,  *)
(* correlated]: its coarse dtype, the hint lists its name is on, how many   *)
(* values it has and how many different ones, whether all are boolean words *)
(* or dates, in how many thousandths of the rows it prints as the target    *)
(* does, and whether |r| >= 0.99 with the target.  A frame is a function    *)
(* from names to columns; given = [target, asset, time] names its roles,    *)
(* each a column or NoColumn.                                               *)
EXTENDS Integers, FiniteSets, FiniteSetsExt

CONSTANT NoColumn

Dtypes == {"bool", "datetime", "int", "float", "category", "string"}

Hints == {"identifier", "sensor", "target", "timestamp", "label", "post_event"}

(* is_numeric_dtype counts bool among the numbers.                          *)
IsNumeric(c) == c.dtype \in {"int", "float", "bool"}

(* The share of different values among those there are reaches permille.    *)
UniqueRatioReaches(c, permille) == c.filled > 0 /\ c.distinct * 1000 >= permille * c.filled

MaxCategories == 30

-----------------------------------------------------------------------------
(* _looks_like_datetime: an empty column of text does not.                  *)
LooksLikeDatetime(c) ==
    c.dtype = "datetime" \/ (c.dtype = "string" /\ c.filled > 0 /\ c.dates)

IsBooleanLike(c) == c.dtype = "bool" \/ (c.dtype # "datetime" /\ c.distinct <= 2 /\ c.boolean)

SemanticType(c) ==
    LET id == UniqueRatioReaches(c, 900)
    IN  CASE LooksLikeDatetime(c) -> "datetime"
          [] IsBooleanLike(c) /\ ~LooksLikeDatetime(c) -> "boolean"
          [] OTHER ->
                IF c.dtype \in {"string", "category"} THEN IF id THEN "identifier_like" ELSE "categorical"
                ELSE IF "identifier" \in c.hints /\ id THEN "identifier_like"
                ELSE IF "sensor" \in c.hints \/ c.dtype = "float" THEN "sensor_numeric"
                ELSE IF c.distinct <= MaxCategories THEN "categorical" ELSE "numeric"

(* How strongly a column is proposed for a role, 0 if it is not.            *)
TargetRank(c) ==
    LET semantic == SemanticType(c)
        hinted == "target" \in c.hints
    IN  IF semantic \in {"datetime", "identifier_like"} \/ c.distinct < 2 \/ c.distinct > 1000 THEN 0
        ELSE IF semantic = "boolean" THEN IF hinted THEN 3 ELSE 2
        ELSE IF c.distinct <= MaxCategories THEN IF hinted THEN 3 ELSE 1
        ELSE IF hinted THEN 2 ELSE 0

AssetRank(c) ==
    IF SemanticType(c) = "datetime" \/ "identifier" \notin c.hints THEN 0
    ELSE IF SemanticType(c) = "identifier_like" THEN 3 ELSE 1

TimestampRank(c) ==
    LET hinted == "timestamp" \in c.hints
    IN  IF SemanticType(c) = "datetime" THEN IF hinted THEN 3 ELSE 2
        ELSE IF hinted /\ c.dtype = "string" /\ SemanticType(c) # "identifier_like" THEN 1 ELSE 0

-----------------------------------------------------------------------------
(* recommend_task                                                           *)
TaskOf(frame, target) ==
    IF target \notin DOMAIN frame \/ frame[target].filled < 2 THEN "insufficient_target"
    ELSE IF frame[target].distinct <= 1 THEN "single_class"
    ELSE IF frame[target].distinct <= 2 THEN "binary_classification"
    ELSE IF IsNumeric(frame[target]) /\ frame[target].distinct > MaxCategories THEN "regression"
    ELSE "multiclass_classification"

Trainable(frame, target) == TaskOf(frame, target) \notin {"insufficient_target", "single_class"}

-----------------------------------------------------------------------------
(* _check_feature: the first kind of leakage that applies, in this order.   *)
LeakageKinds(c, target) ==
    <<[kind |-> "target_duplicate", holds |-> c.agreement >= 999],
      [kind |-> "target_correlated", holds |-> IsNumeric(c) /\ IsNumeric(target) /\ c.correlated],
      [kind |-> "highly_identical", holds |-> c.agreement >= 900],
      [kind |-> "label_derived_name", holds |-> "label" \in c.hints],
      [kind |-> "post_event_name", holds |-> "post_event" \in c.hints],
      [kind |-> "near_one_to_one_id",
       holds |-> SemanticType(c) = "identifier_like"
                 \/ (UniqueRatioReaches(c, 990) /\ "identifier" \in c.hints)],
      [kind |-> "high_cardinality", holds |-> UniqueRatioReaches(c, 990) /\ ~IsNumeric(c)]>>

Blocking == {"target_duplicate", "target_correlated", "label_derived_name", "near_one_to_one_id"}

Applying(c, target) == {i \in 1..7 : LeakageKinds(c, target)[i].holds}

LeakageOf(c, target) ==
    IF Applying(c, target) = {} THEN "none"
    ELSE LeakageKinds(c, target)[Min(Applying(c, target))].kind

Checked(frame, given) == DOMAIN frame \ {given.target, given.asset, given.time}

(* Mistake: a column that prints as the target almost everywhere counts as  *)
(* the warning it would be if it did a little less often.                   *)
BlockedByName(frame, given) ==
    {n \in Checked(frame, given) :
        LeakageOf(frame[n], frame[given.target]) \in Blocking \ {"target_duplicate"}}

(* detect: excluded_features, and the verdict.                              *)
Blocked(frame, given) ==
    {n \in Checked(frame, given) : LeakageOf(frame[n], frame[given.target]) \in Blocking}

ExtraDatetimes(frame, given) ==
    IF given.time \notin DOMAIN frame THEN {}
    ELSE {n \in DOMAIN frame \ {given.time, given.target} : frame[n].dtype = "datetime"}

Verdict(frame, given) ==
    IF Blocked(frame, given) # {} THEN "block"
    ELSE IF ExtraDatetimes(frame, given) # {}
            \/ \E n \in Checked(frame, given) : LeakageOf(frame[n], frame[given.target]) # "none"
    THEN "warning" ELSE "safe"

-----------------------------------------------------------------------------
(* create_experiment excludes what is blocked and the roles.                *)
Excluded(frame, given) == Blocked(frame, given) \cup ({given.asset, given.time} \ {NoColumn})

(* is_identifier_like, over the rows of the train fold.                     *)
DroppedByTraining(c) ==
    c.dtype = "datetime" \/ (~IsNumeric(c) /\ UniqueRatioReaches(c, 900))

(* resolve_features, asked for these columns or, for none, for all: none    *)
(* that is excluded comes back by being asked for.                          *)
ResolvedFeatures(frame, train, given, asked) ==
    {n \in (IF asked = {} THEN DOMAIN frame ELSE asked) :
        n \notin Excluded(frame, given) \cup {given.target} /\ ~DroppedByTraining(train[n])}

(* classify_column and build_preprocessor: the transformer of a feature.    *)
TransformerOf(c) ==
    IF c.dtype = "datetime" THEN "drop"
    ELSE IF c.dtype = "bool" \/ (c.distinct <= 2 /\ c.boolean) THEN "boolean"
    ELSE IF IsNumeric(c) THEN "numeric" ELSE "categorical"

-----------------------------------------------------------------------------
(* data/leakage.py: "block features are excluded from training by default". *)
(* No feature of a model prints as its target does, is correlated with it,  *)
(* holds a role, or has a name derived from a label or the values of an id, *)
(* unless a warning came before the last two and so replaced the block; a   *)
(* verdict of "safe" means that nothing at all was found in any feature;    *)
(* and every feature has a transformer.                                     *)
LeaksAreExcluded(frame, train, given, asked) ==
    \A n \in ResolvedFeatures(frame, train, given, asked) :
        LET c == frame[n]
            t == frame[given.target]
        IN  /\ n \notin {given.target, given.asset, given.time}
            /\ c.agreement < 999
            /\ ~(c.correlated /\ IsNumeric(c) /\ IsNumeric(t))
            /\ "label" \in c.hints => c.agreement >= 900
            /\ SemanticType(c) = "identifier_like" =>
                  c.agreement >= 900 \/ "post_event" \in c.hints
            /\ Verdict(frame, given) = "safe" => Applying(c, t) = {}
            /\ TransformerOf(train[n]) # "drop"

(* What the schema proposes as a target can be trained for.                 *)
ProposalsAreTrainable(frame) ==
    \A n \in DOMAIN frame : TargetRank(frame[n]) > 0 => Trainable(frame, n)
=============================================================================
