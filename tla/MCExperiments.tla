---------------------------- MODULE MCExperiments ----------------------------
(* Experiments on a small instance: two experiments that train up to two    *)
(* models each, over a dataset that can be pointed at two targets or none:   *)
(* of two tasks, or of one.                                                 *)
EXTENDS Experiments, TLC

CONSTANTS e1, e2, m1, m2, t1, t2

MCExperimentIds == {e1, e2}
MCModels == {m1, m2}
MCTargets == {t1, t2}
TwoTasks == t1 :> "binary_classification" @@ t2 :> "regression"
OneTask == t1 :> "regression" @@ t2 :> "regression"
=============================================================================
