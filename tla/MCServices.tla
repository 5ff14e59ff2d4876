----------------------------- MODULE MCServices -----------------------------
(* The services beside training and approval, and the console, on a small   *)
(* instance.  They share no state, so a behaviour shows one of them: the    *)
(* scene is chosen at the start and the others stay as they began.  Two of  *)
(* everything: workers, and ids of datasets, models, runs and experiments.  *)
EXTENDS Datasets, Predictions, Monitoring, Console, TLC

CONSTANTS w1, w2, id1, id2, f1, c1, c2, x1, x2, u1

MCWorkers == {w1, w2}
MCIds == {id1, id2}
MCFiles == {f1}
MCColumns == {c1, c2}
MCFrozen == {x1, x2}
MCNumeric == {x1}
MCVarying == {x2}
MCUploads == {u1}
MCReplays == {"normal"}

Symmetry == Permutations(MCWorkers) \cup Permutations(MCIds) \cup Permutations(MCColumns)

VARIABLE scene

Init ==
    /\ scene \in {"datasets", "predictions", "monitoring", "console"}
    /\ DatasetInit /\ PredictionInit /\ MonitoringInit /\ ConsoleInit

Next ==
    /\ UNCHANGED scene
    /\ \/ /\ scene = "datasets" /\ DatasetNext
          /\ UNCHANGED <<predictionVars, monitoringVars, consoleVars>>
       \/ /\ scene = "predictions" /\ PredictionNext
          /\ UNCHANGED <<datasetVars, monitoringVars, consoleVars>>
       \/ /\ scene = "monitoring" /\ MonitoringNext
          /\ UNCHANGED <<datasetVars, predictionVars, consoleVars>>
       \/ /\ scene = "console" /\ ConsoleNext
          /\ UNCHANGED <<datasetVars, predictionVars, monitoringVars>>

Spec == Init /\ [][Next]_<<scene, datasetVars, predictionVars, monitoringVars, consoleVars>>

(* The variables of all four have their types.                              *)
ServicesTypeOK == DatasetTypeOK /\ PredictionTypeOK /\ MonitoringTypeOK /\ ConsoleTypeOK
=============================================================================
