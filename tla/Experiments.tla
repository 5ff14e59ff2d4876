----------------------------- MODULE Experiments -----------------------------
(* Training experiments (application/experiments.py, api/experiments.py,    *)
(* ml/package.py): a request freezes a plan into a queued row and leaves a  *)
(* background task, the tasks train one at a time, and each writes to four  *)
(* places that share no transaction: the experiments table, the model_runs  *)
(* table, the tracking server and the artifact directory.                   *)
EXTENDS FiniteSets

CONSTANTS
    Experiments,    \* experiments over one dataset
    Models,         \* the catalogue's models for the task
    Targets,        \* target columns, each with a task that can be trained
    TaskOf,         \* the task stored with each of them
    NoTarget,       \* no target column, or one whose task cannot be trained
    NoModel, NoPackage, Nobody

ASSUME NoTargetIsNone == NoTarget \notin Targets
ASSUME NoModelIsNone == NoModel \notin Models
ASSUME NoPackageIsNone == NoPackage \notin Targets
ASSUME NobodyIsNone == Nobody \notin Experiments

VARIABLES
    target,     \* the dataset's target column and task
    row,        \* the experiments table
    modelRuns,  \* the model_runs table: <<experiment, model>>
    tracked,    \* the runs the tracking server has finished
    artifact,   \* the artifact directory: what the package under a name holds
    job,        \* what the API process holds of an experiment: request, then task
    lock,       \* the experiment that holds SingleTrainingCoordinator's lock
    retasked    \* history, not in the program: the experiments that were on
                \* their way when the dataset was given another task

dataset == <<target, retasked>>
database == <<row, modelRuns>>
experimentVars == <<dataset, row, modelRuns, tracked, artifact, job, lock>>

NoRow == [status |-> "none"]

Idle == [at |-> "idle"]

(* What a task has when it starts: nothing is trained, tracked or saved yet.*)
FreshJob == [at |-> "training", target |-> NoTarget, todo |-> {}, best |-> NoModel,
             current |-> NoModel, saved |-> {}, notes |-> {}, recommended |-> NoModel]

Goto(e, at) == job' = [job EXCEPT ![e].at = at]

Terminal(e) == row[e].status \in {"succeeded", "failed"}

(* The coordinator's lock is held from before service.run until after it.   *)
Release(e) ==
    /\ job' = [job EXCEPT ![e] = Idle]
    /\ lock' = Nobody

-----------------------------------------------------------------------------
(* The plan of an experiment on its way: created, and not trained yet.      *)
Planned(e, t) ==
    \/ job[e].at = "creating" /\ job[e].plan = t
    \/ job[e].at \in {"scheduled", "training"} /\ row[e].plan = t

(* DatasetService.recommend_task points the dataset at another column and   *)
(* stores its task.  So does profile, which merges the whole row it read    *)
(* when it began: both may go back to earlier ones or to none.              *)
SetTarget(t) ==
    /\ target' = t
    /\ retasked' = retasked \cup
          {e \in Experiments : t \in Targets
                              /\ \E p \in Targets : Planned(e, p) /\ TaskOf[p] # TaskOf[t]}
    /\ UNCHANGED <<database, tracked, artifact, job, lock>>

(* Mistake: an experiment over a dataset that has no trainable task.        *)
CreateUnready(e) ==
    /\ row[e] = NoRow /\ job[e] = Idle
    /\ job' = [job EXCEPT ![e] = [at |-> "creating", plan |-> target]]
    /\ retasked' = retasked \ {e}
    /\ UNCHANGED <<target, database, tracked, artifact, lock>>

(* create reads the dataset, refuses one that is not ready, and builds the  *)
(* plan from what it read ...                                               *)
CreateRead(e) ==
    /\ row[e] = NoRow /\ job[e] = Idle
    /\ target \in Targets
    /\ job' = [job EXCEPT ![e] = [at |-> "creating", plan |-> target]]
    /\ retasked' = retasked \ {e}
    /\ UNCHANGED <<target, database, tracked, artifact, lock>>

(* ... commits the queued row, and the endpoint adds the background task.   *)
CreateCommit(e) ==
    /\ job[e].at = "creating"
    /\ row' = [row EXCEPT ![e] = [status |-> "queued", plan |-> job[e].plan,
                                  recommended |-> NoModel, notes |-> {}]]
    /\ job' = [job EXCEPT ![e] = [at |-> "scheduled"]]
    /\ UNCHANGED <<dataset, modelRuns, tracked, artifact, lock>>

(* The split, the stored file or the insert fails: no row.                  *)
CreateFails(e) ==
    /\ job[e].at = "creating"
    /\ job' = [job EXCEPT ![e] = Idle]
    /\ UNCHANGED <<dataset, database, tracked, artifact, lock>>

-----------------------------------------------------------------------------
(* Mistake: tasks start without taking turns.                               *)
BeginAtOnce(e) ==
    /\ job[e].at = "scheduled"
    /\ row[e].status = "queued"
    /\ row' = [row EXCEPT ![e].status = "running"]
    /\ job' = [job EXCEPT ![e] = FreshJob]
    /\ lock' = e
    /\ UNCHANGED <<dataset, modelRuns, tracked, artifact>>

(* The task takes the lock and marks the row running.                       *)
BeginRun(e) ==
    /\ job[e].at = "scheduled"
    /\ lock = Nobody
    /\ row[e].status = "queued"
    /\ row' = [row EXCEPT ![e].status = "running"]
    /\ job' = [job EXCEPT ![e] = FreshJob]
    /\ lock' = e
    /\ UNCHANGED <<dataset, modelRuns, tracked, artifact>>

(* That transaction fails: the exception leaves run and ends the task, and  *)
(* the row stays queued.                                                    *)
BeginFails(e) ==
    /\ job[e].at = "scheduled"
    /\ lock = Nobody
    /\ Release(e)
    /\ UNCHANGED <<dataset, database, tracked, artifact>>

(* _run_training reads the dataset's target and task again and trains the   *)
(* frozen plan: some models come out, and the comparison recommends one of  *)
(* them or none.                                                            *)
Train(e) ==
    /\ job[e].at = "training"
    /\ target \in Targets
    /\ \E trained \in (SUBSET Models) \ {{}} : \E best \in trained \cup {NoModel} :
          job' = [job EXCEPT ![e].at = "tracking", ![e].target = target,
                             ![e].todo = trained, ![e].best = best]
    /\ UNCHANGED <<dataset, database, tracked, artifact, lock>>

(* The dataset is no longer ready, its file is gone or no model trains.     *)
TrainFails(e) ==
    /\ job[e].at = "training"
    /\ Goto(e, "failing")
    /\ UNCHANGED <<dataset, database, tracked, artifact, lock>>

(* The next model goes to the tracking server ...                           *)
Track(e, m) ==
    /\ job[e].at = "tracking"
    /\ m \in job[e].todo
    /\ tracked' = tracked \cup {<<e, m>>}
    /\ job' = [job EXCEPT ![e].at = "inserting", ![e].todo = @ \ {m}, ![e].current = m]
    /\ UNCHANGED <<dataset, database, artifact, lock>>

(* ... which may fail before its run is finished or after; either way the   *)
(* model is noted and the task fails.                                       *)
TrackFails(e, m) ==
    /\ job[e].at = "tracking"
    /\ m \in job[e].todo
    /\ tracked' \in {tracked, tracked \cup {<<e, m>>}}
    /\ job' = [job EXCEPT ![e].at = "failing", ![e].notes = @ \cup {m}]
    /\ UNCHANGED <<dataset, database, artifact, lock>>

(* Its ModelRun row is inserted in a transaction of its own ...             *)
InsertRun(e) ==
    LET m == job[e].current IN
    /\ job[e].at = "inserting"
    /\ modelRuns' = modelRuns \cup {<<e, m>>}
    /\ job' = [job EXCEPT ![e].at = "tracking", ![e].saved = @ \cup {m}]
    /\ UNCHANGED <<dataset, row, tracked, artifact, lock>>

(* Mistake: a row that could not be inserted leaves no note.                *)
InsertSilently(e) ==
    /\ job[e].at = "inserting"
    /\ Goto(e, "tracking")
    /\ UNCHANGED <<dataset, database, tracked, artifact, lock>>

(* ... which may fail: the model is noted and the task goes on.             *)
InsertFails(e) ==
    /\ job[e].at = "inserting"
    /\ job' = [job EXCEPT ![e].at = "tracking", ![e].notes = @ \cup {job[e].current}]
    /\ UNCHANGED <<dataset, database, tracked, artifact, lock>>

-----------------------------------------------------------------------------
(* save_artifact: the file is named by the model and the digest of the      *)
(* fitted pipeline, which the plan determines; its manifest has the task    *)
(* read by Train, and the features left of the file without that target.    *)
PackageName(e, m) == <<m, row[e].plan>>

SavePackage(e) ==
    /\ artifact' = [artifact EXCEPT ![PackageName(e, job[e].best)] = job[e].target]
    /\ job' = [job EXCEPT ![e].at = "finishing", ![e].recommended = job[e].best]
    /\ UNCHANGED <<dataset, database, tracked, lock>>

(* Mistake: the recommended model is packaged whether or not it has a row.  *)
PackageUnsaved(e) ==
    /\ job[e].at = "tracking" /\ job[e].todo = {}
    /\ job[e].best # NoModel
    /\ SavePackage(e)

(* With every model handled, the recommended one is packaged if there is    *)
(* one and its row was inserted.                                            *)
Package(e) ==
    /\ job[e].at = "tracking" /\ job[e].todo = {}
    /\ job[e].best \in job[e].saved
    /\ SavePackage(e)

(* Otherwise, and when the explanation or the file fails, the task fails.   *)
PackageFails(e) ==
    /\ job[e].at = "tracking" /\ job[e].todo = {}
    /\ Goto(e, "failing")
    /\ UNCHANGED <<dataset, database, tracked, artifact, lock>>

(* The row as the task's detached object has it, merged over the stored one.*)
Merged(e, status) ==
    [row EXCEPT ![e] = [@ EXCEPT !.status = status, !.notes = job[e].notes,
                                 !.recommended = job[e].recommended]]

(* Mistake: the audit event is written after the commit, and may fail.      *)
FinishUnaudited(e) ==
    /\ job[e].at = "finishing"
    /\ row' = Merged(e, "succeeded")
    /\ \/ Release(e)
       \/ Goto(e, "failing") /\ UNCHANGED lock
    /\ UNCHANGED <<dataset, modelRuns, tracked, artifact>>

(* One transaction marks the row succeeded, with the recommendation.        *)
Finish(e) ==
    /\ job[e].at = "finishing"
    /\ row' = Merged(e, "succeeded")
    /\ Release(e)
    /\ UNCHANGED <<dataset, modelRuns, tracked, artifact>>

FinishFails(e) ==
    /\ job[e].at = "finishing"
    /\ Goto(e, "failing")
    /\ UNCHANGED <<dataset, database, tracked, artifact, lock>>

(* Mistake: the lock is not given back when a run fails.                    *)
MarkFailedLocked(e) ==
    /\ job[e].at = "failing"
    /\ row' = Merged(e, "failed")
    /\ job' = [job EXCEPT ![e] = Idle]
    /\ UNCHANGED <<dataset, modelRuns, tracked, artifact, lock>>

(* _mark_failed: the same object, as far as it got ...                      *)
MarkFailed(e) ==
    /\ job[e].at = "failing"
    /\ row' = Merged(e, "failed")
    /\ Release(e)
    /\ UNCHANGED <<dataset, modelRuns, tracked, artifact>>

(* ... best effort: an error here is swallowed and the row stays running.   *)
MarkFailedFails(e) ==
    /\ job[e].at = "failing"
    /\ Release(e)
    /\ UNCHANGED <<dataset, database, tracked, artifact>>

(* The API process dies and is started again: requests, tasks and lock are  *)
(* gone, and nothing looks for the rows they leave.                         *)
Restart ==
    /\ job' = [e \in Experiments |-> Idle]
    /\ lock' = Nobody
    /\ UNCHANGED <<dataset, database, tracked, artifact>>

-----------------------------------------------------------------------------
ExperimentInit ==
    /\ target = NoTarget
    /\ row = [e \in Experiments |-> NoRow]
    /\ modelRuns = {}
    /\ tracked = {}
    /\ artifact = [name \in Models \X Targets |-> NoPackage]
    /\ job = [e \in Experiments |-> Idle]
    /\ lock = Nobody
    /\ retasked = {}

(* The steps a background task takes once it is scheduled.                  *)
TaskStep(e) ==
    \/ BeginRun(e) \/ BeginFails(e)
    \/ Train(e) \/ TrainFails(e)
    \/ \E m \in Models : Track(e, m) \/ TrackFails(e, m)
    \/ InsertRun(e) \/ InsertFails(e)
    \/ Package(e) \/ PackageFails(e)
    \/ Finish(e) \/ FinishFails(e)
    \/ MarkFailed(e) \/ MarkFailedFails(e)

ExperimentNext ==
    \/ \E t \in Targets \cup {NoTarget} : SetTarget(t)
    \/ \E e \in Experiments : \/ CreateRead(e) \/ CreateCommit(e) \/ CreateFails(e)
                              \/ TaskStep(e)
    \/ Restart

ExperimentSpec == ExperimentInit /\ [][ExperimentNext]_experimentVars

(* The thread pool runs every task: one that can take a step takes one.     *)
FairExperimentSpec ==
    ExperimentSpec /\ \A e \in Experiments : WF_experimentVars(TaskStep(e))

-----------------------------------------------------------------------------
Row == [status: {"queued", "running", "succeeded", "failed"}, plan: Targets,
        recommended: Models \cup {NoModel}, notes: SUBSET Models]

(* Every variable has its type: no row without a plan that can be trained.  *)
ExperimentTypeOK ==
    /\ target \in Targets \cup {NoTarget}
    /\ row \in [Experiments -> {NoRow} \cup Row]
    /\ modelRuns \subseteq Experiments \X Models
    /\ tracked \subseteq Experiments \X Models
    /\ artifact \in [Models \X Targets -> Targets \cup {NoPackage}]
    /\ \A e \in Experiments :
          job[e].at \in {"idle", "creating", "scheduled", "training", "tracking", "inserting",
                         "finishing", "failing"}
    /\ lock \in Experiments \cup {Nobody}
    /\ retasked \subseteq Experiments

Training(e) == job[e].at \in {"training", "tracking", "inserting", "finishing", "failing"}

(* ARCHITECTURE.md: "at most one experiment trains at a time".  The one     *)
(* that does has a running row, and is the one the lock is held for.        *)
OneTrains == \A e \in Experiments :
    Training(e) => lock = e /\ row[e].status = "running"

(* _require_recommended_run: the recommended model has its ModelRun row and *)
(* its run in the tracking server.                                          *)
RecommendedRunStands(e) == <<e, row[e].recommended>> \in modelRuns \cap tracked

(* _load_package: the package of the recommended model is there, and has    *)
(* the task the experiment was created with.                                *)
PackageLoads(e) ==
    LET held == artifact[PackageName(e, row[e].recommended)] IN
    held # NoPackage /\ TaskOf[held] = TaskOf[row[e].plan]

(* Whatever failed on the way, a succeeded experiment can be registered:    *)
(* its run stands and its package is in the artifact directory, and loads   *)
(* unless the dataset was given another task while this experiment, or one  *)
(* that shares its package, was on its way.                                 *)
SucceededIsRegistrable == \A e \in Experiments :
    row[e].status = "succeeded" =>
        /\ RecommendedRunStands(e)
        /\ artifact[PackageName(e, row[e].recommended)] # NoPackage
        /\ \/ PackageLoads(e)
           \/ \E f \in retasked : row[f] # NoRow /\ row[f].plan = row[e].plan

(* _run_training keeps reconciliation notes: once an experiment is over,    *)
(* every run of it that the tracking server has finished is a ModelRun row  *)
(* or is noted, and no row is without its run.                              *)
RunsAreReconciled ==
    /\ modelRuns \subseteq tracked
    /\ \A e \in Experiments : Terminal(e) =>
          \A m \in Models : <<e, m>> \in tracked \ modelRuns => m \in row[e].notes

(* A result that was shown does not change: nothing that comes after it, of *)
(* the same task or of another, touches the row or adds model runs to it.   *)
ResultsStand ==
    [][\A e \in Experiments : Terminal(e) =>
          /\ row'[e] = row[e]
          /\ \A m \in Models : <<e, m>> \in modelRuns' \ modelRuns => FALSE]_experimentVars

Stranded(e) == job[e] = Idle /\ row[e].status \in {"queued", "running"}

(* Every queued experiment gets its turn and comes to its result, unless a  *)
(* failed write or a restart leaves its row behind.                         *)
EveryRunEnds == \A e \in Experiments :
    row[e].status = "queued" ~> (Terminal(e) \/ Stranded(e))

(* ExperimentService.create: "an immutable TrainingPlan snapshot".  The     *)
(* package of a succeeded experiment is one of the target it was planned    *)
(* for.                                                                     *)
PackageIsOfThePlan == \A e \in Experiments :
    row[e].status = "succeeded" =>
        artifact[PackageName(e, row[e].recommended)] = row[e].plan
=============================================================================
