# A TLA+ verification project for MaintAI Studio

MaintAI Studio is a predictive-maintenance workbench: a dataset is uploaded and profiled, models are trained on it, one
is registered, deployed and used for predictions, and two kinds of action (promoting a model to champion, drafting a
maintenance work order) need the approval of a human. This directory specifies the parts of it in which concurrency,
failure and order matter, checks them with TLC, and proves the most important results with TLAPS. Paths below are
relative to `src/src/maintai/`.

## 1. The system

A Streamlit user interface calls a FastAPI process over HTTP. The process runs every synchronous endpoint on a thread of
a pool, and keeps its state in four places that share no transaction:

| place | who writes it |
| --- | --- |
| PostgreSQL (SQLite in the tests), through SQLAlchemy sessions under READ COMMITTED | every service |
| MLflow: tracked runs, registered versions, the aliases `candidate` and `champion` | experiments, model registry, lifecycle |
| the artifact directory: dataset files and model packages | datasets, experiments |
| the memory of the process: FastAPI's background tasks, the training lock, the artifact cache | experiments, predictions |

### Inventory

| component | state | operations | what makes it correct |
| --- | --- | --- | --- |
| human approvals (`approvals/`, `db/approval_repository.py`) | `approval_requests` with a partial unique index over pending requests; `audit_events` | propose, approve / reject / modify, get, list | one open request per key; a decision is final; row and audit event agree |
| approval executions (`db/approval_execution_repository.py`) | `approval_executions`, unique `approval_id` | insert and look up a receipt, shared by lifecycle and CMMS | an approval executes at most once |
| model lifecycle (`application/lifecycle.py`) | `model_lifecycle_states`, MLflow alias `champion` | request a promotion, execute it, read the state | one champion per name, only by a human grant; alias and table agree |
| mock CMMS (`cmms/service.py`) | `mock_cmms_work_orders` | draft a work order from an approval, list | one order per approval, with its receipt, about the event that was granted |
| model registry (`application/models.py`, `mlops/registry.py`) | `registered_models`, MLflow versions and alias `candidate` | register, deploy for the demo, list, get | one version and one row per run; one deployed version per name |
| experiments (`application/experiments.py`, `api/experiments.py`, `ml/package.py`) | `experiments`, `model_runs`, tracked runs, package files, the queue and the lock | create, run, mark failed, compare | one training at a time; a success can be registered; nothing tracked is lost sight of |
| datasets (`application/datasets.py`) | `datasets`, dataset files | upload, profile, recommend the task | one row per file; a row has its file; a row tells one story, whatever requests edit it |
| predictions (`application/predictions.py`) | `prediction_events`, artifact cache | predict with a deployed model, preview without a record | the package used is one of the model's own; the cache keeps its limit |
| feedback (`feedback/`) | `technician_feedback` | append a verdict on a prediction | append-only, about an existing event |
| monitoring (`application/monitoring.py`, `monitoring/`) | `monitoring_runs` | run drift and anomaly checks, recommend a retraining | a run is recorded whatever fails in it; the recommendation follows from severities |
| data preparation (`data/`, `tasks/`) | none | schema and task inference, quality score, leakage verdict, splits | folds keep assets and times apart; what leaks is no feature |
| training, evaluation, recommendation, cost (`ml/`) | none | pure functions over data frames | the recommended model meets the recall asked for and is the best of those; the cheapest is the cheapest |
| copilot (`agent/`) | none of its own | route an intent to read-only tools, draft an answer | never executes an action |
| console (`ui/`) | one session: kept lists, what is selected, the detail of an experiment | pages with buttons, refresh | a session sees what it did itself; it registers the run of the experiment it shows |
| human gate, request ids, configuration, schema bootstrap, benchmarks | none | checks and plumbing | |

How they interact:

- `approvals` decides, and never executes. Its table is the hinge between the human and two executors: `lifecycle`
  inserts a request in the transaction of `request_promotion` and executes it in `execute_promotion`; `cmms` executes
  requests that `POST /approvals` created. Both executors write the shared receipt table.
- `experiments` reads the dataset twice (when it is created and when it runs), and leaves behind runs, rows and a package.
  `models.register` requires a succeeded experiment with a recommended, tracked run and a readable package.
- A registered model is deployed by a flag in its row; `predictions` checks the flag and records events; an event is the
  entity of a work-order request.
- `recommend_task` of a dataset changes what `experiments` (target) and `monitoring` (asset and timestamp) read from it later.
- The copilot calls the other services to read, and previews predictions; the console calls the API for everything.
- Every write commits together with its audit event.

What is hard to test here: the interleavings of API threads, each of which goes through several sessions; MLflow and file
system calls next to, and outside of, transactions; a queue that lives in the process; requests that are repeated by a
client that did not see the answer; threads in one cache; rows that are read, computed on for seconds and merged back; and,
in the algorithms, the small and degenerate inputs: constant columns, ties, single classes, folds of one row. PROJECT.json lists these hazards with their lines under `hazards`.

## 2. The modules

```
ApprovalGate                         what the system promises about approval
     ^ implemented by                (refinement mapping Gate!GateSpec)
Approvals <- ApprovalExecutions <-+- ModelLifecycle
                                  +- CmmsWorkOrders
ModelRegistry                        Experiments

MonitoringRules <- Monitoring    Datasets    Predictions    Console
   MCServices extends all of these
MonitoringRules  ModelComparison  Splits  DataPreparation  DataQuality  Copilot
   MCAlgorithms extends all of these

proofs:  ApprovalsProofs (with ApprovalExecutions) <-+- ModelLifecycleProofs
                                                     +- CmmsWorkOrdersProofs
         ModelRegistryProofs        ExperimentsProofs
         ServicesProofs (over MCServices: Predictions, Datasets, Monitoring, Console)
         DataQualityProofs <- AlgorithmsProofs (over MCAlgorithms)
```

**The request.** In every module about HTTP requests a worker is an API thread, and `call[w]` is what its request has
read so far. One action is one database session, one statement that reads or waits inside a session, one MLflow call, or
one commit; other workers run in between. A request that is refused changes nothing and gets no action, unless it was
under way. `RequestLost`, `LifecycleLost` and `DraftLost` are a session that fails or a process that dies: a
transaction then rolls back, and what MLflow did stays. A transaction either commits and is answered or has no effect. A
commit that reaches the database while its session sees an error is idealised away: a handler that then undoes what it did
elsewhere, as `upload` removes its file (`application/datasets.py:271-273`), is seen only where the commit failed.

**Approvals** (`approvals/service.py`, `db/approval_repository.py`). `approval` is the table, `audit` the events of each
request. `ProposeCheck` is `find_pending`, in a session of its own; `ProposeInsert` is the row and its event, refused by the
index in `ProposeConflict`. `DecideRead` is the first session of `decide`; `DecideCommit` the compare-and-swap of
`transition` with its event; `DecideConflict` its `rowcount == 0`; `DecideAnswer` the final `get`. `expected_version` comes
from the client and may be wrong. Payloads are told apart only by what they target. The free-text reason, the requester
and the timestamps are left out.

**ApprovalExecutions** (`db/approval_execution_repository.py`). The table of receipts, and what both executors share: when
an approval is granted, which of its payloads counts, and whether it has been executed.

**ModelLifecycle** (`application/lifecycle.py`). A key of the approval table is "promote model m", a payload one that names
m. `RequestRead` / `RequestCommit` / `RequestConflict` are `request_promotion`: it reads the lifecycle row without a lock, and
commits challenger row, request and event together. `ExecuteStart` is all the validation of `execute_promotion`,
`PromoteChampion` the MLflow alias, `LockName` the `SELECT ... FOR UPDATE` over the name with the lifecycle rows read
behind it, `ExecuteCommit` / `ExecuteConflict` the transaction. The validation reads several sessions in the code; it is
one step here because every row it reads (a granted approval, a registered model) no longer changes.

**CmmsWorkOrders** (`cmms/service.py`). `DraftRead` validates the request, the payload and the event and finds no order;
`DraftCommit` writes order, receipt and event; `DraftConflict` is the unique `approval_id`, answered with the order that is
there. Well-formedness of the text fields of a payload is left out.

**ModelRegistry** (`application/models.py`, `mlops/registry.py`). `RegisterRead`, `SearchVersion`, `CreateVersion`,
`SetCandidate`, `ScanName`, `LockRows`, `RegisterCommit` are `register` in its order; `DeployRead`, `ScanName`, `LockRows`,
`DeployCommit` are `deploy_demo`. Under READ COMMITTED a locking query chooses its rows when it starts and then waits:
hence two actions. `was` in a deployment is the copy of the row in SQLAlchemy's identity map: the locking query does
not refresh it, and only attributes that differ from it are written (`AfterDeploy`).

**Experiments** (`application/experiments.py`, `api/experiments.py`, `ml/package.py`). `row`, `modelRuns`, `tracked` and
`artifact` are the four stores; `job[e]` is the request and then the background task of an experiment; `lock` is
`SingleTrainingCoordinator`'s. `CreateRead` / `CreateCommit` freeze the plan and leave the task. `BeginRun` takes the lock and
marks the row running; `Train` reads target and task of the dataset again and trains; `Track` and `InsertRun` alternate over the models;
`Package` writes the file; `Finish` is the last transaction. Every one of these steps has its failing twin, with what the
code does about it. `SetTarget` is the dataset being pointed at another column; `Restart` ends the process. What training
computes is a nondeterministic outcome: some models, with one recommended or none. A plan is told apart by its target, of
which `TaskOf` gives the task that is stored beside it, and since a fitted pipeline is determined by its plan, so is the
digest in a package's file name. `RecommendedRunStands` and `PackageLoads` are the checks that registration makes of what
an experiment left behind (`_require_recommended_run` and `_load_package` of `application/models.py`): run, row, package,
and that the task of the package, read when the run started, is the one the experiment was created with. `retasked` is a
history variable: the experiments that were on their way when the dataset was given a target of another task.

**Datasets** (`application/datasets.py`, `db/dataset_repository.py`). `UploadCheck`, `UploadWrite` and `UploadInsert` are
`upload`: the hash looked up, the file written under a new id, row and event inserted. `UploadDuplicate` is the unique
`file_hash`, `UploadFails` any other failure, `RequestDies` a process that ends in between. `ProfileRead` / `RecommendRead`
read the row and compute; `MergeLoad` and `MergeCommit` are `session.merge`, which loads the row again and writes the
columns in which the copy differs from what was loaded (`Flushed`). What a column was computed for is all that is kept of
it: its target.

**Predictions** (`application/predictions.py`, `feedback/service.py`). The steps of `_load_deployed` are those between which
Python may switch threads: `CacheHit` / `CacheMiss`, `CachePut`, `Touch` (`move_to_end`), the loop's test (`Trimmed`,
`Overfull`) and `Evict` (`popitem`). An entry evicted in between ends the request (`TouchFails`). `PersistEvents` writes
events and audit event; `Preview` is `persist=False`. `Repackage` is an experiment with the same plan saving its package
under the same name, `DeployVersion` what `ModelRegistry` does to the flag, `FeedbackCreate` the feedback service.

**Monitoring** (`application/monitoring.py`) over **MonitoringRules** (`monitoring/`). `Check` reads the dataset's roles,
`Compute` is the `try` block with every error that the checks of allowlist, anomalies and drift raise, `ComputeRaises` any
other exception, `Persist` the transaction. `MonitoringRules` compares two windows of a column by the *set* of severities a
metric may have. Missing share, Kolmogorov-Smirnov distance, standardized shifts (squared: no roots) and total variation
are exact fractions, which floats may put on either side of a threshold they are equal to (`SeveritiesOf`). Where numpy's
rounding is not small against a column's deviation the column is `rough`, and its shifts may have any severity. Infinite
values are dropped like missing ones but not counted as missing. Of the population stability index, which takes logarithms,
`PsiSeverities` keeps what it can be.

**Console** (`ui/app.py`). A list at the backend is the number of its changes, a kept list that number when it was fetched;
`changes` counts them over all lists and is only there for the bound `MaxChanges`.
Each button that changes something is an action, with the list it drops afterwards, unless a click cuts the script
first (Streamlit reruns the script and stops the old run at its next use of the session).

**Splits** (`data/split.py`), **DataPreparation** (`data/schema.py`, `data/leakage.py`, `tasks/infer.py`, `ml/preprocess.py`),
**DataQuality** (`data/quality.py`), **ModelComparison** (`ml/recommend.py`, `ml/cost.py`, the catalog and the primary
metric) and **Copilot** (`agent/`) are operators without state. What a seeded generator draws is any draw: a split is a set
of possible results. A column is what the rules ask about it (dtype, hints of its name, counts, agreement with the
target); a request to the copilot is the set of keyword tables it touches; an answer or a completion is the set of numbers
in it, each with what `_NUMBER_RE` finds where it is written: itself if it is written apart, nothing in "Recall95%", 1 in
"1e5". The thresholds of quality that no small frame reaches are constants (`FlatlineMinLength`, `FlatlineMaxRows`,
`MinTrainableSamples`: 10, 20 and 100 in the code). Of the longest runs of equal readings `FlatlinePenalty` looks at the
one that `max` finds first, that of the asset the file begins with.

**ApprovalGate** is abstract: a request is closed, asked, granted or refused, executed; an execution gives the seat of the
subject to the subject. It has no sessions, no versions, no tables.

## 3. What TLC checks

| run | instance | states | shows |
| --- | --- | --- | --- |
| approvals | 2 workers, 3 ids, 2 keys, 1 payload, versions 1 and 2 | 413,664 | `OnePendingPerKey`, `AuditTellsTheRow`, `AnswerIsOwnDecision`, `DecisionsStand` |
| lifecycle | 2 workers, 2 versions of one name, 3 approvals, within `Bound` | 393,808 | `OneChampionPerName`, `OnlyGrantedPromotions`, `AliasWasGranted`, `ChallengerWasProposed`, `ReceiptsStand`, `ImplementsGate` |
| cmms | 2 workers, 2 events, 2 approvals | 729,288 | `OrderHasReceipt`, `OrderIsWhatWasGranted`, `ReceiptsStand`, `ImplementsGate` |
| registry | 1 worker, 3 runs, 3 rows, 2 names | 180,279 | `OneRowPerRun`, `OneVersionPerRun`, `CandidatesAgree`, `DeploymentStands` |
| experiments | 2 experiments, 2 models, 2 targets of 2 tasks | 1,451,882 | `OneTrains`, `SucceededIsRegistrable`, `RunsAreReconciled`, `ResultsStand`, `EveryRunEnds` |
| services | 2 workers; 2 datasets of 1 file; 2 models, cache limit 1; 2 monitoring runs over 2 columns; 2 experiments in the console, 4 changes, 2 fetches | 1,729,908 | `RowsHaveTheirFiles`, `RowTellsOneStory`, `EventsAreOfTheirModel`, `CacheKeepsItsLimit`, `RunTellsWhatHappened`, `OwnWritesShown` |
| algorithms | one input per state, see below | 472,717 | `DriftIsSeen`, `BestIsRecommended`, `SplitKeepsApart`, `PreparationIsSound`, `AnswersAreGrounded` |

Each of the first six also checks the type invariants of its modules. Each property stands in its module under a comment that says
what it means and which code it is about.

- *Approvals.* Two proposers that both pass `find_pending` leave one open request; two decisions that both read "pending"
  leave one; a made-up version cannot decide; the audit trail is exactly the story of the row.
- *Lifecycle.* Whatever two promotions do to each other, or one does that is repeated, a name has one champion, and
  everyone who is or was champion was granted by a human, in the form the human let through. `ImplementsGate` says it all
  at once: seen through `gate`, `subject` and `holder`, the table, the receipts and the champions are the abstract gate.
- *CMMS.* `create_draft` only ever looks for the work order, so its replay is right only because order, receipt and event
  always come together (`OrderHasReceipt`).
- *Registry.* Registrations that stop anywhere between MLflow and the database and are tried again do not duplicate
  versions or rows, and the two sides name the same candidate whenever nothing is under way that says otherwise.
- *Experiments.* With every store failing at any time, and restarts, the recommended run of an experiment that says
  "succeeded" is in the table and the tracker and its package is on disk and passes the checks of registration, with one
  exception that `SucceededIsRegistrable` names: an experiment of the plan was on its way when the dataset was given a
  target of another task. Every run the tracking server has is a row or a note.
- *Services.* Two uploads of one file leave one dataset with its file and remove no other's; a row that two requests edit is,
  unless one committed inside the merge of the other, about one target throughout. Whatever threads do to the cache, an
  event is of a package of its own model, which was deployed, and the cache is over its limit only while someone is
  trimming it. A failed monitoring pass has no part of a report, a succeeded one watched features of its model, and row and
  event say the same. The console shows a session its own changes, but for the two exceptions that `OwnWritesShown` names:
  a button whose script was cut, and the list of monitoring runs, which "Run monitoring" does not drop.
- *Algorithms.* A window beyond the baseline's values, or all missing where the baseline misses none, is a HIGH drift even when
  the baseline is constant and whatever rounding makes of the shifts; equal shares are none, unless a column is rough. The recommended model is eligible and nothing eligible is preferred to it; errors are counted right
  whichever label comes first. Folds cover the rows, do not overlap, and keep assets and times apart, with the validation
  fold drawn from the train fold. A feature of a model does not print as its target, is not correlated with it and has no
  role; a label-derived or identifier-like one passes only where a warning came first, an exception that
  `LeaksAreExcluded` spells out. The quality score does not depend on the order of the rows or the unit of a sensor, with
  two exceptions that `ScoreIsOfTheData` names: rows of one asset with the same timestamp, and assets whose longest runs
  are equal but of which one is long for its asset and the other is not (`RunsAgree`). The copilot tells all that its tool
  returned and, when provider and services write their numbers apart, no number beyond that.

**One run for four services.** Datasets, predictions, monitoring and the console share no variable. Their product would
only interleave what does not interact, so `scene` picks one of them in the initial state and the others keep their initial
values: the run is the sum of four state spaces. What they read of each other is an action of the reader's module
(`ChangeRoles`, `Repackage`, `DeployVersion`, `ExperimentMoves`, `ChangedElsewhere`).

**One state per input.** In `MCAlgorithms` the first step picks an input and nothing follows: windows of one to three values
(numbers, missing and infinite ones, one of the windows rough or none; or categories), three models with small metrics (missing and failed ones among them), frames of three to six rows over two or three assets,
times and classes, gaps included, every column of a hundred rows that is consistent with itself, four rows, and five rows
of two assets, in every order for the quality score, and every request that touches up to two keyword tables.

**Bounds.** The number of ids bounds the tables, so every run ends in a finite state space without a counter to cap; a
request that finds no free id is simply not served, and is never stuck: it can still be lost. Two workers are enough for
every race in this code, each of which is between the check of one request and the commit of another. Three approvals let
a key be asked about again after a decision while another key is open. Two versions of one name are what promotion
archives; names do not interact, so one is enough there, and the proofs are for any number. `Bound` in `MCModelLifecycle`
leaves the races inside the approval service to the run that is about them. The registry run has one worker because the
concurrent case violates its properties (below); two names matter there because a run may be asked for under either. Two
experiments are what the lock is about, and two with the same plan share a package file. Symmetry is used only where no
liveness is checked. In the services run a cache limit of one instead of 16 makes two models compete for it, two builds tell
a replaced package from a new one, and four changes are what it takes to create two experiments, finish one and register.
`FlatlineMinLength`, `FlatlineMaxRows` and `MinTrainableSamples` are 2, 1 and 3 instead of 10, 20 and 100, as frames have
four or five rows: a run counts when it is of two rows or more and of the whole of its group. Deadlock is
checked in the first five runs and in the five below; a service that is at its bounds, or an input that was picked, really
stops.

**Fairness.** `FairExperimentSpec` has weak fairness on `TaskStep(e)`, the steps of one background task: the thread pool runs
every task it was given, and a task that can go on does. It says nothing of which step: every store may fail every
time. The lock is handed on under the same weak fairness because each experiment runs once and the instance has finitely
many. There is no fairness of requests, of `SetTarget` or of `Restart`: nothing obliges a client to call, and the process
may die at any time. Hence `EveryRunEnds` allows for rows that a restart or a failed write leaves behind, as
`docs/ARCHITECTURE.md` does (the queue is not durable).

**Where the code disagrees with what it says of itself.** Five more runs check one statement each and are violated:

| run | statement | what happens |
| --- | --- | --- |
| archived_champion | `ArchivedIsFinal`: challenger, champion, archived, in that order (`db/models.py:391-393`) | `execute_promotion` never looks at the target's status: a second grant, executed after its model was archived, makes it champion again |
| champion_alias | `AliasFollowsChampion`: retrying repairs the alias (`application/lifecycle.py:260-265, 284-286`) | the alias moves outside the lock: two promotions order alias and transaction differently, both have their receipts, and no retry touches the alias again |
| deployment | `NameStaysDeployed`: exactly one version per name is ever deployed (`application/models.py:233-235`) | a redeployment that read `deployed = True` before it was demoted writes nothing to its own row and demotes the other one |
| register_twice | `OneRowPerRun`: registering again is idempotent (`application/models.py:168-169`) | two registrations both look before either commits; no unique constraint stops the second |
| retarget | `PackageIsOfThePlan`: the plan is an immutable snapshot (`application/experiments.py:259`) | target and task are read from the dataset again when the run starts, and the package is of that target |

The row of `deployment` shows one half of what goes wrong there. The other is two deployed versions: a version that is
registered and deployed after another deployment has chosen its rows is not among those it demotes (TLC reaches this in
the instance of that run too). So deployments that race keep neither bound of "exactly one".

One more surprise is no disagreement, as nothing is said of it: the same rows in another order of assets may score
differently. `data/quality.py:211-212` takes the first of equally long runs and only then asks whether it is long for its
group (`flatline_min_ratio`); an asset with a run of ten in twenty rows is reported if the file begins with it, and not if
it begins with one that has a run of ten in a thousand. Hence `RunsAgree`.

Three more disagreements are named by exceptions of properties that pass:

- `README.md:306` registers the recommended run of a training. `_run_training` reads the task of the dataset again
  (`application/experiments.py:431`, stored at `:613`) while `task_type` is frozen (`:361`), and `_load_package` compares the
  two (`application/models.py:157-160`): a dataset pointed at a target of another task while an experiment was queued gives
  a success that can never be registered. TLC finds it when the second disjunct is taken from `SucceededIsRegistrable`.
- `monitoring/drift.py:221` notes "Standardized shifts undefined for a constant baseline; PSI/KS apply.", and
  `tests/unit/monitoring/test_drift.py:63` is `test_constant_numeric_baseline_is_safe`. The guard `base_std <= 0`
  (`drift.py:139`) is about floats: `np.std` of three times 0.1 is 2^-56, and against that baseline the window
  `[0.1, 0.1]` has a mean shift of -1.0, which is HIGH. Hence `IsRough` in `SeesDrift`.
- `README.md:298` has a narrative rejected "if it introduces any number not present in the tool evidence", and so has the
  docstring at `agent/graph.py:227`. `_NUMBER_RE` (`graph.py:223`) finds no number after a letter or an underscore and the
  1 of "1e5": such prose passes, and the answer tells a number that no tool returned. Hence `WrittenApart` in `IsGrounded`.

Three more divergences need no run: the docstring of `MockCMMSWorkOrder` (`db/models.py:484-489`) has orders go from draft to
approved, and `cmms/service.py:277` creates them approved; the header of `application/predictions.py` allows 1000 records
where `_MAX_RECORDS` is 100; `ExperimentService.run` says "Any failure is captured, never raised"
(`application/experiments.py:392-395`), while a database error in its first transaction leaves the method and the row
queued (`BeginFails`).

## 4. What is proved

TLAPS proves the following for every value of the constants, from the assumptions the modules name: that the "none"
values are not among the real ones; that versions of clients are integers and bounds naturals, with at least one entry
in the cache; that every model has a name; that models and events are keys and payloads of approvals; that the numeric
and the varying columns are among those that are frozen; and that what is missing, undefined, blank or unknown is no
number and no column no name. Every safety and action property of the passing runs, and both refinements, are
theorems. Each proof of a component has the same shape: an invariant that is inductive, one step of the proof per
action, and the properties as consequences. What follows says what each of these invariants adds to the properties,
and why it has to.

**Approvals** (`ApprovalsProofs`). `InvHolds`: `ApprovalInv` is inductive. The properties alone are not. A second
transition is impossible because a pending row is at version 1 and a decided one is not pending (`TableOK`); the audit
trail is right because it is, at every moment, a function of the status; and the answer of `decide` is its caller's
own because the row it was committed to can no longer change. From it follow `TypesHold` (no version beyond 2),
`OnePendingHolds`, `AuditHolds`, `AnswersHold` and, with the step itself, `DecisionsStandHolds`. Two lemmas serve the
executors: `StepKeepsTable` and `StepKeepsTrail` say what any step of the approval service does to the shared table,
so that its steps are not proved again for the modules that extend it.

**The lifecycle** (`ModelLifecycleProofs`). In three layers.

1. `SeatInv` is about seats. Promotion archives the champions it *read*, so uniqueness needs them to be all the
   champions there *are* when it commits (`ArchiveIsCurrent`), which holds because only a request that holds the lock
   of the name can make or unmake its champions and no two do (`LocksExclude`). `UnlockedStep`, `LockStep` and
   `CommitStep` are the three ways a step can go about this.
2. `GrantInv` (`GrantInvHolds`) is about grants. What is being executed was granted (`CallsGranted`); a grant stays
   one, because decided rows stand (`GrantStands`, from the approval module); so what an execution writes, and the
   alias it moves before that, goes back to a grant.
3. `ProposedInv` adds that a lifecycle row has a request.

From these follow `LifecycleTypesHold`, `OneChampionHolds`, `OnlyGrantedHolds`, `AliasGrantedHolds`, `ReceiptsHold`
and `ChallengerProposedHolds`. `LifecycleImplementsGate` is the refinement: a request is in the gate what its row and
its receipt say, its subject is what the human let through, and the holder of a name is its champion (`HolderBar`).
Proposals, decisions and commits are steps of the gate, everything between them is a stutter. A commit is one
*because* of `SeatInv`: that the seat passes to one holder, with nobody left in it, is that the archiving was
complete.

**Work orders** (`CmmsWorkOrdersProofs`). `CmmsInv` says of every approval that its order, its receipt and its trail
are there together or not at all and are about the event the approval granted (`OrderAgrees`), and of every request
that what it validated is still so (`DraftsMayOrder`): a grant is final and predictions are never removed, so
validation outside the transaction does no harm. Hence `OrderHasReceiptHolds`, `OrderGrantedHolds`,
`DraftReceiptsHold`, `CmmsTypesHold`, and the refinement `CmmsImplementsGate`.

**Experiments** (`ExperimentsProofs`). `ExperimentInv` keeps the books of the one task that runs (`BooksKept`): what
it saved has a row, what it tracked without a row is noted or is the model at hand, and what it recommends is
packaged. That the books stay right needs to know where the row is for each phase of its job (`RowFollowsJob`), and
that an experiment runs at most once, so that no other task writes under its key. When a task is over its books are
its result (`ResultSound`). `TaskInv` is proved beside it (`TaskInvHolds`): an experiment that is not in `retasked` trains under the
task it was planned for (`KeepsItsTask`), because any change of the dataset's task while it is on its way puts it there; so
a package, which any experiment of its plan may have written last, is of the task of its plan unless one of these is
in `retasked`. From both come `RegistrableHolds`, `ReconciledHolds`, `OneTrainsHolds`, `ExperimentTypesHold`, and
`ResultsStandHold` for the step. All of it holds whichever store fails whenever, and across restarts; no fairness is
used.

**The registry** (`ModelRegistryProofs`). For any number of workers `RegistryInv` holds: types, and that a request has
a version that MLflow made for its run, because versions are only ever added (`RegistryInvHolds`,
`RegistryTypesHold`). The properties proper do not hold for two workers; two of the runs above refute them. They are
proved under the hypothesis `OneAtATime`, that at most one request is served at a time, as in the run: any number of
rows, runs and names, and any request may be cut off at any step and be tried again or never. `SoloInv` says that what
the request has read is still so (`StillTrue`), that a run has one version and one row, and that MLflow's candidate is
the database's unless it has no row (`NameAgrees`). A registration holds a run that no row has, so pointing the alias
at its version parts MLflow from the database without contradicting a row, and the commit joins them again. Hence
`OneRowHolds`, `OneVersionHolds`, `CandidatesHold` and, for the step, `DeploymentHolds`.

**Predictions** (`ServicesProofs`). The threads share an `OrderedDict` without a lock. `PredictionInv` has two
parts. The first is that a package is only ever put under the key of its own model and a thread only has a model that
was deployed: `EventsHold`. The second, `CacheInv`, is what bounds the cache. "No more entries than the limit and the
threads in `put`" is not inductive, as a thread may find its own entry evicted and leave. What is inductive counts the
*keys* that no thread answers for: a thread in `put` answers for the entry of its key, whoever wrote it, until its
loop ends; and there are never more than `CacheLimit` other keys. With no thread in `put` all keys are others:
`CacheLimitHolds`.

**Datasets, monitoring, console** (`ServicesProofs`). `DatasetInv`: a file that is stored without a row is held by
exactly one upload or was orphaned by a failure, and a merge that nobody crossed writes the whole of a copy that tells
one story (`EditHolds`): `FilesHold` and `StoriesHold`. `MonitoringInv`: what a request is about to persist is a
conclusion `Compute` may draw from its source (`Concludes`), and the audit trail is the image of the rows:
`RunsTellWhatHappened`. `ConsoleInv`: a kept list is one the backend has had and, but for the two exceptions, no older
than what the session did itself; a detail that says "succeeded" is of a training that did, because that is its last
status: `OwnWritesAreShown`. `ServicesTypesHold` is about the composition: each scene is a behaviour of its own module
while the others keep their initial states (`EveryScene`).

**Algorithms** (`AlgorithmsProofs`, `DataQualityProofs`). A state of the run is an input, so what is proved are theorems
about the operators, for inputs of any size; `InputsAreOfTheirKind` then says that the inputs of the run are such
inputs.

- `SplitsKeepApart`: for any finite set of rows and any sizes up to a quarter (`QuarterAtMost`; `SplitConfig` has 0.20
  and 0.20), each of the four strategies gives folds that cover the rows, do not overlap and keep apart what the
  strategy is to keep apart, with train and test never empty: rounding up takes at most half of two or more units
  (`RoundedUp`). A time split is apart because the latest rows are an upper section of the order; a stratified one
  takes its share of each class and leaves some of it. The proof is by least elements, not by induction on the rows.
  `SplitsHold` is the property of the run.
- `LeaksStayOut` and `ProposalsCanBeTrained`, for any frame: a leak is excluded by the first rule that applies to it,
  whatever comes after, and a proposed target meets the checks of training. They are two of the three conjuncts of
  `PreparationIsSound`.
- `RecommendedIsBest` and `CheapestCostsLeast`, for any finite set of evaluations of different models of the catalog.
  That a sorted sequence exists at all is `CanBeSorted`: the place of a member is the number of those before it, and
  no two have as many, so the places are a bijection. Tuples of numbers are totally ordered by `LexLess`
  (`LexOrders`), and keys differ because names do. Then what comes first by its key is dominated by nothing
  (`FirstIsNotDominated`), and errors are read from the right cells of the matrix in either order of the labels
  (`ErrorsAreCounted`). `BestHolds` is the property of the run.
- `DriftIsSeenInAll`: the two conjuncts of `SeesDrift` for any two finite windows of numbers, missing and infinite values,
  compared as numbers or as categories, rough or not. One metric that can only be HIGH makes the drift HIGH, whatever the others may
  be (`WorstCounts`). If the values have left the baseline, one value parts the two empirical distributions completely and is the largest gap
  (a constant baseline has nothing else to show it), all rows are outside the bins, or all categories are new; if none
  is left, all rows are missing. Equal shares of values make sums equal up to the number of rows
  (`SameSharesSameMeans`), and so means, variances and distances agree and no severity is above LOW. `DriftHolds` is the
  property of the run.
- `ScoreIsStable` (`DataQualityProofs`): the quality score of any frame (`Table`) is the same for its rows in any other
  order (`Moves`) and for a recalibrated sensor, each check by itself. A median is said by counts of what is smaller
  (`KthSmallest`), so it moves with a bijection of the rows (`MedianIsMoved`) and scales with a unit (`MedianIsScaled`).
  If no two rows of a group have the same timestamp, the place of a row in its group is the number of those before it,
  wherever the file has it (`InOrderMoved`): groups, readings and the pairs of neighbours are those of the other file
  with the rows renamed (`GroupsMoved`, `NeighboursMoved`), runs are as long, and gaps sum up to the same. With
  `LeaksStayOut`, `ProposalsCanBeTrained` and `TargetsAgree` it gives `PreparationHolds`, the property of the run.
- What these need about sums is proved in `DataQualityProofs`. `SumFunction` is a fold, over which no induction theorem
  of the library can be used; but the sets for which a sum is what one expects are a set of subsets, and one that holds
  the empty set and grows by any element holds all (`SubsetInduction`, by the subset of least size that is missing).
  That the fold is the sum so defined is `SumsAreTheFold`; sums by value, of zeros, scaled and moved follow.
- `CopilotIsGrounded`: whatever the services return and the provider writes, an answer tells all that its tool gave, the
  numbers of an answer are ones a tool gave if all are written apart (the pattern then finds each as it is: `FoundApart`),
  and an action is proposed to those only who touch one; `GroundedHolds` is the property of the run.

**Only model-checked:** liveness (`EveryRunEnds`), which is out of the prover's reach together with `ENABLED`, and the five
statements of runs that the code contradicts, for which there is nothing to prove. That the types of monitoring, console and datasets
hold is proved too (as parts of `ServicesTypesHold`). The registry's properties are proved, as they are checked, for one
request at a time.

## 5. What is not modelled

- *Statistics on floats and training.* Fitting, predicting and explaining models, the isolation forest, logarithms and quantiles
  are out of TLC's reach. Where their outcome matters it is nondeterministic: which models come out (`Experiments`), which
  severities an index may have (`PsiSeverities`), what a window shows (`Compute`). Of floats the model keeps missing and
  infinite values, thresholds that rounding may cross, and shifts of a rough column. It does not tell inf from -inf; a
  window that has lost all its values to infinities, and none to NaN, is LOW in code and model, as `drift.py:176` counts
  only NaN; and baselines so large that their differences overflow, on which numpy's quantiles may fail, are left out.
- *Parsing and descriptive statistics* (`data/ingest.py`, `data/profile.py`), *confidence labels and explanations*
  (`ml/confidence.py`, `ml/explain.py`): functions of bytes and floats, whose results nothing else decides by.
- *The stored leakage report.* `create` takes the columns to exclude from the report that `profile` stored
  (`application/experiments.py:281-289`); `Excluded` in `DataPreparation` computes the report for the target at hand. The two
  differ only after a merge that another request crossed, the exception of `RowTellsOneStory`.
- *Words*: prompts, reasons, notes, rendering (`ui/render.py`) and the HTTP client (`ui/api_client.py`). Of the keyword tables
  only which one is touched is kept, and of a text only the numbers in it.
- *Authentication, request ids, configuration, schema bootstrap, benchmarks*: checks before a request starts, plumbing and
  offline scripts; none of them holds state that the services share.
- *Listing and reading endpoints* have no action: they change nothing.
- *SQLite*: the tests' database serialises writers; the modules are about PostgreSQL, which the service runs on.

## 6. The plan

Done, in this order: ApprovalGate, Approvals, ApprovalExecutions, ModelLifecycle, CmmsWorkOrders, ModelRegistry, Experiments,
and the proofs of the first two services; then Datasets, Predictions, Monitoring with MonitoringRules, Console, Splits,
ModelComparison, DataPreparation, DataQuality and Copilot; then the proofs of the safety properties of every service, of the refinement of
ApprovalGate by both executors, and of the algorithms.

Last came the proofs about sums and medians that drift and the quality score need.

What is left: a property for `ModelRegistry` when requests race. Of its four none survives two workers; what does is
`RegistryInv`: a row always names a version that MLflow made for the run of the row, and the alias one that exists.
