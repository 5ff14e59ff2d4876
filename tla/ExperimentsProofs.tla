-------------------------- MODULE ExperimentsProofs --------------------------
(* Training experiments are right for any number of experiments, models and *)
(* targets, wherever a write fails and whenever the process dies.           *)
EXTENDS Experiments, TLAPS

TaskPhases == {"training", "tracking", "inserting", "finishing", "failing"}

Task == [at: TaskPhases, target: Targets \cup {NoTarget}, todo: SUBSET Models,
         best: Models \cup {NoModel}, current: Models \cup {NoModel}, saved: SUBSET Models,
         notes: SUBSET Models, recommended: Models \cup {NoModel}]

Job == {Idle} \cup [at: {"creating"}, plan: Targets] \cup [at: {"scheduled"}] \cup Task

StateTyped ==
    /\ target \in Targets \cup {NoTarget}
    /\ row \in [Experiments -> {NoRow} \cup Row]
    /\ modelRuns \subseteq Experiments \X Models
    /\ tracked \subseteq Experiments \X Models
    /\ artifact \in [Models \X Targets -> Targets \cup {NoPackage}]
    /\ job \in [Experiments -> Job]
    /\ lock \in Experiments \cup {Nobody}

(* The books of a task: what it saved has a row, what was tracked without a *)
(* row is noted or is the model at hand, and what it recommends is          *)
(* packaged.                                                                *)
BooksKept(e) ==
    /\ \A m \in job[e].saved : <<e, m>> \in modelRuns
    /\ \A m \in Models : <<e, m>> \in tracked \ modelRuns =>
           m \in job[e].notes \/ (job[e].at = "inserting" /\ m = job[e].current)
    /\ job[e].at = "inserting" => <<e, job[e].current>> \in tracked
    /\ job[e].at \in {"tracking", "inserting"} => job[e].target \in Targets
    /\ job[e].at = "finishing" =>
           /\ <<e, job[e].recommended>> \in modelRuns
           /\ artifact[PackageName(e, job[e].recommended)] # NoPackage

(* Where the row of an experiment is, given where its job is.  An           *)
(* experiment runs at most once, so nothing is tracked before it does.      *)
RowFollowsJob(e) ==
    /\ job[e].at = "creating" => row[e] = NoRow
    /\ job[e].at = "scheduled" => row[e].status = "queued"
    /\ Training(e) => lock = e /\ row[e].status = "running" /\ BooksKept(e)
    /\ row[e].status \in {"none", "queued"} => \A m \in Models : <<e, m>> \notin tracked

(* What an experiment that is over has to show.                             *)
ResultSound(e) ==
    /\ Terminal(e) => \A m \in Models : <<e, m>> \in tracked \ modelRuns => m \in row[e].notes
    /\ row[e].status = "succeeded" =>
           /\ <<e, row[e].recommended>> \in modelRuns
           /\ artifact[PackageName(e, row[e].recommended)] # NoPackage

(* Inductive: the result is sound because the books were kept, and they are *)
(* kept because only one task runs, once.                                   *)
ExperimentInv ==
    /\ StateTyped
    /\ modelRuns \subseteq tracked
    /\ \A e \in Experiments : RowFollowsJob(e) /\ ResultSound(e)

(* What a step promises of an experiment that is over.                      *)
ResultStands(e) ==
    Terminal(e) =>
        /\ row'[e] = row[e]
        /\ \A m \in Models : <<e, m>> \in modelRuns' \ modelRuns => FALSE

-----------------------------------------------------------------------------
(* The fields of a job, by where it is.                                     *)
LEMMA JobShape ==
    ASSUME ExperimentInv, NEW e \in Experiments
    PROVE  /\ job[e].at = "creating" => job[e].plan \in Targets
           /\ Training(e) => job[e] \in Task /\ lock = e /\ row[e].status = "running"
                             /\ BooksKept(e) /\ row[e] \in Row
           /\ job[e].at \in {"idle", "creating", "scheduled"} \cup TaskPhases
BY DEF ExperimentInv, StateTyped, Job, Idle, Task, TaskPhases, Training, RowFollowsJob, NoRow

(* An experiment that a step does not touch, and whose lock is not taken    *)
(* away, stays as it is: the places tasks share only grow.                  *)
LEMMA OthersStand ==
    ASSUME ExperimentInv, NEW x \in Experiments,
           row'[x] = row[x], job'[x] = job[x], lock' = lock \/ ~Training(x),
           \A m \in Models : <<x, m>> \in tracked' <=> <<x, m>> \in tracked,
           \A m \in Models : <<x, m>> \in modelRuns' <=> <<x, m>> \in modelRuns,
           \A name \in Models \X Targets :
               artifact[name] # NoPackage => artifact'[name] # NoPackage
    PROVE  /\ RowFollowsJob(x)' /\ ResultSound(x)'
           /\ ResultStands(x)
<1>1. RowFollowsJob(x) /\ ResultSound(x)
    BY DEF ExperimentInv
<1>2. /\ Training(x)' <=> Training(x)
      /\ Terminal(x)' <=> Terminal(x)
    BY DEF Training, Terminal
<1>3. ASSUME Training(x) PROVE BooksKept(x)'
  <2>1. job[x] \in Task /\ BooksKept(x) /\ row[x] \in Row
      BY <1>3, JobShape
  <2>2. \A m \in Models : PackageName(x, m)' = PackageName(x, m)
                          /\ PackageName(x, m) \in Models \X Targets
      BY <2>1 DEF PackageName, Row
  <2>3. job[x].at = "finishing" => job[x].recommended \in Models
      BY <2>1 DEF BooksKept, ExperimentInv, StateTyped
  <2>4. job[x].at = "inserting" => job[x].current \in Models
      BY <2>1 DEF BooksKept, ExperimentInv, StateTyped
  <2>5. job[x].saved \subseteq Models
      BY <2>1 DEF Task
  <2> QED BY <2>1, <2>2, <2>3, <2>4, <2>5 DEF BooksKept, PackageName
<1>4. RowFollowsJob(x)'
    BY <1>1, <1>2, <1>3 DEF RowFollowsJob
<1>5. row[x].status = "succeeded" =>
          row[x].recommended \in Models /\ PackageName(x, row[x].recommended) \in Models \X Targets
    BY <1>1 DEF ResultSound, ExperimentInv, StateTyped, Row, NoRow, PackageName
<1>6. ResultSound(x)'
    BY <1>1, <1>2, <1>5 DEF ResultSound, PackageName
<1> QED BY <1>4, <1>6 DEF ResultStands

(* A step of one experiment keeps the invariant when it keeps the types and *)
(* that experiment's own part, and takes the lock from nobody.              *)
LEMMA OneExperimentMoves ==
    ASSUME ExperimentInv, NEW e \in Experiments, StateTyped', modelRuns' \subseteq tracked',
           RowFollowsJob(e)', ResultSound(e)', ResultStands(e),
           \A x \in Experiments \ {e} : row'[x] = row[x] /\ job'[x] = job[x],
           lock' = lock \/ lock \in {Nobody, e},
           \A x \in Experiments \ {e}, m \in Models :
               /\ <<x, m>> \in tracked' <=> <<x, m>> \in tracked
               /\ <<x, m>> \in modelRuns' <=> <<x, m>> \in modelRuns,
           \A name \in Models \X Targets :
               artifact[name] # NoPackage => artifact'[name] # NoPackage
    PROVE  ExperimentInv' /\ \A x \in Experiments : ResultStands(x)
<1>1. ASSUME NEW x \in Experiments \ {e} PROVE lock' = lock \/ ~Training(x)
    BY NobodyIsNone, JobShape
<1>2. ASSUME NEW x \in Experiments \ {e}
      PROVE  RowFollowsJob(x)' /\ ResultSound(x)' /\ ResultStands(x)
    BY <1>1, OthersStand
<1> QED BY <1>2 DEF ExperimentInv

(* A step that only moves the job, or gives the lock back.                  *)
LEMMA JobMoves ==
    ASSUME ExperimentInv, NEW e \in Experiments, NEW j \in Job,
           job' = [job EXCEPT ![e] = j],
           UNCHANGED <<target, row, modelRuns, tracked, artifact>>,
           lock' = lock \/ (lock' = Nobody /\ lock \in {Nobody, e}),
           RowFollowsJob(e)'
    PROVE  ExperimentInv' /\ \A x \in Experiments : ResultStands(x)
<1>1. StateTyped' /\ modelRuns' \subseteq tracked'
    BY DEF ExperimentInv, StateTyped
<1>2. ResultSound(e)' /\ ResultStands(e)
    BY DEF ExperimentInv, ResultSound, ResultStands, Terminal, PackageName
<1>3. \A x \in Experiments \ {e} : job'[x] = job[x]
    BY DEF ExperimentInv, StateTyped
<1> QED BY <1>1, <1>2, <1>3, OneExperimentMoves

-----------------------------------------------------------------------------
(* Creating an experiment: its row appears once, from a plan that trains.   *)
LEMMA CreationKeeps ==
    ASSUME ExperimentInv, NEW e \in Experiments,
           CreateRead(e) \/ CreateCommit(e) \/ CreateFails(e)
    PROVE  ExperimentInv' /\ \A x \in Experiments : ResultStands(x)
<1>1. StateTyped /\ RowFollowsJob(e) /\ ResultSound(e)
    BY DEF ExperimentInv
<1>2. Idle \in Job /\ Idle.at = "idle" /\ NoRow.status = "none"
    BY DEF Job, Idle, NoRow
<1>3. CASE CreateRead(e)
  <2>1. PICK j \in Job : j.at = "creating" /\ job' = [job EXCEPT ![e] = j]
      BY <1>3 DEF CreateRead, Job
  <2>2. row'[e] = NoRow /\ job'[e].at = "creating" /\ tracked' = tracked /\ row[e] = NoRow
      BY <1>1, <1>3, <2>1 DEF CreateRead, dataset, database, StateTyped
  <2>3. RowFollowsJob(e)'
      BY <1>1, <1>2, <2>2 DEF RowFollowsJob, Training
  <2> QED BY <1>3, <2>1, <2>3, JobMoves DEF CreateRead, dataset, database
<1>4. CASE CreateFails(e)
  <2>1. job'[e] = Idle /\ row' = row /\ tracked' = tracked
      BY <1>1, <1>4 DEF CreateFails, dataset, database, StateTyped
  <2>2. RowFollowsJob(e)'
      BY <1>1, <1>2, <2>1 DEF RowFollowsJob, Training
  <2> QED BY <1>2, <1>4, <2>2, JobMoves DEF CreateFails, dataset, database
<1>5. CASE CreateCommit(e)
  <2> DEFINE r == [status |-> "queued", plan |-> job[e].plan, recommended |-> NoModel, notes |-> {}]
             j == [at |-> "scheduled"]
  <2>1. r \in Row /\ j \in Job
      BY <1>5, JobShape DEF CreateCommit, Row, Job
  <2>2. /\ row' = [row EXCEPT ![e] = r] /\ job' = [job EXCEPT ![e] = j]
        /\ UNCHANGED <<target, modelRuns, tracked, artifact, lock>> /\ row[e] = NoRow
      BY <1>1, <1>5 DEF CreateCommit, RowFollowsJob, dataset
  <2>3. r.status = "queued" /\ j.at = "scheduled"
      OBVIOUS
  <2> HIDE DEF r, j
  <2>4. StateTyped' /\ modelRuns' \subseteq tracked'
      BY <2>1, <2>2 DEF ExperimentInv, StateTyped
  <2>5. row'[e] = r /\ job'[e] = j
      BY <1>1, <2>2 DEF StateTyped
  <2>6. RowFollowsJob(e)' /\ ResultSound(e)' /\ ResultStands(e)
      BY <1>1, <1>2, <2>2, <2>3, <2>5
         DEF RowFollowsJob, ResultSound, ResultStands, Training, Terminal
  <2>7. \A x \in Experiments \ {e} : row'[x] = row[x] /\ job'[x] = job[x]
      BY <1>1, <2>2 DEF StateTyped
  <2> QED BY <2>2, <2>4, <2>6, <2>7, OneExperimentMoves
<1> QED BY <1>3, <1>4, <1>5

(* Beginning: the lock is free, the row was queued and nothing of the       *)
(* experiment is tracked, so the books are in order as they are opened.     *)
LEMMA BeginKeeps ==
    ASSUME ExperimentInv, NEW e \in Experiments, BeginRun(e) \/ BeginFails(e)
    PROVE  ExperimentInv' /\ \A x \in Experiments : ResultStands(x)
<1>1. StateTyped /\ RowFollowsJob(e) /\ ResultSound(e)
    BY DEF ExperimentInv
<1>2. Idle \in Job /\ Idle.at = "idle"
    BY DEF Job, Idle
<1>3. CASE BeginFails(e)
  <2>1. job'[e] = Idle /\ row' = row /\ tracked' = tracked
      BY <1>1, <1>3 DEF BeginFails, Release, dataset, database, StateTyped
  <2>2. RowFollowsJob(e)'
      BY <1>1, <1>2, <2>1 DEF RowFollowsJob, Training
  <2> QED BY <1>2, <1>3, <2>2, JobMoves DEF BeginFails, Release, dataset, database
<1>4. CASE BeginRun(e)
  <2>1. FreshJob \in Job /\ FreshJob.at = "training" /\ FreshJob.saved = {}
      BY DEF FreshJob, Job, Task, TaskPhases
  <2>2. PICK r \in Row : r.status = "running" /\ row' = [row EXCEPT ![e] = r]
    <3>1. row[e] \in Row
        BY <1>1, <1>4 DEF BeginRun, StateTyped, NoRow
    <3>2. [row[e] EXCEPT !.status = "running"] \in Row
          /\ [row[e] EXCEPT !.status = "running"].status = "running"
        BY <3>1 DEF Row
    <3> QED BY <1>4, <3>2 DEF BeginRun
  <2>3. /\ job' = [job EXCEPT ![e] = FreshJob] /\ lock' = e /\ lock = Nobody
        /\ row[e].status = "queued"
        /\ UNCHANGED <<target, modelRuns, tracked, artifact>>
      BY <1>4 DEF BeginRun, dataset
  <2>4. StateTyped' /\ modelRuns' \subseteq tracked'
      BY <2>1, <2>2, <2>3 DEF ExperimentInv, StateTyped
  <2>5. row'[e] = r /\ job'[e] = FreshJob
      BY <1>1, <2>2, <2>3 DEF StateTyped
  <2>6. \A m \in Models : <<e, m>> \notin tracked
      BY <1>1, <2>3 DEF RowFollowsJob
  <2>7. RowFollowsJob(e)' /\ ResultSound(e)' /\ ResultStands(e)
      BY <2>1, <2>2, <2>3, <2>5, <2>6
         DEF RowFollowsJob, BooksKept, ResultSound, ResultStands, Training, Terminal
  <2>8. \A x \in Experiments \ {e} : row'[x] = row[x] /\ job'[x] = job[x]
      BY <1>1, <2>2, <2>3 DEF StateTyped
  <2> QED BY <2>3, <2>4, <2>7, <2>8, OneExperimentMoves
<1> QED BY <1>3, <1>4

(* The steps of a running task that write nothing.                          *)
LEMMA TaskMovesKeep ==
    ASSUME ExperimentInv, NEW e \in Experiments,
           Train(e) \/ TrainFails(e) \/ InsertFails(e) \/ PackageFails(e) \/ FinishFails(e)
    PROVE  ExperimentInv' /\ \A x \in Experiments : ResultStands(x)
<1>1. StateTyped /\ RowFollowsJob(e) /\ Training(e)
    BY DEF ExperimentInv, Train, TrainFails, InsertFails, PackageFails, FinishFails, Training
<1>2. PICK i \in Task : i = job[e]
    BY <1>1, JobShape
<1>3. BooksKept(e) /\ row[e].status = "running" /\ lock = e
    BY <1>1, JobShape
<1>4. UNCHANGED <<target, row, modelRuns, tracked, artifact, lock>>
    BY DEF Train, TrainFails, InsertFails, PackageFails, FinishFails, dataset, database
<1>5. ASSUME NEW j \in Task, job' = [job EXCEPT ![e] = j],
             j.saved = i.saved, j.at \notin {"inserting", "finishing"},
             j.at = "tracking" => j.target \in Targets,
             i.notes \subseteq j.notes, i.at = "inserting" => i.current \in j.notes
      PROVE  ExperimentInv' /\ \A x \in Experiments : ResultStands(x)
  <2>1. job'[e] = j /\ j \in Job
      BY <1>1, <1>5 DEF StateTyped, Job
  <2>2. BooksKept(e)'
      BY <1>2, <1>3, <1>4, <1>5, <2>1 DEF BooksKept
  <2>3. Training(e)'
      BY <2>1 DEF Training, Task, TaskPhases
  <2>4. RowFollowsJob(e)'
      BY <1>3, <1>4, <2>1, <2>2, <2>3 DEF RowFollowsJob, Training
  <2> QED BY <1>4, <1>5, <2>1, <2>4, JobMoves
<1>6. CASE Train(e)
  <2>1. PICK trained \in SUBSET Models, best \in Models \cup {NoModel} :
            job' = [job EXCEPT ![e].at = "tracking", ![e].target = target,
                               ![e].todo = trained, ![e].best = best]
      BY <1>6 DEF Train
  <2> DEFINE j == [i EXCEPT !.at = "tracking", !.target = target, !.todo = trained, !.best = best]
  <2>2. job' = [job EXCEPT ![e] = j] /\ target \in Targets /\ i.at = "training"
      BY <1>1, <1>2, <1>6, <2>1 DEF Train, StateTyped
  <2>3. j \in Task /\ j.saved = i.saved /\ j.notes = i.notes /\ j.at = "tracking"
        /\ j.target \in Targets
      BY <1>2, <2>2 DEF Task, TaskPhases
  <2> HIDE DEF j
  <2> QED BY <2>2, <2>3, <1>5
<1>7. CASE InsertFails(e)
  <2> DEFINE j == [i EXCEPT !.at = "tracking", !.notes = @ \cup {i.current}]
  <2>1. job' = [job EXCEPT ![e] = j] /\ i.at = "inserting"
      BY <1>1, <1>2, <1>7 DEF InsertFails, StateTyped
  <2>2. i.current \in Models /\ i.target \in Targets
      BY <1>1, <1>2, <1>3, <2>1 DEF BooksKept, StateTyped
  <2>3. j \in Task /\ j.saved = i.saved /\ i.notes \subseteq j.notes /\ i.current \in j.notes
        /\ j.at = "tracking" /\ j.target \in Targets
      BY <1>2, <2>2 DEF Task, TaskPhases
  <2> HIDE DEF j
  <2> QED BY <2>1, <2>3, <1>5
<1>8. CASE TrainFails(e) \/ PackageFails(e) \/ FinishFails(e)
  <2> DEFINE j == [i EXCEPT !.at = "failing"]
  <2>1. job' = [job EXCEPT ![e] = j] /\ i.at # "inserting"
      BY <1>1, <1>2, <1>8 DEF TrainFails, PackageFails, FinishFails, Goto, StateTyped
  <2>2. j \in Task /\ j.saved = i.saved /\ j.notes = i.notes /\ j.at = "failing"
      BY <1>2 DEF Task, TaskPhases
  <2> HIDE DEF j
  <2> QED BY <2>1, <2>2, <1>5
<1> QED BY <1>6, <1>7, <1>8

(* The writes of a running task: a run, a row, a package.                   *)
LEMMA TaskWritesKeep ==
    ASSUME ExperimentInv, NEW e \in Experiments,
           \/ \E m \in Models : Track(e, m) \/ TrackFails(e, m)
           \/ InsertRun(e)
           \/ Package(e)
    PROVE  ExperimentInv' /\ \A x \in Experiments : ResultStands(x)
<1>1. StateTyped /\ RowFollowsJob(e) /\ Training(e)
    BY DEF ExperimentInv, Track, TrackFails, InsertRun, Package, Training
<1>2. PICK i \in Task : i = job[e]
    BY <1>1, JobShape
<1>3. BooksKept(e) /\ row[e].status = "running" /\ lock = e /\ row[e] \in Row
    BY <1>1, JobShape
<1>4. UNCHANGED <<target, row, lock>>
    BY DEF Track, TrackFails, InsertRun, Package, SavePackage, dataset, database
<1>5. ASSUME NEW j \in Task, job' = [job EXCEPT ![e] = j], BooksKept(e)',
             tracked' \subseteq Experiments \X Models, modelRuns' \subseteq tracked',
             artifact' \in [Models \X Targets -> Targets \cup {NoPackage}],
             \A x \in Experiments \ {e}, m \in Models :
                 /\ <<x, m>> \in tracked' <=> <<x, m>> \in tracked
                 /\ <<x, m>> \in modelRuns' <=> <<x, m>> \in modelRuns,
             \A name \in Models \X Targets :
                 artifact[name] # NoPackage => artifact'[name] # NoPackage
      PROVE  ExperimentInv' /\ \A x \in Experiments : ResultStands(x)
  <2>1. job'[e] = j /\ j \in Job /\ \A x \in Experiments \ {e} : job'[x] = job[x]
      BY <1>1, <1>5 DEF StateTyped, Job
  <2>2. StateTyped'
      BY <1>1, <1>4, <1>5, <2>1 DEF StateTyped
  <2>3. Training(e)' /\ row'[e].status = "running"
      BY <1>3, <1>4, <2>1 DEF Training, Task, TaskPhases
  <2>4. RowFollowsJob(e)' /\ ResultSound(e)' /\ ResultStands(e)
      BY <1>3, <1>4, <1>5, <2>3
         DEF RowFollowsJob, ResultSound, ResultStands, Training, Terminal
  <2> QED BY <1>4, <1>5, <2>1, <2>2, <2>4, OneExperimentMoves
<1>6. ASSUME NEW m \in Models, Track(e, m)
      PROVE  ExperimentInv' /\ \A x \in Experiments : ResultStands(x)
  <2> DEFINE j == [i EXCEPT !.at = "inserting", !.todo = @ \ {m}, !.current = m]
  <2>1. /\ job' = [job EXCEPT ![e] = j] /\ i.at = "tracking"
        /\ tracked' = tracked \cup {<<e, m>>} /\ UNCHANGED <<modelRuns, artifact>>
      BY <1>1, <1>2, <1>6 DEF Track, StateTyped, dataset, database
  <2>2. j \in Task /\ j.saved = i.saved /\ j.notes = i.notes /\ j.at = "inserting"
        /\ j.current = m /\ j.target = i.target
      BY <1>2 DEF Task, TaskPhases
  <2> HIDE DEF j
  <2>3. job'[e] = j
      BY <1>1, <2>1 DEF StateTyped
  <2>4. BooksKept(e)'
      BY <1>2, <1>3, <2>1, <2>2, <2>3 DEF BooksKept
  <2>5. tracked' \subseteq Experiments \X Models /\ modelRuns' \subseteq tracked'
      BY <1>1, <2>1 DEF StateTyped, ExperimentInv
  <2> QED BY <1>1, <1>5, <2>1, <2>2, <2>4, <2>5 DEF StateTyped
<1>7. ASSUME NEW m \in Models, TrackFails(e, m)
      PROVE  ExperimentInv' /\ \A x \in Experiments : ResultStands(x)
  <2> DEFINE j == [i EXCEPT !.at = "failing", !.notes = @ \cup {m}]
  <2>1. /\ job' = [job EXCEPT ![e] = j] /\ i.at = "tracking"
        /\ tracked' \in {tracked, tracked \cup {<<e, m>>}} /\ UNCHANGED <<modelRuns, artifact>>
      BY <1>1, <1>2, <1>7 DEF TrackFails, StateTyped, dataset, database
  <2>2. j \in Task /\ j.saved = i.saved /\ j.notes = i.notes \cup {m} /\ j.at = "failing"
      BY <1>2 DEF Task, TaskPhases
  <2> HIDE DEF j
  <2>3. job'[e] = j
      BY <1>1, <2>1 DEF StateTyped
  <2>4. BooksKept(e)'
      BY <1>2, <1>3, <2>1, <2>2, <2>3 DEF BooksKept
  <2>5. tracked' \subseteq Experiments \X Models /\ modelRuns' \subseteq tracked'
      BY <1>1, <2>1 DEF StateTyped, ExperimentInv
  <2> QED BY <1>1, <1>5, <2>1, <2>2, <2>4, <2>5 DEF StateTyped
<1>8. CASE InsertRun(e)
  <2> DEFINE j == [i EXCEPT !.at = "tracking", !.saved = @ \cup {i.current}]
  <2>1. /\ job' = [job EXCEPT ![e] = j] /\ i.at = "inserting"
        /\ modelRuns' = modelRuns \cup {<<e, i.current>>} /\ UNCHANGED <<tracked, artifact>>
      BY <1>1, <1>2, <1>8 DEF InsertRun, StateTyped
  <2>2. <<e, i.current>> \in tracked /\ i.current \in Models /\ i.target \in Targets
      BY <1>1, <1>2, <1>3, <2>1 DEF BooksKept, StateTyped
  <2>3. j \in Task /\ j.saved = i.saved \cup {i.current} /\ j.notes = i.notes
        /\ j.at = "tracking" /\ j.target = i.target
      BY <1>2, <2>2 DEF Task, TaskPhases
  <2> HIDE DEF j
  <2>4. job'[e] = j
      BY <1>1, <2>1 DEF StateTyped
  <2>5. BooksKept(e)'
      BY <1>2, <1>3, <2>1, <2>2, <2>3, <2>4 DEF BooksKept
  <2>6. tracked' \subseteq Experiments \X Models /\ modelRuns' \subseteq tracked'
      BY <1>1, <2>1, <2>2 DEF StateTyped, ExperimentInv
  <2> QED BY <1>1, <1>5, <2>1, <2>3, <2>5, <2>6 DEF StateTyped
<1>9. CASE Package(e)
  <2> DEFINE j == [i EXCEPT !.at = "finishing", !.recommended = i.best]
             name == PackageName(e, i.best)
  <2>1. /\ job' = [job EXCEPT ![e] = j] /\ i.at = "tracking" /\ i.best \in i.saved
        /\ artifact' = [artifact EXCEPT ![name] = i.target]
        /\ UNCHANGED <<modelRuns, tracked>>
      BY <1>1, <1>2, <1>9 DEF Package, SavePackage, StateTyped, dataset, database
  <2>2. <<e, i.best>> \in modelRuns /\ i.best \in Models /\ i.target \in Targets
      BY <1>2, <1>3, <2>1 DEF BooksKept, Task
  <2>3. name \in Models \X Targets /\ PackageName(e, i.best)' = name
      BY <1>3, <1>4, <2>2 DEF PackageName, Row
  <2>4. j \in Task /\ j.saved = i.saved /\ j.notes = i.notes /\ j.at = "finishing"
        /\ j.recommended = i.best
      BY <1>2, <2>2 DEF Task, TaskPhases
  <2>5. PICK n \in Models \X Targets : n = name
      BY <2>3
  <2> HIDE DEF j, name
  <2>6. job'[e] = j
      BY <1>1, <2>1 DEF StateTyped
  <2>7. /\ artifact' \in [Models \X Targets -> Targets \cup {NoPackage}]
        /\ artifact'[n] = i.target /\ artifact'[n] # NoPackage
        /\ \A q \in Models \X Targets : artifact[q] # NoPackage => artifact'[q] # NoPackage
      BY <1>1, <2>1, <2>2, <2>5, NoPackageIsNone DEF StateTyped
  <2>8. BooksKept(e)'
      BY <1>2, <1>3, <2>1, <2>2, <2>3, <2>4, <2>5, <2>6, <2>7 DEF BooksKept, PackageName
  <2> QED BY <1>1, <1>5, <2>1, <2>4, <2>7, <2>8 DEF StateTyped, ExperimentInv
<1> QED BY <1>6, <1>7, <1>8, <1>9

(* Ending: the books become the result.                                     *)
LEMMA EndKeeps ==
    ASSUME ExperimentInv, NEW e \in Experiments,
           Finish(e) \/ MarkFailed(e) \/ MarkFailedFails(e)
    PROVE  ExperimentInv' /\ \A x \in Experiments : ResultStands(x)
<1>1. StateTyped /\ RowFollowsJob(e) /\ ResultSound(e) /\ Training(e)
    BY DEF ExperimentInv, Finish, MarkFailed, MarkFailedFails, Training
<1>2. PICK i \in Task : i = job[e]
    BY <1>1, JobShape
<1>3. BooksKept(e) /\ row[e].status = "running" /\ lock = e /\ row[e] \in Row
    BY <1>1, JobShape
<1>4. Idle \in Job /\ Idle.at = "idle"
    BY DEF Job, Idle
<1>5. UNCHANGED <<target, modelRuns, tracked, artifact>> /\ lock' = Nobody
      /\ job' = [job EXCEPT ![e] = Idle]
    BY DEF Finish, MarkFailed, MarkFailedFails, Release, dataset, database
<1>6. CASE MarkFailedFails(e)
  <2>1. job'[e] = Idle /\ row' = row
      BY <1>1, <1>5, <1>6 DEF MarkFailedFails, dataset, database, StateTyped
  <2>2. RowFollowsJob(e)'
      BY <1>3, <1>4, <2>1 DEF RowFollowsJob, Training
  <2> QED BY <1>3, <1>4, <1>5, <1>6, <2>1, <2>2, JobMoves DEF dataset, database
<1>7. ASSUME NEW status \in {"succeeded", "failed"}, row' = Merged(e, status),
             i.at = IF status = "succeeded" THEN "finishing" ELSE "failing"
      PROVE  ExperimentInv' /\ \A x \in Experiments : ResultStands(x)
  <2> DEFINE r == [row[e] EXCEPT !.status = status, !.notes = i.notes,
                                 !.recommended = i.recommended]
  <2>1. row' = [row EXCEPT ![e] = r]
      BY <1>2, <1>7 DEF Merged
  <2>2. r \in Row /\ r.status = status /\ r.notes = i.notes /\ r.plan = row[e].plan
        /\ r.recommended = i.recommended
      BY <1>2, <1>3 DEF Row, Task
  <2>3. PICK q \in Row : q = r
      BY <2>2
  <2> HIDE DEF r
  <2>4. row'[e] = q /\ job'[e] = Idle
        /\ \A x \in Experiments \ {e} : row'[x] = row[x] /\ job'[x] = job[x]
      BY <1>1, <1>5, <2>1, <2>3 DEF StateTyped
  <2>5. StateTyped' /\ modelRuns' \subseteq tracked'
      BY <1>1, <1>4, <1>5, <2>1, <2>3 DEF StateTyped, ExperimentInv
  <2>6. RowFollowsJob(e)'
      BY <1>4, <2>2, <2>3, <2>4 DEF RowFollowsJob, Training
  <2>7. ResultSound(e)'
    <3>1. \A m \in Models : <<e, m>> \in tracked \ modelRuns => m \in i.notes
        BY <1>2, <1>3, <1>7 DEF BooksKept
    <3>2. status = "succeeded" =>
              /\ <<e, i.recommended>> \in modelRuns
              /\ artifact[PackageName(e, i.recommended)] # NoPackage
        BY <1>2, <1>3, <1>7 DEF BooksKept
    <3>3. PackageName(e, i.recommended)' = PackageName(e, i.recommended)
        BY <2>2, <2>3, <2>4 DEF PackageName
    <3> QED BY <1>5, <2>2, <2>3, <2>4, <3>1, <3>2, <3>3 DEF ResultSound, PackageName
  <2>8. ResultStands(e)
      BY <1>3 DEF ResultStands, Terminal
  <2> QED BY <1>3, <1>5, <2>4, <2>5, <2>6, <2>7, <2>8, OneExperimentMoves
<1>8. CASE Finish(e)
    BY <1>2, <1>7, <1>8 DEF Finish
<1>9. CASE MarkFailed(e)
    BY <1>2, <1>7, <1>9 DEF MarkFailed
<1> QED BY <1>6, <1>8, <1>9

-----------------------------------------------------------------------------
(* Initially nothing is planned, tracked or stored.                         *)
LEMMA ExperimentInitOK == ExperimentInit => ExperimentInv
<1> SUFFICES ASSUME ExperimentInit PROVE ExperimentInv
    OBVIOUS
<1>1. Idle \in Job /\ Idle.at = "idle" /\ NoRow.status = "none"
    BY DEF Job, Idle, NoRow
<1>2. StateTyped
    BY <1>1 DEF ExperimentInit, StateTyped
<1>3. \A e \in Experiments : RowFollowsJob(e) /\ ResultSound(e)
    BY <1>1 DEF ExperimentInit, RowFollowsJob, ResultSound, Training, Terminal
<1> QED BY <1>2, <1>3 DEF ExperimentInit, ExperimentInv

(* The inductive step: the invariant, and what a step does to a result.     *)
LEMMA ExperimentNextOK ==
    ASSUME ExperimentInv, [ExperimentNext]_experimentVars
    PROVE  ExperimentInv' /\ \A e \in Experiments : ResultStands(e)
<1>1. ASSUME target' \in Targets \cup {NoTarget},
             UNCHANGED <<row, modelRuns, tracked, artifact, job, lock>>
      PROVE  ExperimentInv' /\ \A e \in Experiments : ResultStands(e)
  <2>1. \A e \in Experiments : RowFollowsJob(e)' /\ ResultSound(e)' /\ ResultStands(e)
      BY <1>1, OthersStand
  <2> QED BY <1>1, <2>1 DEF ExperimentInv, StateTyped
<1>2. CASE UNCHANGED experimentVars
    BY <1>1, <1>2 DEF experimentVars, dataset, ExperimentInv, StateTyped
<1>3. ASSUME NEW t \in Targets \cup {NoTarget}, SetTarget(t)
      PROVE  ExperimentInv' /\ \A e \in Experiments : ResultStands(e)
    BY <1>1, <1>3 DEF SetTarget, dataset, database
<1>4. CASE Restart
  <2>1. Idle \in Job /\ Idle.at = "idle"
      BY DEF Job, Idle
  <2>2. /\ job' = [e \in Experiments |-> Idle] /\ lock' = Nobody
        /\ UNCHANGED <<target, row, modelRuns, tracked, artifact>>
      BY <1>4 DEF Restart, dataset, database
  <2>3. StateTyped' /\ modelRuns' \subseteq tracked'
      BY <2>1, <2>2 DEF ExperimentInv, StateTyped
  <2>4. ASSUME NEW e \in Experiments PROVE RowFollowsJob(e)' /\ ResultSound(e)' /\ ResultStands(e)
    <3>1. RowFollowsJob(e) /\ ResultSound(e)
        BY DEF ExperimentInv
    <3>2. RowFollowsJob(e)'
        BY <2>1, <2>2, <3>1 DEF RowFollowsJob, Training
    <3> QED BY <2>2, <3>1, <3>2 DEF ResultSound, ResultStands, Terminal, PackageName
  <2> QED BY <2>3, <2>4 DEF ExperimentInv
<1>5. ASSUME NEW e \in Experiments, TaskStep(e)
      PROVE  ExperimentInv' /\ \A x \in Experiments : ResultStands(x)
    BY <1>5, BeginKeeps, TaskMovesKeep, TaskWritesKeep, EndKeeps DEF TaskStep
<1>6. ASSUME NEW e \in Experiments, CreateRead(e) \/ CreateCommit(e) \/ CreateFails(e)
      PROVE  ExperimentInv' /\ \A x \in Experiments : ResultStands(x)
    BY <1>6, CreationKeeps
<1> QED BY <1>2, <1>3, <1>4, <1>5, <1>6 DEF ExperimentNext

(* The invariant holds in every reachable state.                            *)
THEOREM ExperimentInvHolds == ExperimentSpec => []ExperimentInv
BY ExperimentInitOK, ExperimentNextOK, PTL DEF ExperimentSpec

-----------------------------------------------------------------------------
(* The task of an experiment: unless the dataset was given another one on   *)
(* the way, its task trains under the one it was planned for.               *)
KeepsItsTask(e) ==
    \/ e \in retasked
    \/ /\ \A p \in Targets : Planned(e, p) => target = NoTarget \/ TaskOf[target] = TaskOf[p]
       /\ job[e].at \in {"tracking", "inserting"} => TaskOf[job[e].target] = TaskOf[row[e].plan]

Excused(p) == \E f \in retasked : row[f] # NoRow /\ row[f].plan = p

(* Inductive beside ExperimentInv: a package is of its plan's task because  *)
(* the run that wrote it last was, whichever of the plan's runs that is.    *)
TaskInv ==
    /\ retasked \subseteq Experiments
    /\ \A e \in Experiments : KeepsItsTask(e)
    /\ \A m \in Models, p \in Targets : artifact[<<m, p>>] # NoPackage =>
           TaskOf[artifact[<<m, p>>]] = TaskOf[p] \/ Excused(p)

RowsKeepPlans == \A f \in Experiments : row[f] # NoRow => row'[f] # NoRow /\ row'[f].plan = row[f].plan

(* A step that moves one experiment, whose rows keep their plans, and that  *)
(* leaves the dataset and the packages alone.                               *)
LEMMA OneTaskMoves ==
    ASSUME ExperimentInv, TaskInv, NEW e \in Experiments,
           UNCHANGED <<target, retasked, artifact>>, RowsKeepPlans, KeepsItsTask(e)',
           \A x \in Experiments \ {e} : row'[x] = row[x] /\ job'[x] = job[x]
    PROVE  TaskInv'
<1>1. ASSUME NEW x \in Experiments PROVE KeepsItsTask(x)'
    BY DEF TaskInv, KeepsItsTask, Planned
<1>2. \A p \in Targets : Excused(p) => Excused(p)'
    BY DEF TaskInv, Excused, RowsKeepPlans
<1> QED BY <1>1, <1>2 DEF TaskInv

(* Pointing the dataset elsewhere counts every experiment on its way whose  *)
(* task is another.                                                         *)
LEMMA SetTargetKeepsTasks ==
    ASSUME ExperimentInv, TaskInv, NEW t \in Targets \cup {NoTarget}, SetTarget(t)
    PROVE  TaskInv'
<1>1. target' = t /\ retasked \subseteq retasked' /\ retasked' \subseteq Experiments
      /\ UNCHANGED <<row, job, artifact>>
    BY DEF SetTarget, TaskInv, database
<1>2. ASSUME NEW x \in Experiments PROVE KeepsItsTask(x)'
  <2>1. \A p \in Targets : Planned(x, p)' <=> Planned(x, p)
      BY <1>1 DEF Planned
  <2>2. CASE \E p \in Targets : Planned(x, p) /\ t \in Targets /\ TaskOf[p] # TaskOf[t]
      BY <2>2 DEF SetTarget, KeepsItsTask
  <2>3. CASE \A p \in Targets : Planned(x, p) => t = NoTarget \/ TaskOf[t] = TaskOf[p]
      BY <1>1, <2>1, <2>3 DEF TaskInv, KeepsItsTask
  <2> QED BY <2>2, <2>3
<1>3. \A p \in Targets : Excused(p) => Excused(p)'
    BY <1>1 DEF Excused
<1> QED BY <1>1, <1>2, <1>3 DEF TaskInv

(* A request counts afresh, and its row gets the plan it read.              *)
LEMMA CreationKeepsTasks ==
    ASSUME ExperimentInv, TaskInv, NEW e \in Experiments,
           CreateRead(e) \/ CreateCommit(e) \/ CreateFails(e)
    PROVE  TaskInv'
<1>1. StateTyped /\ RowFollowsJob(e)
    BY DEF ExperimentInv
<1>2. CASE CreateRead(e)
  <2>1. /\ UNCHANGED <<target, row, artifact>> /\ retasked' = retasked \ {e} /\ row[e] = NoRow
        /\ job'[e] = [at |-> "creating", plan |-> target]
        /\ \A x \in Experiments \ {e} : job'[x] = job[x]
      BY <1>1, <1>2 DEF CreateRead, StateTyped, database
  <2>2. KeepsItsTask(e)'
      BY <2>1 DEF KeepsItsTask, Planned
  <2>3. ASSUME NEW x \in Experiments \ {e} PROVE KeepsItsTask(x)'
      BY <2>1 DEF TaskInv, KeepsItsTask, Planned
  <2>4. \A p \in Targets : Excused(p) => Excused(p)'
      BY <2>1 DEF Excused
  <2> QED BY <2>1, <2>2, <2>3, <2>4 DEF TaskInv
<1>3. CASE CreateFails(e)
  <2>1. /\ UNCHANGED <<target, retasked, row, artifact>> /\ job'[e] = Idle
        /\ \A x \in Experiments \ {e} : job'[x] = job[x]
      BY <1>1, <1>3 DEF CreateFails, StateTyped, database, dataset
  <2>2. KeepsItsTask(e)' /\ RowsKeepPlans
      BY <2>1 DEF KeepsItsTask, Planned, Idle, RowsKeepPlans
  <2> QED BY <2>1, <2>2, OneTaskMoves
<1>4. CASE CreateCommit(e)
  <2>1. /\ UNCHANGED <<target, retasked, artifact>> /\ job'[e].at = "scheduled"
        /\ row[e] = NoRow /\ row'[e].plan = job[e].plan /\ job[e].at = "creating"
        /\ \A x \in Experiments \ {e} : row'[x] = row[x] /\ job'[x] = job[x]
      BY <1>1, <1>4 DEF CreateCommit, RowFollowsJob, StateTyped, dataset
  <2>2. KeepsItsTask(e)'
      BY <2>1 DEF TaskInv, KeepsItsTask, Planned
  <2>3. RowsKeepPlans
      BY <2>1 DEF RowsKeepPlans
  <2> QED BY <2>1, <2>2, <2>3, OneTaskMoves
<1> QED BY <1>2, <1>3, <1>4

(* A task reads the dataset once, and packages what it read.                *)
LEMMA TaskStepKeepsTasks ==
    ASSUME ExperimentInv, TaskInv, NEW e \in Experiments, TaskStep(e)
    PROVE  TaskInv'
<1>1. StateTyped /\ RowFollowsJob(e) /\ KeepsItsTask(e)
    BY DEF ExperimentInv, TaskInv
<1>2. ASSUME UNCHANGED <<target, retasked, artifact, row>>,
             NEW j, job' = [job EXCEPT ![e] = j],
             j.at \notin {"creating", "scheduled", "training"},
             j.at \in {"tracking", "inserting"} =>
                 /\ j.target = job[e].target
                 /\ job[e].at \in {"tracking", "inserting"}
      PROVE  TaskInv'
  <2>1. job'[e] = j /\ \A x \in Experiments \ {e} : job'[x] = job[x]
      BY <1>1, <1>2 DEF StateTyped
  <2>2. KeepsItsTask(e)' /\ RowsKeepPlans
      BY <1>1, <1>2, <2>1 DEF KeepsItsTask, Planned, RowsKeepPlans
  <2> QED BY <1>2, <2>1, <2>2, OneTaskMoves
<1>3. CASE BeginRun(e)
  <2>1. /\ UNCHANGED <<target, retasked, artifact>> /\ job'[e].at = "training"
        /\ job[e].at = "scheduled" /\ row[e] \in Row
        /\ row'[e] = [row[e] EXCEPT !.status = "running"]
        /\ \A x \in Experiments \ {e} : row'[x] = row[x] /\ job'[x] = job[x]
      BY <1>1, <1>3 DEF BeginRun, StateTyped, dataset, FreshJob, NoRow
  <2>2. row'[e].plan = row[e].plan /\ row'[e] # NoRow
      BY <2>1 DEF Row, NoRow
  <2>3. KeepsItsTask(e)'
      BY <1>1, <2>1, <2>2 DEF KeepsItsTask, Planned
  <2>4. RowsKeepPlans
      BY <2>1, <2>2 DEF RowsKeepPlans
  <2> QED BY <2>1, <2>3, <2>4, OneTaskMoves
<1>4. CASE BeginFails(e) \/ MarkFailedFails(e)
    BY <1>2, <1>4 DEF BeginFails, MarkFailedFails, Release, Idle, dataset, database
<1>5. CASE Train(e)
  <2>1. /\ UNCHANGED <<target, retasked, artifact, row>> /\ target \in Targets
        /\ job[e].at = "training" /\ job'[e].at = "tracking" /\ job'[e].target = target
        /\ \A x \in Experiments \ {e} : job'[x] = job[x]
    <3>1. PICK i \in Task : i = job[e]
        BY <1>5, JobShape DEF Train, Training
    <3> QED BY <1>1, <1>5, <3>1 DEF Train, StateTyped, Task, dataset, database
  <2>2. row[e] \in Row
      BY <2>1, JobShape DEF Training
  <2>3. KeepsItsTask(e)' /\ RowsKeepPlans
      BY <1>1, <2>1, <2>2, NoTargetIsNone DEF KeepsItsTask, Planned, RowsKeepPlans, Row
  <2> QED BY <2>1, <2>3, OneTaskMoves
<1>6. CASE TrainFails(e) \/ PackageFails(e) \/ FinishFails(e)
  <2>1. PICK i \in Task : i = job[e]
      BY <1>6, JobShape DEF TrainFails, PackageFails, FinishFails, Training
  <2>2. job' = [job EXCEPT ![e] = [i EXCEPT !.at = "failing"]]
      BY <1>1, <1>6, <2>1 DEF TrainFails, PackageFails, FinishFails, Goto, StateTyped
  <2>3. [i EXCEPT !.at = "failing"].at = "failing"
      BY <2>1 DEF Task
  <2> QED BY <1>2, <1>6, <2>2, <2>3 DEF TrainFails, PackageFails, FinishFails, dataset, database
<1>7. CASE InsertFails(e)
  <2>1. PICK i \in Task : i = job[e]
      BY <1>7, JobShape DEF InsertFails, Training
  <2> DEFINE j == [i EXCEPT !.at = "tracking", !.notes = @ \cup {i.current}]
  <2>2. job' = [job EXCEPT ![e] = j] /\ i.at = "inserting"
      BY <1>1, <1>7, <2>1 DEF InsertFails, StateTyped
  <2>3. j.at = "tracking" /\ j.target = i.target
      BY <2>1 DEF Task
  <2> HIDE DEF j
  <2> QED BY <1>2, <1>7, <2>1, <2>2, <2>3 DEF InsertFails, dataset, database
<1>8. CASE InsertRun(e)
  <2>1. PICK i \in Task : i = job[e]
      BY <1>8, JobShape DEF InsertRun, Training
  <2> DEFINE j == [i EXCEPT !.at = "tracking", !.saved = @ \cup {i.current}]
  <2>2. job' = [job EXCEPT ![e] = j] /\ i.at = "inserting"
      BY <1>1, <1>8, <2>1 DEF InsertRun, StateTyped
  <2>3. j.at = "tracking" /\ j.target = i.target
      BY <2>1 DEF Task
  <2> HIDE DEF j
  <2> QED BY <1>2, <1>8, <2>1, <2>2, <2>3 DEF InsertRun, dataset
<1>9. ASSUME NEW m \in Models, Track(e, m) \/ TrackFails(e, m) PROVE TaskInv'
  <2>1. PICK i \in Task : i = job[e]
      BY <1>9, JobShape DEF Track, TrackFails, Training
  <2>2. CASE Track(e, m)
    <3> DEFINE j == [i EXCEPT !.at = "inserting", !.todo = @ \ {m}, !.current = m]
    <3>1. job' = [job EXCEPT ![e] = j] /\ i.at = "tracking"
        BY <1>1, <2>1, <2>2 DEF Track, StateTyped
    <3>2. j.at = "inserting" /\ j.target = i.target
        BY <2>1 DEF Task
    <3> HIDE DEF j
    <3> QED BY <1>2, <2>1, <2>2, <3>1, <3>2 DEF Track, dataset, database
  <2>3. CASE TrackFails(e, m)
    <3> DEFINE j == [i EXCEPT !.at = "failing", !.notes = @ \cup {m}]
    <3>1. job' = [job EXCEPT ![e] = j]
        BY <1>1, <2>1, <2>3 DEF TrackFails, StateTyped
    <3>2. j.at = "failing"
        BY <2>1 DEF Task
    <3> HIDE DEF j
    <3> QED BY <1>2, <2>3, <3>1, <3>2 DEF TrackFails, dataset, database
  <2> QED BY <1>9, <2>2, <2>3
<1>10. CASE Package(e)
  <2>1. PICK i \in Task : i = job[e]
      BY <1>10, JobShape DEF Package, Training
  <2>2. /\ UNCHANGED <<target, retasked, row>>
        /\ artifact' = [artifact EXCEPT ![PackageName(e, i.best)] = i.target]
        /\ i.at = "tracking" /\ job'[e].at = "finishing"
        /\ \A x \in Experiments \ {e} : job'[x] = job[x]
      BY <1>1, <1>10, <2>1 DEF Package, SavePackage, StateTyped, Task, dataset, database
  <2>3. row[e] \in Row
      BY <1>10, JobShape DEF Package, Training
  <2>4. TaskOf[i.target] = TaskOf[row[e].plan] \/ Excused(row[e].plan)
      BY <1>1, <2>1, <2>2, <2>3 DEF KeepsItsTask, Excused, Row, NoRow
  <2>5. \A p \in Targets : Excused(p)' <=> Excused(p)
      BY <2>2 DEF Excused
  <2>6. ASSUME NEW m \in Models, NEW p \in Targets, artifact'[<<m, p>>] # NoPackage
        PROVE  TaskOf[artifact'[<<m, p>>]] = TaskOf[p] \/ Excused(p)'
    <3>1. CASE <<m, p>> = PackageName(e, i.best)
      <4>1. artifact'[<<m, p>>] = i.target /\ p = row[e].plan
          BY <1>1, <2>2, <3>1 DEF StateTyped, PackageName
      <4> QED BY <2>4, <2>5, <4>1
    <3>2. CASE <<m, p>> # PackageName(e, i.best)
      <4>1. artifact'[<<m, p>>] = artifact[<<m, p>>]
          BY <1>1, <2>2, <3>2 DEF StateTyped
      <4> QED BY <2>5, <2>6, <4>1 DEF TaskInv
    <3> QED BY <3>1, <3>2
  <2>7. ASSUME NEW x \in Experiments PROVE KeepsItsTask(x)'
      BY <2>2 DEF TaskInv, KeepsItsTask, Planned
  <2> QED BY <2>2, <2>6, <2>7 DEF TaskInv
<1>11. CASE Finish(e) \/ MarkFailed(e)
  <2>1. PICK status : row' = Merged(e, status)
      BY <1>11 DEF Finish, MarkFailed
  <2>2. row[e] \in Row
      BY <1>11, JobShape DEF Finish, MarkFailed, Training
  <2>3. row'[e].plan = row[e].plan /\ row'[e] # NoRow
        /\ \A x \in Experiments \ {e} : row'[x] = row[x]
      BY <1>1, <2>1, <2>2 DEF Merged, StateTyped, Row, NoRow
  <2>4. /\ UNCHANGED <<target, retasked, artifact>> /\ job'[e].at = "idle"
        /\ \A x \in Experiments \ {e} : job'[x] = job[x]
      BY <1>1, <1>11 DEF Finish, MarkFailed, Release, Idle, StateTyped, dataset
  <2>5. KeepsItsTask(e)' /\ RowsKeepPlans
      BY <2>3, <2>4 DEF KeepsItsTask, Planned, RowsKeepPlans
  <2> QED BY <2>3, <2>4, <2>5, OneTaskMoves
<1> QED BY <1>3, <1>4, <1>5, <1>6, <1>7, <1>8, <1>9, <1>10, <1>11 DEF TaskStep

LEMMA TaskInvInitOK == ExperimentInit => TaskInv
<1> SUFFICES ASSUME ExperimentInit PROVE TaskInv
    OBVIOUS
<1>1. \A e \in Experiments : KeepsItsTask(e)
    BY DEF ExperimentInit, KeepsItsTask, Planned, Idle
<1> QED BY <1>1 DEF ExperimentInit, TaskInv

LEMMA TaskInvNextOK ==
    ASSUME ExperimentInv, TaskInv, [ExperimentNext]_experimentVars
    PROVE  TaskInv'
<1>1. CASE UNCHANGED experimentVars
  <2>1. /\ \A e \in Experiments : KeepsItsTask(e)'
        /\ \A p \in Targets : Excused(p)' <=> Excused(p)
      BY <1>1 DEF experimentVars, dataset, TaskInv, KeepsItsTask, Planned, Excused
  <2> QED BY <1>1, <2>1 DEF experimentVars, dataset, TaskInv
<1>2. CASE Restart
  <2>1. /\ job' = [e \in Experiments |-> Idle]
        /\ UNCHANGED <<target, retasked, row, artifact>>
      BY <1>2 DEF Restart, dataset, database
  <2>2. \A e \in Experiments : KeepsItsTask(e)'
      BY <2>1 DEF KeepsItsTask, Planned, Idle
  <2>3. \A p \in Targets : Excused(p)' <=> Excused(p)
      BY <2>1 DEF Excused
  <2> QED BY <2>1, <2>2, <2>3 DEF TaskInv
<1> QED BY <1>1, <1>2, SetTargetKeepsTasks, CreationKeepsTasks, TaskStepKeepsTasks
        DEF ExperimentNext

(* The task of every package and of every experiment on its way is what     *)
(* the plan says, or is excused.                                            *)
THEOREM TaskInvHolds == ExperimentSpec => [](ExperimentInv /\ TaskInv)
<1>1. ExperimentInit => ExperimentInv /\ TaskInv
    BY ExperimentInitOK, TaskInvInitOK
<1>2. ExperimentInv /\ TaskInv /\ [ExperimentNext]_experimentVars => (ExperimentInv /\ TaskInv)'
    BY ExperimentNextOK, TaskInvNextOK
<1> QED BY <1>1, <1>2, PTL DEF ExperimentSpec

(* Type correctness: no row without a plan that can be trained.             *)
THEOREM ExperimentTypesHold == ExperimentSpec => []ExperimentTypeOK
<1>1. ASSUME ExperimentInv, TaskInv PROVE ExperimentTypeOK
  <2>1. \A e \in Experiments : job[e].at \in {"idle", "creating", "scheduled"} \cup TaskPhases
      BY <1>1, JobShape
  <2> QED BY <1>1, <2>1 DEF ExperimentInv, TaskInv, StateTyped, ExperimentTypeOK, TaskPhases
<1> QED BY <1>1, TaskInvHolds, PTL

(* At most one experiment trains at a time, under the lock and with a       *)
(* running row.                                                             *)
THEOREM OneTrainsHolds == ExperimentSpec => []OneTrains
<1>1. ExperimentInv => OneTrains
    BY DEF ExperimentInv, RowFollowsJob, OneTrains
<1> QED BY <1>1, ExperimentInvHolds, PTL

(* A succeeded experiment can be registered: its recommended run is tracked *)
(* and has its row, and its package is there and has the experiment's task, *)
(* unless the dataset was given another task while a run that writes that   *)
(* package was on its way.                                                  *)
THEOREM RegistrableHolds == ExperimentSpec => []SucceededIsRegistrable
<1>1. ASSUME ExperimentInv, TaskInv PROVE SucceededIsRegistrable
  <2> SUFFICES ASSUME NEW e \in Experiments, row[e].status = "succeeded"
               PROVE  /\ RecommendedRunStands(e)
                      /\ artifact[PackageName(e, row[e].recommended)] # NoPackage
                      /\ PackageLoads(e) \/ Excused(row[e].plan)
      BY DEF SucceededIsRegistrable, Excused
  <2>1. /\ <<e, row[e].recommended>> \in modelRuns
        /\ artifact[PackageName(e, row[e].recommended)] # NoPackage
      BY <1>1 DEF ExperimentInv, ResultSound
  <2>2. RecommendedRunStands(e)
      BY <1>1, <2>1 DEF ExperimentInv, RecommendedRunStands
  <2>3. row[e].recommended \in Models /\ row[e].plan \in Targets
      BY <1>1, <2>1 DEF ExperimentInv, StateTyped, Row, NoRow
  <2>4. PackageLoads(e) \/ Excused(row[e].plan)
      BY <1>1, <2>1, <2>3 DEF TaskInv, PackageLoads, PackageName
  <2> QED BY <2>1, <2>2, <2>4
<1> QED BY <1>1, TaskInvHolds, PTL

(* Every run of an experiment that is over is a row or is noted, whichever  *)
(* of the two writes failed.                                                *)
THEOREM ReconciledHolds == ExperimentSpec => []RunsAreReconciled
<1>1. ExperimentInv => RunsAreReconciled
    BY DEF ExperimentInv, ResultSound, RunsAreReconciled
<1> QED BY <1>1, ExperimentInvHolds, PTL

(* The result of an experiment is final.                                    *)
THEOREM ResultsStandHold == ExperimentSpec => ResultsStand
<1>1. ExperimentInv /\ [ExperimentNext]_experimentVars
          => [\A e \in Experiments : ResultStands(e)]_experimentVars
    BY ExperimentNextOK
<1> QED BY <1>1, ExperimentInvHolds, PTL DEF ExperimentSpec, ResultsStand, ResultStands
=============================================================================
