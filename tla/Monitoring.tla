----------------------------- MODULE Monitoring -----------------------------
(* One monitoring pass over a registered model (application/monitoring.py): *)
(* the roles of the baseline's columns are read, everything is computed,    *)
(* and the run and its audit event are written in one transaction, also     *)
(* when the computation failed.  The pass is synchronous; others run beside *)
(* it, and recommend_task may change the roles meanwhile.                   *)
EXTENDS MonitoringRules

CONSTANTS
    Watchers,        \* requests that run a pass
    MonitoringIds,   \* ids of monitoring runs
    Frozen,          \* resolved_features of the experiment
    NumericColumns,  \* the numeric ones of these
    VaryingColumns,  \* those whose np.nanstd is positive, or that are too large to add up
    Uploads,         \* uploaded datasets other than the baseline
    Replays,         \* the kinds of replay that are asked for
    Absent           \* no row, no part, no error

ASSUME ReplaysAreKnown == Replays \subseteq ReplayKinds
ASSUME ColumnsAreFrozen == NumericColumns \subseteq Frozen /\ VaryingColumns \subseteq Frozen
ASSUME AbsentIsNothing == Absent \notin Uploads \cup ReplayKinds

VARIABLES
    roles,       \* the baseline's asset id and timestamp columns
    monitored,   \* monitoring_runs
    watchTrail,  \* audit events monitoring.run
    watch        \* what a request holds

monitoringVars == <<roles, monitored, watchTrail, watch>>

Sources == [upload : Uploads, replay : {Absent}] \cup [upload : {Absent}, replay : Replays]

NotWatching == [at |-> "idle"]

EndWatch(w) == watch' = [watch EXCEPT ![w] = NotWatching]

-----------------------------------------------------------------------------
(* recommend_task of the baseline dataset names other role columns.         *)
ChangeRoles ==
    /\ \E R \in SUBSET Frozen : Cardinality(R) <= 2 /\ roles' = R
    /\ UNCHANGED <<monitored, watchTrail, watch>>

(* run: the source is one of an upload and a replay, and not the baseline;  *)
(* what is refused here leaves no row.  The dataset's roles are read now.   *)
Check(w, source) ==
    /\ watch[w] = NotWatching
    /\ watch' = [watch EXCEPT ![w] = [at |-> "computing", source |-> source, roles |-> roles]]
    /\ UNCHANGED <<roles, monitored, watchTrail>>

(* _resolve_feature_allowlist                                               *)
Allowlist(held) == Frozen \ held.roles

Failed == [status |-> "failed", features |-> Absent, severity |-> Absent, recommended |-> Absent]

(* A window of the source: a replay has the allowlist's columns and the     *)
(* baseline's rows, an upload whatever was uploaded.                        *)
Windows(source, features, baselineRows) ==
    IF source.upload = Absent THEN {[columns |-> features, rows |-> baselineRows]}
    ELSE {[columns |-> C, rows |-> n] : C \in SUBSET Frozen, n \in {0, 1}}

(* What detect_drift may find in a column of the window.                    *)
DriftOf(source, column) ==
    IF source.upload = Absent
       /\ ~ReplayChanges(source.replay, column \in NumericColumns, column \in VaryingColumns)
    THEN {"LOW"} ELSE Severities

(* _compute after the checks: the report is as severe as its worst column,  *)
(* and other triggers come from the caller and the anomalies.               *)
Succeeded(source, features) ==
    {[status |-> "succeeded", features |-> features, severity |-> MaxSeverity(Range(drift)),
      recommended |-> Triggers(MaxSeverity(Range(drift)), dropped, jumped, due, manual) # {}] :
        drift \in {d \in [features -> Severities] : \A f \in features : d[f] \in DriftOf(source, f)},
        dropped \in BOOLEAN, jumped \in BOOLEAN, due \in BOOLEAN, manual \in BOOLEAN}

(* The try block: everything is computed before anything is put in the row, *)
(* and whatever is raised makes the run a failed one.                       *)
Compute(w) ==
    /\ watch[w].at = "computing"
    /\ LET held == watch[w]
           features == Allowlist(held)
           numeric == features \cap NumericColumns
       IN  \E baselineRows \in {MinBaselineRows - 1, MinBaselineRows} :
           \E window \in Windows(held.source, features, baselineRows) :
           LET baseline == [columns |-> Frozen, rows |-> baselineRows]
               errors == AnomalyErrors(baseline, window, numeric)
                         \cup DriftErrors(baseline, window, features)
           IN  \E outcome \in IF features = {} \/ errors # {} THEN {Failed}
                              ELSE Succeeded(held.source, features) :
                  watch' = [watch EXCEPT
                      ![w] = [at |-> "persisting", source |-> held.source, outcome |-> outcome]]
    /\ UNCHANGED <<roles, monitored, watchTrail>>

(* The file is gone, or a library raises.                                   *)
ComputeRaises(w) ==
    /\ watch[w].at = "computing"
    /\ watch' = [watch EXCEPT ![w] = [at |-> "persisting", source |-> @.source,
                                      outcome |-> Failed]]
    /\ UNCHANGED <<roles, monitored, watchTrail>>

Row(w) == [source |-> watch[w].source, outcome |-> watch[w].outcome]

Summary(outcome) ==
    [status |-> outcome.status, severity |-> outcome.severity, recommended |-> outcome.recommended]

(* _audit_payload says what the row says, but the features.                 *)
Payload(id, w) == [run |-> id, source |-> watch[w].source, said |-> Summary(watch[w].outcome)]

(* Mistake: the audit event is recorded in a transaction of its own.        *)
PersistRowFirst(w, id) ==
    /\ watch[w].at = "persisting"
    /\ monitored[id] = Absent
    /\ monitored' = [monitored EXCEPT ![id] = Row(w)]
    /\ watchTrail' \in {watchTrail, watchTrail \cup {Payload(id, w)}}
    /\ EndWatch(w)
    /\ UNCHANGED roles

(* _persist                                                                 *)
Persist(w, id) ==
    /\ watch[w].at = "persisting"
    /\ monitored[id] = Absent
    /\ monitored' = [monitored EXCEPT ![id] = Row(w)]
    /\ watchTrail' = watchTrail \cup {Payload(id, w)}
    /\ EndWatch(w)
    /\ UNCHANGED roles

(* The process dies, or the transaction fails: nothing is written.          *)
Unwatched(w) ==
    /\ watch[w] # NotWatching
    /\ EndWatch(w)
    /\ UNCHANGED <<roles, monitored, watchTrail>>

-----------------------------------------------------------------------------
MonitoringInit ==
    /\ roles = {}
    /\ monitored = [id \in MonitoringIds |-> Absent]
    /\ watchTrail = {}
    /\ watch = [w \in Watchers |-> NotWatching]

MonitoringNext ==
    \/ ChangeRoles
    \/ \E w \in Watchers :
        \/ \E source \in Sources : Check(w, source)
        \/ Compute(w)
        \/ ComputeRaises(w)
        \/ \E id \in MonitoringIds : Persist(w, id)
        \/ Unwatched(w)

MonitoringSpec == MonitoringInit /\ [][MonitoringNext]_monitoringVars

-----------------------------------------------------------------------------
Outcomes == [status : {"succeeded", "failed"}, features : (SUBSET Frozen) \cup {Absent},
             severity : Severities \cup {Absent}, recommended : BOOLEAN \cup {Absent}]

MonitoringRows == [source : Sources, outcome : Outcomes]

ASSUME AbsentIsNoRow == Absent \notin MonitoringRows

(* The rows, the audit events and the requests hold what the code writes.   *)
MonitoringTypeOK ==
    /\ roles \subseteq Frozen
    /\ \A id \in MonitoringIds :
          monitored[id] = Absent \/ monitored[id] \in MonitoringRows
    /\ \A e \in watchTrail :
          /\ DOMAIN e = {"run", "source", "said"}
          /\ e.run \in MonitoringIds /\ e.source \in Sources
    /\ \A w \in Watchers :
          \/ watch[w] = NotWatching
          \/ watch[w] \in [at : {"computing"}, source : Sources, roles : SUBSET Frozen]
          \/ watch[w] \in [at : {"persisting"}, source : Sources, outcome : Outcomes]

(* A row tells what happened: a failed run has no part of a report, a       *)
(* succeeded one watched features of its model, some of them numeric, its   *)
(* replay raised no drift in columns it cannot change, a HIGH drift         *)
(* proposes retraining, and the row has one audit event, which says the     *)
(* same; no event is of a run without row (application/monitoring.py:222,   *)
(* :377, :488; monitoring/replay.py:63).                                    *)
RunTellsWhatHappened ==
    /\ \A id \in MonitoringIds : monitored[id] # Absent =>
          LET source == monitored[id].source
              out == monitored[id].outcome
          IN  /\ out.status = "failed" => out = Failed
              /\ out.status = "succeeded" =>
                    /\ out.features \subseteq Frozen /\ out.features \cap NumericColumns # {}
                    /\ out.severity = "HIGH" => out.recommended
                    /\ (source.replay = "normal" /\ out.features \cap NumericColumns \cap VaryingColumns = {})
                       => out.severity = "LOW"
              /\ \E e \in watchTrail :
                    /\ {f \in watchTrail : f.run = id} = {e}
                    /\ e.said = Summary(out)
    /\ \A e \in watchTrail : monitored[e.run] # Absent

=============================================================================
