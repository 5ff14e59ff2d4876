----------------------------- MODULE Predictions -----------------------------
(* Inference with deployed models and what technicians say of it            *)
(* (application/predictions.py, feedback/service.py): API threads share a   *)
(* cache of packages without a lock, in front of a directory whose files    *)
(* may be replaced, and record events that feedback refers to.              *)
EXTENDS Naturals, FiniteSets, Sequences, SequencesExt

CONSTANTS
    Threads,        \* API threads
    Registered,     \* registered models, each with its package file
    CacheLimit,     \* entries the cache may keep: 16 in the code
    MaxBuilds,      \* bound: builds of a package file
    MaxFeedback     \* bound: rows of feedback

ASSUME CacheLimitIsNat == CacheLimit \in Nat \ {0}
ASSUME BoundsAreNat == MaxBuilds \in Nat \ {0} /\ MaxFeedback \in Nat

VARIABLES
    deployed,   \* registered_models.deployment_status is demo_deployed
    everDeployed, \* models that were deployed at some time
    file,       \* the artifact directory: the package of a model
    cache,      \* the OrderedDict: [key, package], least recently used first
    events,     \* prediction_events
    feedback,   \* technician_feedback
    predict     \* what a worker's request holds so far

predictionVars == <<deployed, everDeployed, file, cache, events, feedback, predict>>

NotPredicting == [at |-> "none"]

(* Mistake: keyed by the version, which models of other names share.        *)
VersionOnly(m) == "1"

(* The cache is keyed by the id of the row and its version.                 *)
KeyOf(m) == m

Entries(k) == {i \in DOMAIN cache : cache[i].key = k}

Goto(w, at) == predict' = [predict EXCEPT ![w].at = at]

EndPrediction(w) == predict' = [predict EXCEPT ![w] = NotPredicting]

-----------------------------------------------------------------------------
(* deploy_demo of a candidate demotes the version of its name that was      *)
(* deployed, here any set of others.                                        *)
DeployVersion(m) ==
    /\ ~deployed[m]
    /\ \E demoted \in SUBSET (Registered \ {m}) :
          deployed' = [n \in Registered |-> n = m \/ (deployed[n] /\ n \notin demoted)]
    /\ everDeployed' = everDeployed \cup {m}
    /\ UNCHANGED <<file, cache, events, feedback, predict>>

(* An experiment with the same plan saves its package under the same name.  *)
Repackage(m) ==
    /\ file[m].build < MaxBuilds
    /\ file' = [file EXCEPT ![m].build = @ + 1]
    /\ UNCHANGED <<deployed, everDeployed, cache, events, feedback, predict>>

-----------------------------------------------------------------------------
(* predict reads the row, which must be deployed now.  persist is FALSE in  *)
(* the previews of the copilot.                                             *)
PredictRead(w, m, persist) ==
    /\ predict[w] = NotPredicting
    /\ deployed[m]
    /\ predict' = [predict EXCEPT ![w] = [at |-> "looking", model |-> m, persist |-> persist]]
    /\ UNCHANGED <<deployed, everDeployed, file, cache, events, feedback>>

(* _load_deployed: the cache has an entry, which is then moved to the end   *)
CacheHit(w) ==
    /\ predict[w].at = "looking"
    /\ \E i \in Entries(KeyOf(predict[w].model)) :
          predict' = [predict EXCEPT
              ![w] = [at |-> "hit", model |-> @.model, persist |-> @.persist,
                      package |-> cache[i].package]]
    /\ UNCHANGED <<deployed, everDeployed, file, cache, events, feedback>>

(* or it has none, and the file is loaded and verified.                     *)
CacheMiss(w) ==
    /\ predict[w].at = "looking"
    /\ Entries(KeyOf(predict[w].model)) = {}
    /\ predict' = [predict EXCEPT
           ![w] = [at |-> "loaded", model |-> @.model, persist |-> @.persist,
                   package |-> file[@.model]]]
    /\ UNCHANGED <<deployed, everDeployed, file, cache, events, feedback>>

(* What was loaded is put under its key, at the place the key has or last.  *)
CachePut(w) ==
    LET k == KeyOf(predict[w].model)
        entry == [key |-> k, package |-> predict[w].package]
    IN
    /\ predict[w].at = "loaded"
    /\ cache' = IF Entries(k) = {} THEN Append(cache, entry)
                ELSE [i \in DOMAIN cache |-> IF cache[i].key = k THEN entry ELSE cache[i]]
    /\ Goto(w, "put")
    /\ UNCHANGED <<deployed, everDeployed, file, events, feedback>>

(* move_to_end: the entry is the last one now.                              *)
Touch(w) ==
    /\ predict[w].at \in {"hit", "put"}
    /\ \E i \in Entries(KeyOf(predict[w].model)) :
          cache' = Append(RemoveAt(cache, i), cache[i])
    /\ Goto(w, IF predict[w].at = "hit" THEN "scoring" ELSE "trimming")
    /\ UNCHANGED <<deployed, everDeployed, file, events, feedback>>

(* Another thread has evicted it in between: the KeyError ends the request. *)
TouchFails(w) ==
    /\ predict[w].at \in {"hit", "put"}
    /\ Entries(KeyOf(predict[w].model)) = {}
    /\ EndPrediction(w)
    /\ UNCHANGED <<deployed, everDeployed, file, cache, events, feedback>>

(* The test of the while loop over the size of the cache ...                *)
Trimmed(w) ==
    /\ predict[w].at = "trimming"
    /\ Len(cache) <= CacheLimit
    /\ Goto(w, "scoring")
    /\ UNCHANGED <<deployed, everDeployed, file, cache, events, feedback>>

(* Mistake: one entry too many is kept.                                     *)
OverfullByTwo(w) ==
    /\ predict[w].at = "trimming"
    /\ \/ Len(cache) > CacheLimit + 1 /\ Goto(w, "evicting")
       \/ Len(cache) = CacheLimit + 1 /\ Goto(w, "scoring")
    /\ UNCHANGED <<deployed, everDeployed, file, cache, events, feedback>>

Overfull(w) ==
    /\ predict[w].at = "trimming"
    /\ Len(cache) > CacheLimit
    /\ Goto(w, "evicting")
    /\ UNCHANGED <<deployed, everDeployed, file, cache, events, feedback>>

(* ... and popitem(last=False), another step of the same thread.            *)
Evict(w) ==
    /\ predict[w].at = "evicting"
    /\ cache # <<>>
    /\ cache' = Tail(cache)
    /\ Goto(w, "trimming")
    /\ UNCHANGED <<deployed, everDeployed, file, events, feedback>>

(* Records are validated against the manifest, predicted and explained;     *)
(* one transaction inserts their events and the audit event.  The row is    *)
(* not looked at again.                                                     *)
PersistEvents(w) ==
    /\ predict[w].at = "scoring"
    /\ predict[w].persist
    /\ events' = events \cup {[model |-> predict[w].model, package |-> predict[w].package]}
    /\ EndPrediction(w)
    /\ UNCHANGED <<deployed, everDeployed, file, cache, feedback>>

(* A preview is answered and leaves nothing.                                *)
Preview(w) ==
    /\ predict[w].at = "scoring"
    /\ ~predict[w].persist
    /\ EndPrediction(w)
    /\ UNCHANGED <<deployed, everDeployed, file, cache, events, feedback>>

(* The file is missing or invalid, the records do not fit, the model fails  *)
(* or the transaction does, or popitem finds that other threads have        *)
(* emptied the cache: nothing is recorded.                                  *)
PredictFails(w) ==
    /\ predict[w].at \in {"looking", "scoring"} \cup (IF cache = <<>> THEN {"evicting"} ELSE {})
    /\ EndPrediction(w)
    /\ UNCHANGED <<deployed, everDeployed, file, cache, events, feedback>>

(* FeedbackService.create: in one transaction the event must be there, and  *)
(* the row takes its model from it.                                         *)
FeedbackCreate(e) ==
    /\ Cardinality(feedback) < MaxFeedback
    /\ feedback' = feedback \cup {[event |-> e, model |-> e.model]}
    /\ UNCHANGED <<deployed, everDeployed, file, cache, events, predict>>

(* The API process is started again: cache and requests are gone.           *)
ServingRestart ==
    /\ cache' = <<>>
    /\ predict' = [w \in Threads |-> NotPredicting]
    /\ UNCHANGED <<deployed, everDeployed, file, events, feedback>>

-----------------------------------------------------------------------------
PredictionInit ==
    /\ deployed = [m \in Registered |-> FALSE]
    /\ everDeployed = {}
    /\ file = [m \in Registered |-> [model |-> m, build |-> 1]]
    /\ cache = <<>>
    /\ events = {}
    /\ feedback = {}
    /\ predict = [w \in Threads |-> NotPredicting]

PredictionStep(w) ==
    \/ \E m \in Registered, persist \in BOOLEAN : PredictRead(w, m, persist)
    \/ CacheHit(w) \/ CacheMiss(w) \/ CachePut(w) \/ Touch(w) \/ TouchFails(w)
    \/ Trimmed(w) \/ Overfull(w) \/ Evict(w)
    \/ PersistEvents(w) \/ Preview(w) \/ PredictFails(w)

PredictionNext ==
    \/ \E w \in Threads : PredictionStep(w)
    \/ \E m \in Registered : DeployVersion(m) \/ Repackage(m)
    \/ \E e \in events : FeedbackCreate(e)
    \/ ServingRestart

PredictionSpec == PredictionInit /\ [][PredictionNext]_predictionVars

-----------------------------------------------------------------------------
Packages == [model: Registered, build: 1..MaxBuilds]

Phases == {"hit", "loaded", "put", "trimming", "evicting", "scoring"}

(* Every variable has its type.                                             *)
PredictionTypeOK ==
    /\ deployed \in [Registered -> BOOLEAN]
    /\ everDeployed \in SUBSET Registered
    /\ file \in [Registered -> Packages]
    /\ \A i \in DOMAIN cache : cache[i].package \in Packages
    /\ events \in SUBSET [model: Registered, package: Packages]
    /\ \A f \in feedback : f.event \in events /\ f.model \in Registered
    /\ \A w \in Threads : predict[w] \in
          {NotPredicting}
             \cup [at: {"looking"}, model: Registered, persist: BOOLEAN]
             \cup [at: Phases, model: Registered, persist: BOOLEAN, package: Packages]

(* db/models.py: an event is an "immutable record of a single prediction    *)
(* made by a deployed registered model".  Whatever threads do to the cache, *)
(* the package an event was made with is one of its own model, the model    *)
(* was deployed, and feedback names the model of its event.                 *)
EventsAreOfTheirModel ==
    /\ \A e \in events : e.package.model = e.model /\ e.model \in everDeployed
    /\ \A f \in feedback : f.event \in events /\ f.model = f.event.model

(* _load_deployed tests the size of the cache and evicts in separate steps. *)
(* When no thread is between its insertion and the end of its loop the      *)
(* cache keeps its limit, and it never holds two entries for one key.       *)
CacheKeepsItsLimit ==
    /\ \A i, j \in DOMAIN cache : cache[i].key = cache[j].key => i = j
    /\ (\A w \in Threads : predict[w].at \notin {"put", "trimming", "evicting"}) =>
          Len(cache) <= CacheLimit
=============================================================================
