------------------------------- MODULE Console -------------------------------
(* One session of the Streamlit console (ui/app.py).  The lists it shows    *)
(* are fetched once and kept until a button drops or reloads them; beside   *)
(* them it keeps what is selected and the detail of one experiment.  Other  *)
(* clients and the training threads change the backend at any time, and the *)
(* user may click again while a button's request is under way: the script   *)
(* is then cut at its next use of the session, before it drops the list.    *)
(*                                                                          *)
(* A list of the backend is the number of its changes, a kept list that     *)
(* number when it was fetched.                                              *)
EXTENDS Naturals

CONSTANTS
    ExperimentIds,
    NotKept,        \* the list is not in the session
    Unavailable,    \* the fetch failed: an empty list and an error are kept
    NoSelection,
    MaxChanges,     \* bound: changes of all lists
    MaxFetches      \* bound: fetches of lists

ASSUME ConsoleBoundsAreNat == MaxChanges \in Nat /\ MaxFetches \in Nat

VARIABLES
    backend,    \* changes of each list so far
    changes,    \* changes of all lists so far
    kept,       \* st.session_state: the *_cache entries
    owed,       \* what backend was after the last change of this session
    cutShort,   \* lists whose button was cut before it dropped them
    training,   \* statuses of the experiments at the backend
    selected,   \* current_experiment_id
    detail,     \* experiment_detail
    registered, \* experiments whose recommended run was registered from here
    fetches     \* fetches of lists so far

consoleVars ==
    <<backend, changes, kept, owed, cutShort, training, selected, detail, registered, fetches>>

listVars == <<backend, changes, kept, owed, cutShort, fetches>>

experimentVars == <<training, selected, detail, registered>>

Lists == {"datasets", "experiments", "models", "monitoring_runs", "approvals", "work_orders"}

NoDetail == [of |-> NoSelection, status |-> "none"]

IsListed(l) == kept[l] \notin {NotKept, Unavailable}

-----------------------------------------------------------------------------
(* What a fetch of a list leaves in the session: a failed one is kept too.  *)
Fetch(l) ==
    /\ fetches < MaxFetches
    /\ fetches' = fetches + 1
    /\ kept' \in {[kept EXCEPT ![l] = backend[l]], [kept EXCEPT ![l] = Unavailable]}
    /\ cutShort' = cutShort \ {l}
    /\ UNCHANGED <<backend, changes, owed, experimentVars>>

(* _load, when a page shows the list                                        *)
Load(l) == kept[l] = NotKept /\ Fetch(l)

(* _reload, of the Refresh buttons                                          *)
Reload(l) == kept[l] # NotKept /\ Fetch(l)

Changing(l) ==
    /\ changes < MaxChanges
    /\ changes' = changes + 1
    /\ backend' = [backend EXCEPT ![l] = @ + 1]
    /\ UNCHANGED fetches

(* Another client, or a request of this one whose response was lost.        *)
ChangedElsewhere(l) ==
    /\ Changing(l)
    /\ UNCHANGED <<kept, owed, cutShort, experimentVars>>

(* run_monitoring changes its list and keeps the one it has.                *)
ChangeAndKeep(l) ==
    /\ Changing(l)
    /\ owed' = [owed EXCEPT ![l] = backend[l] + 1]
    /\ UNCHANGED <<kept, cutShort>>

(* A button whose request succeeds changes list l, then drops it from the   *)
(* session, unless a click meanwhile cuts the script.                       *)
ChangeAndDrop(l) ==
    /\ Changing(l)
    /\ owed' = [owed EXCEPT ![l] = backend[l] + 1]
    /\ \/ kept' = [kept EXCEPT ![l] = NotKept] /\ cutShort' = cutShort \ {l}
       \/ kept' = kept /\ cutShort' = cutShort \cup {l}

-----------------------------------------------------------------------------
ResetContext ==
    /\ selected' = NoSelection
    /\ detail' = NoDetail
    /\ UNCHANGED <<training, registered, listVars>>

UploadDataset == ChangeAndDrop("datasets") /\ UNCHANGED experimentVars

(* The button is beside the detail of a dataset of the list.                *)
ProfileDataset == IsListed("datasets") /\ ChangeAndDrop("datasets") /\ UNCHANGED experimentVars

RecommendTask == ChangeAndDrop("datasets") /\ UNCHANGED experimentVars

(* Mistake: the detail is what was known of the experiment before.          *)
CreateStale(e) ==
    /\ training[e] = "none"
    /\ training' = [training EXCEPT ![e] = "queued"]
    /\ ChangeAndDrop("experiments")
    /\ IF "experiments" \in cutShort' THEN UNCHANGED <<selected, detail>>
       ELSE selected' = e /\ detail' = [of |-> e, status |-> training[e]]
    /\ UNCHANGED registered

(* The experiment becomes the selected one, its detail the response, unless *)
(* the script is cut.                                                       *)
CreateExperiment(e) ==
    /\ training[e] = "none"
    /\ training' = [training EXCEPT ![e] = "queued"]
    /\ ChangeAndDrop("experiments")
    /\ IF "experiments" \in cutShort' THEN UNCHANGED <<selected, detail>>
       ELSE selected' = e /\ detail' = [of |-> e, status |-> "queued"]
    /\ UNCHANGED registered

(* Another client's experiment is queued, or a training ends.               *)
ExperimentMoves(e) ==
    /\ \/ training[e] = "none" /\ training' = [training EXCEPT ![e] = "queued"]
       \/ training[e] = "queued" /\ \E end \in {"succeeded", "failed"} :
            training' = [training EXCEPT ![e] = end]
    /\ Changing("experiments")
    /\ UNCHANGED <<kept, owed, cutShort, selected, detail, registered>>

(* The selectbox over the kept list; drop is the button "Refresh status".   *)
SelectExperiment(e, drop) ==
    /\ IsListed("experiments")
    /\ training[e] # "none"
    /\ selected' = e
    /\ detail' = IF drop THEN NoDetail ELSE detail
    /\ UNCHANGED <<training, registered, listVars>>

(* The pages that need the detail of the selected experiment fetch it when  *)
(* the one they have is of another, whatever its status was then.           *)
ShowDetail ==
    /\ selected # NoSelection
    /\ detail.of # selected
    /\ detail' = [of |-> selected, status |-> training[selected]]
    /\ UNCHANGED <<training, selected, registered, listVars>>

(* Mistake: the detail that is at hand is taken for the selected one's.     *)
RegisterSelected ==
    /\ selected # NoSelection
    /\ detail.status = "succeeded"
    /\ registered' = registered \cup {selected}
    /\ ChangeAndDrop("models")
    /\ UNCHANGED <<training, selected, detail>>

(* The run to register is looked for in the detail, which must be of the    *)
(* selected experiment and say that it succeeded.                           *)
RegisterModel ==
    /\ detail.of = selected
    /\ detail.status = "succeeded"
    /\ registered' = registered \cup {selected}
    /\ ChangeAndDrop("models")
    /\ UNCHANGED <<training, selected, detail>>

DeployModel == IsListed("models") /\ ChangeAndDrop("models") /\ UNCHANGED experimentVars

RunMonitoring ==
    IsListed("models") /\ ChangeAndKeep("monitoring_runs") /\ UNCHANGED experimentVars

RequestPromotion ==
    IsListed("models") /\ ChangeAndDrop("approvals") /\ UNCHANGED experimentVars

(* Approve and Reject send the version that the kept list shows, which the  *)
(* server accepts when that request is still the same.                      *)
Decide == IsListed("approvals") /\ ChangeAndDrop("approvals") /\ UNCHANGED experimentVars

ExecutePromotion == IsListed("models") /\ ChangeAndDrop("models") /\ UNCHANGED experimentVars

ProposeWorkOrder == ChangeAndDrop("approvals") /\ UNCHANGED experimentVars

DraftWorkOrder == ChangeAndDrop("work_orders") /\ UNCHANGED experimentVars

-----------------------------------------------------------------------------
ConsoleInit ==
    /\ backend = [l \in Lists |-> 0]
    /\ changes = 0
    /\ kept = [l \in Lists |-> NotKept]
    /\ owed = [l \in Lists |-> 0]
    /\ cutShort = {}
    /\ training = [e \in ExperimentIds |-> "none"]
    /\ selected = NoSelection
    /\ detail = NoDetail
    /\ registered = {}
    /\ fetches = 0

ConsoleNext ==
    \/ \E l \in Lists : Load(l) \/ Reload(l) \/ ChangedElsewhere(l)
    \/ \E e \in ExperimentIds :
        \/ CreateExperiment(e)
        \/ ExperimentMoves(e)
        \/ \E drop \in BOOLEAN : SelectExperiment(e, drop)
    \/ ResetContext \/ ShowDetail
    \/ UploadDataset \/ ProfileDataset \/ RecommendTask
    \/ RegisterModel \/ DeployModel \/ RunMonitoring
    \/ RequestPromotion \/ Decide \/ ExecutePromotion
    \/ ProposeWorkOrder \/ DraftWorkOrder

ConsoleSpec == ConsoleInit /\ [][ConsoleNext]_consoleVars

-----------------------------------------------------------------------------
(* The session holds lists that were fetched, and details of experiments.   *)
ConsoleTypeOK ==
    /\ backend \in [Lists -> 0..MaxChanges]
    /\ changes \in 0..MaxChanges
    /\ kept \in [Lists -> 0..MaxChanges \cup {NotKept, Unavailable}]
    /\ owed \in [Lists -> 0..MaxChanges]
    /\ cutShort \subseteq Lists
    /\ training \in [ExperimentIds -> {"none", "queued", "succeeded", "failed"}]
    /\ selected \in ExperimentIds \cup {NoSelection}
    /\ detail \in [of : ExperimentIds, status : {"queued", "succeeded", "failed"}] \cup {NoDetail}
    /\ registered \subseteq ExperimentIds
    /\ fetches \in 0..MaxFetches

(* What this session did it sees: a list it keeps is not older than its own *)
(* last change of it, unless that button was cut or the list is the         *)
(* monitoring runs', which no button drops; and the run it registers is of  *)
(* an experiment that succeeded, as the detail it kept does not outlive a   *)
(* selection (ui/app.py:200, :404, :848, :1213).                            *)
OwnWritesShown ==
    /\ \A l \in Lists \ ({"monitoring_runs"} \cup cutShort) :
          IsListed(l) => kept[l] >= owed[l]
    /\ \A e \in registered : training[e] = "succeeded"

=============================================================================
