--------------------------- MODULE CmmsWorkOrders ---------------------------
(* The mock CMMS (cmms/service.py): an approved or modified cmms_work_order *)
(* request about a prediction event is turned into one work order and one   *)
(* receipt.                                                                 *)
EXTENDS ApprovalExecutions

CONSTANTS
    Events,     \* prediction event ids; as a key, "a work order for this
                \* event"; as a payload, a well-formed one that names it
    NoEvent

ASSUME EventsAreKeysAndPayloads == Events \subseteq Keys /\ Events \subseteq Payloads
ASSUME NoEventIsNone == NoEvent \notin Events

VARIABLES
    predicted,  \* the prediction_events rows
    workOrder   \* the mock_cmms_work_orders table, by approval

cmmsVars == <<approval, audit, call, receipt, predicted, workOrder>>

NoOrder == [status |-> "none"]

Order == [status: {"approved"}, event: Events]

WorkOrderReceipt == [kind: {"work_order"}, event: Events]

DraftCall == [op: {"draft"}, id: ApprovalIds, event: Events]

-----------------------------------------------------------------------------
(* A prediction is recorded; events are never removed.  A request may name  *)
(* an event before it exists: POST /approvals checks no entity.             *)
RecordPrediction(e) ==
    /\ e \notin predicted
    /\ predicted' = predicted \cup {e}
    /\ UNCHANGED <<approval, audit, call, receipt, workOrder>>

(* Mistake: the payload is not compared with the approval's entity.         *)
NamesSomeEvent(a, e) == Granted(a) /\ approval[a].key \in Events /\ EffectivePayload(a) = e

(* Mistake: the proposed payload is executed, modified or not.              *)
ProposedEvent(a, e) == Granted(a) /\ approval[a].key = e /\ approval[a].proposed = e

(* _require_executable_payload and _validate_payload: the action, the       *)
(* entity, the status, and a payload that names the approval's own event.   *)
ExecutablePayload(a, e) == Granted(a) /\ approval[a].key = e /\ EffectivePayload(a) = e

(* create_draft validates, verifies the event, and finds no order yet; each *)
(* read is a session of its own over rows that only ever get there.         *)
DraftRead(w, a, e) ==
    /\ call[w] = Idle
    /\ ExecutablePayload(a, e)
    /\ e \in predicted
    /\ workOrder[a] = NoOrder
    /\ call' = [call EXCEPT ![w] = [op |-> "draft", id |-> a, event |-> e]]
    /\ UNCHANGED <<approval, audit, receipt, predicted, workOrder>>

(* Mistake: approval_id is not unique in either table.                      *)
AlwaysFits(a) == TRUE

(* approval_id is unique in mock_cmms_work_orders and approval_executions.  *)
DraftFits(a) == workOrder[a] = NoOrder /\ Unexecuted(a)

(* Mistake: the order and the receipt are committed by separate sessions,   *)
(* and the second one fails.                                                *)
OrderWithoutReceipt(w) ==
    LET c == call[w] IN
    /\ c.op = "draft"
    /\ DraftFits(c.id)
    /\ workOrder' = [workOrder EXCEPT ![c.id] = [status |-> "approved", event |-> c.event]]
    /\ call' = [call EXCEPT ![w] = Idle]
    /\ UNCHANGED <<approval, audit, receipt, predicted>>

(* Work order, receipt and audit event commit together.                     *)
DraftCommit(w) ==
    LET c == call[w] IN
    /\ c.op = "draft"
    /\ DraftFits(c.id)
    /\ workOrder' = [workOrder EXCEPT ![c.id] = [status |-> "approved", event |-> c.event]]
    /\ receipt' = [receipt EXCEPT ![c.id] = [kind |-> "work_order", event |-> c.event]]
    /\ audit' = [audit EXCEPT ![c.id] = Append(@, "execute")]
    /\ call' = [call EXCEPT ![w] = Idle]
    /\ UNCHANGED <<approval, predicted>>

(* IntegrityError: rolled back, and answered with the order that is there.  *)
DraftConflict(w) ==
    /\ call[w].op = "draft"
    /\ ~DraftFits(call[w].id)
    /\ call' = [call EXCEPT ![w] = Idle]
    /\ UNCHANGED <<approval, audit, receipt, predicted, workOrder>>

DraftLost(w) ==
    /\ call[w].op = "draft"
    /\ call' = [call EXCEPT ![w] = Idle]
    /\ UNCHANGED <<approval, audit, receipt, predicted, workOrder>>

-----------------------------------------------------------------------------
CmmsInit ==
    /\ ApprovalInit
    /\ receipt = [a \in ApprovalIds |-> NoReceipt]
    /\ predicted = {}
    /\ workOrder = [a \in ApprovalIds |-> NoOrder]

CmmsStep(w) ==
    \/ \E a \in ApprovalIds, e \in Events : DraftRead(w, a, e)
    \/ DraftCommit(w)
    \/ DraftConflict(w)
    \/ DraftLost(w)

CmmsNext ==
    \/ ApprovalNext /\ UNCHANGED <<receipt, predicted, workOrder>>
    \/ \E e \in Events : RecordPrediction(e)
    \/ \E w \in Workers : CmmsStep(w)

CmmsSpec == CmmsInit /\ [][CmmsNext]_cmmsVars

-----------------------------------------------------------------------------
(* Every variable has its type.                                             *)
CmmsTypeOK ==
    /\ approval \in [ApprovalIds -> {NoRow} \cup Row]
    /\ audit \in [ApprovalIds -> Seq({"propose", "execute"} \cup Verbs)]
    /\ call \in [Workers -> ApprovalCall \cup DraftCall]
    /\ receipt \in [ApprovalIds -> {NoReceipt} \cup WorkOrderReceipt]
    /\ predicted \subseteq Events
    /\ workOrder \in [ApprovalIds -> {NoOrder} \cup Order]

(* create_draft looks for the work order and never for the receipt, so the  *)
(* replay is idempotent only because the two are always there together,     *)
(* about the same event, with the execution in the audit trail.             *)
OrderHasReceipt == \A a \in ApprovalIds :
    IF workOrder[a] = NoOrder
      THEN receipt[a] = NoReceipt /\ \A i \in DOMAIN audit[a] : audit[a][i] # "execute"
      ELSE /\ receipt[a] = [kind |-> "work_order", event |-> workOrder[a].event]
           /\ audit[a] = Append(Story[approval[a].status], "execute")

(* A work order is about a prediction that was made, by a request about     *)
(* that prediction, with the payload the human let through.                 *)
OrderIsWhatWasGranted == \A a \in ApprovalIds : workOrder[a] # NoOrder =>
    /\ workOrder[a].event \in predicted
    /\ approval[a].key = workOrder[a].event
    /\ \/ approval[a].status = "approved" /\ approval[a].proposed = workOrder[a].event
       \/ approval[a].status = "modified" /\ approval[a].decision = workOrder[a].event

Gate == INSTANCE ApprovalGate WITH
    Requests <- ApprovalIds, Subjects <- Keys, Seats <- Events,
    SeatOf <- [e \in Events |-> e], Nobody <- NoEvent,
    gate <- [a \in ApprovalIds |-> GateOf(a)],
    subject <- [a \in ApprovalIds |-> SubjectOf(a, NoEvent)],
    holder <- [e \in Events |->
                  IF \E a \in ApprovalIds : workOrder[a] # NoOrder /\ workOrder[a].event = e
                    THEN e ELSE NoEvent]

(* Drafting implements the gate: an event gets work orders only through     *)
(* granted requests about it, each of which is executed once.               *)
ImplementsGate == Gate!GateSpec
=============================================================================
