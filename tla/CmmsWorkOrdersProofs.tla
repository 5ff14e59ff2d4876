------------------------ MODULE CmmsWorkOrdersProofs ------------------------
(* Drafting work orders is right for any number of workers, approvals and   *)
(* events, and implements ApprovalGate.                                     *)
EXTENDS CmmsWorkOrders, ApprovalsProofs

CmmsCall == ApprovalCall \cup DraftCall

(* A request that may be executed for e, with the prediction it is about.   *)
MayOrder(a, e) == ExecutablePayload(a, e) /\ e \in predicted

(* The order, the receipt, the trail and the grant of one approval agree.   *)
OrderAgrees(a) ==
    IF workOrder[a] = NoOrder
      THEN receipt[a] = NoReceipt /\ audit[a] = Story[approval[a].status]
      ELSE /\ receipt[a] = [kind |-> "work_order", event |-> workOrder[a].event]
           /\ audit[a] = Append(Story[approval[a].status], "execute")
           /\ MayOrder(a, workOrder[a].event)

(* What create_draft validated is still so when it commits, because a grant *)
(* is final and predictions are never removed.                              *)
DraftsMayOrder == \A w \in Workers :
    call[w].op = "draft" => MayOrder(call[w].id, call[w].event)

(* Inductive: orders agree with their grants because the drafts that wrote  *)
(* them were validated.                                                     *)
CmmsInv ==
    /\ TableOK
    /\ call \in [Workers -> CmmsCall]
    /\ audit \in [ApprovalIds -> Seq(TrailEvents)]
    /\ receipt \in [ApprovalIds -> {NoReceipt} \cup WorkOrderReceipt]
    /\ predicted \subseteq Events
    /\ workOrder \in [ApprovalIds -> {NoOrder} \cup Order]
    /\ DraftsMayOrder
    /\ \A a \in ApprovalIds : OrderAgrees(a)

HolderBar == [e \in Events |->
                 IF \E a \in ApprovalIds : workOrder[a] # NoOrder /\ workOrder[a].event = e
                   THEN e ELSE NoEvent]

(* MayOrder(a, e) in the next state.                                        *)
MayOrderNext(a, e) ==
    /\ approval'[a].status \in {"approved", "modified"}
    /\ approval'[a].key = e
    /\ e = IF approval'[a].status = "modified" THEN approval'[a].decision
                                                ELSE approval'[a].proposed
    /\ e \in predicted'

-----------------------------------------------------------------------------
(* The fields of a request, by where it stands.                             *)
LEMMA CallShape ==
    ASSUME CmmsInv, NEW w \in Workers
    PROVE  /\ CallTyped(w)
           /\ call[w].op = "draft" => /\ call[w].id \in ApprovalIds
                                      /\ call[w].event \in Events
BY DEF CmmsInv, CmmsCall, CallTyped, ApprovalCall, Idle, ProposeCall, DecideCall, DraftCall

(* Whoever may order something still may after a step that lets the row     *)
(* stand.                                                                   *)
LEMMA MayOrderStands ==
    ASSUME NEW a, NEW e, RowStands(a), predicted \subseteq predicted', MayOrder(a, e)
    PROVE  MayOrderNext(a, e)
BY DEF RowStands, MayOrder, MayOrderNext, ExecutablePayload, Granted, EffectivePayload, Terminal

(* An approval has a receipt exactly when it has an order, and then it is   *)
(* granted.                                                                 *)
LEMMA ReceiptIsGranted ==
    ASSUME CmmsInv
    PROVE  /\ ExecutedWasGranted
           /\ \A a \in ApprovalIds : workOrder[a] = NoOrder <=> Unexecuted(a)
<1> SUFFICES ASSUME NEW a \in ApprovalIds
             PROVE  /\ Unexecuted(a) \/ Granted(a)
                    /\ workOrder[a] = NoOrder <=> Unexecuted(a)
    BY DEF ExecutedWasGranted
<1>1. OrderAgrees(a)
    BY DEF CmmsInv
<1> QED BY <1>1 DEF OrderAgrees, MayOrder, ExecutablePayload, Unexecuted, NoReceipt

(* A step that executes nothing keeps CmmsInv when rows stand, the trails   *)
(* of the unexecuted still tell their rows, and a draft that starts is      *)
(* validated.                                                               *)
LEMMA NothingOrdered ==
    ASSUME CmmsInv, TableOK', audit' \in [ApprovalIds -> Seq(TrailEvents)],
           \A a \in ApprovalIds : RowStands(a),
           \A a \in ApprovalIds : approval[a].status \in Terminal => audit'[a] = audit[a],
           \A a \in ApprovalIds : audit[a] = Story[approval[a].status]
                                      => audit'[a] = Story[approval'[a].status],
           UNCHANGED <<receipt, workOrder>>,
           predicted \subseteq predicted', predicted' \subseteq Events,
           NEW w \in Workers, NEW c \in CmmsCall, call' = [call EXCEPT ![w] = c],
           c.op = "draft" => c.id \in ApprovalIds /\ MayOrder(c.id, c.event)
    PROVE  /\ CmmsInv'
           /\ \A a \in ApprovalIds : ReceiptStands(a)
<1>1. call' \in [Workers -> CmmsCall]
    BY DEF CmmsInv
<1>2. DraftsMayOrder'
  <2> SUFFICES ASSUME NEW v \in Workers, call'[v].op = "draft"
               PROVE  MayOrderNext(call'[v].id, call'[v].event)
      BY DEF DraftsMayOrder, MayOrder, MayOrderNext, ExecutablePayload, Granted, EffectivePayload
  <2>1. CASE v = w
    <3>1. call'[v] = c
        BY <2>1 DEF CmmsInv
    <3> QED BY <3>1, MayOrderStands
  <2>2. CASE v # w
    <3>1. call'[v] = call[v]
        BY <2>2 DEF CmmsInv
    <3>2. call[v].id \in ApprovalIds /\ MayOrder(call[v].id, call[v].event)
        BY <3>1, CallShape DEF CmmsInv, DraftsMayOrder
    <3> QED BY <3>1, <3>2, MayOrderStands
  <2> QED BY <2>1, <2>2
<1>3. ASSUME NEW a \in ApprovalIds PROVE OrderAgrees(a)' /\ ReceiptStands(a)
  <2>1. OrderAgrees(a)
      BY DEF CmmsInv
  <2>2. CASE workOrder[a] = NoOrder
      BY <2>1, <2>2 DEF OrderAgrees, ReceiptStands
  <2>3. CASE workOrder[a] # NoOrder
    <3> DEFINE e == workOrder[a].event
    <3>1. MayOrder(a, e) /\ approval[a].status \in Terminal
        BY <2>1, <2>3 DEF OrderAgrees, MayOrder, ExecutablePayload, Granted, Terminal
    <3>2. approval'[a] = approval[a] /\ audit'[a] = audit[a]
        BY <3>1 DEF RowStands
    <3>3. MayOrderNext(a, e)
        BY <3>1, MayOrderStands
    <3>4. MayOrder(a, e)'
        BY <3>3 DEF MayOrder, MayOrderNext, ExecutablePayload, Granted, EffectivePayload
    <3> QED BY <2>1, <2>3, <3>2, <3>4 DEF OrderAgrees, ReceiptStands
  <2> QED BY <2>2, <2>3
<1> QED BY <1>1, <1>2, <1>3 DEF CmmsInv

(* A step of the approval service, with the work orders left alone.         *)
LEMMA ApprovalStepOrders ==
    ASSUME CmmsInv, NEW w \in Workers, ApprovalStep(w), UNCHANGED <<receipt, predicted, workOrder>>
    PROVE  CmmsInv' /\ \A a \in ApprovalIds : ReceiptStands(a)
<1>1. TableOK /\ CallTyped(w) /\ DOMAIN audit = ApprovalIds
    BY CallShape DEF CmmsInv
<1>2. TableOK' /\ \A a \in ApprovalIds : RowStands(a)
    BY <1>1, StepKeepsTable
<1>3. PICK c \in ApprovalCall : call' = [call EXCEPT ![w] = c]
    BY <1>1, StepKeepsTable
<1>4. c \in CmmsCall /\ c.op # "draft"
    BY DEF CmmsCall, ApprovalCall, Idle, ProposeCall, DecideCall
<1>5. {"propose"} \cup Verbs \subseteq TrailEvents
    BY DEF TrailEvents
<1>6. /\ audit' \in [ApprovalIds -> Seq(TrailEvents)]
      /\ \A a \in ApprovalIds : approval[a].status \in Terminal => audit'[a] = audit[a]
    BY <1>1, <1>5, StepKeepsTrail DEF CmmsInv
<1>7. \A a \in ApprovalIds : audit[a] = Story[approval[a].status]
                                  => audit'[a] = Story[approval'[a].status]
    BY <1>1, StepTellsStory
<1> QED BY <1>2, <1>3, <1>4, <1>6, <1>7, NothingOrdered DEF CmmsInv

(* Committing a draft: order, receipt and event of a validated approval     *)
(* that had none.                                                           *)
LEMMA DraftCommitOrders ==
    ASSUME CmmsInv, NEW w \in Workers, DraftCommit(w)
    PROVE  CmmsInv' /\ \A a \in ApprovalIds : ReceiptStands(a)
<1> DEFINE i == call[w].id
           e == call[w].event
           o == [status |-> "approved", event |-> e]
           r == [kind |-> "work_order", event |-> e]
<1>1. i \in ApprovalIds /\ e \in Events /\ MayOrder(i, e)
    BY CallShape DEF DraftCommit, CmmsInv, DraftsMayOrder
<1>2. workOrder[i] = NoOrder /\ receipt[i] = NoReceipt
    BY DEF DraftCommit, DraftFits, Unexecuted
<1>3. /\ workOrder' = [workOrder EXCEPT ![i] = o] /\ receipt' = [receipt EXCEPT ![i] = r]
      /\ audit' = [audit EXCEPT ![i] = Append(audit[i], "execute")]
      /\ call' = [call EXCEPT ![w] = Idle] /\ UNCHANGED <<approval, predicted>>
    BY DEF DraftCommit
<1>4. o \in Order /\ o # NoOrder /\ o.event = e /\ r \in WorkOrderReceipt
    BY <1>1 DEF Order, NoOrder, WorkOrderReceipt
<1> HIDE DEF i, e, o, r
<1>5. Append(audit[i], "execute") \in Seq(TrailEvents)
    BY <1>1 DEF CmmsInv, TrailEvents
<1>6. /\ workOrder' \in [ApprovalIds -> {NoOrder} \cup Order]
      /\ receipt' \in [ApprovalIds -> {NoReceipt} \cup WorkOrderReceipt]
      /\ audit' \in [ApprovalIds -> Seq(TrailEvents)]
    BY <1>1, <1>3, <1>4, <1>5 DEF CmmsInv
<1>7. TableOK' /\ predicted' \subseteq Events
    BY <1>3 DEF CmmsInv, TableOK, OnePendingPerKey
<1>8. call' \in [Workers -> CmmsCall]
    BY <1>3 DEF CmmsInv, CmmsCall, ApprovalCall
<1>9. DraftsMayOrder'
  <2>1. \A v \in Workers : call'[v] = IF v = w THEN Idle ELSE call[v]
      BY <1>3 DEF CmmsInv
  <2> QED BY <1>3, <2>1 DEF CmmsInv, DraftsMayOrder, MayOrder, ExecutablePayload, Granted,
          EffectivePayload, Idle
<1>10. ASSUME NEW a \in ApprovalIds PROVE OrderAgrees(a)' /\ ReceiptStands(a)
  <2>1. OrderAgrees(a)
      BY DEF CmmsInv
  <2>2. \A x : MayOrder(a, x) => MayOrderNext(a, x)
      BY <1>3 DEF MayOrder, MayOrderNext, ExecutablePayload, Granted, EffectivePayload
  <2>3. MayOrderNext(a, workOrder'[a].event) => MayOrder(a, workOrder[a].event)'
      BY DEF MayOrder, MayOrderNext, ExecutablePayload, Granted, EffectivePayload
  <2>4. CASE a = i
    <3>1. workOrder'[a] = o /\ receipt'[a] = r /\ audit'[a] = Append(audit[a], "execute")
        BY <1>1, <1>3, <2>4 DEF CmmsInv
    <3>2. audit[a] = Story[approval[a].status]
        BY <1>2, <2>1, <2>4 DEF OrderAgrees
    <3>3. r = [kind |-> "work_order", event |-> o.event]
        BY <1>4 DEF r
    <3>4. MayOrder(a, workOrder[a].event)'
        BY <1>1, <1>4, <2>2, <2>3, <2>4, <3>1
    <3>5. OrderAgrees(a)'
        BY <1>3, <1>4, <3>1, <3>2, <3>3, <3>4 DEF OrderAgrees
    <3> QED BY <1>2, <2>4, <3>5 DEF ReceiptStands
  <2>5. CASE a # i
    <3>1. workOrder'[a] = workOrder[a] /\ receipt'[a] = receipt[a] /\ audit'[a] = audit[a]
        BY <1>3, <2>5 DEF CmmsInv
    <3>2. MayOrder(a, workOrder[a].event) => MayOrder(a, workOrder[a].event)'
        BY <2>2, <2>3, <3>1
    <3> QED BY <1>3, <2>1, <3>1, <3>2 DEF OrderAgrees, ReceiptStands
  <2> QED BY <2>4, <2>5
<1> QED BY <1>6, <1>7, <1>8, <1>9, <1>10 DEF CmmsInv

(* The other steps of the mock CMMS write no table but predicted.           *)
LEMMA CmmsStepOrders ==
    ASSUME CmmsInv, NEW w \in Workers, CmmsStep(w)
    PROVE  CmmsInv' /\ \A a \in ApprovalIds : ReceiptStands(a)
<1>1. ASSUME NEW c \in CmmsCall, call' = [call EXCEPT ![w] = c],
             c.op = "draft" => c.id \in ApprovalIds /\ MayOrder(c.id, c.event),
             UNCHANGED <<approval, audit, receipt, predicted, workOrder>>
      PROVE  CmmsInv' /\ \A a \in ApprovalIds : ReceiptStands(a)
  <2>1. TableOK' /\ audit' \in [ApprovalIds -> Seq(TrailEvents)]
        /\ predicted \subseteq predicted' /\ predicted' \subseteq Events
      BY <1>1 DEF CmmsInv, TableOK, OnePendingPerKey
  <2>2. \A a \in ApprovalIds : RowStands(a)
      BY <1>1 DEF RowStands
  <2> QED BY <1>1, <2>1, <2>2, NothingOrdered
<1>2. ASSUME NEW a \in ApprovalIds, NEW e \in Events, DraftRead(w, a, e)
      PROVE  CmmsInv' /\ \A b \in ApprovalIds : ReceiptStands(b)
  <2> DEFINE c == [op |-> "draft", id |-> a, event |-> e]
  <2>1. c \in CmmsCall /\ c.id = a /\ c.event = e
      BY DEF CmmsCall, DraftCall
  <2>2. call' = [call EXCEPT ![w] = c] /\ UNCHANGED <<approval, audit, receipt, predicted, workOrder>>
        /\ MayOrder(a, e)
      BY <1>2 DEF DraftRead, MayOrder
  <2> HIDE DEF c
  <2> QED BY <2>1, <2>2, <1>1
<1>3. CASE DraftConflict(w) \/ DraftLost(w)
  <2>1. Idle \in CmmsCall /\ Idle.op # "draft"
      BY DEF CmmsCall, ApprovalCall, Idle
  <2> QED BY <1>1, <1>3, <2>1 DEF DraftConflict, DraftLost
<1> QED BY <1>2, <1>3, DraftCommitOrders DEF CmmsStep

-----------------------------------------------------------------------------
(* Initially there is nothing to agree on.                                  *)
LEMMA CmmsInitOK == CmmsInit => CmmsInv
<1> SUFFICES ASSUME CmmsInit PROVE CmmsInv
    OBVIOUS
<1>1. TableOK
    BY DEF CmmsInit, ApprovalInit, TableOK, NoRow, OnePendingPerKey
<1>2. call \in [Workers -> CmmsCall] /\ DraftsMayOrder
    BY DEF CmmsInit, ApprovalInit, CmmsCall, ApprovalCall, Idle, DraftsMayOrder
<1>3. \A a \in ApprovalIds : OrderAgrees(a)
    BY DEF CmmsInit, ApprovalInit, OrderAgrees, Story, NoRow
<1> QED BY <1>1, <1>2, <1>3 DEF CmmsInit, ApprovalInit, CmmsInv

(* The inductive step: the invariant, and what a step does to a receipt.    *)
LEMMA CmmsNextOK ==
    ASSUME CmmsInv, [CmmsNext]_cmmsVars
    PROVE  CmmsInv' /\ [\A a \in ApprovalIds : ReceiptStands(a)]_<<approval, audit, call, receipt>>
<1>1. CASE UNCHANGED cmmsVars
  <2>1. UNCHANGED <<approval, audit, call, receipt, predicted, workOrder>>
      BY <1>1 DEF cmmsVars
  <2>2. \A a \in ApprovalIds : OrderAgrees(a)'
      BY <2>1 DEF CmmsInv, OrderAgrees, MayOrder, ExecutablePayload, Granted, EffectivePayload
  <2> QED BY <2>1, <2>2 DEF CmmsInv, TableOK, OnePendingPerKey, DraftsMayOrder, MayOrder,
             ExecutablePayload, Granted, EffectivePayload
<1>2. ASSUME NEW w \in Workers, ApprovalStep(w), UNCHANGED <<receipt, predicted, workOrder>>
      PROVE  CmmsInv' /\ \A a \in ApprovalIds : ReceiptStands(a)
    BY <1>2, ApprovalStepOrders
<1>3. ASSUME NEW e \in Events, RecordPrediction(e)
      PROVE  CmmsInv' /\ UNCHANGED <<approval, audit, call, receipt>>
  <2>1. /\ UNCHANGED <<approval, audit, call, receipt, workOrder>>
        /\ predicted' = predicted \cup {e}
      BY <1>3 DEF RecordPrediction
  <2>2. ASSUME NEW a, NEW x, MayOrder(a, x) PROVE MayOrder(a, x)'
      BY <2>1, <2>2 DEF MayOrder, ExecutablePayload, Granted, EffectivePayload
  <2>3. DraftsMayOrder'
      BY <2>1, <2>2 DEF CmmsInv, DraftsMayOrder
  <2>4. \A a \in ApprovalIds : OrderAgrees(a)'
      BY <2>1, <2>2 DEF CmmsInv, OrderAgrees
  <2> QED BY <2>1, <2>3, <2>4 DEF CmmsInv, TableOK, OnePendingPerKey
<1>4. ASSUME NEW w \in Workers, CmmsStep(w)
      PROVE  CmmsInv' /\ \A a \in ApprovalIds : ReceiptStands(a)
    BY <1>4, CmmsStepOrders
<1> QED BY <1>1, <1>2, <1>3, <1>4 DEF CmmsNext, ApprovalNext

(* The invariant holds in every reachable state.                            *)
THEOREM CmmsInvHolds == CmmsSpec => []CmmsInv
BY CmmsInitOK, CmmsNextOK, PTL DEF CmmsSpec

(* Type correctness of the mock CMMS.                                       *)
THEOREM CmmsTypesHold == CmmsSpec => []CmmsTypeOK
<1>1. CmmsInv => CmmsTypeOK
    BY DEF CmmsInv, TableOK, CmmsTypeOK, CmmsCall, TrailEvents
<1> QED BY <1>1, CmmsInvHolds, PTL

(* Work order, receipt and execution event are there together or not at     *)
(* all, so looking for the order alone makes the replay idempotent.         *)
THEOREM OrderHasReceiptHolds == CmmsSpec => []OrderHasReceipt
<1>1. ASSUME CmmsInv PROVE OrderHasReceipt
  <2> SUFFICES ASSUME NEW a \in ApprovalIds, workOrder[a] = NoOrder
               PROVE  \A i \in DOMAIN audit[a] : audit[a][i] # "execute"
      BY <1>1 DEF CmmsInv, OrderAgrees, OrderHasReceipt
  <2>1. audit[a] = Story[approval[a].status]
      BY <1>1 DEF CmmsInv, OrderAgrees
  <2>2. audit[a] \in Seq({"propose"} \cup Verbs)
      BY <1>1, <2>1, RowStatus, StoriesAreSequences DEF CmmsInv, Terminal
  <2>3. "execute" \notin {"propose"} \cup Verbs
      BY DEF Verbs
  <2> QED BY <2>2, <2>3
<1> QED BY <1>1, CmmsInvHolds, PTL

(* Every work order is what a human granted, about a prediction that was    *)
(* made.                                                                    *)
THEOREM OrderGrantedHolds == CmmsSpec => []OrderIsWhatWasGranted
<1>1. CmmsInv => OrderIsWhatWasGranted
    BY DEF CmmsInv, OrderAgrees, MayOrder, ExecutablePayload, Granted, EffectivePayload,
       OrderIsWhatWasGranted
<1> QED BY <1>1, CmmsInvHolds, PTL

(* An approval is drafted at most once: its receipt is final and closes its *)
(* audit trail.                                                             *)
THEOREM DraftReceiptsHold == CmmsSpec => ReceiptsStand
<1>1. CmmsInv /\ [CmmsNext]_cmmsVars
          => [\A a \in ApprovalIds : ReceiptStands(a)]_<<approval, audit, call, receipt>>
    BY CmmsNextOK
<1> QED BY <1>1, CmmsInvHolds, PTL DEF CmmsSpec, ReceiptsStand, ReceiptStands

-----------------------------------------------------------------------------
(* The mapped seats: only a committed draft changes who holds one.          *)
LEMMA GateIsMapped ==
    /\ Gate!gateVars = <<GateBar, SubjectBar(NoEvent), HolderBar>>
    /\ (Gate!gateVars)' = <<GateBar', SubjectBar(NoEvent)', HolderBar'>>
BY DEF Gate!gateVars, GateBar, SubjectBar, HolderBar

(* Nothing is asked, granted or held at first.                              *)
LEMMA CmmsInitAtGate == CmmsInit => Gate!GateInit
<1> SUFFICES ASSUME CmmsInit PROVE Gate!GateInit
    OBVIOUS
<1>1. \A a \in ApprovalIds : ~Exists(a) /\ workOrder[a] = NoOrder
    BY DEF CmmsInit, ApprovalInit, Exists, NoRow
<1>2. \A a \in ApprovalIds : GateOf(a) = "closed" /\ SubjectOf(a, NoEvent) = NoEvent
    BY <1>1 DEF GateOf, SubjectOf, Exists, Granted
<1> QED BY <1>1, <1>2 DEF Gate!GateInit

(* A question to the mapped gate is a step of the gate.                     *)
LEMMA AskIsGateStep ==
    ASSUME NEW a \in ApprovalIds, NEW k \in Keys, Asks(a, k, NoEvent), UNCHANGED HolderBar
    PROVE  Gate!GateNext
<1>1. Gate!Ask(a, k)
    BY DEF Asks, GateBar, SubjectBar, HolderBar, Gate!Ask
<1> QED BY <1>1 DEF Gate!GateNext

(* So is a verdict.                                                         *)
LEMMA SettleIsGateStep ==
    ASSUME NEW a \in ApprovalIds, NEW verdict \in {"granted", "refused"},
           Settles(a, verdict, NoEvent), UNCHANGED HolderBar
    PROVE  Gate!GateNext
<1>1. Gate!Settle(a, verdict)
    BY DEF Settles, GateBar, SubjectBar, HolderBar, Gate!Settle
<1> QED BY <1>1 DEF Gate!GateNext

(* A committed draft executes its request: the event it is about takes its  *)
(* own seat.                                                                *)
LEMMA DraftIsGateStep ==
    ASSUME CmmsInv, NEW w \in Workers, DraftCommit(w)
    PROVE  Gate!GateNext
<1>1. PICK i \in ApprovalIds, e \in Events :
          i = call[w].id /\ e = call[w].event /\ MayOrder(i, e)
    BY CallShape DEF DraftCommit, CmmsInv, DraftsMayOrder
<1>2. Granted(i) /\ approval[i].key = e /\ Unexecuted(i) /\ workOrder[i] = NoOrder
    BY <1>1 DEF MayOrder, ExecutablePayload, DraftCommit, DraftFits
<1>3. /\ workOrder' = [workOrder EXCEPT ![i] = [status |-> "approved", event |-> e]]
      /\ receipt' = [receipt EXCEPT ![i] = [kind |-> "work_order", event |-> e]]
      /\ UNCHANGED approval
    BY <1>1 DEF DraftCommit
<1>4. TableOK /\ Exists(i)
    BY <1>1, <1>2 DEF CmmsInv, Granted, Exists
<1>5. GateBar[i] = "granted" /\ SubjectBar(NoEvent)[i] = e
    BY <1>1, <1>2, <1>4, GateShape DEF SubjectBar, SubjectOf
<1>6. UNCHANGED SubjectBar(NoEvent)
    BY <1>3 DEF SubjectBar, SubjectOf, Exists
<1>7. GateBar' = [GateBar EXCEPT ![i] = "executed"]
  <2>1. ASSUME NEW a \in ApprovalIds PROVE Exists(a)' <=> Exists(a)
      BY <1>3 DEF Exists
  <2>2. ASSUME NEW a \in ApprovalIds PROVE Granted(a)' <=> Granted(a)
      BY <1>3 DEF Granted
  <2>3. ASSUME NEW a \in ApprovalIds \ {i} PROVE Unexecuted(a)' <=> Unexecuted(a)
      BY <1>3 DEF CmmsInv, Unexecuted
  <2>4. ~Unexecuted(i)'
      BY <1>1, <1>3 DEF CmmsInv, Unexecuted, NoReceipt
  <2>5. ASSUME NEW a \in ApprovalIds \ {i} PROVE GateBar'[a] = GateBar[a]
    <3>1. GateOf(a)' = GateOf(a)
        BY <2>1, <2>2, <2>3, <1>3 DEF GateOf
    <3> QED BY <3>1 DEF GateBar
  <2>6. Granted(i)' /\ Exists(i)' /\ approval'[i].status \in {"approved", "modified"}
      BY <1>2, <1>3, <1>4, <2>1, <2>2 DEF Granted
  <2>7. GateBar'[i] = "executed"
      BY <1>1, <2>4, <2>6 DEF GateBar, GateOf
  <2> QED BY <2>5, <2>7, <1>1 DEF GateBar
<1>8. HolderBar' = [HolderBar EXCEPT ![e] = e]
  <2>1. workOrder'[i].event = e /\ workOrder'[i] # NoOrder
      BY <1>1, <1>3 DEF CmmsInv, NoOrder
  <2>2. \A a \in ApprovalIds \ {i} : workOrder'[a] = workOrder[a]
      BY <1>3 DEF CmmsInv
  <2>3. HolderBar'[e] = e
      BY <1>1, <2>1 DEF HolderBar
  <2>4. ASSUME NEW x \in Events \ {e} PROVE HolderBar'[x] = HolderBar[x]
      BY <1>2, <2>1, <2>2 DEF HolderBar
  <2> QED BY <1>1, <2>3, <2>4 DEF HolderBar
<1>9. Gate!Execute(i)
    BY <1>1, <1>5, <1>6, <1>7, <1>8 DEF Gate!Execute, GateBar, SubjectBar, HolderBar
<1> QED BY <1>1, <1>9 DEF Gate!GateNext

(* Every step of the mock CMMS is a step of the gate or a stutter.          *)
LEMMA CmmsStepAtGate ==
    ASSUME CmmsInv, [CmmsNext]_cmmsVars
    PROVE  [Gate!GateNext]_(Gate!gateVars)
<1>1. ASSUME UNCHANGED <<approval, receipt, workOrder>> PROVE UNCHANGED Gate!gateVars
    BY <1>1, GateIsMapped DEF GateBar, GateOf, SubjectBar, SubjectOf, HolderBar, Exists, Granted,
       Unexecuted
<1>2. ASSUME NEW w \in Workers, ApprovalStep(w), UNCHANGED <<receipt, predicted, workOrder>>
      PROVE  [Gate!GateNext]_(Gate!gateVars)
  <2>1. TableOK /\ ExecutedWasGranted /\ CallTyped(w) /\ UNCHANGED HolderBar
      BY <1>2, CallShape, ReceiptIsGranted DEF CmmsInv, HolderBar
  <2>2. \/ UNCHANGED GateBar /\ UNCHANGED SubjectBar(NoEvent)
        \/ \E a \in ApprovalIds, k \in Keys : Asks(a, k, NoEvent)
        \/ \E a \in ApprovalIds, verdict \in {"granted", "refused"} :
              Settles(a, verdict, NoEvent)
      BY <1>2, <2>1, StepAtGate
  <2> QED BY <2>1, <2>2, AskIsGateStep, SettleIsGateStep, GateIsMapped
<1>3. ASSUME NEW w \in Workers, CmmsStep(w)
      PROVE  [Gate!GateNext]_(Gate!gateVars)
    BY <1>1, <1>3, DraftIsGateStep DEF CmmsStep, DraftRead, DraftConflict, DraftLost
<1> QED BY <1>1, <1>2, <1>3 DEF CmmsNext, ApprovalNext, RecordPrediction, cmmsVars

(* Drafting implements the gate: for every event, work orders come from     *)
(* granted requests about it, each executed once.                           *)
THEOREM CmmsImplementsGate == CmmsSpec => ImplementsGate
<1>1. CmmsInv /\ [CmmsNext]_cmmsVars => [Gate!GateNext]_(Gate!gateVars)
    BY CmmsStepAtGate
<1> QED BY <1>1, CmmsInitAtGate, CmmsInvHolds, PTL DEF CmmsSpec, ImplementsGate, Gate!GateSpec
=============================================================================
