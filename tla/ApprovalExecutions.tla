------------------------- MODULE ApprovalExecutions -------------------------
(* The approval_executions table, which the model lifecycle service and the *)
(* mock CMMS share: one receipt per executed approval, under a unique       *)
(* approval_id.  Executing is a later, separate request of a human; nothing *)
(* in approvals/service.py does it.                                         *)
EXTENDS Approvals

VARIABLE receipt    \* the receipt of each approval

NoReceipt == [kind |-> "none"]

Granted(a) == approval[a].status \in {"approved", "modified"}

(* _effective_payload: what a human modified replaces what was proposed.    *)
EffectivePayload(a) ==
    IF approval[a].status = "modified" THEN approval[a].decision ELSE approval[a].proposed

(* get_by_approval: whoever finds a receipt answers with it and executes    *)
(* nothing.  The unique constraint repeats the test when the receipt is     *)
(* inserted.                                                                *)
Unexecuted(a) == receipt[a] = NoReceipt

(* Where the approval stands for a reader of ApprovalGate.                  *)
GateOf(a) ==
    CASE ~Exists(a)                       -> "closed"
      [] approval[a].status = "pending"   -> "asked"
      [] approval[a].status = "rejected"  -> "refused"
      [] Granted(a) /\ Unexecuted(a)      -> "granted"
      [] Granted(a) /\ ~Unexecuted(a)     -> "executed"

SubjectOf(a, nobody) == IF Exists(a) THEN approval[a].key ELSE nobody

(* A receipt, once written, is neither changed nor removed, and the         *)
(* execution event is the last of the approval's audit trail: executing     *)
(* again, by whichever request, leaves no trace.                            *)
ReceiptsStand ==
    [][\A a \in ApprovalIds :
          receipt[a] # NoReceipt =>
              /\ receipt'[a] = receipt[a]
              /\ audit'[a] = audit[a]]_<<approval, audit, call, receipt>>
=============================================================================
