-------------------------- MODULE MCCmmsWorkOrders --------------------------
(* CmmsWorkOrders on a small instance: two events, two approvals so that a  *)
(* payload can name the other request's event, two API workers.             *)
EXTENDS CmmsWorkOrders, TLC

CONSTANTS w1, w2, a1, a2, e1, e2

MCWorkers == {w1, w2}
MCApprovalIds == {a1, a2}
MCEvents == {e1, e2}

Symmetry == Permutations(MCWorkers) \cup Permutations(MCApprovalIds) \cup Permutations(MCEvents)
=============================================================================
