---------------------------- MODULE MCApprovals ----------------------------
(* Approvals on a small instance.  Two workers race on two keys, and three  *)
(* ids let a key be proposed again after a decision.                        *)
EXTENDS Approvals, TLC

CONSTANTS w1, w2, a1, a2, a3, k1, k2, p1

MCWorkers == {w1, w2}
MCApprovalIds == {a1, a2, a3}
MCKeys == {k1, k2}
MCPayloads == {p1}

Symmetry == Permutations(MCWorkers) \cup Permutations(MCApprovalIds) \cup Permutations(MCKeys)
=============================================================================
