-------------------------- MODULE MCModelLifecycle --------------------------
(* ModelLifecycle on a small instance: two versions of one name, three      *)
(* approvals so that a version can be granted twice, two API workers.       *)
EXTENDS ModelLifecycle, TLC

CONSTANTS w1, w2, a1, a2, a3, m1, m2, n1

MCWorkers == {w1, w2}
MCApprovalIds == {a1, a2, a3}
MCModels == {m1, m2}
MCNames == {n1}
MCNameOf == [m \in MCModels |-> n1]

(* The bound of the search.  Races between proposals and decisions are the  *)
(* subject of MCApprovals: here at most one worker is inside the approval   *)
(* service, a request proposes its own model or nothing, and only a         *)
(* modification carries a payload.                                          *)
InApprovals(w) == call[w].op \in {"propose", "decide", "decided"}

Bound ==
    /\ \A v, w \in Workers : InApprovals(v) /\ InApprovals(w) => v = w
    /\ \A w \in Workers :
          /\ call[w].op = "propose" => call[w].payload \in {call[w].key, NoPayload}
          /\ call[w].op = "decide" /\ call[w].payload # NoPayload => call[w].verb = "modify"

Symmetry == Permutations(MCWorkers) \cup Permutations(MCApprovalIds) \cup Permutations(MCModels)
=============================================================================
