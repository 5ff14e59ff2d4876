--------------------------- MODULE MCModelRegistry ---------------------------
(* ModelRegistry on a small instance: three runs that can go under either   *)
(* of two names.  MCModelRegistry.cfg has one worker, so requests follow    *)
(* each other and any of them may be cut off at any step; the cfgs of the   *)
(* violations have two.                                                     *)
EXTENDS ModelRegistry, TLC

CONSTANTS w1, w2, r1, r2, r3, run1, run2, run3, n1, n2

MCRowIds == {r1, r2, r3}
MCRuns == {run1, run2, run3}

Symmetry == Permutations(MCRowIds) \cup Permutations(MCRuns)
=============================================================================
