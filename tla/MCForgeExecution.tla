-------------------------- MODULE MCForgeExecution --------------------------
(* Names for the checked instance of ForgeExecution.  Publishers, callers   *)
(* and keys are interchangeable; runs are not, since only some are executed. *)
EXTENDS ForgeExecution, TLC

CONSTANTS r1, r2, c1, c2, p1, p2, k1, k2

Symmetry ==
  Permutations({c1, c2}) \cup Permutations({p1, p2}) \cup Permutations({k1, k2})
=============================================================================
