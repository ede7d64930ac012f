------------------------- MODULE MCSubprocessDriver -------------------------
(***************************************************************************)
(* Instances of SubprocessDriver for TLC.  Callers are goroutines that may *)
(* call any method, and runners are objects, so either may be swapped.     *)
(***************************************************************************)
EXTENDS SubprocessDriver, TLC

Symmetry == Permutations(Callers) \cup Permutations(Runners)
=============================================================================
