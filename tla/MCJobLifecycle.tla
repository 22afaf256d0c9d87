--------------------------- MODULE MCJobLifecycle ---------------------------
(***************************************************************************)
(* JobLifecycle for TLC: callers are interchangeable model values.         *)
(***************************************************************************)
EXTENDS JobLifecycle, TLC

CallerSymmetry == Permutations(Callers)
=============================================================================
