------------------------ MODULE MCTargetTransaction ------------------------
(* Bounds for TLC: at most two of the processes are at work at once, and    *)
(* more than one fault happens only while calls and recoveries are not      *)
(* mixed.                                                                   *)
EXTENDS TargetTransaction, FiniteSets

WithinBound ==
  /\ Cardinality(AtWork) <= 2
  /\ mixed => faults <= 1
=============================================================================
