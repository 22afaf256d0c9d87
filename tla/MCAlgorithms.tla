---------------------------- MODULE MCAlgorithms ----------------------------
(* Tolerances for TLC, in percent and units: one metric has its own.        *)
EXTENDS Algorithms

MCDefault == [rel |-> 24, abs |-> 0]
MCOverrides == [final_value |-> [rel |-> 0, abs |-> 1]]
=============================================================================
