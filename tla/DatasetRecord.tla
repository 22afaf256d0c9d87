---------------------------- MODULE DatasetRecord ----------------------------
(***************************************************************************)
(* What the dataset store promises: a registered dataset stays registered  *)
(* and can be read, and a dataset made of several feeds rests on           *)
(* registered datasets, one per feed.                                      *)
(***************************************************************************)
CONSTANTS Files,   \* datasets that hold one canonical file
          Specs    \* datasets made of several: they have a field parts

VARIABLE registered

Init == registered = {}

RegisterFile(d) ==
  /\ d \in Files
  /\ registered' = registered \cup {d}

RegisterSpec(d) ==
  /\ d \in Specs
  /\ d.parts \subseteq registered
  /\ registered' = registered \cup {d}

Next == \E d \in Files \cup Specs : RegisterFile(d) \/ RegisterSpec(d)

Spec == Init /\ [][Next]_registered
=============================================================================
