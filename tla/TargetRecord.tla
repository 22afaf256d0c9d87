---------------------------- MODULE TargetRecord ----------------------------
(***************************************************************************)
(* What applying change sets promises of one target directory: its tree is *)
(* replaced as a whole, by the tree of a prepared change, and only while   *)
(* it is the exact preimage the change was prepared against                *)
(* (changes.py 200-305; README.md 313-316).                                *)
(***************************************************************************)
CONSTANTS Changes, Preimages

VARIABLES
  tree,      \* the tree a reader is entitled to find in the target
  prepared   \* the preimage of each prepared change, "none" before

Init == tree \in Preimages /\ prepared = [c \in Changes |-> "none"]

Prepare(c) ==
  /\ prepared[c] = "none"
  /\ prepared' = [prepared EXCEPT ![c] = tree]
  /\ UNCHANGED tree

Replace(c) ==
  /\ tree = prepared[c]
  /\ tree' = c
  /\ UNCHANGED prepared

Next == \E c \in Changes : Prepare(c) \/ Replace(c)

Spec == Init /\ [][Next]_<<tree, prepared>>
=============================================================================
