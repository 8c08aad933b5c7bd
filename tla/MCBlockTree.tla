---------------------------- MODULE MCBlockTree ----------------------------
(***************************************************************************)
(* Two branches that part at the root block g: a1..a3 and b1..b4, with a   *)
(* second child c2 of a1.  Every fork, tie and overtaking of the tree code *)
(* happens among them.                                                     *)
(***************************************************************************)
EXTENDS BlockTreeCalls

MCBlock == {"g", "a1", "a2", "a3", "c2", "b1", "b2", "b3", "b4"}

MCParent ==
    [b \in MCBlock |->
        CASE b = "g"  -> "none"
          [] b = "a1" -> "g"  [] b = "a2" -> "a1" [] b = "a3" -> "a2"
          [] b = "c2" -> "a1"
          [] b = "b1" -> "g"  [] b = "b2" -> "b1" [] b = "b3" -> "b2"
          [] b = "b4" -> "b3"]

MCNumber ==
    [b \in MCBlock |->
        CASE b = "g" -> 0
          [] b \in {"a1", "b1"} -> 1
          [] b \in {"a2", "b2", "c2"} -> 2
          [] b \in {"a3", "b3"} -> 3
          [] b = "b4" -> 4]
============================================================================
