----------------------------- MODULE MCDetection -----------------------------
(***************************************************************************)
(* Two blocks and a fork at the third height: a2 and c2 on top of a1.      *)
(***************************************************************************)
EXTENDS Detection

MCBlock == {"g", "a1", "a2", "c2"}
MCParent ==
    [b \in MCBlock |->
        CASE b = "g" -> "none" [] b = "a1" -> "g"
          [] b \in {"a2", "c2"} -> "a1"]
MCNumber ==
    [b \in MCBlock |->
        CASE b = "g" -> 1 [] b = "a1" -> 2 [] OTHER -> 3]
==============================================================================
