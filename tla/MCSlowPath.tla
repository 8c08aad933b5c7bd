----------------------------- MODULE MCSlowPath -----------------------------
(***************************************************************************)
(* Five alerts of two sibling blocks.  The first two are confirmed and     *)
(* retracted with their block; the third one can be confirmed but not      *)
(* retracted, the fourth one never be simulated, the last never be queued. *)
(***************************************************************************)
EXTENDS SlowPath

MCBlock == {"a1", "b1"}
MCNumber == [b \in MCBlock |-> 1]
MCBlockOf == << "a1", "a1", "b1", "b1", "b1" >>
MCFault == << "none", "none", "retract", "simulate", "queue" >>
=============================================================================
