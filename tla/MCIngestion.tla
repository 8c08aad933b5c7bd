---------------------------- MODULE MCIngestion ----------------------------
(***************************************************************************)
(* Two branches from the root g: a1, a2, a3, on which the network settles, *)
(* and b1, b2, which it may follow for a while.                            *)
(***************************************************************************)
EXTENDS Ingestion

MCBlock == {"g", "a1", "a2", "a3", "b1", "b2"}

MCParent ==
    [b \in MCBlock |->
        CASE b = "g" -> "none"
          [] b \in {"a1", "b1"} -> "g"
          [] b = "a2" -> "a1" [] b = "a3" -> "a2" [] b = "b2" -> "b1"]

MCNumber ==
    [b \in MCBlock |->
        CASE b = "g" -> 0
          [] b \in {"a1", "b1"} -> 1
          [] b \in {"a2", "b2"} -> 2
          [] b = "a3" -> 3]

\* A single fork: b1 beside a1, and a2 on top, for the runs with two endpoints
\* and a restart and for the liveness runs.
MCFork == {"g", "a1", "a2", "b1"}
MCForkParent == [b \in MCFork |-> MCParent[b]]
MCForkNumber == [b \in MCFork |-> MCNumber[b]]
============================================================================
