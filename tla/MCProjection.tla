----------------------------- MODULE MCProjection -----------------------------
(* One alert that was simulated twice (the worker crashed between publishing *)
(* and acking, so the second run minted a second incident id), finalized and *)
(* then retracted. One partition per topic.                                  *)
EXTENDS ProjectionConsumer, TLC

Requested(at) == [type |-> "requested", alert |-> "a", at |-> at]
Completed(profit, at) ==
    [type |-> "completed", alert |-> "a", confirmed |-> TRUE, profit |-> profit, at |-> at]
Created(incident, profit, at) ==
    [type |-> "created", alert |-> "a", incident |-> incident, profit |-> profit, at |-> at]
Retraction(incident, detail, at) ==
    [type |-> "retract", incident |-> incident, detail |-> detail, at |-> at]
Finalization(incident, detail, at) ==
    [type |-> "finalize", incident |-> incident, detail |-> detail, at |-> at]

MCLog ==
    ("SimulationRequested" :> <<Requested(1)>>) @@
    ("SimulationCompleted" :> <<Completed(5, 2), Completed(7, 4)>>) @@
    ("IncidentCreated" :> <<Created("i1", 5, 3), Created("i2", 7, 5)>>) @@
    ("IncidentFinalized" :> <<Finalization("i2", "b1", 6)>>) @@
    ("IncidentRetracted" :> <<Retraction("i1", "r1", 8)>>)

MCPartition == DOMAIN MCLog
MCRecord == UNION {{MCLog[p][i] : i \in DOMAIN MCLog[p]} : p \in MCPartition}
===============================================================================
