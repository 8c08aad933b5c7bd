----------------------------- MODULE RunConsumer -----------------------------
(***************************************************************************)
(* The consume loop of a service with an arbitrary handler                 *)
(* (crates/event-bus/src/lib.rs, run_consumer): any verdict on any record, *)
(* undecodable records, lost commits, failed seeks, shutdowns, crashes and *)
(* rebalances.                                                             *)
(*                                                                         *)
(* A record is "poison" or anything else. done is history: the offsets     *)
(* whose verdict was Commit or Skip. failures counts what went wrong.      *)
(***************************************************************************)
EXTENDS ConsumerLoop, TLC

CONSTANT MaxFailures    \* bound: retries, stops, crashes and rebalances

ASSUME FailuresAssumption == MaxFailures \in Nat

VARIABLES running, done, failures

vars == <<pos, committed, running, done, failures>>

Init ==
    /\ LoopInit
    /\ running = TRUE
    /\ done = [p \in Partition |-> {}]
    /\ failures = 0

MayFail ==
    /\ failures < MaxFailures
    /\ failures' = failures + 1

Settle(p) ==
    /\ Commits(p)
    /\ done' = [done EXCEPT ![p] = @ \cup {pos[p] + 1}]

\* A record that cannot be decoded is parked on the dead-letter topic and
\* committed; the handler never sees it.
SkipPoison(p) ==
    /\ running /\ HasRecord(p)
    /\ Received(p) = "poison"
    /\ Settle(p)
    /\ UNCHANGED <<running, failures>>

\* The handler's verdict is Commit, or Skip after parking the record.
HandleOk(p) ==
    /\ running /\ HasRecord(p)
    /\ Received(p) # "poison"
    /\ Settle(p)
    /\ UNCHANGED <<running, failures>>

HandleRetry(p) ==
    /\ running /\ HasRecord(p)
    /\ Received(p) # "poison"
    /\ MayFail
    /\ Retries(p)
    /\ UNCHANGED <<running, done>>

\* Handled::Stop: the loop returns without committing.
HandleStop(p) ==
    /\ running /\ HasRecord(p)
    /\ Received(p) # "poison"
    /\ MayFail
    /\ running' = FALSE
    /\ UNCHANGED <<pos, committed, done>>

\* A shutdown seen between two records, or a crash at any point.
Shutdown ==
    /\ running
    /\ MayFail
    /\ running' = FALSE
    /\ UNCHANGED <<pos, committed, done>>

Start ==
    /\ ~running
    /\ running' = TRUE
    /\ Resume
    /\ UNCHANGED <<done, failures>>

Rebalance(p) ==
    /\ running
    /\ MayFail
    /\ Reassign(p)
    /\ UNCHANGED <<running, done>>

Handling(p) == SkipPoison(p) \/ HandleOk(p) \/ HandleRetry(p) \/ HandleStop(p)

Next ==
    \/ \E p \in Partition : Handling(p) \/ Rebalance(p)
    \/ Shutdown
    \/ Start

\* The loop takes a received record to a verdict, every partition is fetched
\* in turn, and the service is started again after it stopped.
Fairness ==
    /\ \A p \in Partition : WF_vars(Handling(p))
    /\ WF_vars(Start)

Spec == Init /\ [][Next]_vars /\ Fairness

-----------------------------------------------------------------------------
\* Offsets stay within the log, a commit never runs ahead of the position the
\* session started from or reached.
LoopTypeOK ==
    /\ pos \in [Partition -> Nat]
    /\ committed \in [Partition -> Nat]
    /\ running \in BOOLEAN
    /\ done \in [Partition -> SUBSET Nat]
    /\ failures \in 0..MaxFailures
    /\ \A p \in Partition : committed[p] <= pos[p] /\ pos[p] <= Len(Log[p])

\* The broker's offset passes a record only after the handler settled it, so
\* a crash or a rebalance at any point loses no record.
CommittedIsSettled ==
    \A p \in Partition : 1..committed[p] \subseteq done[p]

\* Records of a partition are settled in order for the first time: no record
\* overtakes one that is still being retried.
SettledInOrder ==
    \A p \in Partition : \A i \in done[p] : 1..i \subseteq done[p]

\* Every record of every partition is settled in the end, however the
\* (finitely many) retries, crashes and rebalances fall.
EverythingSettled ==
    \A p \in Partition : <>(done[p] = 1..Len(Log[p]))

\* The loop implements ordered at-least-once delivery.
Delivery == INSTANCE OrderedDelivery WITH acked <- committed
ImplementsDelivery == Delivery!Spec
==============================================================================
