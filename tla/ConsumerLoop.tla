----------------------------- MODULE ConsumerLoop -----------------------------
(***************************************************************************)
(* The offset mechanics every stream consumer shares                       *)
(* (crates/event-bus/src/lib.rs, run_consumer).                            *)
(*                                                                         *)
(* Log[p] is the content of one partition, pos[p] the fetch position (the  *)
(* records before it have been received in this session) and committed[p]  *)
(* the offset the broker hands out again after a restart or a rebalance.   *)
(* The broker and librdkafka are modelled from the way the loop uses them. *)
(***************************************************************************)
EXTENDS Integers, Sequences, FiniteSets

CONSTANTS
    Partition, Record,
    Log,            \* partition -> sequence of records
    SeekMayFail     \* whether a seek back can fail (RETRY_SEEK_TIMEOUT)

ASSUME LogAssumption ==
    /\ Log \in [Partition -> Seq(Record)]
    /\ SeekMayFail \in BOOLEAN

VARIABLES pos, committed

loopVars == <<pos, committed>>

LoopInit ==
    /\ pos = [p \in Partition |-> 0]
    /\ committed = [p \in Partition |-> 0]

HasRecord(p) == pos[p] < Len(Log[p])
Received(p) == Log[p][pos[p] + 1]

\* Mutant of Commits: commits the record after the one that was handled.
CommitsAhead(p) ==
    /\ pos' = [pos EXCEPT ![p] = @ + 1]
    /\ \/ pos[p] + 2 <= Len(Log[p]) /\ committed' = [committed EXCEPT ![p] = pos[p] + 2]
       \/ UNCHANGED committed

\* Handled::Commit, Handled::Skip and poison: the loop moves on. The commit is
\* asynchronous and may be lost; a later one of the partition makes up for it.
Commits(p) ==
    /\ pos' = [pos EXCEPT ![p] = @ + 1]
    /\ \/ committed' = [committed EXCEPT ![p] = pos[p] + 1]
       \/ UNCHANGED committed

\* Mutant of Retries: leaves the offset but does not seek back.
RetriesWithoutSeek(p) ==
    /\ pos' = [pos EXCEPT ![p] = @ + 1]
    /\ UNCHANGED committed

\* Handled::Retry: seek back to the record; when the seek fails the fetch
\* position stays past it.
Retries(p) ==
    /\ \/ UNCHANGED pos
       \/ SeekMayFail /\ pos' = [pos EXCEPT ![p] = @ + 1]
    /\ UNCHANGED committed

\* The broker assigns the partition again: consumption resumes at its offset.
Reassign(p) ==
    /\ pos' = [pos EXCEPT ![p] = committed[p]]
    /\ UNCHANGED committed

\* A new session of the process resumes every partition at its offset.
Resume ==
    /\ pos' = committed
    /\ UNCHANGED committed
===============================================================================
