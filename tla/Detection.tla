------------------------------ MODULE Detection ------------------------------
(***************************************************************************)
(* The detection service of one chain (crates/detection/src/scheduler.rs): *)
(* three tasks and two bounded channels.                                   *)
(*                                                                         *)
(*   run_consumer --work--> Scheduler::run --done--> run_committer         *)
(*                                                                         *)
(* The consumer reads two topics, BlockAssembled and BlockReverted.  The   *)
(* scheduler runs the roster over an assembled block, which also advances  *)
(* the cross-block state, publishes what it found event by event, and only *)
(* then hands the record's offset to the committer; a reverted block       *)
(* rewinds the cross-block state.                                          *)
(*                                                                         *)
(* The topics are filled by ingestion: its block tree adds blocks in any   *)
(* order that has parents first and publishes the chain events one by one. *)
(* bus holds the records of the two topics in publication order; a topic   *)
(* is the subsequence of one event type, and an offset of it is an index   *)
(* of bus.  Kafka orders nothing across topics.                            *)
(***************************************************************************)
EXTENDS ChainEvents

CONSTANTS
    Window,         \* window_blocks of the cross-block detector
    Unencodable,    \* blocks with a finding that can never be encoded
    Undecodable,    \* blocks whose records cannot be decoded, or are another
                    \* chain's
    WorkCap,        \* capacity of the work channel
    DoneCap,        \* capacity of the done channel
    MaxFaults       \* bound: crashes, shutdowns and rebalances

ASSUME DetectionAssumption ==
    /\ Window \in Nat
    /\ Unencodable \subseteq Block /\ Undecodable \subseteq Block
    /\ WorkCap \in Nat \ {0} /\ DoneCap \in Nat \ {0}
    /\ MaxFaults \in Nat

INSTANCE CrossBlockState WITH Height <- Number

VARIABLES
    tree,       \* ingestion's block tree
    pending,    \* ingestion: events of the last block not yet published
    bus,        \* the records of the two topics, in publication order
    pos,        \* consumer: index of the last record received, per topic
    committed,  \* broker: index of the last record committed, per topic
    work,       \* the work channel: indexes of bus
    current,    \* scheduler: the record in hand and its unpublished findings
    cross,      \* scheduler: the cross-block state, one detector
    done,       \* the done channel: indexes of bus
    found,      \* the findings published
    up,         \* FALSE while a shut-down process drains its commits
    faults      \* counter for the bound

input     == <<tree, pending, bus>>
scheduler == <<current, cross>>
vars      == <<input, pos, committed, work, current, cross, done, found, up,
               faults>>

Topic == {"Assembled", "Reverted"}
Record == [type : Topic, block : Block]
Nothing == [at |-> 0, left |-> << >>]

Init ==
    /\ tree = EmptyTree /\ pending = << >> /\ bus = << >>
    /\ pos = [t \in Topic |-> 0] /\ committed = [t \in Topic |-> 0]
    /\ work = << >> /\ current = Nothing /\ cross = << >> /\ done = << >>
    /\ found = {}
    /\ up = TRUE /\ faults = 0

-----------------------------------------------------------------------------
\* Ingestion adds a block whose parent it has and owes the bus the outcome.
Ingest(b) ==
    LET r == AddBlock(tree, b)
    IN /\ pending = << >>
       /\ tree.nodes = {} => Parent[b] = NoBlock
       /\ r.kind \in {"Fork", "Canonical"}
       /\ tree' = r.tree
       /\ pending' = StepEvents(r, b)
       /\ UNCHANGED <<bus, pos, committed, work, scheduler, done, found, up,
                      faults>>

\* Its next event is published; only the two topics are of interest here.
Emit ==
    LET e == [type |-> Head(pending).type, block |-> Head(pending).block]
    IN /\ pending # << >>
       /\ pending' = Tail(pending)
       /\ bus' = IF e \in Record THEN Append(bus, e) ELSE bus
       /\ UNCHANGED <<tree, pos, committed, work, scheduler, done, found, up,
                      faults>>

Unread(t) == {i \in DOMAIN bus : i > pos[t] /\ bus[i].type = t}

\* run_consumer: the next record of either topic, when the work channel has
\* room.  A record that is not ours rides along so that its offset advances
\* in order.
Receive(t) ==
    \E i \in Unread(t) :
        /\ up
        /\ \A j \in Unread(t) : i <= j
        /\ Len(work) < WorkCap
        /\ work' = Append(work, i)
        /\ pos' = [pos EXCEPT ![t] = i]
        /\ UNCHANGED <<input, committed, scheduler, done, found, up, faults>>

-----------------------------------------------------------------------------
\* evidence_events: a finding is a trigger and, after it, the alert.
Findings(b) == << [kind |-> "Triggered", block |-> b], [kind |-> "Alert", block |-> b] >>

\* Scheduler::process on the next work item.
Process ==
    LET i == Head(work)
        e == bus[i]
        ours == e.block \notin Undecodable
    IN /\ up /\ current = Nothing /\ work # << >>
       /\ work' = Tail(work)
       /\ cross' = CASE ours /\ e.type = "Assembled" -> Apply(cross, e.block)
                     [] ours /\ e.type = "Reverted" -> RevertTip(cross, e.block)
                     [] OTHER -> cross
       /\ current' = [at |-> i,
                      left |-> IF ours /\ e.type = "Assembled"
                               THEN Findings(e.block) ELSE << >>]
       /\ UNCHANGED <<input, pos, committed, done, found, up, faults>>

\* publish_resilient delivers the next finding.
Publish ==
    /\ current.left # << >>
    /\ Head(current.left).block \notin Unencodable
    /\ found' = found \cup {Head(current.left)}
    /\ current' = [current EXCEPT !.left = Tail(@)]
    /\ UNCHANGED <<input, pos, committed, work, cross, done, up, faults>>

\* Mutant of Abandon: a permanent failure is retried like any other.
AbandonNever ==
    /\ current.left # << >>
    /\ Head(current.left).block \in Unencodable
    /\ UNCHANGED vars

\* Undelivered::Permanent: the rest of the block's findings are given up and
\* its offset advances all the same.
Abandon ==
    /\ current.left # << >>
    /\ Head(current.left).block \in Unencodable
    /\ current' = [current EXCEPT !.left = << >>]
    /\ UNCHANGED <<input, pos, committed, work, cross, done, found, up, faults>>

\* Mutant of Finish: the offset is handed on before the findings are out.
FinishEarly ==
    /\ current # Nothing
    /\ Len(done) < DoneCap
    /\ done' = Append(done, current.at)
    /\ current' = IF current.left = << >> THEN Nothing ELSE current
    /\ UNCHANGED <<input, pos, committed, work, cross, found, up, faults>>

\* Everything of the record is out: its offset goes to the committer.
Finish ==
    /\ current # Nothing /\ current.left = << >>
    /\ Len(done) < DoneCap
    /\ done' = Append(done, current.at)
    /\ current' = Nothing
    /\ UNCHANGED <<input, pos, committed, work, cross, found, up, faults>>

-----------------------------------------------------------------------------
\* run_committer: the commit is asynchronous and a failed one is only logged.
Commit(kept) ==
    LET i == Head(done)
    IN /\ done # << >>
       /\ done' = Tail(done)
       /\ committed' = IF kept THEN [committed EXCEPT ![bus[i].type] = i] ELSE committed
       /\ UNCHANGED <<input, pos, work, scheduler, found, up, faults>>

\* The shutdown token, seen between two records or while a publish is being
\* retried: consumer and scheduler return without handing on the record in
\* hand, the committer drains what it was given.
Shutdown ==
    /\ up /\ faults < MaxFaults
    /\ current # Nothing => current.left # << >>
    /\ up' = FALSE
    /\ faults' = faults + 1
    /\ work' = << >> /\ current' = Nothing
    /\ UNCHANGED <<input, pos, committed, cross, done, found>>

\* A new process: everything that was in memory is gone.
Boot ==
    /\ up' = TRUE
    /\ pos' = committed
    /\ work' = << >> /\ current' = Nothing /\ cross' = << >> /\ done' = << >>
    /\ UNCHANGED <<input, committed, found>>

Restart ==
    /\ ~up /\ done = << >>
    /\ Boot
    /\ UNCHANGED faults

Crash ==
    /\ faults < MaxFaults
    /\ Boot
    /\ faults' = faults + 1

\* The group rebalances: the consumer resumes at the committed offsets while
\* the channels and the cross-block state live on.
Rebalance ==
    /\ up /\ faults < MaxFaults
    /\ faults' = faults + 1
    /\ pos' = committed
    /\ UNCHANGED <<input, committed, work, scheduler, done, found, up>>

Source == (\E b \in Block : Ingest(b)) \/ Emit
Schedule == Process \/ Publish \/ Abandon \/ Finish
Committer == \E kept \in BOOLEAN : Commit(kept)

Next ==
    \/ Source
    \/ \E t \in Topic : Receive(t)
    \/ Schedule \/ Committer
    \/ Shutdown \/ Restart \/ Crash \/ Rebalance

Spec == Init /\ [][Next]_vars

-----------------------------------------------------------------------------
(***************************************************************************)
(* Properties                                                              *)
(***************************************************************************)
Members(s) == {s[i] : i \in DOMAIN s}

\* The findings of record i are out, or can never be.
Settled(i) ==
    bus[i].type = "Assembled" =>
        \/ bus[i].block \in Unencodable \cup Undecodable
        \/ Members(Findings(bus[i].block)) \subseteq found

\* A record at or below a committed offset has all its findings on the bus,
\* whatever was lost to crashes, shutdowns, rebalances and failed commits:
\* the committer never overtakes an unpublished block (Scheduler::run).
CommittedIsPublished ==
    \A t \in Topic : \A i \in 1..committed[t] : bus[i].type = t => Settled(i)

\* The retained history never exceeds the detector's window: the snapshots
\* ascend in height and lie within Window blocks of the tip's
\* (prune_to_window), across rewinds and redeliveries too.
SnapshotsInWindow ==
    \A u, v \in DOMAIN cross : u < v =>
        LET h(x) == Number[cross[x].block]
        IN h(u) < h(v) /\ h(Len(cross)) < h(u) + Window

\* No snapshot has a block folded into it twice, or out of height order,
\* under any redelivery ("idempotent under redelivery", cross_block_state.rs).
FoldedOnce ==
    \A v \in DOMAIN cross :
        LET f == cross[v].folded
        IN \A i, j \in DOMAIN f : i < j => Number[f[i]] < Number[f[j]]

\* Rewinding is exact ("the ancestor's snapshot is the state as of the
\* ancestor", cross_block_state.rs): every snapshot's accumulator is the one
\* below it with its own block folded in last, so that discarding the tip
\* leaves the state as it was before that block, whatever was redelivered,
\* pruned or reverted in between.
RewindIsExact ==
    \A v \in DOMAIN cross :
        LET f == cross[v].folded
        IN /\ f # << >> /\ f[Len(f)] = cross[v].block
           /\ v > 1 => f = Append(cross[v - 1].folded, cross[v].block)

\* Every published record has been handled.
Quiet ==
    /\ pending = << >> /\ \A t \in Topic : Unread(t) = {}
    /\ work = << >> /\ current = Nothing

\* "The back is the canonical tip": once every event is handled, the newest
\* snapshot is the one of the canonical tip.
BackIsCanonicalTip ==
    Quiet /\ bus # << >> => cross # << >> /\ Tip(cross).block = tree.tip

\* Every assembled block's findings reach the bus in the end, however often
\* the service restarts on the way, unless they cannot be encoded.
EveryBlockDetected ==
    \A b \in Block \ (Unencodable \cup Undecodable) :
        b \in {bus[i].block : i \in DOMAIN bus} ~> Members(Findings(b)) \subseteq found

-----------------------------------------------------------------------------
(***************************************************************************)
(* Fairness: ingestion publishes what it owes, the runtime schedules the   *)
(* three tasks, the broker delivers, a publish that is retried succeeds,   *)
(* and a stopped process is restarted.                                     *)
(***************************************************************************)
Fairness ==
    /\ WF_vars(Emit)
    /\ \A t \in Topic : WF_vars(Receive(t))
    /\ WF_vars(Schedule)
    /\ WF_vars(Committer)
    /\ WF_vars(Restart)

FairSpec == Spec /\ Fairness
==============================================================================
