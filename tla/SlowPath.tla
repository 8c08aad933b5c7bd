------------------------------ MODULE SlowPath ------------------------------
(***************************************************************************)
(* The simulation slow path (crates/simulation): from a provisional alert  *)
(* to its simulated outcome and, when a reorg orphans the alert's block,   *)
(* to the retraction of its incidents.                                     *)
(*                                                                         *)
(*   alerts --dispatcher--> sim.jobs --workers--> SimulationCompleted,     *)
(*                                                IncidentCreated          *)
(*   BlockReverted --revert tracker of each worker--> its orphaned blocks  *)
(*                 --reorg consumer, index--> IncidentRetracted            *)
(*                                                                         *)
(* The dispatcher and the reorg consumer are handlers of the event bus's   *)
(* consume loop (module RunConsumer): records in order, one at a time,     *)
(* committed when handled, seen again after a stop.  Alert n is record n   *)
(* of the alerts topic.  The workers compete for the jobs of a RabbitMQ    *)
(* quorum queue, which keeps a job until it is settled.                    *)
(***************************************************************************)
EXTENDS Integers, Sequences, FiniteSets

CONSTANTS
    NumAlerts,      \* the alerts topic holds alerts 1..NumAlerts
    Block,
    BlockOf,        \* the block each alert is about
    Number,         \* the height of each block
    Confirmed,      \* the alerts a simulation confirms
    Fault,          \* the step at which an alert can never succeed, if any
    Worker,         \* the worker processes
    QueueCap,       \* length bound of sim.jobs
    DeliveryLimit,  \* x-delivery-limit
    OrphanCap,      \* capacity of a worker's set of orphaned blocks, 0: none
    MaxReverts,     \* bound: BlockReverted events
    MaxStops        \* bound: stops of a process, crash or shutdown

Alert == 1..NumAlerts
Step == {"queue", "resolve", "simulate", "publish", "retract", "none"}

ASSUME SlowPathAssumption ==
    /\ NumAlerts \in Nat
    /\ BlockOf \in [Alert -> Block] /\ Number \in [Block -> Nat]
    /\ Confirmed \subseteq Alert /\ Fault \in [Alert -> Step]
    /\ QueueCap \in Nat \ {0} /\ DeliveryLimit \in Nat /\ OrphanCap \in Nat
    /\ MaxReverts \in Nat /\ MaxStops \in Nat

VARIABLES
    dispatched,     \* dispatcher: last committed alert
    stage,          \* dispatcher: what the next alert waits for, its "job" to be
                    \* queued or its "audit" event
    sent,           \* number of jobs queued so far, each has its own id
    ready,          \* sim.jobs: the jobs waiting
    dead,           \* sim.jobs.dlq: the jobs dead-lettered
    hold,           \* hold[w]: the unsettled job of worker w and its progress
    orphaned,       \* orphaned[w]: the worker's orphaned blocks, oldest first
    tracked,        \* tracked[w]: last revert worker w's tracker handled
    completed,      \* alerts with a SimulationCompleted on the bus
    incidents,      \* the IncidentCreated events: incident n is of incidents[n]
    index,          \* the incidents the block-to-incident index has named
    reverts,        \* the BlockReverted topic
    handled,        \* reorg consumer: last committed revert
    plan,           \* reorg consumer: retractions of the next revert, or NoPlan
    retracted,      \* incidents with an IncidentRetracted on the bus
    cancelled,      \* history: alerts whose job was dropped as orphaned
    stops           \* counter for the bound

dispatcher == <<dispatched, stage, sent>>
queue      == <<ready, dead>>
tracker    == <<orphaned, tracked>>
results    == <<completed, incidents>>
reorg      == <<handled, plan, retracted>>
vars       == <<dispatcher, queue, hold, tracker, results, index, reverts,
                reorg, cancelled, stops>>

NoJob  == [id |-> 0, alert |-> 0, tries |-> 0]
Idle   == [job |-> NoJob, step |-> "idle", out |-> << >>]
NoPlan == [looked |-> FALSE, todo |-> {}]
Members(s) == {s[i] : i \in DOMAIN s}

Init ==
    /\ dispatched = 0 /\ stage = "job" /\ sent = 0
    /\ ready = {} /\ dead = {}
    /\ hold = [w \in Worker |-> Idle]
    /\ orphaned = [w \in Worker |-> << >>] /\ tracked = [w \in Worker |-> 0]
    /\ completed = {} /\ incidents = << >> /\ index = {}
    /\ reverts = << >>
    /\ handled = 0 /\ plan = NoPlan /\ retracted = {}
    /\ cancelled = {} /\ stops = 0

-----------------------------------------------------------------------------
(***************************************************************************)
(* Dispatcher::process, on alert dispatched + 1.                           *)
(***************************************************************************)
Pending(a) == a = dispatched + 1 /\ a \in Alert

\* Mutant of DispatchJob: a rejected job is taken for a queued one.
DispatchJobRejected(a) ==
    /\ Pending(a) /\ stage = "job" /\ Fault[a] # "queue"
    /\ sent' = sent + 1
    /\ ready' = IF Cardinality(ready) < QueueCap
                THEN ready \cup {[id |-> sent', alert |-> a, tries |-> 0]}
                ELSE ready
    /\ stage' = "audit"
    /\ UNCHANGED <<dispatched, dead, hold, tracker, results, index,
                   reverts, reorg, cancelled, stops>>

\* queue::publish_resilient puts the job on the queue.  At its length bound
\* the queue rejects it and the record is retried: the dispatcher waits.
DispatchJob(a) ==
    /\ Pending(a) /\ stage = "job" /\ Fault[a] # "queue"
    /\ Cardinality(ready) < QueueCap
    /\ sent' = sent + 1
    /\ ready' = ready \cup {[id |-> sent', alert |-> a, tries |-> 0]}
    /\ stage' = "audit"
    /\ UNCHANGED <<dispatched, dead, hold, tracker, results, index,
                   reverts, reorg, cancelled, stops>>

\* Then the audit event SimulationRequested, then the commit.  A job or an
\* audit event that can never be encoded is skipped and its offset committed.
DispatchAudit(a) ==
    /\ Pending(a)
    /\ stage = "audit" \/ Fault[a] = "queue"
    /\ dispatched' = a
    /\ stage' = "job"
    /\ UNCHANGED <<sent, queue, hold, tracker, results, index, reverts, reorg,
                   cancelled, stops>>

\* A crash, or a shutdown while a publish is retried: the offset stays where
\* it is and the alert is dispatched again.
DispatcherStops ==
    /\ stops < MaxStops /\ stage = "audit"
    /\ stops' = stops + 1
    /\ stage' = "job"
    /\ UNCHANGED <<dispatched, sent, queue, hold, tracker, results,
                   index, reverts, reorg, cancelled>>

-----------------------------------------------------------------------------
(***************************************************************************)
(* sim.jobs hands a job to one worker at a time; a job that comes back     *)
(* more than DeliveryLimit times is dead-lettered.                         *)
(***************************************************************************)
Take(w, j) ==
    /\ hold[w] = Idle
    /\ ready' = ready \ {j}
    /\ hold' = [hold EXCEPT ![w] = [job |-> j, step |-> "resolve", out |-> << >>]]
    /\ UNCHANGED <<dispatcher, dead, tracker, results, index, reverts, reorg,
                   cancelled, stops>>

\* The dispositions, as effects on the queue.
Ack == UNCHANGED queue

DeadLetter(j) == dead' = dead \cup {j} /\ UNCHANGED ready

\* Mutant of Requeue: the broker does not count the deliveries.
RequeueUncounted(j) == ready' = ready \cup {j} /\ UNCHANGED dead

Requeue(j) ==
    IF j.tries < DeliveryLimit
    THEN ready' = ready \cup {[j EXCEPT !.tries = @ + 1]} /\ UNCHANGED dead
    ELSE DeadLetter(j)

\* Worker w goes on with its job, or settles it and is free for the next.
Moves(w, step, out) ==
    hold' = [hold EXCEPT ![w] = [job |-> hold[w].job, step |-> step, out |-> out]]
Settles(w) == hold' = [hold EXCEPT ![w] = Idle]

-----------------------------------------------------------------------------
(***************************************************************************)
(* Worker::process_inner.                                                  *)
(***************************************************************************)
AlertOf(w) == hold[w].job.alert
At(w, step) == hold[w].step = step

\* Mutant of IsOrphaned: a block at an orphaned block's height is orphaned.
IsOrphanedByHeight(w, b) == \E o \in Members(orphaned[w]) : Number[o] = Number[b]

\* OrphanedBlocks::is_orphaned, by hash.
IsOrphaned(w, b) == b \in Members(orphaned[w])

\* The job is resolved to its block, and the worker's own set says whether
\* the block is orphaned: such a job is dropped, with nothing published.
Resolve(w) ==
    LET gone == IsOrphaned(w, BlockOf[AlertOf(w)])
    IN /\ At(w, "resolve") /\ Fault[AlertOf(w)] # "resolve"
       /\ IF gone THEN Settles(w) /\ Ack
          ELSE Moves(w, "simulate", << >>) /\ UNCHANGED queue
       /\ cancelled' = IF gone THEN cancelled \cup {AlertOf(w)} ELSE cancelled
       /\ UNCHANGED <<dispatcher, tracker, results, index, reverts, reorg, stops>>

\* events_for_outcome.
Results(a) ==
    IF a \in Confirmed THEN << "SimulationCompleted", "IncidentCreated" >>
    ELSE << "SimulationCompleted" >>

\* revm ran on the pool within the deadline.
Simulate(w) ==
    /\ At(w, "simulate") /\ Fault[AlertOf(w)] # "simulate"
    /\ Moves(w, "publish", Results(AlertOf(w)))
    /\ UNCHANGED <<dispatcher, queue, tracker, results, index, reverts, reorg,
                   cancelled, stops>>

\* disposition_for: a transient fault or a passed deadline requeues the job.
Falters(w) ==
    /\ At(w, "resolve") \/ At(w, "simulate")
    /\ Requeue(hold[w].job) /\ Settles(w)
    /\ UNCHANGED <<dispatcher, tracker, results, index, reverts, reorg,
                   cancelled, stops>>

\* A poison job, or a result that can never be encoded, is dead-lettered.
Poisoned(w) ==
    /\ hold[w] # Idle /\ Fault[AlertOf(w)] = hold[w].step
    /\ DeadLetter(hold[w].job) /\ Settles(w)
    /\ UNCHANGED <<dispatcher, tracker, results, index, reverts, reorg,
                   cancelled, stops>>

\* publish_results: the next result reaches the bus.  Every run of a job
\* mints its own incident id.
PublishResult(w) ==
    LET ev == Head(hold[w].out)
    IN /\ At(w, "publish") /\ hold[w].out # << >> /\ Fault[AlertOf(w)] # "publish"
       /\ Moves(w, "publish", Tail(hold[w].out))
       /\ completed' = IF ev = "SimulationCompleted"
                       THEN completed \cup {AlertOf(w)} ELSE completed
       /\ incidents' = IF ev = "IncidentCreated"
                       THEN Append(incidents, AlertOf(w)) ELSE incidents
       /\ UNCHANGED <<dispatcher, queue, tracker, index, reverts, reorg,
                      cancelled, stops>>

\* settle: everything is out, the job is acked.
SettleResults(w) ==
    /\ At(w, "publish") /\ hold[w].out = << >>
    /\ Settles(w) /\ Ack
    /\ UNCHANGED <<dispatcher, tracker, results, index, reverts, reorg,
                   cancelled, stops>>

\* The process goes away, by a crash, a broken channel (a settle that fails)
\* or a shutdown in the middle of a publish: its job comes back, and the next
\* process tracks the reverts published from now on.
WorkerStops(w) ==
    /\ stops < MaxStops
    /\ stops' = stops + 1
    /\ IF hold[w] = Idle THEN UNCHANGED queue ELSE Requeue(hold[w].job)
    /\ Settles(w)
    /\ orphaned' = [orphaned EXCEPT ![w] = << >>]
    /\ tracked' = [tracked EXCEPT ![w] = Len(reverts)]
    /\ UNCHANGED <<dispatcher, results, index, reverts, reorg, cancelled>>

-----------------------------------------------------------------------------
(***************************************************************************)
(* Reorgs.                                                                 *)
(***************************************************************************)

\* Ingestion reports a block orphaned, maybe one that came back in between.
Revert(b) ==
    /\ Len(reverts) < MaxReverts
    /\ reverts' = Append(reverts, b)
    /\ UNCHANGED <<dispatcher, queue, hold, tracker, results, index, reorg,
                   cancelled, stops>>

\* OrphanedBlocks::record and evict_to_fit.
Record(seen, b) ==
    LET more == Append(seen, b)
    IN IF b \in Members(seen) THEN seen
       ELSE IF OrphanCap > 0 /\ Len(more) > OrphanCap THEN Tail(more) ELSE more

\* RevertTracker: each worker process sees every revert from its start on.
Track(w) ==
    /\ tracked[w] < Len(reverts)
    /\ tracked' = [tracked EXCEPT ![w] = @ + 1]
    /\ orphaned' = [orphaned EXCEPT ![w] = Record(@, reverts[tracked[w] + 1])]
    /\ UNCHANGED <<dispatcher, queue, hold, results, index, reverts, reorg,
                   cancelled, stops>>

\* The incidents of a block.
InBlock(b) == {i \in DOMAIN incidents : BlockOf[incidents[i]] = b}

\* ReorgConsumer::process looks the reverted block up in the index it was
\* given, an IncidentIndex: any of the block's incidents, at least those it
\* has named before, and none at all in the EmptyIncidentIndex that main
\* wires today.  A transient fault of the index is a Retry and changes nothing.
LookUp ==
    LET block == InBlock(reverts[handled + 1])
    IN /\ handled < Len(reverts) /\ ~plan.looked
       /\ \E known \in SUBSET block :
             /\ index \cap block \subseteq known
             /\ index' = index \cup known
             /\ plan' = [looked |-> TRUE, todo |-> known]
       /\ UNCHANGED <<dispatcher, queue, hold, tracker, results, reverts,
                      handled, retracted, cancelled, stops>>

Unretractable(i) == Fault[incidents[i]] = "retract"

\* One IncidentRetracted each.
Retract(i) ==
    /\ i \in plan.todo /\ ~Unretractable(i)
    /\ plan' = [plan EXCEPT !.todo = @ \ {i}]
    /\ retracted' = retracted \cup {i}
    /\ UNCHANGED <<dispatcher, queue, hold, tracker, results, index, reverts,
                   handled, cancelled, stops>>

\* A retraction that can never be encoded (Undelivered::Permanent) ends the
\* revert as a Skip: its offset is committed, and the retractions that were
\* to come after this one are not published.
RetractSkips(i) ==
    /\ plan.looked /\ i \in plan.todo /\ Unretractable(i)
    /\ handled' = handled + 1
    /\ plan' = NoPlan
    /\ UNCHANGED <<dispatcher, queue, hold, tracker, results, index, reverts,
                   retracted, cancelled, stops>>

\* Mutant of RevertHandled: committed with the first retraction out.
RevertHandledEarly ==
    /\ plan.looked /\ Cardinality(plan.todo) < 2
    /\ handled' = handled + 1
    /\ plan' = NoPlan
    /\ UNCHANGED <<dispatcher, queue, hold, tracker, results, index, reverts,
                   retracted, cancelled, stops>>

\* Nothing (more) to retract: the revert's offset is committed.
RevertHandled ==
    /\ plan.looked /\ plan.todo = {}
    /\ handled' = handled + 1
    /\ plan' = NoPlan
    /\ UNCHANGED <<dispatcher, queue, hold, tracker, results, index, reverts,
                   retracted, cancelled, stops>>

\* A crash, or Handled::Stop for an undelivered retraction: the revert is
\* looked up again.
ReorgConsumerStops ==
    /\ stops < MaxStops /\ plan.looked
    /\ stops' = stops + 1
    /\ plan' = NoPlan
    /\ UNCHANGED <<dispatcher, queue, hold, tracker, results, index, reverts,
                   handled, retracted, cancelled>>

Dispatch == \E a \in Alert : DispatchJob(a) \/ DispatchAudit(a)
Work(w) ==
    \/ \E j \in ready : Take(w, j)
    \/ Resolve(w) \/ Simulate(w) \/ Poisoned(w)
    \/ PublishResult(w) \/ SettleResults(w)
ReorgConsumer == LookUp \/ (\E i \in plan.todo : Retract(i) \/ RetractSkips(i))
                 \/ RevertHandled

Next ==
    \/ Dispatch \/ DispatcherStops
    \/ \E w \in Worker : Work(w) \/ Falters(w) \/ WorkerStops(w) \/ Track(w)
    \/ \E b \in Block : Revert(b)
    \/ ReorgConsumer \/ ReorgConsumerStops

Spec == Init /\ [][Next]_vars

-----------------------------------------------------------------------------
(***************************************************************************)
(* Properties                                                              *)
(***************************************************************************)
Job == [id : Nat, alert : Alert, tries : 0..DeliveryLimit]
Event == {"SimulationCompleted", "IncidentCreated"}
Held == [job : Job, step : {"resolve", "simulate", "publish"}, out : Seq(Event)]

\* The variables keep their types; no job comes back more often than the
\* delivery limit allows and no worker remembers more than OrphanCap blocks.
SlowPathTypeOK ==
    /\ dispatched \in 0..NumAlerts /\ stage \in {"job", "audit"} /\ sent \in Nat
    /\ ready \subseteq Job /\ dead \subseteq Job
    /\ hold \in [Worker -> Held \cup {Idle}]
    /\ orphaned \in [Worker -> Seq(Block)]
    /\ \A w \in Worker : OrphanCap = 0 \/ Len(orphaned[w]) <= OrphanCap
    /\ reverts \in Seq(Block) /\ tracked \in [Worker -> 0..Len(reverts)]
    /\ completed \subseteq Alert /\ cancelled \subseteq Alert
    /\ incidents \in Seq(Alert) /\ index \subseteq DOMAIN incidents
    /\ handled \in 0..Len(reverts) /\ retracted \subseteq DOMAIN incidents
    /\ plan \in [looked : BOOLEAN, todo : SUBSET DOMAIN incidents]
    /\ plan.looked => handled < Len(reverts)
    /\ stops \in Nat

\* The jobs of alert a that are still to be settled.
Outstanding(a) ==
    {j \in ready \cup {hold[w].job : w \in Worker} : j.alert = a}

\* The outcome of a is on the bus.
Reported(a) ==
    a \in completed /\ (a \in Confirmed => a \in Members(incidents))

\* Alert a is in good hands, or its story is over.
Accounted(a) ==
    \/ Fault[a] = "queue"
    \/ Outstanding(a) # {}
    \/ Reported(a)
    \/ \E j \in dead : j.alert = a
    \/ a \in cancelled

\* No alert gets lost between the two brokers: once its offset is committed,
\* an alert has a job in the queue or in a worker's hands, its outcome on the
\* bus, a job in quarantine, or a job dropped for an orphaned block, whatever
\* crashes, requeues, rejected publishes and half-published results did.
AlertsAccounted == \A a \in 1..dispatched : Accounted(a)

\* A job is dropped without a result only when its very block was reverted,
\* not a block at the same height (OrphanedBlocks: "Identity is the block
\* hash, never the height").
CancelledWasReverted ==
    \A a \in cancelled : BlockOf[a] \in Members(reverts)

\* A revert of the block is on the topic and not yet committed.
RevertToCome(b) == \E k \in (handled + 1)..Len(reverts) : reverts[k] = b

\* No incident that the index has named is forgotten: it is retracted, or a
\* revert of its block is still to be handled, wherever the reorg consumer was
\* stopped and however the index's answers grew in between; only a retraction
\* that can never be encoded takes others of its block with it.
NamedAreRetracted ==
    \A i \in index :
        LET b == BlockOf[incidents[i]]
        IN \/ i \in retracted
           \/ RevertToCome(b)
           \/ \E j \in index : BlockOf[incidents[j]] = b /\ Unretractable(j)

\* Every alert ends: outcome reported, job quarantined or dropped.
EveryAlertSettled ==
    \A a \in Alert :
        <>[](dispatched >= a /\ Outstanding(a) = {})

-----------------------------------------------------------------------------
(***************************************************************************)
(* Fairness: the services keep running, a queue with jobs delivers them, a *)
(* retried publish succeeds.  Faltering and stopping are never forced.     *)
(***************************************************************************)
Fairness ==
    /\ WF_vars(Dispatch)
    /\ \A w \in Worker : WF_vars(Work(w))
    /\ WF_vars(ReorgConsumer)

FairSpec == Spec /\ Fairness
============================================================================
