--------------------------- MODULE SlowPathProofs ---------------------------
(***************************************************************************)
(* Proofs about the slow path, for any number of alerts, workers, reverts  *)
(* and stops, any queue bound, delivery limit and capacity of the workers' *)
(* sets of orphaned blocks, and any choice of alerts that can never be     *)
(* handled.                                                                *)
(***************************************************************************)
EXTENDS SlowPath, TLAPS

-----------------------------------------------------------------------------
(***************************************************************************)
(* Types.                                                                  *)
(***************************************************************************)

\* A job that comes back stays a job, and its alert is not forgotten.
LEMMA RequeueTyped ==
    ASSUME SlowPathTypeOK, NEW j \in Job, Requeue(j)
    PROVE  /\ ready' \subseteq Job /\ dead' \subseteq Job
           /\ ready \subseteq ready' /\ dead \subseteq dead'
           /\ \E q \in ready' \cup dead' : q.alert = j.alert
  <1>1. CASE j.tries < DeliveryLimit
    <2> DEFINE q == [j EXCEPT !.tries = @ + 1]
    <2>1. q \in Job /\ q.alert = j.alert
      BY <1>1, SlowPathAssumption DEF Job
    <2>2. ready' = ready \cup {q} /\ dead' = dead
      BY <1>1 DEF Requeue
    <2> QED
      BY <2>1, <2>2 DEF SlowPathTypeOK
  <1>2. CASE ~(j.tries < DeliveryLimit)
    BY <1>2 DEF Requeue, DeadLetter, SlowPathTypeOK
  <1> QED
    BY <1>1, <1>2

\* A worker at a step holds a job.
LEMMA HoldsJob ==
    ASSUME SlowPathTypeOK, NEW w \in Worker, hold[w] # Idle
    PROVE  /\ hold[w] \in Held /\ hold[w].job \in Job /\ AlertOf(w) \in Alert
           /\ hold[w].out \in Seq(Event)
  BY DEF SlowPathTypeOK, Held, Job, AlertOf

LEMMA AtIsBusy ==
    ASSUME NEW w \in Worker, NEW s \in {"resolve", "simulate", "publish"}, At(w, s)
    PROVE  hold[w] # Idle
  BY DEF At, Idle

\* What record does to the set of orphaned blocks.
LEMMA RecordTyped ==
    ASSUME NEW s \in Seq(Block), NEW b \in Block,
           OrphanCap = 0 \/ Len(s) <= OrphanCap
    PROVE  /\ Record(s, b) \in Seq(Block)
           /\ OrphanCap = 0 \/ Len(Record(s, b)) <= OrphanCap
           /\ Members(Record(s, b)) \subseteq Members(s) \cup {b}
  <1> DEFINE more == Append(s, b)
  <1>1. /\ more \in Seq(Block) /\ Len(more) = Len(s) + 1
        /\ \A i \in 1..Len(more) : more[i] \in Members(s) \cup {b}
    BY DEF Members
  <1>2. CASE b \in Members(s)
    BY <1>2 DEF Record
  <1>3. CASE b \notin Members(s) /\ OrphanCap > 0 /\ Len(more) > OrphanCap
    <2>1. Record(s, b) = Tail(more)
      BY <1>3 DEF Record
    <2>2. /\ Tail(more) \in Seq(Block) /\ Len(Tail(more)) = Len(s)
          /\ \A i \in 1..Len(Tail(more)) : Tail(more)[i] = more[i + 1]
      BY <1>1
    <2> HIDE DEF more
    <2>3. Members(Tail(more)) \subseteq Members(s) \cup {b}
      BY <1>1, <2>2 DEF Members
    <2> QED
      BY <1>3, <2>1, <2>2, <2>3, SlowPathAssumption
  <1>4. CASE b \notin Members(s) /\ ~(OrphanCap > 0 /\ Len(more) > OrphanCap)
    <2>1. Record(s, b) = more
      BY <1>4 DEF Record
    <2> HIDE DEF more
    <2>2. Members(more) \subseteq Members(s) \cup {b}
      BY <1>1 DEF Members
    <2> QED
      BY <1>1, <1>4, <2>1, <2>2, SlowPathAssumption
  <1> QED
    BY <1>2, <1>3, <1>4

\* The log of reverts only grows, and with it what counts as reverted.
LEMMA RevertAppends ==
    ASSUME SlowPathTypeOK, NEW b \in Block, reverts' = Append(reverts, b)
    PROVE  /\ reverts' \in Seq(Block) /\ Len(reverts') = Len(reverts) + 1
           /\ Len(reverts) \in Nat
           /\ \A k \in 1..Len(reverts) : reverts'[k] = reverts[k]
           /\ Members(reverts) \subseteq Members(reverts')
  <1>1. /\ reverts' \in Seq(Block) /\ Len(reverts') = Len(reverts) + 1
        /\ Len(reverts) \in Nat
        /\ \A k \in 1..Len(reverts) : reverts'[k] = reverts[k]
        /\ DOMAIN reverts = 1..Len(reverts)
        /\ DOMAIN reverts' = 1..Len(reverts')
    BY DEF SlowPathTypeOK
  <1> QED
    BY <1>1 DEF Members

\* So does the log of incidents.
LEMMA IncidentAppends ==
    ASSUME SlowPathTypeOK, NEW a \in Alert, incidents' = Append(incidents, a)
    PROVE  /\ incidents' \in Seq(Alert) /\ DOMAIN incidents \subseteq DOMAIN incidents'
           /\ \A i \in DOMAIN incidents : incidents'[i] = incidents[i]
           /\ Members(incidents) \cup {a} \subseteq Members(incidents')
  <1>1. /\ incidents' \in Seq(Alert) /\ Len(incidents') = Len(incidents) + 1
        /\ Len(incidents) \in Nat
        /\ \A i \in 1..Len(incidents) : incidents'[i] = incidents[i]
        /\ incidents'[Len(incidents) + 1] = a
        /\ DOMAIN incidents = 1..Len(incidents)
        /\ DOMAIN incidents' = 1..Len(incidents')
    BY DEF SlowPathTypeOK
  <1> QED
    BY <1>1 DEF Members

\* Settling frees one worker.
LEMMA SettlesTyped ==
    ASSUME SlowPathTypeOK, NEW w \in Worker, Settles(w)
    PROVE  /\ hold' \in [Worker -> Held \cup {Idle}]
           /\ hold'[w] = Idle
           /\ \A v \in Worker \ {w} : hold'[v] = hold[v]
  BY DEF SlowPathTypeOK, Settles

\* Steps of a worker that keeps its job.
LEMMA HoldMoves ==
    ASSUME SlowPathTypeOK, NEW w \in Worker, hold[w] # Idle,
           NEW s \in {"resolve", "simulate", "publish"}, NEW o \in Seq(Event),
           Moves(w, s, o)
    PROVE  /\ hold' \in [Worker -> Held \cup {Idle}]
           /\ hold'[w].job = hold[w].job /\ hold'[w].step = s /\ hold'[w].out = o
           /\ \A v \in Worker \ {w} : hold'[v] = hold[v]
  <1>1. hold[w].job \in Job
    BY HoldsJob
  <1>2. [job |-> hold[w].job, step |-> s, out |-> o] \in Held
    BY <1>1 DEF Held
  <1> QED
    BY <1>2 DEF SlowPathTypeOK, Moves

LEMMA ResultsTyped ==
    ASSUME NEW a \in Alert
    PROVE  Results(a) \in Seq(Event)
  <1>1. << "SimulationCompleted", "IncidentCreated" >> \in Seq(Event)
    BY SMT DEF Event
  <1>2. << "SimulationCompleted" >> \in Seq(Event)
    BY SMT DEF Event
  <1> QED
    BY <1>1, <1>2 DEF Results

LEMMA TypeInit == Init => SlowPathTypeOK
  <1> SUFFICES ASSUME Init PROVE SlowPathTypeOK
    OBVIOUS
  <1>1. /\ orphaned \in [Worker -> Seq(Block)]
        /\ \A w \in Worker : OrphanCap = 0 \/ Len(orphaned[w]) <= OrphanCap
    BY SlowPathAssumption DEF Init
  <1>2. /\ hold \in [Worker -> Held \cup {Idle}]
        /\ tracked \in [Worker -> 0..Len(reverts)]
        /\ reverts \in Seq(Block) /\ incidents \in Seq(Alert) /\ DOMAIN incidents = {}
    BY DEF Init
  <1>3. plan \in [looked : BOOLEAN, todo : SUBSET DOMAIN incidents] /\ ~plan.looked
    BY <1>2 DEF Init, NoPlan
  <1> QED
    BY <1>1, <1>2, <1>3, SlowPathAssumption DEF Init, SlowPathTypeOK

LEMMA TypeStep == SlowPathTypeOK /\ [Next]_vars => SlowPathTypeOK'
  <1> SUFFICES ASSUME SlowPathTypeOK, [Next]_vars PROVE SlowPathTypeOK'
    OBVIOUS
  <1> USE SlowPathAssumption
  <1>1. ASSUME NEW a \in Alert, DispatchJob(a) PROVE SlowPathTypeOK'
    <2>1. [id |-> sent', alert |-> a, tries |-> 0] \in Job
      BY <1>1 DEF DispatchJob, SlowPathTypeOK, Job
    <2> QED
      BY <1>1, <2>1 DEF DispatchJob, SlowPathTypeOK, tracker, results, reorg
  <1>2. ASSUME NEW a \in Alert, DispatchAudit(a) PROVE SlowPathTypeOK'
    BY <1>2 DEF DispatchAudit, SlowPathTypeOK, Alert, queue, tracker, results, reorg
  <1>3. ASSUME DispatcherStops PROVE SlowPathTypeOK'
    BY <1>3 DEF DispatcherStops, SlowPathTypeOK, queue, tracker, results, reorg
  <1>4. ASSUME NEW w \in Worker, NEW j \in ready, Take(w, j) PROVE SlowPathTypeOK'
    <2>1. [job |-> j, step |-> "resolve", out |-> << >>] \in Held
      BY DEF SlowPathTypeOK, Held
    <2> QED
      BY <1>4, <2>1 DEF Take, SlowPathTypeOK, dispatcher, tracker, results, reorg
  <1>5. ASSUME NEW w \in Worker, Resolve(w) PROVE SlowPathTypeOK'
    <2>1. hold[w] # Idle /\ AlertOf(w) \in Alert
      BY <1>5, AtIsBusy, HoldsJob DEF Resolve
    <2>2. << >> \in Seq(Event)
      OBVIOUS
    <2>3. hold' \in [Worker -> Held \cup {Idle}]
      BY <1>5, <2>1, <2>2, SettlesTyped, HoldMoves DEF Resolve
    <2>4. cancelled' \subseteq Alert
      BY <1>5, <2>1 DEF Resolve, SlowPathTypeOK
    <2> QED
      BY <1>5, <2>3, <2>4
      DEF Resolve, Ack, SlowPathTypeOK, dispatcher, queue, tracker, results, reorg
  <1>6. ASSUME NEW w \in Worker, Simulate(w) PROVE SlowPathTypeOK'
    <2>1. hold' \in [Worker -> Held \cup {Idle}]
      BY <1>6, AtIsBusy, HoldsJob, ResultsTyped, HoldMoves DEF Simulate
    <2> QED
      BY <1>6, <2>1
      DEF Simulate, SlowPathTypeOK, dispatcher, queue, tracker, results, reorg
  <1>7. ASSUME NEW w \in Worker, Falters(w) PROVE SlowPathTypeOK'
    <2>1. hold[w].job \in Job
      BY <1>7, AtIsBusy, HoldsJob DEF Falters
    <2>2. ready' \subseteq Job /\ dead' \subseteq Job
      BY <1>7, <2>1, RequeueTyped DEF Falters
    <2>3. hold' \in [Worker -> Held \cup {Idle}]
      BY <1>7, SettlesTyped DEF Falters
    <2> QED
      BY <1>7, <2>2, <2>3 DEF Falters, SlowPathTypeOK, dispatcher, tracker, results, reorg
  <1>8. ASSUME NEW w \in Worker, Poisoned(w) PROVE SlowPathTypeOK'
    <2>1. hold[w].job \in Job
      BY <1>8, HoldsJob DEF Poisoned
    <2>2. hold' \in [Worker -> Held \cup {Idle}]
      BY <1>8, SettlesTyped DEF Poisoned
    <2> QED
      BY <1>8, <2>1, <2>2
      DEF Poisoned, DeadLetter, SlowPathTypeOK, dispatcher, tracker, results, reorg
  <1>9. ASSUME NEW w \in Worker, PublishResult(w) PROVE SlowPathTypeOK'
    <2>1. hold[w] # Idle /\ AlertOf(w) \in Alert /\ hold[w].out \in Seq(Event)
      BY <1>9, AtIsBusy, HoldsJob DEF PublishResult
    <2>2. Tail(hold[w].out) \in Seq(Event)
      BY <1>9, <2>1 DEF PublishResult
    <2>3. hold' \in [Worker -> Held \cup {Idle}]
      BY <1>9, <2>1, <2>2, HoldMoves DEF PublishResult
    <2>4. incidents' \in Seq(Alert) /\ DOMAIN incidents \subseteq DOMAIN incidents'
      BY <1>9, <2>1, IncidentAppends DEF PublishResult, SlowPathTypeOK
    <2>5. completed' \subseteq Alert
      BY <1>9, <2>1 DEF PublishResult, SlowPathTypeOK
    <2> QED
      BY <1>9, <2>3, <2>4, <2>5
      DEF PublishResult, SlowPathTypeOK, dispatcher, queue, tracker, reorg
  <1>10. ASSUME NEW w \in Worker, SettleResults(w) PROVE SlowPathTypeOK'
    BY <1>10, SettlesTyped
    DEF SettleResults, Ack, SlowPathTypeOK, dispatcher, queue, tracker, results, reorg
  <1>11. ASSUME NEW w \in Worker, WorkerStops(w) PROVE SlowPathTypeOK'
    <2>1. ready' \subseteq Job /\ dead' \subseteq Job
      BY <1>11, HoldsJob, RequeueTyped DEF WorkerStops, queue, SlowPathTypeOK
    <2>2. hold' \in [Worker -> Held \cup {Idle}]
      BY <1>11, SettlesTyped DEF WorkerStops
    <2>3. /\ orphaned' \in [Worker -> Seq(Block)]
          /\ \A v \in Worker : OrphanCap = 0 \/ Len(orphaned'[v]) <= OrphanCap
          /\ tracked' \in [Worker -> 0..Len(reverts)]
      BY <1>11 DEF WorkerStops, SlowPathTypeOK
    <2> QED
      BY <1>11, <2>1, <2>2, <2>3 DEF WorkerStops, SlowPathTypeOK, dispatcher, results, reorg
  <1>12. ASSUME NEW b \in Block, Revert(b) PROVE SlowPathTypeOK'
    <2>1. reverts' \in Seq(Block) /\ Len(reverts') = Len(reverts) + 1 /\ Len(reverts) \in Nat
      BY <1>12, RevertAppends DEF Revert
    <2>2. tracked' \in [Worker -> 0..Len(reverts')] /\ handled' \in 0..Len(reverts')
      BY <1>12, <2>1 DEF Revert, SlowPathTypeOK, tracker, reorg
    <2> QED
      BY <1>12, <2>1, <2>2
      DEF Revert, SlowPathTypeOK, dispatcher, queue, tracker, results, reorg
  <1>13. ASSUME NEW w \in Worker, Track(w) PROVE SlowPathTypeOK'
    <2> DEFINE b == reverts[tracked[w] + 1]
    <2>1. b \in Block /\ tracked[w] + 1 \in 0..Len(reverts)
      BY <1>13 DEF Track, SlowPathTypeOK
    <2> DEFINE r == Record(orphaned[w], b)
    <2>2. r \in Seq(Block) /\ (OrphanCap = 0 \/ Len(r) <= OrphanCap)
      <3>1. orphaned[w] \in Seq(Block) /\ (OrphanCap = 0 \/ Len(orphaned[w]) <= OrphanCap)
        BY DEF SlowPathTypeOK
      <3> QED
        BY <2>1, <3>1, RecordTyped
    <2>3. /\ orphaned' = [orphaned EXCEPT ![w] = r]
          /\ tracked' = [tracked EXCEPT ![w] = tracked[w] + 1]
      BY <1>13 DEF Track
    <2> HIDE DEF b, r
    <2>4. /\ orphaned' \in [Worker -> Seq(Block)]
          /\ \A v \in Worker : OrphanCap = 0 \/ Len(orphaned'[v]) <= OrphanCap
          /\ tracked' \in [Worker -> 0..Len(reverts)]
      BY <2>1, <2>2, <2>3 DEF SlowPathTypeOK
    <2> QED
      BY <1>13, <2>4 DEF Track, SlowPathTypeOK, dispatcher, queue, results, reorg
  <1>14. ASSUME LookUp PROVE SlowPathTypeOK'
    <2>1. PICK known \in SUBSET DOMAIN incidents :
                 index' = index \cup known /\ plan' = [looked |-> TRUE, todo |-> known]
      BY <1>14 DEF LookUp, InBlock
    <2>2. /\ plan' \in [looked : BOOLEAN, todo : SUBSET DOMAIN incidents]
          /\ index' \subseteq DOMAIN incidents
      BY <2>1 DEF SlowPathTypeOK
    <2>3. handled < Len(reverts)
      BY <1>14 DEF LookUp
    <2> QED
      BY <1>14, <2>2, <2>3 DEF LookUp, SlowPathTypeOK, dispatcher, queue, tracker, results
  <1>16. ASSUME NEW i \in plan.todo, Retract(i) PROVE SlowPathTypeOK'
    <2>1. /\ plan' \in [looked : BOOLEAN, todo : SUBSET DOMAIN incidents]
          /\ plan'.looked = plan.looked
      BY <1>16 DEF Retract, SlowPathTypeOK
    <2>2. retracted' \subseteq DOMAIN incidents
      BY <1>16 DEF Retract, SlowPathTypeOK
    <2> QED
      BY <1>16, <2>1, <2>2 DEF Retract, SlowPathTypeOK, dispatcher, queue, tracker, results
  <1>17. ASSUME \/ RevertHandled \/ ReorgConsumerStops
                \/ \E i \in plan.todo : RetractSkips(i)
         PROVE  SlowPathTypeOK'
    <2>1. plan' = NoPlan /\ handled' \in 0..Len(reverts)
      BY <1>17 DEF RevertHandled, RetractSkips, ReorgConsumerStops, SlowPathTypeOK
    <2>2. /\ plan' \in [looked : BOOLEAN, todo : SUBSET DOMAIN incidents]
          /\ ~plan'.looked
      BY <2>1 DEF NoPlan
    <2> QED
      BY <1>17, <2>1, <2>2
      DEF RevertHandled, RetractSkips, ReorgConsumerStops, SlowPathTypeOK, dispatcher,
          queue, tracker, results
  <1>18. CASE UNCHANGED vars
    BY <1>18 DEF vars, SlowPathTypeOK, dispatcher, queue, tracker, results, reorg
  <1> QED
    BY <1>1, <1>2, <1>3, <1>4, <1>5, <1>6, <1>7, <1>8, <1>9, <1>10, <1>11,
       <1>12, <1>13, <1>14, <1>16, <1>17, <1>18
    DEF Next, Dispatch, Work, ReorgConsumer

\* The slow path keeps its types: in particular no job is handed out more
\* often than x-delivery-limit allows, and no worker's set of orphaned
\* blocks outgrows its capacity (evict_to_fit).
THEOREM TypeCorrect == Spec => []SlowPathTypeOK
  BY TypeInit, TypeStep, PTL DEF Spec

-----------------------------------------------------------------------------
(***************************************************************************)
(* Reorgs.  CancelledWasReverted needs that a worker takes only reverted   *)
(* blocks for orphaned.  NamedAreRetracted needs that the plan for the     *)
(* revert at hand holds what is left of the incidents named for its block, *)
(* and nothing else.                                                       *)
(***************************************************************************)
OrphansWereReverted ==
    \A w \in Worker : Members(orphaned[w]) \subseteq Members(reverts)

PlanCovers ==
    plan.looked =>
        \A i \in index : reverts[handled + 1] = BlockOf[incidents[i]] =>
            i \in plan.todo \cup retracted

PlanNamed ==
    plan.looked =>
        \A i \in plan.todo : i \in index /\ reverts[handled + 1] = BlockOf[incidents[i]]

ReorgInv ==
    /\ OrphansWereReverted
    /\ CancelledWasReverted
    /\ NamedAreRetracted
    /\ PlanCovers
    /\ PlanNamed

LEMMA ReorgInit == Init => ReorgInv
  BY DEF Init, NoPlan, Members, ReorgInv, OrphansWereReverted, CancelledWasReverted,
         NamedAreRetracted, PlanCovers, PlanNamed

\* A step that leaves the reorg state alone, but for the log of incidents.
LEMMA ReorgFrame ==
    ASSUME SlowPathTypeOK, ReorgInv,
           UNCHANGED <<tracker, cancelled, index, reverts, reorg>>,
           \A i \in DOMAIN incidents : incidents'[i] = incidents[i]
    PROVE  ReorgInv'
  <1>1. (OrphansWereReverted /\ CancelledWasReverted)'
    BY DEF ReorgInv, OrphansWereReverted, CancelledWasReverted, tracker, Members
  <1>2. \A i \in index' : incidents'[i] = incidents[i]
    BY DEF SlowPathTypeOK
  <1>3. NamedAreRetracted'
    BY <1>2 DEF ReorgInv, NamedAreRetracted, RevertToCome, Unretractable, reorg
  <1>4. PlanCovers' /\ PlanNamed'
    BY <1>2 DEF ReorgInv, PlanCovers, PlanNamed, reorg
  <1> QED
    BY <1>1, <1>3, <1>4 DEF ReorgInv

LEMMA ReorgStep == SlowPathTypeOK /\ ReorgInv /\ [Next]_vars => ReorgInv'
  <1> SUFFICES ASSUME SlowPathTypeOK, ReorgInv, [Next]_vars PROVE ReorgInv'
    OBVIOUS
  <1>1. ASSUME NEW a \in Alert, DispatchJob(a) \/ DispatchAudit(a) PROVE ReorgInv'
    BY <1>1, ReorgFrame DEF DispatchJob, DispatchAudit, results
  <1>2. ASSUME DispatcherStops PROVE ReorgInv'
    BY <1>2, ReorgFrame DEF DispatcherStops, results
  <1>3. ASSUME NEW w \in Worker, NEW j \in ready, Take(w, j) PROVE ReorgInv'
    BY <1>3, ReorgFrame DEF Take, results
  <1>4. ASSUME NEW w \in Worker,
               Simulate(w) \/ Falters(w) \/ Poisoned(w) \/ SettleResults(w)
        PROVE  ReorgInv'
    BY <1>4, ReorgFrame DEF Simulate, Falters, Poisoned, SettleResults, results
  <1>5. ASSUME NEW w \in Worker, PublishResult(w) PROVE ReorgInv'
    <2>1. AlertOf(w) \in Alert
      BY <1>5, AtIsBusy, HoldsJob DEF PublishResult
    <2>2. \A i \in DOMAIN incidents : incidents'[i] = incidents[i]
      BY <1>5, <2>1, IncidentAppends DEF PublishResult
    <2> QED
      BY <1>5, <2>2, ReorgFrame DEF PublishResult
  <1>6. ASSUME NEW w \in Worker, Resolve(w) PROVE ReorgInv'
    <2>1. CancelledWasReverted'
      BY <1>6 DEF Resolve, IsOrphaned, ReorgInv, OrphansWereReverted,
                  CancelledWasReverted, Members
    <2> QED
      BY <1>6, <2>1 DEF Resolve, ReorgInv, OrphansWereReverted, NamedAreRetracted,
         RevertToCome, Unretractable, PlanCovers, PlanNamed, tracker, results, reorg, Members
  <1>7. ASSUME NEW w \in Worker, WorkerStops(w) PROVE ReorgInv'
    <2>1. OrphansWereReverted'
      <3>1. \A v \in Worker : orphaned'[v] = IF v = w THEN << >> ELSE orphaned[v]
        BY <1>7 DEF WorkerStops, SlowPathTypeOK
      <3>2. Members(<< >>) = {}
        BY DEF Members
      <3>3. \A v \in Worker : Members(orphaned'[v]) \subseteq Members(orphaned[v])
        BY <3>1, <3>2
      <3>4. Members(reverts') = Members(reverts)
        BY <1>7 DEF WorkerStops
      <3> QED
        BY <3>3, <3>4 DEF ReorgInv, OrphansWereReverted
    <2> QED
      BY <1>7, <2>1 DEF WorkerStops, ReorgInv, CancelledWasReverted, NamedAreRetracted,
         RevertToCome, Unretractable, PlanCovers, PlanNamed, results, reorg, Members
  <1>8. ASSUME NEW b \in Block, Revert(b) PROVE ReorgInv'
    <2>1. /\ \A k \in 1..Len(reverts) : reverts'[k] = reverts[k]
          /\ Members(reverts) \subseteq Members(reverts') /\ Len(reverts) \in Nat
      BY <1>8, RevertAppends DEF Revert
    <2>2. (OrphansWereReverted /\ CancelledWasReverted)'
      BY <1>8, <2>1 DEF Revert, ReorgInv, OrphansWereReverted, CancelledWasReverted,
                        tracker, Members
    <2>3. /\ (handled + 1)..Len(reverts) \subseteq (handled + 1)..Len(reverts')
          /\ (handled + 1)..Len(reverts) \subseteq 1..Len(reverts)
          /\ plan.looked => handled + 1 \in 1..Len(reverts)
      BY <1>8, <2>1, RevertAppends DEF Revert, SlowPathTypeOK
    <2>4. \A c : RevertToCome(c) => RevertToCome(c)'
      BY <1>8, <2>1, <2>3 DEF Revert, RevertToCome, reorg
    <2>5. NamedAreRetracted'
      BY <1>8, <2>4 DEF Revert, ReorgInv, NamedAreRetracted, Unretractable, results, reorg
    <2>6. PlanCovers' /\ PlanNamed'
      BY <1>8, <2>1, <2>3 DEF Revert, ReorgInv, PlanCovers, PlanNamed, results, reorg
    <2> QED
      BY <2>2, <2>5, <2>6 DEF ReorgInv
  <1>9. ASSUME NEW w \in Worker, Track(w) PROVE ReorgInv'
    <2> DEFINE b == reverts[tracked[w] + 1]
    <2>1. b \in Block /\ b \in Members(reverts)
      BY <1>9 DEF Track, SlowPathTypeOK, Members
    <2>2. /\ orphaned \in [Worker -> Seq(Block)]
          /\ orphaned[w] \in Seq(Block)
          /\ OrphanCap = 0 \/ Len(orphaned[w]) <= OrphanCap
      BY DEF SlowPathTypeOK
    <2>3. Members(Record(orphaned[w], b)) \subseteq Members(orphaned[w]) \cup {b}
      BY <2>1, <2>2, RecordTyped
    <2>4. orphaned' = [orphaned EXCEPT ![w] = Record(orphaned[w], b)] /\ reverts' = reverts
      BY <1>9 DEF Track
    <2> HIDE DEF b
    <2>5. \A v \in Worker : Members(orphaned'[v]) \subseteq Members(orphaned[v]) \cup {b}
      BY <2>2, <2>3, <2>4
    <2>6. OrphansWereReverted'
      BY <2>1, <2>4, <2>5 DEF ReorgInv, OrphansWereReverted, Members
    <2> QED
      BY <1>9, <2>6 DEF Track, ReorgInv, CancelledWasReverted, NamedAreRetracted,
         RevertToCome, Unretractable, PlanCovers, PlanNamed, results, reorg, Members
  <1>11. ASSUME LookUp PROVE ReorgInv'
    <2> DEFINE b == reverts[handled + 1]
    <2>1. PICK known \in SUBSET InBlock(b) :
                 /\ index \cap InBlock(b) \subseteq known
                 /\ index' = index \cup known
                 /\ plan' = [looked |-> TRUE, todo |-> known]
      BY <1>11 DEF LookUp
    <2>2. /\ handled' = handled /\ retracted' = retracted /\ reverts' = reverts
          /\ incidents' = incidents /\ orphaned' = orphaned /\ cancelled' = cancelled
      BY <1>11 DEF LookUp, tracker, results
    <2>3. (OrphansWereReverted /\ CancelledWasReverted)'
      BY <2>2 DEF ReorgInv, OrphansWereReverted, CancelledWasReverted, Members
    <2>4. handled + 1 \in (handled + 1)..Len(reverts)
      BY <1>11 DEF LookUp, SlowPathTypeOK
    <2>5. \A i \in known : i \in index' /\ BlockOf[incidents[i]] = b
      BY <2>1 DEF InBlock
    <2>6. NamedAreRetracted'
      <3>1. \A c : RevertToCome(c)' <=> RevertToCome(c)
        BY <2>2 DEF RevertToCome
      <3>2. RevertToCome(b)
        BY <2>4 DEF RevertToCome
      <3> HIDE DEF b
      <3> QED BY <2>1, <2>2, <2>5, <3>1, <3>2
              DEF ReorgInv, NamedAreRetracted, Unretractable
    <2>7. PlanCovers'
      <3>1. \A i \in index' : b = BlockOf[incidents[i]] => i \in known
        BY <2>1 DEF InBlock, SlowPathTypeOK
      <3> QED BY <2>1, <2>2, <3>1 DEF PlanCovers
    <2>8. PlanNamed'
      BY <2>1, <2>2, <2>5 DEF PlanNamed
    <2> QED
      BY <2>3, <2>6, <2>7, <2>8 DEF ReorgInv
  <1>12. ASSUME NEW i \in plan.todo, Retract(i) PROVE ReorgInv'
    <2>1. plan'.looked = plan.looked /\ plan'.todo = plan.todo \ {i}
      BY <1>12 DEF Retract, SlowPathTypeOK
    <2>2. /\ handled' = handled /\ retracted' = retracted \cup {i} /\ reverts' = reverts
          /\ incidents' = incidents /\ orphaned' = orphaned /\ cancelled' = cancelled
          /\ index' = index
      BY <1>12 DEF Retract, tracker, results
    <2>3. (OrphansWereReverted /\ CancelledWasReverted)'
      BY <2>2 DEF ReorgInv, OrphansWereReverted, CancelledWasReverted, Members
    <2>4. NamedAreRetracted'
      BY <2>2 DEF ReorgInv, NamedAreRetracted, RevertToCome, Unretractable
    <2>5. PlanCovers' /\ PlanNamed'
      BY <2>1, <2>2 DEF ReorgInv, PlanCovers, PlanNamed
    <2> QED
      BY <2>3, <2>4, <2>5 DEF ReorgInv
  <1>13. ASSUME RevertHandled \/ \E i \in plan.todo : RetractSkips(i) PROVE ReorgInv'
    <2> DEFINE b == reverts[handled + 1]
    <2>1. /\ plan' = NoPlan /\ handled' = handled + 1 /\ retracted' = retracted
          /\ reverts' = reverts /\ incidents' = incidents /\ orphaned' = orphaned
          /\ cancelled' = cancelled /\ index' = index
      BY <1>13 DEF RevertHandled, RetractSkips, tracker, results
    <2>2. ~plan'.looked /\ handled \in Nat /\ Len(reverts) \in Nat
      BY <2>1 DEF NoPlan, SlowPathTypeOK
    <2>3. (OrphansWereReverted /\ CancelledWasReverted)'
      BY <2>1 DEF ReorgInv, OrphansWereReverted, CancelledWasReverted, Members
    <2>4. \A i \in index : b = BlockOf[incidents[i]] =>
              \/ i \in retracted
              \/ \E j \in index : BlockOf[incidents[j]] = b /\ Unretractable(j)
      <3>1. CASE RevertHandled
        BY <3>1 DEF RevertHandled, ReorgInv, PlanCovers
      <3>2. ASSUME NEW j \in plan.todo, RetractSkips(j)
            PROVE  j \in index /\ BlockOf[incidents[j]] = b /\ Unretractable(j)
        BY <3>2 DEF RetractSkips, ReorgInv, PlanNamed, SlowPathTypeOK
      <3> QED BY <1>13, <3>1, <3>2
    <2>5. \A c : RevertToCome(c) => c = b \/ RevertToCome(c)'
      <3> SUFFICES ASSUME NEW k \in (handled + 1)..Len(reverts), k # handled + 1
                   PROVE  k \in (handled' + 1)..Len(reverts')
        BY <2>1 DEF RevertToCome
      <3> QED BY <2>1, <2>2
    <2> HIDE DEF b
    <2>6. NamedAreRetracted'
      BY <2>1, <2>4, <2>5 DEF ReorgInv, NamedAreRetracted, Unretractable
    <2> QED
      BY <2>2, <2>3, <2>6 DEF ReorgInv, PlanCovers, PlanNamed
  <1>14. ASSUME ReorgConsumerStops PROVE ReorgInv'
    <2>1. ~plan'.looked
      BY <1>14 DEF ReorgConsumerStops, NoPlan
    <2> QED
      BY <1>14, <2>1 DEF ReorgConsumerStops, ReorgInv, OrphansWereReverted,
         CancelledWasReverted, NamedAreRetracted, RevertToCome, Unretractable,
         PlanCovers, PlanNamed, tracker, results, Members
  <1>15. CASE UNCHANGED vars
    BY <1>15, ReorgFrame DEF vars, results
  <1> QED
    BY <1>1, <1>2, <1>3, <1>4, <1>5, <1>6, <1>7, <1>8, <1>9, <1>11,
       <1>12, <1>13, <1>14, <1>15
    DEF Next, Dispatch, Work, ReorgConsumer

\* A job is dropped without a result only when its own block was reverted.
THEOREM OnlyRevertedCancelled == Spec => []CancelledWasReverted
  <1>1. Spec => [](SlowPathTypeOK /\ ReorgInv)
    BY TypeInit, TypeStep, ReorgInit, ReorgStep, PTL DEF Spec
  <1>2. ReorgInv => CancelledWasReverted
    BY DEF ReorgInv
  <1> QED
    BY <1>1, <1>2, PTL

\* Every incident the index named for a reverted block is retracted before the
\* revert's offset is committed, wherever the reorg consumer stopped, unless a
\* retraction of the block can never be encoded.
THEOREM NoneForgotten == Spec => []NamedAreRetracted
  <1>1. Spec => [](SlowPathTypeOK /\ ReorgInv)
    BY TypeInit, TypeStep, ReorgInit, ReorgStep, PTL DEF Spec
  <1>2. ReorgInv => NamedAreRetracted
    BY DEF ReorgInv
  <1> QED
    BY <1>1, <1>2, PTL

-----------------------------------------------------------------------------
(***************************************************************************)
(* Accounts.  AlertsAccounted needs two more facts: the alert whose job is *)
(* queued but not committed is accounted for too, and a worker's results   *)
(* left to publish are what the bus does not have yet.                     *)
(***************************************************************************)
QueuedAccounted == stage = "audit" => Accounted(dispatched + 1)

LeftIsMissing ==
    \A w \in Worker : At(w, "publish") =>
        \/ hold[w].out = Results(AlertOf(w))
        \/ hold[w].out = << "IncidentCreated" >> /\ AlertOf(w) \in completed
        \/ hold[w].out = << >> /\ Reported(AlertOf(w))

AccountInv == AlertsAccounted /\ QueuedAccounted /\ LeftIsMissing

\* Where an outstanding job is.
LEMMA OutstandingIs ==
    ASSUME NEW a
    PROVE  Outstanding(a) # {} <=>
              \/ \E j \in ready : j.alert = a
              \/ \E w \in Worker : hold[w].job.alert = a
  BY DEF Outstanding

LEMMA OutstandingIsNext ==
    ASSUME NEW a
    PROVE  (Outstanding(a) # {})' <=>
              \/ \E j \in ready' : j.alert = a
              \/ \E w \in Worker : hold'[w].job.alert = a
  BY DEF Outstanding

\* A step in which at most one worker lets go of its job and nothing else is
\* forgotten keeps every account, if it keeps that job's.
LEMMA Handover ==
    ASSUME NEW w \in Worker, NEW a, Accounted(a),
           \A v \in Worker \ {w} : hold'[v] = hold[v],
           ready \subseteq ready', dead \subseteq dead', cancelled \subseteq cancelled',
           completed \subseteq completed', Members(incidents) \subseteq Members(incidents'),
           a = AlertOf(w) => Accounted(a)'
    PROVE  Accounted(a)'
  <1>1. CASE a = AlertOf(w)
    BY <1>1
  <1>2. CASE a # AlertOf(w) /\ Outstanding(a) # {}
    <2>1. PICK j \in ready \cup {hold[v].job : v \in Worker} : j.alert = a
      BY <1>2 DEF Outstanding
    <2>2. (\E q \in ready' : q.alert = a) \/ \E v \in Worker : hold'[v].job.alert = a
      BY <1>2, <2>1 DEF AlertOf
    <2> QED
      BY <2>2, OutstandingIsNext DEF Accounted
  <1>3. CASE Outstanding(a) = {}
    BY <1>3 DEF Accounted, Reported
  <1> QED
    BY <1>1, <1>2, <1>3

\* The parts of an account survive on their own.
LEMMA ByQueue ==
    ASSUME NEW a, \E j \in ready' : j.alert = a
    PROVE  Accounted(a)'
  BY OutstandingIsNext DEF Accounted

LEMMA ByWorker ==
    ASSUME NEW a, NEW w \in Worker, hold'[w].job.alert = a
    PROVE  Accounted(a)'
  BY OutstandingIsNext DEF Accounted

\* No step loses an account.
LEMMA AccountKept ==
    ASSUME SlowPathTypeOK, LeftIsMissing, [Next]_vars, NEW a \in Nat \ {0}, Accounted(a)
    PROVE  Accounted(a)'
  <1>1. ASSUME NEW b \in Alert, DispatchJob(b) PROVE Accounted(a)'
    <2>1. /\ ready \subseteq ready' /\ hold' = hold /\ dead' = dead
          /\ completed' = completed /\ incidents' = incidents /\ cancelled' = cancelled
      BY <1>1 DEF DispatchJob, results
    <2>2. CASE Outstanding(a) # {}
      BY <2>1, <2>2, OutstandingIs, OutstandingIsNext DEF Accounted
    <2> QED
      BY <2>1, <2>2 DEF Accounted, Reported, Members
  <1>2. ASSUME UNCHANGED <<ready, dead, hold, results, cancelled>> PROVE Accounted(a)'
    BY <1>2 DEF Accounted, Outstanding, Reported, results, Members
  <1>3. ASSUME NEW w \in Worker, NEW j \in ready, Take(w, j) PROVE Accounted(a)'
    <2>1. /\ ready' = ready \ {j} /\ hold'[w].job = j /\ hold[w] = Idle
          /\ \A v \in Worker \ {w} : hold'[v] = hold[v]
          /\ dead' = dead /\ completed' = completed /\ incidents' = incidents
          /\ cancelled' = cancelled
      BY <1>3 DEF Take, SlowPathTypeOK, results
    <2>2. hold[w].job.alert # a
      BY <2>1 DEF Idle, NoJob
    <2>3. CASE Outstanding(a) # {}
      BY <2>1, <2>2, <2>3, OutstandingIs, OutstandingIsNext DEF Accounted
    <2> QED
      BY <2>1, <2>3 DEF Accounted, Reported, Members
  <1>4. ASSUME NEW w \in Worker, Resolve(w) PROVE Accounted(a)'
    <2>1. hold[w] # Idle
      BY <1>4, AtIsBusy DEF Resolve
    <2>2. /\ ready' = ready /\ dead' = dead /\ completed' = completed
          /\ incidents' = incidents /\ cancelled \subseteq cancelled'
      BY <1>4 DEF Resolve, Ack, queue, results
    <2>3. /\ \A v \in Worker \ {w} : hold'[v] = hold[v]
          /\ \/ AlertOf(w) \in cancelled'
             \/ hold'[w].job = hold[w].job
      <3>1. << >> \in Seq(Event)
        OBVIOUS
      <3> QED
        BY <1>4, <2>1, <3>1, SettlesTyped, HoldMoves DEF Resolve
    <2>4. a = AlertOf(w) => Accounted(a)'
      BY <2>3, ByWorker DEF AlertOf, Accounted
    <2> QED
      BY <2>2, <2>3, <2>4, Handover DEF Members
  <1>5. ASSUME NEW w \in Worker, Simulate(w) PROVE Accounted(a)'
    <2>1. /\ \A v \in Worker \ {w} : hold'[v] = hold[v]
          /\ hold'[w].job = hold[w].job
      BY <1>5, AtIsBusy, HoldsJob, ResultsTyped, HoldMoves DEF Simulate
    <2>2. a = AlertOf(w) => Accounted(a)'
      BY <2>1, ByWorker DEF AlertOf
    <2>3. /\ ready' = ready /\ dead' = dead /\ completed' = completed
          /\ incidents' = incidents /\ cancelled' = cancelled
      BY <1>5 DEF Simulate, queue, results
    <2> QED
      BY <2>1, <2>2, <2>3, Handover DEF Members
  <1>6. ASSUME NEW w \in Worker, hold[w] # Idle, Requeue(hold[w].job), Settles(w),
               UNCHANGED <<results, cancelled>>
        PROVE  Accounted(a)'
    <2>1. hold[w].job \in Job
      BY <1>6, HoldsJob
    <2>2. /\ ready \subseteq ready' /\ dead \subseteq dead'
          /\ \E q \in ready' \cup dead' : q.alert = AlertOf(w)
      BY <1>6, <2>1, RequeueTyped DEF AlertOf
    <2>3. a = AlertOf(w) => Accounted(a)'
      BY <2>2, ByQueue DEF Accounted
    <2>4. \A v \in Worker \ {w} : hold'[v] = hold[v]
      BY <1>6, SettlesTyped
    <2> QED
      BY <1>6, <2>2, <2>3, <2>4, Handover DEF results, Members
  <1>7. ASSUME NEW w \in Worker, Falters(w) PROVE Accounted(a)'
    BY <1>6, <1>7, AtIsBusy DEF Falters
  <1>8. ASSUME NEW w \in Worker, WorkerStops(w) PROVE Accounted(a)'
    <2>1. CASE hold[w] = Idle
      <3>1. hold' = hold
        BY <1>8, <2>1 DEF WorkerStops, Settles, SlowPathTypeOK
      <3> QED
        BY <1>2, <1>8, <2>1, <3>1 DEF WorkerStops, queue
    <2>2. CASE hold[w] # Idle
      BY <1>6, <1>8, <2>2 DEF WorkerStops
    <2> QED
      BY <2>1, <2>2
  <1>9. ASSUME NEW w \in Worker, Poisoned(w) PROVE Accounted(a)'
    <2>1. /\ ready' = ready /\ dead' = dead \cup {hold[w].job}
          /\ completed' = completed /\ incidents' = incidents /\ cancelled' = cancelled
      BY <1>9 DEF Poisoned, DeadLetter, results
    <2>2. a = AlertOf(w) => Accounted(a)'
      BY <2>1 DEF Accounted, AlertOf
    <2>3. \A v \in Worker \ {w} : hold'[v] = hold[v]
      BY <1>9, SettlesTyped DEF Poisoned
    <2> QED
      BY <2>1, <2>2, <2>3, Handover DEF Members
  <1>10. ASSUME NEW w \in Worker, PublishResult(w) PROVE Accounted(a)'
    <2>1. hold[w] # Idle /\ AlertOf(w) \in Alert /\ hold[w].out \in Seq(Event)
      BY <1>10, AtIsBusy, HoldsJob DEF PublishResult
    <2>2. Tail(hold[w].out) \in Seq(Event)
      BY <1>10, <2>1 DEF PublishResult
    <2>3. /\ \A v \in Worker \ {w} : hold'[v] = hold[v]
          /\ hold'[w].job = hold[w].job
      BY <1>10, <2>1, <2>2, HoldMoves DEF PublishResult
    <2>4. a = AlertOf(w) => Accounted(a)'
      BY <2>3, ByWorker DEF AlertOf
    <2>5. Members(incidents) \subseteq Members(incidents')
      BY <1>10, <2>1, IncidentAppends DEF PublishResult
    <2>6. /\ ready' = ready /\ dead' = dead /\ completed \subseteq completed'
          /\ cancelled' = cancelled
      BY <1>10 DEF PublishResult, queue
    <2> QED
      BY <2>3, <2>4, <2>5, <2>6, Handover
  <1>11. ASSUME NEW w \in Worker, SettleResults(w) PROVE Accounted(a)'
    <2>1. /\ ready' = ready /\ dead' = dead /\ completed' = completed
          /\ incidents' = incidents /\ cancelled' = cancelled
      BY <1>11 DEF SettleResults, Ack, queue, results
    <2>2. Results(AlertOf(w)) # << >>
      BY SMT DEF Results
    <2>3. Reported(AlertOf(w))
      <3>1. At(w, "publish") /\ hold[w].out = << >>
        BY <1>11 DEF SettleResults
      <3>2. << "IncidentCreated" >> # << >>
        BY SMT
      <3> QED
        BY <2>2, <3>1, <3>2 DEF LeftIsMissing
    <2>4. a = AlertOf(w) => Accounted(a)'
      BY <2>1, <2>3 DEF Accounted, Reported, Members
    <2>5. \A v \in Worker \ {w} : hold'[v] = hold[v]
      BY <1>11, SettlesTyped DEF SettleResults
    <2> QED
      BY <2>1, <2>4, <2>5, Handover DEF Members
  <1> QED
    BY <1>1, <1>2, <1>3, <1>4, <1>5, <1>7, <1>8, <1>9, <1>10, <1>11
    DEF Next, Dispatch, Work, ReorgConsumer, vars, queue, DispatchAudit, DispatcherStops,
        Track, Revert, LookUp, Retract, RetractSkips, RevertHandled, ReorgConsumerStops

\* A result leaves a worker's list when it is on the bus.
LEMMA LeftStep ==
    ASSUME SlowPathTypeOK, LeftIsMissing, [Next]_vars
    PROVE  LeftIsMissing'
  <1> DEFINE Left(w) ==
        At(w, "publish") =>
            \/ hold[w].out = Results(AlertOf(w))
            \/ hold[w].out = << "IncidentCreated" >> /\ AlertOf(w) \in completed
            \/ hold[w].out = << >> /\ Reported(AlertOf(w))
  <1>1. ASSUME NEW v \in Worker, hold'[v] = hold[v], completed \subseteq completed',
               Members(incidents) \subseteq Members(incidents')
        PROVE  Left(v)'
    <2>1. Left(v)
      BY DEF LeftIsMissing
    <2>2. Reported(AlertOf(v)) => Reported(AlertOf(v))'
      BY <1>1 DEF Reported, AlertOf
    <2> QED
      BY <1>1, <2>1, <2>2 DEF At, AlertOf
  <1>2. ASSUME NEW v \in Worker, hold'[v].step # "publish" PROVE Left(v)'
    BY <1>2 DEF At
  <1>3. ASSUME hold' = hold, UNCHANGED results PROVE LeftIsMissing'
    BY <1>1, <1>3 DEF LeftIsMissing, results, Members
  <1>4. ASSUME NEW w \in Worker, UNCHANGED results, hold'[w].step # "publish",
               \A v \in Worker \ {w} : hold'[v] = hold[v]
        PROVE  LeftIsMissing'
    BY <1>1, <1>2, <1>4 DEF LeftIsMissing, results, Members
  <1>5. ASSUME NEW w \in Worker, Settles(w), UNCHANGED results PROVE LeftIsMissing'
    <2>1. hold'[w].step # "publish" /\ \A v \in Worker \ {w} : hold'[v] = hold[v]
      BY <1>5, SettlesTyped DEF Idle
    <2> QED
      BY <1>4, <1>5, <2>1
  <1>6. ASSUME NEW w \in Worker, NEW j \in ready, Take(w, j) PROVE LeftIsMissing'
    <2>1. hold'[w].step # "publish" /\ \A v \in Worker \ {w} : hold'[v] = hold[v]
      BY <1>6 DEF Take, SlowPathTypeOK
    <2> QED
      BY <1>4, <1>6, <2>1 DEF Take
  <1>7. ASSUME NEW w \in Worker, Resolve(w) PROVE LeftIsMissing'
    <2>1. hold[w] # Idle /\ << >> \in Seq(Event)
      BY <1>7, AtIsBusy DEF Resolve
    <2>2. hold'[w].step # "publish" /\ \A v \in Worker \ {w} : hold'[v] = hold[v]
      <3>1. Idle.step # "publish"
        BY DEF Idle
      <3>2. Settles(w) \/ Moves(w, "simulate", << >>)
        BY <1>7 DEF Resolve
      <3>3. CASE Settles(w)
        BY <3>1, <3>3, SettlesTyped
      <3>4. CASE Moves(w, "simulate", << >>)
        BY <2>1, <3>4, HoldMoves
      <3> QED
        BY <3>2, <3>3, <3>4
    <2> QED
      BY <1>4, <1>7, <2>2 DEF Resolve
  <1>8. ASSUME NEW w \in Worker, Simulate(w) PROVE LeftIsMissing'
    <2>1. /\ hold'[w].job = hold[w].job /\ hold'[w].out = Results(AlertOf(w))
          /\ \A v \in Worker \ {w} : hold'[v] = hold[v]
      BY <1>8, AtIsBusy, HoldsJob, ResultsTyped, HoldMoves DEF Simulate
    <2>2. Left(w)'
      <3>1. AlertOf(w)' = AlertOf(w)
        BY <2>1 DEF AlertOf
      <3> QED
        BY <2>1, <3>1
    <2> QED
      BY <1>1, <1>8, <2>1, <2>2 DEF LeftIsMissing, Simulate, results, Members
  <1>9. ASSUME NEW w \in Worker, PublishResult(w) PROVE LeftIsMissing'
    <2> DEFINE a == AlertOf(w)
               out == hold[w].out
    <2>1. hold[w] # Idle /\ a \in Alert /\ out \in Seq(Event) /\ out # << >>
      BY <1>9, AtIsBusy, HoldsJob DEF PublishResult
    <2>2. Tail(out) \in Seq(Event)
      BY <2>1
    <2>3. /\ hold'[w].job = hold[w].job /\ hold'[w].out = Tail(out)
          /\ \A v \in Worker \ {w} : hold'[v] = hold[v]
      BY <1>9, <2>1, <2>2, HoldMoves DEF PublishResult
    <2>4. /\ Head(out) = "SimulationCompleted" => completed' = completed \cup {a}
          /\ Head(out) # "SimulationCompleted" => completed' = completed
          /\ Head(out) = "IncidentCreated" => incidents' = Append(incidents, a)
          /\ Head(out) # "IncidentCreated" => incidents' = incidents
      BY <1>9 DEF PublishResult
    <2>5. /\ completed \subseteq completed'
          /\ Members(incidents) \subseteq Members(incidents')
          /\ Head(out) = "IncidentCreated" => a \in Members(incidents')
      BY <2>1, <2>4, IncidentAppends
    <2>6. \/ out = Results(a)
          \/ out = << "IncidentCreated" >> /\ a \in completed
      BY <1>9, <2>1 DEF PublishResult, LeftIsMissing
    <2>7. AlertOf(w)' = a
      BY <2>3 DEF AlertOf
    <2>8. Left(w)'
      <3>1. CASE out = << "SimulationCompleted", "IncidentCreated" >>
        <4>1. Head(out) = "SimulationCompleted" /\ Tail(out) = << "IncidentCreated" >>
          BY <3>1
        <4> QED
          BY <2>3, <2>4, <2>7, <4>1
      <3>2. CASE out = << "SimulationCompleted" >> /\ a \notin Confirmed
        <4>1. Head(out) = "SimulationCompleted" /\ Tail(out) = << >>
          BY <3>2
        <4> QED
          BY <2>3, <2>4, <2>7, <3>2, <4>1 DEF Reported
      <3>3. CASE out = << "IncidentCreated" >> /\ a \in completed
        <4>1. Head(out) = "IncidentCreated" /\ Tail(out) = << >>
          BY <3>3
        <4> QED
          BY <2>3, <2>5, <2>7, <3>3, <4>1 DEF Reported
      <3> QED
        BY <2>6, <3>1, <3>2, <3>3 DEF Results
    <2>9. \A v \in Worker \ {w} : Left(v)'
      BY <1>1, <2>3, <2>5
    <2> QED
      BY <2>8, <2>9 DEF LeftIsMissing
  <1>10. ASSUME NEW w \in Worker,
                Falters(w) \/ Poisoned(w) \/ SettleResults(w) \/ WorkerStops(w)
         PROVE  LeftIsMissing'
    BY <1>5, <1>10 DEF Falters, Poisoned, SettleResults, WorkerStops
  <1> QED
    BY <1>3, <1>6, <1>7, <1>8, <1>9, <1>10
    DEF Next, Dispatch, Work, ReorgConsumer, vars, results, DispatchJob, DispatchAudit,
        DispatcherStops, Track, Revert, LookUp, Retract, RetractSkips, RevertHandled,
        ReorgConsumerStops

LEMMA AccountInit == Init => AccountInv
  BY DEF Init, AccountInv, AlertsAccounted, QueuedAccounted, LeftIsMissing, At, Idle

LEMMA AccountStep == SlowPathTypeOK /\ AccountInv /\ [Next]_vars => AccountInv'
  <1> SUFFICES ASSUME SlowPathTypeOK, AccountInv, [Next]_vars PROVE AccountInv'
    OBVIOUS
  <1> USE DEF AccountInv
  <1>1. LeftIsMissing'
    BY LeftStep
  <1>2. dispatched \in Nat
    BY DEF SlowPathTypeOK
  <1>3. \A a \in Nat \ {0} : Accounted(a) => Accounted(a)'
    BY AccountKept
  <1>4. CASE UNCHANGED <<dispatched, stage>>
    <2>1. AlertsAccounted'
      BY <1>2, <1>3, <1>4 DEF AlertsAccounted
    <2>2. QueuedAccounted'
      BY <1>2, <1>3, <1>4 DEF QueuedAccounted
    <2> QED
      BY <1>1, <2>1, <2>2
  <1>5. ASSUME NEW a \in Alert, DispatchJob(a) PROVE AccountInv'
    <2> DEFINE j == [id |-> sent', alert |-> a, tries |-> 0]
    <2>1. j \in ready' /\ j.alert = a
      BY <1>5 DEF DispatchJob
    <2> HIDE DEF j
    <2>2. j \in Outstanding(dispatched + 1)'
      <3>1. j.alert = (dispatched + 1)'
        BY <1>5, <2>1 DEF DispatchJob, Pending
      <3> QED
        BY <2>1, <3>1 DEF Outstanding
    <2>3. QueuedAccounted'
      BY <2>2 DEF QueuedAccounted, Accounted
    <2>4. AlertsAccounted'
      BY <1>2, <1>3, <1>5 DEF DispatchJob, AlertsAccounted
    <2> QED
      BY <1>1, <2>3, <2>4
  <1>6. ASSUME NEW a \in Alert, DispatchAudit(a) PROVE AccountInv'
    <2>1. /\ dispatched' = dispatched + 1 /\ stage' = "job" /\ a = dispatched + 1
          /\ stage = "audit" \/ Fault[a] = "queue"
      BY <1>6 DEF DispatchAudit, Pending
    <2>2. Accounted(dispatched + 1)
      BY <2>1 DEF QueuedAccounted, Accounted
    <2>3. AlertsAccounted'
      BY <1>2, <1>3, <2>1, <2>2 DEF AlertsAccounted
    <2> QED
      BY <1>1, <2>1, <2>3 DEF QueuedAccounted
  <1>7. ASSUME DispatcherStops PROVE AccountInv'
    <2>1. AlertsAccounted'
      BY <1>2, <1>3, <1>7 DEF DispatcherStops, AlertsAccounted
    <2> QED
      BY <1>1, <1>7, <2>1 DEF DispatcherStops, QueuedAccounted
  <1> QED
    BY <1>4, <1>5, <1>6, <1>7
    DEF Next, Dispatch, Work, ReorgConsumer, vars, dispatcher, Take, Resolve, Simulate,
        Falters, Poisoned, PublishResult, SettleResults, WorkerStops, Track, Revert,
        LookUp, Retract, RetractSkips, RevertHandled, ReorgConsumerStops

\* No alert gets lost between Kafka, the job queue and the workers, however
\* often the processes stop and the jobs come back.
THEOREM NoAlertLost == Spec => []AlertsAccounted
  <1>1. Spec => [](SlowPathTypeOK /\ AccountInv)
    BY TypeInit, TypeStep, AccountInit, AccountStep, PTL DEF Spec
  <1>2. AccountInv => AlertsAccounted
    BY DEF AccountInv
  <1> QED
    BY <1>1, <1>2, PTL
=============================================================================
