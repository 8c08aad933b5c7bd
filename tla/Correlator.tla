----------------------------- MODULE Correlator -----------------------------
(***************************************************************************)
(* The cross-chain correlator (crates/cross-chain-correlator): one bridge  *)
(* or pair of one replica.                                                 *)
(*                                                                         *)
(*   chain consumers --channel--> correlation actor --> findings           *)
(*                                   |  leg changelog (LegBuffer)          *)
(*   BlockReverted, BlockFinalized   |  finding changelog (FindingTracker) *)
(*           --> finality consumer --+--> retractions                      *)
(*                                                                         *)
(* The actor changes its buffer in memory, appends every change to the leg *)
(* changelog, and only then records, tracks and publishes what it found.   *)
(* Actor and finality consumer share the tracker; each appends to the      *)
(* finding changelog first and takes the tracker's lock afterwards.  A     *)
(* restart rebuilds buffer and tracker from the changelogs.                *)
(*                                                                         *)
(* A changelog is modelled by what its replay would return: replay folds   *)
(* the entries one by one, so appending an entry is applying it.           *)
(***************************************************************************)
EXTENDS LegBuffer, FindingTracker

CONSTANTS
    Block,
    BlockOf,        \* the block a leg is in
    Feed,           \* Feed[c]: the legs in chain c's records, in log order
    DedupCap,       \* dedup_capacity of a chain consumer, at least 1
    ChannelCap,     \* actor_channel_capacity
    MaxTime,        \* bound: the clock
    MaxLag,         \* bound: the records of a chain delivered again after a fault
    MaxFaults       \* bound: crashes, shutdowns and rebalances

Chain == DOMAIN Feed

ASSUME CorrelatorAssumption ==
    /\ \A l \in Leg : BlockOf[l] \in Block /\ ChainOf[l] \in Chain /\ Observed[l] \in Int
    /\ \A c \in Chain : Feed[c] \in Seq(Leg)
    \* a record is an event of its own
    /\ \A c, d \in Chain : \A i \in DOMAIN Feed[c], j \in DOMAIN Feed[d] :
          Feed[c][i] = Feed[d][j] => c = d /\ i = j
    /\ Capacity \in Nat \ {0} /\ DedupCap \in Nat \ {0} /\ ChannelCap \in Nat \ {0}
    /\ Window \in Nat /\ Retention \in Nat /\ FindingCap \in Nat
    /\ MaxTime \in Nat /\ MaxLag \in Nat /\ MaxFaults \in Nat

VARIABLES
    now,
    pos,            \* pos[c]: records chain c's consumer has handled
    floor,          \* floor[c]: the least offset the broker may have for it
    seen,           \* seen[c]: its ring of handled envelopes
    channel,        \* legs on their way to the actor
    buffer,         \* actor: the candidate legs
    todo,           \* actor: what is left to do for the leg in hand: changelog
                    \* entries, then the steps of the finding, found's last
    legLog,         \* the legs a replay of the leg changelog returns
    found,          \* found[n]: the legs of finding n
    tracker,        \* the tracked findings
    findingLog,     \* what a replay of the finding changelog tracks
    published,      \* findings on the bus
    emitted,        \* the fates of blocks the finality consumer was told
    again,          \* those it will be told again
    hand,           \* finality consumer: the fate in hand and how far it is
    retracted,      \* findings with a retraction on the bus
    stopping,       \* the shutdown token
    faults,         \* counter for the bound
    high,           \* history: the most records handled, per chain
    loose,          \* history: legs routed again, or changed without an entry
    shadowed,       \* history: legs in the buffer when an entry that took another
                    \* leg out took their hash out of the changelog
    gone,           \* history: blocks whose revert has reached the tracker
    excused         \* history: findings whose tracking was given up or too late

input    == <<pos, floor, seen, channel, high>>
actor    == <<buffer, todo, legLog, found>>
tracking == <<tracker, findingLog>>
output   == <<published, retracted>>
chain    == <<emitted, again>>
vars     == <<now, input, actor, tracking, output, chain, hand, stopping, faults,
              loose, shadowed, gone, excused>>

Fate == [type : {"Reverted", "Finalized"}, block : Block]
NoFate == [type |-> "none", block |-> "none"]
Idle == [entries |-> << >>, steps |-> << >>]
Free == [fate |-> NoFate, step |-> "free", out |-> {}]
BlocksOf(f) == {BlockOf[l] : l \in found[f]}

Init ==
    /\ now = 0
    /\ pos = [c \in Chain |-> 0] /\ floor = pos /\ high = pos
    /\ seen = [c \in Chain |-> << >>] /\ channel = << >>
    /\ buffer = EmptyBuffer /\ todo = Idle /\ legLog = << >> /\ found = << >>
    /\ tracker = {} /\ findingLog = {}
    /\ published = {} /\ retracted = {}
    /\ emitted = {} /\ again = {} /\ hand = Free
    /\ stopping = FALSE /\ faults = 0
    /\ loose = {} /\ shadowed = {} /\ gone = {} /\ excused = {}

Tick ==
    /\ now < MaxTime
    /\ now' = now + 1
    /\ UNCHANGED <<input, actor, tracking, output, chain, hand, stopping, faults,
                   loose, shadowed, gone, excused>>

-----------------------------------------------------------------------------
(***************************************************************************)
(* ChainConsumer::dispatch and LegRouter::route.                           *)
(***************************************************************************)
\* SeenEnvelopes::insert.
Ring(ids, l) ==
    LET more == Append(ids, l) IN IF Len(more) > DedupCap THEN Tail(more) ELSE more

\* The next record of chain c, routed or not: the offset advances in any case
\* and a leg that finds the channel full is dropped.
Handle(c, routed) ==
    LET l == Feed[c][pos[c] + 1]
        new == l \notin Members(seen[c])
    IN /\ ~stopping /\ pos[c] < Len(Feed[c]) /\ Observed[l] <= now
       /\ pos' = [pos EXCEPT ![c] = @ + 1]
       /\ seen' = [seen EXCEPT ![c] = IF new THEN Ring(@, l) ELSE @]
       /\ channel' = IF routed /\ Len(channel) < ChannelCap THEN Append(channel, l)
                     ELSE channel
       /\ high' = [high EXCEPT ![c] = IF pos[c] < @ THEN @ ELSE @ + 1]
       /\ loose' = IF new /\ pos[c] < high[c] THEN loose \cup {l} ELSE loose
       /\ UNCHANGED <<now, floor, actor, tracking, output, chain, hand, stopping,
                      faults, shadowed, gone, excused>>

\* Mutant of Deliver: a redelivery is routed like any record.
DeliverAgain(c) == Handle(c, TRUE)

\* dispatch: a redelivery the ring still knows is skipped.
Deliver(c) == Handle(c, Feed[c][pos[c] + 1] \notin Members(seen[c]))

\* The offsets the broker may have: the commits lag behind.
Committed(c) == {p \in floor[c]..pos[c] : pos[c] - p <= MaxLag}

\* A rebalance resumes at the committed offset.
Rebalance(c) ==
    /\ ~stopping /\ faults < MaxFaults
    /\ faults' = faults + 1
    /\ \E p \in Committed(c) :
          /\ pos' = [pos EXCEPT ![c] = p]
          /\ floor' = [floor EXCEPT ![c] = p]
    /\ UNCHANGED <<now, seen, channel, high, actor, tracking, output, chain, hand,
                   stopping, loose, shadowed, gone, excused>>

-----------------------------------------------------------------------------
(***************************************************************************)
(* CorrelationActor::on_leg and run.                                       *)
(***************************************************************************)
Entry(op, l) == [op |-> op, leg |-> l]
Entries(op, legs) == [i \in DOMAIN legs |-> Entry(op, legs[i])]

\* Mutant of Steps: the finding is public before it is tracked.
StepsPublicFirst == << "publish", "record", "track" >>

\* What run does with a finding, after the changelog entries of its legs.
Steps == << "record", "track", "publish" >>

\* The legs that entries will take out of the changelog: all with the hash.
Dropped(entries) ==
    {x \in Leg : \E e \in Members(entries) : e.op = "removed" /\ x \in SameTx(e.leg)}

\* The next leg: joined with what the buffer holds, or buffered itself.
OnLeg ==
    LET l == Head(channel)
        matched == Matched(buffer, l)
        taken == Consumed(buffer, matched)
    IN /\ ~stopping /\ todo = Idle /\ channel # << >>
       /\ channel' = Tail(channel)
       /\ IF matched # << >>
          THEN /\ buffer' = Consume(buffer, matched)
               /\ found' = Append(found, Members(taken) \cup {l})
               /\ todo' = [entries |-> Entries("removed", taken), steps |-> Steps]
          ELSE /\ buffer' = Insert(buffer, l, now)
               /\ todo' = [entries |-> << Entry("buffered", l) >> \o
                                       Entries("removed", Evicted(buffer, now)),
                           steps |-> << >>]
               /\ UNCHANGED found
       /\ shadowed' = shadowed \cup (Members(buffer'.legs) \cap Dropped(todo'.entries))
       /\ UNCHANGED <<now, pos, floor, seen, high, legLog, tracking, output, chain, hand,
                      stopping, faults, loose, gone, excused>>

\* The next step of the finding is op; it is done.
Doing(op) ==
    /\ todo.entries = << >> /\ todo.steps # << >> /\ Head(todo.steps) = op
    /\ todo' = [todo EXCEPT !.steps = Tail(@)]

\* changelog apply_entry: a removal is by hash.
ApplyEntry(legs, e) ==
    IF e.op = "buffered" THEN Append(legs, e.leg)
    ELSE Sift(legs, Leg \ SameTx(e.leg))

\* ChangelogWriter::append lands, or is given up at shutdown.
AppendEntry ==
    LET e == Head(todo.entries)
    IN /\ todo.entries # << >>
       /\ todo' = [todo EXCEPT !.entries = Tail(@)]
       /\ \/ legLog' = ApplyEntry(legLog, e) /\ UNCHANGED loose
          \/ stopping /\ loose' = loose \cup {e.leg} /\ UNCHANGED legLog
       /\ UNCHANGED <<now, input, buffer, found, tracking, output, chain, hand,
                      stopping, faults, shadowed, gone, excused>>

\* SharedFindingFinalityTracker::record_finding: the journal entry, which may
\* be given up at shutdown ...
RecordFinding ==
    LET f == Len(found)
    IN /\ Doing("record")
       /\ \/ /\ findingLog' = InsertRaw(findingLog, f, BlocksOf(f), now)
             /\ UNCHANGED excused
          \/ stopping /\ excused' = excused \cup {f} /\ UNCHANGED findingLog
       /\ UNCHANGED <<now, input, buffer, legLog, found, tracker, output, chain,
                      hand, stopping, faults, loose, shadowed, gone>>

\* ... then the tracker, under its lock.
TrackFinding ==
    LET f == Len(found)
        more == InsertRaw(tracker, f, BlocksOf(f), now)
    IN /\ Doing("track")
       /\ tracker' = Sweep(more, now)
       /\ excused' = excused \cup {r.id : r \in more \ tracker'} \cup
                     (IF BlocksOf(f) \cap gone = {} THEN {} ELSE {f})
       /\ UNCHANGED <<now, input, buffer, legLog, found, findingLog, output, chain,
                      hand, stopping, faults, loose, shadowed, gone>>

\* publish_resilient; the loss, at shutdown or of an event the bus cannot take,
\* is accepted.
PublishFinding ==
    /\ Doing("publish")
    /\ \/ published' = published \cup {Len(found)}
       \/ UNCHANGED published
    /\ UNCHANGED <<now, input, buffer, legLog, found, tracking, retracted, chain,
                   hand, stopping, faults, loose, shadowed, gone, excused>>

-----------------------------------------------------------------------------
(***************************************************************************)
(* FinalityConsumer::process.                                              *)
(***************************************************************************)
\* The next event, of either topic and any chain: a block is reverted or final,
\* once, unless the event is delivered again.
TakeFate(e) ==
    /\ ~stopping /\ hand = Free
    /\ \/ e \in again
       \/ \A x \in emitted : x.block # e.block
    /\ emitted' = emitted \cup {e} /\ again' = again \ {e}
    /\ hand' = [fate |-> e, step |-> "journal", out |-> {}]
    /\ UNCHANGED <<now, input, actor, tracking, output, stopping, faults, loose,
                   shadowed, gone, excused>>

Apply(t, e) ==
    IF e.type = "Finalized" THEN OnBlockFinalized(t, e.block)
    ELSE OnBlockReverted(t, e.block)

\* The call is journaled, or the append is given up at shutdown ...
JournalFate ==
    /\ hand.step = "journal"
    /\ \/ findingLog' = Apply(findingLog, hand.fate)
       \/ stopping /\ UNCHANGED findingLog
    /\ hand' = [hand EXCEPT !.step = "apply"]
    /\ UNCHANGED <<now, input, actor, tracker, output, chain, stopping, faults,
                   loose, shadowed, gone, excused>>

\* The findings left to retract; with none the event is handled.
Retracting(out) ==
    IF out = {} THEN Free ELSE [fate |-> hand.fate, step |-> "publish", out |-> out]

\* ... then applied to the tracker, under its lock.
ApplyFate ==
    LET e == hand.fate
        reverted == e.type = "Reverted"
    IN /\ hand.step = "apply"
       /\ tracker' = Apply(tracker, e)
       /\ hand' = Retracting(IF reverted THEN {r.id : r \in Waiting(tracker, e.block)}
                             ELSE {})
       /\ gone' = IF reverted THEN gone \cup {e.block} ELSE gone
       /\ UNCHANGED <<now, input, actor, findingLog, output, chain, stopping, faults,
                      loose, shadowed, excused>>

\* One CrossChainFindingRetracted each; a publish given up, at shutdown or for
\* good, is an accepted loss.
RetractFinding(f) ==
    /\ hand' = Retracting(hand.out \ {f})
    /\ \/ retracted' = retracted \cup {f} /\ UNCHANGED excused
       \/ excused' = excused \cup {f} /\ UNCHANGED retracted
    /\ UNCHANGED <<now, input, actor, tracking, published, chain, stopping, faults,
                   loose, shadowed, gone>>

-----------------------------------------------------------------------------
(***************************************************************************)
(* Stops.                                                                  *)
(***************************************************************************)
Shutdown ==
    /\ ~stopping /\ faults < MaxFaults
    /\ stopping' = TRUE /\ faults' = faults + 1
    /\ UNCHANGED <<now, input, actor, tracking, output, chain, hand, loose, shadowed,
                   gone, excused>>

\* A new process: replay, new_with_seed and evict_now.  The chain consumers
\* resume at the committed offsets.  The finality consumer's offsets are
\* committed in the background, on receipt: an event it had, handled or not,
\* is delivered again or never.
Boot ==
    /\ \E p \in [Chain -> UNION {Committed(c) : c \in Chain}] :
          /\ \A c \in Chain : p[c] \in Committed(c)
          /\ pos' = p /\ floor' = p
    /\ seen' = [c \in Chain |-> << >>] /\ channel' = << >>
    /\ buffer' = EvictExpired(Seed(legLog), now) /\ todo' = Idle
    /\ loose' = loose \cup (Members(legLog) \ Members(Seed(legLog).legs))
    /\ shadowed' = {}
    /\ tracker' = Sweep(findingLog, now)
    /\ excused' = excused \cup {r.id : r \in findingLog \ tracker'} \cup
          (IF hand.step \in {"apply", "publish"} /\ hand.fate.type = "Reverted"
           THEN {f \in DOMAIN found : hand.fate.block \in BlocksOf(f)} ELSE {})
    /\ hand' = Free
    /\ again' \in SUBSET emitted
    /\ stopping' = FALSE
    /\ UNCHANGED <<now, high, legLog, found, findingLog, output, emitted, gone>>

Restart == stopping /\ todo = Idle /\ hand = Free /\ Boot /\ UNCHANGED faults
Crash == faults < MaxFaults /\ Boot /\ faults' = faults + 1

Actor == OnLeg \/ AppendEntry \/ RecordFinding \/ TrackFinding \/ PublishFinding
FinalityConsumer ==
    \/ \E e \in Fate : TakeFate(e)
    \/ JournalFate \/ ApplyFate \/ \E f \in hand.out : RetractFinding(f)

Next ==
    \/ Tick
    \/ \E c \in Chain : Deliver(c) \/ Rebalance(c)
    \/ Actor
    \/ FinalityConsumer
    \/ Shutdown \/ Restart \/ Crash

Spec == Init /\ [][Next]_vars

-----------------------------------------------------------------------------
(***************************************************************************)
(* Properties                                                              *)
(***************************************************************************)
Held(legs, l) == l \in Members(legs)

\* Between two legs a replay of the leg changelog would bring back no leg that
\* was joined or evicted, and every candidate ("rebuild the exact set of
\* in-flight legs", changelog.rs), but for legs past the window, legs delivered
\* again, and legs that changed without an entry: an append given up at shutdown,
\* a seed larger than the capacity.  A candidate may be missing only if another
\* leg of its transaction left the buffer before it: remove takes one leg, the
\* replay of its entry all with the hash.
ReplayRestoresBuffer ==
    todo = Idle =>
        \A l \in Leg \ loose :
            ~Expired(l, now) =>
                /\ Held(legLog, l) => Held(buffer.legs, l)
                /\ Held(buffer.legs, l) => Held(legLog, l) \/ l \in shadowed

\* A leg counts in one published finding only, across crashes at any point
\* of the join, unless it was delivered again or its removal was given up.
LegsJoinOnce ==
    \A f, g \in published : f # g => found[f] \cap found[g] \subseteq loose

Final == {b \in Block : [type |-> "Finalized", block |-> b] \in emitted}

\* A published finding is retracted once the revert of one of its blocks is
\* handled, and until then, or until all its blocks are final, it is tracked,
\* across restarts too ("a finding is only as final as its least-final leg",
\* finality.rs).  Excused are findings that were evicted, whose journal entry
\* or retraction was given up or cut off by a stop, and those tracked after the
\* revert had been applied to the tracker, joined and journaled before it or not:
\* record_finding takes the lock only after its append, and such a finding is
\* published and never retracted.
FindingsFollowTheirLegs ==
    \A f \in published \ excused :
        /\ BlocksOf(f) \cap gone # {} => f \in retracted \cup hand.out
        /\ \/ f \in {r.id : r \in tracker} \cup retracted \cup hand.out
           \/ BlocksOf(f) \subseteq Final
=============================================================================
