------------------------------ MODULE Ingestion ------------------------------
(***************************************************************************)
(* The ingestion service of one chain: the RPC endpoints, the head poller  *)
(* (source/head_stream.rs), the bounded channel to the pipeline task, and  *)
(* the pipeline (pipeline.rs) that drives the block tree and publishes the *)
(* chain events.                                                           *)
(*                                                                         *)
(* The poller and the pipeline are two tasks that only share the channel.  *)
(* The pipeline handles one head at a time: it back-fills missing parents  *)
(* on a stack, one add_block per step, and publishes the events of a step  *)
(* one by one before it goes on.                                           *)
(*                                                                         *)
(* The bus is modelled by what a consumer of it knows: view is the         *)
(* canonical chain it gets by applying BlockCanonicalized and              *)
(* BlockReverted in order, final the blocks it was told are final,         *)
(* assembled the blocks it saw a BlockAssembled for, and abandoned the     *)
(* events no consumer will ever see because a shutdown cut their retries.  *)
(***************************************************************************)
EXTENDS ChainEvents

CONSTANTS
    Endpoint,       \* the RPC endpoints of the failover pool
    Settled,        \* the block the network settles on; its ancestors are
                    \* the only blocks the network ever finalizes
    FinalLag,       \* how far finality trails an endpoint's head, at least
    MaxCatchup,     \* MAX_CATCHUP_PER_TICK
    ChannelCap,     \* capacity of the heads channel
    MaxSkips,       \* bound: heads lost to a failed back-fill
    MaxRestarts     \* bound: process restarts

ASSUME IngestionAssumption ==
    /\ Settled \in Block
    /\ FinalLag \in Nat \ {0}
    /\ MaxCatchup \in Nat \ {0}
    /\ ChannelCap \in Nat \ {0}
    /\ MaxSkips \in Nat /\ MaxRestarts \in Nat

VARIABLES
    head,       \* head[e]: the head endpoint e serves
    fin,        \* fin[e]: the finalized tag endpoint e serves, or NoBlock
    last,       \* poller: last_emitted, -1 for None
    range,      \* poller: heights still to fetch in this tick, <<from, to>>
    fetched,    \* poller: the head being sent, or NoBlock
    heads,      \* the channel
    tree,       \* pipeline: the block tree
    stack,      \* pipeline: the back-fill stack, top last
    pending,    \* pipeline: events of the current step not yet published
    stopping,   \* the shutdown token is cancelled
    view, final, assembled,     \* what the bus told its consumers
    abandoned,  \* the events the pipeline gave up on, <<type, block>>
    skips, restarts             \* counters for the bounds

source   == <<head, fin>>
poller   == <<last, range, fetched>>
pipeline == <<tree, stack, pending>>
bus      == <<view, final, assembled, abandoned>>
process  == <<stopping, restarts>>
vars     == <<source, poller, heads, pipeline, bus, skips, process>>

Idle == stack = << >> /\ pending = << >>
NoRange == <<1, 0>>

Init ==
    /\ head = [e \in Endpoint |-> CHOOSE b \in Block : Parent[b] = NoBlock]
    /\ fin = [e \in Endpoint |-> NoBlock]
    /\ last = -1 /\ range = NoRange /\ fetched = NoBlock
    /\ heads = << >>
    /\ tree = EmptyTree /\ stack = << >> /\ pending = << >>
    /\ view = << >> /\ final = {} /\ assembled = {} /\ abandoned = {}
    /\ skips = 0 /\ stopping = FALSE /\ restarts = 0

-----------------------------------------------------------------------------
(***************************************************************************)
(* The source.  An endpoint's head moves freely among the blocks that      *)
(* extend what it has finalized, until the network has settled; its        *)
(* finalized tag climbs the settled chain, FinalLag behind the head.       *)
(***************************************************************************)
MoveHead(e, b) ==
    /\ head[e] # Settled
    /\ b # head[e]
    /\ fin[e] # NoBlock => fin[e] \in Ancestors(b)
    /\ head' = [head EXCEPT ![e] = b]
    /\ UNCHANGED <<fin, poller, heads, pipeline, bus, skips, process>>

AdvanceFinal(e, b) ==
    /\ b \in Ancestors(Settled) \cap Ancestors(head[e])
    /\ Number[b] + FinalLag <= Number[head[e]]
    /\ fin[e] # NoBlock => Number[b] > Number[fin[e]]
    /\ fin' = [fin EXCEPT ![e] = b]
    /\ UNCHANGED <<head, poller, heads, pipeline, bus, skips, process>>

-----------------------------------------------------------------------------
(***************************************************************************)
(* The head poller.                                                        *)
(***************************************************************************)

\* The height a tick starts from, given the polled tip.
PollFrom(tip) == IF last = -1 THEN tip ELSE last + 1

\* A tick: ask one endpoint for its tip; a tip that is not higher than the
\* last emitted height is "no new blocks (or a lower tip mid-reorg)".
PollTick(e) ==
    LET tip  == Number[head[e]]
        from == PollFrom(tip)
        most == from + MaxCatchup - 1
    IN /\ ~stopping
       /\ range = NoRange /\ fetched = NoBlock
       /\ last = -1 \/ tip > last
       /\ range' = <<from, IF most < tip THEN most ELSE tip>>
       /\ UNCHANGED <<last, fetched, source, heads, pipeline, bus, skips, process>>

\* Fetch the next height from one endpoint, maybe another one than before;
\* last_emitted moves before the send.
PollFetch(e) ==
    LET n == range[1]
        b == Line[head[e]][Number[head[e]] - n + 1]
    IN /\ range[1] <= range[2] /\ fetched = NoBlock
       /\ n <= Number[head[e]]
       /\ fetched' = b
       /\ last' = n
       /\ range' = IF n = range[2] THEN NoRange ELSE <<n + 1, range[2]>>
       /\ UNCHANGED <<source, heads, pipeline, bus, skips, process>>

\* Mutant of PollFetchFails: the cursor moves past the height that failed.
PollFetchFailsSkips ==
    /\ range[1] <= range[2] /\ fetched = NoBlock
    /\ range' = NoRange /\ last' = range[1]
    /\ UNCHANGED <<fetched, source, heads, pipeline, bus, skips, process>>

\* The fetch failed (every endpoint down, or no block at that height any
\* more): the tick stops at the gap and the next one resumes there.
PollFetchFails ==
    /\ range[1] <= range[2] /\ fetched = NoBlock
    /\ range' = NoRange
    /\ UNCHANGED <<last, fetched, source, heads, pipeline, bus, skips, process>>

\* Mutant of PollSend: an unbounded channel.
PollSendUnbounded ==
    /\ fetched # NoBlock
    /\ heads' = Append(heads, fetched)
    /\ fetched' = NoBlock
    /\ UNCHANGED <<last, range, source, pipeline, bus, skips, process>>

\* tx.send waits for room in the channel.
PollSend ==
    /\ fetched # NoBlock
    /\ Len(heads) < ChannelCap
    /\ heads' = Append(heads, fetched)
    /\ fetched' = NoBlock
    /\ UNCHANGED <<last, range, source, pipeline, bus, skips, process>>

-----------------------------------------------------------------------------
(***************************************************************************)
(* The pipeline: run, ingest, tick_finalize, publish_all.                  *)
(***************************************************************************)

\* The biased select looks at the shutdown token before it takes a head.
TakeHead ==
    /\ Idle /\ ~stopping
    /\ heads # << >>
    /\ stack' = << Head(heads) >>
    /\ heads' = Tail(heads)
    /\ UNCHANGED <<tree, pending, source, poller, bus, skips, process>>

Top == stack[Len(stack)]
Popped == SubSeq(stack, 1, Len(stack) - 1)

\* One turn of the loop in ingest, for the outcomes that need no fetch.
AddStep ==
    LET r == AddBlock(tree, Top)
    IN /\ stack # << >> /\ pending = << >>
       /\ r.kind # "MissingParent"
       /\ tree' = r.tree
       /\ pending' = StepEvents(r, Top)
       \* A tree error leaves ingest at once: the rest of the stack is lost.
       /\ stack' = IF r.kind = "ReorgBeyondFinality" THEN << >> ELSE Popped
       /\ UNCHANGED <<source, poller, heads, bus, skips, process>>

\* MissingParent, and head_by_hash serves the parent.
BackFill ==
    /\ stack # << >> /\ pending = << >>
    /\ AddBlock(tree, Top).kind = "MissingParent"
    /\ Parent[Top] # NoBlock
    /\ stack' = Append(stack, Parent[Top])
    /\ UNCHANGED <<tree, pending, source, poller, heads, bus, skips, process>>

\* MissingParent, and the fetch fails: the head is skipped for good.
BackFillFails ==
    /\ stack # << >> /\ pending = << >>
    /\ AddBlock(tree, Top).kind = "MissingParent"
    /\ Parent[Top] = NoBlock \/ skips < MaxSkips
    /\ stack' = << >>
    /\ skips' = IF Parent[Top] = NoBlock THEN skips ELSE skips + 1
    /\ UNCHANGED <<tree, pending, source, poller, heads, bus, process>>

\* tick_finalize.  The biased select starts a tick only when no head waits,
\* but heads may arrive while the tag is being fetched.
TickFinalize(e) ==
    LET r == Finalize(tree, fin[e])
    IN /\ Idle /\ ~stopping
       /\ fin[e] # NoBlock
       /\ tree' = r.tree
       /\ pending' = [i \in DOMAIN r.newly |->
                        [type |-> "Finalized", block |-> r.newly[i], by |-> NoBlock]]
       /\ UNCHANGED <<stack, source, poller, heads, bus, skips, process>>

\* publish_resilient delivers the next event; consumers learn it.
Publish ==
    LET ev == Head(pending)
    IN /\ pending # << >>
       /\ pending' = Tail(pending)
       /\ view' = CASE ev.type = "Canonicalized" -> Append(view, ev.block)
                    [] ev.type = "Reverted" -> Sift(view, Block \ {ev.block})
                    [] OTHER -> view
       /\ final' = IF ev.type = "Finalized" THEN final \cup {ev.block} ELSE final
       /\ assembled' = IF ev.type = "Assembled"
                       THEN assembled \cup {ev.block} ELSE assembled
       /\ UNCHANGED <<abandoned, tree, stack, source, poller, heads, skips, process>>

\* A transient failure of the next event once the shutdown token is
\* cancelled: publish_resilient gives up on this one event, accept_loss
\* records it, and publish_all goes on with the event after it.
Abandon ==
    /\ stopping
    /\ pending # << >>
    /\ pending' = Tail(pending)
    /\ abandoned' = abandoned \cup {<<Head(pending).type, Head(pending).block>>}
    /\ UNCHANGED <<view, final, assembled, tree, stack, source, poller, heads,
                   skips, process>>

-----------------------------------------------------------------------------
(***************************************************************************)
(* The process.  A graceful stop lets ingest finish the head in hand, back *)
(* fill included, while each of its events may be abandoned; a crash can   *)
(* come at any moment.                                                     *)
(***************************************************************************)
Shutdown ==
    /\ ~stopping
    /\ restarts < MaxRestarts
    /\ stopping' = TRUE
    /\ UNCHANGED <<restarts, source, poller, heads, pipeline, bus, skips>>

\* Mutant of Restart: the tree outlives the events it still owed the bus.
RestartKeepsTree ==
    /\ restarts < MaxRestarts
    /\ restarts' = restarts + 1 /\ stopping' = FALSE
    /\ last' = -1 /\ range' = NoRange /\ fetched' = NoBlock
    /\ heads' = << >>
    /\ stack' = << >> /\ pending' = << >>
    /\ UNCHANGED <<tree, source, bus, skips>>

\* The process ends, by a crash or at the end of its drain: tree, channel,
\* cursor and unpublished events are in memory only, and the next process
\* starts from nothing.
Restart ==
    /\ restarts < MaxRestarts
    /\ restarts' = restarts + 1 /\ stopping' = FALSE
    /\ last' = -1 /\ range' = NoRange /\ fetched' = NoBlock
    /\ heads' = << >>
    /\ tree' = EmptyTree /\ stack' = << >> /\ pending' = << >>
    /\ UNCHANGED <<source, bus, skips>>

Poller == (\E e \in Endpoint : PollTick(e) \/ PollFetch(e)) \/ PollFetchFails \/ PollSend
PipelineWork == TakeHead \/ AddStep \/ BackFill \/ BackFillFails \/ Publish \/ Abandon
Pipeline == PipelineWork \/ \E e \in Endpoint : TickFinalize(e)
Source == \E e \in Endpoint, b \in Block : MoveHead(e, b) \/ AdvanceFinal(e, b)

Next == Source \/ Poller \/ Pipeline \/ Shutdown \/ Restart

Spec == Init /\ [][Next]_vars

-----------------------------------------------------------------------------
(***************************************************************************)
(* Properties                                                              *)
(***************************************************************************)
Members(s) == {s[i] : i \in DOMAIN s}
Loss == {"Assembled", "Reverted", "Canonicalized", "Finalized"} \X Block

\* The variables keep their types.
IngestionTypeOK ==
    /\ head \in [Endpoint -> Block]
    /\ fin \in [Endpoint -> Block \cup {NoBlock}]
    /\ last \in Int /\ fetched \in Block \cup {NoBlock}
    /\ Members(heads) \subseteq Block /\ Len(heads) <= ChannelCap
    /\ tree \in Tree
    /\ Members(stack) \subseteq Block
    /\ Members(view) \cup final \cup assembled \subseteq Block
    /\ abandoned \subseteq Loss

\* What a consumer rebuilds from BlockCanonicalized and BlockReverted is a
\* real chain at every moment of one process's life, also in the middle of a
\* reorg: the reverts come tip first and the new branch ancestor first
\* (canonical_events).  No height is missing or doubled, and a block follows
\* its own parent unless the tree has pruned that parent, as it has when a
\* reorg reaches below the depth it keeps.  A drain that abandoned an event
\* leaves the hole that INGESTION_LOSS speaks of.
ViewIsChain ==
    restarts = 0 /\ abandoned = {} =>
        \A i \in 1..(Len(view) - 1) :
            /\ Number[view[i + 1]] = Number[view[i]] + 1
            /\ Parent[view[i + 1]] \in tree.nodes => Parent[view[i + 1]] = view[i]

\* Between two heads the consumers' chain ends in the chain the tree holds,
\* block for block, also when a restart lost the tree in the middle of a reorg.
\* (While the process drains it may have abandoned events.)
ViewMatchesTree ==
    Idle /\ ~stopping =>
        LET chain == CanonicalIter(tree)
        IN /\ Len(chain) <= Len(view)
           /\ \A i \in DOMAIN chain : view[Len(view) + 1 - i] = chain[i]

\* A BlockReverted names a block that is canonical for the consumers, across
\* restarts and failovers and in a drain that abandons events: nobody is told
\* to undo what was never done.
RevertedWasCanonical ==
    [][ pending # << >> /\ pending' = Tail(pending)
          /\ Head(pending).type = "Reverted" =>
        Head(pending).block \in Members(view) ]_vars

\* Within one process the pipeline goes back on finality at one height only:
\* a block announced final that it then reverts stands exactly at the
\* finalized floor, however heads in flight and finality ticks interleave.
FinalRevertedAtFloor ==
    restarts = 0 =>
        \A i \in DOMAIN pending :
            pending[i].type = "Reverted" /\ pending[i].block \in final =>
                /\ tree.finalized # NoBlock
                /\ Number[pending[i].block] = Number[tree.finalized]

\* One process announces BlockFinalized once per block, in ascending order.
FinalAscends ==
    [][ restarts = 0 /\ pending # << >> /\ pending' = Tail(pending)
          /\ Head(pending).type = "Finalized" =>
        \A b \in final : Number[b] < Number[Head(pending).block] ]_vars

\* A block that is canonical for the consumers was announced assembled to
\* them, or that announcement is one of those a drain abandoned, whatever was
\* lost to a crash in between.
AssembledFirst ==
    \A b \in Members(view) : b \in assembled \/ <<"Assembled", b>> \in abandoned

\* The tree can still grow along the settled chain: it holds a block of it
\* that is not below the floor under which add_block refuses everything.
Rooted ==
    \/ tree.nodes = {}
    \/ \E b \in tree.nodes \cap Ancestors(Settled) :
          tree.finalized # NoBlock => Number[b] >= Number[tree.finalized]

\* Once the network settles the consumers' chain reaches its head, unless
\* the tree can no longer grow along it: a reorg went below its root, or the
\* finalized tag was read while it was ahead of the tree.
CatchesUp ==
    <>[]Rooted => <>(view # << >> /\ view[Len(view)] = Settled)

\* Finality reaches the consumers: a block of the settled chain that was
\* announced canonical and is deep enough is announced final.
FinalityArrives ==
    \A b \in Ancestors(Settled) :
        Number[b] + FinalLag <= Number[Settled] /\ <>[]Rooted =>
            (b \in Members(view) ~> b \in final)

\* The same without the exception: ingestion survives every reorg.
AlwaysCatchesUp == <>(view # << >> /\ view[Len(view)] = Settled)

-----------------------------------------------------------------------------
(***************************************************************************)
(* Fairness: the runtime keeps scheduling both tasks (weak fairness of the *)
(* steps that only need the CPU, the broker and room in the channel; the   *)
(* pipeline is one sequential task, so one condition covers it), the       *)
(* network settles, and a fetch that is retried on every tick succeeds     *)
(* again and again.                                                        *)
(***************************************************************************)
Fairness ==
    /\ WF_vars(PollSend)
    /\ WF_vars(PipelineWork)
    /\ \A e \in Endpoint :
          /\ WF_vars(PollTick(e))
          /\ SF_vars(PollFetch(e))
          /\ WF_vars(MoveHead(e, Settled))
          /\ WF_vars(\E b \in Block : AdvanceFinal(e, b))
          /\ WF_vars(TickFinalize(e))

FairSpec == Spec /\ Fairness
==============================================================================
