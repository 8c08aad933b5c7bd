------------------------------ MODULE BlockTree ------------------------------
(***************************************************************************)
(* The reorg-aware block tree of the ingestion service                     *)
(* (crates/ingestion/src/tree.rs), as operators on a tree value.  A head   *)
(* is a member of Block; its hash, number and parent hash are the block    *)
(* itself, Number[b] and Parent[b].  A tree is a record                    *)
(*   nodes      the blocks held (HashMap keys),                            *)
(*   seq        insertion sequence of each block ever inserted,            *)
(*   tip        canonical_tip, NoBlock before the first block,             *)
(*   finalized  the finalized floor as given to finalize, or NoBlock,      *)
(*   next       next_seq.                                                  *)
(***************************************************************************)
EXTENDS Filter, FiniteSets

CONSTANTS
    Block,      \* the blocks a source can ever report
    NoBlock,    \* "no such block": Option::None, and the parent of a block
                \* whose parent no source can serve
    Parent,     \* parent_hash
    Number,     \* height
    Depth       \* finalization_depth

ASSUME BlockAssumption ==
    /\ NoBlock \notin Block
    /\ Parent \in [Block -> Block \cup {NoBlock}]
    /\ Number \in [Block -> Nat]
    /\ \A b \in Block : Parent[b] # NoBlock => Number[b] = Number[Parent[b]] + 1
    /\ Depth \in Nat

Tree == [nodes : SUBSET Block,
         seq : [Block -> Nat],
         tip : Block \cup {NoBlock},
         finalized : Block \cup {NoBlock},
         next : Nat]

EmptyTree ==
    [nodes |-> {}, seq |-> [b \in Block |-> 0], tip |-> NoBlock,
     finalized |-> NoBlock, next |-> 0]

-----------------------------------------------------------------------------
(***************************************************************************)
(* Walks toward the root.  Up[n][b] is the n-th ancestor of b, Line[b] the *)
(* line of b and its ancestors, b first.                                   *)
(***************************************************************************)
Up[n \in Nat] ==
    IF n = 0 THEN [b \in Block |-> b]
    ELSE [b \in Block |-> LET a == Up[n - 1][b]
                          IN IF a = NoBlock THEN NoBlock ELSE Parent[a]]

Line == [b \in Block |-> [i \in 1..(Number[b] + 1) |-> Up[i - 1][b]]]

Ancestors(b) == {Line[b][i] : i \in DOMAIN Line[b]} \ {NoBlock}

\* How many blocks a walk from b takes before it leaves nodes.
WalkLength(nodes, b) ==
    IF b \notin nodes THEN 0
    ELSE CHOOSE n \in DOMAIN Line[b] :
            /\ \A i \in 1..n : Line[b][i] \in nodes
            /\ n < Len(Line[b]) => Line[b][n + 1] \notin nodes

\* canonical_iter: the canonical chain, tip first.
CanonicalIter(t) ==
    IF t.tip = NoBlock THEN << >>
    ELSE SubSeq(Line[t.tip], 1, WalkLength(t.nodes, t.tip))

Canonical(t) == {CanonicalIter(t)[i] : i \in DOMAIN CanonicalIter(t)}

\* Mutant of Backwards: a walk emitted in the order it was collected.
Collected(s) == s

Backwards(s) == [i \in 1..Len(s) |-> s[Len(s) + 1 - i]]

\* take_while(h != x)
Before(s, x) == SubSeq(s, 1, (CHOOSE i \in DOMAIN s : s[i] = x) - 1)

-----------------------------------------------------------------------------
\* Mutant of PruneBelow: finality prunes nothing.
PruneNothing(t, floor) == t

\* prune_below: both canonical blocks and side branches below the floor go,
\* the blocks at exactly the floor stay.
PruneBelow(t, floor) ==
    [t EXCEPT !.nodes = {b \in t.nodes : Number[b] >= floor}]

\* Mutant of PruneToDepth: one height too many is kept.
PruneToDepthPlusOne(t) ==
    PruneBelow(t, IF Number[t.tip] > Depth + 1 THEN Number[t.tip] - Depth - 1 ELSE 0)

\* prune_to_depth, with the saturating subtraction of the code.
PruneToDepth(t) ==
    PruneBelow(t, IF Number[t.tip] > Depth THEN Number[t.tip] - Depth ELSE 0)

\* reorg_to: the walk from the new tip stops at the first block of the old
\* chain, or at the end of the branch when there is none.
ReorgTo(t, b) ==
    LET old     == CanonicalIter(t)
        branch  == SubSeq(Line[b], 1, WalkLength(t.nodes, b))
        joins   == {i \in DOMAIN branch : branch[i] \in Canonical(t)}
        fresh   == IF joins = {} THEN Len(branch)
                   ELSE (CHOOSE i \in joins : \A j \in joins : i <= j) - 1
    IN [reverted      |-> IF joins = {} THEN old
                          ELSE Before(old, branch[fresh + 1]),
        canonicalized |-> Backwards(SubSeq(branch, 1, fresh)),
        rejoins       |-> joins # {} \/ t.tip = NoBlock]

\* Mutant of Beats: the oldest block keeps a tie in height.
BeatsByHeight(t, b) == t.tip = NoBlock \/ Number[b] > Number[t.tip]

\* Fork choice: the greatest (number, seq) wins, so the newest block wins a
\* tie in height.
Beats(t, b) ==
    \/ t.tip = NoBlock
    \/ Number[b] > Number[t.tip]
    \/ Number[b] = Number[t.tip] /\ t.seq[b] > t.seq[t.tip]

Insert(t, b) ==
    [t EXCEPT !.nodes = @ \cup {b}, !.seq = [@ EXCEPT ![b] = t.next], !.next = @ + 1]

NoChange(t, kind) ==
    [tree |-> t, kind |-> kind, reverted |-> << >>, canonicalized |-> << >>,
     rejoins |-> TRUE]

\* add_block, with its five outcomes.
AddBlock(t, b) ==
    IF b \in t.nodes
    THEN NoChange(t, "Duplicate")
    ELSE IF t.finalized # NoBlock /\ Number[b] <= Number[t.finalized]
    THEN NoChange(t, "ReorgBeyondFinality")
    ELSE IF t.nodes # {} /\ Parent[b] \notin t.nodes
    THEN NoChange(t, "MissingParent")
    ELSE LET ins == Insert(t, b)
             up  == ReorgTo(ins, b)
         IN IF ~Beats(ins, b)
            THEN NoChange(ins, "Fork")
            ELSE [tree |-> PruneToDepth([ins EXCEPT !.tip = b]),
                  kind |-> "Canonical",
                  reverted |-> up.reverted,
                  canonicalized |-> up.canonicalized,
                  rejoins |-> up.rejoins]

\* The floor finalize prunes to: never above the tip.
FinalFloor(t, f) ==
    IF t.tip # NoBlock /\ Number[t.tip] < Number[f]
    THEN Number[t.tip] ELSE Number[f]

\* Mutant of Finalize: the previous floor is not looked at.
FinalizeAgain(t, f) ==
    [tree |-> PruneBelow([t EXCEPT !.finalized = f], FinalFloor(t, f)),
     newly |-> Backwards(Sift(CanonicalIter(t),
                              {b \in t.nodes : Number[b] <= FinalFloor(t, f)}))]

\* Mutant of Finalize: the block at the floor itself is left out.
FinalizeExclusive(t, f) ==
    LET crossed == {b \in t.nodes :
                       /\ Number[b] < FinalFloor(t, f)
                       /\ \/ t.finalized = NoBlock
                          \/ Number[b] > Number[t.finalized]}
    IN [tree |-> PruneBelow([t EXCEPT !.finalized = f], FinalFloor(t, f)),
        newly |-> Backwards(Sift(CanonicalIter(t), crossed))]

\* Mutant of Finalize: every canonical block above the old floor is reported.
FinalizeToTip(t, f) ==
    LET crossed == {b \in t.nodes :
                       t.finalized = NoBlock \/ Number[b] > Number[t.finalized]}
    IN [tree |-> PruneBelow([t EXCEPT !.finalized = f], FinalFloor(t, f)),
        newly |-> Backwards(Sift(CanonicalIter(t), crossed))]

\* finalize: the canonical blocks that crossed the line, ascending, and the
\* pruned tree.  The floor kept for later is the unclamped one.
Finalize(t, f) ==
    LET crossed == {b \in t.nodes :
                       /\ Number[b] <= FinalFloor(t, f)
                       /\ \/ t.finalized = NoBlock
                          \/ Number[b] > Number[t.finalized]}
    IN [tree |-> PruneBelow([t EXCEPT !.finalized = f], FinalFloor(t, f)),
        newly |-> Backwards(Sift(CanonicalIter(t), crossed))]
=============================================================================
