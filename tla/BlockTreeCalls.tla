--------------------------- MODULE BlockTreeCalls ---------------------------
(***************************************************************************)
(* The block tree driven by any caller that respects its documented        *)
(* preconditions (crates/ingestion/src/tree.rs): add_block with any head,  *)
(* in any order, and finalize with a block on the canonical chain or an    *)
(* ancestor of it.  It asks what the tree promises by itself, whatever the *)
(* source serves.                                                          *)
(*                                                                         *)
(* declared and update are history: the blocks finalize has returned, and  *)
(* what the last call returned.                                            *)
(***************************************************************************)
EXTENDS BlockTree

CONSTANT
    FinalityAdvances    \* TRUE: the finalized tag never goes back, FALSE: a
                        \* failover may serve an older tag than the last one

ASSUME FinalityAssumption == FinalityAdvances \in BOOLEAN

VARIABLES blockTree, declared, update

callVars == <<blockTree, declared, update>>

\* The tree lists blocks finalize may be called with: the canonical chain and
\* what lies below it.
ExpectedFinal(f) ==
    /\ blockTree.tip # NoBlock
    /\ f \in Ancestors(blockTree.tip)
    /\ FinalityAdvances /\ blockTree.finalized # NoBlock
          => Number[f] >= Number[blockTree.finalized]

CallsInit ==
    /\ blockTree = EmptyTree
    /\ declared = {}
    /\ update = NoChange(EmptyTree, "Start")

CallAddBlock(b) ==
    LET r == AddBlock(blockTree, b)
    IN /\ blockTree' = r.tree
       /\ update' = [r EXCEPT !.tree = EmptyTree]
       /\ UNCHANGED declared

CallFinalize(f) ==
    LET r == Finalize(blockTree, f)
    IN /\ ExpectedFinal(f)
       /\ blockTree' = r.tree
       /\ declared' = declared \cup {r.newly[i] : i \in DOMAIN r.newly}
       /\ update' = [NoChange(EmptyTree, "Finalized")
                        EXCEPT !.canonicalized = r.newly]

CallsNext ==
    \/ \E b \in Block : CallAddBlock(b)
    \/ \E f \in Block : CallFinalize(f)

CallsSpec == CallsInit /\ [][CallsNext]_callVars

-----------------------------------------------------------------------------
(***************************************************************************)
(* Properties                                                              *)
(***************************************************************************)

\* The tree is a tree value.
TreeTypeOK == blockTree \in Tree

\* canonical_tip never dangles: the lookup self.nodes[&tip] of canonical_tip,
\* add_block and canonical_iter never panics, whatever was pruned before.
TipPresent == blockTree.tip # NoBlock => blockTree.tip \in blockTree.nodes

\* No block the tree holds is higher than the tip, or as high and newer: a
\* head that arrived late, or became a side branch, was not forgotten by fork
\* choice.
TipIsBest ==
    \A b \in blockTree.nodes :
        \/ Number[b] < Number[blockTree.tip]
        \/ Number[b] = Number[blockTree.tip] /\ blockTree.seq[b] <= blockTree.seq[blockTree.tip]

\* Every canonical update rolls back and forward along real parent links: the
\* reverted blocks are a chain read from the old tip down, the canonicalized
\* ones a chain read up to the new tip, and every reverted height has a
\* replacement for BlockReverted.replaced_by (pipeline.rs canonical_events).
\* When the two branches still share a block in memory, exactly what lies
\* above it is swapped.
UpdateIsReplayable ==
    [][ update'.kind = "Canonical" =>
        LET rev == update'.reverted
            can == update'.canonicalized
        IN /\ rev # << >> => rev[1] = blockTree.tip
           /\ \A i \in 1..(Len(rev) - 1) : Parent[rev[i]] = rev[i + 1]
           /\ can # << >> /\ can[Len(can)] = blockTree'.tip
           /\ \A i \in 1..(Len(can) - 1) : Parent[can[i + 1]] = can[i]
           /\ \A i \in DOMAIN rev :
                \E j \in DOMAIN can : Number[can[j]] = Number[rev[i]]
           /\ update'.rejoins /\ rev # << >> =>
                Parent[rev[Len(rev)]] = Parent[can[1]] ]_callVars

\* A block that finalize declared is reverted later, if at all, only at the
\* very height of the floor: below it nothing is left to revert.
FinalRevertedOnlyAtFloor ==
    [][ \A i \in DOMAIN update'.reverted :
          update'.reverted[i] \in declared =>
             Number[update'.reverted[i]] = Number[blockTree.finalized] ]_callVars

\* Each block is declared final once, in ascending order and without a gap
\* between the blocks of one call.
FinalizedOnce ==
    [][ update'.kind = "Finalized" =>
        LET new == update'.canonicalized
        IN /\ \A i \in DOMAIN new : new[i] \notin declared
           /\ \A i \in 1..(Len(new) - 1) : Parent[new[i + 1]] = new[i] ]_callVars

\* The memory bound: nothing lower than the floor of either kind of pruning
\* is held, so at most Depth + 1 heights are.
BoundedHeights ==
    blockTree.tip # NoBlock =>
        \A b \in blockTree.nodes : Number[b] + Depth >= Number[blockTree.tip]
=============================================================================
