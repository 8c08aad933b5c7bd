--------------------------- MODULE CrossBlockState ---------------------------
(***************************************************************************)
(* The reorg-versioned snapshot store                                      *)
(* (crates/detector-api/src/cross_block_state.rs) that the cross-block     *)
(* detectors and the predictive position tracker keep: one snapshot of the *)
(* accumulator per applied block, the tip last.  The accumulator is        *)
(* modelled by the sequence of blocks that were folded into it.            *)
(***************************************************************************)
EXTENDS Integers, Sequences

CONSTANTS
    Height,     \* the height of each block
    Window      \* window_blocks

\* One stored version: the accumulator as of a block.
Version(B) == [block : B, folded : Seq(B)]

Tip(vs) == vs[Len(vs)]

\* current: the accumulator at the tip, the initial one when there is none.
Current(vs) == IF vs = << >> THEN << >> ELSE Tip(vs).folded

\* Mutant of PruneToWindow: nothing is pruned.
PruneNoVersions(vs) == vs

\* prune_to_window: keep the heights above the floor, and the tip.  The
\* oldest version goes while it is at or below it; the subtraction saturates.
PruneToWindow(vs) ==
    LET tip   == Height[Tip(vs).block]
        floor == IF Window < tip THEN tip - Window ELSE 0
        fresh == {i \in DOMAIN vs : i = Len(vs) \/ floor < Height[vs[i].block]}
        keep  == CHOOSE i \in fresh : \A j \in fresh : i <= j
    IN SubSeq(vs, keep, Len(vs))

\* Mutant of Apply: a redelivery of the tip's height replaces the tip.
ApplyOverTip(vs, b) ==
    LET v == [block |-> b, folded |-> Append(Current(vs), b)]
    IN CASE vs # << >> /\ Height[b] < Height[Tip(vs).block] -> vs
         [] vs # << >> /\ Height[b] = Height[Tip(vs).block] ->
               Append(SubSeq(vs, 1, Len(vs) - 1), v)
         [] OTHER -> PruneToWindow(Append(vs, v))

\* Mutant of Apply: the block is folded into the tip's accumulator in place,
\* not into a fork of it.
ApplyInPlace(vs, b) ==
    LET next == Append(Current(vs), b)
        old  == [i \in DOMAIN vs |->
                    IF i = Len(vs) THEN [vs[i] EXCEPT !.folded = next] ELSE vs[i]]
    IN IF vs # << >> /\ Height[b] <= Height[Tip(vs).block] THEN vs
       ELSE PruneToWindow(Append(old, [block |-> b, folded |-> next]))

\* The caller forks the tip's accumulator, folds the block in and hands it to
\* apply, which ignores a block at or below the tip (release build: the
\* debug_assert on a different block at the tip's height is compiled out).
Apply(vs, b) ==
    IF vs # << >> /\ Height[b] <= Height[Tip(vs).block] THEN vs
    ELSE PruneToWindow(Append(vs, [block |-> b, folded |-> Append(Current(vs), b)]))

\* revert_tip: the tip goes if it is exactly the reverted block.
RevertTip(vs, b) ==
    IF vs # << >> /\ Tip(vs).block = b THEN SubSeq(vs, 1, Len(vs) - 1) ELSE vs
==============================================================================
