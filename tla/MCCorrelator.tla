---------------------------- MODULE MCCorrelator ----------------------------
(***************************************************************************)
(* A swap s on one chain and on another the deposit d and the swap u of    *)
(* one transaction, all of one key, so that s is one half of an arbitrage  *)
(* or of a bridge finding, and a swap v of another key that needs room.    *)
(* The clock ticks between d and u; s leaves the window with the tick.     *)
(*                                                                         *)
(* Every finding has legs on both chains and so waits for both blocks: the *)
(* blocks may be exchanged.                                                *)
(***************************************************************************)
EXTENDS Correlator, TLC

CONSTANTS bx, by

MCLeg == {"s", "d", "u", "v"}
MCFeed == [c \in {"x", "y"} |-> IF c = "x" THEN << "s" >> ELSE << "d", "u", "v" >>]
MCTxOf == [l \in MCLeg |-> IF l \in {"d", "u"} THEN "du" ELSE l]
MCChainOf == [l \in MCLeg |-> IF l = "s" THEN "x" ELSE "y"]
MCBlockOf == [l \in MCLeg |-> IF l = "s" THEN bx ELSE by]
MCKindOf == [l \in MCLeg |-> IF l = "d" THEN "deposit" ELSE "swap"]
MCKeyOf == [l \in MCLeg |-> IF l = "v" THEN "m" ELSE "k"]
MCObserved == [l \in MCLeg |-> CASE l = "s" -> -1 [] l = "d" -> 0 [] OTHER -> 1]
Symmetry == Permutations({bx, by})
=============================================================================
