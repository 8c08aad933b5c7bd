--------------------------- MODULE FindingTracker ---------------------------
(***************************************************************************)
(* The finding-finality tracker                                            *)
(* (crates/cross-chain-correlator/src/finality.rs): which findings still   *)
(* wait for which blocks to become final.  Findings are numbered in the    *)
(* order in which they are recorded, which is the order of by_age.         *)
(***************************************************************************)
EXTENDS Integers, FiniteSets

CONSTANTS
    Retention,      \* how long a finding is tracked at most
    FindingCap      \* how many findings are tracked at most, 0: no bound

\* insert_raw.
InsertRaw(t, id, blocks, at) == t \cup {[id |-> id, pending |-> blocks, at |-> at]}

\* on_block_finalized: a finding leaves with its last pending block.
OnBlockFinalized(t, b) ==
    {r \in {[x EXCEPT !.pending = @ \ {b}] : x \in t} : r.pending # {}}

\* on_block_reverted: one reverted block is enough.
Waiting(t, b) == {r \in t : b \in r.pending}
OnBlockReverted(t, b) == t \ Waiting(t, b)

\* sweep: findings past the retention go, then the oldest over capacity.
Sweep(t, now) ==
    LET fresh == {r \in t : now - r.at <= Retention}
        newer(r) == {x \in fresh : x.id > r.id}
    IN {r \in fresh : FindingCap = 0 \/ Cardinality(newer(r)) < FindingCap}
=============================================================================
