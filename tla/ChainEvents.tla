----------------------------- MODULE ChainEvents -----------------------------
(***************************************************************************)
(* The chain events the ingestion pipeline publishes for one add_block     *)
(* (crates/ingestion/src/pipeline.rs), in publication order.  An event     *)
(* says what happened to which block, and for a revert which block took    *)
(* its height.                                                             *)
(***************************************************************************)
EXTENDS BlockTree

\* observed_events: RawBlockReceived and BlockAssembled, back to back, as one.
Observed(b) == << [type |-> "Assembled", block |-> b, by |-> NoBlock] >>

\* Mutant of CanonicalEvents: roll forward before rolling back.
CanonicalEventsForwardFirst(reverted, canonicalized) ==
    [i \in DOMAIN canonicalized |->
        [type |-> "Canonicalized", block |-> canonicalized[i], by |-> NoBlock]] \o
    [i \in DOMAIN reverted |->
        [type |-> "Reverted", block |-> reverted[i], by |-> NoBlock]]

\* canonical_events: reverts tip first, each with the block that took its
\* height; a revert without one is dropped.
CanonicalEvents(reverted, canonicalized) ==
    LET at(b)   == {i \in DOMAIN canonicalized : Number[canonicalized[i]] = Number[b]}
        paired  == Sift(reverted, {b \in Block : at(b) # {}})
        revert(b) == [type |-> "Reverted", block |-> b,
                      by |-> canonicalized[CHOOSE i \in at(b) : TRUE]]
    IN [i \in DOMAIN paired |-> revert(paired[i])] \o
       [i \in DOMAIN canonicalized |->
           [type |-> "Canonicalized", block |-> canonicalized[i], by |-> NoBlock]]

\* Mutant of StepEvents: a canonical block is announced before it is observed.
StepEventsLate(r, b) ==
    CASE r.kind = "Fork" -> Observed(b)
      [] r.kind = "Canonical" ->
            CanonicalEvents(r.reverted, r.canonicalized) \o Observed(b)
      [] OTHER -> << >>

\* What ingest publishes for the outcome r of adding b.
StepEvents(r, b) ==
    CASE r.kind = "Fork" -> Observed(b)
      [] r.kind = "Canonical" ->
            Observed(b) \o CanonicalEvents(r.reverted, r.canonicalized)
      [] OTHER -> << >>
==============================================================================
