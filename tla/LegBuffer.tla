------------------------------ MODULE LegBuffer ------------------------------
(***************************************************************************)
(* The candidate-leg buffer of one bridge or pair and the windowed join    *)
(* over it (crates/cross-chain-correlator/src/buffer.rs and join.rs).      *)
(*                                                                         *)
(* A leg is one event.  Buffer, index and changelog address it by the hash *)
(* of its transaction, which other legs may share.  A leg that is          *)
(* delivered twice is held twice.                                          *)
(***************************************************************************)
EXTENDS Filter

CONSTANTS
    Leg,
    TxOf,       \* its transaction
    ChainOf,    \* the chain a leg was seen on
    KindOf,     \* "deposit" or "swap"
    KeyOf,      \* its correlation key
    Observed,   \* when it was observed
    Window,     \* leg_window
    Capacity    \* leg_buffer_capacity, at least 1

\* The legs in order of arrival, and the secondary index by_key, as the order
\* in which the legs entered it.
EmptyBuffer == [legs |-> << >>, index |-> << >>]

Members(s) == {s[i] : i \in DOMAIN s}

\* The legs with the hash of l, and those of them that l's entry under its key
\* may stand for.
SameTx(l) == {x \in Leg : TxOf[x] = TxOf[l]}
SameEntry(l) == {x \in SameTx(l) : KeyOf[x] = KeyOf[l]}

\* deindex: every entry of the hash under the leg's key goes.
Deindex(index, l) == Sift(index, Leg \ SameEntry(l))

\* The first leg with the hash of l.  There is one wherever the join asks: the
\* index has a hash at most as often as legs has it.
FirstOf(legs, l) ==
    LET same == Sift(legs, SameTx(l)) IN IF same = << >> THEN l ELSE Head(same)

\* The first l of s goes, if there is one.
DropFirst(s, l) ==
    IF l \notin Members(s) THEN s
    ELSE [n \in 1..(Len(s) - 1) |->
             IF \E i \in 1..n : s[i] = l THEN s[n + 1] ELSE s[n]]

\* remove, where l is the first leg with its hash: it goes, and the index forgets
\* the hash under its key, also where another leg of the transaction stays.
RemoveLeg(buf, l) ==
    [legs |-> DropFirst(buf.legs, l), index |-> Deindex(buf.index, l)]

Expired(l, now) == now - Observed[l] > Window
Stale(now) == {l \in Leg : Expired(l, now)}

\* evict_expired: a full scan, since clocks skew between chains.
EvictExpired(buf, now) ==
    [legs  |-> Sift(buf.legs, Leg \ Stale(now)),
     index |-> Sift(buf.index, Leg \ UNION {SameEntry(l) : l \in Members(buf.legs) \cap Stale(now)})]

\* The capacity backstop drops the oldest arrival; then the leg is appended.
Push(buf, l) ==
    LET room == IF Len(buf.legs) < Capacity THEN buf
                ELSE [legs  |-> Tail(buf.legs),
                      index |-> Deindex(buf.index, Head(buf.legs))]
    IN [legs |-> Append(room.legs, l), index |-> Append(room.index, l)]

\* insert.
Insert(buf, l, now) == Push(EvictExpired(buf, now), l)

\* Mutant of Evicted: the capacity eviction is not reported.
EvictedByAge(buf, now) == Sift(buf.legs, Stale(now))

\* What insert reports as evicted: the expired legs, then the one over capacity.
Evicted(buf, now) ==
    LET kept == EvictExpired(buf, now).legs
    IN Sift(buf.legs, Stale(now)) \o
       (IF Len(kept) < Capacity THEN << >> ELSE << Head(kept) >>)

\* l in its place among legs in order of observation, after its equals.
Placed(legs, l) ==
    LET late == {x \in Leg : Observed[x] > Observed[l]}
    IN Sift(legs, Leg \ late) \o << l >> \o Sift(legs, late)

\* seed: replayed legs in order of observation.
Seed(legs) ==
    LET sorted[n \in Nat] ==
            IF n = 0 THEN << >> ELSE Placed(sorted[n - 1], legs[n])
        order == sorted[Len(legs)]
        seeded[n \in Nat] ==
            IF n = 0 THEN EmptyBuffer ELSE Push(seeded[n - 1], order[n])
    IN seeded[Len(order)]

-----------------------------------------------------------------------------
\* candidates_for: for every hash the index has under l's key, the first leg
\* with that hash.
Candidates(buf, l) ==
    LET held == {x \in Leg : SameTx(x) \cap Members(buf.legs) # {}}
        hits == Sift(buf.index, {x \in held : KeyOf[x] = KeyOf[l]})
    IN [i \in DOMAIN hits |-> FirstOf(buf.legs, hits[i])]

\* STRATEGIES in priority order: the first leg of the complementary kind on
\* another chain (bridge), else every large swap there if l is one (cross-chain
\* arbitrage).
Matched(buf, l) ==
    LET other  == {x \in Leg : ChainOf[x] # ChainOf[l]}
        bridge == Sift(Candidates(buf, l), {x \in other : KindOf[x] # KindOf[l]})
        arb    == Sift(Candidates(buf, l), {x \in other : KindOf[x] = "swap"})
    IN IF bridge # << >> THEN << Head(bridge) >>
       ELSE IF KindOf[l] = "swap" THEN arb ELSE << >>

\* apply: the buffer after the removes of the first n matched hashes.
Left(buf, legs) ==
    LET left[n \in Nat] ==
            IF n = 0 THEN buf
            ELSE RemoveLeg(left[n - 1], FirstOf(left[n - 1].legs, legs[n]))
    IN left
Consume(buf, legs) == Left(buf, legs)[Len(legs)]

\* The legs these take, which are the finding's: with a hash that the index has
\* twice, the second remove takes the next leg of the transaction.
Consumed(buf, legs) ==
    [n \in DOMAIN legs |-> FirstOf(Left(buf, legs)[n - 1].legs, legs[n])]
==============================================================================
