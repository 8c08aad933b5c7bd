---------------------------- MODULE BoundedFifoMap ----------------------------
(***************************************************************************)
(* The bounded map every correlation and orphan buffer of the backbone     *)
(* shares (crates/bounded-map/src/lib.rs), as operators on a value m with  *)
(*   m.entries  the HashMap, a function on the keys held,                  *)
(*   m.order    the VecDeque of keys in order of insertion.                *)
(* Values are sets, the Vec values of its callers.                         *)
(***************************************************************************)
EXTENDS Integers, Sequences, FiniteSets

CONSTANT Capacity       \* 0 means unbounded

ASSUME CapacityAssumption == Capacity \in Nat

EmptyMap == [entries |-> << >>, order |-> << >>]

Live(m) == DOMAIN m.entries

Without(f, k) == [x \in DOMAIN f \ {k} |-> f[x]]

With(f, k, v) == [x \in DOMAIN f \cup {k} |-> IF x = k THEN v ELSE f[x]]

\* Where the oldest key of the queue that is still held stands.
OldestLive(m) ==
    CHOOSE i \in DOMAIN m.order :
        /\ m.order[i] \in Live(m)
        /\ \A j \in 1..(i - 1) : m.order[j] \notin Live(m)

\* Mutant of EvictToFit: makes room only once the map is over its capacity.
EvictWhenOver(m) ==
    IF Capacity = 0 \/ Cardinality(Live(m)) <= Capacity
    THEN m
    ELSE [entries |-> Without(m.entries, m.order[OldestLive(m)]),
          order |-> SubSeq(m.order, OldestLive(m) + 1, Len(m.order))]

\* Mutant of EvictToFit: evicts the youngest key of the queue.
EvictYoungest(m) ==
    IF Capacity = 0 \/ Cardinality(Live(m)) < Capacity
    THEN m
    ELSE LET k == CHOOSE i \in DOMAIN m.order :
                    /\ m.order[i] \in Live(m)
                    /\ \A j \in (i + 1)..Len(m.order) : m.order[j] \notin Live(m)
         IN [entries |-> Without(m.entries, m.order[k]),
             order |-> SubSeq(m.order, 1, k - 1)]

\* evict_to_fit: keys that take() already removed are popped for free, the
\* first one still held is evicted; an empty queue ends the loop.
EvictToFit(m) ==
    IF Capacity = 0 \/ Cardinality(Live(m)) < Capacity
    THEN m
    ELSE IF \E i \in DOMAIN m.order : m.order[i] \in Live(m)
    THEN [entries |-> Without(m.entries, m.order[OldestLive(m)]),
          order |-> SubSeq(m.order, OldestLive(m) + 1, Len(m.order))]
    ELSE [m EXCEPT !.order = << >>]

\* put: overwriting does not touch the queue, a new key makes room first.
Put(m, k, v) ==
    IF k \in Live(m)
    THEN [m EXCEPT !.entries = With(@, k, v)]
    ELSE [entries |-> With(EvictToFit(m).entries, k, v),
          order |-> Append(EvictToFit(m).order, k)]

\* take: the queue keeps its entry.
Take(m, k) == [m EXCEPT !.entries = Without(@, k)]

\* retain_values: scrubs an element out of every value, the keys stay.
RetainValues(m, x) == [m EXCEPT !.entries = [k \in DOMAIN @ |-> @[k] \ {x}]]
===============================================================================
