--------------------------- MODULE BoundedMapCalls ---------------------------
(***************************************************************************)
(* The bounded map under any sequence of calls of one owner                *)
(* (crates/bounded-map/src/lib.rs).                                        *)
(*                                                                         *)
(* taken is history: the keys a take has removed.                          *)
(***************************************************************************)
EXTENDS BoundedFifoMap, Filter

CONSTANTS
    Key, Item,
    Reuse,          \* TRUE: a key that was taken may be put again
    MaxOrder        \* bound: length of the queue

ASSUME ReuseAssumption == Reuse \in BOOLEAN /\ MaxOrder \in Nat

VARIABLES map, taken

mapVars == <<map, taken>>

MapInit == map = EmptyMap /\ taken = {}

CallPut(k, v) ==
    /\ Len(map.order) < MaxOrder
    /\ Reuse \/ k \notin taken
    /\ map' = Put(map, k, v)
    /\ UNCHANGED taken

CallTake(k) ==
    /\ k \in Live(map)
    /\ map' = Take(map, k)
    /\ taken' = taken \cup {k}

CallRetain(x) ==
    /\ map' = RetainValues(map, x)
    /\ UNCHANGED taken

MapNext ==
    \/ \E k \in Key, v \in SUBSET Item : CallPut(k, v)
    \/ \E k \in Key : CallTake(k)
    \/ \E x \in Item : CallRetain(x)

MapSpec == MapInit /\ [][MapNext]_mapVars

-----------------------------------------------------------------------------
\* A bounded map never holds more keys than its capacity, although the loop
\* of evict_to_fit gives up on an empty queue.
NeverOverfull == Capacity > 0 => Cardinality(Live(map)) <= Capacity

\* Every key held is still in the queue, so eviction can always find it:
\* neither the free pops of taken keys nor an eviction loses one.
HeldIsQueued ==
    \A k \in Live(map) : \E i \in DOMAIN map.order : map.order[i] = k

\* Keys only the call's own put or eviction can account for.
Gained == Live(map') \ Live(map)
Lost == Live(map) \ Live(map')

\* A put of a new key drops another only if the map was full, and then exactly
\* one, however many taken keys the loop of evict_to_fit pops on its way.
EvictsOnlyWhenFull ==
    [][ Gained # {} =>
            IF Capacity > 0 /\ Cardinality(Live(map)) = Capacity
            THEN Cardinality(Lost) = 1 ELSE Lost = {} ]_mapVars

\* The queue without the keys that were taken: what the cache looks like.
StillHeld == Sift(map.order, Live(map))

Fifo == INSTANCE FifoCache WITH queue <- StillHeld

\* The map implements the FIFO cache its documentation describes, as long as
\* a key that was taken does not come back: whatever take left in the queue,
\* eviction follows the age of the keys held.
ImplementsFifoCache == Fifo!Spec
==============================================================================
