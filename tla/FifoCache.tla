------------------------------ MODULE FifoCache ------------------------------
(***************************************************************************)
(* What the bounded map promises its callers: at most Capacity keys, and   *)
(* when a new one does not fit, the oldest of the keys held goes.          *)
(***************************************************************************)
EXTENDS Filter

CONSTANTS Key, Capacity

VARIABLE queue      \* the keys held, oldest first

Held == {queue[i] : i \in DOMAIN queue}

Init == queue = << >>

Add(k) ==
    /\ k \notin Held
    /\ queue' = IF Capacity # 0 /\ Len(queue) = Capacity
                THEN Append(Tail(queue), k) ELSE Append(queue, k)

Remove(k) ==
    /\ k \in Held
    /\ queue' = Sift(queue, Key \ {k})

Spec == Init /\ [][\E k \in Key : Add(k) \/ Remove(k)]_queue
==============================================================================
