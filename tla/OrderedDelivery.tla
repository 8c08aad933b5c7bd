--------------------------- MODULE OrderedDelivery ---------------------------
(***************************************************************************)
(* What the consume loop promises a service: the records of a partition    *)
(* are first processed in the order of the log, none is left out and none  *)
(* is acknowledged before it has been processed.                           *)
(***************************************************************************)
EXTENDS Integers, Sequences

CONSTANTS Partition, Log

VARIABLES done,     \* done[p]: offsets of the records processed at least once
          acked     \* acked[p]: records that will not be delivered again

Init ==
    /\ done = [p \in Partition |-> {}]
    /\ acked = [p \in Partition |-> 0]

\* The next record that was never processed, or one that was (a redelivery).
Process(p, i) ==
    /\ i \in 1..Len(Log[p])
    /\ 1..(i - 1) \subseteq done[p]
    /\ done' = [done EXCEPT ![p] = @ \cup {i}]

\* Acknowledgement of processed records, or of fewer than before.
Acknowledge(p) ==
    \E n \in 0..Len(Log[p]) :
        1..n \subseteq done'[p] /\ acked' = [acked EXCEPT ![p] = n]

Next ==
    \E p \in Partition :
        /\ UNCHANGED done \/ \E i \in 1..Len(Log[p]) : Process(p, i)
        /\ UNCHANGED acked \/ Acknowledge(p)

Spec == Init /\ [][Next]_<<done, acked>>
==============================================================================
