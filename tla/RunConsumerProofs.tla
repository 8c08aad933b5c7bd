-------------------------- MODULE RunConsumerProofs --------------------------
(***************************************************************************)
(* The consume loop delivers in order and at least once, for every set of  *)
(* partitions, every log and any number of failures, as long as a seek     *)
(* back does not fail.                                                     *)
(*                                                                         *)
(* CommittedIsSettled is not inductive: a rebalance resumes at the         *)
(* committed offset, and what a session commits depends on its position.   *)
(* The strengthening says the same of the position, ReachedIsSettled.      *)
(***************************************************************************)
EXTENDS RunConsumer, TLAPS

\* Everything before a session's position has been settled.
ReachedIsSettled == \A p \in Partition : 1..pos[p] \subseteq done[p]

LoopInv == LoopTypeOK /\ ReachedIsSettled /\ SettledInOrder

\* The initial state satisfies the invariant: nothing received, nothing done.
LEMMA LoopInvInit == Init => LoopInv
  <1>1. \A p \in Partition : Len(Log[p]) \in Nat
    BY LogAssumption
  <1> QED
    BY <1>1, FailuresAssumption
       DEF Init, LoopInit, LoopInv, LoopTypeOK, ReachedIsSettled, SettledInOrder

\* A settled record extends the prefix of settled records by one, whether or
\* not its commit reaches the broker.
LEMMA SettleStep ==
    ASSUME LoopInv, NEW p \in Partition, HasRecord(p), Settle(p),
           running' \in BOOLEAN, failures' \in 0..MaxFailures
    PROVE  LoopInv'
  <1>1. /\ Len(Log[p]) \in Nat /\ pos[p] \in Nat /\ committed[p] \in Nat
        /\ committed[p] <= pos[p] /\ pos[p] + 1 <= Len(Log[p])
    BY LogAssumption DEF LoopInv, LoopTypeOK, HasRecord
  <1>2. /\ pos' = [pos EXCEPT ![p] = @ + 1]
        /\ done' = [done EXCEPT ![p] = @ \cup {pos[p] + 1}]
        /\ committed' = [committed EXCEPT ![p] = pos[p] + 1] \/ committed' = committed
    BY DEF Settle, Commits
  <1>3. /\ pos \in [Partition -> Nat] /\ committed \in [Partition -> Nat]
        /\ done \in [Partition -> SUBSET Nat]
    BY DEF LoopInv, LoopTypeOK
  <1>4. pos' \in [Partition -> Nat] /\ committed' \in [Partition -> Nat]
    BY <1>1, <1>2, <1>3
  <1>5. done' \in [Partition -> SUBSET Nat]
    BY <1>1, <1>2, <1>3
  <1>6. ASSUME NEW q \in Partition
        PROVE  /\ committed'[q] <= pos'[q] /\ pos'[q] <= Len(Log[q])
               /\ 1..pos'[q] \subseteq done'[q]
               /\ \A i \in done'[q] : 1..i \subseteq done'[q]
    <2>1. CASE q = p
      <3>1. /\ pos'[q] = pos[p] + 1
            /\ done'[q] = done[p] \cup {pos[p] + 1}
            /\ committed'[q] = pos[p] + 1 \/ committed'[q] = committed[p]
        BY <1>2, <1>3, <2>1
      <3>2. 1..pos[p] \subseteq done[p] /\ \A i \in done[p] : 1..i \subseteq done[p]
        BY DEF LoopInv, ReachedIsSettled, SettledInOrder
      <3>3. 1..(pos[p] + 1) = (1..pos[p]) \cup {pos[p] + 1}
        BY <1>1
      <3> QED BY <1>1, <2>1, <3>1, <3>2, <3>3
    <2>2. CASE q # p
      <3>1. pos'[q] = pos[q] /\ done'[q] = done[q] /\ committed'[q] = committed[q]
        BY <1>2, <1>3, <2>2
      <3> QED
        BY <3>1 DEF LoopInv, LoopTypeOK, ReachedIsSettled, SettledInOrder
    <2> QED BY <2>1, <2>2
  <1> QED
    BY <1>4, <1>5, <1>6 DEF LoopInv, LoopTypeOK, ReachedIsSettled, SettledInOrder

\* Going back to the committed offset, for one partition or for all, keeps
\* the invariant.
LEMMA ResumeStep ==
    ASSUME LoopInv, NEW S \in SUBSET Partition,
           pos' = [p \in Partition |-> IF p \in S THEN committed[p] ELSE pos[p]],
           committed' = committed, done' = done,
           running' \in BOOLEAN, failures' \in 0..MaxFailures
    PROVE  LoopInv'
  <1>1. pos' \in [Partition -> Nat] /\ committed' \in [Partition -> Nat]
        /\ done' \in [Partition -> SUBSET Nat]
    BY DEF LoopInv, LoopTypeOK
  <1>2. ASSUME NEW q \in Partition
        PROVE  /\ committed'[q] <= pos'[q] /\ pos'[q] <= Len(Log[q])
               /\ 1..pos'[q] \subseteq done'[q]
               /\ \A i \in done'[q] : 1..i \subseteq done'[q]
    <2>1. /\ committed[q] \in Nat /\ pos[q] \in Nat /\ Len(Log[q]) \in Nat
          /\ committed[q] <= pos[q] /\ pos[q] <= Len(Log[q])
          /\ 1..pos[q] \subseteq done[q]
          /\ \A i \in done[q] : 1..i \subseteq done[q]
      BY LogAssumption DEF LoopInv, LoopTypeOK, ReachedIsSettled, SettledInOrder
    <2>2. 1..committed[q] \subseteq 1..pos[q]
      BY <2>1
    <2>3. pos'[q] = committed[q] \/ pos'[q] = pos[q]
      OBVIOUS
    <2> QED BY <2>1, <2>2, <2>3
  <1> QED
    BY <1>1, <1>2 DEF LoopInv, LoopTypeOK, ReachedIsSettled, SettledInOrder

\* Every step of the loop preserves the invariant when seeks succeed.
LEMMA LoopInvStep ==
    ASSUME ~SeekMayFail, LoopInv, [Next]_vars
    PROVE  LoopInv'
  <1>0. /\ pos \in [Partition -> Nat] /\ committed \in [Partition -> Nat]
        /\ running \in BOOLEAN /\ failures \in Nat /\ failures <= MaxFailures
    BY FailuresAssumption DEF LoopInv, LoopTypeOK
  <1>m. MayFail => failures' \in 0..MaxFailures
    BY <1>0, FailuresAssumption DEF MayFail
  <1>u. ASSUME UNCHANGED <<pos, committed, done>>,
               running' \in BOOLEAN, failures' \in 0..MaxFailures
        PROVE  LoopInv'
    BY <1>u DEF LoopInv, LoopTypeOK, ReachedIsSettled, SettledInOrder
  <1>1. ASSUME NEW p \in Partition, SkipPoison(p) \/ HandleOk(p) PROVE LoopInv'
    <2>1. /\ HasRecord(p) /\ Settle(p)
          /\ running' \in BOOLEAN /\ failures' \in 0..MaxFailures
      BY <1>0, <1>1 DEF SkipPoison, HandleOk
    <2> QED BY <2>1, SettleStep
  <1>2. ASSUME NEW p \in Partition, HandleRetry(p) PROVE LoopInv'
    <2>1. /\ UNCHANGED <<pos, committed, done>>
          /\ running' \in BOOLEAN /\ failures' \in 0..MaxFailures
      BY <1>0, <1>2, <1>m DEF HandleRetry, Retries
    <2> QED BY <1>u, <2>1
  <1>3. ASSUME NEW p \in Partition, HandleStop(p) PROVE LoopInv'
    <2>1. /\ UNCHANGED <<pos, committed, done>>
          /\ running' \in BOOLEAN /\ failures' \in 0..MaxFailures
      BY <1>3, <1>m DEF HandleStop
    <2> QED BY <1>u, <2>1
  <1>4. ASSUME NEW p \in Partition, Rebalance(p) PROVE LoopInv'
    <2>1. /\ pos' = [q \in Partition |-> IF q \in {p} THEN committed[q] ELSE pos[q]]
          /\ committed' = committed /\ done' = done
      BY <1>0, <1>4 DEF Rebalance, Reassign
    <2>2. running' \in BOOLEAN /\ failures' \in 0..MaxFailures
      BY <1>0, <1>4, <1>m DEF Rebalance
    <2>3. {p} \in SUBSET Partition
      OBVIOUS
    <2> QED BY <2>1, <2>2, <2>3, ResumeStep
  <1>5. CASE Shutdown
    <2>1. /\ UNCHANGED <<pos, committed, done>>
          /\ running' \in BOOLEAN /\ failures' \in 0..MaxFailures
      BY <1>5, <1>m DEF Shutdown
    <2> QED BY <1>u, <2>1
  <1>6. CASE Start
    <2>1. /\ pos' = [q \in Partition |-> IF q \in Partition THEN committed[q] ELSE pos[q]]
          /\ committed' = committed /\ done' = done
      BY <1>0, <1>6 DEF Start, Resume
    <2>2. running' \in BOOLEAN /\ failures' \in 0..MaxFailures
      BY <1>0, <1>6 DEF Start
    <2>3. Partition \in SUBSET Partition
      OBVIOUS
    <2> QED BY <2>1, <2>2, <2>3, ResumeStep
  <1>7. CASE UNCHANGED vars
    <2>1. /\ UNCHANGED <<pos, committed, done>>
          /\ running' \in BOOLEAN /\ failures' \in 0..MaxFailures
      BY <1>0, <1>7 DEF vars
    <2> QED BY <1>u, <2>1
  <1> QED
    BY <1>1, <1>2, <1>3, <1>4, <1>5, <1>6, <1>7 DEF Next, Handling

\* The invariant holds throughout every run of the loop.
THEOREM LoopInvariant ==
    ASSUME ~SeekMayFail
    PROVE  Spec => []LoopInv
  <1>1. LoopInv /\ [Next]_vars => LoopInv'
    BY LoopInvStep
  <1> QED
    BY <1>1, LoopInvInit, PTL DEF Spec

\* The broker's offset never passes a record that was not settled: no crash,
\* rebalance or lost commit of run_consumer loses a record.
THEOREM NoRecordLost ==
    ASSUME ~SeekMayFail
    PROVE  Spec => []CommittedIsSettled
  <1>1. LoopInv => CommittedIsSettled
    <2> SUFFICES ASSUME LoopInv, NEW p \in Partition
                 PROVE  1..committed[p] \subseteq done[p]
      BY DEF CommittedIsSettled
    <2>1. committed[p] \in Nat /\ pos[p] \in Nat /\ committed[p] <= pos[p]
      BY DEF LoopInv, LoopTypeOK
    <2>2. 1..committed[p] \subseteq 1..pos[p]
      BY <2>1
    <2> QED BY <2>2 DEF LoopInv, ReachedIsSettled
  <1> QED
    BY <1>1, LoopInvariant, PTL

\* Records of a partition are settled in log order for the first time.
THEOREM NoRecordOvertaken ==
    ASSUME ~SeekMayFail
    PROVE  Spec => []SettledInOrder
  <1>1. LoopInv => SettledInOrder
    BY DEF LoopInv
  <1> QED
    BY <1>1, LoopInvariant, PTL

\* The consume loop implements ordered at-least-once delivery: a verdict that
\* settles a record is a step of the abstract log reader, everything else a
\* stutter of it.
THEOREM LoopRefinesDelivery ==
    ASSUME ~SeekMayFail
    PROVE  Spec => ImplementsDelivery
  <1>1. Init => Delivery!Init
    BY DEF Init, LoopInit, Delivery!Init
  <1>2. ASSUME LoopInv, [Next]_vars
        PROVE  [Delivery!Next]_<<done, committed>>
    <2>1. ASSUME NEW p \in Partition, SkipPoison(p) \/ HandleOk(p)
          PROVE  Delivery!Next
      <3>1. HasRecord(p) /\ Settle(p)
        BY <2>1 DEF SkipPoison, HandleOk
      <3>2. /\ pos[p] \in Nat /\ Len(Log[p]) \in Nat
            /\ pos[p] + 1 \in 1..Len(Log[p])
            /\ 1..pos[p] \subseteq done[p] /\ done \in [Partition -> SUBSET Nat]
        BY <1>2, <3>1, LogAssumption
           DEF LoopInv, LoopTypeOK, HasRecord, ReachedIsSettled
      <3>3. done' = [done EXCEPT ![p] = @ \cup {pos[p] + 1}]
        BY <3>1 DEF Settle
      <3>4. (pos[p] + 1) - 1 = pos[p]
        BY <3>2
      <3>5. Delivery!Process(p, pos[p] + 1)
        BY <3>2, <3>3, <3>4 DEF Delivery!Process
      <3>6. 1..(pos[p] + 1) \subseteq done'[p]
        <4>1. 1..(pos[p] + 1) = (1..pos[p]) \cup {pos[p] + 1}
          BY <3>2
        <4>2. done'[p] = done[p] \cup {pos[p] + 1}
          BY <3>2, <3>3
        <4> QED BY <3>2, <4>1, <4>2
      <3>7. committed' = committed \/ committed' = [committed EXCEPT ![p] = pos[p] + 1]
        BY <3>1 DEF Settle, Commits
      <3>8. committed' = committed \/ Delivery!Acknowledge(p)
        <4>1. pos[p] + 1 \in 0..Len(Log[p])
          BY <3>2
        <4> QED BY <3>6, <3>7, <4>1 DEF Delivery!Acknowledge
      <3> QED BY <3>2, <3>5, <3>8 DEF Delivery!Next
    <2>2. ASSUME NEW p \in Partition,
                 HandleRetry(p) \/ HandleStop(p) \/ Rebalance(p)
          PROVE  UNCHANGED <<done, committed>>
      BY <2>2 DEF HandleRetry, HandleStop, Rebalance, Retries, Reassign
    <2>3. CASE Shutdown \/ Start
      BY <2>3 DEF Shutdown, Start, Resume
    <2>4. CASE UNCHANGED vars
      BY <2>4 DEF vars
    <2> QED
      BY <1>2, <2>1, <2>2, <2>3, <2>4 DEF Next, Handling
  <1> QED
    BY <1>1, <1>2, LoopInvariant, PTL DEF Spec, ImplementsDelivery, Delivery!Spec
==============================================================================
