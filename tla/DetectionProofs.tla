--------------------------- MODULE DetectionProofs ---------------------------
(***************************************************************************)
(* Proofs about the detection service, for any blocks, any order in which  *)
(* ingestion adds them, any window and channel capacities and any number   *)
(* of crashes, shutdowns and rebalances.                                   *)
(***************************************************************************)
EXTENDS Detection, TLAPS, WellFoundedInduction

-----------------------------------------------------------------------------
(***************************************************************************)
(* The snapshot store.                                                     *)
(***************************************************************************)

\* The snapshots ascend in height and lie within the window of the last one;
\* what is folded into one ascends too, and does not pass its block, and is
\* what was folded into the one below and then its block.
Ascends(vs) ==
    \A u, v \in DOMAIN vs : u < v => Number[vs[u].block] < Number[vs[v].block]
InWindow(vs) ==
    \A u \in DOMAIN vs :
        u < Len(vs) => Number[vs[Len(vs)].block] < Number[vs[u].block] + Window
FoldsAscend(vs) ==
    \A v \in DOMAIN vs :
        /\ \A i, j \in DOMAIN vs[v].folded :
              i < j => Number[vs[v].folded[i]] < Number[vs[v].folded[j]]
        /\ \A i \in DOMAIN vs[v].folded :
              Number[vs[v].folded[i]] <= Number[vs[v].block]
Nests(vs) ==
    \A v \in DOMAIN vs :
        /\ vs[v].folded # << >> /\ vs[v].folded[Len(vs[v].folded)] = vs[v].block
        /\ v > 1 => vs[v].folded = Append(vs[v - 1].folded, vs[v].block)
Store(vs) ==
    /\ vs \in Seq(Version(Block))
    /\ Ascends(vs) /\ InWindow(vs) /\ FoldsAscend(vs) /\ Nests(vs)

LEMMA SmallestIndex ==
    ASSUME NEW S, S \subseteq Nat, S # {}
    PROVE  \E i \in S : \A j \in S : i <= j
  <1>1. IsWellFoundedOn(OpToRel(<, Nat), Nat)
    BY NatLessThanWellFounded
  <1>2. PICK x \in S : \A y \in S : ~(<<y, x>> \in OpToRel(<, Nat))
    BY <1>1, WFMin
  <1>3. \A y \in S : ~(y < x)
    BY <1>2 DEF OpToRel
  <1> QED
    BY <1>3

\* A version's fields.
LEMMA VersionFields ==
    ASSUME NEW vs \in Seq(Version(Block)), NEW v \in DOMAIN vs
    PROVE  /\ v \in 1..Len(vs) /\ vs[v] \in Version(Block) /\ vs[v].block \in Block
           /\ vs[v].folded \in Seq(Block) /\ Number[vs[v].block] \in Nat
  <1>1. v \in 1..Len(vs) /\ vs[v] \in Version(Block)
    OBVIOUS
  <1>2. vs[v].block \in Block /\ vs[v].folded \in Seq(Block)
    BY <1>1 DEF Version
  <1> QED
    BY <1>1, <1>2, BlockAssumption

\* A suffix of a sequence.
LEMMA Suffix ==
    ASSUME NEW S, NEW s \in Seq(S), NEW k \in 1..Len(s)
    PROVE  LET t == SubSeq(s, k, Len(s))
           IN /\ t \in Seq(S) /\ Len(t) = Len(s) - k + 1 /\ DOMAIN t = 1..Len(t)
              /\ \A i \in 1..Len(t) : t[i] = s[i + k - 1] /\ i + k - 1 \in DOMAIN s
  <1> DEFINE t == SubSeq(s, k, Len(s))
  <1>1. Len(s) \in Nat /\ DOMAIN s = 1..Len(s)
    OBVIOUS
  <1>2. t = [i \in 1..(Len(s) - k + 1) |-> s[i + k - 1]]
    BY <1>1
  <1>3. Len(s) - k + 1 \in Nat /\ \A i \in 1..(Len(s) - k + 1) : i + k - 1 \in 1..Len(s)
    BY <1>1
  <1>4. \A i \in 1..(Len(s) - k + 1) : s[i + k - 1] \in S
    BY <1>3
  <1>5. t \in Seq(S) /\ Len(t) = Len(s) - k + 1
    BY <1>2, <1>3, <1>4
  <1> QED
    BY <1>1, <1>2, <1>3, <1>5

\* Pruning drops a prefix, after which every height is in the window.
LEMMA PruneStore ==
    ASSUME NEW vs \in Seq(Version(Block)), vs # << >>, Ascends(vs), FoldsAscend(vs),
           Nests(vs)
    PROVE  Store(PruneToWindow(vs))
  <1> DEFINE tip == Number[Tip(vs).block]
             floor == IF Window < tip THEN tip - Window ELSE 0
             fresh == {i \in DOMAIN vs : i = Len(vs) \/ floor < Number[vs[i].block]}
             keep == CHOOSE i \in fresh : \A j \in fresh : i <= j
             k == keep
             s == SubSeq(vs, keep, Len(vs))
  <1>1. /\ Len(vs) \in Nat \ {0} /\ DOMAIN vs = 1..Len(vs) /\ Len(vs) \in fresh
        /\ fresh \subseteq Nat
    OBVIOUS
  <1>2. keep \in fresh
    <2>1. \E i \in fresh : \A j \in fresh : i <= j
      <3> HIDE DEF fresh
      <3> QED BY <1>1, SmallestIndex
    <2> QED BY <2>1
  <1>3. keep \in 1..Len(vs) /\ (keep = Len(vs) \/ floor < Number[vs[keep].block])
    BY <1>1, <1>2
  <1>4. PruneToWindow(vs) = s
    BY DEF PruneToWindow
  <1> HIDE DEF keep
  <1>5. /\ s \in Seq(Version(Block)) /\ Len(s) = Len(vs) - keep + 1
        /\ DOMAIN s = 1..Len(s)
        /\ \A i \in 1..Len(s) : s[i] = vs[i + keep - 1] /\ i + keep - 1 \in DOMAIN vs
    BY <1>3, Suffix
  <1> HIDE DEF s
  <1> HIDE DEF tip, floor, fresh
  <1>6. Ascends(s)
    <2> SUFFICES ASSUME NEW u \in 1..Len(s), NEW v \in 1..Len(s), u < v
                 PROVE  Number[s[u].block] < Number[s[v].block]
      BY <1>5 DEF Ascends
    <2>1. /\ u + keep - 1 \in DOMAIN vs /\ v + keep - 1 \in DOMAIN vs
          /\ u + keep - 1 < v + keep - 1
          /\ s[u] = vs[u + keep - 1] /\ s[v] = vs[v + keep - 1]
      BY <1>3, <1>5
    <2> QED BY <2>1 DEF Ascends
  <1>7. FoldsAscend(s)
    BY <1>1, <1>3, <1>5 DEF FoldsAscend
  <1>8. InWindow(s)
    <2> SUFFICES ASSUME NEW u \in DOMAIN s, u < Len(s)
                 PROVE  Number[s[Len(s)].block] < Number[s[u].block] + Window
      BY DEF InWindow
    <2> DEFINE p == u + keep - 1
    <2>1. /\ p \in DOMAIN vs /\ s[u] = vs[p] /\ keep <= p /\ p < Len(vs)
          /\ s[Len(s)] = vs[Len(vs)] /\ keep # Len(vs) /\ keep \in DOMAIN vs
      <3>1. u \in 1..Len(s) /\ Len(s) \in 1..Len(s) /\ Len(s) \in Nat
        BY <1>5
      <3>2. s[u] = vs[p] /\ p \in DOMAIN vs /\ s[Len(s)] = vs[Len(s) + keep - 1]
        BY <1>5, <3>1
      <3>3. Len(s) + keep - 1 = Len(vs) /\ keep <= p /\ p < Len(vs) /\ keep # Len(vs)
        <4>1. /\ Len(vs) \in Nat /\ keep \in Nat /\ 1 <= keep /\ keep <= Len(vs)
              /\ u \in Nat /\ 1 <= u /\ u < Len(s)
          <5>1. Len(vs) \in Nat /\ keep \in 1..Len(vs)
            BY <1>1, <1>3
          <5>2. keep \in Nat /\ 1 <= keep /\ keep <= Len(vs)
            BY <5>1
          <5>3. u \in Nat /\ 1 <= u
            BY <3>1
          <5> QED BY <5>1, <5>2, <5>3
        <4>2. Len(s) = Len(vs) - keep + 1
          BY <1>5
        <4> QED BY <3>1, <4>1, <4>2
      <3> QED BY <1>1, <1>3, <3>2, <3>3
    <2>2. /\ Number[vs[p].block] \in Nat /\ Number[vs[keep].block] \in Nat
          /\ Number[vs[Len(vs)].block] \in Nat
      BY <1>1, <2>1, VersionFields
    <2>3. Number[vs[keep].block] <= Number[vs[p].block]
      BY <1>1, <1>3, <2>1, <2>2 DEF Ascends
    <2>4. floor < Number[vs[keep].block] /\ tip = Number[vs[Len(vs)].block]
      BY <1>3, <2>1 DEF Tip, tip
    <2>5. tip - Window <= floor /\ floor \in Nat /\ tip \in Nat /\ Window \in Nat
      BY <2>2, <2>4, DetectionAssumption DEF floor
    <2>6. tip < Number[vs[p].block] + Window
      <3> DEFINE x == Number[vs[p].block]
                 y == Number[vs[keep].block]
      <3>1. x \in Nat /\ y \in Nat /\ y <= x /\ floor < y
        BY <2>2, <2>3, <2>4
      <3> HIDE DEF x, y
      <3>2. tip < x + Window
        BY <2>5, <3>1
      <3> QED BY <3>2 DEF x
    <2> QED
      BY <2>1, <2>4, <2>6
  <1>9. Nests(s)
    <2> SUFFICES ASSUME NEW v \in 1..Len(s)
                 PROVE  /\ s[v].folded # << >>
                        /\ s[v].folded[Len(s[v].folded)] = s[v].block
                        /\ v > 1 => s[v].folded = Append(s[v - 1].folded, s[v].block)
      BY <1>5 DEF Nests
    <2> DEFINE p == v + keep - 1
    <2>1. p \in DOMAIN vs /\ s[v] = vs[p]
      BY <1>5
    <2>2. ASSUME v > 1
          PROVE  p > 1 /\ s[v - 1] = vs[p - 1]
      <3>1. keep \in Nat /\ 1 <= keep /\ v \in Nat /\ v - 1 \in 1..Len(s)
        BY <1>3, <2>2, <1>5
      <3>2. s[v - 1] = vs[(v - 1) + keep - 1]
        BY <1>5, <3>1
      <3>3. p > 1 /\ (v - 1) + keep - 1 = p - 1
        BY <2>2, <3>1
      <3> QED BY <3>2, <3>3
    <2> HIDE DEF p
    <2> QED BY <2>1, <2>2 DEF Nests
  <1> QED
    BY <1>4, <1>5, <1>6, <1>7, <1>8, <1>9 DEF Store

\* Folding a block in keeps the store in order.
LEMMA ApplyStore ==
    ASSUME NEW vs, Store(vs), NEW b \in Block
    PROVE  Store(Apply(vs, b))
  <1>1. CASE vs # << >> /\ Number[b] <= Number[Tip(vs).block]
    BY <1>1 DEF Apply
  <1>2. CASE ~(vs # << >> /\ Number[b] <= Number[Tip(vs).block])
    <2> DEFINE f == Append(Current(vs), b)
               n == [block |-> b, folded |-> f]
               s == Append(vs, n)
    <2>1. vs \in Seq(Version(Block)) /\ Number[b] \in Nat
      BY BlockAssumption DEF Store
    <2>2. /\ Current(vs) \in Seq(Block)
          /\ \A i \in DOMAIN Current(vs) : Number[Current(vs)[i]] < Number[b]
          /\ \A i, j \in DOMAIN Current(vs) :
                i < j => Number[Current(vs)[i]] < Number[Current(vs)[j]]
      <3>1. CASE vs = << >>
        BY <3>1 DEF Current
      <3>2. CASE vs # << >>
        <4>1. Len(vs) \in DOMAIN vs
          BY <2>1, <3>2
        <4>2. /\ Tip(vs).folded \in Seq(Block) /\ Number[Tip(vs).block] \in Nat
              /\ Number[Tip(vs).block] < Number[b]
          BY <1>2, <2>1, <3>2, <4>1, VersionFields DEF Tip
        <4>3. Current(vs) = Tip(vs).folded
          BY <3>2 DEF Current
        <4>4. \A i \in DOMAIN Tip(vs).folded : Number[Tip(vs).folded[i]] \in Nat
          BY <4>2, BlockAssumption
        <4>5. /\ \A i, j \in DOMAIN Tip(vs).folded :
                    i < j => Number[Tip(vs).folded[i]] < Number[Tip(vs).folded[j]]
              /\ \A i \in DOMAIN Tip(vs).folded :
                    Number[Tip(vs).folded[i]] <= Number[Tip(vs).block]
          BY <4>1 DEF Tip, Store, FoldsAscend
        <4>6. \A i \in DOMAIN Tip(vs).folded : Number[Tip(vs).folded[i]] < Number[b]
          BY <2>1, <4>2, <4>4, <4>5
        <4> QED
          BY <4>2, <4>3, <4>5, <4>6
      <3> QED BY <3>1, <3>2
    <2>3. /\ f \in Seq(Block) /\ Len(f) = Len(Current(vs)) + 1
          /\ f[Len(f)] = b /\ \A i \in 1..Len(Current(vs)) : f[i] = Current(vs)[i]
          /\ DOMAIN Current(vs) = 1..Len(Current(vs)) /\ DOMAIN f = 1..Len(f)
      BY <2>2
    <2>4. n \in Version(Block)
      BY <2>3 DEF Version
    <2>5. /\ s \in Seq(Version(Block)) /\ s # << >> /\ Len(s) = Len(vs) + 1
          /\ DOMAIN s = 1..Len(s) /\ DOMAIN vs = 1..Len(vs)
          /\ s[Len(s)] = n /\ \A i \in 1..Len(vs) : s[i] = vs[i]
      BY <2>1, <2>4
    <2>6. n.block = b /\ n.folded = f
      OBVIOUS
    <2> HIDE DEF f, n, s
    <2>7. \A i, j \in DOMAIN f : i < j => Number[f[i]] < Number[f[j]]
      BY <2>2, <2>3
    <2>8. \A i \in DOMAIN f : Number[f[i]] <= Number[b]
      <3>1. \A i \in DOMAIN f : Number[f[i]] \in Nat
        BY <2>3, BlockAssumption
      <3> QED BY <2>1, <2>2, <2>3, <3>1
    <2>9. Ascends(s)
      <3>1. \A u \in DOMAIN vs : Number[vs[u].block] < Number[b]
        <4> SUFFICES ASSUME NEW u \in DOMAIN vs PROVE Number[vs[u].block] < Number[b]
          OBVIOUS
        <4>1. vs # << >> /\ Len(vs) \in DOMAIN vs /\ u \in 1..Len(vs)
          BY <2>1
        <4>2. Number[vs[u].block] \in Nat /\ Number[vs[Len(vs)].block] \in Nat
          BY <2>1, <4>1, VersionFields
        <4>3. Number[vs[u].block] <= Number[vs[Len(vs)].block]
          BY <4>1, <4>2 DEF Store, Ascends
        <4> QED BY <1>2, <2>1, <4>1, <4>2, <4>3 DEF Tip
      <3> QED BY <2>5, <2>6, <3>1 DEF Store, Ascends
    <2>10. FoldsAscend(s)
      <3> SUFFICES ASSUME NEW v \in DOMAIN s
                   PROVE  /\ \A i, j \in DOMAIN s[v].folded :
                                i < j => Number[s[v].folded[i]] < Number[s[v].folded[j]]
                          /\ \A i \in DOMAIN s[v].folded :
                                Number[s[v].folded[i]] <= Number[s[v].block]
        BY DEF FoldsAscend
      <3>1. CASE v = Len(s)
        BY <2>5, <2>6, <2>7, <2>8, <3>1
      <3>2. CASE v # Len(s)
        <4>1. v \in DOMAIN vs /\ s[v] = vs[v]
          BY <2>5, <3>2, <2>1
        <4> QED BY <4>1 DEF Store, FoldsAscend
      <3> QED BY <3>1, <3>2
    <2>11. Nests(s)
      <3> SUFFICES ASSUME NEW v \in DOMAIN s
                   PROVE  /\ s[v].folded # << >>
                          /\ s[v].folded[Len(s[v].folded)] = s[v].block
                          /\ v > 1 => s[v].folded = Append(s[v - 1].folded, s[v].block)
        BY DEF Nests
      <3>1. CASE v = Len(s)
        <4>1. f # << >> /\ f[Len(f)] = b
          BY <2>2, <2>3
        <4>2. s[v].folded = f /\ s[v].block = b
          BY <2>5, <2>6, <3>1
        <4>3. ASSUME v > 1
              PROVE  f = Append(s[v - 1].folded, b)
          <5>1. vs # << >> /\ v - 1 = Len(vs) /\ Len(vs) \in 1..Len(vs)
            BY <2>1, <2>5, <3>1, <4>3
          <5>2. s[v - 1] = Tip(vs)
            BY <2>5, <5>1 DEF Tip
          <5> QED BY <5>1, <5>2 DEF f, Current
        <4> QED BY <4>1, <4>2, <4>3
      <3>2. CASE v # Len(s)
        <4>1. v \in 1..Len(vs) /\ s[v] = vs[v]
          BY <2>1, <2>5, <3>2
        <4>2. v > 1 => v - 1 \in 1..Len(vs)
          BY <2>1, <4>1
        <4>3. v > 1 => s[v - 1] = vs[v - 1]
          BY <2>5, <4>2
        <4>4. v \in DOMAIN vs
          BY <2>5, <4>1
        <4> QED BY <4>1, <4>3, <4>4 DEF Store, Nests
      <3> QED BY <3>1, <3>2
    <2>12. Apply(vs, b) = PruneToWindow(s)
      BY <1>2 DEF Apply, s, n, f
    <2> QED
      BY <2>5, <2>9, <2>10, <2>11, <2>12, PruneStore
  <1> QED BY <1>1, <1>2

\* So does taking the tip off.
LEMMA RevertStore ==
    ASSUME NEW vs, Store(vs), NEW b
    PROVE  Store(RevertTip(vs, b))
  <1>1. CASE ~(vs # << >> /\ Tip(vs).block = b)
    BY <1>1 DEF RevertTip
  <1>2. CASE vs # << >> /\ Tip(vs).block = b
    <2> DEFINE s == SubSeq(vs, 1, Len(vs) - 1)
    <2>1. /\ vs \in Seq(Version(Block)) /\ Len(vs) \in Nat \ {0}
          /\ DOMAIN vs = 1..Len(vs)
      BY <1>2 DEF Store
    <2>2. /\ s \in Seq(Version(Block)) /\ Len(s) = Len(vs) - 1 /\ DOMAIN s = 1..Len(s)
          /\ \A i \in 1..Len(s) : s[i] = vs[i] /\ i \in DOMAIN vs /\ i < Len(vs)
      BY <2>1
    <2>3. RevertTip(vs, b) = s
      BY <1>2 DEF RevertTip
    <2> HIDE DEF s
    <2>4. Ascends(s) /\ FoldsAscend(s)
      <3>1. \A i \in DOMAIN s : s[i] = vs[i] /\ i \in DOMAIN vs
        BY <2>2
      <3>2. Ascends(s)
        BY <3>1 DEF Store, Ascends
      <3>3. FoldsAscend(s)
        BY <3>1 DEF Store, FoldsAscend
      <3> QED BY <3>2, <3>3
    <2>5. InWindow(s)
      <3> SUFFICES ASSUME NEW u \in DOMAIN s, u < Len(s)
                   PROVE  Number[s[Len(s)].block] < Number[s[u].block] + Window
        BY DEF InWindow
      <3>1. /\ u \in DOMAIN vs /\ u < Len(vs) /\ s[u] = vs[u]
            /\ Len(s) \in DOMAIN vs /\ Len(s) < Len(vs) /\ s[Len(s)] = vs[Len(s)]
        BY <2>1, <2>2
      <3>2. /\ Number[vs[u].block] \in Nat /\ Number[vs[Len(s)].block] \in Nat
            /\ Number[vs[Len(vs)].block] \in Nat
        BY <2>1, <3>1, VersionFields
      <3>3. /\ Number[vs[Len(s)].block] < Number[vs[Len(vs)].block]
            /\ Number[vs[Len(vs)].block] < Number[vs[u].block] + Window
        BY <2>1, <3>1 DEF Store, Ascends, InWindow
      <3>4. Window \in Nat
        BY DetectionAssumption
      <3>5. \A x, y, z \in Nat : x < y /\ y < z + Window => x < z + Window
        BY <3>4
      <3>6. Number[vs[Len(s)].block] < Number[vs[u].block] + Window
        BY <3>2, <3>3, <3>5
      <3> QED BY <3>1, <3>6, Zenon
    <2>6. Nests(s)
      <3> SUFFICES ASSUME NEW v \in 1..Len(s)
                   PROVE  /\ s[v].folded # << >>
                          /\ s[v].folded[Len(s[v].folded)] = s[v].block
                          /\ v > 1 => s[v].folded = Append(s[v - 1].folded, s[v].block)
        BY <2>2 DEF Nests
      <3>1. v \in DOMAIN vs /\ s[v] = vs[v]
        BY <2>2
      <3>2. v > 1 => v - 1 \in 1..Len(s)
        BY <2>1, <2>2
      <3>3. v > 1 => s[v - 1] = vs[v - 1]
        BY <2>2, <3>2
      <3> QED BY <3>1, <3>3 DEF Store, Nests
    <2> QED BY <2>2, <2>3, <2>4, <2>5, <2>6 DEF Store
  <1> QED BY <1>1, <1>2

-----------------------------------------------------------------------------
(***************************************************************************)
(* Types.  The record in hand has none, one or two findings left, and the  *)
(* ones that are not left are out.                                         *)
(***************************************************************************)
Triggered(i) == [kind |-> "Triggered", block |-> bus[i].block]
Alert(i) == [kind |-> "Alert", block |-> bus[i].block]

InHand(i) ==
    \/ current = [at |-> i, left |-> Findings(bus[i].block)]
    \/ current = [at |-> i, left |-> << Alert(i) >>] /\ Triggered(i) \in found
    \/ current = [at |-> i, left |-> << >>] /\ Settled(i)

Types ==
    /\ bus \in Seq(Record)
    /\ pos \in [Topic -> 0..Len(bus)] /\ committed \in [Topic -> 0..Len(bus)]
    /\ work \in Seq(1..Len(bus)) /\ done \in Seq(1..Len(bus))
    /\ current = Nothing \/ \E i \in 1..Len(bus) : InHand(i)

\* The topics only grow and a finding that is out stays out.
Grows == Len(bus) <= Len(bus') /\ \A i \in 1..Len(bus) : bus'[i] = bus[i]

LEMMA BusGrows ==
    ASSUME Types, [Next]_vars
    PROVE  bus' \in Seq(Record) /\ Len(bus) \in Nat /\ Len(bus') \in Nat
           /\ Grows /\ found \subseteq found'
  <1>1. bus \in Seq(Record) /\ Len(bus) \in Nat
    BY DEF Types
  <1>2. CASE Emit
    BY <1>1, <1>2 DEF Emit, Grows
  <1>3. CASE Publish
    BY <1>1, <1>3 DEF Publish, Grows, input
  <1>4. CASE UNCHANGED <<bus, found>>
    BY <1>1, <1>4 DEF Grows
  <1>5. Emit \/ Publish \/ UNCHANGED <<bus, found>>
    BY DEF Next, vars, input, Source, Ingest, Receive, Schedule, Process, Abandon,
           Finish, Committer, Commit, Shutdown, Restart, Crash, Boot, Rebalance
  <1> QED
    BY <1>2, <1>3, <1>4, <1>5

LEMMA SettledStable ==
    ASSUME Types, [Next]_vars, NEW i \in 1..Len(bus), Settled(i)
    PROVE  Settled(i)'
  BY BusGrows DEF Settled, Grows

\* What is in hand stays in hand while its findings are not published.
LEMMA InHandStable ==
    ASSUME Types, [Next]_vars, NEW i \in 1..Len(bus), InHand(i), current' = current
    PROVE  InHand(i)'
  <1>1. bus'[i] = bus[i] /\ found \subseteq found'
    BY BusGrows DEF Grows
  <1>2. Settled(i) => Settled(i)'
    BY SettledStable
  <1> QED
    BY <1>1, <1>2 DEF InHand, Alert, Triggered

\* What the record in hand becomes.
LEMMA PublishInHand ==
    ASSUME Types, Publish, NEW i \in 1..Len(bus), InHand(i)
    PROVE  InHand(i)' /\ current'.at = i
  <1>1. /\ bus' = bus /\ found' = found \cup {Head(current.left)}
        /\ current' = [current EXCEPT !.left = Tail(@)] /\ current.left # << >>
        /\ Head(current.left).block \notin Unencodable
    BY DEF Publish, input
  <1>2. /\ Findings(bus[i].block) = << Triggered(i), Alert(i) >>
        /\ Members(Findings(bus[i].block)) = {Triggered(i), Alert(i)}
    BY DEF Findings, Members, Triggered, Alert
  <1>3. CASE current = [at |-> i, left |-> Findings(bus[i].block)]
    <2>1. current' = [at |-> i, left |-> << Alert(i) >>] /\ Triggered(i) \in found'
      BY <1>1, <1>2, <1>3
    <2>2. InHand(i)'
      BY <1>1, <2>1 DEF InHand, Alert, Triggered, Findings, Settled
    <2> QED
      BY <2>1, <2>2
  <1>4. CASE current = [at |-> i, left |-> << Alert(i) >>] /\ Triggered(i) \in found
    <2>1. current' = [at |-> i, left |-> << >>]
      BY <1>1, <1>4
    <2>2. {Triggered(i), Alert(i)} \subseteq found'
      BY <1>1, <1>4
    <2>3. Settled(i)'
      BY <1>1, <1>2, <2>2 DEF Settled
    <2>4. InHand(i)'
      BY <2>1, <2>3 DEF InHand
    <2> QED
      BY <2>1, <2>4
  <1>5. ~(current = [at |-> i, left |-> << >>])
    BY <1>1
  <1> QED
    BY <1>3, <1>4, <1>5 DEF InHand

LEMMA AbandonInHand ==
    ASSUME Types, Abandon, NEW i \in 1..Len(bus), InHand(i)
    PROVE  InHand(i)' /\ current'.at = i
  <1>1. /\ bus' = bus /\ found' = found
        /\ current' = [current EXCEPT !.left = << >>] /\ current.left # << >>
        /\ Head(current.left).block \in Unencodable
    BY DEF Abandon, input
  <1>2. Findings(bus[i].block) = << Triggered(i), Alert(i) >>
    BY DEF Findings, Triggered, Alert
  <1>3. \/ current = [at |-> i, left |-> << Triggered(i), Alert(i) >>]
        \/ current = [at |-> i, left |-> << Alert(i) >>]
    BY <1>1, <1>2 DEF InHand
  <1>4. current' = [at |-> i, left |-> << >>]
    BY <1>1, <1>3
  <1>5. bus[i].block \in Unencodable
    BY <1>1, <1>3 DEF Triggered, Alert
  <1>6. Settled(i)'
    BY <1>1, <1>5 DEF Settled
  <1>7. InHand(i)'
    BY <1>4, <1>6 DEF InHand
  <1> QED
    BY <1>4, <1>7

\* A record is taken in hand whole.
LEMMA ProcessInHand ==
    ASSUME Types, Process, NEW i, i = work[1]
    PROVE  /\ i \in 1..Len(bus) /\ InHand(i)' /\ current'.at = i
           /\ work' = Tail(work) /\ Len(work) > 0
  <1>1. /\ work \in Seq(1..Len(bus)) /\ work # << >> /\ Head(work) = i
        /\ i \in 1..Len(bus) /\ Len(work) > 0
    BY DEF Types, Process
  <1>2. bus' = bus /\ found' = found /\ work' = Tail(work)
    BY DEF Process, input
  <1>3. \/ current' = [at |-> i, left |-> Findings(bus[i].block)]
        \/ /\ current' = [at |-> i, left |-> << >>]
           /\ bus[i].type # "Assembled" \/ bus[i].block \in Undecodable
    BY <1>1 DEF Process
  <1>4. InHand(i)'
    <2>1. CASE current' = [at |-> i, left |-> Findings(bus[i].block)]
      BY <1>2, <2>1 DEF InHand, Findings
    <2>2. CASE /\ current' = [at |-> i, left |-> << >>]
               /\ bus[i].type # "Assembled" \/ bus[i].block \in Undecodable
      <3>1. Settled(i)'
        BY <1>2, <2>2 DEF Settled
      <3> QED BY <2>2, <3>1 DEF InHand
    <2> QED BY <1>3, <2>1, <2>2
  <1>5. current'.at = i
    BY <1>3
  <1> QED
    BY <1>1, <1>2, <1>4, <1>5

LEMMA TypesInit ==
    ASSUME Init
    PROVE  Types
  <1>1. bus \in Seq(Record) /\ work \in Seq(1..Len(bus)) /\ done \in Seq(1..Len(bus))
    BY DEF Init
  <1>2. pos \in [Topic -> 0..Len(bus)] /\ committed \in [Topic -> 0..Len(bus)]
    BY DEF Init
  <1> QED
    BY <1>1, <1>2 DEF Types, Init

LEMMA TypesNext ==
    ASSUME Types, [Next]_vars
    PROVE  Types'
  <1>1. /\ bus' \in Seq(Record) /\ Len(bus) \in Nat /\ Len(bus') \in Nat
        /\ Len(bus) <= Len(bus')
    BY BusGrows DEF Grows
  <1>2. /\ pos \in [Topic -> 0..Len(bus')] /\ committed \in [Topic -> 0..Len(bus')]
        /\ work \in Seq(1..Len(bus')) /\ done \in Seq(1..Len(bus'))
    <2>1. 0..Len(bus) \subseteq 0..Len(bus') /\ 1..Len(bus) \subseteq 1..Len(bus')
      BY <1>1
    <2>2. pos \in [Topic -> 0..Len(bus')] /\ committed \in [Topic -> 0..Len(bus')]
      BY <2>1 DEF Types
    <2>3. ASSUME NEW s \in Seq(1..Len(bus)) PROVE s \in Seq(1..Len(bus'))
      <3>1. Len(s) \in Nat /\ \A k \in 1..Len(s) : s[k] \in 1..Len(bus')
        BY <2>1
      <3>2. s = [k \in 1..Len(s) |-> s[k]]
        OBVIOUS
      <3> QED BY <3>1, <3>2
    <2> QED BY <2>2, <2>3 DEF Types
  <1> DEFINE Hand == current = Nothing \/ \E i \in 1..Len(bus) : InHand(i)
  <1>3. current' = current => Hand'
    <2> SUFFICES ASSUME current' = current PROVE Hand'
      OBVIOUS
    <2>1. CASE current = Nothing
      BY <2>1 DEF Nothing
    <2>2. CASE \E i \in 1..Len(bus) : InHand(i)
      <3> PICK i \in 1..Len(bus) : InHand(i)
        BY <2>2
      <3>1. InHand(i)' /\ i \in 1..Len(bus')
        BY InHandStable, <1>1
      <3> QED BY <3>1
    <2> QED BY <2>1, <2>2 DEF Types
  <1>4. current' = Nothing => Hand'
    BY DEF Nothing
  <1>5. CASE UNCHANGED <<pos, committed, work, done, current>>
    BY <1>1, <1>2, <1>3, <1>5 DEF Types
  <1>6. ASSUME NEW t \in Topic, Receive(t) PROVE Types'
    <2>1. PICK i \in Unread(t) : work' = Append(work, i) /\ pos' = [pos EXCEPT ![t] = i]
      BY <1>6 DEF Receive
    <2>2. /\ bus' = bus /\ committed' = committed /\ done' = done /\ current' = current
      BY <1>6 DEF Receive, input, scheduler
    <2>3. i \in 1..Len(bus)
      BY DEF Unread, Types
    <2>4. work' \in Seq(1..Len(bus')) /\ pos' \in [Topic -> 0..Len(bus')]
      BY <1>2, <2>1, <2>2, <2>3
    <2> QED BY <1>1, <1>2, <1>3, <2>2, <2>4 DEF Types
  <1>7. CASE Process
    <2>1. /\ pos' = pos /\ committed' = committed /\ done' = done
          /\ bus' = bus /\ work' = Tail(work) /\ Len(work) > 0
      BY <1>7, ProcessInHand DEF Process, input
    <2>2. work' \in Seq(1..Len(bus'))
      BY <1>2, <2>1
    <2>3. Hand'
      <3> PICK i : i = work[1]
        OBVIOUS
      <3>1. InHand(i)' /\ i \in 1..Len(bus')
        BY <1>7, ProcessInHand, <2>1
      <3> QED BY <3>1
    <2> QED BY <1>1, <1>2, <2>1, <2>2, <2>3 DEF Types
  <1>8. CASE Publish \/ Abandon
    <2>1. /\ pos' = pos /\ committed' = committed /\ done' = done /\ work' = work
          /\ bus' = bus /\ current.left # << >>
      BY <1>8 DEF Publish, Abandon, input
    <2>2. PICK i \in 1..Len(bus) : InHand(i)
      BY <2>1 DEF Types, Nothing
    <2>3. InHand(i)'
      BY <1>8, <2>2, PublishInHand, AbandonInHand
    <2> QED BY <1>1, <1>2, <2>1, <2>3 DEF Types
  <1>9. CASE Finish
    <2>1. /\ pos' = pos /\ committed' = committed /\ done' = Append(done, current.at)
          /\ work' = work /\ bus' = bus /\ current' = Nothing /\ current # Nothing
      BY <1>9 DEF Finish, input
    <2>2. PICK i \in 1..Len(bus) : InHand(i)
      BY <2>1 DEF Types
    <2>3. current.at = i
      BY <2>2 DEF InHand
    <2>4. done' \in Seq(1..Len(bus'))
      BY <1>2, <2>1, <2>3
    <2> QED BY <1>1, <1>2, <1>4, <2>1, <2>4 DEF Types
  <1>10. ASSUME NEW kept \in BOOLEAN, Commit(kept) PROVE Types'
    <2> DEFINE i == Head(done)
    <2>1. /\ pos' = pos /\ work' = work /\ bus' = bus /\ current' = current
          /\ done # << >> /\ done' = Tail(done)
          /\ committed' = committed \/ committed' = [committed EXCEPT ![bus[i].type] = i]
      BY <1>10 DEF Commit, input, scheduler
    <2>2. i \in 1..Len(bus') /\ done' \in Seq(1..Len(bus'))
      BY <1>2, <2>1
    <2>3. committed' \in [Topic -> 0..Len(bus')]
      <3>1. i \in 0..Len(bus')
        BY <2>2
      <3> HIDE DEF i
      <3>2. [committed EXCEPT ![bus[i].type] = i] \in [Topic -> 0..Len(bus')]
        BY <1>2, <3>1
      <3> QED BY <1>2, <2>1, <3>2
    <2> QED BY <1>1, <1>2, <1>3, <2>1, <2>2, <2>3 DEF Types
  <1>11. CASE Shutdown \/ Restart \/ Crash \/ Rebalance
    <2>1. /\ pos' \in {pos, committed} /\ committed' = committed
          /\ work' \in {work, << >>} /\ done' \in {done, << >>}
          /\ current' \in {current, Nothing}
      BY <1>11 DEF Shutdown, Restart, Crash, Boot, Rebalance, input, scheduler
    <2>2. << >> \in Seq(1..Len(bus'))
      OBVIOUS
    <2> QED BY <1>1, <1>2, <1>3, <1>4, <2>1, <2>2 DEF Types
  <1>12. CASE Source
    BY <1>5, <1>12 DEF Source, Ingest, Emit, scheduler
  <1>13. CASE UNCHANGED vars
    BY <1>5, <1>13 DEF vars
  <1> QED
    BY <1>6, <1>7, <1>8, <1>9, <1>10, <1>11, <1>12, <1>13
       DEF Next, Schedule, Committer

-----------------------------------------------------------------------------
(***************************************************************************)
(* Order.  CommittedIsPublished is not inductive by itself: an offset may  *)
(* be committed because everything before it on its topic was settled when *)
(* it was handed to the committer, which is because the scheduler takes    *)
(* records in the order the work channel has them, which is because the    *)
(* consumer skips nothing, neither after a rebalance nor after a restart.  *)
(***************************************************************************)
WorkInOrder ==
    \A p \in 1..Len(work) : \A j \in 1..(work[p] - 1) :
        bus[j].type = bus[work[p]].type =>
            Settled(j) \/ current.at = j \/ \E q \in 1..(p - 1) : work[q] = j
CurrentInOrder ==
    \A j \in 1..(current.at - 1) : bus[j].type = bus[current.at].type => Settled(j)
DoneInOrder ==
    \A d \in 1..Len(done) : \A j \in 1..done[d] :
        bus[j].type = bus[done[d]].type => Settled(j)
ReadInOrder ==
    up => \A t \in Topic : \A j \in 1..pos[t] :
        bus[j].type = t =>
            Settled(j) \/ current.at = j \/ \E q \in 1..Len(work) : work[q] = j

Order ==
    /\ WorkInOrder /\ CurrentInOrder /\ DoneInOrder /\ ReadInOrder
    /\ CommittedIsPublished

\* The indexes the invariant speaks of are indexes of the topics.
LEMMA Indexes ==
    ASSUME Types
    PROVE  /\ Len(bus) \in Nat /\ DOMAIN bus = 1..Len(bus)
           /\ Len(work) \in Nat /\ Len(done) \in Nat
           /\ \A p \in 1..Len(work) : work[p] \in 1..Len(bus)
           /\ \A d \in 1..Len(done) : done[d] \in 1..Len(bus)
           /\ \A t \in Topic : pos[t] \in 0..Len(bus) /\ committed[t] \in 0..Len(bus)
           /\ current.at \in 0..Len(bus)
           /\ \A i \in 1..Len(bus) : bus[i].type \in Topic
  <1>1. /\ Len(bus) \in Nat /\ Len(work) \in Nat /\ Len(done) \in Nat
        /\ DOMAIN bus = 1..Len(bus)
        /\ \A p \in 1..Len(work) : work[p] \in 1..Len(bus)
        /\ \A d \in 1..Len(done) : done[d] \in 1..Len(bus)
    BY DEF Types
  <1>2. \A t \in Topic : pos[t] \in 0..Len(bus) /\ committed[t] \in 0..Len(bus)
    BY DEF Types
  <1>3. \A i \in 1..Len(bus) : bus[i].type \in Topic
    <2>1. \A i \in 1..Len(bus) : bus[i] \in Record
      BY DEF Types
    <2> QED BY <2>1 DEF Record
  <1>4. current.at \in 0..Len(bus)
    <2>1. CASE current = Nothing
      BY <2>1, <1>1 DEF Nothing
    <2>2. CASE \E i \in 1..Len(bus) : InHand(i)
      BY <2>2, <1>1 DEF InHand
    <2> QED BY <2>1, <2>2 DEF Types
  <1> QED
    BY <1>1, <1>2, <1>3, <1>4

LEMMA OrderInit ==
    ASSUME Init
    PROVE  Order
  BY DEF Init, Order, WorkInOrder, CurrentInOrder, DoneInOrder, ReadInOrder,
         CommittedIsPublished, Nothing

LEMMA OrderNext ==
    ASSUME Types, Order, [Next]_vars
    PROVE  Order'
  <1>1. /\ Len(bus) \in Nat /\ DOMAIN bus = 1..Len(bus)
        /\ Len(work) \in Nat /\ Len(done) \in Nat
        /\ \A p \in 1..Len(work) : work[p] \in 1..Len(bus)
        /\ \A d \in 1..Len(done) : done[d] \in 1..Len(bus)
        /\ \A t \in Topic : pos[t] \in 0..Len(bus) /\ committed[t] \in 0..Len(bus)
        /\ current.at \in 0..Len(bus)
        /\ \A i \in 1..Len(bus) : bus[i].type \in Topic
    BY Indexes
  <1>2. \A j \in 1..Len(bus) : bus'[j] = bus[j] /\ (Settled(j) => Settled(j)')
    BY BusGrows, SettledStable DEF Grows
  \* The parts a step leaves alone.
  <1>3. done' = done => DoneInOrder'
    BY <1>1, <1>2 DEF Order, DoneInOrder
  <1>4. committed' = committed => CommittedIsPublished'
    BY <1>1, <1>2 DEF Order, CommittedIsPublished
  <1>5. current'.at = current.at => CurrentInOrder'
    BY <1>1, <1>2 DEF Order, CurrentInOrder
  <1>6. current'.at = current.at /\ work' = work => WorkInOrder'
    BY <1>1, <1>2 DEF Order, WorkInOrder
  <1>7. current'.at = current.at /\ work' = work /\ pos' = pos /\ up' = up => ReadInOrder'
    BY <1>1, <1>2 DEF Order, ReadInOrder
  <1>8. CASE /\ UNCHANGED <<pos, committed, work, done, up>>
             /\ current'.at = current.at
    BY <1>3, <1>4, <1>5, <1>6, <1>7, <1>8 DEF Order
  <1>9. ASSUME NEW t \in Topic, Receive(t) PROVE Order'
    <2>1. PICK i \in Unread(t) :
             /\ \A j \in Unread(t) : i <= j
             /\ work' = Append(work, i) /\ pos' = [pos EXCEPT ![t] = i]
      BY <1>9 DEF Receive
    <2>2. /\ bus' = bus /\ committed' = committed /\ done' = done /\ current' = current
          /\ up /\ up' = up
      BY <1>9 DEF Receive, input, scheduler
    <2>3. i \in 1..Len(bus) /\ bus[i].type = t
      BY <1>1 DEF Unread
    <2>4. ASSUME NEW j \in 1..(i - 1), bus[j].type = t
          PROVE  Settled(j) \/ current.at = j \/ \E q \in 1..Len(work) : work[q] = j
      <3>1. j \in DOMAIN bus /\ ~(i <= j)
        BY <1>1, <2>3
      <3>2. j <= pos[t]
        BY <1>1, <2>1, <2>4, <3>1 DEF Unread
      <3> QED BY <1>1, <2>2, <2>4, <3>2 DEF Order, ReadInOrder
    <2>5. /\ Len(work') = Len(work) + 1 /\ work'[Len(work) + 1] = i
          /\ \A q \in 1..Len(work) : work'[q] = work[q]
      BY <2>1, <2>3 DEF Types
    <2>6. WorkInOrder'
      <3> SUFFICES ASSUME NEW p \in 1..Len(work'), NEW j \in 1..(work'[p] - 1),
                          bus'[j].type = bus'[work'[p]].type
                   PROVE  \/ Settled(j)' \/ current'.at = j
                          \/ \E q \in 1..(p - 1) : work'[q] = j
        BY DEF WorkInOrder
      <3>1. CASE p = Len(work) + 1
        <4>1. j \in 1..(i - 1) /\ bus[j].type = t /\ j \in 1..Len(bus) /\ p - 1 = Len(work)
          BY <1>1, <2>2, <2>3, <2>5, <3>1
        <4> QED BY <1>2, <2>2, <2>4, <2>5, <4>1
      <3>2. CASE p # Len(work) + 1
        <4>1. /\ p \in 1..Len(work) /\ work'[p] = work[p] /\ j \in 1..(work[p] - 1)
              /\ j \in 1..Len(bus)
          BY <1>1, <2>5, <3>2
        <4>2. Settled(j) \/ current.at = j \/ \E q \in 1..(p - 1) : work[q] = j
          BY <2>2, <4>1 DEF Order, WorkInOrder
        <4>3. \A q \in 1..(p - 1) : work'[q] = work[q]
          BY <1>1, <2>5, <4>1
        <4> QED BY <1>2, <2>2, <4>1, <4>2, <4>3
      <3> QED BY <3>1, <3>2
    <2>7. ReadInOrder'
      <3> SUFFICES ASSUME NEW u \in Topic, NEW j \in 1..pos'[u], bus'[j].type = u
                   PROVE  \/ Settled(j)' \/ current'.at = j
                          \/ \E q \in 1..Len(work') : work'[q] = j
        BY DEF ReadInOrder
      <3>1. CASE u = t /\ j = i
        <4>1. work'[Len(work) + 1] = j /\ Len(work) + 1 \in 1..Len(work')
          BY <1>1, <2>5, <3>1
        <4> QED BY <4>1
      <3>2. CASE u = t /\ j # i
        <4>1. pos'[u] = i
          BY <2>1, <3>2 DEF Types
        <4>2. j \in 1..(i - 1) /\ bus[j].type = t /\ j \in 1..Len(bus)
          BY <2>2, <2>3, <3>2, <4>1, <1>1
        <4>3. Settled(j) \/ current.at = j \/ \E q \in 1..Len(work) : work[q] = j
          BY <2>4, <4>2
        <4> QED BY <1>1, <1>2, <2>2, <2>5, <4>2, <4>3
      <3>3. CASE u # t
        <4>1. pos'[u] = pos[u]
          BY <2>1, <3>3 DEF Types
        <4>2. j \in 1..pos[u] /\ bus[j].type = u /\ j \in 1..Len(bus)
          BY <1>1, <2>2, <4>1
        <4>3. Settled(j) \/ current.at = j \/ \E q \in 1..Len(work) : work[q] = j
          BY <2>2, <4>2 DEF Order, ReadInOrder
        <4> QED BY <1>1, <1>2, <2>2, <2>5, <4>2, <4>3
      <3> QED BY <3>1, <3>2, <3>3
    <2> QED BY <1>3, <1>4, <1>5, <2>2, <2>6, <2>7 DEF Order
  <1>10. CASE Process
    <2> PICK i : i = work[1]
      OBVIOUS
    <2>1. /\ pos' = pos /\ committed' = committed /\ done' = done /\ bus' = bus /\ up' = up
          /\ current = Nothing
      BY <1>10 DEF Process, input
    <2>2. /\ i \in 1..Len(bus) /\ current'.at = i /\ work' = Tail(work) /\ Len(work) > 0
      BY <1>10, ProcessInHand
    <2>3. /\ Len(work') = Len(work) - 1
          /\ \A q \in 1..Len(work') : work'[q] = work[q + 1]
      BY <2>2 DEF Types
    <2>4. current.at = 0
      BY <2>1 DEF Nothing
    <2>5. CurrentInOrder'
      <3> SUFFICES ASSUME NEW j \in 1..(i - 1), bus[j].type = bus[i].type
                   PROVE  Settled(j)'
        BY <2>1, <2>2 DEF CurrentInOrder
      <3>1. 1 \in 1..Len(work) /\ j # 0 /\ j \in 1..Len(bus)
        BY <1>1, <2>2
      <3>2. Settled(j)
        BY <2>4, <3>1 DEF Order, WorkInOrder
      <3> QED BY <1>2, <3>1, <3>2
    \* The head of the channel is the record in hand now.
    <2>6. \A r \in 1..Len(work) : work[r] = i \/ (r - 1 \in 1..Len(work') /\ work'[r - 1] = work[r])
      <3> SUFFICES ASSUME NEW r \in 1..Len(work), r # 1
                   PROVE  r - 1 \in 1..Len(work') /\ work'[r - 1] = work[r]
        OBVIOUS
      <3>1. r - 1 \in 1..Len(work') /\ (r - 1) + 1 = r
        BY <1>1, <2>3
      <3> QED BY <2>3, <3>1
    <2>7. WorkInOrder'
      <3> SUFFICES ASSUME NEW p \in 1..Len(work'), NEW j \in 1..(work'[p] - 1),
                          bus'[j].type = bus'[work'[p]].type
                   PROVE  \/ Settled(j)' \/ current'.at = j
                          \/ \E q \in 1..(p - 1) : work'[q] = j
        BY DEF WorkInOrder
      <3>1. /\ p + 1 \in 1..Len(work) /\ work'[p] = work[p + 1]
            /\ j \in 1..(work[p + 1] - 1) /\ j \in 1..Len(bus) /\ j # 0
        BY <1>1, <2>3
      <3>2. Settled(j) \/ \E r \in 1..((p + 1) - 1) : work[r] = j
        BY <2>1, <2>4, <3>1 DEF Order, WorkInOrder
      <3>3. CASE Settled(j)
        BY <1>2, <3>1, <3>3
      <3>4. CASE \E r \in 1..((p + 1) - 1) : work[r] = j
        <4> PICK r \in 1..((p + 1) - 1) : work[r] = j
          BY <3>4
        <4>1. r \in 1..Len(work) /\ r <= p
          BY <1>1, <2>3
        <4>2. CASE j = i
          BY <2>2, <4>2
        <4>3. CASE j # i
          <5>1. r - 1 \in 1..Len(work') /\ work'[r - 1] = j
            BY <2>6, <4>1, <4>3
          <5>2. r - 1 \in 1..(p - 1)
            BY <4>1, <5>1, <1>1, <2>3
          <5> QED BY <5>1, <5>2
        <4> QED BY <4>2, <4>3
      <3> QED BY <3>2, <3>3, <3>4
    <2>8. ReadInOrder'
      <3> SUFFICES ASSUME up, NEW u \in Topic, NEW j \in 1..pos[u], bus[j].type = u
                   PROVE  \/ Settled(j)' \/ current'.at = j
                          \/ \E q \in 1..Len(work') : work'[q] = j
        BY <2>1 DEF ReadInOrder
      <3>1. j \in 1..Len(bus) /\ j # 0
        BY <1>1
      <3>2. Settled(j) \/ \E q \in 1..Len(work) : work[q] = j
        BY <2>4, <3>1 DEF Order, ReadInOrder
      <3> QED BY <1>2, <2>2, <2>6, <3>1, <3>2
    <2> QED BY <1>3, <1>4, <2>1, <2>5, <2>7, <2>8 DEF Order
  <1>11. CASE Publish \/ Abandon
    <2>1. UNCHANGED <<pos, committed, work, done, up>> /\ current.left # << >>
      BY <1>11 DEF Publish, Abandon
    <2>2. PICK i \in 1..Len(bus) : InHand(i)
      BY <2>1 DEF Types, Nothing
    <2>3. current'.at = i
      BY <1>11, <2>2, PublishInHand, AbandonInHand
    <2>4. current.at = i
      BY <2>2 DEF InHand
    <2> QED BY <1>8, <2>1, <2>3, <2>4
  <1>12. CASE Finish
    <2>1. /\ pos' = pos /\ committed' = committed /\ done' = Append(done, current.at)
          /\ work' = work /\ bus' = bus /\ up' = up
          /\ current' = Nothing /\ current # Nothing /\ current.left = << >>
      BY <1>12 DEF Finish, input
    <2>2. PICK i \in 1..Len(bus) : InHand(i)
      BY <2>1 DEF Types
    <2>3. Findings(bus[i].block) # << >> /\ << Alert(i) >> # << >>
      BY DEF Findings
    <2>4. current.at = i /\ Settled(i)
      <3>1. /\ current # [at |-> i, left |-> Findings(bus[i].block)]
            /\ current # [at |-> i, left |-> << Alert(i) >>]
        <4>1. ASSUME NEW x, x # << >> PROVE current # [at |-> i, left |-> x]
          BY <2>1, <4>1
        <4> QED BY <2>3, <4>1
      <3>2. current = [at |-> i, left |-> << >>] /\ Settled(i)
        BY <2>2, <3>1 DEF InHand
      <3> QED BY <3>2
    <2>5. current'.at = 0
      BY <2>1 DEF Nothing
    <2>6. \A j \in 1..i : bus[j].type = bus[i].type => Settled(j)
      BY <2>4 DEF Order, CurrentInOrder
    <2>7. /\ Len(done') = Len(done) + 1 /\ done'[Len(done) + 1] = i
          /\ \A d \in 1..Len(done) : done'[d] = done[d]
      BY <2>1, <2>4 DEF Types
    <2>8. DoneInOrder'
      <3> SUFFICES ASSUME NEW d \in 1..Len(done'), NEW j \in 1..done'[d],
                          bus[j].type = bus[done'[d]].type
                   PROVE  Settled(j)'
        BY <2>1 DEF DoneInOrder
      <3>1. CASE d = Len(done) + 1
        <4>1. done'[d] = i /\ j \in 1..i /\ j \in 1..Len(bus)
          BY <1>1, <2>7, <3>1
        <4> QED BY <1>2, <2>6, <4>1
      <3>2. CASE d # Len(done) + 1
        <4>1. /\ d \in 1..Len(done) /\ done'[d] = done[d] /\ j \in 1..done[d]
              /\ j \in 1..Len(bus)
          BY <1>1, <2>7, <3>2
        <4> QED BY <1>2, <4>1 DEF Order, DoneInOrder
      <3> QED BY <3>1, <3>2
    <2>9. CurrentInOrder'
      BY <2>5 DEF CurrentInOrder
    <2>10. WorkInOrder'
      <3> SUFFICES ASSUME NEW p \in 1..Len(work), NEW j \in 1..(work[p] - 1),
                          bus[j].type = bus[work[p]].type
                   PROVE  Settled(j)' \/ \E q \in 1..(p - 1) : work[q] = j
        BY <2>1 DEF WorkInOrder
      <3>1. j \in 1..Len(bus)
        BY <1>1
      <3>2. Settled(j) \/ current.at = j \/ \E q \in 1..(p - 1) : work[q] = j
        BY DEF Order, WorkInOrder
      <3> QED BY <1>2, <2>4, <3>1, <3>2
    <2>11. ReadInOrder'
      <3> SUFFICES ASSUME up, NEW u \in Topic, NEW j \in 1..pos[u], bus[j].type = u
                   PROVE  Settled(j)' \/ \E q \in 1..Len(work) : work[q] = j
        BY <2>1 DEF ReadInOrder
      <3>1. j \in 1..Len(bus)
        BY <1>1
      <3>2. Settled(j) \/ current.at = j \/ \E q \in 1..Len(work) : work[q] = j
        BY DEF Order, ReadInOrder
      <3> QED BY <1>2, <2>4, <3>1, <3>2
    <2> QED BY <1>4, <2>1, <2>8, <2>9, <2>10, <2>11 DEF Order
  <1>13. ASSUME NEW kept \in BOOLEAN, Commit(kept) PROVE Order'
    <2>1. /\ UNCHANGED <<pos, work, bus, current, up>> /\ done # << >> /\ done' = Tail(done)
          /\ \/ committed' = committed
             \/ committed' = [committed EXCEPT ![bus[Head(done)].type] = Head(done)]
      BY <1>13 DEF Commit, input, scheduler
    <2>2. /\ Len(done) > 0 /\ Head(done) = done[1] /\ 1 \in 1..Len(done)
          /\ done[1] \in 1..Len(bus) /\ Len(done') = Len(done) - 1
          /\ \A d \in 1..Len(done') : done'[d] = done[d + 1] /\ d + 1 \in 1..Len(done)
      BY <1>1, <2>1 DEF Types
    <2>3. DoneInOrder'
      <3> SUFFICES ASSUME NEW d \in 1..Len(done'), NEW j \in 1..done'[d],
                          bus[j].type = bus[done'[d]].type
                   PROVE  Settled(j)'
        BY <2>1 DEF DoneInOrder
      <3>1. /\ d + 1 \in 1..Len(done) /\ done'[d] = done[d + 1] /\ j \in 1..Len(bus)
        BY <1>1, <2>2
      <3> QED BY <1>2, <3>1 DEF Order, DoneInOrder
    <2>4. CommittedIsPublished'
      <3>1. CASE committed' = committed
        BY <1>4, <3>1
      <3>2. CASE committed' = [committed EXCEPT ![bus[done[1]].type] = done[1]]
        <4> SUFFICES ASSUME NEW t \in Topic, NEW j \in 1..committed'[t], bus[j].type = t
                     PROVE  Settled(j)'
          BY <2>1 DEF CommittedIsPublished
        <4>1. CASE t = bus[done[1]].type
          <5>1. committed'[t] = done[1]
            BY <3>2, <4>1 DEF Types
          <5>2. j \in 1..done[1] /\ j \in 1..Len(bus)
            BY <1>1, <2>2, <5>1
          <5>3. Settled(j)
            BY <2>2, <4>1, <5>2 DEF Order, DoneInOrder
          <5> QED BY <1>2, <5>2, <5>3
        <4>2. CASE t # bus[done[1]].type
          <5>1. committed'[t] = committed[t]
            BY <3>2, <4>2 DEF Types
          <5>2. j \in 1..committed[t] /\ j \in 1..Len(bus)
            BY <1>1, <5>1
          <5> QED BY <1>2, <5>2 DEF Order, CommittedIsPublished
        <4> QED BY <4>1, <4>2
      <3> QED BY <2>1, <2>2, <3>1, <3>2
    <2> QED BY <1>5, <1>6, <1>7, <2>1, <2>3, <2>4 DEF Order
  \* Nothing is read before the committed offsets are reached again.
  <1>14. pos' = committed => ReadInOrder'
    BY <1>1, <1>2 DEF Order, ReadInOrder, CommittedIsPublished
  <1>15. CASE Shutdown
    BY <1>3, <1>4, <1>15 DEF Shutdown, Order, ReadInOrder, WorkInOrder, CurrentInOrder, Nothing
  <1>16. CASE Restart \/ Crash
    <2>1. /\ pos' = committed /\ committed' = committed /\ work' = << >> /\ done' = << >>
          /\ current' = Nothing
      BY <1>16 DEF Restart, Crash, Boot
    <2>2. WorkInOrder' /\ DoneInOrder' /\ CurrentInOrder'
      BY <2>1 DEF WorkInOrder, DoneInOrder, CurrentInOrder, Nothing
    <2> QED BY <1>4, <1>14, <2>1, <2>2 DEF Order
  <1>17. CASE Rebalance
    BY <1>3, <1>4, <1>5, <1>6, <1>14, <1>17 DEF Rebalance, scheduler, Order
  <1>18. CASE Source
    BY <1>8, <1>18 DEF Source, Ingest, Emit, scheduler
  <1>19. CASE UNCHANGED vars
    BY <1>8, <1>19 DEF vars
  <1> QED
    BY <1>9, <1>10, <1>11, <1>12, <1>13, <1>15, <1>16, <1>17, <1>18, <1>19
       DEF Next, Schedule, Committer

-----------------------------------------------------------------------------
(***************************************************************************)
(* The theorems.                                                           *)
(***************************************************************************)
LEMMA StoreNext ==
    ASSUME Types, Store(cross), [Next]_vars
    PROVE  Store(cross')
  <1>1. CASE cross' = cross
    BY <1>1
  <1>2. CASE cross' = << >>
    <2>1. << >> \in Seq(Version(Block))
      OBVIOUS
    <2> QED BY <1>2, <2>1 DEF Store, Ascends, InWindow, FoldsAscend, Nests
  <1>3. CASE Process
    <2>1. work[1] \in 1..Len(bus) /\ Head(work) = work[1]
      BY <1>3 DEF Types, Process
    <2>2. bus[work[1]].block \in Block
      <3>1. bus[work[1]] \in Record
        BY <2>1 DEF Types
      <3> QED BY <3>1 DEF Record
    <2>3. cross' \in {cross, Apply(cross, bus[work[1]].block),
                      RevertTip(cross, bus[work[1]].block)}
      BY <1>3, <2>1 DEF Process
    <2> QED BY <2>2, <2>3, ApplyStore, RevertStore
  <1>4. cross' = cross \/ cross' = << >> \/ Process
    BY DEF Next, vars, Source, Ingest, Emit, Receive, Schedule, Publish, Abandon,
           Finish, Committer, Commit, Shutdown, Restart, Crash, Boot, Rebalance, scheduler
  <1> QED
    BY <1>1, <1>2, <1>3, <1>4

\* No commit overtakes an unpublished block: for any blocks and channels and
\* any number of crashes, shutdowns, rebalances and failed commits, what is
\* at or below a committed offset has its findings on the bus.
THEOREM NothingCommittedUnpublished == Spec => []CommittedIsPublished
  <1>1. Init => Types /\ Order
    BY TypesInit, OrderInit
  <1>2. (Types /\ Order) /\ [Next]_vars => (Types /\ Order)'
    BY TypesNext, OrderNext
  <1>3. Types /\ Order => CommittedIsPublished
    BY DEF Order
  <1> QED
    BY <1>1, <1>2, <1>3, PTL DEF Spec

LEMMA StoreInvariant == Spec => [](Types /\ Store(cross))
  <1>1. Init => Types /\ Store(cross)
    <2> SUFFICES ASSUME Init PROVE Store(cross)
      BY TypesInit
    <2>1. cross = << >> /\ << >> \in Seq(Version(Block))
      BY DEF Init
    <2> QED BY <2>1 DEF Store, Ascends, InWindow, FoldsAscend, Nests
  <1>2. (Types /\ Store(cross)) /\ [Next]_vars => (Types /\ Store(cross))'
    BY TypesNext, StoreNext
  <1> QED
    BY <1>1, <1>2, PTL DEF Spec

\* The snapshots ascend in height and lie within the window of the newest one,
\* for any window, whatever is redelivered, reordered or rewound.
THEOREM HistoryIsBounded == Spec => []SnapshotsInWindow
  <1>1. Types /\ Store(cross) => SnapshotsInWindow
    <2> SUFFICES ASSUME Store(cross), NEW u \in DOMAIN cross, NEW v \in DOMAIN cross, u < v
                 PROVE  /\ Number[cross[u].block] < Number[cross[v].block]
                        /\ Number[cross[Len(cross)].block] < Number[cross[u].block] + Window
      BY DEF SnapshotsInWindow
    <2>1. u \in 1..Len(cross) /\ v \in 1..Len(cross) /\ u < Len(cross)
      BY DEF Store
    <2> QED BY <2>1 DEF Store, Ascends, InWindow
  <1> QED
    BY <1>1, StoreInvariant, PTL

\* No snapshot has a block folded in twice or out of height order, under any
\* redelivery and reordering of the two topics.
THEOREM NothingFoldedTwice == Spec => []FoldedOnce
  <1>1. Types /\ Store(cross) => FoldedOnce
    BY DEF Store, FoldsAscend, FoldedOnce
  <1> QED
    BY <1>1, StoreInvariant, PTL

\* Discarding the tip leaves exactly the accumulator from before its block:
\* for any window, chain and order of deliveries, every snapshot is the one
\* below it with its own block folded in last.
THEOREM SnapshotsNest == Spec => []RewindIsExact
  <1>1. Types /\ Store(cross) => RewindIsExact
    BY DEF Store, Nests, RewindIsExact
  <1> QED
    BY <1>1, StoreInvariant, PTL
==============================================================================
