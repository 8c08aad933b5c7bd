--------------------------- MODULE BlockTreeProofs ---------------------------
(***************************************************************************)
(* What the block tree keeps for every set of blocks, every depth and any  *)
(* sequence of calls: the tip is held, it is the best block held, no block *)
(* lies more than Depth below it, every canonical update can be replayed,  *)
(* and finality is declared once and stays.                                *)
(*                                                                         *)
(* The lemmas about ancestors, walks, Sift and the tree's operations are   *)
(* about values, not about this module's variables: IngestionProofs uses   *)
(* them too.                                                               *)
(***************************************************************************)
EXTENDS BlockTreeCalls, TLAPS, WellFoundedInduction

-----------------------------------------------------------------------------
(***************************************************************************)
(* Induction and recursive functions on the naturals.                      *)
(***************************************************************************)

\* Induction over the naturals, with the property as a set.
LEMMA Induction ==
    ASSUME NEW S, 0 \in S, \A n \in Nat : n \in S => n + 1 \in S
    PROVE  Nat \subseteq S
<1> DEFINE T == Nat \ S
<1> SUFFICES ASSUME T # {} PROVE FALSE
  OBVIOUS
<1>1. PICK i \in T : \A j \in T : ~(<<j, i>> \in OpToRel(<, Nat))
  <2>1. T \subseteq Nat
    OBVIOUS
  <2> HIDE DEF T
  <2> QED BY <2>1, WFMin, NatLessThanWellFounded
<1>2. \A j \in T : ~(j < i)
  BY <1>1 DEF OpToRel
<1>3. i \in Nat /\ i # 0 /\ i - 1 \in Nat
  OBVIOUS
<1>4. i - 1 \in S
  BY <1>2, <1>3
<1>5. (i - 1) + 1 \in S
  BY <1>3, <1>4
<1> QED BY <1>3, <1>5

\* f is a iterated along step.
Iterates(f, a, step) ==
    f[0] = a /\ \A n \in Nat : f[n + 1] = step[<<n, f[n]>>]

\* A value iterated n times along step: what a recursive function on the
\* naturals defines.
LEMMA Iteration ==
    ASSUME NEW X, NEW a \in X, NEW step \in [Nat \X X -> X]
    PROVE  \E f \in [Nat -> X] : Iterates(f, a, step)
<1> DEFINE Good(n, h) == /\ h \in [0..n -> X]
                         /\ h[0] = a
                         /\ \A k \in 0..(n - 1) : h[k + 1] = step[<<k, h[k]>>]
           S == {n \in Nat : \E h : Good(n, h)}
           A == {k \in Nat : \A m, n \in Nat : \A g, h :
                    Good(m, g) /\ Good(n, h) /\ k <= m /\ k <= n => g[k] = h[k]}
<1>1. Nat \subseteq S
  <2>1. 0 \in S
    <3>1. Good(0, [k \in 0..0 |-> a])
      OBVIOUS
    <3> QED BY <3>1
  <2>2. ASSUME NEW n \in Nat, n \in S PROVE n + 1 \in S
    <3>1. PICK h : Good(n, h)
      BY <2>2
    <3> DEFINE g == [k \in 0..(n + 1) |->
                        IF k = n + 1 THEN step[<<n, h[n]>>] ELSE h[k]]
    <3>2. h[n] \in X /\ step[<<n, h[n]>>] \in X
      BY <3>1
    <3>3. g \in [0..(n + 1) -> X]
      BY <3>1, <3>2
    <3>4. g[0] = a
      BY <3>1
    <3>5. ASSUME NEW k \in 0..n PROVE g[k + 1] = step[<<k, g[k]>>]
      <4>1. CASE k = n
        <5>1. g[n + 1] = step[<<n, h[n]>>] /\ g[n] = h[n]
          OBVIOUS
        <5> QED BY <4>1, <5>1
      <4>2. CASE k # n
        BY <3>1, <4>2
      <4> QED BY <4>1, <4>2
    <3>6. Good(n + 1, g)
      <4>1. (n + 1) - 1 = n
        OBVIOUS
      <4> HIDE DEF g
      <4> QED BY <3>3, <3>4, <3>5, <4>1
    <3> HIDE DEF g, Good
    <3> QED BY <3>6
  <2> HIDE DEF S
  <2> QED BY <2>1, <2>2, Induction
<1>2. Nat \subseteq A
  <2>1. 0 \in A
    OBVIOUS
  <2>2. ASSUME NEW k \in Nat, k \in A PROVE k + 1 \in A
    <3> SUFFICES ASSUME NEW m \in Nat, NEW n \in Nat, NEW g, NEW h,
                        Good(m, g), Good(n, h), k + 1 <= m, k + 1 <= n
                 PROVE  g[k + 1] = h[k + 1]
      OBVIOUS
    <3>1. g[k] = h[k]
      BY <2>2
    <3>2. k \in 0..(m - 1) /\ k \in 0..(n - 1)
      OBVIOUS
    <3> QED BY <3>1, <3>2
  <2> HIDE DEF A
  <2> QED BY <2>1, <2>2, Induction
<1> DEFINE H(n) == CHOOSE h : Good(n, h)
           f == [n \in Nat |-> H(n)[n]]
<1>3. \A n \in Nat : Good(n, H(n))
  <2> SUFFICES ASSUME NEW n \in Nat PROVE Good(n, H(n))
    OBVIOUS
  <2>1. \E h : Good(n, h)
    BY <1>1
  <2> HIDE DEF Good
  <2> QED BY <2>1
<1>4. \A n \in Nat : f[n] \in X
  <2> HIDE DEF H
  <2> QED BY <1>3
<1>5. f[0] = a
  <2> HIDE DEF H
  <2> QED BY <1>3
<1>6. ASSUME NEW n \in Nat PROVE f[n + 1] = step[<<n, f[n]>>]
  <2>1. Good(n, H(n)) /\ Good(n + 1, H(n + 1))
    <3> HIDE DEF Good, H
    <3> QED BY <1>3
  <2>2. H(n + 1)[n] = H(n)[n]
    <3> HIDE DEF H, Good
    <3>1. n \in A /\ n + 1 \in Nat /\ n <= n + 1 /\ n <= n
      BY <1>2
    <3> QED BY <2>1, <3>1
  <2>3. H(n + 1)[n + 1] = step[<<n, H(n + 1)[n]>>]
    <3> HIDE DEF H
    <3>1. n \in 0..((n + 1) - 1)
      OBVIOUS
    <3> QED BY <2>1, <3>1
  <2> HIDE DEF H
  <2> QED BY <2>2, <2>3
<1> HIDE DEF H
<1> QED BY <1>4, <1>5, <1>6 DEF Iterates

\* The recursion equations of Up.
LEMMA UpRecursion ==
    /\ Up \in [Nat -> [Block -> Block \cup {NoBlock}]]
    /\ Up[0] = [b \in Block |-> b]
    /\ \A n \in Nat : Up[n + 1] = [b \in Block |->
            IF Up[n][b] = NoBlock THEN NoBlock ELSE Parent[Up[n][b]]]
<1> DEFINE X == [Block -> Block \cup {NoBlock}]
           a == [b \in Block |-> b]
           next(u) == [b \in Block |-> IF u[b] = NoBlock THEN NoBlock ELSE Parent[u[b]]]
           step == [p \in Nat \X X |-> next(p[2])]
           Eq(u) == u = [n \in Nat |-> IF n = 0 THEN a ELSE next(u[n - 1])]
<1>1. a \in X /\ \A u \in X : next(u) \in X
  BY BlockAssumption
<1>2. step \in [Nat \X X -> X]
  BY <1>1
<1>3. PICK f \in [Nat -> X] : Iterates(f, a, step)
  <2>1. a \in X
    BY <1>1
  <2> HIDE DEF X, step, a, next
  <2> QED BY <1>2, <2>1, Iteration
<1>4. Eq(f)
  <2>1. ASSUME NEW n \in Nat, n # 0 PROVE f[n] = next(f[n - 1])
    <3> DEFINE k == n - 1
    <3>1. k \in Nat /\ n = k + 1
      BY <2>1
    <3> HIDE DEF k
    <3>2. f[n] = step[<<k, f[k]>>] /\ f[k] \in X
      BY <1>3, <3>1 DEF Iterates
    <3>3. step[<<k, f[k]>>] = next(f[k])
      <4> HIDE DEF X, next
      <4> QED BY <3>1, <3>2
    <3> QED BY <3>2, <3>3 DEF k
  <2> HIDE DEF next, a, X
  <2> QED BY <1>3, <2>1 DEF Iterates
<1>5. Up = CHOOSE u : Eq(u)
  BY DEF Up
<1>6. Eq(Up)
  <2> HIDE DEF Eq
  <2> QED BY <1>4, <1>5
<1>7. Up[0] = a
  BY <1>6
<1>8. ASSUME NEW n \in Nat PROVE Up[n + 1] = next(Up[n])
  <2>1. n + 1 \in Nat /\ n + 1 # 0 /\ (n + 1) - 1 = n
    OBVIOUS
  <2> HIDE DEF next, a
  <2> QED BY <1>6, <2>1
<1>9. \A n \in Nat : Up[n] \in X
  <2> DEFINE S == {n \in Nat : Up[n] \in X}
  <2>1. 0 \in S
    BY <1>1, <1>7
  <2>2. ASSUME NEW n \in Nat, n \in S PROVE n + 1 \in S
    <3>1. Up[n + 1] = next(Up[n]) /\ Up[n] \in X /\ n + 1 \in Nat
      BY <1>8, <2>2
    <3> HIDE DEF X, next
    <3> QED BY <1>1, <3>1
  <2> HIDE DEF S
  <2>3. Nat \subseteq S
    BY <2>1, <2>2, Induction
  <2> QED BY <2>3 DEF S
<1> QED
  <2>1. Up = [n \in Nat |-> Up[n]]
    BY <1>6
  <2> QED BY <2>1, <1>7, <1>8, <1>9

-----------------------------------------------------------------------------
(***************************************************************************)
(* Ancestors and walks toward the root (canonical_iter, reorg_to).         *)
(***************************************************************************)

\* Up, one block at a time.
LEMMA UpStep ==
    ASSUME NEW b \in Block
    PROVE  /\ Up[0][b] = b
           /\ \A n \in Nat : /\ Up[n][b] \in Block \cup {NoBlock}
                             /\ Up[n + 1][b] = IF Up[n][b] = NoBlock THEN NoBlock
                                              ELSE Parent[Up[n][b]]
<1>1. ASSUME NEW n \in Nat PROVE Up[n] \in [Block -> Block \cup {NoBlock}]
  BY UpRecursion
<1>2. Up[0][b] = b
  BY UpRecursion
<1>3. ASSUME NEW n \in Nat
      PROVE  Up[n + 1][b] = IF Up[n][b] = NoBlock THEN NoBlock ELSE Parent[Up[n][b]]
  <2>1. Up[n + 1] = [c \in Block |-> IF Up[n][c] = NoBlock THEN NoBlock ELSE Parent[Up[n][c]]]
    BY UpRecursion
  <2> QED BY <2>1
<1> QED BY <1>1, <1>2, <1>3

\* The n-th ancestor is n lower, so a walk leaves the blocks at height zero
\* at the latest.
LEMMA UpNumber ==
    ASSUME NEW b \in Block, NEW n \in Nat, Up[n][b] # NoBlock
    PROVE  /\ Up[n][b] \in Block
           /\ Number[Up[n][b]] = Number[b] - n
           /\ n <= Number[b]
<1> DEFINE S == {k \in Nat : Up[k][b] # NoBlock => Number[Up[k][b]] = Number[b] - k}
<1>0. Number[b] \in Nat
  BY BlockAssumption
<1>1. 0 \in S
  BY <1>0, UpStep
<1>2. ASSUME NEW k \in Nat, k \in S PROVE k + 1 \in S
  <2> SUFFICES ASSUME Up[k + 1][b] # NoBlock
               PROVE  Number[Up[k + 1][b]] = Number[b] - (k + 1)
    OBVIOUS
  <2>1. /\ Up[k][b] # NoBlock /\ Up[k][b] \in Block
        /\ Up[k + 1][b] = Parent[Up[k][b]]
    BY UpStep
  <2>2. Number[Up[k][b]] = Number[b] - k
    BY <1>2, <2>1
  <2>3. Up[k + 1][b] \in Block /\ Number[Up[k][b]] = Number[Up[k + 1][b]] + 1
    BY <2>1, BlockAssumption
  <2>4. Number[Up[k + 1][b]] \in Nat
    BY <2>3, BlockAssumption
  <2> QED BY <1>0, <2>2, <2>3, <2>4
<1>3. Nat \subseteq S
  <2> HIDE DEF S
  <2> QED BY <1>1, <1>2, Induction
<1>4. Up[n][b] \in Block
  BY UpStep
<1>5. Number[Up[n][b]] \in Nat
  BY <1>4, BlockAssumption
<1>6. Number[Up[n][b]] = Number[b] - n
  BY <1>3
<1> QED BY <1>0, <1>4, <1>5, <1>6

\* Ancestors of an ancestor.
LEMMA UpAdd ==
    ASSUME NEW b \in Block, NEW n \in Nat, Up[n][b] # NoBlock, NEW m \in Nat
    PROVE  Up[n + m][b] = Up[m][Up[n][b]]
<1> DEFINE c == Up[n][b]
           S == {k \in Nat : Up[n + k][b] = Up[k][c]}
<1>1. c \in Block
  BY UpStep
<1>2. 0 \in S
  <2>1. n + 0 = n
    OBVIOUS
  <2> QED BY <1>1, <2>1, UpStep
<1> HIDE DEF c
<1>3. ASSUME NEW k \in Nat, k \in S PROVE k + 1 \in S
  <2>1. n + (k + 1) = (n + k) + 1 /\ n + k \in Nat /\ k + 1 \in Nat
    OBVIOUS
  <2>2. Up[n + k][b] = Up[k][c]
    BY <1>3
  <2>3. Up[(n + k) + 1][b] = IF Up[n + k][b] = NoBlock THEN NoBlock
                            ELSE Parent[Up[n + k][b]]
    BY <2>1, UpStep
  <2>4. Up[k + 1][c] = IF Up[k][c] = NoBlock THEN NoBlock ELSE Parent[Up[k][c]]
    BY <1>1, UpStep
  <2>5. Up[n + (k + 1)][b] = Up[k + 1][c]
    BY <2>1, <2>2, <2>3, <2>4
  <2> QED BY <2>1, <2>5
<1>4. Nat \subseteq S
  <2> HIDE DEF S
  <2> QED BY <1>2, <1>3, Induction
<1> QED BY <1>4 DEF c

\* The ancestors in between are blocks too.
LEMMA UpBetween ==
    ASSUME NEW b \in Block, NEW n \in Nat, Up[n][b] # NoBlock, NEW m \in 0..n
    PROVE  Up[m][b] \in Block
<1> DEFINE S == {k \in Nat : k <= n => Up[n - k][b] \in Block}
<1>1. 0 \in S
  <2>1. n - 0 = n /\ Up[n][b] \in Block
    BY UpStep
  <2> QED BY <2>1
<1>2. ASSUME NEW k \in Nat, k \in S PROVE k + 1 \in S
  <2> SUFFICES ASSUME k + 1 <= n PROVE Up[n - (k + 1)][b] \in Block
    OBVIOUS
  <2> DEFINE j == n - (k + 1)
  <2>1. j \in Nat /\ n - k = j + 1 /\ k <= n
    OBVIOUS
  <2> HIDE DEF j
  <2>2. Up[j + 1][b] \in Block
    BY <1>2, <2>1
  <2>3. Up[j][b] \in Block
    BY <2>1, <2>2, UpStep, BlockAssumption
  <2> QED BY <2>3 DEF j
<1>3. Nat \subseteq S
  <2> HIDE DEF S
  <2> QED BY <1>1, <1>2, Induction
<1>4. n - m \in S /\ n - m <= n /\ n - (n - m) = m
  BY <1>3
<1> QED BY <1>4

\* The line of a block lists Up, and Ancestors collects it.
LEMMA LineIsUp ==
    ASSUME NEW b \in Block
    PROVE  /\ Number[b] \in Nat
           /\ Line[b] \in Seq(Block \cup {NoBlock})
           /\ Len(Line[b]) = Number[b] + 1
           /\ DOMAIN Line[b] = 1..(Number[b] + 1)
           /\ \A i \in 1..(Number[b] + 1) : Line[b][i] = Up[i - 1][b]
<1>1. Number[b] \in Nat
  BY BlockAssumption
<1>2. Line[b] = [i \in 1..(Number[b] + 1) |-> Up[i - 1][b]]
  BY DEF Line
<1>3. \A i \in 1..(Number[b] + 1) : Up[i - 1][b] \in Block \cup {NoBlock}
  <2> TAKE i \in 1..(Number[b] + 1)
  <2>1. i - 1 \in Nat
    BY <1>1
  <2> QED BY <2>1, UpStep
<1> QED BY <1>1, <1>2, <1>3

LEMMA AncestorsAreUp ==
    ASSUME NEW b \in Block
    PROVE  /\ Ancestors(b) \subseteq Block
           /\ \A c \in Block : c \in Ancestors(b) <=> \E n \in Nat : Up[n][b] = c
           /\ \A c \in Ancestors(b) : /\ Number[b] - Number[c] \in Nat
                                      /\ c = Up[Number[b] - Number[c]][b]
<1>1. /\ Number[b] \in Nat /\ DOMAIN Line[b] = 1..(Number[b] + 1)
      /\ \A i \in 1..(Number[b] + 1) : Line[b][i] = Up[i - 1][b]
  BY LineIsUp
<1>2. ASSUME NEW c \in Ancestors(b)
      PROVE  /\ c \in Block /\ Number[b] - Number[c] \in Nat
             /\ c = Up[Number[b] - Number[c]][b]
  <2>1. PICK i \in 1..(Number[b] + 1) : c = Up[i - 1][b] /\ c # NoBlock
    BY <1>1, <1>2 DEF Ancestors
  <2>2. i - 1 \in Nat
    BY <1>1
  <2>3. c \in Block /\ Number[c] = Number[b] - (i - 1)
    BY <2>1, <2>2, UpNumber
  <2>4. Number[b] - Number[c] = i - 1
    BY <1>1, <2>2, <2>3
  <2> QED BY <2>1, <2>2, <2>3, <2>4
<1>3. ASSUME NEW c \in Block, NEW n \in Nat, Up[n][b] = c
      PROVE  c \in Ancestors(b)
  <2>1. c # NoBlock
    BY BlockAssumption
  <2>2. n <= Number[b]
    BY <1>3, <2>1, UpNumber
  <2>3. n + 1 \in 1..(Number[b] + 1) /\ (n + 1) - 1 = n
    BY <1>1, <2>2
  <2>4. Line[b][n + 1] = c
    BY <1>1, <1>3, <2>3
  <2> QED BY <1>1, <2>1, <2>3, <2>4 DEF Ancestors
<1>4. Ancestors(b) \subseteq Block
  BY <1>2
<1>5. ASSUME NEW c \in Block PROVE c \in Ancestors(b) <=> \E n \in Nat : Up[n][b] = c
  BY <1>2, <1>3
<1> QED BY <1>2, <1>4, <1>5

\* The order of the ancestors: reflexive, transitive, total below a block and
\* by height.
LEMMA AncestorOrder ==
    ASSUME NEW b \in Block
    PROVE  /\ b \in Ancestors(b)
           /\ \A c \in Ancestors(b) : Ancestors(c) \subseteq Ancestors(b)
           /\ \A c, d \in Ancestors(b) : Number[d] <= Number[c] => d \in Ancestors(c)
           /\ \A c \in Ancestors(b) : Number[c] <= Number[b]
           /\ \A c \in Ancestors(b) : Number[c] = Number[b] => c = b
           /\ Parent[b] # NoBlock => Parent[b] \in Ancestors(b)
           /\ \A c \in Ancestors(b) : c # b =>
                 Parent[b] \in Block /\ c \in Ancestors(Parent[b])
<1>0. Number[b] \in Nat
  BY BlockAssumption
<1>1. b \in Ancestors(b)
  BY AncestorsAreUp, UpStep
<1>2. ASSUME NEW c \in Ancestors(b)
      PROVE  /\ c \in Block /\ Number[c] \in Nat /\ Number[c] <= Number[b]
             /\ Number[b] - Number[c] \in Nat
             /\ c = Up[Number[b] - Number[c]][b]
             /\ Number[c] = Number[b] => c = b
  <2>1. c \in Block /\ Number[b] - Number[c] \in Nat /\ c = Up[Number[b] - Number[c]][b]
    BY AncestorsAreUp
  <2>2. Number[c] \in Nat
    BY <2>1, BlockAssumption
  <2>3. Number[c] <= Number[b]
    BY <1>0, <2>1, <2>2
  <2>4. ASSUME Number[c] = Number[b] PROVE c = b
    <3>1. Number[b] - Number[c] = 0
      BY <1>0, <2>4
    <3> QED BY <2>1, <3>1, UpStep
  <2> QED BY <2>1, <2>2, <2>3, <2>4
<1>3. ASSUME NEW c \in Ancestors(b), NEW d \in Ancestors(c)
      PROVE  d \in Ancestors(b)
  <2>1. PICK n \in Nat : Up[n][b] = c
    BY <1>2
  <2>2. c \in Block /\ c # NoBlock
    BY <1>2, BlockAssumption
  <2>3. PICK m \in Nat : Up[m][c] = d /\ d \in Block
    BY <2>2, AncestorsAreUp
  <2>4. Up[n + m][b] = d /\ n + m \in Nat
    BY <2>1, <2>2, <2>3, UpAdd
  <2> QED BY <2>3, <2>4, AncestorsAreUp
<1>4. ASSUME NEW c \in Ancestors(b), NEW d \in Ancestors(b), Number[d] <= Number[c]
      PROVE  d \in Ancestors(c)
  <2> DEFINE n == Number[b] - Number[c]
             k == Number[b] - Number[d]
             m == k - n
  <2>1. /\ n \in Nat /\ k \in Nat /\ m \in Nat /\ n + m = k
        /\ c = Up[n][b] /\ d = Up[k][b] /\ c \in Block /\ d \in Block
    BY <1>0, <1>2, <1>4
  <2> HIDE DEF n, k, m
  <2>2. c # NoBlock
    BY <2>1, BlockAssumption
  <2>3. Up[m][c] = d
    BY <2>1, <2>2, UpAdd
  <2> QED BY <2>1, <2>3, AncestorsAreUp
<1>5. ASSUME Parent[b] # NoBlock PROVE Parent[b] \in Ancestors(b)
  <2>1. Parent[b] \in Block
    BY <1>5, BlockAssumption
  <2>2. b # NoBlock
    BY BlockAssumption
  <2>3. Up[0 + 1][b] = Parent[b] /\ 0 + 1 \in Nat
    BY <2>2, UpStep
  <2> QED BY <2>1, <2>3, AncestorsAreUp
<1>6. ASSUME NEW c \in Ancestors(b), c # b
      PROVE  Parent[b] \in Block /\ c \in Ancestors(Parent[b])
  <2> DEFINE n == Number[b] - Number[c]
             m == n - 1
  <2>1. n \in Nat /\ c = Up[n][b] /\ c \in Block /\ c # NoBlock
    BY <1>2, BlockAssumption
  <2>2. n # 0
    BY <1>6, <2>1, UpStep
  <2>3. m \in Nat /\ n = 1 + m /\ 1 \in 0..n /\ 1 = 0 + 1
    BY <2>1, <2>2
  <2> HIDE DEF n, m
  <2>4. Up[1][b] \in Block
    BY <2>1, <2>3, UpBetween
  <2>5. b # NoBlock /\ Up[1][b] = Parent[b]
    BY <2>3, UpStep, BlockAssumption
  <2>6. Up[m][Parent[b]] = c
    BY <2>1, <2>3, <2>4, <2>5, UpAdd, BlockAssumption
  <2> QED BY <2>1, <2>3, <2>4, <2>5, <2>6, AncestorsAreUp
<1> QED BY <1>1, <1>2, <1>3, <1>4, <1>5, <1>6

\* The walk from b toward the root, as far as nodes goes.
Walk(nodes, b) == SubSeq(Line[b], 1, WalkLength(nodes, b))

IsWalk(w, nodes, b) ==
    /\ w \in Seq(nodes) /\ Len(w) >= 1
    /\ \A i \in 1..Len(w) : w[i] = Up[i - 1][b]
    /\ Parent[w[Len(w)]] \notin nodes

\* A least element (WFMin for the naturals).
LEMMA Least ==
    ASSUME NEW T, T \subseteq Nat, T # {}
    PROVE  \E i \in T : \A j \in T : i <= j
<1>1. PICK i \in T : \A j \in T : ~(<<j, i>> \in OpToRel(<, Nat))
  BY WFMin, NatLessThanWellFounded
<1>2. \A j \in T : ~(j < i)
  BY <1>1 DEF OpToRel
<1> QED BY <1>2

\* The walk exists and stops where the next parent is not held.
LEMMA WalkExists ==
    ASSUME NEW nodes \in SUBSET Block, NEW b \in nodes
    PROVE  IsWalk(Walk(nodes, b), nodes, b)
<1> DEFINE L == Line[b]
           T == {i \in 1..Len(L) : L[i] \notin nodes}
           Ends(n) == /\ \A i \in 1..n : L[i] \in nodes
                      /\ n < Len(L) => L[n + 1] \notin nodes
<1>1. /\ b \in Block /\ Number[b] \in Nat /\ L \in Seq(Block \cup {NoBlock})
      /\ Len(L) = Number[b] + 1 /\ DOMAIN L = 1..Len(L)
      /\ \A i \in 1..Len(L) : L[i] = Up[i - 1][b]
  BY LineIsUp
<1>2. L[1] = b
  <2>1. 1 \in 1..Len(L) /\ 1 - 1 = 0
    BY <1>1
  <2> QED BY <1>1, <2>1, UpStep
<1> HIDE DEF L
<1>3. \E n \in DOMAIN L : Ends(n)
  <2>1. CASE T = {}
    <3>1. Len(L) \in DOMAIN L /\ Ends(Len(L))
      BY <1>1, <2>1
    <3> QED BY <3>1
  <2>2. CASE T # {}
    <3>1. PICK i \in T : \A j \in T : i <= j
      <4>1. T \subseteq Nat
        BY <1>1
      <4> HIDE DEF T
      <4> QED BY <2>2, <4>1, Least
    <3>2. i # 1 /\ i - 1 \in DOMAIN L /\ (i - 1) + 1 = i
      BY <1>1, <1>2
    <3>3. \A j \in 1..(i - 1) : L[j] \in nodes
      BY <1>1, <3>1
    <3> QED BY <3>1, <3>2, <3>3
  <2> QED BY <2>1, <2>2
<1> DEFINE n == WalkLength(nodes, b)
           w == Walk(nodes, b)
<1>4. n \in DOMAIN L /\ Ends(n)
  <2>1. n = CHOOSE k \in DOMAIN L : Ends(k)
    BY DEF WalkLength, L
  <2> HIDE DEF n, Ends
  <2> QED BY <1>3, <2>1
<1>5. w = SubSeq(L, 1, n)
  BY DEF Walk, L
<1> HIDE DEF n, w
<1>6. w \in Seq(nodes) /\ Len(w) = n /\ \A i \in 1..n : w[i] = L[i]
  BY <1>1, <1>4, <1>5
<1>7. \A i \in 1..n : w[i] = Up[i - 1][b]
  BY <1>1, <1>4, <1>6
<1>8. Parent[w[n]] \notin nodes
  <2>1. n \in Nat /\ n >= 1 /\ n <= Len(L) /\ n - 1 \in Nat /\ n = (n - 1) + 1
    BY <1>1, <1>4
  <2>2. w[n] = Up[n - 1][b] /\ w[n] \in Block /\ w[n] # NoBlock
    BY <1>6, <1>7, <2>1, BlockAssumption
  <2>3. CASE n < Len(L)
    <3>1. L[n + 1] \notin nodes /\ L[n + 1] = Up[(n + 1) - 1][b] /\ (n + 1) - 1 = n
      BY <1>1, <1>4, <2>1, <2>3
    <3>2. Up[(n - 1) + 1][b] = Parent[Up[n - 1][b]]
      <4> HIDE DEF L
      <4> DEFINE k == n - 1
      <4>1. k \in Nat /\ Up[k][b] # NoBlock
        BY <2>1, <2>2
      <4> HIDE DEF k
      <4>2. Up[k + 1][b] = Parent[Up[k][b]]
        BY <1>1, <4>1, UpStep
      <4> QED BY <4>2 DEF k
    <3> QED BY <2>1, <2>2, <3>1, <3>2
  <2>4. CASE n = Len(L)
    <3>1. Number[w[n]] = 0
      BY <1>1, <2>1, <2>2, <2>4, UpNumber
    <3>2. Parent[w[n]] # NoBlock => Number[Parent[w[n]]] \in Nat /\ 0 = Number[Parent[w[n]]] + 1
      BY <2>2, <3>1, BlockAssumption
    <3> QED BY <3>2, BlockAssumption
  <2> QED BY <2>1, <2>3, <2>4
<1>9. Len(w) >= 1 /\ Parent[w[Len(w)]] \notin nodes /\ \A i \in 1..Len(w) : w[i] = Up[i - 1][b]
  BY <1>1, <1>4, <1>6, <1>7, <1>8
<1> QED BY <1>6, <1>9 DEF IsWalk, w

\* What a walk looks like: it starts at b, goes from parent to parent and
\* loses one height at a time.
Descends(w, nodes, b) ==
    /\ w \in Seq(Block) /\ Len(w) \in Nat /\ Len(w) >= 1
    /\ DOMAIN w = 1..Len(w)
    /\ w[1] = b
    /\ \A i \in 1..Len(w) : /\ w[i] \in nodes /\ w[i] \in Block
                            /\ w[i] \in Ancestors(b)
                            /\ Number[w[i]] = Number[b] - (i - 1)
    /\ \A i \in 1..(Len(w) - 1) : Parent[w[i]] = w[i + 1]
    /\ Parent[w[Len(w)]] \notin nodes
    /\ \A i, j \in 1..Len(w) : w[i] = w[j] => i = j

LEMMA WalkShape ==
    ASSUME NEW nodes \in SUBSET Block, NEW b \in Block, NEW w, IsWalk(w, nodes, b)
    PROVE  Descends(w, nodes, b)
<1>1. /\ w \in Seq(Block) /\ Len(w) \in Nat /\ Len(w) >= 1 /\ DOMAIN w = 1..Len(w)
      /\ \A i \in 1..Len(w) : w[i] \in nodes /\ w[i] \in Block
      /\ \A i \in 1..Len(w) : w[i] = Up[i - 1][b]
      /\ Parent[w[Len(w)]] \notin nodes
  BY DEF IsWalk
<1>2. w[1] = b
  <2>1. 1 \in 1..Len(w) /\ 1 - 1 = 0
    BY <1>1
  <2> QED BY <1>1, <2>1, UpStep
<1>3. ASSUME NEW i \in 1..Len(w)
      PROVE  w[i] \in Ancestors(b) /\ Number[w[i]] = Number[b] - (i - 1)
  <2> DEFINE k == i - 1
  <2>1. k \in Nat /\ w[i] = Up[k][b] /\ w[i] \in Block /\ w[i] # NoBlock
    BY <1>1, BlockAssumption
  <2> HIDE DEF k
  <2>2. w[i] \in Ancestors(b) /\ Number[w[i]] = Number[b] - k
    BY <2>1, UpNumber, AncestorsAreUp
  <2> QED BY <2>2 DEF k
<1>4. ASSUME NEW i \in 1..(Len(w) - 1) PROVE Parent[w[i]] = w[i + 1]
  <2> DEFINE k == i - 1
  <2>1. /\ k \in Nat /\ w[i] = Up[k][b] /\ w[i] \in Block /\ w[i] # NoBlock
        /\ w[i + 1] = Up[(i + 1) - 1][b] /\ (i + 1) - 1 = k + 1
    BY <1>1, BlockAssumption
  <2> HIDE DEF k
  <2>2. Up[k + 1][b] = Parent[Up[k][b]]
    BY <2>1, UpStep
  <2> QED BY <2>1, <2>2
<1>5. ASSUME NEW i \in 1..Len(w), NEW j \in 1..Len(w), w[i] = w[j] PROVE i = j
  <2>1. Number[b] - (i - 1) = Number[b] - (j - 1)
    BY <1>3, <1>5
  <2>2. Number[b] \in Nat
    BY BlockAssumption
  <2> QED BY <1>1, <2>1, <2>2
<1> QED BY <1>1, <1>2, <1>3, <1>4, <1>5 DEF Descends

\* Two walks that meet go on together to the same end.
SameFrom(v, i, w, j) ==
    /\ Len(v) - i = Len(w) - j
    /\ \A k \in 0..(Len(v) - i) : v[i + k] = w[j + k]

LEMMA WalksMeet ==
    ASSUME NEW nodes \in SUBSET Block,
           NEW a \in Block, NEW v, IsWalk(v, nodes, a),
           NEW b \in Block, NEW w, IsWalk(w, nodes, b),
           NEW i \in 1..Len(v), NEW j \in 1..Len(w), v[i] = w[j]
    PROVE  SameFrom(v, i, w, j)
<1>1. /\ Len(v) \in Nat /\ Len(w) \in Nat
      /\ \A k \in 1..Len(v) : v[k] = Up[k - 1][a] /\ v[k] \in Block /\ v[k] \in nodes
      /\ \A k \in 1..Len(w) : w[k] = Up[k - 1][b] /\ w[k] \in Block /\ w[k] \in nodes
      /\ Parent[v[Len(v)]] \notin nodes /\ Parent[w[Len(w)]] \notin nodes
      /\ \A k \in 1..(Len(v) - 1) : Parent[v[k]] = v[k + 1]
      /\ \A k \in 1..(Len(w) - 1) : Parent[w[k]] = w[k + 1]
  <2>1. Descends(v, nodes, a) /\ Descends(w, nodes, b)
    BY WalkShape
  <2> QED BY <2>1 DEF Descends, IsWalk
<1>0. Len(v) \in Nat /\ Len(w) \in Nat /\ i \in Nat /\ j \in Nat
      /\ 1 <= i /\ i <= Len(v) /\ 1 <= j /\ j <= Len(w)
  BY <1>1
<1>2. ASSUME NEW k \in Nat, k <= Len(v) - i, k <= Len(w) - j PROVE v[i + k] = w[j + k]
  <2> DEFINE p == i - 1
             q == j - 1
  <2>1. /\ p \in Nat /\ q \in Nat
        /\ i + k \in 1..Len(v) /\ j + k \in 1..Len(w)
        /\ (i + k) - 1 = p + k /\ (j + k) - 1 = q + k
    BY <1>1, <1>2
  <2>2. /\ v[i] = Up[p][a] /\ w[j] = Up[q][b] /\ v[i] \in Block /\ v[i] # NoBlock
        /\ v[i + k] = Up[p + k][a] /\ w[j + k] = Up[q + k][b]
    BY <1>1, <2>1, BlockAssumption
  <2> HIDE DEF p, q
  <2>3. Up[p + k][a] = Up[k][v[i]] /\ Up[q + k][b] = Up[k][w[j]]
    <3>1. Up[p][a] # NoBlock /\ Up[q][b] # NoBlock
      BY <2>2
    <3>2. Up[p + k][a] = Up[k][Up[p][a]] /\ Up[q + k][b] = Up[k][Up[q][b]]
      BY <2>1, <3>1, UpAdd
    <3> QED BY <2>2, <3>2
  <2> QED BY <2>2, <2>3
<1>3. ~(Len(v) - i < Len(w) - j)
  <2> SUFFICES ASSUME Len(v) - i < Len(w) - j PROVE FALSE
    OBVIOUS
  <2> DEFINE k == Len(v) - i
  <2>1. /\ k \in Nat /\ k <= Len(v) - i /\ k <= Len(w) - j /\ i + k = Len(v)
        /\ j + k \in 1..(Len(w) - 1) /\ (j + k) + 1 \in 1..Len(w)
    BY <1>0
  <2> HIDE DEF k
  <2>2. v[Len(v)] = w[j + k]
    BY <1>2, <2>1
  <2>3. Parent[w[j + k]] \in nodes
    BY <1>1, <2>1
  <2> QED BY <1>1, <2>2, <2>3
<1>4. ~(Len(w) - j < Len(v) - i)
  <2> SUFFICES ASSUME Len(w) - j < Len(v) - i PROVE FALSE
    OBVIOUS
  <2> DEFINE k == Len(w) - j
  <2>1. /\ k \in Nat /\ k <= Len(v) - i /\ k <= Len(w) - j /\ j + k = Len(w)
        /\ i + k \in 1..(Len(v) - 1) /\ (i + k) + 1 \in 1..Len(v)
    BY <1>0
  <2> HIDE DEF k
  <2>2. v[i + k] = w[Len(w)]
    BY <1>2, <2>1
  <2>3. Parent[v[i + k]] \in nodes
    BY <1>1, <2>1
  <2> QED BY <1>1, <2>2, <2>3
<1>5. Len(v) - i = Len(w) - j
  BY <1>0, <1>3, <1>4
<1>6. ASSUME NEW k \in 0..(Len(v) - i) PROVE v[i + k] = w[j + k]
  <2>1. k \in Nat /\ k <= Len(v) - i /\ k <= Len(w) - j
    BY <1>0, <1>5
  <2> QED BY <1>2, <2>1
<1> QED BY <1>5, <1>6 DEF SameFrom

\* There is only one walk.
LEMMA WalkUnique ==
    ASSUME NEW nodes \in SUBSET Block, NEW b \in Block, NEW w, IsWalk(w, nodes, b)
    PROVE  w = Walk(nodes, b) /\ b \in nodes
<1> DEFINE v == Walk(nodes, b)
<1>1. b \in nodes /\ w[1] = b /\ 1 \in 1..Len(w) /\ w \in Seq(Block)
  <2>1. Descends(w, nodes, b)
    BY WalkShape
  <2> QED BY <2>1 DEF Descends
<1>2. IsWalk(v, nodes, b)
  BY <1>1, WalkExists
<1> HIDE DEF v
<1>3. v[1] = b /\ 1 \in 1..Len(v) /\ v \in Seq(Block)
  <2>1. Descends(v, nodes, b)
    BY <1>2, WalkShape
  <2> QED BY <2>1 DEF Descends
<1>4. /\ Len(v) - 1 = Len(w) - 1
      /\ \A k \in 0..(Len(v) - 1) : v[1 + k] = w[1 + k]
  <2>1. v[1] = w[1] /\ 1 \in 1..Len(v) /\ 1 \in 1..Len(w)
    BY <1>1, <1>3
  <2>2. SameFrom(v, 1, w, 1)
    BY <1>2, <2>1, WalksMeet
  <2> QED BY <2>2 DEF SameFrom
<1>5. Len(v) = Len(w)
  BY <1>1, <1>3, <1>4
<1>6. ASSUME NEW i \in 1..Len(v) PROVE v[i] = w[i]
  <2>1. i - 1 \in 0..(Len(v) - 1) /\ 1 + (i - 1) = i
    BY <1>3
  <2> QED BY <1>4, <2>1
<1> QED BY <1>1, <1>3, <1>5, <1>6 DEF v

\* Pruning below a floor (prune_below) cuts the end of a walk.
LEMMA PrunedWalk ==
    ASSUME NEW nodes \in SUBSET Block, NEW b \in nodes,
           NEW floor \in Nat, floor <= Number[b]
    PROVE  LET rest == {c \in nodes : Number[c] >= floor}
               w == Walk(nodes, b)
           IN \E m \in 1..Len(w) :
                 /\ Walk(rest, b) = SubSeq(w, 1, m)
                 /\ \A i \in 1..Len(w) : i <= m <=> Number[w[i]] >= floor
<1> DEFINE rest == {c \in nodes : Number[c] >= floor}
           w == Walk(nodes, b)
           most == Number[b] - floor + 1
           m == IF most <= Len(w) THEN most ELSE Len(w)
           v == SubSeq(w, 1, m)
<1>1. IsWalk(w, nodes, b) /\ b \in Block /\ Number[b] \in Nat
  BY WalkExists, BlockAssumption
<1> HIDE DEF w
<1>2. Descends(w, nodes, b)
  BY <1>1, WalkShape
<1>3. m \in 1..Len(w) /\ m \in Nat /\ m >= 1 /\ m <= Len(w) /\ Len(w) \in Nat
  BY <1>1, <1>2 DEF Descends
<1>4. \A i \in 1..Len(w) : i <= m <=> Number[w[i]] >= floor
  BY <1>1, <1>2 DEF Descends
<1> HIDE DEF m
<1>5. v \in Seq(Block) /\ Len(v) = m /\ \A i \in 1..m : v[i] = w[i]
  BY <1>2, <1>3 DEF Descends
<1>6. \A i \in 1..m : v[i] \in rest /\ v[i] = Up[i - 1][b]
  BY <1>1, <1>2, <1>3, <1>4, <1>5 DEF Descends, IsWalk
<1>7. Parent[v[m]] \notin rest
  <2>1. v[m] = w[m] /\ m \in 1..m
    BY <1>3, <1>5
  <2>2. CASE m = Len(w)
    BY <1>2, <2>1, <2>2 DEF Descends
  <2>3. CASE m # Len(w)
    <3>1. m \in 1..(Len(w) - 1) /\ m + 1 \in 1..Len(w) /\ ~(m + 1 <= m)
      BY <1>3, <2>3
    <3>2. Parent[w[m]] = w[m + 1] /\ ~(Number[w[m + 1]] >= floor)
      BY <1>2, <1>4, <3>1 DEF Descends
    <3> QED BY <2>1, <3>2
  <2> QED BY <2>2, <2>3
<1> HIDE DEF v
<1>8. v \in Seq(rest)
  BY <1>5, <1>6
<1>9. IsWalk(v, rest, b)
  BY <1>3, <1>5, <1>6, <1>7, <1>8 DEF IsWalk
<1>10. v = Walk(rest, b)
  BY <1>1, <1>9, WalkUnique
<1> QED BY <1>3, <1>4, <1>10 DEF v, w

\* A new block at least as high as a leaves the walk from a alone.
LEMMA GrownWalk ==
    ASSUME NEW nodes \in SUBSET Block, NEW a \in nodes,
           NEW b \in Block, b \notin nodes, Number[b] >= Number[a]
    PROVE  Walk(nodes \cup {b}, a) = Walk(nodes, a)
<1> DEFINE w == Walk(nodes, a)
           more == nodes \cup {b}
<1>1. IsWalk(w, nodes, a) /\ a \in Block
  BY WalkExists
<1> HIDE DEF w
<1>2. Descends(w, nodes, a)
  BY <1>1, WalkShape
<1>3. Parent[w[Len(w)]] # b
  <2> SUFFICES ASSUME Parent[w[Len(w)]] = b PROVE FALSE
    OBVIOUS
  <2> DEFINE c == w[Len(w)]
  <2>1. c \in Block /\ Number[c] = Number[a] - (Len(w) - 1) /\ Len(w) \in Nat /\ Len(w) >= 1
    BY <1>2 DEF Descends
  <2>2. Parent[c] = b /\ b # NoBlock
    BY BlockAssumption
  <2> HIDE DEF c
  <2>3. Number[c] = Number[b] + 1 /\ Number[b] \in Nat /\ Number[a] \in Nat
    BY <1>1, <2>1, <2>2, BlockAssumption
  <2> QED BY <2>1, <2>3
<1>4. IsWalk(w, more, a)
  BY <1>1, <1>3 DEF IsWalk
<1> QED BY <1>1, <1>4, WalkUnique DEF w

-----------------------------------------------------------------------------
(***************************************************************************)
(* Sequences: what Sift and Backwards return.                              *)
(***************************************************************************)

\* q lists the elements of the first n of s that are in S: e gives their
\* places, in order and without omission.
Picks(e, q, s, S, n) ==
    /\ Len(q) \in Nat /\ DOMAIN q = 1..Len(q)
    /\ e \in [1..Len(q) -> 1..n]
    /\ \A i, j \in 1..Len(q) : i < j => e[i] < e[j]
    /\ \A i \in 1..Len(q) : q[i] = s[e[i]] /\ q[i] \in S
    /\ \A m \in 1..n : s[m] \in S => \E i \in 1..Len(q) : e[i] = m

\* The recursion equations of Sift.
SiftsBy(f, s, S) ==
    /\ f[0] = << >>
    /\ \A n \in Nat : f[n + 1] = IF s[n + 1] \in S THEN Append(f[n], s[n + 1]) ELSE f[n]
    /\ \A n \in Nat : f[n] \in Seq({s[m] : m \in Nat})
    /\ Sift(s, S) = f[Len(s)]

LEMMA SiftRecursion ==
    ASSUME NEW s, NEW S, Len(s) \in Nat
    PROVE  \E f : SiftsBy(f, s, S)
<1> DEFINE R == {s[m] : m \in Nat}
           X == Seq(R)
           grow(n, q) == IF s[n] \in S THEN Append(q, s[n]) ELSE q
           step == [p \in Nat \X X |-> grow(p[1] + 1, p[2])]
           Eq(g) == g = [n \in Nat |-> IF n = 0 THEN << >> ELSE grow(n, g[n - 1])]
           f == CHOOSE g : Eq(g)
<1>1. << >> \in X /\ \A n \in Nat, q \in X : grow(n, q) \in X
  <2>1. ASSUME NEW n \in Nat, NEW q \in X PROVE grow(n, q) \in X
    <3>1. s[n] \in R
      OBVIOUS
    <3> HIDE DEF R
    <3> QED BY <3>1
  <2> QED BY <2>1
<1> HIDE DEF X, grow
<1>2. step \in [Nat \X X -> X]
  BY <1>1
<1>3. PICK g \in [Nat -> X] : Iterates(g, << >>, step)
  <2> HIDE DEF step
  <2> QED BY <1>1, <1>2, Iteration
<1>4. Eq(g)
  <2>1. ASSUME NEW n \in Nat, n # 0 PROVE g[n] = grow(n, g[n - 1])
    <3> DEFINE k == n - 1
    <3>1. k \in Nat /\ n = k + 1
      BY <2>1
    <3> HIDE DEF k
    <3>2. g[n] = step[<<k, g[k]>>] /\ g[k] \in X
      BY <1>3, <3>1 DEF Iterates
    <3>3. step[<<k, g[k]>>] = grow(n, g[k])
      BY <3>1, <3>2
    <3> QED BY <3>2, <3>3 DEF k
  <2> QED BY <1>3, <2>1 DEF Iterates
<1>5. Eq(f)
  <2> HIDE DEF Eq
  <2> QED BY <1>4
<1>6. Sift(s, S) = f[Len(s)]
  BY DEF Sift, grow
<1> HIDE DEF f
<1>7. f[0] = << >>
  BY <1>5
<1>8. ASSUME NEW n \in Nat PROVE f[n + 1] = grow(n + 1, f[n])
  <2>1. n + 1 \in Nat /\ n + 1 # 0 /\ (n + 1) - 1 = n
    OBVIOUS
  <2> QED BY <1>5, <2>1
<1>9. \A n \in Nat : f[n] \in X
  <2> DEFINE A == {n \in Nat : f[n] \in X}
  <2>1. 0 \in A
    BY <1>1, <1>7
  <2>2. ASSUME NEW n \in Nat, n \in A PROVE n + 1 \in A
    <3>1. f[n] \in X /\ n + 1 \in Nat
      BY <2>2
    <3>2. grow(n + 1, f[n]) \in X
      BY <1>1, <3>1
    <3> QED BY <1>8, <3>1, <3>2
  <2> HIDE DEF A
  <2>3. Nat \subseteq A
    BY <2>1, <2>2, Induction
  <2> QED BY <2>3 DEF A
<1>10. \A n \in Nat : f[n + 1] = IF s[n + 1] \in S THEN Append(f[n], s[n + 1]) ELSE f[n]
  BY <1>8 DEF grow
<1>11. SiftsBy(f, s, S)
  BY <1>6, <1>7, <1>9, <1>10 DEF X, SiftsBy
<1> QED BY <1>11

\* What Sift returns.
LEMMA SiftPicks ==
    ASSUME NEW s, NEW S, Len(s) \in Nat
    PROVE  \E e : Picks(e, Sift(s, S), s, S, Len(s))
<1>0. PICK f : SiftsBy(f, s, S)
  BY SiftRecursion
<1>1. /\ f[0] = << >>
      /\ \A n \in Nat : f[n + 1] = IF s[n + 1] \in S THEN Append(f[n], s[n + 1]) ELSE f[n]
      /\ \A n \in Nat : f[n] \in Seq({s[m] : m \in Nat})
      /\ Sift(s, S) = f[Len(s)]
  BY <1>0 DEF SiftsBy
<1> DEFINE A == {n \in Nat : \E e : Picks(e, f[n], s, S, n)}
<1>2. 0 \in A
  <2> DEFINE e == [i \in 1..0 |-> 0]
  <2>1. Len(<< >>) = 0 /\ DOMAIN << >> = 1..0
    OBVIOUS
  <2>2. Picks(e, << >>, s, S, 0)
    BY <2>1 DEF Picks
  <2> QED BY <1>1, <2>2
<1>3. ASSUME NEW n \in Nat, n \in A PROVE n + 1 \in A
  <2>1. PICK e : Picks(e, f[n], s, S, n)
    BY <1>3
  <2> DEFINE q == f[n]
             r == f[n + 1]
             R == {s[m] : m \in Nat}
  <2>2. q \in Seq(R) /\ n + 1 \in Nat /\ s[n + 1] \in R
    <3>1. n + 1 \in Nat
      OBVIOUS
    <3>2. s[n + 1] \in R
      BY <3>1
    <3>3. \A m \in Nat : f[m] \in Seq(R)
      BY <1>1
    <3> HIDE DEF R
    <3> QED BY <3>1, <3>2, <3>3
  <2>3. CASE s[n + 1] \notin S
    <3>1. r = q
      BY <1>1, <2>3
    <3> HIDE DEF q, r
    <3>2. Picks(e, q, s, S, n + 1)
      <4>1. 1..n \subseteq 1..(n + 1) /\ \A m \in 1..(n + 1) : m \in 1..n \/ m = n + 1
        OBVIOUS
      <4> QED BY <2>1, <2>3, <4>1 DEF Picks, q
    <3> QED BY <2>2, <3>1, <3>2 DEF r
  <2>4. CASE s[n + 1] \in S
    <3>1. r = Append(q, s[n + 1])
      BY <1>1, <2>4
    <3>2. Picks(e, q, s, S, n)
      BY <2>1
    <3> HIDE DEF q, r, R
    <3> DEFINE l == Len(q)
               d == [i \in 1..(l + 1) |-> IF i = l + 1 THEN n + 1 ELSE e[i]]
    <3>3. /\ l \in Nat /\ Len(r) = l + 1 /\ DOMAIN r = 1..(l + 1)
          /\ r[l + 1] = s[n + 1] /\ \A i \in 1..l : r[i] = q[i]
      BY <2>2, <3>1
    <3>4. \A i \in 1..l : e[i] \in 1..n /\ q[i] = s[e[i]] /\ q[i] \in S
      BY <3>2 DEF Picks
    <3>5. d \in [1..(l + 1) -> 1..(n + 1)] /\ d[l + 1] = n + 1 /\ \A i \in 1..l : d[i] = e[i]
      BY <3>3, <3>4
    <3>6. \A i \in 1..(l + 1) : i \in 1..l \/ i = l + 1
      BY <3>3
    <3> HIDE DEF d, l
    <3>7. ASSUME NEW i \in 1..(l + 1), NEW j \in 1..(l + 1), i < j PROVE d[i] < d[j]
      <4>1. i \in 1..l
        BY <3>3, <3>7
      <4>2. CASE j = l + 1
        BY <3>4, <3>5, <4>1, <4>2
      <4>3. CASE j \in 1..l
        BY <3>2, <3>5, <3>7, <4>1, <4>3 DEF Picks, l
      <4> QED BY <3>6, <4>2, <4>3
    <3>8. \A i \in 1..(l + 1) : r[i] = s[d[i]] /\ r[i] \in S
      BY <2>4, <3>3, <3>4, <3>5, <3>6
    <3>9. ASSUME NEW m \in 1..(n + 1), s[m] \in S PROVE \E i \in 1..(l + 1) : d[i] = m
      <4>1. CASE m = n + 1
        <5>1. l + 1 \in 1..(l + 1)
          BY <3>3
        <5> QED BY <3>5, <4>1, <5>1
      <4>2. CASE m \in 1..n
        <5>1. PICK i \in 1..l : e[i] = m
          BY <3>2, <3>9, <4>2 DEF Picks, l
        <5>2. i \in 1..(l + 1)
          BY <3>3
        <5> QED BY <3>5, <5>1, <5>2
      <4> QED BY <4>1, <4>2
    <3>10. Picks(d, r, s, S, n + 1)
      BY <3>3, <3>5, <3>7, <3>8, <3>9 DEF Picks
    <3> QED BY <2>2, <3>10 DEF r
  <2> QED BY <2>3, <2>4
<1>4. Nat \subseteq A
  <2> HIDE DEF A
  <2> QED BY <1>2, <1>3, Induction
<1> QED BY <1>1, <1>4

\* Sift keeps the type of a sequence.
LEMMA SiftType ==
    ASSUME NEW X, NEW s \in Seq(X), NEW S
    PROVE  Sift(s, S) \in Seq(X)
<1> DEFINE q == Sift(s, S)
           R == {s[m] : m \in Nat}
<1>1. Len(s) \in Nat /\ \A i \in 1..Len(s) : s[i] \in X
  OBVIOUS
<1>2. q \in Seq(R)
  <2>1. PICK f : SiftsBy(f, s, S)
    BY <1>1, SiftRecursion
  <2> QED BY <1>1, <2>1 DEF SiftsBy
<1>3. PICK e : Picks(e, q, s, S, Len(s))
  BY <1>1, SiftPicks
<1> HIDE DEF q, R
<1>4. \A i \in 1..Len(q) : q[i] \in X
  BY <1>1, <1>3 DEF Picks
<1> QED BY <1>2, <1>4 DEF q

\* Neighbours in what Sift returns were neighbours before, if S has no gaps
\* along s.
NoGap(s, S) ==
    \A a, c \in 1..Len(s) : s[a] \in S /\ s[c] \in S => \A m \in a..c : s[m] \in S

LEMMA SiftRun ==
    ASSUME NEW X, NEW s \in Seq(X), NEW S, NoGap(s, S),
           NEW i \in 1..(Len(Sift(s, S)) - 1)
    PROVE  \E m \in 1..(Len(s) - 1) : Sift(s, S)[i] = s[m] /\ Sift(s, S)[i + 1] = s[m + 1]
<1> DEFINE q == Sift(s, S)
<1>1. Len(s) \in Nat
  OBVIOUS
<1>2. PICK e : Picks(e, q, s, S, Len(s))
  BY <1>1, SiftPicks
<1>0. i \in 1..(Len(q) - 1)
  OBVIOUS
<1> HIDE DEF q
<1>3. /\ Len(q) \in Nat /\ i \in 1..Len(q) /\ i + 1 \in 1..Len(q) /\ i \in Nat
  BY <1>0, <1>2 DEF Picks
<1> DEFINE a == e[i]
           c == e[i + 1]
<1>4. /\ a \in 1..Len(s) /\ c \in 1..Len(s) /\ a < c
      /\ q[i] = s[a] /\ q[i + 1] = s[c] /\ s[a] \in S /\ s[c] \in S
  BY <1>2, <1>3 DEF Picks
<1> HIDE DEF a, c
<1>5. c = a + 1
  <2> SUFFICES ASSUME c # a + 1 PROVE FALSE
    OBVIOUS
  <2>1. a + 1 \in a..c /\ a + 1 \in 1..Len(s) /\ a < a + 1 /\ a + 1 < c
    BY <1>1, <1>4
  <2>2. s[a + 1] \in S
    BY <1>4, <2>1 DEF NoGap
  <2>3. PICK k \in 1..Len(q) : e[k] = a + 1
    BY <1>2, <2>1, <2>2 DEF Picks
  <2>4. ~(i < k) \/ ~(k < i + 1)
    BY <1>3
  <2>5. CASE k = i
    BY <1>4, <2>1, <2>3, <2>5 DEF a
  <2>6. CASE k < i
    <3>1. e[k] < e[i]
      BY <1>2, <1>3, <2>6 DEF Picks
    <3> QED BY <1>4, <2>3, <3>1 DEF a
  <2>7. CASE k = i + 1
    BY <1>4, <2>1, <2>3, <2>7 DEF c
  <2>8. CASE i + 1 < k
    <3>1. e[i + 1] < e[k]
      BY <1>2, <1>3, <2>8 DEF Picks
    <3> QED BY <1>4, <2>1, <2>3, <3>1 DEF c
  <2> QED BY <1>3, <2>5, <2>6, <2>7, <2>8
<1>6. a \in 1..(Len(s) - 1)
  BY <1>1, <1>4, <1>5
<1> QED BY <1>4, <1>5, <1>6 DEF q

\* A whole sequence reversed.
LEMMA BackwardsShape ==
    ASSUME NEW X, NEW s \in Seq(X)
    PROVE  /\ Backwards(s) \in Seq(X) /\ Len(Backwards(s)) = Len(s)
           /\ DOMAIN Backwards(s) = 1..Len(s)
           /\ \A i \in 1..Len(s) : Backwards(s)[i] = s[Len(s) + 1 - i]
<1>1. Len(s) \in Nat /\ \A i \in 1..Len(s) : s[Len(s) + 1 - i] \in X
  OBVIOUS
<1>2. Backwards(s) = [i \in 1..Len(s) |-> s[Len(s) + 1 - i]]
  BY DEF Backwards
<1> QED BY <1>1, <1>2

-----------------------------------------------------------------------------
(***************************************************************************)
(* What every call keeps.                                                  *)
(***************************************************************************)

\* Pruning cuts at a height: no block whose parent is not held stands above
\* another block held.
RootsLowest(nodes) ==
    \A x, y \in nodes : Parent[x] \notin nodes => Number[x] <= Number[y]

\* The strengthening: besides the three properties, the tree is empty exactly
\* until it has a tip, every block held was inserted before next, and the
\* roots are the lowest blocks.
TreeInv(t) ==
    /\ t \in Tree
    /\ t.tip = NoBlock => t.nodes = {}
    /\ t.tip # NoBlock => t.tip \in t.nodes
    /\ \A b \in t.nodes : t.seq[b] < t.next
    /\ \A b \in t.nodes : b = t.tip \/ ~Beats(t, b)
    /\ t.tip # NoBlock =>
          \A b \in t.nodes : Number[b] + Depth >= Number[t.tip]
    /\ RootsLowest(t.nodes)

\* An empty tree satisfies the strengthening (BlockTree::new).
LEMMA EmptyTreeInv == TreeInv(EmptyTree)
BY BlockAssumption DEF TreeInv, EmptyTree, Tree, RootsLowest

\* Pruning (prune_below) makes roots of the blocks at the floor only.
LEMMA RootsPruned ==
    ASSUME NEW nodes \in SUBSET Block, RootsLowest(nodes), NEW floor \in Nat
    PROVE  RootsLowest({b \in nodes : Number[b] >= floor})
<1> DEFINE rest == {b \in nodes : Number[b] >= floor}
<1> SUFFICES ASSUME NEW x \in rest, NEW y \in rest, Parent[x] \notin rest
             PROVE  Number[x] <= Number[y]
  BY DEF RootsLowest
<1>1. CASE Parent[x] \notin nodes
  BY <1>1 DEF RootsLowest
<1>2. CASE Parent[x] \in nodes
  <2>1. Number[x] = Number[Parent[x]] + 1 /\ Number[Parent[x]] \in Nat
    BY <1>2, BlockAssumption
  <2>2. Number[Parent[x]] < floor /\ Number[y] >= floor /\ Number[y] \in Nat
    BY <1>2, <2>1, BlockAssumption
  <2> QED BY <2>1, <2>2
<1> QED BY <1>1, <1>2

\* add_block adds no second root.
LEMMA RootsGrown ==
    ASSUME NEW nodes \in SUBSET Block, RootsLowest(nodes),
           NEW b \in Block, nodes # {} => Parent[b] \in nodes
    PROVE  RootsLowest(nodes \cup {b})
<1> SUFFICES ASSUME NEW x \in nodes \cup {b}, NEW y \in nodes \cup {b},
                    Parent[x] \notin nodes \cup {b}
             PROVE  Number[x] <= Number[y]
  BY DEF RootsLowest
<1>0. Number[x] \in Nat /\ Number[y] \in Nat
  BY BlockAssumption
<1>1. CASE nodes = {}
  BY <1>0, <1>1
<1>2. CASE nodes # {}
  <2>1. x \in nodes /\ Parent[b] \in nodes
    BY <1>2
  <2>2. Number[b] = Number[Parent[b]] + 1 /\ Number[Parent[b]] \in Nat
    BY <2>1, BlockAssumption
  <2>3. Number[x] <= Number[Parent[b]]
    BY <2>1 DEF RootsLowest
  <2>4. CASE y \in nodes
    BY <2>1, <2>4 DEF RootsLowest
  <2>5. CASE y = b
    BY <1>0, <2>2, <2>3, <2>5
  <2> QED BY <2>4, <2>5
<1> QED BY <1>1, <1>2

\* Pruning (prune_below) keeps the strengthening as long as the floor is not
\* above the tip.
LEMMA PruneBelowInv ==
    ASSUME NEW t, TreeInv(t), NEW floor \in Nat,
           t.tip # NoBlock => floor <= Number[t.tip]
    PROVE  TreeInv(PruneBelow(t, floor))
<1> DEFINE p == PruneBelow(t, floor)
<1>1. /\ p \in Tree
      /\ p.nodes \subseteq t.nodes
      /\ p.tip = t.tip /\ p.seq = t.seq /\ p.next = t.next
      /\ \A b \in t.nodes : Number[b] >= floor => b \in p.nodes
  BY BlockAssumption DEF TreeInv, Tree, PruneBelow
<1>2. t.tip # NoBlock => t.tip \in p.nodes
  BY <1>1, BlockAssumption DEF TreeInv, Tree
<1>3. \A b \in p.nodes : b = p.tip \/ ~Beats(p, b)
  BY <1>1 DEF TreeInv, Beats
<1>4. RootsLowest(p.nodes)
  <2>1. p.nodes = {b \in t.nodes : Number[b] >= floor} /\ t.nodes \in SUBSET Block
    BY DEF PruneBelow, TreeInv, Tree
  <2> QED BY <2>1, RootsPruned DEF TreeInv
<1> QED
  BY <1>1, <1>2, <1>3, <1>4 DEF TreeInv

\* What add_block can do to the tree: nothing, insert a side branch, or
\* insert the new tip and prune to depth.
LEMMA AddBlockCases ==
    ASSUME NEW t, NEW b \in Block
    PROVE  \/ AddBlock(t, b).tree = t
           \/ /\ b \notin t.nodes
              /\ t.nodes # {} => Parent[b] \in t.nodes
              /\ ~Beats(Insert(t, b), b)
              /\ AddBlock(t, b).tree = Insert(t, b)
           \/ /\ b \notin t.nodes
              /\ t.nodes # {} => Parent[b] \in t.nodes
              /\ Beats(Insert(t, b), b)
              /\ AddBlock(t, b).tree = PruneToDepth([Insert(t, b) EXCEPT !.tip = b])
<1>1. CASE b \in t.nodes
  BY <1>1 DEF AddBlock, NoChange
<1>2. CASE b \notin t.nodes /\ t.finalized # NoBlock /\ Number[b] <= Number[t.finalized]
  BY <1>2 DEF AddBlock, NoChange
<1>3. CASE /\ b \notin t.nodes /\ t.nodes # {} /\ Parent[b] \notin t.nodes
           /\ ~(t.finalized # NoBlock /\ Number[b] <= Number[t.finalized])
  BY <1>3 DEF AddBlock, NoChange
<1>4. CASE /\ b \notin t.nodes
           /\ ~(t.finalized # NoBlock /\ Number[b] <= Number[t.finalized])
           /\ ~(t.nodes # {} /\ Parent[b] \notin t.nodes)
  <2>1. CASE ~Beats(Insert(t, b), b)
    BY <1>4, <2>1 DEF AddBlock, NoChange
  <2>2. CASE Beats(Insert(t, b), b)
    BY <1>4, <2>2 DEF AddBlock
  <2> QED BY <2>1, <2>2
<1> QED BY <1>1, <1>2, <1>3, <1>4

\* What inserting a block (add_block) does, field by field.
LEMMA InsertFields ==
    ASSUME NEW t, TreeInv(t), NEW b \in Block, b \notin t.nodes
    PROVE  LET i == Insert(t, b) IN
           /\ i \in Tree
           /\ i.nodes = t.nodes \cup {b}
           /\ i.tip = t.tip
           /\ i.next = t.next + 1
           /\ i.seq[b] = t.next
           /\ \A c \in t.nodes : i.seq[c] = t.seq[c]
<1> DEFINE i == Insert(t, b)
<1>1. /\ t \in Tree /\ t.nodes \subseteq Block /\ t.seq \in [Block -> Nat]
      /\ t.next \in Nat
  BY DEF TreeInv, Tree
<1> DEFINE u == [t.seq EXCEPT ![b] = t.next]
           k == t.nodes \cup {b}
           e == t.next + 1
<1>2. u \in [Block -> Nat] /\ k \in SUBSET Block /\ e \in Nat
  BY <1>1
<1>3. i = [t EXCEPT !.nodes = k, !.seq = u, !.next = e]
  BY DEF Insert
<1> HIDE DEF u, k, e, i
<1>4. i \in Tree /\ i.nodes = k /\ i.tip = t.tip /\ i.next = e /\ i.seq = u
  BY <1>1, <1>2, <1>3 DEF Tree
<1>5. u[b] = t.next /\ \A c \in t.nodes : u[c] = t.seq[c]
  BY <1>1 DEF u
<1> QED
  BY <1>4, <1>5 DEF u, k, e, i

\* A side branch: the new block does not beat the tip, and it stands one
\* above a block that is already within Depth of it.
LEMMA ForkInv ==
    ASSUME NEW t, TreeInv(t), NEW b \in Block, b \notin t.nodes,
           t.nodes # {} => Parent[b] \in t.nodes,
           ~Beats(Insert(t, b), b)
    PROVE  TreeInv(Insert(t, b))
<1> DEFINE i == Insert(t, b)
<1>1. /\ i \in Tree
      /\ i.nodes = t.nodes \cup {b}
      /\ i.tip = t.tip
      /\ i.next = t.next + 1
      /\ i.seq[b] = t.next
      /\ \A c \in t.nodes : i.seq[c] = t.seq[c]
  BY InsertFields
<1>2. t.tip # NoBlock
  BY <1>1 DEF Beats
<1>3. t.tip \in t.nodes /\ t.tip # b
  BY <1>2 DEF TreeInv
<1>4. \A c \in i.nodes : i.seq[c] < i.next
  BY <1>1 DEF TreeInv, Tree
<1>5. \A c \in i.nodes : c = i.tip \/ ~Beats(i, c)
  <2> SUFFICES ASSUME NEW c \in t.nodes, c # t.tip PROVE ~Beats(i, c)
    BY <1>1
  <2>1. ~Beats(t, c)
    BY DEF TreeInv
  <2> QED
    BY <2>1, <1>1, <1>2, <1>3 DEF Beats
<1>6. \A c \in i.nodes : Number[c] + Depth >= Number[i.tip]
  <2>1. Parent[b] \in t.nodes /\ Number[Parent[b]] + Depth >= Number[t.tip]
    BY <1>2, <1>3 DEF TreeInv
  <2>2. Number[b] = Number[Parent[b]] + 1 /\ Number[Parent[b]] \in Nat
    BY <2>1, BlockAssumption DEF TreeInv, Tree
  <2>3. Number[t.tip] \in Nat /\ Depth \in Nat
    BY <1>3, BlockAssumption DEF TreeInv, Tree
  <2>4. Number[b] + Depth >= Number[t.tip]
    BY <2>1, <2>2, <2>3
  <2> QED
    BY <2>4, <1>1, <1>2 DEF TreeInv
<1>7. RootsLowest(i.nodes)
  BY <1>1, RootsGrown DEF TreeInv, Tree
<1> QED
  BY <1>1, <1>2, <1>3, <1>4, <1>5, <1>6, <1>7 DEF TreeInv

\* The canonical case: the new tip beats the old one, hence everything held,
\* and prune_to_depth restores the bound.
LEMMA CanonicalInv ==
    ASSUME NEW t, TreeInv(t), NEW b \in Block, b \notin t.nodes,
           t.nodes # {} => Parent[b] \in t.nodes,
           Beats(Insert(t, b), b)
    PROVE  TreeInv(PruneToDepth([Insert(t, b) EXCEPT !.tip = b]))
<1> DEFINE i == Insert(t, b)
           n == [i EXCEPT !.tip = b]
           floor == IF Number[b] > Depth THEN Number[b] - Depth ELSE 0
           p == PruneBelow(n, floor)
<1>1. /\ i \in Tree
      /\ i.nodes = t.nodes \cup {b}
      /\ i.tip = t.tip
      /\ i.next = t.next + 1
      /\ i.seq[b] = t.next
      /\ \A c \in t.nodes : i.seq[c] = t.seq[c]
  BY InsertFields
<1>2. /\ n \in Tree
      /\ n.nodes = t.nodes \cup {b}
      /\ n.tip = b
      /\ n.next = t.next + 1
      /\ n.seq = i.seq
  BY <1>1 DEF Tree
<1>3. Number[b] \in Nat /\ Depth \in Nat /\ floor \in Nat /\ floor <= Number[b]
  BY BlockAssumption
<1>4. PruneToDepth(n) = p
  BY <1>2 DEF PruneToDepth
<1>5. /\ p \in Tree
      /\ p.nodes = {c \in n.nodes : Number[c] >= floor}
      /\ p.tip = b
      /\ p.next = t.next + 1
      /\ p.seq = i.seq
  BY <1>2, <1>3, BlockAssumption DEF PruneBelow, Tree
<1>6. b \in p.nodes /\ b # NoBlock
  BY <1>2, <1>3, <1>5, BlockAssumption
<1>7. \A c \in p.nodes : p.seq[c] < p.next
  BY <1>1, <1>2, <1>5 DEF TreeInv, Tree
<1>8. \A c \in p.nodes : c = b \/ ~Beats(p, c)
  <2> SUFFICES ASSUME NEW c \in t.nodes PROVE ~Beats(p, c)
    BY <1>2, <1>5
  <2>1. t.tip # NoBlock /\ t.tip \in t.nodes
    BY DEF TreeInv
  <2>2. /\ Number[c] \in Nat /\ Number[t.tip] \in Nat
        /\ t.seq[c] \in Nat /\ t.seq[t.tip] \in Nat /\ t.next \in Nat
        /\ t.seq[c] < t.next
    BY <2>1, BlockAssumption DEF TreeInv, Tree
  <2>3. Number[c] <= Number[t.tip]
    BY <2>1, <2>2 DEF TreeInv, Beats
  <2>4. Number[t.tip] <= Number[b]
    BY <1>1, <1>3, <2>1, <2>2 DEF Beats
  <2>5. Number[c] <= Number[b] /\ p.seq[c] < p.seq[b] /\ p.seq[c] \in Nat /\ p.seq[b] \in Nat
    BY <1>1, <1>3, <1>5, <2>2, <2>3, <2>4
  <2> QED
    BY <1>3, <1>5, <1>6, <2>2, <2>5 DEF Beats
<1>9. \A c \in p.nodes : Number[c] + Depth >= Number[b]
  BY <1>2, <1>3, <1>5, BlockAssumption DEF Tree
<1>10. RootsLowest(p.nodes)
  <2>1. t.nodes \cup {b} \in SUBSET Block
    BY DEF TreeInv, Tree
  <2>2. RootsLowest(t.nodes \cup {b})
    BY RootsGrown DEF TreeInv, Tree
  <2>3. p.nodes = {c \in t.nodes \cup {b} : Number[c] >= floor} /\ floor \in Nat
    BY <1>2, <1>3, <1>5
  <2> HIDE DEF floor, p
  <2> QED BY <2>1, <2>2, <2>3, RootsPruned
<1> QED
  BY <1>4, <1>5, <1>6, <1>7, <1>8, <1>9, <1>10 DEF TreeInv

\* add_block keeps the strengthening.
LEMMA AddBlockInv ==
    ASSUME NEW t, TreeInv(t), NEW b \in Block
    PROVE  TreeInv(AddBlock(t, b).tree)
<1>1. CASE AddBlock(t, b).tree = t
  BY <1>1
<1>2. CASE /\ b \notin t.nodes
           /\ t.nodes # {} => Parent[b] \in t.nodes
           /\ ~Beats(Insert(t, b), b)
           /\ AddBlock(t, b).tree = Insert(t, b)
  <2>1. TreeInv(Insert(t, b))
    BY <1>2, ForkInv
  <2> QED BY <1>2, <2>1
<1>3. CASE /\ b \notin t.nodes
           /\ t.nodes # {} => Parent[b] \in t.nodes
           /\ Beats(Insert(t, b), b)
           /\ AddBlock(t, b).tree = PruneToDepth([Insert(t, b) EXCEPT !.tip = b])
  <2>1. TreeInv(PruneToDepth([Insert(t, b) EXCEPT !.tip = b]))
    BY <1>3, CanonicalInv
  <2> QED BY <1>3, <2>1
<1> QED
  BY <1>1, <1>2, <1>3, AddBlockCases

\* finalize keeps the strengthening: the floor is clamped to the tip.
LEMMA FinalizeInv ==
    ASSUME NEW t, TreeInv(t), NEW f \in Block
    PROVE  TreeInv(Finalize(t, f).tree)
<1> DEFINE n == [t EXCEPT !.finalized = f]
<1>1. /\ n \in Tree /\ n.nodes = t.nodes /\ n.tip = t.tip
      /\ n.seq = t.seq /\ n.next = t.next
  BY DEF TreeInv, Tree
<1>2. TreeInv(n)
  BY <1>1 DEF TreeInv, Beats
<1>3. /\ FinalFloor(t, f) \in Nat
      /\ t.tip # NoBlock => FinalFloor(t, f) <= Number[t.tip]
  BY BlockAssumption DEF FinalFloor, TreeInv, Tree
<1>4. TreeInv(PruneBelow(n, FinalFloor(t, f)))
  BY <1>1, <1>2, <1>3, PruneBelowInv
<1> QED
  BY <1>4 DEF Finalize

-----------------------------------------------------------------------------
(***************************************************************************)
(* What the calls return (reorg_to, add_block, finalize).                  *)
(***************************************************************************)

\* The chain of a tree is the walk from its tip.
LEMMA ChainIsWalk ==
    ASSUME NEW t, TreeInv(t), t.tip # NoBlock
    PROVE  /\ t.nodes \in SUBSET Block /\ t.tip \in t.nodes /\ t.tip \in Block
           /\ CanonicalIter(t) = Walk(t.nodes, t.tip)
           /\ IsWalk(CanonicalIter(t), t.nodes, t.tip)
           /\ Descends(CanonicalIter(t), t.nodes, t.tip)
           /\ Canonical(t) = {CanonicalIter(t)[i] : i \in 1..Len(CanonicalIter(t))}
           /\ Canonical(t) \subseteq t.nodes
<1>1. t.nodes \in SUBSET Block /\ t.tip \in t.nodes /\ t.tip \in Block
  BY DEF TreeInv, Tree
<1>2. CanonicalIter(t) = Walk(t.nodes, t.tip)
  BY DEF CanonicalIter, Walk
<1>3. IsWalk(CanonicalIter(t), t.nodes, t.tip)
  BY <1>1, <1>2, WalkExists
<1>4. Descends(CanonicalIter(t), t.nodes, t.tip)
  BY <1>1, <1>3, WalkShape
<1>5. DOMAIN CanonicalIter(t) = 1..Len(CanonicalIter(t))
  BY <1>4 DEF Descends
<1>6. Canonical(t) = {CanonicalIter(t)[i] : i \in 1..Len(CanonicalIter(t))}
  BY <1>5 DEF Canonical
<1>7. Canonical(t) \subseteq t.nodes
  BY <1>4, <1>6 DEF Descends
<1> QED BY <1>1, <1>2, <1>3, <1>4, <1>6, <1>7

\* reorg_to, with the two cuts named: it takes back the first j blocks of the
\* canonical chain and puts the first k blocks of the new branch in their
\* place; both end at the same height, and below them the two walks are one
\* unless the branches have no common block in memory.
Replaces(t, b, up, j, k) ==
    LET chain  == CanonicalIter(t)
        branch == Walk(t.nodes \cup {b}, b)
    IN /\ j \in 0..Len(chain) /\ k \in 1..Len(branch)
       /\ up.reverted = SubSeq(chain, 1, j)
       /\ up.canonicalized = Backwards(SubSeq(branch, 1, k))
       /\ \A i \in 1..k : branch[i] \notin Canonical(t)
       /\ t.tip # NoBlock => Number[t.tip] - j = Number[b] - k /\ j <= k
       /\ up.rejoins /\ t.tip # NoBlock => j < Len(chain)
       /\ up.rejoins => /\ Len(chain) - j = Len(branch) - k
                        /\ \A i \in 1..(Len(chain) - j) : chain[j + i] = branch[k + i]
       /\ ~up.rejoins => j = Len(chain) /\ k = Len(branch)

LEMMA ReorgReplaces ==
    ASSUME NEW t, TreeInv(t), NEW b \in Block, b \notin t.nodes,
           t.nodes # {} => Parent[b] \in t.nodes,
           Beats(Insert(t, b), b)
    PROVE  \E j, k \in Nat : Replaces(t, b, ReorgTo(Insert(t, b), b), j, k)
<1> DEFINE ins    == Insert(t, b)
           up     == ReorgTo(ins, b)
           nodes  == t.nodes \cup {b}
           old    == CanonicalIter(ins)
           branch == Walk(ins.nodes, b)
           joins  == {i \in DOMAIN branch : branch[i] \in Canonical(ins)}
           fresh  == IF joins = {} THEN Len(branch)
                     ELSE (CHOOSE i \in joins : \A j \in joins : i <= j) - 1
<1>1. /\ ins \in Tree /\ ins.nodes = nodes /\ ins.tip = t.tip
      /\ ins.seq[b] = t.next /\ \A c \in t.nodes : ins.seq[c] = t.seq[c]
  BY InsertFields
<1>2. /\ up.reverted = IF joins = {} THEN old ELSE Before(old, branch[fresh + 1])
      /\ up.canonicalized = Backwards(SubSeq(branch, 1, fresh))
      /\ up.rejoins <=> joins # {} \/ t.tip = NoBlock
  <2> DEFINE rev == IF joins = {} THEN old ELSE Before(old, branch[fresh + 1])
             can == Backwards(SubSeq(branch, 1, fresh))
  <2>2. up = [reverted |-> rev, canonicalized |-> can,
              rejoins |-> (joins # {} \/ ins.tip = NoBlock)]
    BY DEF ReorgTo, Walk
  <2> HIDE DEF rev, can, up, joins, ins
  <2>3. up.reverted = rev /\ up.canonicalized = can
    BY <2>2
  <2>4. up.rejoins <=> joins # {} \/ ins.tip = NoBlock
    BY <2>2
  <2> QED BY <1>1, <2>3, <2>4 DEF rev, can
<1>3. nodes \in SUBSET Block /\ b \in nodes /\ t.nodes \in SUBSET Block
  BY DEF TreeInv, Tree
<1>4. /\ branch = Walk(nodes, b)
      /\ IsWalk(branch, nodes, b) /\ Descends(branch, nodes, b)
  BY <1>1, <1>3, WalkExists, WalkShape
<1> HIDE DEF ins, up, branch, nodes
<1>5. CASE t.tip = NoBlock
  <2>1. /\ old = << >> /\ CanonicalIter(t) = << >>
        /\ Canonical(ins) = {} /\ Canonical(t) = {}
    BY <1>1, <1>5 DEF CanonicalIter, Canonical
  <2>2. joins = {} /\ fresh = Len(branch)
    BY <2>1
  <2>3. Len(branch) \in Nat /\ Len(branch) >= 1 /\ Len(branch) \in 1..Len(branch)
    BY <1>4 DEF Descends
  <2>4. Len(<< >>) = 0 /\ SubSeq(<< >>, 1, 0) = << >>
    OBVIOUS
  <2>5. Replaces(t, b, up, 0, Len(branch))
    BY <1>2, <1>4, <1>5, <2>1, <2>2, <2>3, <2>4 DEF Replaces, nodes
  <2> QED BY <2>3, <2>5 DEF up, ins
<1>6. CASE t.tip # NoBlock
  <2>1. /\ t.tip \in t.nodes /\ t.tip \in Block /\ t.tip # b
        /\ IsWalk(CanonicalIter(t), t.nodes, t.tip)
        /\ CanonicalIter(t) = Walk(t.nodes, t.tip)
        /\ Canonical(t) \subseteq t.nodes
    BY <1>6, ChainIsWalk
  <2>2. Number[b] >= Number[t.tip] /\ Number[b] \in Nat /\ Number[t.tip] \in Nat
    <3>1. Number[b] \in Nat /\ Number[t.tip] \in Nat
      BY <2>1, BlockAssumption
    <3>2. Beats(ins, b)
      BY DEF ins
    <3> QED BY <1>1, <1>6, <3>1, <3>2 DEF Beats
  <2>3. old = CanonicalIter(t)
    <3>1. old = Walk(nodes, t.tip)
      BY <1>1, <1>6 DEF CanonicalIter, Walk
    <3>2. Walk(nodes, t.tip) = Walk(t.nodes, t.tip)
      BY <1>3, <2>1, <2>2, GrownWalk DEF nodes
    <3> QED BY <2>1, <3>1, <3>2
  <2>4. Canonical(ins) = Canonical(t)
    BY <2>3 DEF Canonical
  <2>5. IsWalk(old, nodes, t.tip) /\ Descends(old, nodes, t.tip)
    <3>1. old = Walk(nodes, t.tip)
      BY <1>1, <1>6 DEF CanonicalIter, Walk
    <3>2. t.tip \in nodes
      BY <2>1 DEF nodes
    <3> QED BY <1>3, <2>1, <3>1, <3>2, WalkExists, WalkShape
  <2>6. Canonical(t) = {old[i] : i \in 1..Len(old)}
    BY <2>3, <2>5 DEF Canonical, Descends
  <2> HIDE DEF old
  <2>7. CASE joins = {}
    <3>1. fresh = Len(branch) /\ up.reverted = old /\ ~up.rejoins
      BY <1>2, <1>6, <2>7
    <3>2. /\ Len(old) \in Nat /\ Len(branch) \in Nat /\ Len(branch) >= 1
          /\ Len(old) >= 1 /\ SubSeq(old, 1, Len(old)) = old
      BY <1>4, <2>5 DEF Descends
    <3>3. \A i \in 1..Len(branch) : branch[i] \notin Canonical(t)
      BY <1>4, <2>4, <2>7 DEF Descends
    <3>4. Number[t.tip] - Len(old) = Number[b] - Len(branch)
      <4> DEFINE x == old[Len(old)]
                 y == branch[Len(branch)]
      <4>1. /\ x \in nodes /\ y \in nodes
            /\ Parent[x] \notin nodes /\ Parent[y] \notin nodes
            /\ Number[x] = Number[t.tip] - (Len(old) - 1)
            /\ Number[y] = Number[b] - (Len(branch) - 1)
        BY <1>4, <2>5, <3>2 DEF Descends
      <4>2. RootsLowest(nodes)
        BY <1>3, RootsGrown DEF TreeInv, nodes
      <4>3. Number[x] <= Number[y] /\ Number[y] <= Number[x]
        BY <4>1, <4>2 DEF RootsLowest
      <4>4. Number[x] \in Nat /\ Number[y] \in Nat
        BY <1>3, <4>1, BlockAssumption
      <4> HIDE DEF x, y
      <4>5. Number[x] = Number[y]
        BY <4>3, <4>4
      <4> QED BY <2>2, <3>2, <4>1, <4>5
    <3>6. Len(old) <= Len(branch)
      BY <2>2, <3>2, <3>4
    <3>5. Replaces(t, b, up, Len(old), Len(branch))
      <4>1. up.canonicalized = Backwards(SubSeq(branch, 1, Len(branch)))
        BY <1>2, <3>1
      <4>2. /\ Len(old) \in 0..Len(old) /\ Len(branch) \in 1..Len(branch)
        BY <3>2
      <4> HIDE DEF joins, fresh
      <4> QED BY <1>4, <1>6, <2>3, <3>1, <3>2, <3>3, <3>4, <3>6, <4>1, <4>2 DEF Replaces, nodes
    <3> QED BY <3>2, <3>5 DEF up, ins
  <2>8. CASE joins # {}
    <3> DEFINE i == CHOOSE n \in joins : \A m \in joins : n <= m
    <3>1. DOMAIN branch = 1..Len(branch) /\ Len(branch) \in Nat /\ joins \subseteq Nat
      BY <1>4 DEF Descends
    <3>2. i \in joins /\ \A m \in joins : i <= m
      <4> HIDE DEF joins
      <4>1. \E n \in joins : \A m \in joins : n <= m
        BY <2>8, <3>1, Least
      <4> QED BY <4>1
    <3>3. fresh = i - 1
      BY <2>8
    <3> HIDE DEF i, fresh
    <3>4. i \in 1..Len(branch) /\ branch[i] \in Canonical(t)
      BY <2>4, <3>1, <3>2
    <3>5. i # 1
      <4>1. branch[1] = b
        BY <1>4 DEF Descends
      <4> QED BY <2>1, <3>4, <4>1
    <3>6. i - 1 \in Nat /\ i - 1 \in 1..Len(branch) /\ (i - 1) + 1 = i
      BY <3>1, <3>4, <3>5
    <3> DEFINE x == branch[i]
               p == CHOOSE n \in DOMAIN old : old[n] = x
    <3>7. DOMAIN old = 1..Len(old) /\ Len(old) \in Nat
      BY <2>5 DEF Descends
    <3>8. p \in 1..Len(old) /\ old[p] = x
      BY <2>6, <3>4, <3>7
    <3>9. up.reverted = SubSeq(old, 1, p - 1) /\ up.rejoins
      BY <1>2, <2>8, <3>3, <3>6 DEF Before
    <3> HIDE DEF p, x
    <3>10. SameFrom(old, p, branch, i)
      BY <1>3, <1>4, <2>1, <2>5, <3>4, <3>8, WalksMeet DEF x
    <3>11. Number[t.tip] - (p - 1) = Number[b] - (i - 1)
      <4>1. Number[old[p]] = Number[t.tip] - (p - 1)
        BY <2>5, <3>8 DEF Descends
      <4>2. Number[branch[i]] = Number[b] - (i - 1)
        BY <1>4, <3>4 DEF Descends
      <4> QED BY <3>8, <4>1, <4>2 DEF x
    <3>12. \A m \in 1..(i - 1) : branch[m] \notin Canonical(t)
      BY <2>4, <3>1, <3>2, <3>4
    <3> DEFINE j == p - 1
               k == i - 1
    <3>13. /\ j \in Nat /\ j \in 0..Len(old) /\ j < Len(old)
           /\ k \in Nat /\ k \in 1..Len(branch)
           /\ p = j + 1 /\ i = k + 1
      BY <3>6, <3>7, <3>8
    <3>14. Len(old) - j = Len(branch) - k
      <4>1. Len(old) - p = Len(branch) - i
        BY <3>10 DEF SameFrom
      <4> QED BY <3>1, <3>4, <3>7, <3>8, <4>1
    <3>15. ASSUME NEW m \in 1..(Len(old) - j) PROVE old[j + m] = branch[k + m]
      <4> DEFINE n == m - 1
      <4>0. m \in Nat /\ m >= 1 /\ m <= Len(old) - j
        BY <3>7, <3>13
      <4>1. n \in 0..(Len(old) - p) /\ p + n = j + m /\ i + n = k + m
        BY <3>7, <3>13, <4>0
      <4> HIDE DEF n, j, k
      <4>2. old[p + n] = branch[i + n]
        BY <3>10, <4>1 DEF SameFrom
      <4> QED BY <4>1, <4>2
    <3>16. up.canonicalized = Backwards(SubSeq(branch, 1, k))
      BY <1>2, <3>3
    <3>17. Replaces(t, b, up, j, k)
      <4> HIDE DEF j, k
      <4>1. /\ up.reverted = SubSeq(old, 1, j)
            /\ Number[t.tip] - j = Number[b] - k
            /\ \A m \in 1..k : branch[m] \notin Canonical(t)
        BY <3>9, <3>11, <3>12 DEF j, k
      <4>2. j <= k
        BY <2>2, <3>13, <4>1
      <4> QED BY <1>4, <2>3, <3>9, <3>13, <3>14, <3>15, <3>16, <4>1, <4>2 DEF Replaces, nodes
    <3> HIDE DEF j, k
    <3> QED BY <3>13, <3>17 DEF up, ins
  <2> QED BY <2>7, <2>8
<1> QED BY <1>5, <1>6

\* What add_block returns: a canonical update is reorg_to's, any other outcome
\* swaps nothing.
LEMMA AddBlockReturns ==
    ASSUME NEW t, NEW b \in Block
    PROVE  LET r == AddBlock(t, b)
               up == ReorgTo(Insert(t, b), b)
           IN /\ r.kind \in {"Duplicate", "ReorgBeyondFinality", "MissingParent",
                             "Fork", "Canonical"}
              /\ r.kind # "Canonical" =>
                    r.reverted = << >> /\ r.canonicalized = << >> /\ r.rejoins
              /\ r.kind \in {"Duplicate", "ReorgBeyondFinality", "MissingParent"} =>
                    r.tree = t
              /\ r.kind \in {"Fork", "Canonical"} =>
                    /\ b \notin t.nodes
                    /\ t.nodes # {} => Parent[b] \in t.nodes
                    /\ ~(t.finalized # NoBlock /\ Number[b] <= Number[t.finalized])
              /\ r.kind = "Fork" => ~Beats(Insert(t, b), b) /\ r.tree = Insert(t, b)
              /\ r.kind = "Canonical" =>
                    /\ Beats(Insert(t, b), b)
                    /\ r.tree = PruneToDepth([Insert(t, b) EXCEPT !.tip = b])
                    /\ r.reverted = up.reverted
                    /\ r.canonicalized = up.canonicalized
                    /\ r.rejoins = up.rejoins
<1> DEFINE ins == Insert(t, b)
           up  == ReorgTo(ins, b)
           new == PruneToDepth([ins EXCEPT !.tip = b])
           low == t.finalized # NoBlock /\ Number[b] <= Number[t.finalized]
           alone == t.nodes # {} /\ Parent[b] \notin t.nodes
           won == [tree |-> new, kind |-> "Canonical", reverted |-> up.reverted,
                   canonicalized |-> up.canonicalized, rejoins |-> up.rejoins]
<1>1. AddBlock(t, b) =
        IF b \in t.nodes THEN NoChange(t, "Duplicate")
        ELSE IF low THEN NoChange(t, "ReorgBeyondFinality")
        ELSE IF alone THEN NoChange(t, "MissingParent")
        ELSE IF ~Beats(ins, b) THEN NoChange(ins, "Fork") ELSE won
  BY DEF AddBlock
<1> HIDE DEF ins, up, new, low, alone
<1>2. CASE b \in t.nodes
  BY <1>1, <1>2 DEF NoChange
<1>3. CASE b \notin t.nodes /\ low
  BY <1>1, <1>3 DEF NoChange
<1>4. CASE b \notin t.nodes /\ ~low /\ alone
  BY <1>1, <1>4 DEF NoChange
<1>5. CASE b \notin t.nodes /\ ~low /\ ~alone /\ ~Beats(ins, b)
  <2>1. AddBlock(t, b) = NoChange(ins, "Fork")
    BY <1>1, <1>5
  <2> QED BY <1>5, <2>1 DEF NoChange, ins, low, alone
<1>6. CASE b \notin t.nodes /\ ~low /\ ~alone /\ Beats(ins, b)
  <2>1. AddBlock(t, b) = won
    BY <1>1, <1>6
  <2> QED BY <1>6, <2>1 DEF ins, low, alone, up, new
<1> QED BY <1>2, <1>3, <1>4, <1>5, <1>6

\* The record a caller keeps of an outcome: all of it but the tree.
LEMMA AddBlockUpdate ==
    ASSUME NEW t, NEW b \in Block, NEW e
    PROVE  LET r == AddBlock(t, b)
               u == [r EXCEPT !.tree = e]
           IN /\ u.kind = r.kind /\ u.reverted = r.reverted
              /\ u.canonicalized = r.canonicalized /\ u.rejoins = r.rejoins
<1> DEFINE r == AddBlock(t, b)
<1>1. \E x, k, v, c, j : r = [tree |-> x, kind |-> k, reverted |-> v,
                              canonicalized |-> c, rejoins |-> j]
  <2> DEFINE ins == Insert(t, b)
             up  == ReorgTo(ins, b)
             new == PruneToDepth([ins EXCEPT !.tip = b])
             low == t.finalized # NoBlock /\ Number[b] <= Number[t.finalized]
             alone == t.nodes # {} /\ Parent[b] \notin t.nodes
             won == [tree |-> new, kind |-> "Canonical", reverted |-> up.reverted,
                     canonicalized |-> up.canonicalized, rejoins |-> up.rejoins]
  <2>1. r = IF b \in t.nodes THEN NoChange(t, "Duplicate")
            ELSE IF low THEN NoChange(t, "ReorgBeyondFinality")
            ELSE IF alone THEN NoChange(t, "MissingParent")
            ELSE IF ~Beats(ins, b) THEN NoChange(ins, "Fork") ELSE won
    BY DEF AddBlock
  <2> HIDE DEF r, ins, up, new, low, alone
  <2>2. \A x, k : NoChange(x, k) = [tree |-> x, kind |-> k, reverted |-> << >>,
                                     canonicalized |-> << >>, rejoins |-> TRUE]
    BY DEF NoChange
  <2>3. CASE r = won
    BY <2>3
  <2>4. CASE \E x, k : r = NoChange(x, k)
    BY <2>2, <2>4
  <2> QED BY <2>1, <2>3, <2>4
<1> HIDE DEF r
<1> QED BY <1>1 DEF r

\* The blocks of a reversed prefix.
LEMMA Reversed ==
    ASSUME NEW X, NEW s \in Seq(X), NEW k \in 0..Len(s)
    PROVE  /\ SubSeq(s, 1, k) \in Seq(X) /\ Len(SubSeq(s, 1, k)) = k
           /\ \A i \in 1..k : SubSeq(s, 1, k)[i] = s[i]
           /\ DOMAIN SubSeq(s, 1, k) = 1..k
           /\ Backwards(SubSeq(s, 1, k)) \in Seq(X)
           /\ Len(Backwards(SubSeq(s, 1, k))) = k
           /\ DOMAIN Backwards(SubSeq(s, 1, k)) = 1..k
           /\ \A i \in 1..k : Backwards(SubSeq(s, 1, k))[i] = s[k + 1 - i]
<1> DEFINE p == SubSeq(s, 1, k)
<1>1. p \in Seq(X) /\ Len(p) = k /\ DOMAIN p = 1..k /\ \A i \in 1..k : p[i] = s[i]
  OBVIOUS
<1> HIDE DEF p
<1>2. Backwards(p) = [i \in 1..k |-> p[k + 1 - i]]
  BY <1>1 DEF Backwards
<1>3. \A i \in 1..k : k + 1 - i \in 1..k /\ p[k + 1 - i] = s[k + 1 - i] /\ p[k + 1 - i] \in X
  BY <1>1
<1>4. Backwards(p) \in Seq(X) /\ Len(Backwards(p)) = k /\ DOMAIN Backwards(p) = 1..k
  BY <1>2, <1>3
<1>5. \A i \in 1..k : Backwards(p)[i] = s[k + 1 - i]
  BY <1>2, <1>3
<1> QED BY <1>1, <1>4, <1>5 DEF p

\* One canonical update, as UpdateIsReplayable describes it.
Replayable(t, b, rev, can, rejoins) ==
    /\ rev # << >> => rev[1] = t.tip
    /\ \A i \in 1..(Len(rev) - 1) : Parent[rev[i]] = rev[i + 1]
    /\ can # << >> /\ can[Len(can)] = b
    /\ \A i \in 1..(Len(can) - 1) : Parent[can[i + 1]] = can[i]
    /\ \A i \in DOMAIN rev : \E j \in DOMAIN can : Number[can[j]] = Number[rev[i]]
    /\ rejoins /\ rev # << >> => Parent[rev[Len(rev)]] = Parent[can[1]]

LEMMA ReplacesIsReplayable ==
    ASSUME NEW t, TreeInv(t), NEW b \in Block, NEW up,
           NEW j \in Nat, NEW k \in Nat, Replaces(t, b, up, j, k)
    PROVE  Replayable(t, b, up.reverted, up.canonicalized, up.rejoins)
<1> DEFINE chain == CanonicalIter(t)
           nodes == t.nodes \cup {b}
           branch == Walk(nodes, b)
           rev == up.reverted
           can == up.canonicalized
<1>1. /\ j \in 0..Len(chain) /\ k \in 1..Len(branch)
      /\ rev = SubSeq(chain, 1, j) /\ can = Backwards(SubSeq(branch, 1, k))
      /\ t.tip # NoBlock => Number[t.tip] - j = Number[b] - k /\ j <= k
      /\ up.rejoins /\ t.tip # NoBlock => j < Len(chain)
      /\ up.rejoins => /\ Len(chain) - j = Len(branch) - k
                       /\ \A i \in 1..(Len(chain) - j) : chain[j + i] = branch[k + i]
  BY DEF Replaces
<1>2. nodes \in SUBSET Block /\ b \in nodes
  BY DEF TreeInv, Tree
<1>3. Descends(branch, nodes, b)
  BY <1>2, WalkExists, WalkShape
<1>4. chain \in Seq(Block)
  <2>1. CASE t.tip = NoBlock
    BY <2>1 DEF CanonicalIter
  <2>2. CASE t.tip # NoBlock
    BY <2>2, ChainIsWalk DEF Descends
  <2> QED BY <2>1, <2>2
<1> HIDE DEF chain, nodes, branch
<1>5. branch \in Seq(Block) /\ Len(branch) \in Nat /\ k \in 0..Len(branch) /\ k >= 1
  BY <1>1, <1>3 DEF Descends
<1>6. /\ rev \in Seq(Block) /\ Len(rev) = j /\ \A i \in 1..j : rev[i] = chain[i]
      /\ can \in Seq(Block) /\ Len(can) = k /\ \A i \in 1..k : can[i] = branch[k + 1 - i]
      /\ DOMAIN rev = 1..j /\ DOMAIN can = 1..k
  <2>1. LET p == SubSeq(chain, 1, j)
        IN p \in Seq(Block) /\ Len(p) = j /\ DOMAIN p = 1..j /\ \A i \in 1..j : p[i] = chain[i]
    BY <1>1, <1>4, Reversed
  <2>2. LET p == Backwards(SubSeq(branch, 1, k))
        IN /\ p \in Seq(Block) /\ Len(p) = k /\ DOMAIN p = 1..k
           /\ \A i \in 1..k : p[i] = branch[k + 1 - i]
    BY <1>5, Reversed
  <2> QED BY <1>1, <2>1, <2>2
<1> HIDE DEF rev, can
<1>7. can # << >> /\ can[Len(can)] = b
  <2>1. can[k] = branch[k + 1 - k] /\ k + 1 - k = 1 /\ Len(can) # 0
    BY <1>5, <1>6
  <2> QED BY <1>3, <1>6, <2>1 DEF Descends
<1>8. \A i \in 1..(Len(can) - 1) : Parent[can[i + 1]] = can[i]
  <2> SUFFICES ASSUME NEW i \in 1..(k - 1) PROVE Parent[can[i + 1]] = can[i]
    BY <1>6
  <2> DEFINE n == k + 1 - (i + 1)
  <2>1. /\ i \in 1..k /\ i + 1 \in 1..k /\ n + 1 = k + 1 - i
        /\ n \in 1..(Len(branch) - 1)
    BY <1>5
  <2>2. can[i + 1] = branch[n] /\ can[i] = branch[n + 1]
    BY <1>6, <2>1
  <2> HIDE DEF n
  <2> QED BY <1>3, <2>1, <2>2 DEF Descends
<1>9. CASE j = 0
  <2>1. rev = << >> /\ Len(rev) = 0 /\ DOMAIN rev = {}
    BY <1>6, <1>9
  <2> QED BY <1>7, <1>8, <2>1 DEF Replayable, rev, can
<1>10. CASE j # 0
  <2>1. t.tip # NoBlock
    <3> SUFFICES ASSUME t.tip = NoBlock PROVE FALSE
      OBVIOUS
    <3>1. chain = << >> /\ Len(chain) = 0
      BY DEF CanonicalIter, chain
    <3> QED BY <1>1, <1>10, <3>1
  <2>2. Descends(chain, t.nodes, t.tip) /\ t.tip \in Block
    BY <2>1, ChainIsWalk DEF chain
  <2>3. j \in 1..Len(chain) /\ j >= 1 /\ Len(chain) \in Nat
    BY <1>1, <1>4, <1>10
  <2>4. rev[1] = t.tip
    BY <1>6, <2>2, <2>3 DEF Descends
  <2>5. \A i \in 1..(Len(rev) - 1) : Parent[rev[i]] = rev[i + 1]
    <3> SUFFICES ASSUME NEW i \in 1..(j - 1) PROVE Parent[rev[i]] = rev[i + 1]
      BY <1>6
    <3>1. i \in 1..j /\ i + 1 \in 1..j /\ i \in 1..(Len(chain) - 1)
      BY <2>3
    <3> QED BY <1>6, <2>2, <3>1 DEF Descends
  <2>6. \A i \in DOMAIN rev : \E m \in DOMAIN can : Number[can[m]] = Number[rev[i]]
    <3> SUFFICES ASSUME NEW i \in 1..j
                 PROVE  \E m \in 1..k : Number[can[m]] = Number[rev[i]]
      BY <1>6
    <3> DEFINE m == j - i + 1
               n == k + 1 - m
    <3>1. /\ Number[b] \in Nat /\ Number[t.tip] \in Nat
          /\ Number[t.tip] - j = Number[b] - k /\ j <= k
      BY <1>1, <2>1, <2>2, BlockAssumption
    <3>2. i \in 1..Len(chain) /\ Number[chain[i]] = Number[t.tip] - (i - 1)
      BY <2>2, <2>3 DEF Descends
    <3>3. /\ m \in 1..k /\ n \in 1..Len(branch) /\ k + 1 - m = n
          /\ Number[t.tip] - (i - 1) = Number[b] - (n - 1)
      <4>1. i \in Nat /\ i >= 1 /\ i <= j /\ k <= Len(branch) /\ Len(branch) \in Nat
        BY <1>5, <2>3
      <4>2. m \in 1..k /\ n \in 1..Len(branch) /\ k + 1 - m = n /\ n = (k - j) + i
        BY <3>1, <4>1
      <4>3. Number[t.tip] = (Number[b] - k) + j
        BY <3>1
      <4> HIDE DEF m, n
      <4> QED BY <3>1, <4>1, <4>2, <4>3
    <3> HIDE DEF m, n
    <3>4. can[m] = branch[n] /\ rev[i] = chain[i]
      BY <1>6, <3>3
    <3>5. Number[branch[n]] = Number[b] - (n - 1)
      BY <1>3, <3>3 DEF Descends
    <3> QED BY <3>2, <3>3, <3>4, <3>5
  <2>7. ASSUME up.rejoins PROVE Parent[rev[Len(rev)]] = Parent[can[1]]
    <3>1. j < Len(chain) /\ chain[j + 1] = branch[k + 1] /\ Len(chain) - j = Len(branch) - k
      <4>1. j < Len(chain)
        BY <1>1, <2>1, <2>7
      <4>2. 1 \in 1..(Len(chain) - j)
        BY <2>3, <4>1
      <4> QED BY <1>1, <2>7, <4>1, <4>2
    <3>2. j \in 1..(Len(chain) - 1) /\ k \in 1..(Len(branch) - 1)
      BY <1>5, <2>3, <3>1
    <3>3. Parent[chain[j]] = chain[j + 1] /\ Parent[branch[k]] = branch[k + 1]
      BY <1>3, <2>2, <3>2 DEF Descends
    <3>4. rev[Len(rev)] = chain[j] /\ can[1] = branch[k]
      <4>1. k + 1 - 1 = k /\ 1 \in 1..k /\ j \in 1..j
        BY <1>5, <2>3
      <4> QED BY <1>6, <4>1
    <3> QED BY <3>1, <3>3, <3>4
  <2> QED BY <1>7, <1>8, <2>4, <2>5, <2>6, <2>7 DEF Replayable, rev, can
<1> QED BY <1>9, <1>10

\* What finalize declares: canonical blocks above the old floor and not above
\* the new one, ascending and without a gap.
LEMMA NewlyFinal ==
    ASSUME NEW t, TreeInv(t), NEW f \in Block
    PROVE  LET new == Finalize(t, f).newly
           IN /\ new \in Seq(Block) /\ DOMAIN new = 1..Len(new)
              /\ \A i \in 1..Len(new) :
                    /\ new[i] \in Canonical(t)
                    /\ Number[new[i]] <= FinalFloor(t, f)
                    /\ t.finalized # NoBlock => Number[new[i]] > Number[t.finalized]
              /\ \A i \in 1..(Len(new) - 1) : Parent[new[i + 1]] = new[i]
<1> DEFINE chain == CanonicalIter(t)
           crossed == {b \in t.nodes :
                         /\ Number[b] <= FinalFloor(t, f)
                         /\ t.finalized = NoBlock \/ Number[b] > Number[t.finalized]}
           q == Sift(chain, crossed)
           new == Backwards(q)
<1>1. Finalize(t, f).newly = new
  BY DEF Finalize
<1>2. /\ chain \in Seq(Block) /\ Len(chain) \in Nat
      /\ \A i \in 1..Len(chain) : chain[i] \in Canonical(t) /\ chain[i] \in t.nodes
      /\ \A i, j \in 1..Len(chain) : i <= j => Number[chain[j]] <= Number[chain[i]]
      /\ \A i \in 1..(Len(chain) - 1) : Parent[chain[i]] = chain[i + 1]
  <2>1. CASE t.tip = NoBlock
    <3>1. chain = << >> /\ Len(chain) = 0
      BY <2>1 DEF CanonicalIter
    <3> QED BY <3>1
  <2>2. CASE t.tip # NoBlock
    <3>1. Descends(chain, t.nodes, t.tip) /\ t.tip \in Block
      BY <2>2, ChainIsWalk
    <3>2. Number[t.tip] \in Nat
      BY <3>1, BlockAssumption
    <3>3. \A i \in 1..Len(chain) : chain[i] \in Canonical(t) /\ chain[i] \in t.nodes
      BY <3>1 DEF Canonical, Descends
    <3> HIDE DEF chain
    <3> QED BY <3>1, <3>2, <3>3 DEF Descends
  <2> QED BY <2>1, <2>2
<1>3. /\ FinalFloor(t, f) \in Nat
      /\ t.finalized # NoBlock => Number[t.finalized] \in Nat
      /\ \A i \in 1..Len(chain) : Number[chain[i]] \in Nat
  BY <1>2, BlockAssumption DEF FinalFloor, TreeInv, Tree
<1> HIDE DEF chain
<1>4. ASSUME NEW a \in 1..Len(chain), NEW c \in 1..Len(chain),
             chain[a] \in crossed, chain[c] \in crossed, NEW m \in a..c
      PROVE  chain[m] \in crossed
  <2>1. m \in 1..Len(chain) /\ a <= m /\ m <= c
    BY <1>2
  <2>2. Number[chain[m]] <= Number[chain[a]] /\ Number[chain[c]] <= Number[chain[m]]
    BY <1>2, <2>1
  <2> QED BY <1>2, <1>3, <1>4, <2>1, <2>2
<1> HIDE DEF crossed
<1>5. q \in Seq(Block) /\ Len(q) \in Nat
  BY <1>2, SiftType
<1>6. PICK e : Picks(e, q, chain, crossed, Len(chain))
  BY <1>2, SiftPicks
<1>7. ASSUME NEW i \in 1..(Len(q) - 1) PROVE Parent[q[i]] = q[i + 1]
  <2>1. PICK m \in 1..(Len(chain) - 1) : q[i] = chain[m] /\ q[i + 1] = chain[m + 1]
    <3>1. NoGap(chain, crossed)
      BY <1>4 DEF NoGap
    <3> QED BY <1>2, <3>1, SiftRun
  <2> QED BY <1>2, <2>1
<1> HIDE DEF q
<1>8. /\ new \in Seq(Block) /\ Len(new) = Len(q) /\ DOMAIN new = 1..Len(q)
      /\ \A i \in 1..Len(q) : new[i] = q[Len(q) + 1 - i]
  BY <1>5, BackwardsShape
<1>9. \A i \in 1..Len(q) : q[i] \in crossed /\ q[i] \in Canonical(t)
  BY <1>2, <1>6 DEF Picks
<1> HIDE DEF new
<1>10. ASSUME NEW i \in 1..Len(new)
       PROVE  /\ new[i] \in Canonical(t)
              /\ Number[new[i]] <= FinalFloor(t, f)
              /\ t.finalized # NoBlock => Number[new[i]] > Number[t.finalized]
  <2>1. Len(q) + 1 - i \in 1..Len(q) /\ new[i] = q[Len(q) + 1 - i]
    BY <1>5, <1>8
  <2> QED BY <1>9, <2>1 DEF crossed
<1>11. ASSUME NEW i \in 1..(Len(new) - 1) PROVE Parent[new[i + 1]] = new[i]
  <2> DEFINE m == Len(q) - i
  <2>1. /\ m \in 1..(Len(q) - 1) /\ i \in 1..Len(q) /\ i + 1 \in 1..Len(q)
        /\ Len(q) + 1 - i = m + 1 /\ Len(q) + 1 - (i + 1) = m
    <3>1. i \in Nat /\ i >= 1 /\ i <= Len(q) - 1
      BY <1>5, <1>8
    <3> QED BY <1>5, <3>1
  <2>2. new[i] = q[m + 1] /\ new[i + 1] = q[m]
    BY <1>8, <2>1
  <2> HIDE DEF m
  <2> QED BY <1>7, <2>1, <2>2
<1> QED BY <1>1, <1>8, <1>10, <1>11

-----------------------------------------------------------------------------
(***************************************************************************)
(* The theorems.                                                           *)
(***************************************************************************)

\* The strengthening is inductive, whatever heads and finalized tags the
\* source serves (tree.rs add_block and finalize).
THEOREM TreeInvariant == CallsSpec => []TreeInv(blockTree)
<1>1. CallsInit => TreeInv(blockTree)
  BY EmptyTreeInv DEF CallsInit
<1>2. TreeInv(blockTree) /\ [CallsNext]_callVars => TreeInv(blockTree)'
  <2> SUFFICES ASSUME TreeInv(blockTree), [CallsNext]_callVars PROVE TreeInv(blockTree')
    BY DEF TreeInv, Beats, RootsLowest
  <2>1. ASSUME NEW b \in Block, CallAddBlock(b) PROVE TreeInv(blockTree')
    BY <2>1, AddBlockInv DEF CallAddBlock
  <2>2. ASSUME NEW f \in Block, CallFinalize(f) PROVE TreeInv(blockTree')
    BY <2>2, FinalizeInv DEF CallFinalize
  <2>3. CASE UNCHANGED callVars
    BY <2>3 DEF callVars
  <2> QED
    BY <2>1, <2>2, <2>3 DEF CallsNext
<1> QED
  BY <1>1, <1>2, PTL DEF CallsSpec

\* The tree keeps its type.
THEOREM TreeTypeCorrect == CallsSpec => []TreeTypeOK
<1>1. TreeInv(blockTree) => TreeTypeOK
  BY DEF TreeInv, TreeTypeOK
<1> QED BY <1>1, TreeInvariant, PTL

\* canonical_tip never dangles: no pruning ever drops the tip.
THEOREM TipNeverDangles == CallsSpec => []TipPresent
<1>1. TreeInv(blockTree) => TipPresent
  BY DEF TreeInv, TipPresent
<1> QED BY <1>1, TreeInvariant, PTL

\* Fork choice never forgets a better block: the tip beats all that is held.
THEOREM TipAlwaysBest == CallsSpec => []TipIsBest
<1>1. TreeInv(blockTree) => TipIsBest
  <2> SUFFICES ASSUME TreeInv(blockTree), NEW b \in blockTree.nodes
               PROVE  \/ Number[b] < Number[blockTree.tip]
                      \/ /\ Number[b] = Number[blockTree.tip]
                         /\ blockTree.seq[b] <= blockTree.seq[blockTree.tip]
    BY DEF TipIsBest
  <2>1. blockTree.tip # NoBlock /\ blockTree.tip \in blockTree.nodes
    BY DEF TreeInv
  <2>2. /\ Number[b] \in Nat /\ Number[blockTree.tip] \in Nat
        /\ blockTree.seq[b] \in Nat /\ blockTree.seq[blockTree.tip] \in Nat
    BY <2>1, BlockAssumption DEF TreeInv, Tree
  <2>3. b = blockTree.tip \/ ~Beats(blockTree, b)
    BY DEF TreeInv
  <2> QED
    BY <2>1, <2>2, <2>3 DEF Beats
<1> QED BY <1>1, TreeInvariant, PTL

\* The memory backstop works: no block further than Depth below the tip.
THEOREM HeightsBounded == CallsSpec => []BoundedHeights
<1>1. TreeInv(blockTree) => BoundedHeights
  BY DEF TreeInv, BoundedHeights
<1> QED BY <1>1, TreeInvariant, PTL

\* Every canonical update can be replayed: what add_block reports as reverted
\* and canonicalized are two chains over the same heights, the first read down
\* from the old tip, the second up to the new one (tree.rs reorg_to).
THEOREM UpdatesReplayable == CallsSpec => UpdateIsReplayable
<1> DEFINE Swap(rev, can, rejoins) ==
               /\ rev # << >> => rev[1] = blockTree.tip
               /\ \A i \in 1..(Len(rev) - 1) : Parent[rev[i]] = rev[i + 1]
               /\ can # << >> /\ can[Len(can)] = blockTree'.tip
               /\ \A i \in 1..(Len(can) - 1) : Parent[can[i + 1]] = can[i]
               /\ \A i \in DOMAIN rev :
                    \E j \in DOMAIN can : Number[can[j]] = Number[rev[i]]
               /\ rejoins /\ rev # << >> => Parent[rev[Len(rev)]] = Parent[can[1]]
           A == update'.kind = "Canonical" =>
                    Swap(update'.reverted, update'.canonicalized, update'.rejoins)
<1>1. TreeInv(blockTree) /\ [CallsNext]_callVars => [A]_callVars
  <2> SUFFICES ASSUME TreeInv(blockTree), CallsNext, update'.kind = "Canonical"
               PROVE  Swap(update'.reverted, update'.canonicalized, update'.rejoins)
    OBVIOUS
  <2>1. ASSUME NEW b \in Block, CallAddBlock(b)
        PROVE  Swap(update'.reverted, update'.canonicalized, update'.rejoins)
    <3> DEFINE r == AddBlock(blockTree, b)
               ins == Insert(blockTree, b)
               up == ReorgTo(ins, b)
    <3>1. blockTree' = r.tree /\ update' = [r EXCEPT !.tree = EmptyTree]
      BY <2>1 DEF CallAddBlock
    <3>3. /\ update'.kind = r.kind /\ update'.reverted = r.reverted
          /\ update'.canonicalized = r.canonicalized /\ update'.rejoins = r.rejoins
      BY <3>1, AddBlockUpdate
    <3> HIDE DEF r
    <3>4. /\ b \notin blockTree.nodes
          /\ blockTree.nodes # {} => Parent[b] \in blockTree.nodes
          /\ Beats(ins, b)
          /\ r.tree = PruneToDepth([ins EXCEPT !.tip = b])
          /\ r.reverted = up.reverted /\ r.canonicalized = up.canonicalized
          /\ r.rejoins = up.rejoins
      BY <3>3, AddBlockReturns DEF r
    <3>5. blockTree'.tip = b
      <4>1. ins \in Tree
        BY <3>4, InsertFields
      <4>2. [ins EXCEPT !.tip = b].tip = b
        BY <4>1 DEF Tree
      <4> QED BY <3>1, <3>4, <4>1, <4>2 DEF PruneToDepth, PruneBelow, Tree
    <3>6. PICK j, k \in Nat : Replaces(blockTree, b, up, j, k)
      BY <3>4, ReorgReplaces
    <3> HIDE DEF up
    <3>7. Replayable(blockTree, b, up.reverted, up.canonicalized, up.rejoins)
      BY <3>6, ReplacesIsReplayable
    <3> QED BY <3>3, <3>4, <3>5, <3>7 DEF Replayable
  <2>2. ASSUME NEW f \in Block, CallFinalize(f) PROVE FALSE
    BY <2>2 DEF CallFinalize, NoChange
  <2> QED BY <2>1, <2>2 DEF CallsNext
<1>2. UpdateIsReplayable <=> [][A]_callVars
  BY DEF UpdateIsReplayable
<1> HIDE DEF A
<1> QED BY <1>1, <1>2, TreeInvariant, PTL DEF CallsSpec

\* While the finalized tag does not go back, the floor follows what was
\* declared: nothing declared is above it, nothing held is below it.
FloorInv ==
    /\ declared \subseteq Block
    /\ declared # {} => blockTree.finalized # NoBlock
    /\ blockTree.finalized # NoBlock =>
          /\ \A d \in declared : Number[d] <= Number[blockTree.finalized]
          /\ \A b \in blockTree.nodes : Number[b] >= Number[blockTree.finalized]

\* What the two calls do to the floor and to the blocks held.
LEMMA AddBlockFloor ==
    ASSUME NEW t, TreeInv(t), NEW b \in Block
    PROVE  LET u == AddBlock(t, b).tree
           IN /\ u.finalized = t.finalized
              /\ u.nodes \subseteq t.nodes \cup {b}
              /\ b \in u.nodes => \/ b \in t.nodes
                                  \/ t.finalized = NoBlock
                                  \/ Number[b] > Number[t.finalized]
<1> DEFINE r == AddBlock(t, b)
           ins == Insert(t, b)
<1>1. CASE r.tree = t
  BY <1>1
<1>2. CASE r.tree # t
  <2>1. /\ r.kind \in {"Fork", "Canonical"} /\ b \notin t.nodes
        /\ ~(t.finalized # NoBlock /\ Number[b] <= Number[t.finalized])
        /\ r.tree = ins \/ r.tree = PruneToDepth([ins EXCEPT !.tip = b])
    BY <1>2, AddBlockReturns
  <2>2. t.finalized # NoBlock => Number[b] > Number[t.finalized]
    BY <2>1, BlockAssumption DEF TreeInv, Tree
  <2>3. ins.finalized = t.finalized /\ ins.nodes = t.nodes \cup {b} /\ ins \in Tree
    <3>1. ins.nodes = t.nodes \cup {b} /\ ins \in Tree
      BY <2>1, InsertFields
    <3>2. ins.finalized = t.finalized
      BY DEF Insert, TreeInv, Tree
    <3> QED BY <3>1, <3>2
  <2>4. LET u == PruneToDepth([ins EXCEPT !.tip = b])
        IN u.finalized = t.finalized /\ u.nodes \subseteq t.nodes \cup {b}
    BY <2>3 DEF PruneToDepth, PruneBelow, Tree
  <2> HIDE DEF r, ins
  <2> QED BY <2>1, <2>2, <2>3, <2>4 DEF r
<1> QED BY <1>1, <1>2

LEMMA FinalizeFloor ==
    ASSUME NEW t, TreeInv(t), NEW f \in Block,
           t.tip # NoBlock, Number[f] <= Number[t.tip]
    PROVE  LET u == Finalize(t, f).tree
           IN /\ u.finalized = f /\ FinalFloor(t, f) = Number[f]
              /\ u.nodes = {b \in t.nodes : Number[b] >= Number[f]}
<1>1. FinalFloor(t, f) = Number[f]
  BY BlockAssumption DEF FinalFloor, TreeInv, Tree
<1>2. Finalize(t, f).tree = PruneBelow([t EXCEPT !.finalized = f], Number[f])
  BY <1>1 DEF Finalize
<1> QED BY <1>1, <1>2 DEF PruneBelow, TreeInv, Tree

\* The floor invariant is inductive.
LEMMA FloorStep ==
    ASSUME FinalityAdvances, TreeInv(blockTree), FloorInv, [CallsNext]_callVars
    PROVE  FloorInv'
<1>0. blockTree.nodes \subseteq Block /\ blockTree.finalized \in Block \cup {NoBlock}
  BY DEF TreeInv, Tree
<1>1. ASSUME NEW b \in Block, CallAddBlock(b) PROVE FloorInv'
  <2>1. blockTree' = AddBlock(blockTree, b).tree /\ declared' = declared
    BY <1>1 DEF CallAddBlock
  <2>2. /\ blockTree'.finalized = blockTree.finalized
        /\ blockTree'.nodes \subseteq blockTree.nodes \cup {b}
        /\ b \in blockTree'.nodes => \/ b \in blockTree.nodes
                                     \/ blockTree.finalized = NoBlock
                                     \/ Number[b] > Number[blockTree.finalized]
    BY <2>1, AddBlockFloor
  <2>3. /\ Number[b] \in Nat
        /\ blockTree.finalized # NoBlock => Number[blockTree.finalized] \in Nat
    BY <1>0, BlockAssumption
  <2> QED BY <2>1, <2>2, <2>3 DEF FloorInv
<1>2. ASSUME NEW f \in Block, CallFinalize(f) PROVE FloorInv'
  <2> DEFINE new == Finalize(blockTree, f).newly
  <2>1. /\ blockTree' = Finalize(blockTree, f).tree
        /\ declared' = declared \cup {new[i] : i \in DOMAIN new}
        /\ blockTree.tip # NoBlock /\ f \in Ancestors(blockTree.tip)
        /\ blockTree.finalized # NoBlock => Number[f] >= Number[blockTree.finalized]
    BY <1>2 DEF CallFinalize, ExpectedFinal
  <2>2. blockTree.tip \in Block /\ Number[f] <= Number[blockTree.tip]
    <3>1. blockTree.tip \in Block
      BY <2>1 DEF TreeInv, Tree
    <3> QED BY <2>1, <3>1, AncestorOrder
  <2>3. /\ blockTree'.finalized = f /\ FinalFloor(blockTree, f) = Number[f]
        /\ blockTree'.nodes = {b \in blockTree.nodes : Number[b] >= Number[f]}
    BY <2>1, <2>2, FinalizeFloor
  <2>4. /\ new \in Seq(Block) /\ DOMAIN new = 1..Len(new)
        /\ \A i \in 1..Len(new) : Number[new[i]] <= FinalFloor(blockTree, f)
    BY NewlyFinal
  <2> HIDE DEF new
  <2>5. f # NoBlock /\ Number[f] \in Nat /\ \A d \in Block : Number[d] \in Nat
    BY BlockAssumption
  <2>6. \A d \in declared : Number[d] <= Number[f]
    BY <1>0, <2>1, <2>5 DEF FloorInv
  <2>7. declared' \subseteq Block /\ \A d \in declared' : Number[d] <= Number[f]
    BY <2>1, <2>3, <2>4, <2>6 DEF FloorInv
  <2> QED BY <2>3, <2>5, <2>7 DEF FloorInv
<1>3. CASE UNCHANGED callVars
  BY <1>3 DEF callVars, FloorInv
<1> QED BY <1>1, <1>2, <1>3 DEF CallsNext

LEMMA FloorInvariant == FinalityAdvances /\ CallsSpec => []FloorInv
<1> SUFFICES ASSUME FinalityAdvances PROVE CallsSpec => []FloorInv
  OBVIOUS
<1>1. CallsInit => FloorInv
  BY DEF CallsInit, FloorInv, EmptyTree
<1>2. TreeInv(blockTree) /\ FloorInv /\ [CallsNext]_callVars => FloorInv'
  BY FloorStep
<1> QED BY <1>1, <1>2, TreeInvariant, PTL DEF CallsSpec

\* As long as the finalized tag does not go back, a declared block is reverted
\* only at the very height of the floor (tree.rs finalize prunes what is below
\* it, add_block refuses what does not rise above it).
THEOREM FinalRevertsAtFloor ==
    FinalityAdvances /\ CallsSpec => FinalRevertedOnlyAtFloor
<1> SUFFICES ASSUME FinalityAdvances PROVE CallsSpec => FinalRevertedOnlyAtFloor
  OBVIOUS
<1> DEFINE A == \A i \in DOMAIN update'.reverted :
                   update'.reverted[i] \in declared =>
                      Number[update'.reverted[i]] = Number[blockTree.finalized]
<1>1. TreeInv(blockTree) /\ FloorInv /\ [CallsNext]_callVars => [A]_callVars
  <2> SUFFICES ASSUME TreeInv(blockTree), FloorInv, CallsNext,
                      NEW i \in DOMAIN update'.reverted, update'.reverted[i] \in declared
               PROVE  Number[update'.reverted[i]] = Number[blockTree.finalized]
    OBVIOUS
  <2>1. ASSUME NEW b \in Block, CallAddBlock(b)
        PROVE  Number[update'.reverted[i]] = Number[blockTree.finalized]
    <3> DEFINE r == AddBlock(blockTree, b)
               ins == Insert(blockTree, b)
               up == ReorgTo(ins, b)
               chain == CanonicalIter(blockTree)
    <3>2. update'.reverted = r.reverted
      <4>1. update' = [r EXCEPT !.tree = EmptyTree]
        BY <2>1 DEF CallAddBlock
      <4> QED BY <4>1, AddBlockUpdate
    <3>3. r.reverted # << >>
      BY <3>2
    <3>4. /\ b \notin blockTree.nodes
          /\ blockTree.nodes # {} => Parent[b] \in blockTree.nodes
          /\ Beats(ins, b) /\ r.reverted = up.reverted
      BY <3>3, AddBlockReturns
    <3>5. PICK j, k \in Nat : Replaces(blockTree, b, up, j, k)
      BY <3>4, ReorgReplaces
    <3>6. r.reverted = SubSeq(chain, 1, j) /\ j \in 0..Len(chain)
      BY <3>4, <3>5 DEF Replaces
    <3>7. blockTree.tip # NoBlock
      <4> SUFFICES ASSUME blockTree.tip = NoBlock PROVE FALSE
        OBVIOUS
      <4>1. chain = << >> /\ Len(chain) = 0
        BY DEF CanonicalIter
      <4> HIDE DEF chain, r
      <4> QED BY <3>3, <3>6, <4>1
    <3>8. Descends(chain, blockTree.nodes, blockTree.tip)
      BY <3>7, ChainIsWalk
    <3>9. chain \in Seq(Block) /\ \A n \in 1..Len(chain) : chain[n] \in blockTree.nodes
      BY <3>8 DEF Descends
    <3> HIDE DEF chain, r
    <3>10. i \in 1..Len(chain) /\ update'.reverted[i] = chain[i]
      BY <3>2, <3>6, <3>9
    <3> DEFINE d == update'.reverted[i]
    <3>11. d \in blockTree.nodes /\ d \in declared /\ d \in Block
      BY <3>9, <3>10
    <3> HIDE DEF d
    <3>12. /\ blockTree.finalized # NoBlock
           /\ Number[d] <= Number[blockTree.finalized]
           /\ Number[d] >= Number[blockTree.finalized]
      BY <3>11 DEF FloorInv
    <3>13. Number[d] \in Nat /\ Number[blockTree.finalized] \in Nat
      BY <3>11, <3>12, BlockAssumption DEF TreeInv, Tree
    <3> QED BY <3>12, <3>13 DEF d
  <2>2. ASSUME NEW f \in Block, CallFinalize(f) PROVE FALSE
    <3>1. update'.reverted = << >>
      BY <2>2 DEF CallFinalize, NoChange
    <3> QED BY <3>1
  <2> QED BY <2>1, <2>2 DEF CallsNext
<1>2. FinalRevertedOnlyAtFloor <=> [][A]_callVars
  BY DEF FinalRevertedOnlyAtFloor
<1> HIDE DEF A
<1> QED BY <1>1, <1>2, TreeInvariant, FloorInvariant, PTL DEF CallsSpec

\* As long as the finalized tag does not go back, finalize declares each block
\* once and the blocks of one call are a chain, oldest first.
THEOREM DeclaredOnce == FinalityAdvances /\ CallsSpec => FinalizedOnce
<1> SUFFICES ASSUME FinalityAdvances PROVE CallsSpec => FinalizedOnce
  OBVIOUS
<1> DEFINE Once(new) == /\ \A i \in DOMAIN new : new[i] \notin declared
                        /\ \A i \in 1..(Len(new) - 1) : Parent[new[i + 1]] = new[i]
           A == update'.kind = "Finalized" => Once(update'.canonicalized)
<1>1. TreeInv(blockTree) /\ FloorInv /\ [CallsNext]_callVars => [A]_callVars
  <2> SUFFICES ASSUME TreeInv(blockTree), FloorInv, CallsNext,
                      update'.kind = "Finalized"
               PROVE  Once(update'.canonicalized)
    OBVIOUS
  <2>1. ASSUME NEW b \in Block, CallAddBlock(b) PROVE FALSE
    <3> DEFINE r == AddBlock(blockTree, b)
    <3>1. r.kind # "Finalized"
      BY AddBlockReturns
    <3>2. update' = [r EXCEPT !.tree = EmptyTree]
      BY <2>1 DEF CallAddBlock
    <3>3. update'.kind = r.kind
      BY <3>2, AddBlockUpdate
    <3> QED BY <3>1, <3>3
  <2>2. ASSUME NEW f \in Block, CallFinalize(f) PROVE Once(update'.canonicalized)
    <3> DEFINE new == Finalize(blockTree, f).newly
    <3>1. update'.canonicalized = new
      BY <2>2 DEF CallFinalize, NoChange
    <3>2. /\ new \in Seq(Block) /\ DOMAIN new = 1..Len(new)
          /\ \A i \in 1..Len(new) :
                blockTree.finalized # NoBlock => Number[new[i]] > Number[blockTree.finalized]
          /\ \A i \in 1..(Len(new) - 1) : Parent[new[i + 1]] = new[i]
      BY NewlyFinal
    <3> HIDE DEF new
    <3>3. ASSUME NEW i \in 1..Len(new), new[i] \in declared PROVE FALSE
      <4>1. /\ blockTree.finalized # NoBlock
            /\ Number[new[i]] > Number[blockTree.finalized]
            /\ Number[new[i]] <= Number[blockTree.finalized]
        BY <3>2, <3>3 DEF FloorInv
      <4>2. Number[new[i]] \in Nat /\ Number[blockTree.finalized] \in Nat
        BY <3>2, <4>1, BlockAssumption DEF TreeInv, Tree
      <4> QED BY <4>1, <4>2
    <3> QED BY <3>1, <3>2, <3>3
  <2> QED BY <2>1, <2>2 DEF CallsNext
<1>2. FinalizedOnce <=> [][A]_callVars
  BY DEF FinalizedOnce
<1> HIDE DEF A
<1> QED BY <1>1, <1>2, TreeInvariant, FloorInvariant, PTL DEF CallsSpec
==============================================================================
