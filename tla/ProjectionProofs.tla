--------------------------- MODULE ProjectionProofs ---------------------------
(***************************************************************************)
(* Proofs about the bounded map, and about the incident read model that is *)
(* built on it, for every capacity, any events and logs, any interleaving  *)
(* of the partitions and any number of faults, rebalances and restarts.    *)
(***************************************************************************)
EXTENDS ProjectionConsumer, BoundedMapCalls, TLAPS, FiniteSetTheorems, WellFoundedInduction

-----------------------------------------------------------------------------
(***************************************************************************)
(* Induction and recursive functions on the naturals.                      *)
(***************************************************************************)

\* Induction over the naturals, with the property as a set.
LEMMA Induction ==
    ASSUME NEW S, 0 \in S, \A n \in Nat : n \in S => n + 1 \in S
    PROVE  Nat \subseteq S
<1> DEFINE T == Nat \ S
<1> SUFFICES ASSUME T # {} PROVE FALSE
  OBVIOUS
<1>1. PICK i \in T : \A j \in T : ~(<<j, i>> \in OpToRel(<, Nat))
  <2>1. T \subseteq Nat
    OBVIOUS
  <2> HIDE DEF T
  <2> QED BY <2>1, WFMin, NatLessThanWellFounded
<1>2. \A j \in T : ~(j < i)
  BY <1>1 DEF OpToRel
<1>3. i \in Nat /\ i # 0 /\ i - 1 \in Nat
  OBVIOUS
<1>4. i - 1 \in S
  BY <1>2, <1>3
<1>5. (i - 1) + 1 \in S
  BY <1>3, <1>4
<1> QED BY <1>3, <1>5

\* f is a iterated along step.
Iterates(f, a, step) ==
    f[0] = a /\ \A n \in Nat : f[n + 1] = step[<<n, f[n]>>]

\* A value iterated n times along step: what a recursive function on the
\* naturals defines.
LEMMA Iteration ==
    ASSUME NEW X, NEW a \in X, NEW step \in [Nat \X X -> X]
    PROVE  \E f \in [Nat -> X] : Iterates(f, a, step)
<1> DEFINE Good(n, h) == /\ h \in [0..n -> X]
                         /\ h[0] = a
                         /\ \A k \in 0..(n - 1) : h[k + 1] = step[<<k, h[k]>>]
           S == {n \in Nat : \E h : Good(n, h)}
           A == {k \in Nat : \A m, n \in Nat : \A g, h :
                    Good(m, g) /\ Good(n, h) /\ k <= m /\ k <= n => g[k] = h[k]}
<1>1. Nat \subseteq S
  <2>1. 0 \in S
    <3>1. Good(0, [k \in 0..0 |-> a])
      OBVIOUS
    <3> QED BY <3>1
  <2>2. ASSUME NEW n \in Nat, n \in S PROVE n + 1 \in S
    <3>1. PICK h : Good(n, h)
      BY <2>2
    <3> DEFINE g == [k \in 0..(n + 1) |->
                        IF k = n + 1 THEN step[<<n, h[n]>>] ELSE h[k]]
    <3>2. h[n] \in X /\ step[<<n, h[n]>>] \in X
      BY <3>1
    <3>3. g \in [0..(n + 1) -> X]
      BY <3>1, <3>2
    <3>4. g[0] = a
      BY <3>1
    <3>5. ASSUME NEW k \in 0..n PROVE g[k + 1] = step[<<k, g[k]>>]
      <4>1. CASE k = n
        <5>1. g[n + 1] = step[<<n, h[n]>>] /\ g[n] = h[n]
          OBVIOUS
        <5> QED BY <4>1, <5>1
      <4>2. CASE k # n
        BY <3>1, <4>2
      <4> QED BY <4>1, <4>2
    <3>6. Good(n + 1, g)
      <4>1. (n + 1) - 1 = n
        OBVIOUS
      <4> HIDE DEF g
      <4> QED BY <3>3, <3>4, <3>5, <4>1
    <3> HIDE DEF g, Good
    <3> QED BY <3>6
  <2> HIDE DEF S
  <2> QED BY <2>1, <2>2, Induction
<1>2. Nat \subseteq A
  <2>1. 0 \in A
    OBVIOUS
  <2>2. ASSUME NEW k \in Nat, k \in A PROVE k + 1 \in A
    <3> SUFFICES ASSUME NEW m \in Nat, NEW n \in Nat, NEW g, NEW h,
                        Good(m, g), Good(n, h), k + 1 <= m, k + 1 <= n
                 PROVE  g[k + 1] = h[k + 1]
      OBVIOUS
    <3>1. g[k] = h[k]
      BY <2>2
    <3>2. k \in 0..(m - 1) /\ k \in 0..(n - 1)
      OBVIOUS
    <3> QED BY <3>1, <3>2
  <2> HIDE DEF A
  <2> QED BY <2>1, <2>2, Induction
<1> DEFINE H(n) == CHOOSE h : Good(n, h)
           f == [n \in Nat |-> H(n)[n]]
<1>3. \A n \in Nat : Good(n, H(n))
  <2> SUFFICES ASSUME NEW n \in Nat PROVE Good(n, H(n))
    OBVIOUS
  <2>1. \E h : Good(n, h)
    BY <1>1
  <2> HIDE DEF Good
  <2> QED BY <2>1
<1>4. \A n \in Nat : f[n] \in X
  <2> HIDE DEF H
  <2> QED BY <1>3
<1>5. f[0] = a
  <2> HIDE DEF H
  <2> QED BY <1>3
<1>6. ASSUME NEW n \in Nat PROVE f[n + 1] = step[<<n, f[n]>>]
  <2>1. Good(n, H(n)) /\ Good(n + 1, H(n + 1))
    <3> HIDE DEF Good, H
    <3> QED BY <1>3
  <2>2. H(n + 1)[n] = H(n)[n]
    <3> HIDE DEF H, Good
    <3>1. n \in A /\ n + 1 \in Nat /\ n <= n + 1 /\ n <= n
      BY <1>2
    <3> QED BY <2>1, <3>1
  <2>3. H(n + 1)[n + 1] = step[<<n, H(n + 1)[n]>>]
    <3> HIDE DEF H
    <3>1. n \in 0..((n + 1) - 1)
      OBVIOUS
    <3> QED BY <2>1, <3>1
  <2> HIDE DEF H
  <2> QED BY <2>2, <2>3
<1> HIDE DEF H
<1> QED BY <1>4, <1>5, <1>6 DEF Iterates

\* g is what a recursive definition on the naturals defines.
Solves(g, a, step) ==
    g = [n \in Nat |-> IF n = 0 THEN a ELSE step[<<n - 1, g[n - 1]>>]]

LEMMA Recursion ==
    ASSUME NEW X, NEW a \in X, NEW step \in [Nat \X X -> X]
    PROVE  \E g \in [Nat -> X] : Solves(g, a, step)
<1>1. PICK g \in [Nat -> X] : Iterates(g, a, step)
  BY Iteration
<1>2. ASSUME NEW n \in Nat
      PROVE  g[n] = IF n = 0 THEN a ELSE step[<<n - 1, g[n - 1]>>]
  <2>1. CASE n = 0
    BY <1>1, <2>1 DEF Iterates
  <2>2. CASE n # 0
    <3> DEFINE k == n - 1
    <3>1. k \in Nat /\ n = k + 1
      BY <2>2
    <3> HIDE DEF k
    <3>2. g[k + 1] = step[<<k, g[k]>>]
      BY <1>1, <3>1 DEF Iterates
    <3> QED BY <2>2, <3>1, <3>2 DEF k
  <2> QED BY <2>1, <2>2
<1> QED BY <1>2 DEF Solves

-----------------------------------------------------------------------------
(***************************************************************************)
(* Sequences and what a filter leaves of them.                             *)
(***************************************************************************)
Elems(s) == {s[i] : i \in DOMAIN s}
Distinct(s) == \A i, j \in DOMAIN s : s[i] = s[j] => i = j

\* Induction over sequences, with the property as a set.
LEMMA SeqInduction ==
    ASSUME NEW T, NEW Q, << >> \in Q,
           \A s \in Seq(T), x \in T : s \in Q => Append(s, x) \in Q
    PROVE  Seq(T) \subseteq Q
<1> DEFINE A == {n \in Nat : \A s \in Seq(T) : Len(s) = n => s \in Q}
<1>1. 0 \in A
  <2>1. ASSUME NEW s \in Seq(T), Len(s) = 0 PROVE s = << >>
    BY <2>1
  <2> QED BY <2>1
<1>2. ASSUME NEW n \in Nat, n \in A PROVE n + 1 \in A
  <2> SUFFICES ASSUME NEW s \in Seq(T), Len(s) = n + 1 PROVE s \in Q
    OBVIOUS
  <2> DEFINE t == [i \in 1..n |-> s[i]]
  <2>1. t \in Seq(T) /\ Len(t) = n /\ s[n + 1] \in T /\ \A i \in 1..n : t[i] = s[i]
    OBVIOUS
  <2> HIDE DEF t
  <2>2. Append(t, s[n + 1]) \in Seq(T) /\ Len(Append(t, s[n + 1])) = n + 1
    BY <2>1
  <2>3. \A i \in 1..(n + 1) : Append(t, s[n + 1])[i] = s[i]
    BY <2>1
  <2>4. s = Append(t, s[n + 1])
    BY <2>2, <2>3
  <2>5. t \in Q
    BY <1>2, <2>1
  <2> QED BY <2>1, <2>4, <2>5
<1>3. Nat \subseteq A
  <2> HIDE DEF A
  <2> QED BY <1>1, <1>2, Induction
<1>4. ASSUME NEW s \in Seq(T) PROVE s \in Q
  <2>1. Len(s) \in Nat
    OBVIOUS
  <2> QED BY <1>3, <2>1
<1> QED BY <1>4

LEMMA AppendElems ==
    ASSUME NEW T, NEW s \in Seq(T), NEW x \in T
    PROVE  /\ Append(s, x) \in Seq(T) /\ Len(Append(s, x)) = Len(s) + 1
           /\ Elems(Append(s, x)) = Elems(s) \cup {x}
           /\ Distinct(Append(s, x)) <=> Distinct(s) /\ x \notin Elems(s)
<1> DEFINE t == Append(s, x)
           n == Len(s)
<1>1. /\ t \in Seq(T) /\ n \in Nat /\ DOMAIN s = 1..n /\ DOMAIN t = 1..(n + 1)
      /\ t[n + 1] = x /\ (\A i \in 1..n : t[i] = s[i]) /\ Len(t) = n + 1
  OBVIOUS
<1> HIDE DEF t, n
<1>2. /\ \A i \in 1..(n + 1) : i \in 1..n \/ i = n + 1
      /\ n + 1 \in 1..(n + 1) /\ \A i \in 1..n : i \in 1..(n + 1) /\ i # n + 1
  BY <1>1
<1>3. Elems(t) = Elems(s) \cup {x}
  BY <1>1, <1>2 DEF Elems
<1>4. Distinct(t) <=> Distinct(s) /\ x \notin Elems(s)
  BY <1>1, <1>2 DEF Distinct, Elems
<1> QED BY <1>1, <1>3, <1>4 DEF t, n

LEMMA EmptyElems ==
    ASSUME NEW T, NEW s \in Seq(T)
    PROVE  Elems(s) = {} <=> s = << >>
<1>1. DOMAIN s = 1..Len(s) /\ Len(s) \in Nat
  OBVIOUS
<1>2. s # << >> => 1 \in DOMAIN s
  OBVIOUS
<1>3. DOMAIN << >> = {}
  OBVIOUS
<1> QED BY <1>1, <1>2, <1>3 DEF Elems

\* A sequence without repetitions is as long as it has elements.
LEMMA DistinctLength ==
    ASSUME NEW T
    PROVE  \A s \in Seq(T) : Distinct(s) =>
               IsFiniteSet(Elems(s)) /\ Cardinality(Elems(s)) = Len(s)
<1> DEFINE Good(s) == Distinct(s) => IsFiniteSet(Elems(s)) /\ Cardinality(Elems(s)) = Len(s)
           Q == {s \in Seq(T) : Good(s)}
<1>1. << >> \in Q
  <2>1. << >> \in Seq(T) /\ Len(<< >>) = 0
    OBVIOUS
  <2>2. Elems(<< >>) = {}
    BY <2>1, EmptyElems
  <2> QED BY <2>1, <2>2, FS_EmptySet
<1>2. ASSUME NEW s \in Seq(T), NEW x \in T, s \in Q PROVE Append(s, x) \in Q
  <2>1. /\ Append(s, x) \in Seq(T) /\ Len(Append(s, x)) = Len(s) + 1
        /\ Elems(Append(s, x)) = Elems(s) \cup {x}
        /\ Distinct(Append(s, x)) => Distinct(s) /\ x \notin Elems(s)
    BY AppendElems
  <2>2. ASSUME Distinct(Append(s, x))
        PROVE  IsFiniteSet(Elems(s) \cup {x}) /\ Cardinality(Elems(s) \cup {x}) = Len(s) + 1
    <3>1. IsFiniteSet(Elems(s)) /\ Cardinality(Elems(s)) = Len(s) /\ x \notin Elems(s)
      BY <1>2, <2>1, <2>2
    <3> QED BY <3>1, FS_AddElement
  <2> QED BY <2>1, <2>2
<1>3. Seq(T) \subseteq Q
  <2> HIDE DEF Q
  <2> QED BY <1>1, <1>2, SeqInduction
<1> QED BY <1>3

\* The recursion Sift is defined by has a solution.
LEMMA SiftRecursion ==
    ASSUME NEW s, NEW S
    PROVE  \E f : /\ f[0] = << >>
                  /\ \A n \in Nat :
                        f[n + 1] = IF s[n + 1] \in S THEN Append(f[n], s[n + 1]) ELSE f[n]
                  /\ Sift(s, S) = f[Len(s)]
<1> DEFINE R == {s[m] : m \in Nat}
           X == Seq(R)
           grow(n, q) == IF s[n] \in S THEN Append(q, s[n]) ELSE q
           step == [p \in Nat \X X |-> grow(p[1] + 1, p[2])]
           Eq(g) == g = [n \in Nat |-> IF n = 0 THEN << >> ELSE grow(n, g[n - 1])]
           f == CHOOSE g : Eq(g)
<1>1. << >> \in X /\ \A n \in Nat, q \in X : grow(n, q) \in X
  <2>1. ASSUME NEW n \in Nat, NEW q \in X PROVE grow(n, q) \in X
    <3>1. s[n] \in R
      OBVIOUS
    <3> HIDE DEF R
    <3> QED BY <3>1
  <2> QED BY <2>1
<1> HIDE DEF X, grow
<1>2. step \in [Nat \X X -> X]
  BY <1>1
<1>3. PICK g \in [Nat -> X] : Solves(g, << >>, step)
  <2> HIDE DEF step
  <2> QED BY <1>1, <1>2, Recursion
<1>4. Eq(g)
  <2>1. ASSUME NEW n \in Nat, n # 0 PROVE step[<<n - 1, g[n - 1]>>] = grow(n, g[n - 1])
    <3>1. n - 1 \in Nat /\ (n - 1) + 1 = n
      BY <2>1
    <3> QED BY <1>3, <3>1
  <2> QED BY <1>3, <2>1 DEF Solves
<1>5. Eq(f)
  <2> HIDE DEF Eq
  <2> QED BY <1>4
<1>6. Sift(s, S) = f[Len(s)]
  BY DEF Sift, grow
<1> HIDE DEF f
<1>7. f[0] = << >>
  BY <1>5
<1>8. ASSUME NEW n \in Nat PROVE f[n + 1] = grow(n + 1, f[n])
  <2>1. n + 1 \in Nat /\ n + 1 # 0 /\ (n + 1) - 1 = n
    OBVIOUS
  <2> QED BY <1>5, <2>1
<1> QED BY <1>6, <1>7, <1>8 DEF grow

LEMMA SiftEmpty ==
    ASSUME NEW S
    PROVE  Sift(<< >>, S) = << >>
<1>1. Len(<< >>) = 0
  OBVIOUS
<1> QED BY <1>1, SiftRecursion

LEMMA SiftAppend ==
    ASSUME NEW T, NEW s \in Seq(T), NEW x \in T, NEW S
    PROVE  Sift(Append(s, x), S) = IF x \in S THEN Append(Sift(s, S), x) ELSE Sift(s, S)
<1> DEFINE t == Append(s, x)
           k == Len(s)
<1>1. /\ k \in Nat /\ Len(t) = k + 1 /\ t[k + 1] = x
      /\ \A n \in Nat : n + 1 <= k => t[n + 1] = s[n + 1]
  OBVIOUS
<1> HIDE DEF t
<1>2. PICK f : /\ f[0] = << >>
               /\ \A n \in Nat :
                     f[n + 1] = IF s[n + 1] \in S THEN Append(f[n], s[n + 1]) ELSE f[n]
               /\ Sift(s, S) = f[Len(s)]
  BY SiftRecursion
<1>3. PICK g : /\ g[0] = << >>
               /\ \A n \in Nat :
                     g[n + 1] = IF t[n + 1] \in S THEN Append(g[n], t[n + 1]) ELSE g[n]
               /\ Sift(t, S) = g[Len(t)]
  BY SiftRecursion
<1> HIDE DEF k
<1> DEFINE A == {n \in Nat : n <= k => g[n] = f[n]}
<1>4. 0 \in A
  BY <1>2, <1>3
<1>5. ASSUME NEW n \in Nat, n \in A PROVE n + 1 \in A
  <2> SUFFICES ASSUME n + 1 <= k PROVE g[n + 1] = f[n + 1]
    OBVIOUS
  <2>1. g[n] = f[n]
    BY <1>1, <1>5
  <2>2. t[n + 1] = s[n + 1]
    BY <1>1
  <2>3. f[n + 1] = IF s[n + 1] \in S THEN Append(f[n], s[n + 1]) ELSE f[n]
    BY <1>2
  <2>4. g[n + 1] = IF t[n + 1] \in S THEN Append(g[n], t[n + 1]) ELSE g[n]
    BY <1>3
  <2> QED BY <2>1, <2>2, <2>3, <2>4
<1>6. Nat \subseteq A
  <2> HIDE DEF A
  <2> QED BY <1>4, <1>5, Induction
<1>7. g[k] = f[k]
  BY <1>1, <1>6
<1>8. Sift(t, S) = g[k + 1] /\ Sift(s, S) = f[k]
  BY <1>1, <1>2, <1>3 DEF k
<1>9. g[k + 1] = IF x \in S THEN Append(g[k], x) ELSE g[k]
  BY <1>1, <1>3
<1> QED BY <1>7, <1>8, <1>9 DEF t

\* A filter keeps what belongs to S, once if it was there once.
LEMMA SiftKeeps ==
    ASSUME NEW T, NEW S
    PROVE  \A s \in Seq(T) :
               /\ Sift(s, S) \in Seq(T)
               /\ Elems(Sift(s, S)) = Elems(s) \cap S
               /\ Distinct(s) => Distinct(Sift(s, S))
<1> DEFINE Good(s) == /\ Sift(s, S) \in Seq(T)
                      /\ Elems(Sift(s, S)) = Elems(s) \cap S
                      /\ Distinct(s) => Distinct(Sift(s, S))
           Q == {s \in Seq(T) : Good(s)}
<1>1. << >> \in Q
  <2>1. << >> \in Seq(T)
    OBVIOUS
  <2>2. Elems(<< >>) = {}
    BY <2>1, EmptyElems
  <2> QED BY <2>1, <2>2, SiftEmpty
<1>2. ASSUME NEW s \in Seq(T), NEW x \in T, s \in Q PROVE Append(s, x) \in Q
  <2>1. Good(s)
    BY <1>2
  <2>2. /\ Append(s, x) \in Seq(T)
        /\ Elems(Append(s, x)) = Elems(s) \cup {x}
        /\ Distinct(Append(s, x)) => Distinct(s) /\ x \notin Elems(s)
    BY AppendElems
  <2>3. CASE x \in S
    <3>1. Sift(Append(s, x), S) = Append(Sift(s, S), x)
      BY <2>3, SiftAppend
    <3>2. /\ Append(Sift(s, S), x) \in Seq(T)
          /\ Elems(Append(Sift(s, S), x)) = Elems(Sift(s, S)) \cup {x}
          /\ Distinct(Sift(s, S)) /\ x \notin Elems(Sift(s, S)) => Distinct(Append(Sift(s, S), x))
      BY <2>1, AppendElems
    <3> QED BY <2>1, <2>2, <2>3, <3>1, <3>2
  <2>4. CASE x \notin S
    <3>1. Sift(Append(s, x), S) = Sift(s, S)
      BY <2>4, SiftAppend
    <3> QED BY <2>1, <2>2, <2>4, <3>1
  <2> QED BY <2>3, <2>4
<1>3. Seq(T) \subseteq Q
  <2> HIDE DEF Q
  <2> QED BY <1>1, <1>2, SeqInduction
<1> QED BY <1>3

\* A filter looks only at the elements of its sequence.
LEMMA SiftSame ==
    ASSUME NEW T, NEW S, NEW U
    PROVE  \A s \in Seq(T) : Elems(s) \cap S = Elems(s) \cap U => Sift(s, S) = Sift(s, U)
<1> DEFINE Good(s) == Elems(s) \cap S = Elems(s) \cap U => Sift(s, S) = Sift(s, U)
           Q == {s \in Seq(T) : Good(s)}
<1>1. << >> \in Q
  BY SiftEmpty
<1>2. ASSUME NEW s \in Seq(T), NEW x \in T, s \in Q PROVE Append(s, x) \in Q
  <2>1. Append(s, x) \in Seq(T) /\ Elems(Append(s, x)) = Elems(s) \cup {x}
    BY AppendElems
  <2>2. SUFFICES ASSUME (Elems(s) \cup {x}) \cap S = (Elems(s) \cup {x}) \cap U
                 PROVE  Sift(Append(s, x), S) = Sift(Append(s, x), U)
    BY <2>1
  <2>3. Elems(s) \cap S = Elems(s) \cap U /\ (x \in S <=> x \in U)
    BY <2>2
  <2>4. Sift(s, S) = Sift(s, U)
    BY <1>2, <2>3
  <2>5. Sift(Append(s, x), S) = IF x \in S THEN Append(Sift(s, S), x) ELSE Sift(s, S)
    BY SiftAppend
  <2>6. Sift(Append(s, x), U) = IF x \in U THEN Append(Sift(s, U), x) ELSE Sift(s, U)
    BY SiftAppend
  <2> QED BY <2>3, <2>4, <2>5, <2>6
<1>3. Seq(T) \subseteq Q
  <2> HIDE DEF Q
  <2> QED BY <1>1, <1>2, SeqInduction
<1> QED BY <1>3

\* Two filters, one after the other.
LEMMA SiftTwice ==
    ASSUME NEW T, NEW S, NEW U
    PROVE  \A s \in Seq(T) : Sift(Sift(s, S), U) = Sift(s, S \cap U)
<1> DEFINE Q == {s \in Seq(T) : Sift(Sift(s, S), U) = Sift(s, S \cap U)}
<1>1. << >> \in Q
  BY SiftEmpty
<1>2. ASSUME NEW s \in Seq(T), NEW x \in T, s \in Q PROVE Append(s, x) \in Q
  <2>1. Append(s, x) \in Seq(T)
    BY AppendElems
  <2>2. Sift(s, S) \in Seq(T)
    BY SiftKeeps
  <2>3. Sift(Append(s, x), S) = IF x \in S THEN Append(Sift(s, S), x) ELSE Sift(s, S)
    BY SiftAppend
  <2>4. Sift(Append(Sift(s, S), x), U) =
            IF x \in U THEN Append(Sift(Sift(s, S), U), x) ELSE Sift(Sift(s, S), U)
    BY <2>2, SiftAppend
  <2>5. Sift(Append(s, x), S \cap U) =
            IF x \in S \cap U THEN Append(Sift(s, S \cap U), x) ELSE Sift(s, S \cap U)
    BY SiftAppend
  <2>6. Sift(Sift(s, S), U) = Sift(s, S \cap U)
    BY <1>2
  <2>7. Sift(Sift(Append(s, x), S), U) = Sift(Append(s, x), S \cap U)
    <3>1. CASE x \in S /\ x \in U
      BY <2>3, <2>4, <2>5, <2>6, <3>1
    <3>2. CASE x \in S /\ x \notin U
      BY <2>3, <2>4, <2>5, <2>6, <3>2
    <3>3. CASE x \notin S
      BY <2>3, <2>5, <2>6, <3>3
    <3> QED BY <3>1, <3>2, <3>3
  <2> QED BY <2>1, <2>7
<1>3. Seq(T) \subseteq Q
  <2> HIDE DEF Q
  <2> QED BY <1>1, <1>2, SeqInduction
<1> QED BY <1>3

\* Popping a sequence up to its first element of S is a pop of the filtered
\* sequence.
LEMMA SiftPop ==
    ASSUME NEW T, NEW S
    PROVE  \A s \in Seq(T) : \A o \in 1..Len(s) :
               s[o] \in S /\ (\A j \in 1..(o - 1) : s[j] \notin S) =>
                   /\ Sift(s, S) # << >>
                   /\ Tail(Sift(s, S)) = Sift(SubSeq(s, o + 1, Len(s)), S)
<1> DEFINE First(s, o) == s[o] \in S /\ \A j \in 1..(o - 1) : s[j] \notin S
           Good(s) == \A o \in 1..Len(s) : First(s, o) =>
                        /\ Sift(s, S) # << >>
                        /\ Tail(Sift(s, S)) = Sift(SubSeq(s, o + 1, Len(s)), S)
           Q == {s \in Seq(T) : Good(s)}
<1>1. << >> \in Q
  <2>1. << >> \in Seq(T) /\ 1..Len(<< >>) = {}
    OBVIOUS
  <2> QED BY <2>1
<1>2. ASSUME NEW s \in Seq(T), NEW x \in T, s \in Q PROVE Append(s, x) \in Q
  <2> DEFINE t == Append(s, x)
             n == Len(s)
  <2>1. /\ t \in Seq(T) /\ n \in Nat /\ Len(t) = n + 1 /\ t[n + 1] = x
        /\ \A i \in 1..n : t[i] = s[i]
    OBVIOUS
  <2>2. Sift(t, S) = IF x \in S THEN Append(Sift(s, S), x) ELSE Sift(s, S)
    BY SiftAppend
  <2>3. Sift(s, S) \in Seq(T) /\ Elems(Sift(s, S)) = Elems(s) \cap S
    BY SiftKeeps
  <2>4. ASSUME NEW o \in 1..(n + 1), First(t, o)
        PROVE  /\ Sift(t, S) # << >>
               /\ Tail(Sift(t, S)) = Sift(SubSeq(t, o + 1, n + 1), S)
    <3>1. CASE o \in 1..n
      <4>1. First(s, o)
        <5>1. \A j \in 1..(o - 1) : j \in 1..n
          BY <2>1, <3>1
        <5> QED BY <2>1, <2>4, <3>1, <5>1
      <4>2. Sift(s, S) # << >> /\ Tail(Sift(s, S)) = Sift(SubSeq(s, o + 1, n), S)
        BY <1>2, <3>1, <4>1
      <4>3. SubSeq(s, o + 1, n) \in Seq(T) /\ SubSeq(t, o + 1, n + 1) = Append(SubSeq(s, o + 1, n), x)
        <5> DEFINE u == SubSeq(s, o + 1, n)
                   w == SubSeq(t, o + 1, n + 1)
        <5>1. /\ u \in Seq(T) /\ Len(u) = n - o
              /\ \A i \in 1..(n - o) : u[i] = s[o + i]
          BY <3>1, <2>1
        <5> HIDE DEF t, n
        <5>2. /\ w \in Seq(T) /\ Len(w) = (n + 1) - o
              /\ \A i \in 1..((n + 1) - o) : w[i] = t[o + i]
          BY <3>1, <2>1
        <5> HIDE DEF u, w
        <5>3. /\ Append(u, x) \in Seq(T) /\ Len(Append(u, x)) = (n - o) + 1
              /\ Append(u, x)[(n - o) + 1] = x
              /\ \A i \in 1..(n - o) : Append(u, x)[i] = u[i]
          BY <5>1, <2>1, <3>1
        <5>4. ASSUME NEW i \in 1..((n + 1) - o) PROVE w[i] = Append(u, x)[i]
          <6>1. CASE i \in 1..(n - o)
            <7>1. o + i \in 1..n
              BY <2>1, <3>1, <6>1
            <7> QED BY <2>1, <5>1, <5>2, <5>3, <6>1, <7>1
          <6>2. CASE i = (n - o) + 1
            <7>1. o + i = n + 1
              BY <2>1, <3>1, <6>2
            <7> QED BY <2>1, <5>2, <5>3, <6>2, <7>1
          <6>3. i \in 1..(n - o) \/ i = (n - o) + 1
            BY <2>1, <3>1
          <6> QED BY <6>1, <6>2, <6>3
        <5>5. w = Append(u, x)
          <6>1. (n + 1) - o = (n - o) + 1
            BY <2>1, <3>1
          <6> QED BY <5>2, <5>3, <5>4, <6>1
        <5> QED BY <5>1, <5>5 DEF u, w
      <4>4. Sift(SubSeq(t, o + 1, n + 1), S) =
                IF x \in S THEN Append(Sift(SubSeq(s, o + 1, n), S), x)
                ELSE Sift(SubSeq(s, o + 1, n), S)
        <5> DEFINE u == SubSeq(s, o + 1, n)
        <5>1. u \in Seq(T) /\ SubSeq(t, o + 1, n + 1) = Append(u, x)
          BY <4>3
        <5> HIDE DEF u
        <5>2. Sift(Append(u, x), S) = IF x \in S THEN Append(Sift(u, S), x) ELSE Sift(u, S)
          BY <5>1, SiftAppend
        <5> QED BY <5>1, <5>2 DEF u
      <4> DEFINE q == Sift(s, S)
      <4>5. q \in Seq(T) /\ q # << >>
        BY <2>3, <4>2
      <4> HIDE DEF q
      <4>6. Append(q, x) # << >> /\ Tail(Append(q, x)) = Append(Tail(q), x)
        BY <4>5
      <4> QED BY <2>2, <4>2, <4>4, <4>5, <4>6 DEF q
    <3>2. CASE o = n + 1
      <4>1. x \in S /\ \A j \in 1..n : s[j] \notin S
        BY <2>1, <2>4, <3>2
      <4>2. Elems(s) \cap S = {}
        BY <2>1, <4>1 DEF Elems
      <4>3. Sift(s, S) = << >>
        BY <2>3, <4>2, EmptyElems
      <4>4. Sift(t, S) = <<x>>
        BY <2>2, <4>1, <4>3
      <4>5. SubSeq(t, o + 1, n + 1) = << >>
        BY <2>1, <3>2
      <4>6. <<x>> # << >> /\ Tail(<<x>>) = << >>
        OBVIOUS
      <4>7. Sift(<< >>, S) = << >>
        BY SiftEmpty
      <4> HIDE DEF t, n
      <4> QED BY <4>4, <4>5, <4>6, <4>7
    <3> QED BY <2>1, <2>4, <3>1, <3>2
  <2>5. Good(t)
    BY <2>1, <2>4
  <2> QED BY <2>1, <2>5
<1>3. Seq(T) \subseteq Q
  <2> HIDE DEF Q
  <2> QED BY <1>1, <1>2, SeqInduction
<1> QED BY <1>3

-----------------------------------------------------------------------------
(***************************************************************************)
(* The bounded map, under any calls, keys that come back after a take      *)
(* included.                                                               *)
(*                                                                         *)
(* NeverOverfull is not inductive: evict_to_fit makes room only if it      *)
(* finds a held key in its queue. HeldIsQueued says that it does, and      *)
(* needs in turn that a pop removes no other held key: the positions       *)
(* before the first held one carry none (OldestLive).                      *)
(***************************************************************************)
Queued(m) == \A k \in Live(m) : \E i \in DOMAIN m.order : m.order[i] = k

Fits(m) == Capacity > 0 => Cardinality(Live(m)) <= Capacity

\* A map as the calls leave it.
Sound(m) ==
    /\ m = [entries |-> m.entries, order |-> m.order]
    /\ Live(m) \subseteq Key /\ IsFiniteSet(Live(m))
    /\ \A k \in Live(m) : m.entries[k] \subseteq Item
    /\ m.order \in Seq(Key)
    /\ Queued(m)
    /\ Fits(m)

\* The first held key of the queue exists as soon as the queue has one, and
\* no held key stands before it.
LEMMA OldestExists ==
    ASSUME NEW m, m.order \in Seq(Key),
           \E i \in DOMAIN m.order : m.order[i] \in Live(m)
    PROVE  /\ OldestLive(m) \in DOMAIN m.order
           /\ m.order[OldestLive(m)] \in Live(m)
           /\ \A j \in 1..(OldestLive(m) - 1) : m.order[j] \notin Live(m)
  <1> DEFINE T == {i \in DOMAIN m.order : m.order[i] \in Live(m)}
  <1>1. DOMAIN m.order = 1..Len(m.order) /\ Len(m.order) \in Nat
    OBVIOUS
  <1>2. T \subseteq Nat /\ T # {}
    BY <1>1
  <1>3. PICK i \in T : \A j \in T : ~(<<j, i>> \in OpToRel(<, Nat))
    <2> HIDE DEF T
    <2> QED BY <1>2, WFMin, NatLessThanWellFounded
  <1>4. \A j \in T : ~(j < i)
    BY <1>2, <1>3 DEF OpToRel
  <1>5. \A j \in 1..(i - 1) : m.order[j] \notin Live(m)
    BY <1>1, <1>4
  <1> QED BY <1>3, <1>5 DEF OldestLive

\* What is left of a queue after its first o keys are popped.
LEMMA Popped ==
    ASSUME NEW s \in Seq(Key), NEW o \in 1..Len(s)
    PROVE  LET t == SubSeq(s, o + 1, Len(s))
           IN /\ t \in Seq(Key)
              /\ DOMAIN t = 1..(Len(s) - o)
              /\ \A i \in 1..(Len(s) - o) : t[i] = s[o + i]
  OBVIOUS

\* evict_to_fit keeps a sound map sound, loses no key if there is room and
\* exactly one if there is none.
LEMMA EvictSound ==
    ASSUME NEW m, Sound(m)
    PROVE  LET e == EvictToFit(m)
           IN /\ Sound(e)
              /\ Live(e) \subseteq Live(m)
              /\ Capacity > 0 => Cardinality(Live(e)) < Capacity
              /\ IF Capacity > 0 /\ Cardinality(Live(m)) = Capacity
                 THEN \E k \in Live(m) : Live(e) = Live(m) \ {k}
                 ELSE Live(e) = Live(m)
  <1>0. Cardinality(Live(m)) \in Nat /\ Capacity \in Nat
    BY FS_CardinalityType, CapacityAssumption DEF Sound
  <1>1. CASE Capacity = 0 \/ Cardinality(Live(m)) < Capacity
    <2>1. EvictToFit(m) = m
      BY <1>1 DEF EvictToFit
    <2> QED BY <1>0, <1>1, <2>1
  <1>2. CASE ~(Capacity = 0 \/ Cardinality(Live(m)) < Capacity)
    <2>1. Capacity > 0 /\ Cardinality(Live(m)) = Capacity
      BY <1>0, <1>2 DEF Sound, Fits
    <2>2. Live(m) # {}
      BY <2>1, FS_EmptySet
    <2>3. \E i \in DOMAIN m.order : m.order[i] \in Live(m)
      BY <2>2 DEF Sound, Queued
    <2> DEFINE o == OldestLive(m)
               x == m.order[o]
               e == EvictToFit(m)
    <2>4. /\ o \in DOMAIN m.order /\ x \in Live(m)
          /\ \A j \in 1..(o - 1) : m.order[j] \notin Live(m)
      BY <2>3, OldestExists DEF Sound
    <2>5. e = [entries |-> Without(m.entries, x),
               order |-> SubSeq(m.order, o + 1, Len(m.order))]
      BY <1>2, <2>3 DEF EvictToFit
    <2>6. Live(e) = Live(m) \ {x} /\ \A k \in Live(e) : e.entries[k] = m.entries[k]
      BY <2>5 DEF Live, Without
    <2>7. IsFiniteSet(Live(e)) /\ Cardinality(Live(e)) = Capacity - 1
      BY <2>1, <2>4, <2>6, FS_RemoveElement DEF Sound
    <2>8. m.order \in Seq(Key) /\ o \in 1..Len(m.order) /\ Len(m.order) \in Nat
      BY <2>4 DEF Sound
    <2>9. /\ e.order = SubSeq(m.order, o + 1, Len(m.order))
          /\ e.order \in Seq(Key)
          /\ DOMAIN e.order = 1..(Len(m.order) - o)
          /\ \A i \in 1..(Len(m.order) - o) : e.order[i] = m.order[o + i]
      <3> HIDE DEF o, x, e
      <3>1. e.order = SubSeq(m.order, o + 1, Len(m.order))
        BY <2>5
      <3> QED BY <2>8, <3>1, Popped
    <2>10. Queued(e)
      <3> SUFFICES ASSUME NEW k \in Live(e)
                   PROVE  \E i \in DOMAIN e.order : e.order[i] = k
        BY DEF Queued
      <3>1. k \in Live(m) /\ k # x
        BY <2>6
      <3>2. PICK j \in DOMAIN m.order : m.order[j] = k
        BY <3>1 DEF Sound, Queued
      <3>3. j \in 1..Len(m.order) /\ j > o
        <4>1. j \in 1..Len(m.order)
          BY <2>8
        <4>2. ~(j \in 1..(o - 1)) /\ j # o
          BY <2>4, <3>1, <3>2
        <4> QED BY <2>8, <4>1, <4>2
      <3>4. j - o \in 1..(Len(m.order) - o) /\ o + (j - o) = j
        BY <2>8, <3>3
      <3> QED BY <2>9, <3>2, <3>4
    <2> HIDE DEF e, x, o
    <2>11. Sound(e)
      <3>1. e = [entries |-> e.entries, order |-> e.order]
        BY <2>5
      <3>2. Live(e) \subseteq Key /\ \A k \in Live(e) : e.entries[k] \subseteq Item
        BY <2>6 DEF Sound
      <3>3. Fits(e)
        BY <1>0, <2>7 DEF Fits
      <3> QED BY <2>7, <2>9, <2>10, <3>1, <3>2, <3>3 DEF Sound
    <2> QED BY <1>0, <2>1, <2>4, <2>6, <2>7, <2>11 DEF e
  <1> QED BY <1>1, <1>2

\* A put of a key that is held changes no key; a put of a new one adds it to
\* what evict_to_fit leaves.
LEMMA PutSound ==
    ASSUME NEW m, Sound(m), NEW k \in Key, NEW v \in SUBSET Item
    PROVE  /\ Sound(Put(m, k, v))
           /\ Live(Put(m, k, v)) = IF k \in Live(m) THEN Live(m)
                                   ELSE Live(EvictToFit(m)) \cup {k}
  <1> DEFINE p == Put(m, k, v)
  <1>0. Capacity \in Nat
    BY CapacityAssumption
  <1>1. CASE k \in Live(m)
    <2>1. p = [m EXCEPT !.entries = With(m.entries, k, v)]
      BY <1>1 DEF Put
    <2>2. p = [entries |-> With(m.entries, k, v), order |-> m.order]
      BY <2>1 DEF Sound
    <2> HIDE DEF p
    <2>3. p.entries = With(m.entries, k, v) /\ p.order = m.order
          /\ p = [entries |-> p.entries, order |-> p.order]
      BY <2>2
    <2>4. /\ Live(p) = Live(m)
          /\ \A x \in Live(p) : p.entries[x] = v \/ p.entries[x] = m.entries[x]
      BY <1>1, <2>3 DEF Live, With
    <2>5. Sound(p)
      BY <2>3, <2>4 DEF Sound, Queued, Fits
    <2> QED BY <1>1, <2>4, <2>5 DEF p
  <1>2. CASE k \notin Live(m)
    <2> DEFINE e == EvictToFit(m)
    <2>1. /\ Sound(e) /\ Live(e) \subseteq Live(m)
          /\ Capacity > 0 => Cardinality(Live(e)) < Capacity
      BY EvictSound
    <2>2. p = [entries |-> With(e.entries, k, v), order |-> Append(e.order, k)]
      BY <1>2 DEF Put
    <2> HIDE DEF p, e
    <2>3. p.entries = With(e.entries, k, v) /\ p.order = Append(e.order, k)
          /\ p = [entries |-> p.entries, order |-> p.order]
      BY <2>2
    <2>4. /\ Live(p) = Live(e) \cup {k}
          /\ \A x \in Live(p) : p.entries[x] = v \/ (x \in Live(e) /\ p.entries[x] = e.entries[x])
      BY <2>3 DEF Live, With
    <2>5. /\ IsFiniteSet(Live(p)) /\ Cardinality(Live(e)) \in Nat
          /\ Cardinality(Live(p)) <= Cardinality(Live(e)) + 1
          /\ Cardinality(Live(p)) \in Nat
      <3>1. IsFiniteSet(Live(e))
        BY <2>1 DEF Sound
      <3>2. IsFiniteSet(Live(p)) /\ Cardinality(Live(e)) \in Nat
        BY <2>4, <3>1, FS_AddElement, FS_CardinalityType
      <3>3. Cardinality(Live(p)) = IF k \in Live(e) THEN Cardinality(Live(e))
                                  ELSE Cardinality(Live(e)) + 1
        BY <2>4, <3>1, FS_AddElement
      <3> QED BY <3>2, <3>3
    <2>6. /\ p.order \in Seq(Key)
          /\ DOMAIN p.order = DOMAIN e.order \cup {Len(e.order) + 1}
          /\ p.order[Len(e.order) + 1] = k
          /\ \A i \in DOMAIN e.order : p.order[i] = e.order[i]
      BY <2>1, <2>3 DEF Sound
    <2>7. Queued(p)
      BY <2>1, <2>4, <2>6 DEF Sound, Queued
    <2>8. Fits(p)
      BY <1>0, <2>1, <2>5 DEF Fits
    <2>9. Live(p) \subseteq Key /\ \A x \in Live(p) : p.entries[x] \subseteq Item
      BY <2>1, <2>4 DEF Sound
    <2>10. Sound(p)
      BY <2>3, <2>5, <2>6, <2>7, <2>8, <2>9 DEF Sound
    <2> QED BY <1>2, <2>4, <2>10 DEF p, e
  <1> QED BY <1>1, <1>2

\* A take leaves the queue alone, so what is still held stays queued.
LEMMA TakeSound ==
    ASSUME NEW m, Sound(m), NEW k \in Live(m)
    PROVE  Sound(Take(m, k)) /\ Live(Take(m, k)) = Live(m) \ {k}
  <1> DEFINE t == Take(m, k)
  <1>1. t = [entries |-> Without(m.entries, k), order |-> m.order]
    BY DEF Take, Sound
  <1> HIDE DEF t
  <1>2. /\ t.entries = Without(m.entries, k) /\ t.order = m.order
        /\ t = [entries |-> t.entries, order |-> t.order]
    BY <1>1
  <1>3. Live(t) = Live(m) \ {k} /\ \A x \in Live(t) : t.entries[x] = m.entries[x]
    BY <1>2 DEF Live, Without
  <1>4. /\ IsFiniteSet(Live(t)) /\ Cardinality(Live(t)) = Cardinality(Live(m)) - 1
        /\ Cardinality(Live(m)) \in Nat
    BY <1>3, FS_RemoveElement, FS_CardinalityType DEF Sound
  <1>5. Fits(t)
    BY <1>4, CapacityAssumption DEF Sound, Fits
  <1>6. Sound(t)
    BY <1>2, <1>3, <1>4, <1>5 DEF Sound, Queued
  <1> QED BY <1>3, <1>6 DEF t

\* A scrub changes no key.
LEMMA RetainSound ==
    ASSUME NEW m, Sound(m), NEW x
    PROVE  Sound(RetainValues(m, x)) /\ Live(RetainValues(m, x)) = Live(m)
  <1> DEFINE t == RetainValues(m, x)
             scrubbed == [k \in DOMAIN m.entries |-> m.entries[k] \ {x}]
  <1>1. t = [entries |-> scrubbed, order |-> m.order]
    <2>1. t = [m EXCEPT !.entries = scrubbed]
      BY DEF RetainValues
    <2> HIDE DEF t, scrubbed
    <2> QED BY <2>1 DEF Sound
  <1> HIDE DEF t
  <1>2. /\ t.order = m.order /\ t = [entries |-> t.entries, order |-> t.order]
        /\ t.entries = [k \in DOMAIN m.entries |-> m.entries[k] \ {x}]
    BY <1>1
  <1>3. Live(t) = Live(m) /\ \A k \in Live(t) : t.entries[k] = m.entries[k] \ {x}
    BY <1>2 DEF Live
  <1>4. Sound(t)
    BY <1>2, <1>3 DEF Sound, Queued, Fits
  <1> QED BY <1>3, <1>4 DEF t

\* The empty map is sound, and every call keeps it so.
LEMMA SoundInit == MapInit => Sound(map)
  <1> SUFFICES ASSUME MapInit PROVE Sound(map)
    OBVIOUS
  <1>1. map.entries = << >> /\ map.order = << >> /\ map = [entries |-> map.entries, order |-> map.order]
    BY DEF MapInit, EmptyMap
  <1>2. Live(map) = {}
    BY <1>1 DEF Live
  <1> QED BY <1>1, <1>2, FS_EmptySet, CapacityAssumption DEF Sound, Queued, Fits

LEMMA SoundNext == Sound(map) /\ [MapNext]_mapVars => Sound(map')
  <1> SUFFICES ASSUME Sound(map), [MapNext]_mapVars PROVE Sound(map')
    OBVIOUS
  <1>1. ASSUME NEW k \in Key, NEW v \in SUBSET Item, CallPut(k, v) PROVE Sound(map')
    BY <1>1, PutSound DEF CallPut
  <1>2. ASSUME NEW k \in Key, CallTake(k) PROVE Sound(map')
    BY <1>2, TakeSound DEF CallTake
  <1>3. ASSUME NEW x \in Item, CallRetain(x) PROVE Sound(map')
    BY <1>3, RetainSound DEF CallRetain
  <1>4. CASE UNCHANGED mapVars
    BY <1>4 DEF mapVars
  <1> QED BY <1>1, <1>2, <1>3, <1>4 DEF MapNext

\* A map stays sound under any calls: typed, within its capacity, every held
\* key within reach of evict_to_fit.
THEOREM MapInvariant == MapSpec => []Sound(map)
  <1>1. Sound(map) /\ [MapNext]_mapVars => Sound(map)'
    BY SoundNext
  <1> QED BY <1>1, SoundInit, PTL DEF MapSpec

\* A bounded map never holds more keys than its capacity.
THEOREM CapacityKept == MapSpec => []NeverOverfull
  <1>1. Sound(map) => NeverOverfull  BY DEF Sound, Fits, NeverOverfull
  <1> QED BY <1>1, MapInvariant, PTL

\* Eviction can always find every held key in the queue.
THEOREM QueueCoversMap == MapSpec => []HeldIsQueued
  <1>1. Sound(map) => HeldIsQueued  BY DEF Sound, Queued, HeldIsQueued
  <1> QED BY <1>1, MapInvariant, PTL

\* The one step by which a full map evicts: exactly one key, and a map with
\* room none.
LEMMA EvictionStep ==
    ASSUME Sound(map), [MapNext]_mapVars
    PROVE  Gained # {} =>
               IF Capacity > 0 /\ Cardinality(Live(map)) = Capacity
               THEN Cardinality(Lost) = 1 ELSE Lost = {}
  <1> SUFFICES ASSUME Gained # {}
               PROVE  IF Capacity > 0 /\ Cardinality(Live(map)) = Capacity
                      THEN Cardinality(Lost) = 1 ELSE Lost = {}
    OBVIOUS
  <1>1. ASSUME NEW k \in Key, NEW v \in SUBSET Item, CallPut(k, v)
        PROVE  IF Capacity > 0 /\ Cardinality(Live(map)) = Capacity
               THEN Cardinality(Lost) = 1 ELSE Lost = {}
    <2>1. /\ Live(map') = IF k \in Live(map) THEN Live(map)
                          ELSE Live(EvictToFit(map)) \cup {k}
      BY <1>1, PutSound DEF CallPut
    <2>2. k \notin Live(map)
      BY <2>1 DEF Gained
    <2>3. CASE Capacity > 0 /\ Cardinality(Live(map)) = Capacity
      <3>1. PICK x \in Live(map) : Live(EvictToFit(map)) = Live(map) \ {x}
        BY <2>3, EvictSound
      <3>2. Lost = {x}
        BY <2>1, <2>2, <3>1 DEF Lost
      <3> QED BY <2>3, <3>2, FS_Singleton
    <2>4. CASE ~(Capacity > 0 /\ Cardinality(Live(map)) = Capacity)
      <3>1. Live(EvictToFit(map)) = Live(map)
        BY <2>4, EvictSound
      <3> QED BY <2>1, <2>4, <3>1 DEF Lost
    <2> QED BY <2>3, <2>4
  <1>2. ASSUME NEW k \in Key, CallTake(k) PROVE FALSE
    BY <1>2, TakeSound DEF CallTake, Gained
  <1>3. ASSUME NEW x \in Item, CallRetain(x) PROVE FALSE
    BY <1>3, RetainSound DEF CallRetain, Gained
  <1>4. CASE UNCHANGED mapVars
    BY <1>4 DEF mapVars, Gained
  <1> QED BY <1>1, <1>2, <1>3, <1>4 DEF MapNext

\* A put evicts exactly one key when the map is full and none when it is not,
\* however many taken keys evict_to_fit pops on its way.
THEOREM EvictionExact == MapSpec => EvictsOnlyWhenFull
  <1>1. Sound(map) /\ [MapNext]_mapVars =>
            [ Gained # {} =>
                IF Capacity > 0 /\ Cardinality(Live(map)) = Capacity
                THEN Cardinality(Lost) = 1 ELSE Lost = {} ]_mapVars
    BY EvictionStep
  <1> QED BY <1>1, MapInvariant, PTL DEF MapSpec, EvictsOnlyWhenFull

-----------------------------------------------------------------------------
(***************************************************************************)
(* The map implements the FIFO cache, when taken keys do not come back.    *)
(***************************************************************************)
\* The queue holds every key once; what it holds beyond the keys of the map
\* was taken, and is not put again.
Tidy ==
    /\ Sound(map)
    /\ Distinct(map.order)
    /\ Elems(map.order) \subseteq Live(map) \cup taken
    /\ Live(map) \cap taken = {}

\* The queue that evict_to_fit leaves.
LEMMA EvictQueue ==
    ASSUME NEW m, Sound(m), Distinct(m.order)
    PROVE  LET e == EvictToFit(m)
               q == Sift(m.order, Live(m))
           IN /\ Distinct(e.order) /\ Elems(e.order) \subseteq Elems(m.order)
              /\ \A k \in Live(m) \ Live(e) : k \notin Elems(e.order)
              /\ Sift(e.order, Live(m)) =
                    IF Capacity # 0 /\ Len(q) = Capacity THEN Tail(q) ELSE q
<1> DEFINE e == EvictToFit(m)
           s == m.order
           q == Sift(s, Live(m))
<1>1. s \in Seq(Key) /\ IsFiniteSet(Live(m)) /\ Capacity \in Nat
  BY CapacityAssumption DEF Sound
<1>2. q \in Seq(Key) /\ Elems(q) = Live(m) /\ Distinct(q)
  <2>1. Live(m) \subseteq Elems(s)
    BY DEF Sound, Queued, Elems
  <2>2. q \in Seq(Key) /\ Elems(q) = Elems(s) \cap Live(m) /\ (Distinct(s) => Distinct(q))
    <3> HIDE DEF s
    <3> QED BY <1>1, SiftKeeps
  <2>3. Elems(s) \cap Live(m) = Live(m)
    <3> HIDE DEF s
    <3> QED BY <2>1
  <2> QED BY <2>2, <2>3
<1>3. Len(q) = Cardinality(Live(m)) /\ Cardinality(Live(m)) \in Nat
  <2> HIDE DEF q
  <2> QED BY <1>1, <1>2, DistinctLength, FS_CardinalityType
<1>4. CASE Capacity = 0 \/ Cardinality(Live(m)) < Capacity
  <2>1. e = m
    BY <1>4 DEF EvictToFit
  <2>2. ~(Capacity # 0 /\ Len(q) = Capacity)
    BY <1>1, <1>3, <1>4
  <2> QED BY <2>1, <2>2
<1>5. CASE ~(Capacity = 0 \/ Cardinality(Live(m)) < Capacity)
  <2>1. Capacity # 0 /\ Len(q) = Capacity
    BY <1>1, <1>3, <1>5 DEF Sound, Fits
  <2>2. \E i \in DOMAIN m.order : m.order[i] \in Live(m)
    <3>1. Live(m) # {}
      BY <1>1, <1>3, <2>1, FS_EmptySet
    <3> QED BY <3>1 DEF Sound, Queued
  <2> DEFINE o == OldestLive(m)
             x == s[o]
  <2>3. /\ o \in DOMAIN s /\ x \in Live(m)
        /\ \A j \in 1..(o - 1) : s[j] \notin Live(m)
    BY <1>1, <2>2, OldestExists
  <2>4. e.entries = Without(m.entries, x) /\ e.order = SubSeq(s, o + 1, Len(s))
    BY <1>5, <2>2 DEF EvictToFit
  <2>5. Live(m) \ Live(e) = {x}
    BY <2>3, <2>4 DEF Live, Without
  <2> HIDE DEF s, o, e
  <2>6. o \in 1..Len(s) /\ Len(s) \in Nat /\ DOMAIN s = 1..Len(s)
    BY <1>1, <2>3
  <2>7. /\ DOMAIN e.order = 1..(Len(s) - o)
        /\ \A i \in 1..(Len(s) - o) : e.order[i] = s[o + i] /\ o + i \in 1..Len(s) /\ o + i # o
    <3>1. \A i \in 1..(Len(s) - o) : o + i \in 1..Len(s) /\ o + i # o
      BY <2>6
    <3> QED BY <1>1, <2>4, <2>6, <3>1, Popped
  <2>8. Elems(e.order) \subseteq Elems(s)
    BY <2>6, <2>7 DEF Elems
  <2>9. Distinct(e.order)
    <3> SUFFICES ASSUME NEW i \in 1..(Len(s) - o), NEW j \in 1..(Len(s) - o),
                        e.order[i] = e.order[j]
                 PROVE  i = j
      BY <2>7 DEF Distinct
    <3>1. o + i = o + j
      BY <2>6, <2>7 DEF Distinct, s
    <3> QED BY <2>6, <3>1
  <2>10. x \notin Elems(e.order)
    <3>1. \A i \in 1..(Len(s) - o) : s[o + i] # s[o]
      BY <2>6, <2>7 DEF Distinct, s
    <3> QED BY <2>7, <3>1 DEF Elems
  <2>11. Tail(q) = Sift(e.order, Live(m))
    BY <1>1, <2>3, <2>4, <2>6, SiftPop
  <2> QED BY <2>1, <2>5, <2>8, <2>9, <2>10, <2>11 DEF s, e
<1> QED BY <1>4, <1>5

\* The cache's queue holds the keys of the map.
LEMMA HeldByCache ==
    ASSUME Tidy
    PROVE  /\ map.order \in Seq(Key) /\ Live(map) \subseteq Elems(map.order)
           /\ Fifo!Held = Live(map)
<1>1. map.order \in Seq(Key) /\ Live(map) \subseteq Elems(map.order)
  BY DEF Tidy, Sound, Queued, Elems
<1>2. Elems(Sift(map.order, Live(map))) = Live(map)
  <2>1. Elems(Sift(map.order, Live(map))) = Elems(map.order) \cap Live(map)
    BY <1>1, SiftKeeps
  <2>2. Elems(map.order) \cap Live(map) = Live(map)
    BY <1>1
  <2> QED BY <2>1, <2>2
<1> QED BY <1>1, <1>2 DEF Fifo!Held, StillHeld, Elems

\* A put of a new key is an Add of the cache.
LEMMA PutAdds ==
    ASSUME Tidy, ~Reuse, NEW k \in Key, NEW v \in SUBSET Item, CallPut(k, v), k \notin Live(map)
    PROVE  Tidy' /\ Fifo!Add(k)
<1> DEFINE e == EvictToFit(map)
           q == StillHeld
           L == Live(map)
<1>1. /\ map' = Put(map, k, v) /\ taken' = taken /\ k \notin taken
  BY DEF CallPut
<1>2. Sound(map) /\ Sound(e) /\ Live(e) \subseteq L
  BY EvictSound DEF Tidy
<1>3. Sound(map') /\ Live(map') = Live(e) \cup {k}
  BY <1>1, <1>2, PutSound
<1>4. map'.order = Append(e.order, k)
  BY <1>1 DEF Put
<1>5. /\ Distinct(e.order) /\ Elems(e.order) \subseteq Elems(map.order)
      /\ \A x \in L \ Live(e) : x \notin Elems(e.order)
      /\ Sift(e.order, L) = IF Capacity # 0 /\ Len(q) = Capacity THEN Tail(q) ELSE q
  BY EvictQueue DEF Tidy, StillHeld
<1>6. e.order \in Seq(Key)
  BY <1>2 DEF Sound
<1> HIDE DEF e, q
<1>7. k \notin Elems(e.order)
  BY <1>1, <1>5 DEF Tidy
<1>8. /\ Append(e.order, k) \in Seq(Key)
      /\ Elems(Append(e.order, k)) = Elems(e.order) \cup {k}
      /\ Distinct(Append(e.order, k))
  BY <1>5, <1>6, <1>7, AppendElems
<1>9. Tidy'
  <2>1. Elems(map'.order) \subseteq Live(map') \cup taken'
    <3>1. Elems(e.order) \subseteq Live(e) \cup taken
      BY <1>5 DEF Tidy
    <3> QED BY <1>1, <1>3, <1>4, <1>8, <3>1
  <2>2. Live(map') \cap taken' = {}
    BY <1>1, <1>2, <1>3 DEF Tidy
  <2> QED BY <1>3, <1>4, <1>8, <2>1, <2>2 DEF Tidy
<1>10. StillHeld' = Append(Sift(e.order, L), k)
  <2>1. StillHeld' = Sift(Append(e.order, k), Live(e) \cup {k})
    BY <1>3, <1>4 DEF StillHeld
  <2>2. Sift(Append(e.order, k), Live(e) \cup {k}) = Append(Sift(e.order, Live(e) \cup {k}), k)
    BY <1>6, SiftAppend
  <2>3. Elems(e.order) \cap (Live(e) \cup {k}) = Elems(e.order) \cap L
    BY <1>2, <1>5, <1>7
  <2>4. Sift(e.order, Live(e) \cup {k}) = Sift(e.order, L)
    BY <1>6, <2>3, SiftSame
  <2> QED BY <2>1, <2>2, <2>4
<1>11. k \notin Fifo!Held
  BY HeldByCache
<1>12. StillHeld' = IF Capacity # 0 /\ Len(StillHeld) = Capacity
                    THEN Append(Tail(StillHeld), k) ELSE Append(StillHeld, k)
  BY <1>5, <1>10 DEF q
<1> QED BY <1>9, <1>11, <1>12 DEF Fifo!Add

\* A take is a Remove of the cache.
LEMMA TakeRemoves ==
    ASSUME Tidy, NEW k \in Key, CallTake(k)
    PROVE  Tidy' /\ Fifo!Remove(k)
<1>1. k \in Live(map) /\ map' = Take(map, k) /\ taken' = taken \cup {k}
  BY DEF CallTake
<1>2. Sound(map) /\ Live(map) \subseteq Key
  BY DEF Tidy, Sound
<1>3. Sound(map') /\ Live(map') = Live(map) \ {k}
  BY <1>1, <1>2, TakeSound
<1>4. map'.order = map.order
  BY <1>1, <1>2 DEF Take, Sound
<1>5. Tidy'
  BY <1>1, <1>3, <1>4 DEF Tidy
<1>6. k \in Fifo!Held
  BY <1>1, HeldByCache
<1>7. StillHeld' = Sift(StillHeld, Key \ {k})
  <2>1. Live(map) \cap (Key \ {k}) = Live(map) \ {k}
    BY <1>2
  <2>2. map.order \in Seq(Key)
    BY HeldByCache
  <2>3. Sift(Sift(map.order, Live(map)), Key \ {k}) = Sift(map.order, Live(map) \cap (Key \ {k}))
    BY <2>2, SiftTwice
  <2> QED BY <1>3, <1>4, <2>1, <2>3 DEF StillHeld
<1>8. Sift(StillHeld, Key \ {k}) = Fifo!Sift(StillHeld, Key \ {k})
  BY DEF Sift, Fifo!Sift
<1> QED BY <1>5, <1>6, <1>7, <1>8 DEF Fifo!Remove

\* As long as taken keys do not come back, the map, with the taken keys it
\* leaves in its queue, is the FIFO cache its documentation describes.
THEOREM MapIsFifoCache == ~Reuse => (MapSpec => ImplementsFifoCache)
<1> SUFFICES ASSUME ~Reuse PROVE MapSpec => ImplementsFifoCache
  OBVIOUS
<1>1. MapInit => Tidy /\ Fifo!Init
  <2> SUFFICES ASSUME MapInit PROVE Tidy /\ Fifo!Init
    OBVIOUS
  <2>1. Sound(map) /\ map.order = << >> /\ map.entries = << >> /\ taken = {}
    BY SoundInit DEF MapInit, EmptyMap
  <2>2. Distinct(<< >>) /\ Elems(<< >>) = {}
    <3>1. DOMAIN << >> = {}
      OBVIOUS
    <3> QED BY <3>1 DEF Distinct, Elems
  <2>3. Tidy
    BY <2>1, <2>2 DEF Tidy
  <2>4. Fifo!Init
    BY <2>1, SiftEmpty DEF Fifo!Init, StillHeld
  <2> QED BY <2>3, <2>4
<1>2. Tidy /\ [MapNext]_mapVars =>
          Tidy' /\ [\E k \in Key : Fifo!Add(k) \/ Fifo!Remove(k)]_StillHeld
  <2> SUFFICES ASSUME Tidy, [MapNext]_mapVars
               PROVE  Tidy' /\ [\E k \in Key : Fifo!Add(k) \/ Fifo!Remove(k)]_StillHeld
    OBVIOUS
  <2>1. ASSUME map'.order = map.order, Live(map') = Live(map), Sound(map'), taken' = taken
        PROVE  Tidy' /\ StillHeld' = StillHeld
    BY <2>1 DEF Tidy, StillHeld
  <2>2. ASSUME NEW k \in Key, NEW v \in SUBSET Item, CallPut(k, v), k \in Live(map)
        PROVE  Tidy' /\ StillHeld' = StillHeld
    <3>1. map' = [map EXCEPT !.entries = With(map.entries, k, v)] /\ taken' = taken
      BY <2>2 DEF CallPut, Put
    <3>2. map'.order = map.order
      BY <3>1 DEF Tidy, Sound
    <3>3. Sound(map') /\ Live(map') = Live(map)
      BY <2>2, PutSound DEF CallPut, Tidy
    <3> QED BY <2>1, <3>1, <3>2, <3>3
  <2>3. ASSUME NEW x \in Item, CallRetain(x) PROVE Tidy' /\ StillHeld' = StillHeld
    <3>1. map' = RetainValues(map, x) /\ taken' = taken
      BY <2>3 DEF CallRetain
    <3>2. map'.order = map.order
      BY <3>1 DEF RetainValues, Tidy, Sound
    <3>3. Sound(map') /\ Live(map') = Live(map)
      BY <3>1, RetainSound DEF Tidy
    <3> QED BY <2>1, <3>1, <3>2, <3>3
  <2>4. CASE UNCHANGED mapVars
    <3>1. map' = map /\ taken' = taken
      BY <2>4 DEF mapVars
    <3> QED BY <2>1, <3>1 DEF Tidy
  <2>5. ASSUME NEW k \in Key, NEW v \in SUBSET Item, CallPut(k, v), k \notin Live(map)
        PROVE  Tidy' /\ Fifo!Add(k)
    BY <2>5, PutAdds
  <2>6. ASSUME NEW k \in Key, CallTake(k) PROVE Tidy' /\ Fifo!Remove(k)
    BY <2>6, TakeRemoves
  <2> QED BY <2>2, <2>3, <2>4, <2>5, <2>6 DEF MapNext
<1> QED BY <1>1, <1>2, PTL DEF MapSpec, ImplementsFifoCache, Fifo!Spec

-----------------------------------------------------------------------------
(***************************************************************************)
(* The read model.                                                         *)
(***************************************************************************)
Types == {"requested", "completed", "created", "retract", "finalize"}
ResultTypes == {"completed", "created"}
TerminalTypes == {"retract", "finalize"}

Ids == {r.incident : r \in Record} \cup {None}
Profits == {r.profit : r \in Record}
Details == {r.detail : r \in Record} \cup {None}

Row ==
    [incident : Ids, status : 0..3, profit : Profits, figuresAt : Nat,
     reason : Details, retractedAt : Nat, block : Details, finalizedAt : Nat]

Change == [row : Row, changed : BOOLEAN]

Terminal == [type : TerminalTypes, detail : Details, at : Nat]

\* A row r that is as far as row q.
Covers(r, q) ==
    /\ r.status >= q.status /\ r.figuresAt >= q.figuresAt
    /\ r.retractedAt >= q.retractedAt /\ r.finalizedAt >= q.finalizedAt
    /\ q.incident # None => r.incident = q.incident

\* Row r has taken event e.
Taken(r, e) ==
    /\ r.status >= Rank(e)
    /\ e.type \in ResultTypes => r.figuresAt >= e.at
    /\ e.type = "retract" => r.retractedAt >= e.at
    /\ e.type = "finalize" => r.finalizedAt >= e.at

\* What row r says of alert a is what some event said.
Sourced(r, a) ==
    /\ \E f \in Concerning(a) : Rank(f) = r.status
    /\ \E f \in Results(a) : f.at = r.figuresAt /\ f.profit = r.profit
    /\ r.retractedAt # 0 =>
          \E f \in Terminals(a, "retract") : f.at = r.retractedAt /\ f.detail = r.reason
    /\ r.finalizedAt # 0 =>
          \E f \in Terminals(a, "finalize") : f.at = r.finalizedAt /\ f.detail = r.block

\* The terminal an event carries, and the events a buffered terminal is from.
TerminalOf(e) == [type |-> e.type, detail |-> e.detail, at |-> e.at]
SentFor(t, i) ==
    \E f \in Events : f.type \in TerminalTypes /\ f.incident = i /\ t = TerminalOf(f)

\* The incidents that terminals may wait for, and that they fit into the
\* orphan buffer.
Awaited == {e.incident : e \in {f \in Events : f.type \in TerminalTypes}}
Roomy == Capacity = 0 \/ (IsFiniteSet(Awaited) /\ Cardinality(Awaited) <= Capacity)

\* A projection as the fold leaves it.
Folded(p) ==
    /\ p = [rows |-> p.rows, alertOf |-> p.alertOf, orphans |-> p.orphans]
    /\ \A a \in DOMAIN p.rows : p.rows[a] \in Row /\ Sourced(p.rows[a], a)
    /\ \A i \in DOMAIN p.alertOf :
          p.alertOf[i] \in DOMAIN p.rows /\ i \in Incidents(p.alertOf[i])
    /\ p.orphans = [entries |-> p.orphans.entries, order |-> p.orphans.order]
    /\ \A i \in Live(p.orphans) :
          /\ i \in Awaited /\ i \notin DOMAIN p.alertOf
          /\ p.orphans.entries[i] \in Seq(Terminal)
          /\ \A n \in DOMAIN p.orphans.entries[i] : SentFor(p.orphans.entries[i][n], i)

\* The row an event of a linked incident is folded into has taken it.
LinkedTaken(p, e) ==
    e.incident \in DOMAIN p.alertOf /\ Taken(p.rows[p.alertOf[e.incident]], e)

\* Folding e again changes nothing.
Absorbed(p, e) ==
    /\ e.type \in ResultTypes =>
          /\ e.alert \in DOMAIN p.rows /\ Taken(p.rows[e.alert], e)
          /\ e.type = "created" =>
                p.rows[e.alert].incident # None /\ e.incident \in DOMAIN p.alertOf
    /\ e.type \in TerminalTypes => LinkedTaken(p, e)

Offsets ==
    /\ pos \in [Partition -> Nat] /\ committed \in [Partition -> Nat]
    /\ \A p \in Partition : committed[p] <= pos[p] /\ pos[p] <= Len(Log[p])
    /\ crashes \in Nat

StoreBehind ==
    \A a \in DOMAIN store :
        /\ store[a] \in Row /\ Sourced(store[a], a)
        /\ a \in DOMAIN proj.rows /\ Covers(proj.rows[a], store[a])

AppendedOnce ==
    /\ analytics \in [Offset -> Nat]
    /\ \A o \in Offset :
          /\ analytics[o] <= 1
          /\ analytics[o] = 1 => Absorbed(proj, Log[o[1]][o[2]])

Session == Offsets /\ Folded(proj) /\ (crashes = 0 => StoreBehind /\ AppendedOnce)

\* The record at o is still to be handled, or was skipped.
Pending(o) == o[2] > pos[o[1]] \/ o \in skipped

\* The IncidentCreated of the incident is.
Awaiting(i) ==
    \E o \in Offset :
        Log[o[1]][o[2]].type = "created" /\ Log[o[1]][o[2]].incident = i /\ Pending(o)

InStore(a, e) == a \in DOMAIN store /\ Taken(store[a], e)

\* An event that was handled is where it cannot get lost.
Kept(e) ==
    /\ e.type \in ResultTypes => InStore(e.alert, e)
    /\ e.type = "created" => e.incident \in DOMAIN proj.alertOf
    /\ e.type \in TerminalTypes =>
          \/ Holds(proj.orphans, e.incident, TerminalOf(e))
          \/ /\ LinkedTaken(proj, e)
             /\ InStore(proj.alertOf[e.incident], e) \/ Awaiting(e.incident)

HandledIsKept == \A o \in Offset : Pending(o) \/ Kept(Log[o[1]][o[2]])

KeptInv == Session /\ (crashes = 0 => HandledIsKept)

\* Job rows.
JobRow == [status : {"none", "requested", "completed"}, requestedAt : Nat, completedAt : Nat]

JobSourced(r, a) ==
    /\ r.requestedAt # 0 => \E f \in Events :
          f.type = "requested" /\ f.alert = a /\ f.at = r.requestedAt
    /\ r.completedAt # 0 => \E f \in Events :
          f.type = "completed" /\ f.alert = a /\ f.at = r.completedAt

JobKept(js, e) ==
    HasJob(e) =>
        /\ e.alert \in DOMAIN js
        /\ e.type = "requested" => js[e.alert].requestedAt # 0
        /\ e.type = "completed" =>
              js[e.alert].completedAt # 0 /\ js[e.alert].status = "completed"

JobsTrue(js) == \A a \in DOMAIN js : js[a] \in JobRow /\ JobSourced(js[a], a)

JobInv ==
    /\ Offsets
    /\ JobsTrue(jobs)
    /\ \A o \in Offset : Pending(o) \/ JobKept(jobs, Log[o[1]][o[2]])

-----------------------------------------------------------------------------
(***************************************************************************)
(* The steps a row takes.                                                  *)
(***************************************************************************)

\* The parts of a row that no event about its terminals or figures touches.
SameFigures(r, q) == r.profit = q.profit /\ r.figuresAt = q.figuresAt
SameRetraction(r, q) == r.reason = q.reason /\ r.retractedAt = q.retractedAt
SameFinality(r, q) == r.block = q.block /\ r.finalizedAt = q.finalizedAt

LEMMA CoversReflexive ==
    ASSUME NEW r \in Row
    PROVE  Covers(r, r)
  BY DEF Covers, Row

LEMMA CoversTransitive ==
    ASSUME NEW r \in Row, NEW q \in Row, NEW s \in Row, Covers(r, q), Covers(q, s)
    PROVE  Covers(r, s)
  BY DEF Covers, Row

LEMMA RankType ==
    ASSUME NEW e, e.type \in ResultTypes \cup TerminalTypes
    PROVE  /\ Rank(e) \in 0..3
           /\ e.type = "retract" => Rank(e) = Retracted
           /\ e.type = "finalize" => Rank(e) = Finalized
           /\ e.type = "created" => Rank(e) = Confirmed
           /\ e.type = "completed" => Rank(e) = IF e.confirmed THEN Confirmed ELSE Unconfirmed
<1>1. CASE e.type = "retract"
  BY <1>1 DEF Rank, Retracted
<1>2. CASE e.type = "finalize"
  BY <1>2 DEF Rank, Finalized
<1>3. CASE e.type = "created"
  BY <1>3 DEF Rank, Confirmed
<1>4. CASE e.type = "completed"
  BY <1>4 DEF Rank, Confirmed, Unconfirmed
<1> QED BY <1>1, <1>2, <1>3, <1>4 DEF ResultTypes, TerminalTypes

LEMMA TakenCovered ==
    ASSUME NEW r \in Row, NEW q \in Row, Covers(r, q), NEW e,
           e.type \in ResultTypes \cup TerminalTypes, e.at \in Nat, Taken(q, e)
    PROVE  Taken(r, e)
<1>1. Rank(e) \in Nat
  BY RankType
<1> QED BY <1>1 DEF Taken, Covers, Row

LEMMA AdvanceFacts ==
    ASSUME NEW c \in Change, NEW s \in 0..3
    PROVE  LET d == AdvanceStatus(c, s)
           IN /\ d \in Change /\ Covers(d.row, c.row)
              /\ d.row.status >= s /\ d.row.status \in {s, c.row.status}
              /\ SameFigures(d.row, c.row) /\ SameRetraction(d.row, c.row)
              /\ SameFinality(d.row, c.row) /\ d.row.incident = c.row.incident
              /\ s <= c.row.status => d = c
<1>1. CASE s > c.row.status
  <2> DEFINE d == AdvanceStatus(c, s)
  <2>1. d = [row |-> [c.row EXCEPT !.status = s], changed |-> TRUE]
    BY <1>1 DEF AdvanceStatus
  <2> HIDE DEF d
  <2>2. c.row \in Row /\ d.row = [c.row EXCEPT !.status = s] /\ d.changed = TRUE
    BY <2>1 DEF Change
  <2>3. d.row \in Row
    BY <2>2 DEF Row
  <2>4. d \in Change
    BY <2>1, <2>2, <2>3 DEF Change
  <2>5. /\ d.row.status = s /\ SameFigures(d.row, c.row) /\ SameRetraction(d.row, c.row)
        /\ SameFinality(d.row, c.row) /\ d.row.incident = c.row.incident
    BY <2>2 DEF Row, SameFigures, SameRetraction, SameFinality
  <2>6. Covers(d.row, c.row)
    BY <1>1, <2>2, <2>3, <2>5 DEF Covers, Row, SameFigures, SameRetraction, SameFinality
  <2>7. ~(s <= c.row.status)
    BY <1>1, <2>2 DEF Row
  <2> QED BY <2>4, <2>5, <2>6, <2>7 DEF d
<1>2. CASE ~(s > c.row.status)
  <2>1. AdvanceStatus(c, s) = c /\ c.row \in Row
    BY <1>2 DEF AdvanceStatus, Change
  <2>2. c.row.status >= s
    BY <1>2, <2>1 DEF Row
  <2> QED BY <2>1, <2>2, CoversReflexive DEF SameFigures, SameRetraction, SameFinality
<1> QED BY <1>1, <1>2

LEMMA FiguresFacts ==
    ASSUME NEW c \in Change, NEW profit \in Profits, NEW at \in Nat
    PROVE  LET d == SetFigures(c, profit, at)
           IN /\ d \in Change /\ Covers(d.row, c.row) /\ d.row.figuresAt >= at
              /\ SameFigures(d.row, c.row) \/ (d.row.profit = profit /\ d.row.figuresAt = at)
              /\ SameRetraction(d.row, c.row) /\ SameFinality(d.row, c.row)
              /\ d.row.incident = c.row.incident /\ d.row.status = c.row.status
              /\ at <= c.row.figuresAt => d = c
<1>1. CASE ~(at <= c.row.figuresAt)
  <2> DEFINE d == SetFigures(c, profit, at)
  <2>1. d = [row |-> [c.row EXCEPT !.profit = profit, !.figuresAt = at],
             changed |-> c.changed \/ c.row.profit # profit]
    BY <1>1 DEF SetFigures
  <2> HIDE DEF d
  <2>2. /\ c.row \in Row /\ c.changed \in BOOLEAN
        /\ d.row = [c.row EXCEPT !.profit = profit, !.figuresAt = at]
    BY <2>1 DEF Change
  <2>3. d.row \in Row
    BY <2>2 DEF Row
  <2>4. d \in Change
    BY <2>1, <2>2, <2>3 DEF Change
  <2>5. /\ d.row.profit = profit /\ d.row.figuresAt = at /\ SameRetraction(d.row, c.row)
        /\ SameFinality(d.row, c.row) /\ d.row.incident = c.row.incident
        /\ d.row.status = c.row.status
    BY <2>2 DEF Row, SameRetraction, SameFinality
  <2>6. Covers(d.row, c.row)
    BY <1>1, <2>2, <2>3, <2>5 DEF Covers, Row, SameRetraction, SameFinality
  <2> QED BY <1>1, <2>4, <2>5, <2>6 DEF d
<1>2. CASE at <= c.row.figuresAt
  <2>1. SetFigures(c, profit, at) = c /\ c.row \in Row
    BY <1>2 DEF SetFigures, Change
  <2>2. c.row.figuresAt >= at
    BY <1>2, <2>1 DEF Row
  <2> QED BY <2>1, <2>2, CoversReflexive DEF SameFigures, SameRetraction, SameFinality
<1> QED BY <1>1, <1>2

LEMMA IdentityFacts ==
    ASSUME NEW c \in Change, NEW incident \in Ids, incident # None
    PROVE  LET d == SetIdentity(c, incident)
           IN /\ d \in Change /\ Covers(d.row, c.row) /\ d.row.incident # None
              /\ SameFigures(d.row, c.row) /\ SameRetraction(d.row, c.row)
              /\ SameFinality(d.row, c.row) /\ d.row.status = c.row.status
              /\ c.row.incident # None => d = c
<1>1. CASE c.row.incident = None
  <2> DEFINE d == SetIdentity(c, incident)
  <2>1. d = [row |-> [c.row EXCEPT !.incident = incident], changed |-> TRUE]
    BY <1>1 DEF SetIdentity
  <2> HIDE DEF d
  <2>2. c.row \in Row /\ d.row = [c.row EXCEPT !.incident = incident]
    BY <2>1 DEF Change
  <2>3. d.row \in Row
    BY <2>2 DEF Row
  <2>4. d \in Change
    BY <2>1, <2>2, <2>3 DEF Change
  <2>5. /\ d.row.incident = incident /\ SameFigures(d.row, c.row)
        /\ SameRetraction(d.row, c.row) /\ SameFinality(d.row, c.row)
        /\ d.row.status = c.row.status
    BY <2>2 DEF Row, SameFigures, SameRetraction, SameFinality
  <2>6. Covers(d.row, c.row)
    BY <1>1, <2>2, <2>3, <2>5 DEF Covers, Row, SameFigures, SameRetraction, SameFinality
  <2> QED BY <1>1, <2>4, <2>5, <2>6 DEF d
<1>2. CASE c.row.incident # None
  <2>1. SetIdentity(c, incident) = c /\ c.row \in Row
    BY <1>2 DEF SetIdentity, Change
  <2> QED BY <1>2, <2>1, CoversReflexive DEF SameFigures, SameRetraction, SameFinality
<1> QED BY <1>1, <1>2

LEMMA RetractFacts ==
    ASSUME NEW c \in Change, NEW t \in Terminal, t.type = "retract"
    PROVE  LET d == Retract(c, t)
           IN /\ d \in Change /\ Covers(d.row, c.row) /\ Taken(d.row, t)
              /\ d.row.status \in {Rank(t), c.row.status}
              /\ SameFigures(d.row, c.row) /\ SameFinality(d.row, c.row)
              /\ \/ SameRetraction(d.row, c.row)
                 \/ d.row.reason = t.detail /\ d.row.retractedAt = t.at
              /\ Taken(c.row, t) => d = c
<1> DEFINE u == AdvanceStatus(c, Retracted)
           d == Retract(c, t)
<1>1. Rank(t) = Retracted /\ Rank(t) \in 0..3
  BY RankType DEF TerminalTypes
<1>2. /\ u \in Change /\ Covers(u.row, c.row)
      /\ u.row.status >= Retracted /\ u.row.status \in {Retracted, c.row.status}
      /\ SameFigures(u.row, c.row) /\ SameRetraction(u.row, c.row)
      /\ SameFinality(u.row, c.row) /\ u.row.incident = c.row.incident
      /\ Retracted <= c.row.status => u = c
  BY <1>1, AdvanceFacts
<1>3. t.at \in Nat /\ t.detail \in Details
  BY DEF Terminal
<1>4. c.row \in Row /\ u.row \in Row /\ u.changed \in BOOLEAN
  BY <1>2 DEF Change
<1>5. d = IF t.at <= u.row.retractedAt THEN u
          ELSE [row |-> [u.row EXCEPT !.reason = t.detail, !.retractedAt = t.at],
                changed |-> u.changed \/ u.row.reason # t.detail]
  BY DEF Retract
<1> HIDE DEF u, d
<1>6. CASE t.at <= u.row.retractedAt
  <2>1. d = u
    BY <1>5, <1>6
  <2>2. Taken(u.row, t)
    BY <1>1, <1>2, <1>3, <1>4, <1>6 DEF Taken, Row, ResultTypes
  <2>3. Taken(c.row, t) => u = c
    BY <1>1, <1>2, <1>4 DEF Taken, Row
  <2> QED BY <1>1, <1>2, <2>1, <2>2, <2>3 DEF d
<1>7. CASE ~(t.at <= u.row.retractedAt)
  <2>1. d = [row |-> [u.row EXCEPT !.reason = t.detail, !.retractedAt = t.at],
             changed |-> u.changed \/ u.row.reason # t.detail]
    BY <1>5, <1>7
  <2>2. d.row = [u.row EXCEPT !.reason = t.detail, !.retractedAt = t.at]
    BY <2>1
  <2>3. d.row \in Row
    BY <1>3, <1>4, <2>2 DEF Row
  <2>4. d \in Change
    BY <1>4, <2>1, <2>2, <2>3 DEF Change
  <2>5. /\ d.row.reason = t.detail /\ d.row.retractedAt = t.at /\ SameFigures(d.row, c.row)
        /\ SameFinality(d.row, c.row) /\ d.row.incident = c.row.incident
        /\ d.row.status = u.row.status
    BY <1>2, <1>4, <2>2 DEF Row, SameFigures, SameFinality
  <2>6. Covers(d.row, u.row)
    BY <1>4, <1>7, <1>3, <1>2, <2>3, <2>5 DEF Covers, Row, SameFigures, SameFinality
  <2>7. Covers(d.row, c.row)
    BY <1>2, <1>4, <2>3, <2>6, CoversTransitive
  <2>8. Taken(d.row, t)
    BY <1>1, <1>2, <1>3, <2>5 DEF Taken, ResultTypes
  <2>9. ~Taken(c.row, t)
    BY <1>2, <1>3, <1>4, <1>7 DEF Taken, Row, SameRetraction
  <2> QED BY <1>1, <1>2, <2>4, <2>5, <2>7, <2>8, <2>9 DEF d
<1> QED BY <1>6, <1>7

LEMMA FinalizeFacts ==
    ASSUME NEW c \in Change, NEW t \in Terminal, t.type = "finalize"
    PROVE  LET d == Finalize(c, t)
           IN /\ d \in Change /\ Covers(d.row, c.row) /\ Taken(d.row, t)
              /\ d.row.status \in {Rank(t), c.row.status}
              /\ SameFigures(d.row, c.row) /\ SameRetraction(d.row, c.row)
              /\ \/ SameFinality(d.row, c.row)
                 \/ d.row.block = t.detail /\ d.row.finalizedAt = t.at
              /\ Taken(c.row, t) => d = c
<1> DEFINE u == AdvanceStatus(c, Finalized)
           d == Finalize(c, t)
<1>1. Rank(t) = Finalized /\ Rank(t) \in 0..3
  BY RankType DEF TerminalTypes
<1>2. /\ u \in Change /\ Covers(u.row, c.row)
      /\ u.row.status >= Finalized /\ u.row.status \in {Finalized, c.row.status}
      /\ SameFigures(u.row, c.row) /\ SameRetraction(u.row, c.row)
      /\ SameFinality(u.row, c.row) /\ u.row.incident = c.row.incident
      /\ Finalized <= c.row.status => u = c
  BY <1>1, AdvanceFacts
<1>3. t.at \in Nat /\ t.detail \in Details
  BY DEF Terminal
<1>4. c.row \in Row /\ u.row \in Row /\ u.changed \in BOOLEAN
  BY <1>2 DEF Change
<1>5. d = IF t.at <= u.row.finalizedAt THEN u
          ELSE [row |-> [u.row EXCEPT !.block = t.detail, !.finalizedAt = t.at],
                changed |-> u.changed \/ u.row.block # t.detail]
  BY DEF Finalize
<1> HIDE DEF u, d
<1>6. CASE t.at <= u.row.finalizedAt
  <2>1. d = u
    BY <1>5, <1>6
  <2>2. Taken(u.row, t)
    BY <1>1, <1>2, <1>3, <1>4, <1>6 DEF Taken, Row, ResultTypes
  <2>3. Taken(c.row, t) => u = c
    BY <1>1, <1>2, <1>4 DEF Taken, Row
  <2> QED BY <1>1, <1>2, <2>1, <2>2, <2>3 DEF d
<1>7. CASE ~(t.at <= u.row.finalizedAt)
  <2>1. d = [row |-> [u.row EXCEPT !.block = t.detail, !.finalizedAt = t.at],
             changed |-> u.changed \/ u.row.block # t.detail]
    BY <1>5, <1>7
  <2>2. d.row = [u.row EXCEPT !.block = t.detail, !.finalizedAt = t.at]
    BY <2>1
  <2>3. d.row \in Row
    BY <1>3, <1>4, <2>2 DEF Row
  <2>4. d \in Change
    BY <1>4, <2>1, <2>2, <2>3 DEF Change
  <2>5. /\ d.row.block = t.detail /\ d.row.finalizedAt = t.at /\ SameFigures(d.row, c.row)
        /\ SameRetraction(d.row, c.row) /\ d.row.incident = c.row.incident
        /\ d.row.status = u.row.status
    BY <1>2, <1>4, <2>2 DEF Row, SameFigures, SameRetraction
  <2>6. Covers(d.row, u.row)
    BY <1>4, <1>7, <1>3, <1>2, <2>3, <2>5 DEF Covers, Row, SameFigures, SameRetraction
  <2>7. Covers(d.row, c.row)
    BY <1>2, <1>4, <2>3, <2>6, CoversTransitive
  <2>8. Taken(d.row, t)
    BY <1>1, <1>2, <1>3, <2>5 DEF Taken, ResultTypes
  <2>9. ~Taken(c.row, t)
    BY <1>2, <1>3, <1>4, <1>7 DEF Taken, Row, SameFinality
  <2> QED BY <1>1, <1>2, <2>4, <2>5, <2>7, <2>8, <2>9 DEF d
<1> QED BY <1>6, <1>7

\* Some event of the alert carried terminal t.
Carried(t, a) == \E f \in Terminals(a, t.type) : f.at = t.at /\ f.detail = t.detail

LEMMA TerminalFacts ==
    ASSUME NEW c \in Change, NEW t \in Terminal
    PROVE  LET d == TerminalOnRow(c, t)
           IN /\ d \in Change /\ Covers(d.row, c.row) /\ Taken(d.row, t)
              /\ Taken(c.row, t) => d = c
              /\ \A a : Sourced(c.row, a) /\ Carried(t, a) => Sourced(d.row, a)
<1> DEFINE d == TerminalOnRow(c, t)
<1>1. t.type \in TerminalTypes
  BY DEF Terminal
<1>2. /\ d \in Change /\ Covers(d.row, c.row) /\ Taken(d.row, t)
      /\ d.row.status \in {Rank(t), c.row.status} /\ SameFigures(d.row, c.row)
      /\ \/ SameFinality(d.row, c.row)
         \/ t.type = "finalize" /\ d.row.block = t.detail /\ d.row.finalizedAt = t.at
      /\ \/ SameRetraction(d.row, c.row)
         \/ t.type = "retract" /\ d.row.reason = t.detail /\ d.row.retractedAt = t.at
      /\ Taken(c.row, t) => d = c
  <2>1. CASE t.type = "retract"
    <3>1. d = Retract(c, t)
      BY <2>1 DEF TerminalOnRow
    <3> HIDE DEF d
    <3> QED BY <2>1, <3>1, RetractFacts
  <2>2. CASE t.type = "finalize"
    <3>1. d = Finalize(c, t)
      BY <2>2 DEF TerminalOnRow
    <3> HIDE DEF d
    <3> QED BY <2>2, <3>1, FinalizeFacts
  <2> QED BY <1>1, <2>1, <2>2 DEF TerminalTypes
<1> HIDE DEF d
<1>3. ASSUME NEW a, Sourced(c.row, a), Carried(t, a) PROVE Sourced(d.row, a)
  <2>1. PICK f \in Terminals(a, t.type) : f.at = t.at /\ f.detail = t.detail
    BY <1>3 DEF Carried
  <2>2. f.type = t.type /\ f \in Concerning(a)
    BY <1>1, <2>1 DEF Terminals, Concerning, TerminalTypes
  <2>3. Rank(f) = Rank(t)
    BY <1>1, <2>2, RankType DEF TerminalTypes
  <2>4. \E g \in Concerning(a) : Rank(g) = d.row.status
    BY <1>2, <1>3, <2>2, <2>3 DEF Sourced
  <2>5. \E g \in Results(a) : g.at = d.row.figuresAt /\ g.profit = d.row.profit
    BY <1>2, <1>3 DEF Sourced, SameFigures
  <2>6. d.row.retractedAt # 0 => \E g \in Terminals(a, "retract") :
            g.at = d.row.retractedAt /\ g.detail = d.row.reason
    BY <1>2, <1>3, <2>1 DEF Sourced, SameRetraction
  <2>7. d.row.finalizedAt # 0 => \E g \in Terminals(a, "finalize") :
            g.at = d.row.finalizedAt /\ g.detail = d.row.block
    BY <1>2, <1>3, <2>1 DEF Sourced, SameFinality
  <2> QED BY <2>4, <2>5, <2>6, <2>7 DEF Sourced
<1> QED BY <1>2, <1>3 DEF d

\* Replaying terminals leaves a row that has taken each of them.
LEMMA ReplayFacts ==
    ASSUME NEW c \in Change, NEW w \in Seq(Terminal)
    PROVE  LET d == Replay(c, w)
           IN /\ d \in Change /\ Covers(d.row, c.row)
              /\ \A n \in DOMAIN w : Taken(d.row, w[n])
              /\ w = << >> => d = c
              /\ \A a : Sourced(c.row, a) /\ (\A n \in DOMAIN w : Carried(w[n], a)) =>
                    Sourced(d.row, a)
<1> DEFINE X == Change
           L == Len(w)
           op(n, q) == TerminalOnRow(q, w[n])
           step == [p \in Nat \X X |-> IF p[1] + 1 \in 1..L THEN op(p[1] + 1, p[2]) ELSE p[2]]
<1>0. L \in Nat /\ DOMAIN w = 1..L /\ \A n \in 1..L : w[n] \in Terminal
  OBVIOUS
<1>1. \A n \in 1..L, q \in X : op(n, q) \in X
  BY <1>0, TerminalFacts
<1> HIDE DEF X, op, L
<1>2. step \in [Nat \X X -> X]
  BY <1>1
<1>3. c \in X
  BY DEF X
<1>4. PICK g \in [Nat -> X] : Iterates(g, c, step)
  <2> HIDE DEF step
  <2> QED BY <1>2, <1>3, Iteration
<1> DEFINE Eq(h) == h = [n \in 0..L |-> IF n = 0 THEN c ELSE op(n, h[n - 1])]
           h0 == [n \in 0..L |-> g[n]]
           f == CHOOSE h : Eq(h)
<1>5. Eq(h0)
  <2>1. ASSUME NEW n \in 0..L PROVE h0[n] = IF n = 0 THEN c ELSE op(n, h0[n - 1])
    <3>1. CASE n = 0
      BY <1>4, <2>1, <3>1 DEF Iterates
    <3>2. CASE n # 0
      <4> DEFINE k == n - 1
      <4>1. k \in Nat /\ k + 1 = n /\ n \in 1..L /\ k \in 0..L
        BY <1>0, <3>2
      <4> HIDE DEF k
      <4>2. g[k + 1] = step[<<k, g[k]>>] /\ g[k] \in X
        BY <1>4, <4>1 DEF Iterates
      <4>3. g[n] = op(n, g[k])
        BY <4>1, <4>2
      <4>4. h0[n] = g[n] /\ h0[k] = g[k]
        BY <4>1
      <4> HIDE DEF h0
      <4> QED BY <3>2, <4>3, <4>4 DEF k
    <3> QED BY <3>1, <3>2
  <2> QED BY <2>1
<1>6. Eq(f)
  <2> HIDE DEF Eq
  <2> QED BY <1>5
<1>7. Replay(c, w) = f[L]
  BY DEF Replay, op, L
<1> HIDE DEF f
<1>8. f[0] = c
  BY <1>0, <1>6
<1>9. ASSUME NEW n \in Nat, n + 1 <= L PROVE f[n + 1] = op(n + 1, f[n])
  <2>1. n + 1 \in 0..L /\ n + 1 # 0 /\ (n + 1) - 1 = n
    BY <1>0, <1>9
  <2> QED BY <1>6, <2>1
<1> DEFINE Source(n, a) == Sourced(c.row, a) /\ \A i \in 1..n : Carried(w[i], a)
           Ok(n) == /\ f[n] \in Change /\ Covers(f[n].row, c.row)
                    /\ \A i \in 1..n : Taken(f[n].row, w[i])
                    /\ \A a : Source(n, a) => Sourced(f[n].row, a)
           A == {n \in Nat : n <= L => Ok(n)}
<1>10. 0 \in A
  <2>1. 1..0 = {} /\ c.row \in Row
    BY DEF Change
  <2> QED BY <1>8, <2>1, CoversReflexive
<1>11. ASSUME NEW n \in Nat, n \in A PROVE n + 1 \in A
  <2> SUFFICES ASSUME n + 1 <= L PROVE Ok(n + 1)
    OBVIOUS
  <2> DEFINE d == f[n + 1]
             t == w[n + 1]
  <2>1. Ok(n) /\ n + 1 \in 1..L /\ t \in Terminal
    BY <1>0, <1>11
  <2>2. d = TerminalOnRow(f[n], t)
    BY <1>9 DEF op
  <2>3. \A i \in 1..(n + 1) : i \in 1..n \/ i = n + 1
    OBVIOUS
  <2>4. n + 1 \in 1..(n + 1) /\ \A i \in 1..n : i \in 1..(n + 1) /\ i \in 1..L
    BY <1>0, <2>1
  <2> HIDE DEF d, t
  <2>5. /\ d \in Change /\ Covers(d.row, f[n].row) /\ Taken(d.row, t)
        /\ \A a : Sourced(f[n].row, a) /\ Carried(t, a) => Sourced(d.row, a)
    BY <2>1, <2>2, TerminalFacts
  <2>6. d.row \in Row /\ f[n].row \in Row /\ c.row \in Row
    BY <2>1, <2>5 DEF Change
  <2>7. Covers(d.row, c.row)
    BY <2>1, <2>5, <2>6, CoversTransitive
  <2>8. ASSUME NEW i \in 1..(n + 1) PROVE Taken(d.row, w[i])
    <3>1. CASE i = n + 1
      BY <2>5, <3>1 DEF t
    <3>2. CASE i \in 1..n
      <4>1. w[i] \in Terminal /\ Taken(f[n].row, w[i])
        BY <1>0, <2>1, <2>4, <3>2
      <4>2. w[i].type \in TerminalTypes /\ w[i].at \in Nat
        BY <4>1 DEF Terminal
      <4> QED BY <2>5, <2>6, <4>1, <4>2, TakenCovered
    <3> QED BY <2>3, <3>1, <3>2
  <2>9. ASSUME NEW a, Source(n + 1, a) PROVE Sourced(d.row, a)
    <3>1. Source(n, a) /\ Carried(t, a)
      BY <2>4, <2>9 DEF t
    <3> QED BY <2>1, <2>5, <3>1
  <2> QED BY <2>5, <2>7, <2>8, <2>9 DEF d
<1>12. Nat \subseteq A
  <2> HIDE DEF A
  <2> QED BY <1>10, <1>11, Induction
<1>13. Ok(L)
  BY <1>0, <1>12
<1>14. w = << >> => f[L] = c
  BY <1>0, <1>8 DEF L
<1> QED BY <1>0, <1>7, <1>13, <1>14

-----------------------------------------------------------------------------
(***************************************************************************)
(* The fold of one event.                                                  *)
(***************************************************************************)

\* What a projection may become: no row goes back and no link is lost.
Advances(p, q) ==
    /\ \A a \in DOMAIN p.rows : a \in DOMAIN q.rows /\ Covers(q.rows[a], p.rows[a])
    /\ \A i \in DOMAIN p.alertOf : i \in DOMAIN q.alertOf /\ q.alertOf[i] = p.alertOf[i]

\* A buffered terminal stays buffered until its incident's row has taken it.
KeepsOrphans(p, q) ==
    \A i, t : t \in Terminal /\ Holds(p.orphans, i, t) =>
        \/ Holds(q.orphans, i, t)
        \/ i \in DOMAIN q.alertOf /\ Taken(q.rows[q.alertOf[i]], t)

LEMMA EventFacts ==
    ASSUME NEW e \in Events
    PROVE  e \in Record /\ e.type \in Types /\ e.at \in Nat /\ e.at # 0
<1>1. PICK o \in Offset : e = Log[o[1]][o[2]]
  BY DEF Events
<1>2. PICK p \in Partition : o \in {<<p, i>> : i \in DOMAIN Log[p]}
  BY <1>1 DEF Offset
<1>3. Log[p] \in Seq(Record)
  BY LogAssumption
<1>4. PICK i \in DOMAIN Log[p] : o = <<p, i>>
  BY <1>2
<1>5. e = Log[p][i] /\ i \in 1..Len(Log[p])
  BY <1>1, <1>3, <1>4
<1>6. e \in Record
  BY <1>3, <1>5
<1> QED BY <1>6, EventAssumption DEF Types

LEMMA SourcedByResult ==
    ASSUME NEW a, NEW e \in Results(a), NEW r, NEW q, Sourced(r, a),
           q.status \in {Rank(e), r.status},
           SameFigures(q, r) \/ (q.profit = e.profit /\ q.figuresAt = e.at),
           SameRetraction(q, r), SameFinality(q, r)
    PROVE  Sourced(q, a)
<1>1. e \in Concerning(a)
  BY DEF Concerning
<1>2. \E f \in Concerning(a) : Rank(f) = q.status
  BY <1>1 DEF Sourced
<1>3. \E f \in Results(a) : f.at = q.figuresAt /\ f.profit = q.profit
  BY DEF Sourced, SameFigures
<1> QED BY <1>2, <1>3 DEF Sourced, SameRetraction, SameFinality

LEMMA FreshFacts ==
    ASSUME NEW a, NEW e \in Results(a), NEW incident \in Ids, NEW r,
           r = FreshRow(incident, Rank(e), e.profit, e.at)
    PROVE  /\ r \in Row /\ Sourced(r, a) /\ Taken(r, e) /\ r.incident = incident
<1>1. e \in Events /\ e.type \in ResultTypes
  BY DEF Results, ResultTypes
<1>2. e \in Record /\ e.at \in Nat
  BY <1>1, EventFacts
<1>3. Rank(e) \in 0..3
  BY <1>1, RankType
<1>4. e.profit \in Profits /\ None \in Details
  BY <1>2 DEF Profits, Details
<1>5. /\ r.incident = incident /\ r.status = Rank(e) /\ r.profit = e.profit
      /\ r.figuresAt = e.at /\ r.reason = None /\ r.retractedAt = 0
      /\ r.block = None /\ r.finalizedAt = 0
  BY DEF FreshRow
<1>6. r \in Row
  BY <1>2, <1>3, <1>4 DEF FreshRow, Row
<1>7. Taken(r, e)
  BY <1>1, <1>2, <1>3, <1>5 DEF Taken, ResultTypes
<1>8. Sourced(r, a)
  BY <1>5 DEF Sourced, Concerning
<1> QED BY <1>5, <1>6, <1>7, <1>8

\* Writing a row that is as far as the one it replaces.
LEMMA WithRowFacts ==
    ASSUME NEW p, Folded(p), NEW a, NEW c \in Change, Sourced(c.row, a),
           a \in DOMAIN p.rows => Covers(c.row, p.rows[a])
    PROVE  LET q == WithRow(p, a, c)
           IN /\ Folded(q) /\ Advances(p, q)
              /\ DOMAIN q.rows = DOMAIN p.rows \cup {a} /\ q.rows[a] = c.row
              /\ q.alertOf = p.alertOf /\ q.orphans = p.orphans
<1> DEFINE q == WithRow(p, a, c)
<1>1. q = [rows |-> With(p.rows, a, c.row), alertOf |-> p.alertOf, orphans |-> p.orphans]
  <2>1. q = [p EXCEPT !.rows = With(p.rows, a, c.row)]
    BY DEF WithRow
  <2>2. p = [rows |-> p.rows, alertOf |-> p.alertOf, orphans |-> p.orphans]
    BY DEF Folded
  <2> HIDE DEF q
  <2> QED BY <2>1, <2>2
<1> HIDE DEF q
<1>2. /\ q.rows = With(p.rows, a, c.row) /\ q.alertOf = p.alertOf /\ q.orphans = p.orphans
      /\ q = [rows |-> q.rows, alertOf |-> q.alertOf, orphans |-> q.orphans]
  BY <1>1
<1>3. /\ DOMAIN q.rows = DOMAIN p.rows \cup {a} /\ q.rows[a] = c.row
      /\ \A b \in DOMAIN p.rows : b # a => q.rows[b] = p.rows[b]
  BY <1>2 DEF With
<1>4. c.row \in Row
  BY DEF Change
<1>5. \A b \in DOMAIN q.rows : q.rows[b] \in Row /\ Sourced(q.rows[b], b)
  BY <1>3, <1>4 DEF Folded
<1>6. ASSUME NEW b \in DOMAIN p.rows PROVE Covers(q.rows[b], p.rows[b])
  <2>1. p.rows[b] \in Row
    BY DEF Folded
  <2> QED BY <1>3, <2>1, CoversReflexive
<1>7. Folded(q)
  BY <1>2, <1>3, <1>5 DEF Folded
<1>8. Advances(p, q)
  BY <1>2, <1>3, <1>6 DEF Advances
<1> QED BY <1>2, <1>3, <1>7, <1>8 DEF q

LEMMA VerdictFacts ==
    ASSUME NEW x \in BOOLEAN
    PROVE  Verdict(x) = "Updated" <=> x
  BY DEF Verdict

LEMMA UnchangedFacts ==
    ASSUME NEW r \in Row
    PROVE  Unchanged(r) \in Change /\ Unchanged(r).row = r /\ Unchanged(r).changed = FALSE
  BY DEF Unchanged, Change

\* apply_completed.
LEMMA CompletedStep ==
    ASSUME NEW p, Folded(p), NEW e \in Events, e.type = "completed"
    PROVE  LET q == Apply(p, e).proj
           IN /\ Folded(q) /\ Advances(p, q)
              /\ e.alert \in DOMAIN q.rows /\ Taken(q.rows[e.alert], e)
              /\ q.alertOf = p.alertOf /\ q.orphans = p.orphans
              /\ Absorbed(p, e) => Apply(p, e).verdict # "Updated"
<1> DEFINE a == e.alert
           status == IF e.confirmed THEN Confirmed ELSE Unconfirmed
           up == AdvanceStatus(Unchanged(p.rows[a]), status)
           c == IF a \notin DOMAIN p.rows
                THEN [row |-> FreshRow(None, status, e.profit, e.at), changed |-> TRUE]
                ELSE SetFigures(up, e.profit, e.at)
<1>1. /\ e \in Results(a) /\ e \in Record /\ e.at \in Nat /\ e.profit \in Profits
      /\ None \in Ids /\ status = Rank(e) /\ status \in 0..3
  <2>1. e \in Record /\ e.at \in Nat
    BY EventFacts
  <2>2. e \in Results(a)
    BY DEF Results
  <2>3. status = Rank(e) /\ Rank(e) \in 0..3
    BY RankType DEF ResultTypes
  <2> QED BY <2>1, <2>2, <2>3 DEF Profits, Ids
<1>2. Apply(p, e) = [proj |-> WithRow(p, a, c), verdict |-> Verdict(c.changed)]
  BY DEF Apply, ApplyCompleted
<1> HIDE DEF c, up, status
<1>3. /\ c \in Change /\ Sourced(c.row, a) /\ Taken(c.row, e)
      /\ a \in DOMAIN p.rows => Covers(c.row, p.rows[a])
      /\ Absorbed(p, e) => c.changed = FALSE
  <2>1. CASE a \notin DOMAIN p.rows
    <3>1. c = [row |-> FreshRow(None, Rank(e), e.profit, e.at), changed |-> TRUE]
      BY <1>1, <2>1 DEF c
    <3>2. c.row \in Row /\ Sourced(c.row, a) /\ Taken(c.row, e)
      BY <1>1, <3>1, FreshFacts
    <3>3. c \in Change
      BY <3>1, <3>2 DEF Change
    <3>4. ~Absorbed(p, e)
      BY <2>1 DEF Absorbed, ResultTypes
    <3> QED BY <2>1, <3>2, <3>3, <3>4
  <2>2. CASE a \in DOMAIN p.rows
    <3> DEFINE r == p.rows[a]
               u == Unchanged(r)
    <3>1. r \in Row /\ Sourced(r, a)
      BY <2>2 DEF Folded
    <3>2. u \in Change /\ u.row = r /\ u.changed = FALSE
      BY <3>1, UnchangedFacts
    <3>3. up = AdvanceStatus(u, status) /\ c = SetFigures(up, e.profit, e.at)
      BY <2>2 DEF up, c
    <3> HIDE DEF r, u
    <3>4. /\ up \in Change /\ Covers(up.row, r)
          /\ up.row.status >= status /\ up.row.status \in {status, r.status}
          /\ SameFigures(up.row, r) /\ SameRetraction(up.row, r)
          /\ SameFinality(up.row, r) /\ up.row.incident = r.incident
          /\ status <= r.status => up = u
      BY <1>1, <3>2, <3>3, AdvanceFacts
    <3>5. /\ c \in Change /\ Covers(c.row, up.row) /\ c.row.figuresAt >= e.at
          /\ SameFigures(c.row, up.row) \/ (c.row.profit = e.profit /\ c.row.figuresAt = e.at)
          /\ SameRetraction(c.row, up.row) /\ SameFinality(c.row, up.row)
          /\ c.row.incident = up.row.incident /\ c.row.status = up.row.status
          /\ e.at <= up.row.figuresAt => c = up
      BY <1>1, <3>3, <3>4, FiguresFacts
    <3>6. c.row \in Row /\ up.row \in Row
      BY <3>4, <3>5 DEF Change
    <3>7. Covers(c.row, r)
      BY <3>1, <3>4, <3>5, <3>6, CoversTransitive
    <3>8. Sourced(c.row, a)
      <4>1. /\ SameFigures(c.row, r) \/ (c.row.profit = e.profit /\ c.row.figuresAt = e.at)
            /\ SameRetraction(c.row, r) /\ SameFinality(c.row, r)
        BY <3>4, <3>5 DEF SameFigures, SameRetraction, SameFinality
      <4>2. c.row.status \in {Rank(e), r.status}
        BY <1>1, <3>4, <3>5
      <4> QED BY <1>1, <3>1, <4>1, <4>2, SourcedByResult
    <3>9. Taken(c.row, e)
      BY <1>1, <3>4, <3>5 DEF Taken, ResultTypes
    <3>10. ASSUME Absorbed(p, e) PROVE c.changed = FALSE
      <4>1. Taken(r, e)
        BY <3>10 DEF Absorbed, ResultTypes, r
      <4>2. status <= r.status /\ e.at <= r.figuresAt
        BY <1>1, <3>1, <4>1 DEF Taken, ResultTypes, Row
      <4>3. e.at <= up.row.figuresAt
        BY <3>4, <4>2 DEF SameFigures
      <4> QED BY <3>2, <3>4, <3>5, <4>2, <4>3
    <3> QED BY <3>5, <3>7, <3>8, <3>9, <3>10 DEF r
  <2> QED BY <2>1, <2>2
<1>4. c.changed \in BOOLEAN
  BY <1>3 DEF Change
<1>5. Apply(p, e).proj = WithRow(p, a, c) /\ Apply(p, e).verdict = Verdict(c.changed)
  BY <1>2
<1> HIDE DEF a
<1>6. /\ Folded(WithRow(p, a, c)) /\ Advances(p, WithRow(p, a, c))
      /\ DOMAIN WithRow(p, a, c).rows = DOMAIN p.rows \cup {a}
      /\ WithRow(p, a, c).rows[a] = c.row
      /\ WithRow(p, a, c).alertOf = p.alertOf /\ WithRow(p, a, c).orphans = p.orphans
  BY <1>3, WithRowFacts
<1> QED BY <1>3, <1>4, <1>5, <1>6, VerdictFacts DEF a

LEMMA CreatedAlert ==
    ASSUME NEW e \in Events, e.type = "created", NEW a, e.incident \in Incidents(a)
    PROVE  a = e.alert
<1>1. PICK f \in Results(a) : f.type = "created" /\ f.incident = e.incident
  BY DEF Incidents
<1>2. f \in Events /\ f.alert = a
  BY <1>1 DEF Results
<1>3. e \in Record /\ f \in Record
  BY <1>2, EventFacts
<1> QED BY <1>1, <1>2, <1>3, EventAssumption

\* The row an IncidentCreated leaves, before orphans are replayed on it.
LEMMA CreatedRowFacts ==
    ASSUME NEW p, Folded(p), NEW e \in Events, e.type = "created"
    PROVE  LET a == e.alert
               c == CreatedRow(p, e)
           IN /\ c \in Change /\ Sourced(c.row, a) /\ Taken(c.row, e)
              /\ c.row.incident # None
              /\ a \in DOMAIN p.rows => Covers(c.row, p.rows[a])
              /\ Absorbed(p, e) => c.changed = FALSE
<1> DEFINE a == e.alert
           c == CreatedRow(p, e)
<1>1. /\ e \in Results(a) /\ e \in Record /\ e.at \in Nat /\ e.profit \in Profits
      /\ e.incident \in Ids /\ e.incident # None
      /\ Confirmed = Rank(e) /\ Confirmed \in 0..3
  <2>1. e \in Record /\ e.at \in Nat
    BY EventFacts
  <2>2. e \in Results(a)
    BY DEF Results
  <2>3. Confirmed = Rank(e) /\ Rank(e) \in 0..3
    BY RankType DEF ResultTypes
  <2>4. e.incident # None
    BY <2>1, EventAssumption
  <2> QED BY <2>1, <2>2, <2>3, <2>4 DEF Profits, Ids
<1>2. CASE a \notin DOMAIN p.rows
  <2>1. c = [row |-> FreshRow(e.incident, Rank(e), e.profit, e.at), changed |-> TRUE]
    BY <1>1, <1>2 DEF CreatedRow
  <2>2. c.row \in Row /\ Sourced(c.row, a) /\ Taken(c.row, e) /\ c.row.incident = e.incident
    BY <1>1, <2>1, FreshFacts
  <2>3. c \in Change
    BY <2>1, <2>2 DEF Change
  <2>4. ~Absorbed(p, e)
    BY <1>2 DEF Absorbed, ResultTypes
  <2> QED BY <1>1, <1>2, <2>2, <2>3, <2>4
<1>3. CASE a \in DOMAIN p.rows
  <2> DEFINE r == p.rows[a]
             u == Unchanged(r)
             id == SetIdentity(u, e.incident)
             up == AdvanceStatus(id, Confirmed)
  <2>1. r \in Row /\ Sourced(r, a)
    BY <1>3 DEF Folded
  <2>2. u \in Change /\ u.row = r /\ u.changed = FALSE
    BY <2>1, UnchangedFacts
  <2>3. c = SetFigures(up, e.profit, e.at)
    BY <1>3 DEF CreatedRow
  <2> HIDE DEF r, u, c
  <2>4. /\ id \in Change /\ Covers(id.row, r) /\ id.row.incident # None
        /\ SameFigures(id.row, r) /\ SameRetraction(id.row, r)
        /\ SameFinality(id.row, r) /\ id.row.status = r.status
        /\ r.incident # None => id = u
    BY <1>1, <2>2, IdentityFacts
  <2> HIDE DEF id
  <2>5. /\ up \in Change /\ Covers(up.row, id.row)
        /\ up.row.status >= Confirmed /\ up.row.status \in {Confirmed, id.row.status}
        /\ SameFigures(up.row, id.row) /\ SameRetraction(up.row, id.row)
        /\ SameFinality(up.row, id.row) /\ up.row.incident = id.row.incident
        /\ Confirmed <= id.row.status => up = id
    BY <1>1, <2>4, AdvanceFacts
  <2> HIDE DEF up
  <2>6. /\ c \in Change /\ Covers(c.row, up.row) /\ c.row.figuresAt >= e.at
        /\ SameFigures(c.row, up.row) \/ (c.row.profit = e.profit /\ c.row.figuresAt = e.at)
        /\ SameRetraction(c.row, up.row) /\ SameFinality(c.row, up.row)
        /\ c.row.incident = up.row.incident /\ c.row.status = up.row.status
        /\ e.at <= up.row.figuresAt => c = up
    BY <1>1, <2>3, <2>5, FiguresFacts
  <2>7. c.row \in Row /\ up.row \in Row /\ id.row \in Row
    BY <2>4, <2>5, <2>6 DEF Change
  <2>8. Covers(c.row, r)
    <3>1. Covers(c.row, id.row)
      BY <2>5, <2>6, <2>7, CoversTransitive
    <3> QED BY <2>1, <2>4, <2>7, <3>1, CoversTransitive
  <2>9. Sourced(c.row, a)
    <3>1. /\ SameFigures(c.row, r) \/ (c.row.profit = e.profit /\ c.row.figuresAt = e.at)
          /\ SameRetraction(c.row, r) /\ SameFinality(c.row, r)
      BY <2>4, <2>5, <2>6 DEF SameFigures, SameRetraction, SameFinality
    <3>2. c.row.status \in {Rank(e), r.status}
      BY <1>1, <2>4, <2>5, <2>6
    <3> QED BY <1>1, <2>1, <3>1, <3>2, SourcedByResult
  <2>10. Taken(c.row, e)
    BY <1>1, <2>5, <2>6 DEF Taken, ResultTypes
  <2>11. ASSUME Absorbed(p, e) PROVE c.changed = FALSE
    <3>1. Taken(r, e) /\ r.incident # None
      BY <2>11 DEF Absorbed, ResultTypes, r
    <3>2. Confirmed <= r.status /\ e.at <= r.figuresAt
      BY <1>1, <2>1, <3>1 DEF Taken, ResultTypes, Row
    <3>3. e.at <= up.row.figuresAt
      BY <2>4, <2>5, <3>2 DEF SameFigures
    <3> QED BY <2>2, <2>4, <2>5, <2>6, <3>1, <3>2, <3>3
  <2> QED BY <2>4, <2>5, <2>6, <2>8, <2>9, <2>10, <2>11 DEF r, c
<1> QED BY <1>2, <1>3

LEMMA SentIsCarried ==
    ASSUME NEW i, NEW a, i \in Incidents(a), NEW t, SentFor(t, i)
    PROVE  Carried(t, a)
<1>1. PICK f \in Events : f.type \in TerminalTypes /\ f.incident = i /\ t = TerminalOf(f)
  BY DEF SentFor
<1>2. t.type = f.type /\ t.at = f.at /\ t.detail = f.detail
  BY <1>1 DEF TerminalOf
<1>3. f \in Terminals(a, t.type)
  BY <1>1, <1>2 DEF Terminals
<1> QED BY <1>2, <1>3 DEF Carried

\* apply_created.
LEMMA CreatedStep ==
    ASSUME NEW p, Folded(p), NEW e \in Events, e.type = "created"
    PROVE  LET q == Apply(p, e).proj
           IN /\ Folded(q) /\ Advances(p, q) /\ KeepsOrphans(p, q)
              /\ Absorbed(q, e) /\ q.alertOf[e.incident] = e.alert
              /\ Absorbed(p, e) => Apply(p, e).verdict # "Updated"
<1> DEFINE a == e.alert
           i == e.incident
           base == CreatedRow(p, e)
           w == IF i \in Live(p.orphans) THEN p.orphans.entries[i] ELSE << >>
           c == Replay(base, w)
           m == WithRow(p, a, c)
           q == Apply(p, e).proj
<1>1. Apply(p, e) = [proj |-> [m EXCEPT !.alertOf = With(m.alertOf, i, a),
                                        !.orphans = Take(m.orphans, i)],
                     verdict |-> Verdict(c.changed)]
  BY DEF Apply, ApplyCreated
<1>2. /\ base \in Change /\ Sourced(base.row, a) /\ Taken(base.row, e)
      /\ base.row.incident # None
      /\ a \in DOMAIN p.rows => Covers(base.row, p.rows[a])
      /\ Absorbed(p, e) => base.changed = FALSE
  BY CreatedRowFacts
<1>3. i \in Incidents(a) /\ e.at \in Nat /\ e.type \in ResultTypes
  <2>1. e \in Results(a)
    BY DEF Results
  <2> QED BY <2>1, EventFacts DEF Incidents, ResultTypes
<1>4. w \in Seq(Terminal) /\ \A n \in DOMAIN w : SentFor(w[n], i)
  BY DEF Folded
<1>5. \A n \in DOMAIN w : Carried(w[n], a)
  <2> HIDE DEF w, a, i
  <2> QED BY <1>3, <1>4, SentIsCarried
<1> HIDE DEF base
<1>6. /\ c \in Change /\ Covers(c.row, base.row)
      /\ \A n \in DOMAIN w : Taken(c.row, w[n])
      /\ w = << >> => c = base
      /\ Sourced(c.row, a)
  <2> HIDE DEF w, a, i
  <2> QED BY <1>2, <1>4, <1>5, ReplayFacts
<1>7. base.row \in Row /\ c.row \in Row /\ c.changed \in BOOLEAN
  BY <1>2, <1>6 DEF Change
<1>8. a \in DOMAIN p.rows => Covers(c.row, p.rows[a])
  <2>1. ASSUME a \in DOMAIN p.rows PROVE p.rows[a] \in Row
    BY <2>1 DEF Folded
  <2> HIDE DEF c, a
  <2> QED BY <1>2, <1>6, <1>7, <2>1, CoversTransitive
<1>9. Taken(c.row, e) /\ c.row.incident # None
  <2> HIDE DEF c
  <2>1. Taken(c.row, e)
    BY <1>2, <1>3, <1>6, <1>7, TakenCovered
  <2> QED BY <1>2, <1>6, <2>1 DEF Covers
<1>10. /\ Folded(m) /\ Advances(p, m)
       /\ DOMAIN m.rows = DOMAIN p.rows \cup {a} /\ m.rows[a] = c.row
       /\ m.alertOf = p.alertOf /\ m.orphans = p.orphans
  <2> HIDE DEF c, a
  <2> QED BY <1>6, <1>8, WithRowFacts
<1>11. q = [rows |-> m.rows, alertOf |-> With(p.alertOf, i, a), orphans |-> Take(p.orphans, i)]
  <2>1. q = [m EXCEPT !.alertOf = With(m.alertOf, i, a), !.orphans = Take(m.orphans, i)]
    BY <1>1
  <2>2. m = [rows |-> m.rows, alertOf |-> m.alertOf, orphans |-> m.orphans]
    BY <1>10 DEF Folded
  <2> HIDE DEF q, m, a, i
  <2> QED BY <1>10, <2>1, <2>2
<1>12. Apply(p, e).verdict = Verdict(c.changed)
  BY <1>1
<1> HIDE DEF q, m, c, w, a, i
<1>13. /\ q.rows = m.rows /\ q.alertOf = With(p.alertOf, i, a) /\ q.orphans = Take(p.orphans, i)
       /\ q = [rows |-> q.rows, alertOf |-> q.alertOf, orphans |-> q.orphans]
  BY <1>11
<1>14. /\ DOMAIN q.alertOf = DOMAIN p.alertOf \cup {i} /\ q.alertOf[i] = a
       /\ \A j \in DOMAIN p.alertOf : q.alertOf[j] = p.alertOf[j]
  <2>1. /\ DOMAIN q.alertOf = DOMAIN p.alertOf \cup {i} /\ q.alertOf[i] = a
        /\ \A j \in DOMAIN p.alertOf : j # i => q.alertOf[j] = p.alertOf[j]
    BY <1>13 DEF With
  <2>2. i \in DOMAIN p.alertOf => p.alertOf[i] = a
    BY CreatedAlert DEF Folded, a, i
  <2> QED BY <2>1, <2>2
<1>15. /\ q.orphans = [entries |-> Without(p.orphans.entries, i), order |-> p.orphans.order]
       /\ Live(q.orphans) = Live(p.orphans) \ {i}
       /\ \A j \in Live(q.orphans) : q.orphans.entries[j] = p.orphans.entries[j]
  <2>1. q.orphans = [p.orphans EXCEPT !.entries = Without(p.orphans.entries, i)]
    BY <1>13 DEF Take
  <2>2. p.orphans = [entries |-> p.orphans.entries, order |-> p.orphans.order]
    BY DEF Folded
  <2>3. q.orphans = [entries |-> Without(p.orphans.entries, i), order |-> p.orphans.order]
    BY <2>1, <2>2
  <2> QED BY <2>3 DEF Live, Without
<1>16. Folded(q)
  <2>1. \A b \in DOMAIN q.rows : q.rows[b] \in Row /\ Sourced(q.rows[b], b)
    BY <1>10, <1>13 DEF Folded
  <2>2. \A j \in DOMAIN q.alertOf :
            q.alertOf[j] \in DOMAIN q.rows /\ j \in Incidents(q.alertOf[j])
    <3> SUFFICES ASSUME NEW j \in DOMAIN q.alertOf
                 PROVE  q.alertOf[j] \in DOMAIN q.rows /\ j \in Incidents(q.alertOf[j])
      OBVIOUS
    <3>1. CASE j = i
      BY <1>3, <1>10, <1>13, <1>14, <3>1 DEF a, i
    <3>2. CASE j # i
      BY <1>10, <1>13, <1>14, <3>2 DEF Folded
    <3> QED BY <3>1, <3>2
  <2>3. q.orphans = [entries |-> q.orphans.entries, order |-> q.orphans.order]
    BY <1>15
  <2>4. \A j \in Live(q.orphans) :
            /\ j \in Awaited /\ j \notin DOMAIN q.alertOf
            /\ q.orphans.entries[j] \in Seq(Terminal)
            /\ \A n \in DOMAIN q.orphans.entries[j] : SentFor(q.orphans.entries[j][n], j)
    BY <1>14, <1>15 DEF Folded
  <2> QED BY <1>13, <2>1, <2>2, <2>3, <2>4 DEF Folded
<1>17. Advances(p, q)
  BY <1>10, <1>13, <1>14 DEF Advances
<1>18. KeepsOrphans(p, q)
  <2> SUFFICES ASSUME NEW j, NEW t \in Terminal, Holds(p.orphans, j, t)
               PROVE  \/ Holds(q.orphans, j, t)
                      \/ j \in DOMAIN q.alertOf /\ Taken(q.rows[q.alertOf[j]], t)
    BY DEF KeepsOrphans
  <2>1. CASE j = i
    <3>1. w = p.orphans.entries[i]
      BY <2>1 DEF w, Holds
    <3>2. PICK n \in DOMAIN w : t = w[n]
      BY <2>1, <3>1 DEF Holds
    <3>3. Taken(c.row, t)
      BY <1>6, <3>2
    <3> QED BY <1>10, <1>13, <1>14, <2>1, <3>3
  <2>2. CASE j # i
    BY <1>15, <2>2 DEF Holds
  <2> QED BY <2>1, <2>2
<1>19. Absorbed(q, e)
  BY <1>9, <1>10, <1>13, <1>14, <1>3 DEF Absorbed, TerminalTypes, a, i
<1>20. ASSUME Absorbed(p, e) PROVE Apply(p, e).verdict # "Updated"
  <2>1. i \in DOMAIN p.alertOf
    BY <1>20, <1>3 DEF Absorbed, i
  <2>2. i \notin Live(p.orphans)
    BY <2>1 DEF Folded
  <2>3. c.changed = FALSE
    BY <1>2, <1>6, <1>20, <2>2 DEF w
  <2> QED BY <1>12, <2>3, VerdictFacts
<1> QED BY <1>14, <1>16, <1>17, <1>18, <1>19, <1>20 DEF q, a, i

\* put: the other keys either stay as they are or are evicted, and none is
\* evicted while there is room.
LEMMA PutFacts ==
    ASSUME NEW m, m = [entries |-> m.entries, order |-> m.order], NEW k, NEW v
    PROVE  LET q == Put(m, k, v)
           IN /\ q = [entries |-> q.entries, order |-> q.order]
              /\ k \in Live(q) /\ q.entries[k] = v
              /\ \A x \in Live(q) : x # k => x \in Live(m) /\ q.entries[x] = m.entries[x]
              /\ Capacity = 0 \/ k \in Live(m) \/ Cardinality(Live(m)) < Capacity =>
                    \A x \in Live(m) : x \in Live(q)
<1> DEFINE q == Put(m, k, v)
<1>1. CASE k \in Live(m)
  <2>1. q = [m EXCEPT !.entries = With(m.entries, k, v)]
    BY <1>1 DEF Put
  <2>2. q = [entries |-> With(m.entries, k, v), order |-> m.order]
    BY <2>1
  <2> HIDE DEF q
  <2> QED BY <1>1, <2>2 DEF Live, With, q
<1>2. CASE k \notin Live(m)
  <2> DEFINE e == EvictToFit(m)
  <2>1. q = [entries |-> With(e.entries, k, v), order |-> Append(e.order, k)]
    BY <1>2 DEF Put
  <2>2. /\ \A x \in Live(e) : x \in Live(m) /\ e.entries[x] = m.entries[x]
        /\ Capacity = 0 \/ Cardinality(Live(m)) < Capacity => e = m
    <3>1. CASE Capacity = 0 \/ Cardinality(Live(m)) < Capacity
      BY <3>1 DEF EvictToFit
    <3>2. CASE ~(Capacity = 0 \/ Cardinality(Live(m)) < Capacity)
      <4>1. CASE \E i \in DOMAIN m.order : m.order[i] \in Live(m)
        <5>1. e = [entries |-> Without(m.entries, m.order[OldestLive(m)]),
                   order |-> SubSeq(m.order, OldestLive(m) + 1, Len(m.order))]
          BY <3>2, <4>1 DEF EvictToFit
        <5> HIDE DEF e
        <5> QED BY <3>2, <5>1 DEF Live, Without
      <4>2. CASE ~\E i \in DOMAIN m.order : m.order[i] \in Live(m)
        <5>1. e = [m EXCEPT !.order = << >>]
          BY <3>2, <4>2 DEF EvictToFit
        <5>2. e.entries = m.entries
          BY <5>1
        <5> HIDE DEF e
        <5> QED BY <3>2, <5>2 DEF Live
      <4> QED BY <4>1, <4>2
    <3> QED BY <3>1, <3>2
  <2> HIDE DEF q, e
  <2>3. q.entries = With(e.entries, k, v) /\ q = [entries |-> q.entries, order |-> q.order]
    BY <2>1
  <2>4. /\ Live(q) = Live(e) \cup {k} /\ q.entries[k] = v
        /\ \A x \in Live(e) : x # k => q.entries[x] = e.entries[x]
    BY <2>3 DEF Live, With
  <2> QED BY <1>2, <2>2, <2>3, <2>4 DEF q
<1> QED BY <1>1, <1>2

\* OrphanBuffer::buffer.
LEMMA BufferFacts ==
    ASSUME NEW m, m = [entries |-> m.entries, order |-> m.order], NEW k, NEW t \in Terminal,
           \A x \in Live(m) : m.entries[x] \in Seq(Terminal)
    PROVE  LET q == Buffer(m, k, t)
           IN /\ q = [entries |-> q.entries, order |-> q.order]
              /\ Holds(q, k, t)
              /\ \A x \in Live(q) : x # k => x \in Live(m) /\ q.entries[x] = m.entries[x]
              /\ q.entries[k] \in Seq(Terminal)
              /\ \A n \in DOMAIN q.entries[k] : q.entries[k][n] = t \/ Holds(m, k, q.entries[k][n])
              /\ Capacity = 0 \/ k \in Live(m) \/ Cardinality(Live(m)) < Capacity =>
                    \A x, u : Holds(m, x, u) => Holds(q, x, u)
<1> DEFINE q == Buffer(m, k, t)
<1>1. CASE Holds(m, k, t)
  <2>1. q = m
    BY <1>1 DEF Buffer
  <2> QED BY <1>1, <2>1 DEF Holds
<1>2. CASE ~Holds(m, k, t)
  <2> DEFINE v == IF k \in Live(m) THEN Append(m.entries[k], t) ELSE <<t>>
  <2>1. q = Put(m, k, v)
    BY <1>2 DEF Buffer
  <2>2. /\ v \in Seq(Terminal)
        /\ \E n \in DOMAIN v : v[n] = t
        /\ \A n \in DOMAIN v : v[n] = t \/ Holds(m, k, v[n])
        /\ \A u : Holds(m, k, u) => \E n \in DOMAIN v : v[n] = u
    <3>1. CASE k \in Live(m)
      <4> DEFINE s == m.entries[k]
      <4>1. s \in Seq(Terminal) /\ v = Append(s, t)
        BY <3>1
      <4> HIDE DEF s, v
      <4>2. /\ v \in Seq(Terminal) /\ Len(s) \in Nat /\ DOMAIN s = 1..Len(s)
            /\ DOMAIN v = 1..(Len(s) + 1) /\ v[Len(s) + 1] = t
            /\ \A n \in 1..Len(s) : v[n] = s[n]
        BY <4>1
      <4>3. /\ Len(s) + 1 \in DOMAIN v
            /\ \A n \in DOMAIN v : n = Len(s) + 1 \/ n \in DOMAIN s
            /\ \A n \in DOMAIN s : n \in DOMAIN v
        BY <4>2
      <4> QED BY <3>1, <4>2, <4>3 DEF Holds, s
    <3>2. CASE k \notin Live(m)
      <4>1. v = <<t>>
        BY <3>2
      <4> HIDE DEF v
      <4>2. v \in Seq(Terminal) /\ DOMAIN v = {1} /\ v[1] = t
        BY <4>1
      <4> QED BY <3>2, <4>2 DEF Holds
    <3> QED BY <3>1, <3>2
  <2> HIDE DEF v, q
  <2>3. /\ q = [entries |-> q.entries, order |-> q.order]
        /\ k \in Live(q) /\ q.entries[k] = v
        /\ \A x \in Live(q) : x # k => x \in Live(m) /\ q.entries[x] = m.entries[x]
        /\ Capacity = 0 \/ k \in Live(m) \/ Cardinality(Live(m)) < Capacity =>
              \A x \in Live(m) : x \in Live(q)
    BY <2>1, PutFacts
  <2>4. Holds(q, k, t)
    BY <2>2, <2>3 DEF Holds
  <2>5. ASSUME Capacity = 0 \/ k \in Live(m) \/ Cardinality(Live(m)) < Capacity,
               NEW x, NEW u, Holds(m, x, u)
        PROVE  Holds(q, x, u)
    <3>1. CASE x = k
      <4>1. PICK n \in DOMAIN v : v[n] = u
        BY <2>2, <2>5, <3>1
      <4> QED BY <2>3, <3>1, <4>1 DEF Holds
    <3>2. CASE x # k
      BY <2>3, <2>5, <3>2 DEF Holds
    <3> QED BY <3>1, <3>2
  <2> QED BY <2>2, <2>3, <2>4, <2>5 DEF q
<1> QED BY <1>1, <1>2

\* A terminal that comes after its link.
LEMMA LinkedStep ==
    ASSUME NEW p, Folded(p), NEW e \in Events, e.type \in TerminalTypes,
           e.incident \in DOMAIN p.alertOf
    PROVE  LET q == Apply(p, e).proj
           IN /\ Folded(q) /\ Advances(p, q)
              /\ q.alertOf = p.alertOf /\ q.orphans = p.orphans
              /\ Absorbed(q, e)
              /\ Absorbed(p, e) => Apply(p, e).verdict # "Updated"
<1> DEFINE t == TerminalOf(e)
           i == e.incident
           a == p.alertOf[i]
           u == Unchanged(p.rows[a])
           c == TerminalOnRow(u, t)
           q == Apply(p, e).proj
<1>1. e \in Record /\ e.at \in Nat /\ e.type \notin ResultTypes
  BY EventFacts DEF TerminalTypes, ResultTypes
<1>2. t \in Terminal /\ t.type = e.type /\ t.at = e.at /\ t.detail = e.detail
  BY <1>1 DEF TerminalOf, Terminal, Details
<1>3. Apply(p, e) = [proj |-> WithRow(p, a, c), verdict |-> Verdict(c.changed)]
  BY <1>1 DEF Apply, ApplyTerminal, TerminalTypes, TerminalOf
<1>4. a \in DOMAIN p.rows /\ i \in Incidents(a) /\ p.rows[a] \in Row /\ Sourced(p.rows[a], a)
  BY DEF Folded
<1>5. u \in Change /\ u.row = p.rows[a] /\ u.changed = FALSE
  BY <1>4, UnchangedFacts
<1>6. Carried(t, a)
  <2>1. SentFor(t, i)
    BY DEF SentFor
  <2> HIDE DEF t, a, i
  <2> QED BY <1>4, <2>1, SentIsCarried
<1>7. \A r : Taken(r, e) <=> Taken(r, t)
  <2>1. Rank(e) = Rank(t)
    BY <1>2, RankType DEF TerminalTypes
  <2> QED BY <1>2, <2>1 DEF Taken
<1> HIDE DEF u, t
<1>8. /\ c \in Change /\ Covers(c.row, p.rows[a]) /\ Taken(c.row, t)
      /\ Taken(p.rows[a], t) => c = u
      /\ Sourced(c.row, a)
  <2> HIDE DEF a
  <2> QED BY <1>2, <1>4, <1>5, <1>6, TerminalFacts
<1>9. q = WithRow(p, a, c) /\ Apply(p, e).verdict = Verdict(c.changed)
  BY <1>3
<1> HIDE DEF c, q, a
<1>10. /\ Folded(q) /\ Advances(p, q) /\ q.rows[a] = c.row
       /\ q.alertOf = p.alertOf /\ q.orphans = p.orphans
  BY <1>8, <1>9, WithRowFacts
<1>11. Absorbed(q, e)
  BY <1>1, <1>7, <1>8, <1>10 DEF Absorbed, LinkedTaken, a
<1>12. ASSUME Absorbed(p, e) PROVE Apply(p, e).verdict # "Updated"
  <2>1. Taken(p.rows[a], t)
    BY <1>7, <1>12 DEF Absorbed, LinkedTaken, a
  <2> QED BY <1>5, <1>8, <1>9, <2>1, VerdictFacts
<1> QED BY <1>10, <1>11, <1>12 DEF q

\* A terminal that comes before its link.
LEMMA OrphanStep ==
    ASSUME NEW p, Folded(p), NEW e \in Events, e.type \in TerminalTypes,
           e.incident \notin DOMAIN p.alertOf
    PROVE  LET q == Apply(p, e).proj
           IN /\ Folded(q) /\ Advances(p, q)
              /\ q.alertOf = p.alertOf /\ q.rows = p.rows
              /\ Holds(q.orphans, e.incident, TerminalOf(e))
              /\ Roomy => KeepsOrphans(p, q)
<1> DEFINE t == TerminalOf(e)
           i == e.incident
           m == Buffer(p.orphans, i, t)
           q == Apply(p, e).proj
<1>1. e \in Record /\ e.at \in Nat /\ e.type \notin ResultTypes
  BY EventFacts DEF TerminalTypes, ResultTypes
<1>2. t \in Terminal
  BY <1>1 DEF TerminalOf, Terminal, Details
<1>3. q = [p EXCEPT !.orphans = m]
  BY <1>1 DEF Apply, ApplyTerminal, TerminalTypes, TerminalOf
<1>4. /\ p = [rows |-> p.rows, alertOf |-> p.alertOf, orphans |-> p.orphans]
      /\ p.orphans = [entries |-> p.orphans.entries, order |-> p.orphans.order]
      /\ \A x \in Live(p.orphans) : p.orphans.entries[x] \in Seq(Terminal)
  BY DEF Folded
<1>5. SentFor(t, i)
  BY DEF SentFor
<1> HIDE DEF q, m, t
<1>6. q = [rows |-> p.rows, alertOf |-> p.alertOf, orphans |-> m]
  BY <1>3, <1>4
<1>7. /\ q.rows = p.rows /\ q.alertOf = p.alertOf /\ q.orphans = m
      /\ q = [rows |-> q.rows, alertOf |-> q.alertOf, orphans |-> q.orphans]
  BY <1>6
<1>8. /\ m = [entries |-> m.entries, order |-> m.order]
      /\ Holds(m, i, t)
      /\ \A x \in Live(m) : x # i => x \in Live(p.orphans) /\ m.entries[x] = p.orphans.entries[x]
      /\ m.entries[i] \in Seq(Terminal)
      /\ \A n \in DOMAIN m.entries[i] :
            m.entries[i][n] = t \/ Holds(p.orphans, i, m.entries[i][n])
      /\ Capacity = 0 \/ i \in Live(p.orphans) \/ Cardinality(Live(p.orphans)) < Capacity =>
            \A x, u : Holds(p.orphans, x, u) => Holds(m, x, u)
  BY <1>2, <1>4, BufferFacts DEF m
<1>9. ASSUME NEW x \in Live(m)
      PROVE  /\ x \in Awaited /\ x \notin DOMAIN p.alertOf /\ m.entries[x] \in Seq(Terminal)
             /\ \A n \in DOMAIN m.entries[x] : SentFor(m.entries[x][n], x)
  <2>1. CASE x # i
    BY <1>8, <1>9, <2>1 DEF Folded
  <2>2. CASE x = i
    <3>1. ASSUME NEW n \in DOMAIN m.entries[i] PROVE SentFor(m.entries[i][n], i)
      <4>1. CASE Holds(p.orphans, i, m.entries[i][n])
        BY <4>1 DEF Holds, Folded
      <4> QED BY <1>5, <1>8, <4>1
    <3>2. i \in Awaited
      BY DEF Awaited
    <3> QED BY <1>8, <2>2, <3>1, <3>2 DEF i
  <2> QED BY <2>1, <2>2
<1>10. Folded(q)
  BY <1>7, <1>8, <1>9 DEF Folded
<1>11. Advances(p, q)
  <2>1. \A b \in DOMAIN p.rows : p.rows[b] \in Row
    BY DEF Folded
  <2> QED BY <1>7, <2>1, CoversReflexive DEF Advances
<1>12. ASSUME Roomy PROVE KeepsOrphans(p, q)
  <2>1. Capacity = 0 \/ i \in Live(p.orphans) \/ Cardinality(Live(p.orphans)) < Capacity
    <3> SUFFICES ASSUME Capacity # 0, i \notin Live(p.orphans)
                 PROVE  Cardinality(Live(p.orphans)) < Capacity
      OBVIOUS
    <3>1. IsFiniteSet(Awaited) /\ Cardinality(Awaited) <= Capacity /\ Capacity \in Nat
      BY <1>12, CapacityAssumption DEF Roomy
    <3>2. i \in Awaited
      BY DEF Awaited
    <3>3. Live(p.orphans) \subseteq Awaited
      BY DEF Folded
    <3>4. /\ IsFiniteSet(Awaited \ {i})
          /\ Cardinality(Awaited \ {i}) = Cardinality(Awaited) - 1
      BY <3>1, <3>2, FS_RemoveElement
    <3>5. Live(p.orphans) \subseteq Awaited \ {i}
      BY <3>3
    <3>6. /\ IsFiniteSet(Live(p.orphans))
          /\ Cardinality(Live(p.orphans)) <= Cardinality(Awaited \ {i})
      BY <3>4, <3>5, FS_Subset
    <3>7. Cardinality(Live(p.orphans)) \in Nat /\ Cardinality(Awaited) \in Nat
      BY <3>1, <3>6, FS_CardinalityType
    <3> QED BY <3>1, <3>4, <3>6, <3>7
  <2> QED BY <1>7, <1>8, <2>1 DEF KeepsOrphans
<1> QED BY <1>7, <1>8, <1>10, <1>11, <1>12 DEF q, t

\* The fold of one event, whatever its type.
LEMMA FoldStep ==
    ASSUME NEW p, Folded(p), NEW e \in Events
    PROVE  LET q == Apply(p, e).proj
           IN /\ Folded(q) /\ Advances(p, q) /\ (Roomy => KeepsOrphans(p, q))
              /\ RowOf(q, e) \subseteq DOMAIN q.rows
              /\ RowOf(q, e) # {} => Absorbed(q, e)
              /\ e.type \in ResultTypes => RowOf(q, e) = {e.alert}
              /\ e.type = "created" =>
                    e.incident \in DOMAIN q.alertOf /\ q.alertOf[e.incident] = e.alert
              /\ e.type \in TerminalTypes =>
                    \/ Holds(q.orphans, e.incident, TerminalOf(e))
                    \/ RowOf(q, e) = {q.alertOf[e.incident]}
              /\ \A i \in DOMAIN q.alertOf :
                    i \in DOMAIN p.alertOf \/ (e.type = "created" /\ i = e.incident)
              /\ Absorbed(p, e) /\ RowOf(q, e) # {} => Apply(p, e).verdict # "Updated"
<1> DEFINE q == Apply(p, e).proj
<1>1. e.type \in Types
  BY EventFacts
<1>2. CASE e.type = "requested"
  <2>1. q = p /\ RowOf(q, e) = {}
    BY <1>2 DEF Apply, RowOf
  <2>2. Advances(p, p) /\ KeepsOrphans(p, p)
    <3>1. \A a \in DOMAIN p.rows : p.rows[a] \in Row
      BY DEF Folded
    <3> QED BY <3>1, CoversReflexive DEF Advances, KeepsOrphans
  <2> QED BY <1>2, <2>1, <2>2 DEF ResultTypes, TerminalTypes
<1>3. CASE e.type = "completed"
  <2> HIDE DEF q
  <2>1. /\ Folded(q) /\ Advances(p, q)
        /\ e.alert \in DOMAIN q.rows /\ Taken(q.rows[e.alert], e)
        /\ q.alertOf = p.alertOf /\ q.orphans = p.orphans
        /\ Absorbed(p, e) => Apply(p, e).verdict # "Updated"
    BY <1>3, CompletedStep DEF q
  <2>2. RowOf(q, e) = {e.alert}
    BY <1>3 DEF RowOf
  <2>3. Absorbed(q, e)
    BY <1>3, <2>1 DEF Absorbed, ResultTypes, TerminalTypes
  <2>4. KeepsOrphans(p, q)
    BY <2>1 DEF KeepsOrphans
  <2> QED BY <1>3, <2>1, <2>2, <2>3, <2>4 DEF ResultTypes, TerminalTypes, q
<1>4. CASE e.type = "created"
  <2> HIDE DEF q
  <2>1. /\ Folded(q) /\ Advances(p, q) /\ KeepsOrphans(p, q)
        /\ Absorbed(q, e) /\ q.alertOf[e.incident] = e.alert
        /\ Absorbed(p, e) => Apply(p, e).verdict # "Updated"
    BY <1>4, CreatedStep DEF q
  <2>2. RowOf(q, e) = {e.alert}
    BY <1>4 DEF RowOf
  <2>3. e.alert \in DOMAIN q.rows /\ e.incident \in DOMAIN q.alertOf
    BY <1>4, <2>1 DEF Absorbed, ResultTypes
  <2>4. DOMAIN q.alertOf = DOMAIN p.alertOf \cup {e.incident}
    <3>1. q.alertOf = With(p.alertOf, e.incident, e.alert)
      BY <1>4 DEF q, Apply, ApplyCreated, WithRow, Folded
    <3> QED BY <3>1 DEF With
  <2> QED BY <1>4, <2>1, <2>2, <2>3, <2>4 DEF ResultTypes, TerminalTypes, q
<1>5. CASE e.type \in TerminalTypes /\ e.incident \in DOMAIN p.alertOf
  <2> HIDE DEF q
  <2>1. /\ Folded(q) /\ Advances(p, q)
        /\ q.alertOf = p.alertOf /\ q.orphans = p.orphans
        /\ Absorbed(q, e)
        /\ Absorbed(p, e) => Apply(p, e).verdict # "Updated"
    BY <1>5, LinkedStep DEF q
  <2>2. RowOf(q, e) = {q.alertOf[e.incident]}
    BY <1>5, <2>1 DEF RowOf, TerminalTypes
  <2>3. RowOf(q, e) \subseteq DOMAIN q.rows
    BY <1>5, <2>1, <2>2 DEF Folded
  <2>4. KeepsOrphans(p, q)
    BY <2>1 DEF KeepsOrphans
  <2> QED BY <1>5, <2>1, <2>2, <2>3, <2>4 DEF ResultTypes, TerminalTypes, q
<1>6. CASE e.type \in TerminalTypes /\ e.incident \notin DOMAIN p.alertOf
  <2> HIDE DEF q
  <2>1. /\ Folded(q) /\ Advances(p, q)
        /\ q.alertOf = p.alertOf /\ q.rows = p.rows
        /\ Holds(q.orphans, e.incident, TerminalOf(e))
        /\ Roomy => KeepsOrphans(p, q)
    BY <1>6, OrphanStep DEF q
  <2>2. RowOf(q, e) = {}
    BY <1>6, <2>1 DEF RowOf, TerminalTypes
  <2> QED BY <1>6, <2>1, <2>2 DEF ResultTypes, TerminalTypes, q
<1> QED BY <1>1, <1>2, <1>3, <1>4, <1>5, <1>6 DEF Types, TerminalTypes

\* An event once absorbed stays so.
LEMMA AbsorbedStays ==
    ASSUME NEW p, NEW q, Folded(p), Folded(q), Advances(p, q), NEW e \in Events,
           Absorbed(p, e)
    PROVE  Absorbed(q, e)
<1>1. e.at \in Nat
  BY EventFacts
<1>2. CASE e.type \in ResultTypes
  <2>1. e.alert \in DOMAIN p.rows /\ Taken(p.rows[e.alert], e)
    BY <1>2 DEF Absorbed
  <2>2. /\ e.alert \in DOMAIN q.rows /\ Covers(q.rows[e.alert], p.rows[e.alert])
        /\ q.rows[e.alert] \in Row /\ p.rows[e.alert] \in Row
    BY <2>1 DEF Advances, Folded
  <2>3. Taken(q.rows[e.alert], e)
    BY <1>1, <1>2, <2>1, <2>2, TakenCovered
  <2>4. e.type = "created" =>
            q.rows[e.alert].incident # None /\ e.incident \in DOMAIN q.alertOf
    BY <1>2, <2>2 DEF Absorbed, Covers, Advances
  <2> QED BY <1>2, <2>2, <2>3, <2>4 DEF Absorbed, ResultTypes, TerminalTypes
<1>3. CASE e.type \in TerminalTypes
  <2> DEFINE a == p.alertOf[e.incident]
  <2>1. e.incident \in DOMAIN p.alertOf /\ Taken(p.rows[a], e)
    BY <1>3 DEF Absorbed, LinkedTaken
  <2>2. a \in DOMAIN p.rows /\ e.incident \in DOMAIN q.alertOf /\ q.alertOf[e.incident] = a
    BY <2>1 DEF Advances, Folded
  <2>3. Covers(q.rows[a], p.rows[a]) /\ q.rows[a] \in Row /\ p.rows[a] \in Row
    BY <2>2 DEF Advances, Folded
  <2>4. Taken(q.rows[a], e)
    BY <1>1, <1>3, <2>1, <2>3, TakenCovered
  <2> QED BY <1>3, <2>2, <2>4 DEF Absorbed, LinkedTaken, ResultTypes, TerminalTypes
<1> QED BY <1>2, <1>3 DEF Absorbed

-----------------------------------------------------------------------------
(***************************************************************************)
(* The steps of the consumer.                                              *)
(***************************************************************************)
LEMMA ReceivedEvent ==
    ASSUME Offsets, NEW p \in Partition, HasRecord(p)
    PROVE  /\ pos[p] + 1 \in 1..Len(Log[p]) /\ <<p, pos[p] + 1>> \in Offset
           /\ Received(p) \in Events
<1>1. pos[p] \in Nat /\ Log[p] \in Seq(Record) /\ pos[p] < Len(Log[p]) /\ Len(Log[p]) \in Nat
  BY LogAssumption DEF Offsets, HasRecord
<1>2. pos[p] + 1 \in 1..Len(Log[p]) /\ DOMAIN Log[p] = 1..Len(Log[p])
  BY <1>1
<1>3. <<p, pos[p] + 1>> \in Offset
  BY <1>2 DEF Offset
<1>4. Received(p) = Log[<<p, pos[p] + 1>>[1]][<<p, pos[p] + 1>>[2]]
  BY DEF Received
<1> QED BY <1>2, <1>3, <1>4 DEF Events

LEMMA OffsetEvent ==
    ASSUME NEW o \in Offset
    PROVE  Log[o[1]][o[2]] \in Events
  BY DEF Events

\* What the steps that fold the record of p in hand have in common.
Folds(p) ==
    /\ HasRecord(p)
    /\ proj' = Apply(proj, Received(p)).proj
    /\ store' = Upsert(store, proj', Received(p)) \/ store' = store
    /\ \/ analytics' = analytics
       \/ Appends(Received(p)) /\ analytics' = Appended(p)

\* Every other step of a session leaves the rows alone.
Rests == proj' = proj /\ store' = store /\ analytics' = analytics

LEMMA StepKinds ==
    ASSUME [Next]_vars
    PROVE  \/ (\E p \in Partition : Folds(p)) /\ crashes' = crashes
           \/ Rests /\ crashes' = crashes
           \/ Restart
<1>1. ASSUME NEW p \in Partition, Handle(p) PROVE Folds(p) /\ crashes' = crashes
  BY <1>1 DEF Handle, Folds
<1>2. ASSUME NEW p \in Partition, JobFails(p) PROVE Rests /\ crashes' = crashes
  BY <1>2 DEF JobFails, Rests, Fault
<1>3. ASSUME NEW p \in Partition, UpsertFails(p) PROVE Folds(p) /\ crashes' = crashes
  BY <1>3 DEF UpsertFails, Folds, Fault
<1>4. ASSUME NEW p \in Partition, AppendFails(p) PROVE Folds(p) /\ crashes' = crashes
  BY <1>4 DEF AppendFails, Folds
<1>5. ASSUME NEW p \in Partition, Rebalance(p) PROVE Rests /\ crashes' = crashes
  BY <1>5 DEF Rebalance, Rests
<1>6. CASE UNCHANGED vars
  BY <1>6 DEF vars, Rests
<1> QED BY <1>1, <1>2, <1>3, <1>4, <1>5, <1>6 DEF Next

LEMMA OffsetsStep == Offsets /\ [Next]_vars => Offsets'
<1> SUFFICES ASSUME Offsets, [Next]_vars PROVE Offsets'
  OBVIOUS
<1>1. ASSUME NEW p \in Partition, HasRecord(p), Commits(p) \/ Retries(p), crashes' = crashes
      PROVE  Offsets'
  <2>1. /\ pos[p] \in Nat /\ committed[p] \in Nat /\ committed[p] <= pos[p]
        /\ pos[p] + 1 <= Len(Log[p])
    <3>1. pos[p] + 1 \in 1..Len(Log[p])
      BY <1>1, ReceivedEvent
    <3>2. Len(Log[p]) \in Nat
      BY LogAssumption
    <3> QED BY <3>1, <3>2 DEF Offsets
  <2>2. /\ pos' = pos \/ pos' = [pos EXCEPT ![p] = pos[p] + 1]
        /\ \/ committed' = committed
           \/ /\ committed' = [committed EXCEPT ![p] = pos[p] + 1]
              /\ pos' = [pos EXCEPT ![p] = pos[p] + 1]
    BY <1>1 DEF Commits, Retries
  <2>3. pos' \in [Partition -> Nat] /\ committed' \in [Partition -> Nat]
    BY <2>1, <2>2 DEF Offsets
  <2>4. ASSUME NEW r \in Partition PROVE committed'[r] <= pos'[r] /\ pos'[r] <= Len(Log[r])
    <3>1. Len(Log[r]) \in Nat
      BY LogAssumption
    <3> QED BY <2>1, <2>2, <3>1 DEF Offsets
  <2> QED BY <1>1, <2>3, <2>4 DEF Offsets
<1>2. ASSUME NEW p \in Partition, Rebalance(p) PROVE Offsets'
  <2>1. /\ pos' = [pos EXCEPT ![p] = committed[p]] /\ committed' = committed
        /\ crashes' = crashes
    BY <1>2 DEF Rebalance, Reassign
  <2>2. \A r \in Partition : committed'[r] <= pos'[r] /\ pos'[r] <= Len(Log[r])
    <3>1. \A r \in Partition : Len(Log[r]) \in Nat
      BY LogAssumption
    <3> QED BY <2>1, <3>1 DEF Offsets
  <2> QED BY <2>1, <2>2 DEF Offsets
<1>3. CASE Restart
  <2>1. pos' = committed /\ committed' = committed /\ crashes' = crashes + 1
    BY <1>3 DEF Restart, Resume
  <2>2. \A r \in Partition : Len(Log[r]) \in Nat
    BY LogAssumption
  <2> QED BY <2>1, <2>2 DEF Offsets
<1>4. ASSUME NEW p \in Partition, Handle(p) \/ JobFails(p) \/ UpsertFails(p) \/ AppendFails(p)
      PROVE  Offsets'
  <2>1. HasRecord(p) /\ (Commits(p) \/ Retries(p)) /\ crashes' = crashes
    BY <1>4 DEF Handle, JobFails, UpsertFails, AppendFails, Fault
  <2> QED BY <1>1, <2>1
<1>5. CASE UNCHANGED vars
  BY <1>5 DEF vars, Offsets
<1> QED BY <1>2, <1>3, <1>4, <1>5 DEF Next

\* What folding one record does to the rows and the analytics.
LEMMA FoldsStep ==
    ASSUME Session, crashes = 0, NEW p \in Partition, Folds(p)
    PROVE  /\ Folded(proj') /\ Advances(proj, proj')
           /\ StoreBehind' /\ AppendedOnce'
           /\ \A a \in DOMAIN store : a \in DOMAIN store' /\ Covers(store'[a], store[a])
<1> DEFINE e == Received(p)
           q == proj'
<1>1. e \in Events /\ <<p, pos[p] + 1>> \in Offset
  BY ReceivedEvent DEF Session, Folds
<1>2. q = Apply(proj, e).proj
  BY DEF Folds
<1>3. Folded(proj) /\ StoreBehind /\ AppendedOnce
  BY DEF Session
<1>4. /\ Folded(q) /\ Advances(proj, q)
      /\ RowOf(q, e) \subseteq DOMAIN q.rows
      /\ RowOf(q, e) # {} => Absorbed(q, e)
      /\ Absorbed(proj, e) /\ RowOf(q, e) # {} => Apply(proj, e).verdict # "Updated"
  <2> HIDE DEF e, q
  <2> QED BY <1>1, <1>2, <1>3, FoldStep
<1>5. store' = Upsert(store, q, e) \/ store' = store
  BY DEF Folds
<1>6. \/ analytics' = analytics
      \/ /\ RowOf(q, e) # {} /\ Apply(proj, e).verdict = "Updated"
         /\ analytics' = [analytics EXCEPT ![<<p, pos[p] + 1>>] = analytics[<<p, pos[p] + 1>>] + 1]
  BY <1>2 DEF Folds, Appends, Upserts, Appended
<1>7. Log[p][pos[p] + 1] = e
  BY DEF Received
<1> HIDE DEF e, q
<1>8. /\ \A a \in DOMAIN store : a \in DOMAIN store'
      /\ \A a \in DOMAIN store' :
            \/ a \in DOMAIN store /\ store'[a] = store[a]
            \/ a \in DOMAIN q.rows /\ store'[a] = q.rows[a]
  BY <1>4, <1>5 DEF Upsert
<1>9. ASSUME NEW a \in DOMAIN store
      PROVE  /\ a \in DOMAIN q.rows /\ q.rows[a] \in Row /\ store[a] \in Row
             /\ Covers(q.rows[a], store[a])
  <2>1. /\ store[a] \in Row /\ a \in DOMAIN proj.rows /\ Covers(proj.rows[a], store[a])
        /\ proj.rows[a] \in Row
    BY <1>3 DEF StoreBehind, Folded
  <2>2. a \in DOMAIN q.rows /\ Covers(q.rows[a], proj.rows[a]) /\ q.rows[a] \in Row
    BY <1>4, <2>1 DEF Advances, Folded
  <2> QED BY <2>1, <2>2, CoversTransitive
<1>10. ASSUME NEW a \in DOMAIN store PROVE a \in DOMAIN store' /\ Covers(store'[a], store[a])
  BY <1>8, <1>9, CoversReflexive
<1>11. StoreBehind'
  <2>1. ASSUME NEW a \in DOMAIN store'
        PROVE  /\ store'[a] \in Row /\ Sourced(store'[a], a)
               /\ a \in DOMAIN q.rows /\ Covers(q.rows[a], store'[a])
    <3>1. CASE a \in DOMAIN store /\ store'[a] = store[a]
      BY <1>3, <1>9, <3>1 DEF StoreBehind
    <3>2. CASE a \in DOMAIN q.rows /\ store'[a] = q.rows[a]
      <4>1. q.rows[a] \in Row /\ Sourced(q.rows[a], a)
        BY <1>4, <3>2 DEF Folded
      <4> QED BY <3>2, <4>1, CoversReflexive
    <3> QED BY <1>8, <3>1, <3>2
  <2> QED BY <2>1 DEF StoreBehind, q, Sourced, Concerning, Results, Terminals, Incidents, Events, Rank
<1>12. AppendedOnce'
  <2> DEFINE x == <<p, pos[p] + 1>>
  <2>1. analytics \in [Offset -> Nat] /\ analytics' \in [Offset -> Nat]
    BY <1>1, <1>3, <1>6 DEF AppendedOnce
  <2>2. ASSUME NEW o \in Offset, analytics[o] = 1 PROVE Absorbed(q, Log[o[1]][o[2]])
    <3>1. Absorbed(proj, Log[o[1]][o[2]]) /\ Log[o[1]][o[2]] \in Events
      BY <1>3, <2>2, OffsetEvent DEF AppendedOnce
    <3> QED BY <1>3, <1>4, <3>1, AbsorbedStays
  <2>3. ASSUME analytics' # analytics PROVE analytics[x] = 0 /\ Absorbed(q, Log[x[1]][x[2]])
    <3>1. RowOf(q, e) # {} /\ Apply(proj, e).verdict = "Updated"
      BY <1>6, <2>3
    <3>2. ~Absorbed(proj, e) /\ Absorbed(q, e)
      BY <1>4, <3>1
    <3>3. Log[x[1]][x[2]] = e
      BY <1>7
    <3>4. analytics[x] <= 1 /\ analytics[x] # 1 /\ analytics[x] \in Nat
      BY <1>1, <1>3, <3>2, <3>3 DEF AppendedOnce
    <3> QED BY <3>2, <3>3, <3>4
  <2>4. ASSUME NEW o \in Offset
        PROVE  analytics'[o] <= 1 /\ (analytics'[o] = 1 => Absorbed(q, Log[o[1]][o[2]]))
    <3>1. analytics[o] <= 1 /\ analytics[o] \in Nat
      BY <1>3 DEF AppendedOnce
    <3>2. CASE analytics' = analytics
      BY <2>2, <3>1, <3>2
    <3>3. CASE analytics' # analytics
      <4>1. analytics' = [analytics EXCEPT ![x] = analytics[x] + 1]
        BY <1>6, <3>3
      <4>2. CASE o = x
        BY <2>1, <2>3, <3>3, <4>1, <4>2
      <4>3. CASE o # x
        BY <2>1, <2>2, <3>1, <4>1, <4>3
      <4> QED BY <4>2, <4>3
    <3> QED BY <3>2, <3>3
  <2> QED BY <2>1, <2>4 DEF AppendedOnce, q, Absorbed, LinkedTaken, Taken, Rank, Offset
<1> QED BY <1>4, <1>10, <1>11, <1>12 DEF q

LEMMA EmptyIsFolded == Folded(EmptyProjection)
<1>1. Live(EmptyMap) = {}
  BY DEF Live, EmptyMap
<1> QED BY <1>1 DEF Folded, EmptyProjection, EmptyMap

LEMMA SessionInit == Init => Session
<1> SUFFICES ASSUME Init PROVE Session
  OBVIOUS
<1>1. Offsets
  <2>1. \A p \in Partition : Len(Log[p]) \in Nat
    BY LogAssumption
  <2> QED BY <2>1 DEF Init, LoopInit, Offsets
<1>2. Folded(proj)
  BY EmptyIsFolded DEF Init
<1>3. StoreBehind
  BY DEF Init, StoreBehind
<1>4. AppendedOnce
  <2>1. analytics = [o \in Offset |-> 0]
    BY DEF Init
  <2> QED BY <2>1 DEF AppendedOnce
<1> QED BY <1>1, <1>2, <1>3, <1>4 DEF Session

LEMMA SessionStep == Session /\ [Next]_vars => Session'
<1> SUFFICES ASSUME Session, [Next]_vars PROVE Session'
  OBVIOUS
<1>1. Offsets'
  BY OffsetsStep DEF Session
<1>2. crashes \in Nat
  BY DEF Session, Offsets
<1>3. ASSUME NEW p \in Partition, Folds(p), crashes' = crashes PROVE Session'
  <2>1. Folded(proj')
    <3>1. Received(p) \in Events
      BY <1>3, ReceivedEvent DEF Session, Folds
    <3>2. proj' = Apply(proj, Received(p)).proj
      BY <1>3 DEF Folds
    <3>3. Folded(proj)
      BY DEF Session
    <3> QED BY <3>1, <3>2, <3>3, FoldStep
  <2>2. crashes = 0 => StoreBehind' /\ AppendedOnce'
    BY <1>3, FoldsStep
  <2>3. Folded(proj)'
    BY <2>1
  <2> QED BY <1>1, <1>3, <2>2, <2>3 DEF Session
<1>4. CASE Rests /\ crashes' = crashes
  <2>1. proj' = proj /\ store' = store /\ analytics' = analytics /\ crashes' = crashes
    BY <1>4 DEF Rests
  <2>2. Folded(proj)'
    BY <2>1 DEF Session
  <2>3. crashes = 0 => StoreBehind' /\ AppendedOnce'
    BY <2>1 DEF Session, StoreBehind, AppendedOnce
  <2> QED BY <1>1, <2>1, <2>2, <2>3 DEF Session
<1>5. CASE Restart
  <2>1. proj' = EmptyProjection /\ crashes' = crashes + 1
    BY <1>5 DEF Restart
  <2>2. Folded(proj)'
    BY <2>1, EmptyIsFolded
  <2>3. crashes' # 0
    BY <1>2, <2>1
  <2> QED BY <1>1, <2>2, <2>3 DEF Session
<1> QED BY <1>3, <1>4, <1>5, StepKinds

\* The inductive invariant of a session: a stored row is never ahead of the
\* fold's, and an event with an analytics row is one the fold calls a duplicate.
THEOREM SessionHolds == Spec => []Session
  BY SessionInit, SessionStep, PTL DEF Spec

\* One event adds at most one analytics row, however often it is redelivered
\* or retried: handle appends only on the verdict Updated, which a fold that has
\* taken the event does not return.
THEOREM AnalyticsAppendedOnce == Spec => []AnalyticsNotDoubled
<1>1. Session => AnalyticsNotDoubled
  BY DEF Session, AppendedOnce, AnalyticsNotDoubled
<1> QED BY <1>1, SessionHolds, PTL

\* A stored row only moves forward, although upsert_incident overwrites every
\* column and the topics come in any order.
THEOREM RowsOnlyMoveForward == Spec => RowNeverRegresses
<1>1. Session /\ [Next]_vars =>
      [ crashes' = 0 => \A a \in DOMAIN store :
            /\ store'[a].status >= store[a].status
            /\ store'[a].figuresAt >= store[a].figuresAt
            /\ store'[a].retractedAt >= store[a].retractedAt
            /\ store'[a].finalizedAt >= store[a].finalizedAt
            /\ store[a].incident # None => store'[a].incident = store[a].incident ]_vars
  <2> SUFFICES ASSUME Session, [Next]_vars, crashes' = 0, NEW a \in DOMAIN store
               PROVE  Covers(store'[a], store[a])
    BY DEF Covers
  <2>1. crashes \in Nat
    BY DEF Session, Offsets
  <2>2. ~Restart /\ crashes = 0
    <3>1. Restart => crashes' = crashes + 1
      BY DEF Restart
    <3> QED BY <2>1, <3>1, StepKinds
  <2>3. CASE \E p \in Partition : Folds(p)
    BY <2>2, <2>3, FoldsStep
  <2>4. CASE Rests
    <3>1. store' = store /\ store[a] \in Row
      BY <2>2, <2>4 DEF Rests, Session, StoreBehind
    <3> QED BY <3>1, CoversReflexive
  <2> QED BY <2>2, <2>3, <2>4, StepKinds
<1> QED BY <1>1, SessionHolds, PTL DEF Spec, RowNeverRegresses

-----------------------------------------------------------------------------
(***************************************************************************)
(* Nothing that was handled gets lost, when seeks succeed and the orphan   *)
(* buffer does not overflow.                                               *)
(***************************************************************************)
LEMMA OffsetFacts ==
    ASSUME NEW o \in Offset
    PROVE  /\ o = <<o[1], o[2]>> /\ o[1] \in Partition
           /\ o[2] \in 1..Len(Log[o[1]]) /\ o[2] \in Nat
<1>1. PICK p \in Partition : o \in {<<p, i>> : i \in DOMAIN Log[p]}
  BY DEF Offset
<1>2. PICK i \in DOMAIN Log[p] : o = <<p, i>>
  BY <1>1
<1>3. DOMAIN Log[p] = 1..Len(Log[p]) /\ Len(Log[p]) \in Nat
  BY LogAssumption
<1> QED BY <1>2, <1>3

\* The steps, by the records that may stop being pending.
LEMMA PendingStep ==
    ASSUME Offsets, ~SeekMayFail, [Next]_vars
    PROVE  \/ /\ crashes' = crashes
              /\ \E p \in Partition :
                    /\ Folds(p)
                    /\ \A o \in Offset : Pending(o) =>
                          \/ Pending(o)'
                          \/ Handle(p) /\ o = <<p, pos[p] + 1>>
           \/ Rests /\ crashes' = crashes /\ \A o \in Offset : Pending(o) => Pending(o)'
           \/ Restart
<1>1. ASSUME NEW p \in Partition, HasRecord(p), Commits(p), skipped' = skipped,
             NEW o \in Offset, Pending(o), o # <<p, pos[p] + 1>>
      PROVE  Pending(o)'
  <2>1. o = <<o[1], o[2]>> /\ o[1] \in Partition /\ o[2] \in Nat
    BY OffsetFacts
  <2>2. pos' = [pos EXCEPT ![p] = pos[p] + 1] /\ pos \in [Partition -> Nat]
    BY <1>1 DEF Commits, Offsets
  <2>3. o[2] > pos[o[1]] \/ o \in skipped
    BY <1>1, <2>1 DEF Pending
  <2>4. o[2] > pos'[o[1]] \/ o \in skipped'
    BY <1>1, <2>1, <2>2, <2>3
  <2> QED BY <2>1, <2>4 DEF Pending
<1>2. ASSUME NEW p \in Partition, HasRecord(p), Commits(p),
             skipped' = skipped \cup {<<p, pos[p] + 1>>}, NEW o \in Offset, Pending(o)
      PROVE  Pending(o)'
  <2>1. o = <<o[1], o[2]>> /\ o[1] \in Partition /\ o[2] \in Nat
    BY OffsetFacts
  <2>2. pos' = [pos EXCEPT ![p] = pos[p] + 1] /\ pos \in [Partition -> Nat]
    BY <1>2 DEF Commits, Offsets
  <2>3. o[2] > pos[o[1]] \/ o \in skipped
    BY <1>2, <2>1 DEF Pending
  <2>4. o[2] > pos'[o[1]] \/ o \in skipped'
    BY <1>2, <2>1, <2>2, <2>3
  <2> QED BY <2>1, <2>4 DEF Pending
<1>3. ASSUME pos' = pos, skipped' = skipped, NEW o \in Offset, Pending(o) PROVE Pending(o)'
  BY <1>3 DEF Pending
<1>4. ASSUME NEW p \in Partition, HasRecord(p), Fault(p), NEW o \in Offset, Pending(o)
      PROVE  Pending(o)'
  <2>1. \/ pos' = pos /\ skipped' = skipped
        \/ Commits(p) /\ skipped' = skipped \cup {<<p, pos[p] + 1>>}
    BY <1>4 DEF Fault, Retries
  <2> QED BY <1>2, <1>3, <1>4, <2>1
<1>5. ASSUME NEW p \in Partition, Handle(p)
      PROVE  /\ Folds(p) /\ crashes' = crashes
             /\ \A o \in Offset : Pending(o) =>
                  Pending(o)' \/ (Handle(p) /\ o = <<p, pos[p] + 1>>)
  <2>1. HasRecord(p) /\ Commits(p) /\ skipped' = skipped
    BY <1>5 DEF Handle
  <2>2. Folds(p) /\ crashes' = crashes
    BY <1>5 DEF Handle, Folds
  <2> QED BY <1>1, <1>5, <2>1, <2>2
<1>6. ASSUME NEW p \in Partition, JobFails(p)
      PROVE  Rests /\ crashes' = crashes /\ \A o \in Offset : Pending(o) => Pending(o)'
  <2>1. Rests /\ crashes' = crashes /\ HasRecord(p) /\ Fault(p)
    BY <1>6 DEF JobFails, Rests, Fault
  <2> QED BY <1>4, <2>1
<1>7. ASSUME NEW p \in Partition, UpsertFails(p)
      PROVE  Folds(p) /\ crashes' = crashes /\ \A o \in Offset : Pending(o) => Pending(o)'
  <2>1. Folds(p) /\ crashes' = crashes /\ HasRecord(p) /\ Fault(p)
    BY <1>7 DEF UpsertFails, Folds, Fault
  <2> QED BY <1>4, <2>1
<1>8. ASSUME NEW p \in Partition, AppendFails(p)
      PROVE  Folds(p) /\ crashes' = crashes /\ \A o \in Offset : Pending(o) => Pending(o)'
  <2>1. Folds(p) /\ crashes' = crashes /\ pos' = pos /\ skipped' = skipped
    BY <1>8 DEF AppendFails, Folds, Retries
  <2> QED BY <1>3, <2>1
<1>9. ASSUME NEW p \in Partition, Rebalance(p)
      PROVE  Rests /\ crashes' = crashes /\ \A o \in Offset : Pending(o) => Pending(o)'
  <2>1. /\ Rests /\ crashes' = crashes /\ skipped' = skipped
        /\ pos' = [pos EXCEPT ![p] = committed[p]]
    BY <1>9 DEF Rebalance, Rests, Reassign
  <2>2. ASSUME NEW o \in Offset, Pending(o) PROVE Pending(o)'
    <3>1. o = <<o[1], o[2]>> /\ o[1] \in Partition /\ o[2] \in Nat
    BY OffsetFacts
    <3>2. /\ pos \in [Partition -> Nat] /\ committed \in [Partition -> Nat]
          /\ committed[p] <= pos[p]
      BY DEF Offsets
    <3>3. o[2] > pos[o[1]] \/ o \in skipped
      BY <2>2, <3>1 DEF Pending
    <3>4. o[2] > pos'[o[1]] \/ o \in skipped'
      BY <2>1, <3>1, <3>2, <3>3
    <3> QED BY <3>1, <3>4 DEF Pending
  <2> QED BY <2>1, <2>2
<1>10. CASE UNCHANGED vars
  <2>1. Rests /\ crashes' = crashes /\ pos' = pos /\ skipped' = skipped
    BY <1>10 DEF vars, Rests
  <2> QED BY <1>3, <2>1
<1> QED BY <1>5, <1>6, <1>7, <1>8, <1>9, <1>10 DEF Next

LEMMA TerminalOfFacts ==
    ASSUME NEW e \in Events, e.type \in TerminalTypes
    PROVE  /\ TerminalOf(e) \in Terminal
           /\ \A r : Taken(r, TerminalOf(e)) => Taken(r, e)
<1>1. e \in Record /\ e.at \in Nat
  BY EventFacts
<1>2. e.detail \in Details
  BY <1>1 DEF Details
<1>3. /\ TerminalOf(e).type = e.type /\ TerminalOf(e).at = e.at
  BY DEF TerminalOf
<1>4. TerminalOf(e) \in Terminal
  BY <1>1, <1>2 DEF TerminalOf, Terminal
<1>5. Rank(TerminalOf(e)) = Rank(e)
  BY <1>3, RankType DEF TerminalTypes
<1> QED BY <1>3, <1>4, <1>5 DEF Taken

\* A stored row keeps what it has taken.
LEMMA InStoreStays ==
    ASSUME StoreBehind, StoreBehind',
           \A a \in DOMAIN store : a \in DOMAIN store' /\ Covers(store'[a], store[a]),
           NEW e \in Events, e.type \in ResultTypes \cup TerminalTypes, NEW b, InStore(b, e)
    PROVE  b \in DOMAIN store' /\ Taken(store'[b], e)
<1>1. b \in DOMAIN store /\ Taken(store[b], e)
  BY DEF InStore
<1>2. b \in DOMAIN store' /\ Covers(store'[b], store[b]) /\ store'[b] \in Row /\ store[b] \in Row
  BY <1>1 DEF StoreBehind
<1> QED BY <1>1, <1>2, TakenCovered, EventFacts

\* What folding one record does to the events kept so far.
LEMMA KeptFolds ==
    ASSUME Session, crashes = 0, Roomy, NEW p \in Partition, Folds(p),
           \A o \in Offset : Pending(o) =>
                \/ Pending(o)'
                \/ o = <<p, pos[p] + 1>> /\ store' = Upsert(store, proj', Received(p)),
           NEW e \in Events, Kept(e)
    PROVE  Kept(e)'
<1> DEFINE d == Received(p)
           x == <<p, pos[p] + 1>>
           q == proj'
<1>1. d \in Events /\ x \in Offset /\ Log[x[1]][x[2]] = d /\ q = Apply(proj, d).proj
  BY ReceivedEvent DEF Session, Folds, Received
<1>2. /\ Folded(proj) /\ StoreBehind /\ Folded(q) /\ Advances(proj, q)
      /\ StoreBehind' /\ \A a \in DOMAIN store : a \in DOMAIN store' /\ Covers(store'[a], store[a])
  BY FoldsStep DEF Session
<1>3. Pending(x)
  <2>1. pos[p] \in Nat
    BY DEF Session, Offsets
  <2> QED BY <2>1 DEF Pending
<1>4. /\ KeepsOrphans(proj, q)
      /\ \A i \in DOMAIN q.alertOf :
            i \in DOMAIN proj.alertOf \/ (d.type = "created" /\ i = d.incident)
      /\ d.type = "created" => q.alertOf[d.incident] = d.alert
  <2> HIDE DEF d, q, x
  <2> QED BY <1>1, <1>2, FoldStep
\* The row of a created event is written, or the event stays pending.
<1>5. ASSUME NEW o \in Offset, Pending(o), Log[o[1]][o[2]].type = "created",
             Log[o[1]][o[2]].incident = e.incident, e.type \in TerminalTypes,
             e.incident \in DOMAIN q.alertOf, Taken(q.rows[q.alertOf[e.incident]], e)
      PROVE  \/ q.alertOf[e.incident] \in DOMAIN store' /\ Taken(store'[q.alertOf[e.incident]], e)
             \/ Awaiting(e.incident)'
  <2>1. CASE Pending(o)'
    BY <1>5, <2>1 DEF Awaiting
  <2>2. CASE o = x /\ store' = Upsert(store, q, d)
    <3>1. d.type = "created" /\ d.incident = e.incident
      BY <1>1, <1>5, <2>2
    <3>2. q.alertOf[e.incident] = d.alert
      BY <1>4, <3>1
    <3>3. RowOf(q, d) = {d.alert}
      BY <3>1 DEF RowOf
    <3>4. d.alert \in DOMAIN store' /\ store'[d.alert] = q.rows[d.alert]
      BY <2>2, <3>3 DEF Upsert
    <3> QED BY <1>5, <3>2, <3>4
  <2> QED BY <1>5, <2>1, <2>2
<1>6. e.type \in ResultTypes => InStore(e.alert, e)'
  <2> SUFFICES ASSUME e.type \in ResultTypes PROVE InStore(e.alert, e)'
    OBVIOUS
  <2>1. InStore(e.alert, e)
    BY DEF Kept
  <2>2. e.alert \in DOMAIN store' /\ Taken(store'[e.alert], e)
    BY <1>2, <2>1, InStoreStays
  <2> QED BY <2>2 DEF InStore
<1>7. e.type = "created" => e.incident \in DOMAIN q.alertOf
  BY <1>2 DEF Kept, Advances
<1>8. ASSUME e.type \in TerminalTypes
      PROVE  \/ Holds(q.orphans, e.incident, TerminalOf(e))
             \/ /\ LinkedTaken(q, e)
                /\ \/ /\ q.alertOf[e.incident] \in DOMAIN store'
                      /\ Taken(store'[q.alertOf[e.incident]], e)
                   \/ Awaiting(e.incident)'
  <2> DEFINE i == e.incident
  <2>1. CASE Holds(proj.orphans, i, TerminalOf(e))
    <3>1. CASE Holds(q.orphans, i, TerminalOf(e))
      BY <3>1
    <3>2. CASE i \in DOMAIN q.alertOf /\ Taken(q.rows[q.alertOf[i]], TerminalOf(e))
      <4>1. LinkedTaken(q, e)
        BY <1>8, <3>2, TerminalOfFacts DEF LinkedTaken
      <4>2. i \notin DOMAIN proj.alertOf
        BY <1>2, <2>1 DEF Holds, Folded
      <4>3. d.type = "created" /\ d.incident = i
        BY <1>4, <3>2, <4>2
      <4> QED BY <1>1, <1>3, <1>5, <1>8, <4>1, <4>3 DEF LinkedTaken
    <3> QED BY <1>4, <1>8, <2>1, <3>1, <3>2, TerminalOfFacts DEF KeepsOrphans
  <2>2. CASE /\ LinkedTaken(proj, e)
             /\ InStore(proj.alertOf[i], e) \/ Awaiting(i)
    <3>1. /\ i \in DOMAIN proj.alertOf /\ i \in DOMAIN q.alertOf
          /\ q.alertOf[i] = proj.alertOf[i]
      BY <1>2, <2>2 DEF LinkedTaken, Advances
    <3>2. Taken(q.rows[q.alertOf[i]], e)
      <4>1. Absorbed(proj, e)
        BY <1>8, <2>2 DEF Absorbed, ResultTypes, TerminalTypes
      <4>2. Absorbed(q, e)
        BY <1>2, <4>1, AbsorbedStays
      <4> QED BY <1>8, <4>2 DEF Absorbed, LinkedTaken
    <3>3. CASE InStore(proj.alertOf[i], e)
      <4>1. q.alertOf[i] \in DOMAIN store' /\ Taken(store'[q.alertOf[i]], e)
        BY <1>2, <1>8, <3>1, <3>3, InStoreStays
      <4> QED BY <3>1, <3>2, <4>1 DEF LinkedTaken
    <3>4. CASE Awaiting(i)
      <4>1. PICK o \in Offset : /\ Log[o[1]][o[2]].type = "created"
                                /\ Log[o[1]][o[2]].incident = i /\ Pending(o)
        BY <3>4 DEF Awaiting
      <4> QED BY <1>5, <1>8, <3>1, <3>2, <4>1 DEF LinkedTaken
    <3> QED BY <2>2, <3>3, <3>4
  <2> QED BY <1>8, <2>1, <2>2 DEF Kept
<1>9. e.type \in TerminalTypes =>
          \/ Holds(proj.orphans, e.incident, TerminalOf(e))'
          \/ LinkedTaken(proj, e)' /\ (InStore(proj.alertOf[e.incident], e)' \/ Awaiting(e.incident)')
  BY <1>8 DEF InStore
<1> QED BY <1>6, <1>7, <1>9 DEF Kept

\* The record in hand is kept once it is folded and its row is written.
LEMMA KeptWritten ==
    ASSUME Session, crashes = 0, NEW p \in Partition, Folds(p),
           store' = Upsert(store, proj', Received(p)), NEW d \in Events, d = Received(p)
    PROVE  Kept(d)'
<1> DEFINE q == proj'
<1>1. d \in Events /\ q = Apply(proj, d).proj /\ Folded(proj)
  BY ReceivedEvent DEF Session, Folds
<1>2. /\ RowOf(q, d) \subseteq DOMAIN q.rows
      /\ RowOf(q, d) # {} => Absorbed(q, d)
      /\ d.type \in ResultTypes => RowOf(q, d) = {d.alert}
      /\ d.type = "created" => d.incident \in DOMAIN q.alertOf
      /\ d.type \in TerminalTypes =>
            Holds(q.orphans, d.incident, TerminalOf(d)) \/ RowOf(q, d) = {q.alertOf[d.incident]}
  <2> HIDE DEF q
  <2> QED BY <1>1, FoldStep
<1>3. \A a \in RowOf(q, d) : a \in DOMAIN store' /\ store'[a] = q.rows[a]
  BY DEF Upsert
<1> HIDE DEF q
<1>4. d.type \in ResultTypes => d.alert \in DOMAIN store' /\ Taken(store'[d.alert], d)
  BY <1>2, <1>3 DEF Absorbed
<1>5. d.type \in TerminalTypes =>
          \/ Holds(q.orphans, d.incident, TerminalOf(d))
          \/ /\ LinkedTaken(q, d)
             /\ q.alertOf[d.incident] \in DOMAIN store'
             /\ Taken(store'[q.alertOf[d.incident]], d)
  BY <1>2, <1>3 DEF Absorbed, LinkedTaken
<1> QED BY <1>2, <1>4, <1>5 DEF Kept, InStore, q

LEMMA KeptStep == Roomy /\ ~SeekMayFail /\ KeptInv /\ [Next]_vars => KeptInv'
<1> SUFFICES ASSUME Roomy, ~SeekMayFail, KeptInv, [Next]_vars PROVE KeptInv'
  OBVIOUS
<1>1. Session /\ Session' /\ Offsets /\ crashes \in Nat
  BY SessionStep DEF KeptInv, Session, Offsets
<1>2. SUFFICES ASSUME crashes' = 0, NEW o \in Offset, ~Pending(o)'
               PROVE  Kept(Log[o[1]][o[2]])'
  BY <1>1 DEF KeptInv, HandledIsKept
<1> DEFINE e == Log[o[1]][o[2]]
<1>3. e \in Events
  BY OffsetEvent
<1>4. ~Restart
  BY <1>1, <1>2 DEF Restart
<1>5. crashes = 0 => (Pending(o) \/ Kept(e))
  BY DEF KeptInv, HandledIsKept
<1> HIDE DEF e
<1>6. ASSUME NEW p \in Partition, Folds(p), crashes' = crashes,
             \A u \in Offset : Pending(u) =>
                Pending(u)' \/ (Handle(p) /\ u = <<p, pos[p] + 1>>)
      PROVE  Kept(e)'
  <2>0. Handle(p) => store' = Upsert(store, proj', Received(p))
    BY DEF Handle
  <2>1. CASE Pending(o)
    <3>1. o = <<p, pos[p] + 1>> /\ store' = Upsert(store, proj', Received(p))
      BY <1>2, <1>6, <2>0, <2>1
    <3>2. e = Received(p)
      BY <3>1 DEF Received, e
    <3> QED BY <1>1, <1>2, <1>3, <1>6, <3>1, <3>2, KeptWritten
  <2>2. CASE Kept(e)
    BY <1>1, <1>2, <1>3, <1>6, <2>0, <2>2, KeptFolds
  <2> QED BY <1>2, <1>5, <1>6, <2>1, <2>2
<1>7. ASSUME Rests, crashes' = crashes, \A u \in Offset : Pending(u) => Pending(u)'
      PROVE  Kept(e)'
  <2>1. Kept(e)
    BY <1>2, <1>5, <1>7
  <2>2. proj' = proj /\ store' = store
    BY <1>7 DEF Rests
  <2>3. \A i : Awaiting(i) => Awaiting(i)'
    BY <1>7 DEF Awaiting
  <2> QED BY <2>1, <2>2, <2>3 DEF Kept, InStore
<1>8. Kept(e)'
  BY <1>1, <1>4, <1>6, <1>7, PendingStep
<1> QED BY <1>8 DEF e

LEMMA InitPending ==
    ASSUME Init, NEW o \in Offset
    PROVE  Pending(o)
<1>1. o[1] \in Partition /\ o[2] \in 1..Len(Log[o[1]]) /\ o[2] \in Nat
  BY OffsetFacts
<1>2. Len(Log[o[1]]) \in Nat
  BY <1>1, LogAssumption
<1>3. pos[o[1]] = 0 /\ o[2] >= 1
  BY <1>1, <1>2 DEF Init, LoopInit
<1> QED BY <1>1, <1>3 DEF Pending

LEMMA KeptInit == Init => KeptInv
  BY InitPending, SessionInit DEF KeptInv, HandledIsKept

\* Nothing that handle has seen gets lost: it is in the stored row, or the fold
\* has it and the record that will write it is still to come.
THEOREM KeptHolds == Roomy /\ ~SeekMayFail => (Spec => []KeptInv)
<1> SUFFICES ASSUME Roomy, ~SeekMayFail PROVE Spec => []KeptInv
  OBVIOUS
<1>1. KeptInv /\ [Next]_vars => KeptInv'
  BY KeptStep
<1> QED BY KeptInit, <1>1, PTL DEF Spec

\* An event whose offset will not be handed out again is in the stored row,
\* or is held until its IncidentCreated has been written.
THEOREM CommittedIsSafe == Roomy /\ ~SeekMayFail => (Spec => []CommittedIsPersisted)
<1> SUFFICES ASSUME Roomy, ~SeekMayFail PROVE Spec => []CommittedIsPersisted
  OBVIOUS
<1>1. KeptInv => CommittedIsPersisted
  <2> SUFFICES ASSUME KeptInv, crashes = 0, NEW p \in Partition, NEW i \in 1..committed[p]
               PROVE  LET e == Log[p][i]
                      IN <<p, i>> \in skipped \/ e.type = "requested" \/
                         IF e.type \in {"completed", "created"}
                         THEN /\ e.alert \in DOMAIN store
                              /\ store[e.alert].status >= Rank(e)
                              /\ store[e.alert].figuresAt >= e.at
                         ELSE \/ e.incident \in Live(proj.orphans)
                              \/ /\ LinkPending(e.incident)
                                 /\ \E a \in DOMAIN proj.rows :
                                     e.incident \in Incidents(a) /\ proj.rows[a].status >= Rank(e)
                              \/ \E a \in DOMAIN store :
                                     e.incident \in Incidents(a) /\ store[a].status >= Rank(e)
    BY DEF CommittedIsPersisted
  <2> DEFINE e == Log[p][i]
             o == <<p, i>>
  <2>1. /\ committed[p] \in Nat /\ pos[p] \in Nat /\ committed[p] <= pos[p]
        /\ pos[p] <= Len(Log[p]) /\ Len(Log[p]) \in Nat /\ DOMAIN Log[p] = 1..Len(Log[p])
    BY LogAssumption DEF KeptInv, Session, Offsets
  <2>2. i \in Nat /\ i <= pos[p] /\ i \in DOMAIN Log[p]
    BY <2>1
  <2>3. o \in Offset /\ ~(o[2] > pos[o[1]])
    BY <2>1, <2>2 DEF Offset
  <2>4. e \in Events
    BY <2>3, OffsetEvent
  <2>5. e.type \in Types
    BY <2>4, EventFacts
  <2>6. SUFFICES ASSUME <<p, i>> \notin skipped
                 PROVE  \/ e.type = "requested"
                        \/ IF e.type \in {"completed", "created"}
                           THEN /\ e.alert \in DOMAIN store
                                /\ store[e.alert].status >= Rank(e)
                                /\ store[e.alert].figuresAt >= e.at
                           ELSE \/ e.incident \in Live(proj.orphans)
                                \/ /\ LinkPending(e.incident)
                                   /\ \E a \in DOMAIN proj.rows :
                                       e.incident \in Incidents(a) /\ proj.rows[a].status >= Rank(e)
                                \/ \E a \in DOMAIN store :
                                       e.incident \in Incidents(a) /\ store[a].status >= Rank(e)
    OBVIOUS
  <2>7. Kept(e)
    BY <2>3, <2>6 DEF KeptInv, HandledIsKept, Pending
  <2> HIDE DEF e, o
  <2>8. CASE e.type \in ResultTypes
    <3>1. /\ e.alert \in DOMAIN store
          /\ store[e.alert].status >= Rank(e)
          /\ store[e.alert].figuresAt >= e.at
      BY <2>7, <2>8 DEF Kept, InStore, Taken
    <3> QED BY <2>8, <3>1 DEF ResultTypes
  <2>9. CASE e.type \in TerminalTypes
    <3>1. e.type \notin {"completed", "created"}
      BY <2>9 DEF TerminalTypes
    <3>2. CASE Holds(proj.orphans, e.incident, TerminalOf(e))
      BY <3>1, <3>2 DEF Holds
    <3>3. CASE /\ LinkedTaken(proj, e)
               /\ InStore(proj.alertOf[e.incident], e) \/ Awaiting(e.incident)
      <4> DEFINE a == proj.alertOf[e.incident]
      <4>1. /\ a \in DOMAIN proj.rows /\ e.incident \in Incidents(a)
            /\ proj.rows[a].status >= Rank(e)
        BY <3>3 DEF LinkedTaken, Taken, KeptInv, Session, Folded
      <4>2. CASE InStore(a, e)
        BY <3>1, <4>1, <4>2 DEF InStore, Taken
      <4>3. CASE Awaiting(e.incident)
        <5>1. PICK u \in Offset : /\ Log[u[1]][u[2]].type = "created"
                                  /\ Log[u[1]][u[2]].incident = e.incident /\ Pending(u)
          BY <4>3 DEF Awaiting
        <5>2. u[2] \in Nat /\ u[1] \in Partition
          BY OffsetFacts
        <5>3. u[2] > pos[u[1]] => u[2] > committed[u[1]]
          BY <5>2 DEF KeptInv, Session, Offsets
        <5>4. LinkPending(e.incident)
          BY <5>1, <5>3 DEF LinkPending, Pending
        <5> QED BY <3>1, <4>1, <5>4
      <4> QED BY <3>3, <4>2, <4>3
    <3> QED BY <2>7, <2>9, <3>2, <3>3 DEF Kept
  <2> QED BY <2>5, <2>8, <2>9 DEF Types, ResultTypes, TerminalTypes
<1> QED BY <1>1, KeptHolds, PTL

\* Once every record is handled, the stored row of an alert has taken every
\* event that concerns it.
LEMMA AllTaken ==
    ASSUME KeptInv, AllHandled, skipped = {}, crashes = 0, NEW a \in Alerts
    PROVE  /\ a \in DOMAIN store
           /\ \A f \in Concerning(a) : f \in Events /\ Taken(store[a], f)
<1>1. ASSUME NEW o \in Offset PROVE ~Pending(o)
  <2>1. o[1] \in Partition /\ o[2] \in 1..Len(Log[o[1]]) /\ o[2] \in Nat
    BY OffsetFacts
  <2>2. pos[o[1]] = Len(Log[o[1]]) /\ pos[o[1]] \in Nat
    BY <2>1 DEF AllHandled, KeptInv, Session, Offsets
  <2> QED BY <2>1, <2>2 DEF Pending
<1>2. ASSUME NEW f \in Events PROVE Kept(f)
  <2>1. PICK o \in Offset : f = Log[o[1]][o[2]]
    BY DEF Events
  <2> QED BY <1>1, <2>1 DEF KeptInv, HandledIsKept
<1>3. \A i : ~Awaiting(i)
  BY <1>1 DEF Awaiting
<1>4. ASSUME NEW f \in Results(a) PROVE f \in Events /\ InStore(a, f)
  <2>1. f \in Events /\ f.type \in ResultTypes /\ f.alert = a
    BY DEF Results, ResultTypes
  <2> QED BY <1>2, <2>1 DEF Kept
<1>5. ASSUME NEW f \in Events, f.type \in TerminalTypes, f.incident \in Incidents(a)
      PROVE  InStore(a, f)
  <2>1. PICK c \in Results(a) : c.type = "created" /\ c.incident = f.incident
    BY <1>5 DEF Incidents
  <2>2. c \in Events /\ c.alert = a
    BY <2>1 DEF Results
  <2>3. f.incident \in DOMAIN proj.alertOf
    BY <1>2, <2>1, <2>2 DEF Kept
  <2>4. ~Holds(proj.orphans, f.incident, TerminalOf(f))
    BY <2>3 DEF Holds, KeptInv, Session, Folded
  <2>5. InStore(proj.alertOf[f.incident], f)
    BY <1>2, <1>3, <1>5, <2>4 DEF Kept
  <2>6. c.incident \in Incidents(proj.alertOf[f.incident])
    BY <2>1, <2>3 DEF KeptInv, Session, Folded
  <2>7. proj.alertOf[f.incident] = a
    BY <2>1, <2>2, <2>6, CreatedAlert
  <2> QED BY <2>5, <2>7
<1>6. a \in DOMAIN store
  <2>1. PICK r \in Events : r.type \in {"completed", "created"} /\ r.alert = a
    BY DEF Alerts
  <2>2. r \in Results(a)
    BY <2>1 DEF Results
  <2> QED BY <1>4, <2>2 DEF InStore
<1>7. ASSUME NEW f \in Concerning(a) PROVE f \in Events /\ Taken(store[a], f)
  <2>1. CASE f \in Results(a)
    BY <1>4, <2>1 DEF InStore
  <2>2. CASE f \in Terminals(a, "retract") \cup Terminals(a, "finalize")
    <3>1. f \in Events /\ f.type \in TerminalTypes /\ f.incident \in Incidents(a)
      BY <2>2 DEF Terminals, TerminalTypes
    <3> QED BY <1>5, <3>1 DEF InStore
  <2> QED BY <1>7, <2>1, <2>2 DEF Concerning
<1> QED BY <1>6, <1>7

\* Whatever the order of the topics, the redeliveries and the retried writes,
\* the rows that upsert_incident leaves in the end are the reference rows.
THEOREM ReadModelConverges == Roomy /\ ~SeekMayFail => (Spec => []ConvergesToReference)
<1> SUFFICES ASSUME Roomy, ~SeekMayFail PROVE Spec => []ConvergesToReference
  OBVIOUS
<1>1. KeptInv => ConvergesToReference
  <2> SUFFICES ASSUME KeptInv, AllHandled, skipped = {}, crashes = 0, NEW a \in Alerts
               PROVE  /\ a \in DOMAIN store
                      /\ \E e \in Concerning(a) :
                          /\ Rank(e) = store[a].status
                          /\ \A f \in Concerning(a) : Rank(f) <= Rank(e)
                      /\ \E e \in Results(a) :
                          IsLatest(e, Results(a)) /\ store[a].profit = e.profit
                      /\ Terminals(a, "retract") # {} => \E e \in Terminals(a, "retract") :
                          IsLatest(e, Terminals(a, "retract")) /\ store[a].reason = e.detail
                      /\ Terminals(a, "finalize") # {} => \E e \in Terminals(a, "finalize") :
                          IsLatest(e, Terminals(a, "finalize")) /\ store[a].block = e.detail
    BY DEF ConvergesToReference
  <2>1. /\ a \in DOMAIN store
        /\ \A f \in Concerning(a) : f \in Events /\ Taken(store[a], f)
    BY AllTaken
  <2>2. Sourced(store[a], a) /\ store[a] \in Row
    BY <2>1 DEF KeptInv, Session, StoreBehind
  <2>3. \A f \in Concerning(a) : f.at \in Nat /\ f.at # 0
    BY <2>1, EventFacts
  <2>4. \E e \in Concerning(a) :
            /\ Rank(e) = store[a].status
            /\ \A f \in Concerning(a) : Rank(f) <= Rank(e)
    <3>1. PICK e \in Concerning(a) : Rank(e) = store[a].status
      BY <2>2 DEF Sourced
    <3>2. ASSUME NEW f \in Concerning(a) PROVE Rank(f) <= Rank(e)
      <4>1. Rank(f) \in 0..3
        BY RankType DEF Concerning, Results, Terminals, ResultTypes, TerminalTypes
      <4>2. store[a].status >= Rank(f) /\ store[a].status \in 0..3
        BY <2>1, <2>2 DEF Taken, Row
      <4> QED BY <3>1, <4>1, <4>2
    <3> QED BY <3>1, <3>2
  <2>5. \E e \in Results(a) : IsLatest(e, Results(a)) /\ store[a].profit = e.profit
    <3>1. PICK e \in Results(a) : e.at = store[a].figuresAt /\ e.profit = store[a].profit
      BY <2>2 DEF Sourced
    <3>2. ASSUME NEW f \in Results(a) PROVE f.at <= e.at
      <4>1. f \in Concerning(a) /\ f.type \in ResultTypes
        BY DEF Concerning, Results, ResultTypes
      <4>2. store[a].figuresAt >= f.at /\ f.at \in Nat /\ store[a].figuresAt \in Nat
        BY <2>1, <2>2, <2>3, <4>1 DEF Taken, Row
      <4> QED BY <3>1, <4>2
    <3> QED BY <3>1, <3>2 DEF IsLatest
  <2>6. Terminals(a, "retract") # {} => \E e \in Terminals(a, "retract") :
            IsLatest(e, Terminals(a, "retract")) /\ store[a].reason = e.detail
    <3>1. ASSUME NEW f \in Terminals(a, "retract")
          PROVE  store[a].retractedAt >= f.at /\ f.at \in Nat /\ f.at # 0 /\ store[a].retractedAt \in Nat
      <4>1. f \in Concerning(a) /\ f.type = "retract"
        BY DEF Concerning, Terminals
      <4> QED BY <2>1, <2>2, <2>3, <4>1 DEF Taken, Row
    <3>2. SUFFICES ASSUME NEW g \in Terminals(a, "retract")
                   PROVE  \E e \in Terminals(a, "retract") :
                      IsLatest(e, Terminals(a, "retract")) /\ store[a].reason = e.detail
      OBVIOUS
    <3>3. store[a].retractedAt # 0
      BY <3>1
    <3>4. PICK e \in Terminals(a, "retract") :
              e.at = store[a].retractedAt /\ e.detail = store[a].reason
      BY <2>2, <3>3 DEF Sourced
    <3> QED BY <3>1, <3>4 DEF IsLatest
  <2>7. Terminals(a, "finalize") # {} => \E e \in Terminals(a, "finalize") :
            IsLatest(e, Terminals(a, "finalize")) /\ store[a].block = e.detail
    <3>1. ASSUME NEW f \in Terminals(a, "finalize")
          PROVE  store[a].finalizedAt >= f.at /\ f.at \in Nat /\ f.at # 0 /\ store[a].finalizedAt \in Nat
      <4>1. f \in Concerning(a) /\ f.type = "finalize"
        BY DEF Concerning, Terminals
      <4> QED BY <2>1, <2>2, <2>3, <4>1 DEF Taken, Row
    <3>2. SUFFICES ASSUME NEW g \in Terminals(a, "finalize")
                   PROVE  \E e \in Terminals(a, "finalize") :
                      IsLatest(e, Terminals(a, "finalize")) /\ store[a].block = e.detail
      OBVIOUS
    <3>3. store[a].finalizedAt # 0
      BY <3>1
    <3>4. PICK e \in Terminals(a, "finalize") :
              e.at = store[a].finalizedAt /\ e.detail = store[a].block
      BY <2>2, <3>3 DEF Sourced
    <3> QED BY <3>1, <3>4 DEF IsLatest
  <2> QED BY <2>1, <2>4, <2>5, <2>6, <2>7
<1> QED BY <1>1, KeptHolds, PTL

-----------------------------------------------------------------------------
(***************************************************************************)
(* The job rows.                                                           *)
(***************************************************************************)
LEMMA RecordJobFacts ==
    ASSUME NEW js, JobsTrue(js), NEW d \in Events, HasJob(d)
    PROVE  LET ks == RecordJob(js, d)
           IN /\ JobsTrue(ks) /\ JobKept(ks, d)
              /\ \A e \in Events : JobKept(js, e) => JobKept(ks, e)
<1> DEFINE a == d.alert
           ks == RecordJob(js, d)
           old == IF a \in DOMAIN js THEN js[a]
                  ELSE [status |-> "none", requestedAt |-> 0, completedAt |-> 0]
           new == [status |-> IF old.status = "completed" THEN "completed" ELSE d.type,
                   requestedAt |-> IF old.requestedAt = 0 /\ d.type = "requested"
                                   THEN d.at ELSE old.requestedAt,
                   completedAt |-> IF old.completedAt = 0 /\ d.type = "completed"
                                   THEN d.at ELSE old.completedAt]
<1>1. ks = With(js, a, new)
  BY DEF RecordJob
<1>2. /\ DOMAIN ks = DOMAIN js \cup {a} /\ ks[a] = new
      /\ \A b \in DOMAIN js : b # a => ks[b] = js[b]
  BY <1>1 DEF With
<1>3. d.at \in Nat /\ d.at # 0 /\ d.type \in {"requested", "completed"}
  BY EventFacts DEF HasJob
<1>4. old \in JobRow /\ JobSourced(old, a)
  BY DEF JobsTrue, JobRow, JobSourced
<1> HIDE DEF old
<1>5. new \in JobRow
  BY <1>3, <1>4 DEF JobRow
<1>6. /\ new.requestedAt = IF old.requestedAt = 0 /\ d.type = "requested"
                           THEN d.at ELSE old.requestedAt
      /\ new.completedAt = IF old.completedAt = 0 /\ d.type = "completed"
                           THEN d.at ELSE old.completedAt
      /\ new.status = IF old.status = "completed" THEN "completed" ELSE d.type
  OBVIOUS
<1> HIDE DEF new, ks
<1>7. JobSourced(new, a)
  BY <1>3, <1>4, <1>6 DEF JobSourced
<1>8. JobsTrue(ks)
  BY <1>2, <1>5, <1>7 DEF JobsTrue
<1>9. JobKept(ks, d)
  BY <1>2, <1>3, <1>6 DEF JobKept
<1>10. ASSUME NEW e \in Events, JobKept(js, e), HasJob(e)
       PROVE  /\ e.alert \in DOMAIN ks
              /\ e.type = "requested" => ks[e.alert].requestedAt # 0
              /\ e.type = "completed" =>
                    ks[e.alert].completedAt # 0 /\ ks[e.alert].status = "completed"
  <2>1. /\ e.alert \in DOMAIN js
        /\ e.type = "requested" => js[e.alert].requestedAt # 0
        /\ e.type = "completed" =>
              js[e.alert].completedAt # 0 /\ js[e.alert].status = "completed"
    BY <1>10 DEF JobKept
  <2>2. CASE e.alert = a
    <3>1. old = js[a]
      BY <2>1, <2>2 DEF old
    <3> QED BY <1>2, <1>3, <1>6, <2>1, <2>2, <3>1
  <2>3. CASE e.alert # a
    BY <1>2, <2>1, <2>3
  <2> QED BY <2>2, <2>3
<1>11. \A e \in Events : JobKept(js, e) => JobKept(ks, e)
  BY <1>10 DEF JobKept
<1> QED BY <1>8, <1>9, <1>11 DEF ks

LEMMA JobStep == ~SeekMayFail /\ JobInv /\ [Next]_vars => JobInv'
<1> SUFFICES ASSUME ~SeekMayFail, JobInv, [Next]_vars PROVE JobInv'
  OBVIOUS
<1>1. Offsets /\ Offsets' /\ JobsTrue(jobs)
  BY OffsetsStep DEF JobInv
\* The row is written before anything of the record can be committed.
<1>2. \/ jobs' = jobs
      \/ \E p \in Partition : HasRecord(p) /\ HasJob(Received(p)) /\ jobs' = RecordJob(jobs, Received(p))
  BY DEF Next, Handle, JobFails, UpsertFails, AppendFails, Rebalance, Restart, JobWritten, vars
<1>3. ASSUME NEW o \in Offset, Pending(o), ~Pending(o)'
      PROVE  \E p \in Partition : Handle(p) /\ o = <<p, pos[p] + 1>>
  <2>1. ASSUME Restart PROVE Pending(o)'
    <3>1. pos' = committed /\ skipped' = skipped
      BY <2>1 DEF Restart, Resume
    <3>2. o[1] \in Partition /\ o[2] \in Nat
      BY OffsetFacts
    <3>3. committed[o[1]] <= pos[o[1]] /\ committed[o[1]] \in Nat /\ pos[o[1]] \in Nat
      BY <1>1, <3>2 DEF Offsets
    <3> QED BY <1>3, <3>1, <3>2, <3>3 DEF Pending
  <2> QED BY <1>1, <1>3, <2>1, PendingStep
<1>4. /\ JobsTrue(jobs')
      /\ \A e \in Events : JobKept(jobs, e) => JobKept(jobs', e)
  <2>1. CASE jobs' = jobs
    BY <1>1, <2>1
  <2>2. ASSUME NEW p \in Partition, HasRecord(p), HasJob(Received(p)),
               jobs' = RecordJob(jobs, Received(p))
        PROVE  /\ JobsTrue(jobs')
               /\ \A e \in Events : JobKept(jobs, e) => JobKept(jobs', e)
    <3>1. Received(p) \in Events
      BY <1>1, <2>2, ReceivedEvent
    <3> QED BY <1>1, <2>2, <3>1, RecordJobFacts
  <2> QED BY <1>2, <2>1, <2>2
<1>5. ASSUME NEW o \in Offset, ~Pending(o)' PROVE JobKept(jobs', Log[o[1]][o[2]])
  <2> DEFINE e == Log[o[1]][o[2]]
  <2>1. e \in Events
    BY OffsetEvent
  <2>2. CASE ~Pending(o)
    BY <1>4, <2>1, <2>2 DEF JobInv
  <2>3. CASE Pending(o)
    <3>1. PICK p \in Partition : Handle(p) /\ o = <<p, pos[p] + 1>>
      BY <1>3, <1>5, <2>3
    <3>2. e = Received(p)
      BY <3>1 DEF Received
    <3>3. jobs' = IF HasJob(e) THEN RecordJob(jobs, e) ELSE jobs
      BY <3>1, <3>2 DEF Handle, JobWritten
    <3> HIDE DEF e
    <3>4. HasJob(e) => JobKept(jobs', e)
      BY <1>1, <2>1, <3>3, RecordJobFacts
    <3>5. ~HasJob(e) => JobKept(jobs', e)
      BY DEF JobKept
    <3>6. JobKept(jobs', e)
      BY <3>4, <3>5
    <3> QED BY <3>6 DEF e
  <2> QED BY <2>2, <2>3
<1> QED BY <1>1, <1>4, <1>5 DEF JobInv

\* A job event that was handled is in its job row, across restarts.
THEOREM JobInvHolds == ~SeekMayFail => (Spec => []JobInv)
<1> SUFFICES ASSUME ~SeekMayFail PROVE Spec => []JobInv
  OBVIOUS
<1>1. Init => JobInv
  <2> SUFFICES ASSUME Init PROVE JobInv
    OBVIOUS
  <2>1. Offsets /\ \A o \in Offset : Pending(o)
    <3>1. KeptInv
      BY KeptInit
    <3>2. ASSUME NEW o \in Offset PROVE Pending(o)
      BY InitPending
    <3> QED BY <3>1, <3>2 DEF KeptInv, Session
  <2>2. JobsTrue(jobs)
    BY DEF Init, JobsTrue
  <2> QED BY <2>1, <2>2 DEF JobInv
<1>2. JobInv /\ [Next]_vars => JobInv'
  BY JobStep
<1> QED BY <1>1, <1>2, PTL DEF Spec

\* In the end the job rows of record_job say what the job events said, whatever
\* their order, and across restarts.
THEOREM JobRowsConverge == ~SeekMayFail => (Spec => []JobsConverge)
<1> SUFFICES ASSUME ~SeekMayFail PROVE Spec => []JobsConverge
  OBVIOUS
<1>1. JobInv => JobsConverge
  <2> SUFFICES ASSUME JobInv, AllHandled, skipped = {}, NEW e \in Events, HasJob(e)
               PROVE  /\ e.alert \in DOMAIN jobs
                      /\ e.type = "completed" => jobs[e.alert].status = "completed"
                      /\ \E f \in Events :
                          /\ f.type = e.type /\ f.alert = e.alert
                          /\ f.at = IF e.type = "completed" THEN jobs[e.alert].completedAt
                                    ELSE jobs[e.alert].requestedAt
    BY DEF JobsConverge
  <2>1. PICK o \in Offset : e = Log[o[1]][o[2]]
    BY DEF Events
  <2>2. ~Pending(o)
    <3>1. o[1] \in Partition /\ o[2] \in 1..Len(Log[o[1]]) /\ o[2] \in Nat
      BY OffsetFacts
    <3>2. pos[o[1]] = Len(Log[o[1]]) /\ pos[o[1]] \in Nat
      BY <3>1 DEF AllHandled, JobInv, Offsets
    <3> QED BY <3>1, <3>2 DEF Pending
  <2>3. /\ e.alert \in DOMAIN jobs
        /\ e.type = "requested" => jobs[e.alert].requestedAt # 0
        /\ e.type = "completed" =>
              jobs[e.alert].completedAt # 0 /\ jobs[e.alert].status = "completed"
    BY <2>1, <2>2 DEF JobInv, JobKept
  <2>4. JobSourced(jobs[e.alert], e.alert)
    BY <2>3 DEF JobInv, JobsTrue
  <2>5. e.type \in {"requested", "completed"}
    BY DEF HasJob
  <2> QED BY <2>3, <2>4, <2>5 DEF JobSourced
<1> QED BY <1>1, JobInvHolds, PTL
===============================================================================
