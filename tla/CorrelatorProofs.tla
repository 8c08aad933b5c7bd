--------------------------- MODULE CorrelatorProofs ---------------------------
(***************************************************************************)
(* Proofs about the cross-chain correlator, for any legs, chains, blocks,  *)
(* buffer and tracker sizes and any number of crashes, shutdowns and       *)
(* rebalances.                                                             *)
(***************************************************************************)
EXTENDS Correlator, TLAPS, WellFoundedInduction

-----------------------------------------------------------------------------
(***************************************************************************)
(* Induction and recursive functions on the naturals.                      *)
(***************************************************************************)

\* Induction over the naturals, with the property as a set.
LEMMA Induction ==
    ASSUME NEW S, 0 \in S, \A n \in Nat : n \in S => n + 1 \in S
    PROVE  Nat \subseteq S
<1> DEFINE T == Nat \ S
<1> SUFFICES ASSUME T # {} PROVE FALSE
  OBVIOUS
<1>1. PICK i \in T : \A j \in T : ~(<<j, i>> \in OpToRel(<, Nat))
  <2>1. T \subseteq Nat
    OBVIOUS
  <2> HIDE DEF T
  <2> QED BY <2>1, WFMin, NatLessThanWellFounded
<1>2. \A j \in T : ~(j < i)
  BY <1>1 DEF OpToRel
<1>3. i \in Nat /\ i # 0 /\ i - 1 \in Nat
  OBVIOUS
<1>4. i - 1 \in S
  BY <1>2, <1>3
<1>5. (i - 1) + 1 \in S
  BY <1>3, <1>4
<1> QED BY <1>3, <1>5

\* f is a iterated along step.
Iterates(f, a, step) ==
    f[0] = a /\ \A n \in Nat : f[n + 1] = step[<<n, f[n]>>]

\* A value iterated n times along step: what a recursive function on the
\* naturals defines.
LEMMA Iteration ==
    ASSUME NEW X, NEW a \in X, NEW step \in [Nat \X X -> X]
    PROVE  \E f \in [Nat -> X] : Iterates(f, a, step)
<1> DEFINE Good(n, h) == /\ h \in [0..n -> X]
                         /\ h[0] = a
                         /\ \A k \in 0..(n - 1) : h[k + 1] = step[<<k, h[k]>>]
           S == {n \in Nat : \E h : Good(n, h)}
           A == {k \in Nat : \A m, n \in Nat : \A g, h :
                    Good(m, g) /\ Good(n, h) /\ k <= m /\ k <= n => g[k] = h[k]}
<1>1. Nat \subseteq S
  <2>1. 0 \in S
    <3>1. Good(0, [k \in 0..0 |-> a])
      OBVIOUS
    <3> QED BY <3>1
  <2>2. ASSUME NEW n \in Nat, n \in S PROVE n + 1 \in S
    <3>1. PICK h : Good(n, h)
      BY <2>2
    <3> DEFINE g == [k \in 0..(n + 1) |->
                        IF k = n + 1 THEN step[<<n, h[n]>>] ELSE h[k]]
    <3>2. h[n] \in X /\ step[<<n, h[n]>>] \in X
      BY <3>1
    <3>3. g \in [0..(n + 1) -> X]
      BY <3>1, <3>2
    <3>4. g[0] = a
      BY <3>1
    <3>5. ASSUME NEW k \in 0..n PROVE g[k + 1] = step[<<k, g[k]>>]
      <4>1. CASE k = n
        <5>1. g[n + 1] = step[<<n, h[n]>>] /\ g[n] = h[n]
          OBVIOUS
        <5> QED BY <4>1, <5>1
      <4>2. CASE k # n
        BY <3>1, <4>2
      <4> QED BY <4>1, <4>2
    <3>6. Good(n + 1, g)
      <4>1. (n + 1) - 1 = n
        OBVIOUS
      <4> HIDE DEF g
      <4> QED BY <3>3, <3>4, <3>5, <4>1
    <3> HIDE DEF g, Good
    <3> QED BY <3>6
  <2> HIDE DEF S
  <2> QED BY <2>1, <2>2, Induction
<1>2. Nat \subseteq A
  <2>1. 0 \in A
    OBVIOUS
  <2>2. ASSUME NEW k \in Nat, k \in A PROVE k + 1 \in A
    <3> SUFFICES ASSUME NEW m \in Nat, NEW n \in Nat, NEW g, NEW h,
                        Good(m, g), Good(n, h), k + 1 <= m, k + 1 <= n
                 PROVE  g[k + 1] = h[k + 1]
      OBVIOUS
    <3>1. g[k] = h[k]
      BY <2>2
    <3>2. k \in 0..(m - 1) /\ k \in 0..(n - 1)
      OBVIOUS
    <3> QED BY <3>1, <3>2
  <2> HIDE DEF A
  <2> QED BY <2>1, <2>2, Induction
<1> DEFINE H(n) == CHOOSE h : Good(n, h)
           f == [n \in Nat |-> H(n)[n]]
<1>3. \A n \in Nat : Good(n, H(n))
  <2> SUFFICES ASSUME NEW n \in Nat PROVE Good(n, H(n))
    OBVIOUS
  <2>1. \E h : Good(n, h)
    BY <1>1
  <2> HIDE DEF Good
  <2> QED BY <2>1
<1>4. \A n \in Nat : f[n] \in X
  <2> HIDE DEF H
  <2> QED BY <1>3
<1>5. f[0] = a
  <2> HIDE DEF H
  <2> QED BY <1>3
<1>6. ASSUME NEW n \in Nat PROVE f[n + 1] = step[<<n, f[n]>>]
  <2>1. Good(n, H(n)) /\ Good(n + 1, H(n + 1))
    <3> HIDE DEF Good, H
    <3> QED BY <1>3
  <2>2. H(n + 1)[n] = H(n)[n]
    <3> HIDE DEF H, Good
    <3>1. n \in A /\ n + 1 \in Nat /\ n <= n + 1 /\ n <= n
      BY <1>2
    <3> QED BY <2>1, <3>1
  <2>3. H(n + 1)[n + 1] = step[<<n, H(n + 1)[n]>>]
    <3> HIDE DEF H
    <3>1. n \in 0..((n + 1) - 1)
      OBVIOUS
    <3> QED BY <2>1, <3>1
  <2> HIDE DEF H
  <2> QED BY <2>2, <2>3
<1> HIDE DEF H
<1> QED BY <1>4, <1>5, <1>6 DEF Iterates

\* g is what a recursive definition on the naturals defines.
Solves(g, a, step) ==
    g = [n \in Nat |-> IF n = 0 THEN a ELSE step[<<n - 1, g[n - 1]>>]]

LEMMA Recursion ==
    ASSUME NEW X, NEW a \in X, NEW step \in [Nat \X X -> X]
    PROVE  \E g \in [Nat -> X] : Solves(g, a, step)
<1>1. PICK g \in [Nat -> X] : Iterates(g, a, step)
  BY Iteration
<1>2. ASSUME NEW n \in Nat
      PROVE  g[n] = IF n = 0 THEN a ELSE step[<<n - 1, g[n - 1]>>]
  <2>1. CASE n = 0
    BY <1>1, <2>1 DEF Iterates
  <2>2. CASE n # 0
    <3> DEFINE k == n - 1
    <3>1. k \in Nat /\ n = k + 1
      BY <2>2
    <3> HIDE DEF k
    <3>2. g[k + 1] = step[<<k, g[k]>>]
      BY <1>1, <3>1 DEF Iterates
    <3> QED BY <2>2, <3>1, <3>2 DEF k
  <2> QED BY <2>1, <2>2
<1> QED BY <1>2 DEF Solves

-----------------------------------------------------------------------------
(***************************************************************************)
(* Sequences of legs.                                                      *)
(***************************************************************************)
OnceIn(s, x) == \A i, j \in DOMAIN s : s[i] = x /\ s[j] = x => i = j

LEMMA AppendFacts ==
    ASSUME NEW X, NEW s \in Seq(X), NEW x \in X
    PROVE  /\ Append(s, x) \in Seq(X)
           /\ Members(Append(s, x)) = Members(s) \cup {x}
           /\ \A y : OnceIn(s, y) /\ (y = x => y \notin Members(s)) => OnceIn(Append(s, x), y)
<1> DEFINE t == Append(s, x)
           n == Len(s)
<1>1. /\ t \in Seq(X) /\ n \in Nat /\ DOMAIN s = 1..n /\ DOMAIN t = 1..(n + 1)
      /\ t[n + 1] = x /\ \A i \in 1..n : t[i] = s[i]
  OBVIOUS
<1>2. \A i \in 1..(n + 1) : i \in 1..n \/ i = n + 1
  BY <1>1
<1> HIDE DEF t, n
<1>3. n + 1 \in 1..(n + 1) /\ \A i \in 1..n : i \in 1..(n + 1)
  BY <1>1
<1>4. Members(t) = Members(s) \cup {x}
  BY <1>1, <1>2, <1>3 DEF Members
<1>5. ASSUME NEW y, OnceIn(s, y), y = x => y \notin Members(s) PROVE OnceIn(t, y)
  BY <1>1, <1>2, <1>3, <1>5 DEF Members, OnceIn
<1> QED BY <1>1, <1>4, <1>5 DEF t

LEMMA TailFacts ==
    ASSUME NEW X, NEW s \in Seq(X), s # << >>
    PROVE  /\ Tail(s) \in Seq(X) /\ Head(s) \in X /\ Head(s) \in Members(s)
           /\ Members(s) = Members(Tail(s)) \cup {Head(s)}
           /\ \A y : OnceIn(s, y) => OnceIn(Tail(s), y)
           /\ OnceIn(s, Head(s)) => Head(s) \notin Members(Tail(s))
<1> DEFINE t == Tail(s)
           n == Len(s)
<1>1. /\ t \in Seq(X) /\ n \in Nat /\ n >= 1 /\ DOMAIN s = 1..n /\ DOMAIN t = 1..(n - 1)
      /\ Head(s) = s[1] /\ \A i \in 1..(n - 1) : t[i] = s[i + 1]
  OBVIOUS
<1> HIDE DEF t, n
<1>2. 1 \in 1..n /\ \A i \in 1..(n - 1) : i + 1 \in 1..n /\ i + 1 # 1
  BY <1>1
<1>3. \A i \in 1..n : i = 1 \/ (i - 1 \in 1..(n - 1) /\ (i - 1) + 1 = i)
  BY <1>1
<1>4. Members(s) = Members(t) \cup {s[1]}
  <2>1. ASSUME NEW i \in 1..n PROVE s[i] \in Members(t) \cup {s[1]}
    <3>1. CASE i = 1
      BY <3>1
    <3>2. CASE i # 1
      <4>1. t[i - 1] = s[i]
        BY <1>1, <1>3, <3>2
      <4> QED BY <1>1, <1>3, <3>2, <4>1 DEF Members
    <3> QED BY <3>1, <3>2
  <2>2. ASSUME NEW i \in 1..(n - 1) PROVE t[i] \in Members(s)
    BY <1>1, <1>2 DEF Members
  <2> QED BY <1>1, <1>2, <2>1, <2>2 DEF Members
<1>5. ASSUME NEW y, OnceIn(s, y) PROVE OnceIn(t, y)
  <2> SUFFICES ASSUME NEW i \in 1..(n - 1), NEW j \in 1..(n - 1), t[i] = y, t[j] = y
               PROVE  i = j
    BY <1>1 DEF OnceIn
  <2>1. s[i + 1] = y /\ s[j + 1] = y
    BY <1>1
  <2>2. i + 1 = j + 1
    BY <1>1, <1>2, <1>5, <2>1 DEF OnceIn
  <2> QED BY <2>2
<1>6. ASSUME OnceIn(s, s[1]), s[1] \in Members(t) PROVE FALSE
  <2>1. PICK i \in 1..(n - 1) : t[i] = s[1]
    BY <1>1, <1>6 DEF Members
  <2>2. s[i + 1] = s[1]
    BY <1>1, <2>1
  <2> QED BY <1>1, <1>2, <1>6, <2>2 DEF OnceIn
<1>7. s[1] \in X /\ s[1] \in Members(s)
  BY <1>1, <1>2 DEF Members
<1> QED BY <1>1, <1>4, <1>5, <1>6, <1>7 DEF t

LEMMA MembersType ==
    ASSUME NEW X, NEW s \in Seq(X)
    PROVE  Members(s) \subseteq X /\ s \in Seq(Members(s))
<1>1. s \in [1..Len(s) -> X] /\ DOMAIN s = 1..Len(s) /\ Len(s) \in Nat
  OBVIOUS
<1>2. Members(s) \subseteq X
  BY <1>1 DEF Members
<1>3. \A i \in 1..Len(s) : s[i] \in Members(s)
  BY <1>1 DEF Members
<1> QED BY <1>1, <1>2, <1>3

\* What Sift returns.
LEMMA SiftFacts ==
    ASSUME NEW T, NEW s \in Seq(T), NEW S
    PROVE  /\ Sift(s, S) \in Seq(T)
           /\ Members(Sift(s, S)) = Members(s) \cap S
           /\ \A x : OnceIn(s, x) => OnceIn(Sift(s, S), x)
<1> DEFINE R == {s[m] : m \in Nat}
           X == Seq(R)
           grow(n, q) == IF s[n] \in S THEN Append(q, s[n]) ELSE q
           step == [p \in Nat \X X |-> grow(p[1] + 1, p[2])]
           Eq(g) == g = [n \in Nat |-> IF n = 0 THEN << >> ELSE grow(n, g[n - 1])]
           f == CHOOSE g : Eq(g)
<1>0. Len(s) \in Nat /\ DOMAIN s = 1..Len(s)
  OBVIOUS
<1>1. << >> \in X /\ \A n \in Nat, q \in X : grow(n, q) \in X
  <2>1. ASSUME NEW n \in Nat, NEW q \in X PROVE grow(n, q) \in X
    <3>1. s[n] \in R
      OBVIOUS
    <3> HIDE DEF R
    <3> QED BY <3>1
  <2> QED BY <2>1
<1> HIDE DEF X, grow
<1>2. step \in [Nat \X X -> X]
  BY <1>1
<1>3. PICK g \in [Nat -> X] : Solves(g, << >>, step)
  <2> HIDE DEF step
  <2> QED BY <1>1, <1>2, Recursion
<1>4. Eq(g)
  <2>1. ASSUME NEW n \in Nat, n # 0 PROVE step[<<n - 1, g[n - 1]>>] = grow(n, g[n - 1])
    <3>1. n - 1 \in Nat /\ (n - 1) + 1 = n
      BY <2>1
    <3> QED BY <1>3, <3>1
  <2> QED BY <1>3, <2>1 DEF Solves
<1>5. Eq(f)
  <2> HIDE DEF Eq
  <2> QED BY <1>4
<1>6. Sift(s, S) = f[Len(s)]
  BY DEF Sift, grow
<1> HIDE DEF f
<1>7. f[0] = << >>
  BY <1>5
<1>8. ASSUME NEW n \in Nat PROVE f[n + 1] = grow(n + 1, f[n])
  <2>1. n + 1 \in Nat /\ n + 1 # 0 /\ (n + 1) - 1 = n
    OBVIOUS
  <2> QED BY <1>5, <2>1
<1> DEFINE First(n) == {s[i] : i \in 1..n}
           Ok(n) == /\ f[n] \in Seq(T)
                    /\ Members(f[n]) = First(n) \cap S
                    /\ \A x : OnceIn(s, x) => OnceIn(f[n], x)
           A == {n \in Nat : n <= Len(s) => Ok(n)}
<1>9. 0 \in A
  <2>1. DOMAIN << >> = 1..0 /\ 1..0 = {} /\ << >> \in Seq(T)
    OBVIOUS
  <2>2. Members(<< >>) = {} /\ \A x : OnceIn(<< >>, x)
    BY <2>1 DEF Members, OnceIn
  <2>3. First(0) = {}
    BY <2>1
  <2> QED BY <1>7, <2>1, <2>2, <2>3
<1>10. ASSUME NEW n \in Nat, n \in A PROVE n + 1 \in A
  <2> SUFFICES ASSUME n + 1 <= Len(s) PROVE Ok(n + 1)
    OBVIOUS
  <2>1. Ok(n) /\ n + 1 \in 1..Len(s) /\ s[n + 1] \in T
    BY <1>0, <1>10
  <2>2. \A i \in 1..(n + 1) : i \in 1..n \/ i = n + 1
    OBVIOUS
  <2>3. First(n + 1) = First(n) \cup {s[n + 1]}
    <3>1. n + 1 \in 1..(n + 1) /\ \A i \in 1..n : i \in 1..(n + 1)
      OBVIOUS
    <3> QED BY <2>2, <3>1
  <2>4. CASE s[n + 1] \notin S
    <3>1. f[n + 1] = f[n]
      BY <1>8, <2>4 DEF grow
    <3> HIDE DEF First
    <3> QED BY <2>1, <2>3, <2>4, <3>1
  <2>5. CASE s[n + 1] \in S
    <3>1. f[n + 1] = Append(f[n], s[n + 1])
      BY <1>8, <2>5 DEF grow
    <3>2. ASSUME NEW x, OnceIn(s, x), x = s[n + 1] PROVE x \notin First(n)
      <4>1. \A i \in 1..n : i \in 1..Len(s) /\ i # n + 1
        BY <1>0, <2>1
      <4> QED BY <1>0, <2>1, <3>2, <4>1 DEF OnceIn
    <3> HIDE DEF First
    <3>3. /\ f[n + 1] \in Seq(T)
          /\ Members(f[n + 1]) = Members(f[n]) \cup {s[n + 1]}
          /\ \A x : OnceIn(f[n], x) /\ (x = s[n + 1] => x \notin Members(f[n])) => OnceIn(f[n + 1], x)
      BY <2>1, <3>1, AppendFacts
    <3> QED BY <2>1, <2>3, <2>5, <3>2, <3>3
  <2> QED BY <2>4, <2>5
<1>11. Nat \subseteq A
  <2> HIDE DEF A
  <2> QED BY <1>9, <1>10, Induction
<1>12. Ok(Len(s))
  <2> HIDE DEF Ok
  <2> QED BY <1>0, <1>11
<1>13. First(Len(s)) = Members(s)
  BY <1>0 DEF Members
<1> QED BY <1>6, <1>12, <1>13

\* The first l goes, what else there is stays.
LEMMA DropFacts ==
    ASSUME NEW T, NEW s \in Seq(T), NEW l
    PROVE  /\ DropFirst(s, l) \in Seq(T)
           /\ Members(DropFirst(s, l)) \subseteq Members(s)
           /\ \A x \in Members(s) : x # l => x \in Members(DropFirst(s, l))
           /\ \A x : OnceIn(s, x) => OnceIn(DropFirst(s, l), x)
           /\ OnceIn(s, l) => l \notin Members(DropFirst(s, l))
<1> DEFINE t == DropFirst(s, l)
           n == Len(s)
<1>1. n \in Nat /\ DOMAIN s = 1..n /\ \A i \in 1..n : s[i] \in T
  OBVIOUS
<1>2. CASE l \notin Members(s)
  <2>1. t = s
    BY <1>2 DEF DropFirst
  <2> QED BY <1>2, <2>1
<1>3. CASE l \in Members(s)
  <2>1. PICK k \in 1..n : s[k] = l
    BY <1>1, <1>3 DEF Members
  <2>2. n >= 1 /\ n - 1 \in Nat
    BY <1>1, <2>1
  <2>3. t = [i \in 1..(n - 1) |-> IF \E j \in 1..i : s[j] = l THEN s[i + 1] ELSE s[i]]
    BY <1>3 DEF DropFirst
  <2> HIDE DEF t, n
  <2>4. DOMAIN t = 1..(n - 1)
        /\ \A i \in 1..(n - 1) : t[i] = IF \E j \in 1..i : s[j] = l THEN s[i + 1] ELSE s[i]
    BY <2>3
  <2>5. \A i \in 1..(n - 1) : i \in 1..n /\ i + 1 \in 1..n
    BY <1>1, <2>2
  <2>6. t \in Seq(T)
    <3>1. \A i \in 1..(n - 1) : t[i] \in T
      BY <1>1, <2>4, <2>5
    <3>2. t \in [1..(n - 1) -> T]
      BY <2>3, <3>1
    <3> QED BY <2>2, <3>2
  <2>7. Members(t) \subseteq Members(s)
    BY <1>1, <2>4, <2>5 DEF Members
  <2>8. ASSUME NEW x \in Members(s), x # l PROVE x \in Members(t)
    <3>1. PICK i \in 1..n : s[i] = x
      BY <1>1 DEF Members
    <3>2. CASE \E j \in 1..i : s[j] = l
      <4>1. PICK j \in 1..i : s[j] = l
        BY <3>2
      <4>2. j # i /\ j \in 1..(i - 1) /\ i - 1 \in 1..(n - 1) /\ (i - 1) + 1 = i
        BY <1>1, <2>8, <3>1, <4>1
      <4>3. t[i - 1] = s[(i - 1) + 1]
        BY <2>4, <4>1, <4>2
      <4> QED BY <2>4, <3>1, <4>2, <4>3 DEF Members
    <3>3. CASE ~\E j \in 1..i : s[j] = l
      <4>1. k > i
        BY <2>1, <3>3
      <4>2. i \in 1..(n - 1)
        BY <1>1, <2>1, <4>1
      <4>3. t[i] = s[i]
        BY <2>4, <3>3, <4>2
      <4> QED BY <2>4, <3>1, <4>2, <4>3 DEF Members
    <3> QED BY <3>2, <3>3
  <2>9. ASSUME NEW x, OnceIn(s, x) PROVE OnceIn(t, x)
    <3> SUFFICES ASSUME NEW i \in 1..(n - 1), NEW j \in 1..(n - 1), t[i] = x, t[j] = x, i < j
                 PROVE  FALSE
      <4>1. \A i, j \in 1..(n - 1) : i < j \/ j < i \/ i = j
        BY <2>2
      <4> QED BY <2>4, <4>1 DEF OnceIn
    <3> DEFINE P(m) == \E h \in 1..m : s[h] = l
    <3>1. t[i] = IF P(i) THEN s[i + 1] ELSE s[i]
      BY <2>4
    <3>2. t[j] = IF P(j) THEN s[j + 1] ELSE s[j]
      BY <2>4
    <3>3. P(i) => P(j)
      OBVIOUS
    <3> HIDE DEF P
    <3>4. i \in 1..n /\ i + 1 \in 1..n /\ j \in 1..n /\ j + 1 \in 1..n
      BY <2>5
    <3>5. \A a, b \in 1..n : s[a] = x /\ s[b] = x => a = b
      BY <1>1, <2>9 DEF OnceIn
    <3>6. CASE P(i)
      <4>1. i + 1 = j + 1
        BY <3>1, <3>2, <3>3, <3>4, <3>5, <3>6
      <4> QED BY <4>1
    <3>7. CASE ~P(i) /\ P(j)
      <4>1. i = j + 1
        BY <3>1, <3>2, <3>4, <3>5, <3>7
      <4> QED BY <4>1
    <3>8. CASE ~P(i) /\ ~P(j)
      <4>1. i = j
        BY <3>1, <3>2, <3>4, <3>5, <3>8
      <4> QED BY <4>1
    <3> QED BY <3>6, <3>7, <3>8
  <2>10. ASSUME OnceIn(s, l), l \in Members(t) PROVE FALSE
    <3>1. PICK i \in 1..(n - 1) : t[i] = l
      BY <2>4, <2>10 DEF Members
    <3>2. \A a \in 1..n : s[a] = l => a = k
      BY <1>1, <2>1, <2>10 DEF OnceIn
    <3>3. CASE \E j \in 1..i : s[j] = l
      <4>1. PICK j \in 1..i : s[j] = l
        BY <3>3
      <4>2. j \in 1..n /\ i + 1 \in 1..n /\ j # i + 1
        BY <1>1, <2>2, <4>1
      <4>3. s[i + 1] = l
        BY <2>4, <3>1, <3>3
      <4> QED BY <3>2, <4>1, <4>2, <4>3
    <3>4. CASE ~\E j \in 1..i : s[j] = l
      <4>1. s[i] = l /\ i \in 1..i
        BY <2>4, <3>1, <3>4
      <4> QED BY <3>4, <4>1
    <3> QED BY <3>3, <3>4
  <2> QED BY <2>6, <2>7, <2>8, <2>9, <2>10 DEF t
<1> QED BY <1>2, <1>3

-----------------------------------------------------------------------------
(***************************************************************************)
(* The buffer's operations, by the legs they keep.                         *)
(***************************************************************************)
Buffers(X) == [legs : Seq(X), index : Seq(X)]

LEMMA RemoveFacts ==
    ASSUME NEW X, NEW b \in Buffers(X), NEW l
    PROVE  LET r == RemoveLeg(b, l)
           IN /\ r \in Buffers(X)
              /\ Members(r.legs) \subseteq Members(b.legs)
              /\ \A x \in Members(b.legs) : x # l => x \in Members(r.legs)
              /\ \A x : OnceIn(b.legs, x) => OnceIn(r.legs, x)
              /\ OnceIn(b.legs, l) => l \notin Members(r.legs)
<1> DEFINE r == RemoveLeg(b, l)
<1>1. b.legs \in Seq(X) /\ b.index \in Seq(X)
  BY DEF Buffers
<1>2. r.legs = DropFirst(b.legs, l) /\ r.index = Sift(b.index, Leg \ SameEntry(l))
      /\ r = [legs |-> r.legs, index |-> r.index]
  BY DEF RemoveLeg, Deindex
<1> HIDE DEF r
<1>3. r.index \in Seq(X)
  BY <1>1, <1>2, SiftFacts
<1>4. /\ r.legs \in Seq(X)
      /\ Members(r.legs) \subseteq Members(b.legs)
      /\ \A x \in Members(b.legs) : x # l => x \in Members(r.legs)
      /\ \A x : OnceIn(b.legs, x) => OnceIn(r.legs, x)
      /\ OnceIn(b.legs, l) => l \notin Members(r.legs)
  BY <1>1, <1>2, DropFacts
<1>5. r \in Buffers(X)
  BY <1>2, <1>3, <1>4 DEF Buffers
<1> QED BY <1>4, <1>5 DEF r

\* The leg Push gives up for room, if any.
Pushed(b) == IF Len(b.legs) < Capacity THEN {} ELSE {Head(b.legs)}

LEMMA PushFacts ==
    ASSUME NEW X, NEW b \in Buffers(X), NEW l \in X
    PROVE  LET p == Push(b, l)
           IN /\ p \in Buffers(X)
              /\ Members(p.legs) \subseteq Members(b.legs) \cup {l}
              /\ l \in Members(p.legs)
              /\ \A x \in Members(b.legs) \ Pushed(b) : x \in Members(p.legs)
              /\ \A x \in Pushed(b) : x # l /\ OnceIn(b.legs, x) => x \notin Members(p.legs)
              /\ \A x : OnceIn(b.legs, x) /\ (x = l => x \notin Members(b.legs)) => OnceIn(p.legs, x)
              /\ Pushed(b) \subseteq Members(b.legs)
<1> DEFINE p == Push(b, l)
<1>1. b.legs \in Seq(X) /\ b.index \in Seq(X)
  BY DEF Buffers
<1>2. Capacity \in Nat /\ Capacity > 0
  BY CorrelatorAssumption
<1>3. CASE Len(b.legs) < Capacity
  <2>1. p.legs = Append(b.legs, l) /\ p.index = Append(b.index, l)
        /\ p = [legs |-> p.legs, index |-> p.index]
    BY <1>3 DEF Push
  <2>2. Pushed(b) = {}
    BY <1>3 DEF Pushed
  <2> HIDE DEF p
  <2>3. /\ p.legs \in Seq(X) /\ Members(p.legs) = Members(b.legs) \cup {l}
        /\ \A x : OnceIn(b.legs, x) /\ (x = l => x \notin Members(b.legs)) => OnceIn(p.legs, x)
    BY <1>1, <2>1, AppendFacts
  <2>4. p.index \in Seq(X)
    BY <1>1, <2>1, AppendFacts
  <2>5. p \in Buffers(X)
    BY <2>1, <2>3, <2>4 DEF Buffers
  <2> QED BY <2>2, <2>3, <2>4, <2>5 DEF p
<1>4. CASE ~(Len(b.legs) < Capacity)
  <2> DEFINE h == Head(b.legs)
             t == Tail(b.legs)
             d == Sift(b.index, Leg \ SameEntry(h))
  <2>1. p.legs = Append(t, l) /\ p.index = Append(d, l)
        /\ p = [legs |-> p.legs, index |-> p.index]
    BY <1>4 DEF Push, Deindex
  <2>2. Pushed(b) = {h}
    BY <1>4 DEF Pushed
  <2>3. b.legs # << >>
    BY <1>1, <1>2, <1>4
  <2> HIDE DEF p, h, t, d
  <2>4. /\ t \in Seq(X) /\ h \in Members(b.legs)
        /\ Members(b.legs) = Members(t) \cup {h}
        /\ \A y : OnceIn(b.legs, y) => OnceIn(t, y)
        /\ OnceIn(b.legs, h) => h \notin Members(t)
    BY <1>1, <2>3, TailFacts DEF h, t
  <2>5. d \in Seq(X)
    BY <1>1, SiftFacts DEF d
  <2>6. /\ p.legs \in Seq(X) /\ Members(p.legs) = Members(t) \cup {l}
        /\ \A x : OnceIn(t, x) /\ (x = l => x \notin Members(t)) => OnceIn(p.legs, x)
    BY <2>1, <2>4, AppendFacts
  <2>7. p.index \in Seq(X)
    BY <2>1, <2>5, AppendFacts
  <2>8. p \in Buffers(X)
    BY <2>1, <2>6, <2>7 DEF Buffers
  <2> QED BY <2>2, <2>4, <2>5, <2>6, <2>7, <2>8 DEF p
<1> QED BY <1>3, <1>4

LEMMA ExpiryFacts ==
    ASSUME NEW X, NEW b \in Buffers(X), X \subseteq Leg, NEW t
    PROVE  LET e == EvictExpired(b, t)
           IN /\ e \in Buffers(X)
              /\ Members(e.legs) = Members(b.legs) \ Stale(t)
              /\ \A x : OnceIn(b.legs, x) => OnceIn(e.legs, x)
<1> DEFINE e == EvictExpired(b, t)
           old == UNION {SameEntry(l) : l \in Members(b.legs) \cap Stale(t)}
<1>1. b.legs \in Seq(X) /\ b.index \in Seq(X) /\ Members(b.legs) \subseteq X
  BY MembersType DEF Buffers
<1>2. /\ e.legs = Sift(b.legs, Leg \ Stale(t)) /\ e.index = Sift(b.index, Leg \ old)
      /\ e = [legs |-> e.legs, index |-> e.index]
  BY DEF EvictExpired
<1> HIDE DEF e, old
<1>3. /\ e.legs \in Seq(X) /\ Members(e.legs) = Members(b.legs) \cap (Leg \ Stale(t))
      /\ \A x : OnceIn(b.legs, x) => OnceIn(e.legs, x)
  BY <1>1, <1>2, SiftFacts
<1>4. e.index \in Seq(X)
  BY <1>1, <1>2, SiftFacts
<1>5. e \in Buffers(X)
  BY <1>2, <1>3, <1>4 DEF Buffers
<1> QED BY <1>1, <1>3, <1>4, <1>5 DEF e

LEMMA ConcatFacts ==
    ASSUME NEW X, NEW s \in Seq(X), NEW t \in Seq(X)
    PROVE  /\ s \o t \in Seq(X)
           /\ Members(s \o t) = Members(s) \cup Members(t)
           /\ \A x : OnceIn(s, x) /\ OnceIn(t, x) /\ ~(x \in Members(s) /\ x \in Members(t))
                     => OnceIn(s \o t, x)
<1> DEFINE u == s \o t
           m == Len(s)
           n == Len(t)
<1>1. /\ u \in Seq(X) /\ m \in Nat /\ n \in Nat /\ DOMAIN s = 1..m /\ DOMAIN t = 1..n
      /\ DOMAIN u = 1..(m + n)
      /\ \A i \in 1..m : u[i] = s[i]
      /\ \A i \in 1..n : u[m + i] = t[i]
  OBVIOUS
<1> HIDE DEF u, m, n
<1>2. \A i \in 1..(m + n) : i \in 1..m \/ (i - m \in 1..n /\ m + (i - m) = i)
  BY <1>1
<1>3. (\A i \in 1..m : i \in 1..(m + n)) /\ \A i \in 1..n : m + i \in 1..(m + n)
  BY <1>1
<1>4. \A i \in 1..(m + n) : (i \in 1..m /\ u[i] = s[i]) \/ (i - m \in 1..n /\ u[i] = t[i - m])
  BY <1>1, <1>2
<1>5. Members(u) = Members(s) \cup Members(t)
  <2>1. ASSUME NEW i \in 1..m PROVE s[i] \in Members(u)
    BY <1>1, <1>3 DEF Members
  <2>2. ASSUME NEW i \in 1..n PROVE t[i] \in Members(u)
    BY <1>1, <1>3 DEF Members
  <2>3. ASSUME NEW i \in 1..(m + n) PROVE u[i] \in Members(s) \cup Members(t)
    BY <1>1, <1>4 DEF Members
  <2> QED BY <1>1, <2>1, <2>2, <2>3 DEF Members
<1>6. ASSUME NEW x, OnceIn(s, x), OnceIn(t, x), ~(x \in Members(s) /\ x \in Members(t))
      PROVE  OnceIn(u, x)
  <2> SUFFICES ASSUME NEW i \in 1..(m + n), NEW j \in 1..(m + n), u[i] = x, u[j] = x
               PROVE  i = j
    BY <1>1 DEF OnceIn
  <2>1. CASE i \in 1..m /\ j \in 1..m
    BY <1>1, <1>6, <2>1 DEF OnceIn
  <2>2. CASE i - m \in 1..n /\ j - m \in 1..n /\ i \notin 1..m /\ j \notin 1..m
    <3>1. t[i - m] = x /\ t[j - m] = x
      BY <1>4, <2>2
    <3>2. i - m = j - m
      BY <1>1, <1>6, <2>2, <3>1 DEF OnceIn
    <3> QED BY <1>1, <3>2
  <2>3. ASSUME NEW a \in 1..(m + n), NEW b \in 1..(m + n), a \in 1..m, b \notin 1..m,
               u[a] = x, u[b] = x
        PROVE  FALSE
    <3>1. s[a] = x /\ t[b - m] = x /\ b - m \in 1..n
      BY <1>1, <1>4, <2>3
    <3> QED BY <1>1, <1>6, <2>3, <3>1 DEF Members
  <2> QED BY <1>2, <2>1, <2>2, <2>3
<1> QED BY <1>1, <1>5, <1>6 DEF u

LEMMA SingleFacts ==
    ASSUME NEW X, NEW l \in X
    PROVE  << l >> \in Seq(X) /\ Members(<< l >>) = {l} /\ \A x : OnceIn(<< l >>, x)
<1>1. << l >> \in Seq(X) /\ DOMAIN << l >> = 1..1 /\ << l >>[1] = l /\ 1..1 = {1}
  OBVIOUS
<1> QED BY <1>1 DEF Members, OnceIn

LEMMA EmptyFacts ==
    /\ \A X : << >> \in Seq(X)
    /\ Members(<< >>) = {} /\ \A x : OnceIn(<< >>, x)
<1>1. DOMAIN << >> = 1..0 /\ 1..0 = {} /\ \A X : << >> \in Seq(X)
  OBVIOUS
<1> QED BY <1>1 DEF Members, OnceIn

\* insert keeps what it does not report as evicted.
LEMMA InsertFacts ==
    ASSUME NEW b \in Buffers(Leg), NEW l \in Leg, NEW t
    PROVE  LET p == Insert(b, l, t)
               out == Evicted(b, t)
           IN /\ p \in Buffers(Leg) /\ out \in Seq(Leg)
              /\ Members(out) \subseteq Members(b.legs)
              /\ l \in Members(p.legs)
              /\ \A x : OnceIn(b.legs, x) /\ x # l =>
                    (x \in Members(p.legs) <=> x \in Members(b.legs) /\ x \notin Members(out))
              /\ \A x : OnceIn(b.legs, x) /\ (x = l => x \notin Members(b.legs)) => OnceIn(p.legs, x)
              /\ Members(p.legs) \subseteq Members(b.legs) \cup {l}
<1> DEFINE e == EvictExpired(b, t)
           p == Insert(b, l, t)
           out == Evicted(b, t)
           old == Sift(b.legs, Stale(t))
           over == IF Len(e.legs) < Capacity THEN << >> ELSE << Head(e.legs) >>
<1>1. /\ e \in Buffers(Leg)
      /\ Members(e.legs) = Members(b.legs) \ Stale(t)
      /\ \A x : OnceIn(b.legs, x) => OnceIn(e.legs, x)
  BY ExpiryFacts
<1>2. p = Push(e, l) /\ out = old \o over
  BY DEF Insert, Evicted
<1> HIDE DEF e, p, out, old
<1>3. /\ p \in Buffers(Leg)
      /\ Members(p.legs) \subseteq Members(e.legs) \cup {l}
      /\ l \in Members(p.legs)
      /\ \A x \in Members(e.legs) \ Pushed(e) : x \in Members(p.legs)
      /\ \A x \in Pushed(e) : x # l /\ OnceIn(e.legs, x) => x \notin Members(p.legs)
      /\ \A x : OnceIn(e.legs, x) /\ (x = l => x \notin Members(e.legs)) => OnceIn(p.legs, x)
      /\ Pushed(e) \subseteq Members(e.legs)
  BY <1>1, <1>2, PushFacts
<1>4. old \in Seq(Leg) /\ Members(old) = Members(b.legs) \cap Stale(t)
  BY SiftFacts DEF old, Buffers
<1>5. over \in Seq(Leg) /\ Members(over) = Pushed(e)
  <2>1. CASE Len(e.legs) < Capacity
    BY <2>1, EmptyFacts DEF Pushed
  <2>2. CASE ~(Len(e.legs) < Capacity)
    <3>1. Head(e.legs) \in Leg
      <4>1. Head(e.legs) \in Members(e.legs) /\ Members(e.legs) \subseteq Leg
        BY <1>1, <1>3, <2>2, MembersType DEF Pushed, Buffers
      <4> QED BY <4>1
    <3> QED BY <2>2, <3>1, SingleFacts DEF Pushed
  <2> QED BY <2>1, <2>2
<1> HIDE DEF over
<1>6. out \in Seq(Leg) /\ Members(out) = Members(old) \cup Members(over)
  BY <1>2, <1>4, <1>5, ConcatFacts
<1>7. Members(out) = (Members(b.legs) \cap Stale(t)) \cup Pushed(e)
  BY <1>4, <1>5, <1>6
<1>8. ASSUME NEW x, OnceIn(b.legs, x), x # l
      PROVE  x \in Members(p.legs) <=> x \in Members(b.legs) /\ x \notin Members(out)
  BY <1>1, <1>3, <1>7, <1>8
<1>9. Members(out) \subseteq Members(b.legs)
  BY <1>1, <1>3, <1>7
<1>10. Members(p.legs) \subseteq Members(b.legs) \cup {l}
  BY <1>1, <1>3
<1>11. \A x : OnceIn(b.legs, x) /\ (x = l => x \notin Members(b.legs)) => OnceIn(p.legs, x)
  BY <1>1, <1>3
<1> QED BY <1>3, <1>6, <1>8, <1>9, <1>10, <1>11 DEF p, out

\* The first leg with the hash of l, or l itself.
LEMMA FirstFacts ==
    ASSUME NEW s \in Seq(Leg), NEW l
    PROVE  /\ FirstOf(s, l) = l \/ FirstOf(s, l) \in Members(s)
           /\ SameTx(l) \cap Members(s) # {} => FirstOf(s, l) \in Members(s)
<1> DEFINE same == Sift(s, SameTx(l))
<1>1. same \in Seq(Leg) /\ Members(same) = Members(s) \cap SameTx(l)
  BY SiftFacts
<1>2. FirstOf(s, l) = IF same = << >> THEN l ELSE Head(same)
  BY DEF FirstOf
<1> HIDE DEF same
<1>3. CASE same = << >>
  BY <1>1, <1>2, <1>3, EmptyFacts
<1>4. CASE same # << >>
  <2>1. Head(same) \in Members(same)
    BY <1>1, <1>4, TailFacts
  <2> QED BY <1>1, <1>2, <1>4, <2>1
<1> QED BY <1>3, <1>4

\* The matched legs are in the buffer.
LEMMA MatchedFacts ==
    ASSUME NEW b \in Buffers(Leg), NEW l
    PROVE  Matched(b, l) \in Seq(Leg) /\ Members(Matched(b, l)) \subseteq Members(b.legs)
<1> DEFINE held == {x \in Leg : SameTx(x) \cap Members(b.legs) # {}}
           hits == Sift(b.index, {x \in held : KeyOf[x] = KeyOf[l]})
           c == Candidates(b, l)
           other == {x \in Leg : ChainOf[x] # ChainOf[l]}
           bridge == Sift(c, {x \in other : KindOf[x] # KindOf[l]})
           arb == Sift(c, {x \in other : KindOf[x] = "swap"})
           M == Members(b.legs)
<1>0. b.legs \in Seq(Leg) /\ b.index \in Seq(Leg) /\ M \subseteq Leg
  BY MembersType DEF Buffers
<1>1. c \in Seq(M)
  <2>1. hits \in Seq(Leg) /\ Members(hits) = Members(b.index) \cap {x \in held : KeyOf[x] = KeyOf[l]}
    BY <1>0, SiftFacts
  <2>2. c = [i \in DOMAIN hits |-> FirstOf(b.legs, hits[i])]
    BY DEF Candidates
  <2>3. ASSUME NEW i \in DOMAIN hits PROVE FirstOf(b.legs, hits[i]) \in M
    <3>1. hits[i] \in Members(hits)
      BY DEF Members
    <3>2. SameTx(hits[i]) \cap M # {}
      BY <2>1, <3>1
    <3> QED BY <1>0, <3>2, FirstFacts
  <2> HIDE DEF hits, M, c
  <2>4. DOMAIN hits = 1..Len(hits) /\ Len(hits) \in Nat
    BY <2>1
  <2>5. c \in [1..Len(hits) -> M]
    BY <2>2, <2>3, <2>4
  <2> QED BY <2>4, <2>5
<1> HIDE DEF c, M, other
<1>2. bridge \in Seq(M) /\ arb \in Seq(M)
  BY <1>1, SiftFacts
<1>3. Matched(b, l) = IF bridge # << >> THEN << Head(bridge) >>
                      ELSE IF KindOf[l] = "swap" THEN arb ELSE << >>
  BY DEF Matched, c, other
<1> HIDE DEF bridge, arb
<1>4. Matched(b, l) \in Seq(M)
  <2>1. CASE bridge # << >>
    <3>1. Head(bridge) \in M
      BY <1>2, <2>1, TailFacts
    <3> QED BY <1>3, <2>1, <3>1, SingleFacts
  <2>2. CASE bridge = << >>
    BY <1>2, <1>3, <2>2, EmptyFacts
  <2> QED BY <2>1, <2>2
<1>5. Members(Matched(b, l)) \subseteq M
  BY <1>4, MembersType
<1>6. Matched(b, l) \in Seq(Leg)
  <2> DEFINE q == Matched(b, l)
  <2> HIDE DEF q
  <2>1. q \in Seq(M)
    BY <1>4 DEF q
  <2>2. q \in [1..Len(q) -> Leg] /\ Len(q) \in Nat
    BY <1>0, <2>1
  <2>3. q \in Seq(Leg)
    BY <2>2
  <2> QED BY <2>3 DEF q
<1> QED BY <1>5, <1>6 DEF M

\* apply takes legs out of the buffer, and Consumed says which.
LEMMA ConsumeFacts ==
    ASSUME NEW b \in Buffers(Leg), NEW s \in Seq(Leg), Members(s) \subseteq Members(b.legs)
    PROVE  LET c == Consume(b, s)
               u == Consumed(b, s)
           IN /\ c \in Buffers(Leg) /\ u \in Seq(Leg)
              /\ Members(u) \subseteq Members(b.legs)
              /\ Members(c.legs) \subseteq Members(b.legs)
              /\ \A x \in Members(b.legs) \ Members(u) : x \in Members(c.legs)
              /\ \A x \in Members(u) : OnceIn(b.legs, x) => x \notin Members(c.legs)
              /\ \A x : OnceIn(b.legs, x) => OnceIn(c.legs, x)
<1> DEFINE X == Buffers(Leg)
           take(q, l) == RemoveLeg(q, FirstOf(q.legs, l))
           step == [p \in Nat \X X |-> take(p[2], s[p[1] + 1])]
           Eq(g) == g = [n \in Nat |-> IF n = 0 THEN b ELSE take(g[n - 1], s[n])]
           f == CHOOSE g : Eq(g)
<1>0. Len(s) \in Nat /\ DOMAIN s = 1..Len(s) /\ \A i \in 1..Len(s) : s[i] \in Members(b.legs)
  <2>1. Len(s) \in Nat /\ DOMAIN s = 1..Len(s)
    OBVIOUS
  <2>2. \A i \in DOMAIN s : s[i] \in Members(s)
    BY DEF Members
  <2> QED BY <2>1, <2>2
<1>1. \A q \in X : \A l : take(q, l) \in X
  BY RemoveFacts
<1> HIDE DEF X, take
<1>2. b \in X /\ step \in [Nat \X X -> X]
  BY <1>1 DEF X
<1>3. PICK g \in [Nat -> X] : Solves(g, b, step)
  <2> HIDE DEF step
  <2> QED BY <1>2, Recursion
<1>4. Eq(g)
  <2>1. ASSUME NEW n \in Nat, n # 0
        PROVE  step[<<n - 1, g[n - 1]>>] = take(g[n - 1], s[n])
    <3>1. n - 1 \in Nat /\ (n - 1) + 1 = n
      BY <2>1
    <3> QED BY <1>3, <3>1
  <2> QED BY <1>3, <2>1 DEF Solves
<1>5. Eq(f)
  <2> HIDE DEF Eq
  <2> QED BY <1>4
<1>6. Left(b, s) = f
  BY DEF Left, take
<1> HIDE DEF f
<1>7. f[0] = b
  BY <1>5
<1>8. ASSUME NEW n \in Nat PROVE f[n + 1] = take(f[n], s[n + 1])
  <2>1. n + 1 \in Nat /\ n + 1 # 0 /\ (n + 1) - 1 = n
    OBVIOUS
  <2> QED BY <1>5, <2>1
<1> DEFINE out(n) == FirstOf(f[n - 1].legs, s[n])
           First(n) == {out(i) : i \in 1..n}
           Ok(n) == /\ f[n] \in Buffers(Leg)
                    /\ First(n) \subseteq Members(b.legs)
                    /\ Members(f[n].legs) \subseteq Members(b.legs)
                    /\ \A x \in Members(b.legs) \ First(n) : x \in Members(f[n].legs)
                    /\ \A x \in First(n) : OnceIn(b.legs, x) => x \notin Members(f[n].legs)
                    /\ \A x : OnceIn(b.legs, x) => OnceIn(f[n].legs, x)
           A == {n \in Nat : n <= Len(s) => Ok(n)}
<1>9. 0 \in A
  <2>1. First(0) = {}
    OBVIOUS
  <2> QED BY <1>7, <2>1
<1>10. ASSUME NEW n \in Nat, n \in A PROVE n + 1 \in A
  <2> SUFFICES ASSUME n + 1 <= Len(s) PROVE Ok(n + 1)
    OBVIOUS
  <2> DEFINE q == f[n]
             r == f[n + 1]
             l == FirstOf(q.legs, s[n + 1])
  <2>1. Ok(n) /\ s[n + 1] \in Members(b.legs)
    BY <1>0, <1>10
  <2>2. First(n + 1) = First(n) \cup {l}
    <3>1. /\ n + 1 \in 1..(n + 1) /\ \A i \in 1..n : i \in 1..(n + 1)
          /\ \A i \in 1..(n + 1) : i \in 1..n \/ i = n + 1
      OBVIOUS
    <3>2. out(n + 1) = l
      <4>1. (n + 1) - 1 = n
        OBVIOUS
      <4> QED BY <4>1
    <3> HIDE DEF out, l
    <3> QED BY <3>1, <3>2
  <2>3. /\ r \in Buffers(Leg)
        /\ Members(r.legs) \subseteq Members(q.legs)
        /\ \A x \in Members(q.legs) : x # l => x \in Members(r.legs)
        /\ \A x : OnceIn(q.legs, x) => OnceIn(r.legs, x)
        /\ OnceIn(q.legs, l) => l \notin Members(r.legs)
    <3>1. r = RemoveLeg(q, l) /\ q \in Buffers(Leg)
      BY <1>8, <2>1 DEF take
    <3> HIDE DEF q, r, l
    <3> QED BY <3>1, RemoveFacts
  <2>4. l \in Members(b.legs)
    <3>1. q.legs \in Seq(Leg) /\ Members(q.legs) \subseteq Members(b.legs)
      BY <2>1 DEF Buffers
    <3>2. l = s[n + 1] \/ l \in Members(q.legs)
      <4> HIDE DEF q
      <4> QED BY <3>1, FirstFacts
    <3> QED BY <2>1, <3>1, <3>2
  <2> HIDE DEF First, l
  <2> QED BY <2>1, <2>2, <2>3, <2>4
<1>11. Nat \subseteq A
  <2> HIDE DEF A
  <2> QED BY <1>9, <1>10, Induction
<1>12. Ok(Len(s))
  <2> HIDE DEF Ok
  <2> QED BY <1>0, <1>11
<1> DEFINE u == Consumed(b, s)
<1>13. u = [n \in 1..Len(s) |-> out(n)]
  BY <1>0, <1>6 DEF Consumed
<1> HIDE DEF u, out
<1>14. Members(u) = First(Len(s))
  BY <1>13 DEF Members
<1>15. u \in Seq(Leg)
  <2>1. Members(b.legs) \subseteq Leg
    BY MembersType DEF Buffers
  <2>2. \A n \in 1..Len(s) : out(n) \in Leg
    BY <1>12, <2>1
  <2>3. u \in [1..Len(s) -> Leg]
    BY <1>13, <2>2
  <2> QED BY <1>0, <2>3
<1>16. Consume(b, s) = f[Len(s)]
  BY <1>6 DEF Consume
<1> HIDE DEF First
<1> QED BY <1>12, <1>14, <1>15, <1>16 DEF u

\* A leg put in its place.
LEMMA PlacedFacts ==
    ASSUME NEW X, X \subseteq Leg, NEW s \in Seq(X), NEW l \in X
    PROVE  /\ Placed(s, l) \in Seq(X)
           /\ Members(Placed(s, l)) = Members(s) \cup {l}
           /\ \A x : OnceIn(s, x) /\ (x = l => x \notin Members(s)) => OnceIn(Placed(s, l), x)
<1> DEFINE late == {x \in Leg : Observed[x] > Observed[l]}
           u == Sift(s, Leg \ late)
           w == Sift(s, late)
           v == u \o << l >>
<1>1. Placed(s, l) = v \o w
  BY DEF Placed
<1> HIDE DEF late
<1>2. /\ u \in Seq(X) /\ Members(u) = Members(s) \cap (Leg \ late)
      /\ \A x : OnceIn(s, x) => OnceIn(u, x)
  BY SiftFacts
<1>3. /\ w \in Seq(X) /\ Members(w) = Members(s) \cap late
      /\ \A x : OnceIn(s, x) => OnceIn(w, x)
  BY SiftFacts
<1>4. << l >> \in Seq(X) /\ Members(<< l >>) = {l} /\ \A x : OnceIn(<< l >>, x)
  BY SingleFacts
<1> DEFINE k == << l >>
<1> HIDE DEF u, w, k
<1>5. /\ v \in Seq(X) /\ Members(v) = Members(u) \cup {l}
      /\ \A x : OnceIn(u, x) /\ ~(x \in Members(u) /\ x = l) => OnceIn(v, x)
  <2>1. /\ u \o k \in Seq(X) /\ Members(u \o k) = Members(u) \cup Members(k)
        /\ \A x : OnceIn(u, x) /\ OnceIn(k, x) /\ ~(x \in Members(u) /\ x \in Members(k))
                  => OnceIn(u \o k, x)
    BY <1>2, <1>4, ConcatFacts DEF k
  <2> QED BY <1>4, <2>1 DEF k
<1> HIDE DEF v
<1>6. /\ v \o w \in Seq(X) /\ Members(v \o w) = Members(v) \cup Members(w)
      /\ \A x : OnceIn(v, x) /\ OnceIn(w, x) /\ ~(x \in Members(v) /\ x \in Members(w))
                => OnceIn(v \o w, x)
  BY <1>3, <1>5, ConcatFacts
<1>7. Members(s) \subseteq Leg
  BY MembersType
<1>8. Members(v \o w) = Members(s) \cup {l}
  BY <1>2, <1>3, <1>5, <1>6, <1>7
<1>9. ASSUME NEW x, OnceIn(s, x), x = l => x \notin Members(s) PROVE OnceIn(v \o w, x)
  BY <1>2, <1>3, <1>5, <1>6, <1>9
<1> QED BY <1>1, <1>6, <1>8, <1>9

\* The types of what Placed and Push return, whatever they are given.
LEMMA PlacedType ==
    ASSUME NEW X, NEW s \in Seq(X), NEW l \in X
    PROVE  Placed(s, l) \in Seq(X)
<1> DEFINE late == {x \in Leg : Observed[x] > Observed[l]}
<1>1. Sift(s, Leg \ late) \in Seq(X) /\ Sift(s, late) \in Seq(X) /\ << l >> \in Seq(X)
  BY SiftFacts
<1>2. Placed(s, l) = Sift(s, Leg \ late) \o << l >> \o Sift(s, late)
  BY DEF Placed
<1> HIDE DEF late
<1> QED BY <1>1, <1>2

LEMMA PushType ==
    ASSUME NEW X, NEW b \in Buffers(X), NEW l \in X
    PROVE  Push(b, l) \in Buffers(X)
<1>1. b.legs \in Seq(X) /\ b.index \in Seq(X)
  BY DEF Buffers
<1>2. Capacity \in Nat /\ Capacity > 0
  BY CorrelatorAssumption
<1>3. CASE Len(b.legs) < Capacity
  BY <1>1, <1>3 DEF Push, Buffers
<1>4. CASE ~(Len(b.legs) < Capacity)
  <2>1. b.legs # << >>
    BY <1>1, <1>2, <1>4
  <2>2. Tail(b.legs) \in Seq(X) /\ Deindex(b.index, Head(b.legs)) \in Seq(X)
    BY <1>1, <2>1, SiftFacts DEF Deindex
  <2>3. Push(b, l) = [legs  |-> Append(Tail(b.legs), l),
                      index |-> Append(Deindex(b.index, Head(b.legs)), l)]
    BY <1>4 DEF Push
  <2> QED BY <2>2, <2>3 DEF Buffers
<1> QED BY <1>3, <1>4

\* seed brings nothing but the legs it is given, none twice.
LEMMA SeedFacts ==
    ASSUME NEW s \in Seq(Leg)
    PROVE  LET b == Seed(s)
           IN /\ b \in Buffers(Leg)
              /\ Members(b.legs) \subseteq Members(s)
              /\ \A x : OnceIn(s, x) => OnceIn(b.legs, x)
<1> DEFINE R == {s[m] : m \in Nat}
           X == Seq(R)
           step == [p \in Nat \X X |-> Placed(p[2], s[p[1] + 1])]
           Eq(g) == g = [n \in Nat |-> IF n = 0 THEN << >> ELSE Placed(g[n - 1], s[n])]
           f == CHOOSE g : Eq(g)
           order == f[Len(s)]
           EqS(g) == g = [n \in Nat |-> IF n = 0 THEN EmptyBuffer ELSE Push(g[n - 1], order[n])]
           h == CHOOSE g : EqS(g)
<1>0. Len(s) \in Nat /\ DOMAIN s = 1..Len(s) /\ \A i \in 1..Len(s) : s[i] \in Leg
  OBVIOUS
<1>1. Seed(s) = h[Len(order)]
  BY DEF Seed
<1>2. << >> \in X /\ \A n \in Nat, q \in X : Placed(q, s[n]) \in X
  <2>1. ASSUME NEW n \in Nat PROVE s[n] \in R
    OBVIOUS
  <2> HIDE DEF R
  <2> QED BY <2>1, PlacedType
<1> HIDE DEF X, h, R
<1>3. step \in [Nat \X X -> X]
  <2>1. ASSUME NEW p \in Nat \X X PROVE Placed(p[2], s[p[1] + 1]) \in X
    <3>1. p[1] + 1 \in Nat /\ p[2] \in X
      OBVIOUS
    <3> QED BY <1>2, <3>1
  <2> QED BY <2>1
<1>4. PICK g \in [Nat -> X] : Solves(g, << >>, step)
  <2> HIDE DEF step
  <2> QED BY <1>2, <1>3, Recursion
<1>5. Eq(g)
  <2>1. ASSUME NEW n \in Nat, n # 0
        PROVE  step[<<n - 1, g[n - 1]>>] = Placed(g[n - 1], s[n])
    <3>1. n - 1 \in Nat /\ (n - 1) + 1 = n
      BY <2>1
    <3> QED BY <1>4, <3>1
  <2> QED BY <1>4, <2>1 DEF Solves
<1>6. Eq(f)
  <2> HIDE DEF Eq
  <2> QED BY <1>5
<1> HIDE DEF f
<1>7. f[0] = << >>
  BY <1>6
<1>8. ASSUME NEW n \in Nat PROVE f[n + 1] = Placed(f[n], s[n + 1])
  <2>1. n + 1 \in Nat /\ n + 1 # 0 /\ (n + 1) - 1 = n
    OBVIOUS
  <2> QED BY <1>6, <2>1
<1> DEFINE First(q, n) == {q[i] : i \in 1..n}
           Ok(n) == /\ f[n] \in Seq(Leg)
                    /\ Members(f[n]) = First(s, n)
                    /\ \A x : OnceIn(s, x) => OnceIn(f[n], x)
           A == {n \in Nat : n <= Len(s) => Ok(n)}
<1>9. \A q : First(q, 0) = {} /\ \A n \in Nat : First(q, n + 1) = First(q, n) \cup {q[n + 1]}
  <2>1. ASSUME NEW n \in Nat
        PROVE  /\ n + 1 \in 1..(n + 1) /\ \A i \in 1..n : i \in 1..(n + 1)
               /\ \A i \in 1..(n + 1) : i \in 1..n \/ i = n + 1
    OBVIOUS
  <2> QED BY <2>1
<1>10. 0 \in A
  BY <1>7, <1>9, EmptyFacts
<1>11. ASSUME NEW n \in Nat, n \in A PROVE n + 1 \in A
  <2> SUFFICES ASSUME n + 1 <= Len(s) PROVE Ok(n + 1)
    OBVIOUS
  <2>1. Ok(n) /\ n + 1 \in 1..Len(s) /\ s[n + 1] \in Leg
    BY <1>0, <1>11
  <2>2. ASSUME NEW x, OnceIn(s, x), x = s[n + 1] PROVE x \notin First(s, n)
    <3>1. \A i \in 1..n : i \in 1..Len(s) /\ i # n + 1
      BY <1>0, <2>1
    <3> QED BY <1>0, <2>1, <2>2, <3>1 DEF OnceIn
  <2> HIDE DEF First
  <2> DEFINE q == f[n]
             t == f[n + 1]
             l == s[n + 1]
  <2>3. /\ t \in Seq(Leg) /\ Members(t) = Members(q) \cup {l}
        /\ \A x : OnceIn(q, x) /\ (x = l => x \notin Members(q)) => OnceIn(t, x)
    <3>1. t = Placed(q, l) /\ q \in Seq(Leg) /\ l \in Leg
      BY <1>8, <2>1
    <3> HIDE DEF q, t, l
    <3> QED BY <3>1, PlacedFacts
  <2> QED BY <1>9, <2>1, <2>2, <2>3
<1>12. Nat \subseteq A
  <2> HIDE DEF A
  <2> QED BY <1>10, <1>11, Induction
<1>13. /\ order \in Seq(Leg) /\ Members(order) = Members(s)
       /\ \A x : OnceIn(s, x) => OnceIn(order, x)
  <2>1. Ok(Len(s))
    <3> HIDE DEF Ok
    <3> QED BY <1>0, <1>12
  <2>2. First(s, Len(s)) = Members(s)
    BY <1>0 DEF Members
  <2> QED BY <2>1, <2>2
<1> HIDE DEF order
<1>14. Len(order) \in Nat /\ DOMAIN order = 1..Len(order) /\ \A i \in 1..Len(order) : order[i] \in Leg
  BY <1>13
<1> DEFINE U == {order[m] : m \in Nat}
           Z == Buffers(U)
           stepS == [p \in Nat \X Z |-> Push(p[2], order[p[1] + 1])]
<1>15. EmptyBuffer \in Z /\ \A n \in Nat, q \in Z : Push(q, order[n]) \in Z
  <2>1. ASSUME NEW n \in Nat PROVE order[n] \in U
    OBVIOUS
  <2> HIDE DEF U
  <2>2. EmptyBuffer \in Z
    BY DEF EmptyBuffer, Buffers
  <2> QED BY <2>1, <2>2, PushType
<1> HIDE DEF Z
<1>16. stepS \in [Nat \X Z -> Z]
  <2>1. ASSUME NEW p \in Nat \X Z PROVE Push(p[2], order[p[1] + 1]) \in Z
    <3>1. p[1] + 1 \in Nat /\ p[2] \in Z
      OBVIOUS
    <3> QED BY <1>15, <3>1
  <2> QED BY <2>1
<1>17. PICK k \in [Nat -> Z] : Solves(k, EmptyBuffer, stepS)
  <2> HIDE DEF stepS
  <2> QED BY <1>15, <1>16, Recursion
<1>18. EqS(k)
  <2>1. ASSUME NEW n \in Nat, n # 0
        PROVE  stepS[<<n - 1, k[n - 1]>>] = Push(k[n - 1], order[n])
    <3>1. n - 1 \in Nat /\ (n - 1) + 1 = n
      BY <2>1
    <3> QED BY <1>17, <3>1
  <2> QED BY <1>17, <2>1 DEF Solves
<1>19. EqS(h)
  <2> HIDE DEF EqS
  <2> QED BY <1>18 DEF h
<1>20. h[0] = EmptyBuffer
  BY <1>19
<1>21. ASSUME NEW n \in Nat PROVE h[n + 1] = Push(h[n], order[n + 1])
  <2>1. n + 1 \in Nat /\ n + 1 # 0 /\ (n + 1) - 1 = n
    OBVIOUS
  <2> QED BY <1>19, <2>1
<1> DEFINE OkS(n) == /\ h[n] \in Buffers(Leg)
                     /\ Members(h[n].legs) \subseteq First(order, n)
                     /\ \A x : OnceIn(order, x) => OnceIn(h[n].legs, x)
           B == {n \in Nat : n <= Len(order) => OkS(n)}
<1>22. 0 \in B
  <2>1. EmptyBuffer.legs = << >> /\ EmptyBuffer \in Buffers(Leg)
    BY DEF EmptyBuffer, Buffers
  <2> QED BY <1>9, <1>20, <2>1, EmptyFacts
<1>23. ASSUME NEW n \in Nat, n \in B PROVE n + 1 \in B
  <2> SUFFICES ASSUME n + 1 <= Len(order) PROVE OkS(n + 1)
    OBVIOUS
  <2>1. OkS(n) /\ n + 1 \in 1..Len(order) /\ order[n + 1] \in Leg
    BY <1>14, <1>23
  <2>2. ASSUME NEW x, OnceIn(order, x), x = order[n + 1] PROVE x \notin First(order, n)
    <3>1. \A i \in 1..n : i \in 1..Len(order) /\ i # n + 1
      BY <1>14, <2>1
    <3> QED BY <1>14, <2>1, <2>2, <3>1 DEF OnceIn
  <2> HIDE DEF First
  <2> DEFINE q == h[n]
             t == h[n + 1]
             l == order[n + 1]
  <2>3. /\ t \in Buffers(Leg)
        /\ Members(t.legs) \subseteq Members(q.legs) \cup {l}
        /\ \A x : OnceIn(q.legs, x) /\ (x = l => x \notin Members(q.legs)) => OnceIn(t.legs, x)
    <3>1. t = Push(q, l) /\ q \in Buffers(Leg) /\ l \in Leg
      BY <1>21, <2>1
    <3> HIDE DEF q, t, l
    <3> QED BY <3>1, PushFacts
  <2> QED BY <1>9, <2>1, <2>2, <2>3
<1>24. Nat \subseteq B
  <2> HIDE DEF B
  <2> QED BY <1>22, <1>23, Induction
<1>25. OkS(Len(order))
  <2> HIDE DEF OkS
  <2> QED BY <1>14, <1>24
<1>26. First(order, Len(order)) = Members(order)
  BY <1>14 DEF Members
<1> QED BY <1>1, <1>13, <1>25, <1>26

-----------------------------------------------------------------------------
(***************************************************************************)
(* Findings and the fates of their blocks. FindingsFollowTheirLegs is not  *)
(* inductive: after a restart the tracker is what the finding changelog    *)
(* replays, which runs ahead of the tracker or, after a shutdown, behind   *)
(* it. FollowInv says of the changelog what FindingsFollowTheirLegs says   *)
(* of the tracker, up to the fate in hand, and that a finding becomes      *)
(* public only after both.                                                 *)
(***************************************************************************)

IdsIn(t) == {r.id : r \in t}

\* The findings that are tracked, in the changelog and in memory, and those
\* that are in the changelog.
Tracked == published \cup (IF todo.steps = <<"publish">> THEN {Len(found)} ELSE {})
Recorded == Tracked \cup (IF todo.steps = <<"track", "publish">> THEN {Len(found)} ELSE {})

\* The changelog has let go of f, the tracker not yet.
InHand(f) ==
    /\ hand.step = "apply" /\ hand.fate.type = "Reverted"
    /\ hand.fate.block \in BlocksOf(f)

\* A finding waits for its blocks, but for those that are final.
RecordSound(r) ==
    /\ r = [id |-> r.id, pending |-> r.pending, at |-> r.at]
    /\ r.id \in DOMAIN found
    /\ r.pending \subseteq BlocksOf(r.id)
    /\ BlocksOf(r.id) \ r.pending \subseteq Final

StepsInv ==
    /\ todo = [entries |-> todo.entries, steps |-> todo.steps]
    /\ todo.steps \in {<< >>, <<"publish">>, <<"track", "publish">>,
                       <<"record", "track", "publish">>}
    /\ todo.steps # << >> => Len(found) >= 1

FoundInv ==
    /\ Len(found) \in Nat /\ DOMAIN found = 1..Len(found)
    /\ found = [f \in 1..Len(found) |-> found[f]]
    /\ published \subseteq DOMAIN found

HandInv ==
    /\ hand = [fate |-> hand.fate, step |-> hand.step, out |-> hand.out]
    /\ hand.step = "free" \/ hand.fate \in emitted
    /\ hand.step # "publish" => hand.out = {}
    /\ hand.step = "publish" =>
          /\ hand.fate.type = "Reverted"
          /\ \A f \in hand.out : f \in DOMAIN found /\ hand.fate.block \in BlocksOf(f)

\* The fate of a block is told once; what the tracker has heard was told.
FateInv ==
    /\ emitted \subseteq Fate /\ again \subseteq emitted
    /\ \A x, y \in emitted : x.block = y.block => x = y
    /\ \A b \in gone : [type |-> "Reverted", block |-> b] \in emitted

RecordInv == \A r \in tracker \cup findingLog : RecordSound(r)

\* What FindingsFollowTheirLegs says of one finding.
Follows(f) ==
    /\ BlocksOf(f) \cap gone # {} => f \in retracted \cup hand.out
    /\ f \in IdsIn(tracker) \cup retracted \cup hand.out \/ BlocksOf(f) \subseteq Final

\* The same of the changelog.
Logged(f) ==
    \/ f \in IdsIn(findingLog) \cup retracted
    \/ BlocksOf(f) \subseteq Final
    \/ InHand(f)
    \/ BlocksOf(f) \cap gone # {}

FollowInv ==
    /\ StepsInv /\ FoundInv /\ HandInv /\ FateInv /\ RecordInv
    /\ \A f \in Tracked \ excused : Follows(f)
    /\ \A f \in Recorded \ excused : Logged(f)

LEMMA FollowInit == Init => FollowInv
<1> SUFFICES ASSUME Init PROVE FollowInv
  OBVIOUS
<1>1. /\ found = << >> /\ tracker = {} /\ findingLog = {} /\ published = {}
      /\ emitted = {} /\ again = {} /\ hand = Free /\ gone = {} /\ todo = Idle
  BY DEF Init
<1>2. StepsInv /\ todo.steps = << >>
  BY <1>1 DEF StepsInv, Idle
<1>3. FoundInv
  BY <1>1 DEF FoundInv
<1>4. HandInv
  BY <1>1 DEF HandInv, Free
<1>5. FateInv /\ RecordInv
  BY <1>1 DEF FateInv, RecordInv
<1>6. Tracked = {} /\ Recorded = {}
  BY <1>1, <1>2 DEF Tracked, Recorded
<1> QED BY <1>2, <1>3, <1>4, <1>5, <1>6 DEF FollowInv

\* What the actor and the finality consumer do not touch.
Untouched ==
    /\ tracker' = tracker /\ findingLog' = findingLog /\ emitted' = emitted
    /\ again' = again /\ hand' = hand /\ retracted' = retracted /\ gone' = gone
    /\ excused' = excused

LEMMA FollowQuiet ==
    ASSUME FollowInv, found' = found, StepsInv', todo'.steps = todo.steps,
           published' = published, Untouched
    PROVE  FollowInv'
  BY DEF FollowInv, Untouched, FoundInv, HandInv, FateInv, RecordInv, RecordSound,
         Tracked, Recorded, Follows, Logged, InHand, BlocksOf, Final, IdsIn

\* A step of the actor that is not about a finding, or begins one.
LEMMA FollowFound ==
    ASSUME FollowInv, Untouched, published' = published, FoundInv', StepsInv',
           todo.steps = << >>, todo'.steps \in {<< >>, <<"record", "track", "publish">>},
           \A f \in DOMAIN found : f \in DOMAIN found' /\ found'[f] = found[f]
    PROVE  FollowInv'
<1>1. Tracked = published /\ Recorded = published
  BY DEF Tracked, Recorded
<1>2. Tracked' = published /\ Recorded' = published
  <2>1. << >> # <<"publish">> /\ << >> # <<"track", "publish">>
    OBVIOUS
  <2>2. /\ <<"record", "track", "publish">> # <<"publish">>
        /\ <<"record", "track", "publish">> # <<"track", "publish">>
    OBVIOUS
  <2>3. todo'.steps # <<"publish">> /\ todo'.steps # <<"track", "publish">>
    BY <2>1, <2>2
  <2> QED BY <2>3, published' = published, Zenon DEF Tracked, Recorded
<1>3. \A f \in DOMAIN found : BlocksOf(f)' = BlocksOf(f)
  BY DEF BlocksOf
<1>4. HandInv'
  BY <1>3 DEF FollowInv, HandInv, Untouched
<1>5. FateInv'
  BY DEF FollowInv, FateInv, Untouched
<1>6. RecordInv'
  BY <1>3 DEF FollowInv, RecordInv, RecordSound, Untouched, Final
<1>7. \A f \in published \ excused : Follows(f)'
  BY <1>1, <1>3 DEF FollowInv, FoundInv, Follows, Untouched, Final, IdsIn
<1>8. \A f \in published \ excused : Logged(f)'
  BY <1>1, <1>3 DEF FollowInv, FoundInv, Logged, Untouched, Final, IdsIn, InHand
<1> QED BY <1>2, <1>4, <1>5, <1>6, <1>7, <1>8 DEF FollowInv, Untouched

LEMMA FollowOnLeg ==
    ASSUME FollowInv, OnLeg
    PROVE  FollowInv'
<1>1. /\ todo.steps = << >> /\ published' = published /\ Untouched
  BY DEF OnLeg, Idle, Untouched, tracking, output, chain
<1>2. /\ todo' = [entries |-> todo'.entries, steps |-> todo'.steps]
      /\ todo'.steps \in {<< >>, <<"record", "track", "publish">>}
      /\ \/ todo'.steps = << >> /\ found' = found
         \/ \E S : found' = Append(found, S)
  BY DEF OnLeg, Steps
<1>3. CASE todo'.steps = << >> /\ found' = found
  <2>1. FoundInv' /\ StepsInv'
    BY <1>1, <1>2, <1>3 DEF FollowInv, FoundInv, StepsInv
  <2> QED BY <1>1, <1>2, <1>3, <2>1, FollowFound
<1>4. ASSUME NEW S, found' = Append(found, S) PROVE FollowInv'
  <2> DEFINE X == {found[i] : i \in 1..Len(found)} \cup {S}
  <2>1. found \in Seq(X)
    <3>1. found = [f \in 1..Len(found) |-> found[f]] /\ Len(found) \in Nat
      BY DEF FollowInv, FoundInv
    <3>2. found \in [1..Len(found) -> X]
      BY <3>1
    <3> HIDE DEF X
    <3> QED BY <3>1, <3>2
  <2>2. S \in X
    OBVIOUS
  <2> HIDE DEF X
  <2>3. /\ Len(found') = Len(found) + 1 /\ Len(found) \in Nat
        /\ DOMAIN found' = 1..Len(found') /\ DOMAIN found = 1..Len(found)
        /\ found' \in Seq(X)
        /\ \A f \in 1..Len(found) : found'[f] = found[f]
    BY <1>4, <2>1, <2>2
  <2>4. found' = [f \in 1..Len(found') |-> found'[f]]
    BY <2>3
  <2>5. FoundInv'
    BY <1>1, <2>3, <2>4 DEF FollowInv, FoundInv
  <2>6. StepsInv'
    BY <1>2, <2>3 DEF StepsInv
  <2>7. \A f \in DOMAIN found : f \in DOMAIN found' /\ found'[f] = found[f]
    BY <2>3
  <2> QED BY <1>1, <1>2, <2>5, <2>6, <2>7, FollowFound
<1> QED BY <1>2, <1>3, <1>4

LEMMA FollowAppend ==
    ASSUME FollowInv, AppendEntry
    PROVE  FollowInv'
<1>1. /\ todo' = [todo EXCEPT !.entries = Tail(@)] /\ found' = found
      /\ published' = published /\ Untouched
  BY DEF AppendEntry, Untouched, tracking, output, chain
<1>2. StepsInv' /\ todo'.steps = todo.steps
  BY <1>1 DEF FollowInv, StepsInv
<1> QED BY <1>1, <1>2, FollowQuiet

\* The steps of a finding come in their order.
LEMMA NextStep ==
    ASSUME FollowInv, NEW op, Doing(op), found' = found
    PROVE  /\ StepsInv' /\ Len(found) >= 1 /\ Len(found) \in DOMAIN found
           /\ op = "record" => todo'.steps = <<"track", "publish">>
           /\ op = "track" => todo.steps = <<"track", "publish">> /\ todo'.steps = <<"publish">>
           /\ op = "publish" => todo.steps = <<"publish">> /\ todo'.steps = << >>
<1>1. todo.steps \in {<<"publish">>, <<"track", "publish">>, <<"record", "track", "publish">>}
  BY DEF FollowInv, StepsInv, Doing
<1>2. /\ todo' = [todo EXCEPT !.steps = Tail(@)] /\ Head(todo.steps) = op
      /\ todo = [entries |-> todo.entries, steps |-> todo.steps]
      /\ Len(found) >= 1 /\ Len(found) \in DOMAIN found
  BY <1>1 DEF FollowInv, StepsInv, FoundInv, Doing
<1>3. /\ todo' = [entries |-> todo'.entries, steps |-> todo'.steps]
      /\ todo'.steps = Tail(todo.steps)
  BY <1>2
<1>4. CASE todo.steps = <<"publish">>
  BY <1>2, <1>3, <1>4 DEF StepsInv
<1>5. CASE todo.steps = <<"track", "publish">>
  BY <1>2, <1>3, <1>5 DEF StepsInv
<1>6. CASE todo.steps = <<"record", "track", "publish">>
  BY <1>2, <1>3, <1>6 DEF StepsInv
<1> QED BY <1>1, <1>4, <1>5, <1>6

LEMMA FollowRecord ==
    ASSUME FollowInv, RecordFinding
    PROVE  FollowInv'
<1>0. PICK f : f = Len(found)
  OBVIOUS
<1> DEFINE rec == [id |-> f, pending |-> BlocksOf(f), at |-> now]
<1>1. /\ found' = found /\ published' = published /\ tracker' = tracker
      /\ emitted' = emitted /\ again' = again /\ hand' = hand /\ retracted' = retracted
      /\ gone' = gone /\ Doing("record")
      /\ \/ findingLog' = findingLog \cup {rec} /\ excused' = excused
         \/ findingLog' = findingLog /\ excused' = excused \cup {f}
  BY <1>0 DEF RecordFinding, output, chain, InsertRaw
<1>2. /\ StepsInv' /\ Len(found) \in DOMAIN found
      /\ todo'.steps = <<"track", "publish">>
  BY <1>1, NextStep
<1>3. \A g : BlocksOf(g)' = BlocksOf(g)
  BY <1>1 DEF BlocksOf
<1>4. FoundInv' /\ HandInv' /\ FateInv'
  BY <1>1, <1>3 DEF FollowInv, FoundInv, HandInv, FateInv
<1>5. RecordInv'
  <2>1. RecordSound(rec)
    BY <1>0, <1>2 DEF RecordSound
  <2>2. \A r : RecordSound(r)' = RecordSound(r)
    BY <1>1, <1>3 DEF RecordSound, Final
  <2> HIDE DEF rec
  <2> QED BY <1>1, <2>1, <2>2 DEF FollowInv, RecordInv
<1>6. Tracked' = published /\ Recorded' = published \cup {f}
  BY <1>0, <1>1, <1>2 DEF Tracked, Recorded
<1>7. \A g \in published \ excused : Follows(g) /\ Logged(g)
  BY DEF FollowInv, Tracked, Recorded
<1>8. \A g \in published \ excused' : Follows(g)'
  BY <1>1, <1>3, <1>7 DEF Follows, IdsIn, Final
<1>9. \A g \in (published \cup {f}) \ excused' : Logged(g)'
  <2>1. f \in excused' \/ f \in IdsIn(findingLog')
    <3>1. rec.id = f
      OBVIOUS
    <3> HIDE DEF rec
    <3> QED BY <1>1, <3>1 DEF IdsIn
  <2>2. IdsIn(findingLog) \subseteq IdsIn(findingLog')
    <3> HIDE DEF rec
    <3> QED BY <1>1 DEF IdsIn
  <2>3. Final' = Final /\ \A g : InHand(g)' = InHand(g)
    BY <1>1, <1>3 DEF Final, InHand
  <2>4. excused \subseteq excused'
    BY <1>1
  <2>5. \A g : Logged(g) => Logged(g)'
    <3>1. IdsIn(findingLog)' = IdsIn(findingLog')
      BY DEF IdsIn
    <3> QED BY <1>1, <1>3, <2>2, <2>3, <3>1 DEF Logged
  <2>6. f \in excused' \/ Logged(f)'
    BY <2>1 DEF Logged, IdsIn
  <2> QED BY <1>7, <2>4, <2>5, <2>6
<1> QED BY <1>2, <1>4, <1>5, <1>6, <1>8, <1>9 DEF FollowInv

LEMMA FollowTrack ==
    ASSUME FollowInv, TrackFinding
    PROVE  FollowInv'
<1>0. PICK f : f = Len(found)
  OBVIOUS
<1> DEFINE rec == [id |-> f, pending |-> BlocksOf(f), at |-> now]
           more == tracker \cup {rec}
<1>1. /\ found' = found /\ published' = published /\ findingLog' = findingLog
      /\ emitted' = emitted /\ again' = again /\ hand' = hand /\ retracted' = retracted
      /\ gone' = gone /\ Doing("track")
      /\ tracker' = Sweep(more, now)
      /\ excused' = excused \cup {r.id : r \in more \ tracker'} \cup
                     (IF BlocksOf(f) \cap gone = {} THEN {} ELSE {f})
  BY <1>0 DEF TrackFinding, output, chain, InsertRaw
<1>2. /\ StepsInv' /\ Len(found) \in DOMAIN found
      /\ todo.steps = <<"track", "publish">> /\ todo'.steps = <<"publish">>
  BY <1>1, NextStep
<1>3. \A g : BlocksOf(g)' = BlocksOf(g)
  BY <1>1 DEF BlocksOf
<1>4. FoundInv' /\ HandInv' /\ FateInv'
  BY <1>1, <1>3 DEF FollowInv, FoundInv, HandInv, FateInv
<1>5. RecordSound(rec) /\ rec.id = f
  BY <1>0, <1>2 DEF RecordSound
<1> HIDE DEF rec
<1>6. tracker' \subseteq more
  BY <1>1 DEF Sweep
<1>7. RecordInv'
  <2>1. \A r : RecordSound(r)' = RecordSound(r)
    BY <1>1, <1>3 DEF RecordSound, Final
  <2> QED BY <1>1, <1>5, <1>6, <2>1 DEF FollowInv, RecordInv
<1>8. Tracked' = published \cup {f} /\ Recorded' = published \cup {f}
  BY <1>0, <1>1, <1>2 DEF Tracked, Recorded
<1>9. /\ \A g \in published \ excused : Follows(g) /\ Logged(g)
      /\ f \notin excused => Logged(f)
  BY <1>0, <1>2 DEF FollowInv, Tracked, Recorded
<1>10. \A g : g \in IdsIn(more) => g \in IdsIn(tracker') \/ g \in excused'
  BY <1>1 DEF IdsIn
<1>11. excused \subseteq excused'
  BY <1>1
<1>12. IdsIn(tracker)' = IdsIn(tracker') /\ Final' = Final
  BY <1>1 DEF IdsIn, Final
<1>13. IdsIn(tracker) \subseteq IdsIn(more) /\ f \in IdsIn(more)
  BY <1>5 DEF IdsIn
<1> HIDE DEF more
<1>14. ASSUME NEW g \in published \ excused' PROVE Follows(g)'
  BY <1>1, <1>3, <1>9, <1>10, <1>11, <1>12, <1>13, <1>14 DEF Follows
<1>15. f \in excused' \/ Follows(f)'
  <2>1. f \in excused' \/ BlocksOf(f) \cap gone = {}
    BY <1>1
  <2> QED BY <1>1, <1>3, <1>10, <1>12, <1>13, <2>1 DEF Follows
<1>16. \A g : Logged(g)' = Logged(g)
  BY <1>1, <1>3, <1>12 DEF Logged, InHand, IdsIn
<1> QED BY <1>2, <1>4, <1>7, <1>8, <1>9, <1>11, <1>14, <1>15, <1>16 DEF FollowInv

LEMMA FollowPublish ==
    ASSUME FollowInv, PublishFinding
    PROVE  FollowInv'
<1>1. /\ found' = found /\ Untouched /\ Doing("publish")
      /\ published' = published \cup {Len(found)} \/ published' = published
  BY DEF PublishFinding, tracking, chain, Untouched
<1>2. /\ StepsInv' /\ Len(found) \in DOMAIN found
      /\ todo.steps = <<"publish">> /\ todo'.steps = << >>
  BY <1>1, NextStep
<1>3. Tracked' \subseteq Tracked /\ Recorded' \subseteq Recorded
  BY <1>1, <1>2 DEF Tracked, Recorded
<1>4. \A g : BlocksOf(g)' = BlocksOf(g)
  BY <1>1 DEF BlocksOf
<1>5. FoundInv' /\ HandInv' /\ FateInv'
  BY <1>1, <1>2, <1>4 DEF FollowInv, FoundInv, HandInv, FateInv, Untouched
<1>6. RecordInv'
  BY <1>1, <1>4 DEF FollowInv, RecordInv, RecordSound, Untouched, Final
<1>7. \A g : Follows(g)' = Follows(g) /\ Logged(g)' = Logged(g)
  BY <1>1, <1>4 DEF Follows, Logged, InHand, Untouched, Final, IdsIn
<1> QED BY <1>1, <1>2, <1>3, <1>5, <1>6, <1>7 DEF FollowInv, Untouched

\* The next event is the first about its block, or was told before.
LEMMA FollowTake ==
    ASSUME FollowInv, NEW e \in Fate, TakeFate(e)
    PROVE  FollowInv'
<1>1. /\ found' = found /\ todo' = todo /\ published' = published /\ tracker' = tracker
      /\ findingLog' = findingLog /\ retracted' = retracted /\ gone' = gone
      /\ excused' = excused /\ hand = Free
      /\ emitted' = emitted \cup {e} /\ again' = again \ {e}
      /\ hand' = [fate |-> e, step |-> "journal", out |-> {}]
      /\ e \in again \/ \A x \in emitted : x.block # e.block
  BY DEF TakeFate, actor, tracking, output
<1>2. \A g : BlocksOf(g)' = BlocksOf(g)
  BY <1>1 DEF BlocksOf
<1>3. StepsInv' /\ FoundInv' /\ Tracked' = Tracked /\ Recorded' = Recorded
  BY <1>1 DEF FollowInv, StepsInv, FoundInv, Tracked, Recorded
<1>4. HandInv'
  BY <1>1 DEF HandInv
<1>5. FateInv'
  BY <1>1 DEF FollowInv, FateInv
<1>6. Final \subseteq Final'
  BY <1>1 DEF Final
<1>7. RecordInv'
  BY <1>1, <1>2, <1>6 DEF FollowInv, RecordInv, RecordSound
<1>8. hand.out = {} /\ hand'.out = {} /\ \A g : ~InHand(g)
  BY <1>1 DEF Free, InHand
<1>9. \A g : (Follows(g) => Follows(g)') /\ (Logged(g) => Logged(g)')
  BY <1>1, <1>2, <1>6, <1>8 DEF Follows, Logged, IdsIn
<1> QED BY <1>1, <1>3, <1>4, <1>5, <1>7, <1>9 DEF FollowInv

\* What a fate leaves of a set of sound records: a record it takes away has
\* no block left to wait for, or waited for the block that was reverted.
LEMMA FateOnRecords ==
    ASSUME FateInv, NEW e \in emitted, NEW t, \A r \in t : RecordSound(r)
    PROVE  /\ \A r \in Apply(t, e) : RecordSound(r)
           /\ IdsIn(Apply(t, e)) \subseteq IdsIn(t)
           /\ \A f \in IdsIn(t) : \/ f \in IdsIn(Apply(t, e))
                                  \/ BlocksOf(f) \subseteq Final
                                  \/ e.type = "Reverted" /\ e.block \in BlocksOf(f)
                                     /\ f \in {r.id : r \in Waiting(t, e.block)}
           /\ e.type = "Reverted" => \A f \in IdsIn(t) : e.block \in BlocksOf(f) =>
                 f \in {r.id : r \in Waiting(t, e.block)}
           /\ \A f \in {r.id : r \in Waiting(t, e.block)} :
                 f \in DOMAIN found /\ e.block \in BlocksOf(f)
<1>1. e \in Fate /\ e.type \in {"Reverted", "Finalized"} /\ e.block \in Block
      /\ e = [type |-> e.type, block |-> e.block]
  BY DEF FateInv, Fate
<1>2. CASE e.type = "Finalized"
  <2>1. e.block \in Final
    BY <1>1, <1>2 DEF Final
  <2> DEFINE less(x) == [x EXCEPT !.pending = @ \ {e.block}]
  <2>2. Apply(t, e) = {r \in {less(x) : x \in t} : r.pending # {}}
    BY <1>2 DEF Apply, OnBlockFinalized
  <2>3. ASSUME NEW x \in t
        PROVE  /\ less(x).id = x.id /\ less(x).pending = x.pending \ {e.block}
               /\ RecordSound(less(x))
               /\ less(x).pending = {} => BlocksOf(x.id) \subseteq Final
    <3>1. x = [id |-> x.id, pending |-> x.pending, at |-> x.at] /\ RecordSound(x)
      BY DEF RecordSound
    <3>2. less(x) = [id |-> x.id, pending |-> x.pending \ {e.block}, at |-> x.at]
      BY <3>1
    <3>3. less(x).id = x.id /\ less(x).pending = x.pending \ {e.block} /\ less(x).at = x.at
      BY <3>2
    <3>4. RecordSound(less(x))
      BY <2>1, <3>1, <3>2, <3>3 DEF RecordSound
    <3> QED BY <2>1, <3>1, <3>3, <3>4 DEF RecordSound
  <2> HIDE DEF less
  <2>4. \A f \in IdsIn(t) : f \in IdsIn(Apply(t, e)) \/ BlocksOf(f) \subseteq Final
    BY <2>2, <2>3 DEF IdsIn
  <2>5. IdsIn(Apply(t, e)) \subseteq IdsIn(t) /\ \A r \in Apply(t, e) : RecordSound(r)
    BY <2>2, <2>3 DEF IdsIn
  <2>6. \A f \in {r.id : r \in Waiting(t, e.block)} :
                 f \in DOMAIN found /\ e.block \in BlocksOf(f)
    BY DEF Waiting, RecordSound
  <2> QED BY <1>2, <2>4, <2>5, <2>6
<1>3. CASE e.type = "Reverted"
  <2>1. Apply(t, e) = t \ Waiting(t, e.block)
    BY <1>3 DEF Apply, OnBlockReverted
  <2>2. e.block \notin Final
    <3>1. [type |-> "Finalized", block |-> e.block].block = e.block
          /\ [type |-> "Finalized", block |-> e.block].type = "Finalized"
      OBVIOUS
    <3> QED BY <1>1, <1>3, <3>1 DEF FateInv, Final
  <2>3. \A r \in t : r.id \in DOMAIN found /\ (e.block \in BlocksOf(r.id) <=> r \in Waiting(t, e.block))
    BY <2>2 DEF RecordSound, Waiting
  <2>4. \A r \in Waiting(t, e.block) : r \in t
    BY DEF Waiting
  <2> QED BY <1>3, <2>1, <2>3, <2>4 DEF IdsIn
<1> QED BY <1>1, <1>2, <1>3

\* The changelog hears of a fate before the tracker, or not at all.
LEMMA FollowJournal ==
    ASSUME FollowInv, JournalFate
    PROVE  FollowInv'
<1>1. /\ found' = found /\ todo' = todo /\ published' = published /\ tracker' = tracker
      /\ emitted' = emitted /\ again' = again
      /\ retracted' = retracted /\ gone' = gone /\ excused' = excused
      /\ hand.step = "journal" /\ hand' = [hand EXCEPT !.step = "apply"]
      /\ findingLog' = Apply(findingLog, hand.fate) \/ findingLog' = findingLog
  BY DEF JournalFate, actor, output, chain
<1>2. \A g : BlocksOf(g)' = BlocksOf(g)
  BY <1>1 DEF BlocksOf
<1>3. StepsInv' /\ FoundInv' /\ Tracked' = Tracked /\ Recorded' = Recorded /\ FateInv'
  BY <1>1 DEF FollowInv, StepsInv, FoundInv, Tracked, Recorded, FateInv
<1>4. /\ hand'.fate = hand.fate /\ hand'.step = "apply" /\ hand'.out = {} /\ hand.out = {}
      /\ hand' = [fate |-> hand'.fate, step |-> hand'.step, out |-> hand'.out]
      /\ hand.fate \in emitted
  BY <1>1 DEF FollowInv, HandInv
<1>5. HandInv'
  BY <1>1, <1>4 DEF HandInv
<1>6. Final' = Final
  BY <1>1 DEF Final
<1>7. PICK e \in emitted : e = hand.fate
  BY <1>4
<1>8. /\ \A r \in findingLog' : RecordSound(r)
      /\ \A f \in IdsIn(findingLog) : \/ f \in IdsIn(findingLog')
                                      \/ BlocksOf(f) \subseteq Final
                                      \/ e.type = "Reverted" /\ e.block \in BlocksOf(f)
  <2>1. FateInv /\ \A r \in findingLog : RecordSound(r)
    BY DEF FollowInv, RecordInv
  <2> QED BY <1>1, <1>7, <2>1, FateOnRecords
<1>9. RecordInv'
  <2>1. \A r : RecordSound(r)' = RecordSound(r)
    BY <1>1, <1>2, <1>6 DEF RecordSound
  <2> QED BY <1>1, <1>8, <2>1 DEF FollowInv, RecordInv
<1>10. \A g : Follows(g) => Follows(g)'
  BY <1>1, <1>2, <1>4, <1>6 DEF Follows, IdsIn
<1>11. \A g : Logged(g) => Logged(g)'
  <2>1. \A g : InHand(g)' <=> e.type = "Reverted" /\ e.block \in BlocksOf(g)
    BY <1>2, <1>4, <1>7 DEF InHand
  <2>2. \A g : ~InHand(g)
    BY <1>1 DEF InHand
  <2>3. IdsIn(findingLog)' = IdsIn(findingLog')
    BY DEF IdsIn
  <2> QED BY <1>1, <1>2, <1>6, <1>8, <2>1, <2>2, <2>3 DEF Logged
<1> QED BY <1>1, <1>3, <1>5, <1>9, <1>10, <1>11 DEF FollowInv

\* A revert takes what waits for the block from the tracker into the hand.
LEMMA FollowApply ==
    ASSUME FollowInv, ApplyFate
    PROVE  FollowInv'
<1>0. /\ hand.step = "apply" /\ hand.fate \in emitted /\ hand.out = {}
  BY DEF ApplyFate, FollowInv, HandInv
<1>e. PICK e \in emitted : e = hand.fate
  BY <1>0
<1> DEFINE out == IF e.type = "Reverted" THEN {r.id : r \in Waiting(tracker, e.block)} ELSE {}
<1>1. /\ found' = found /\ todo' = todo /\ published' = published
      /\ findingLog' = findingLog /\ emitted' = emitted /\ again' = again
      /\ retracted' = retracted /\ excused' = excused
      /\ tracker' = Apply(tracker, e)
      /\ gone' = IF e.type = "Reverted" THEN gone \cup {e.block} ELSE gone
      /\ hand' = IF out = {} THEN Free
                 ELSE [fate |-> e, step |-> "publish", out |-> out]
  BY <1>e DEF ApplyFate, actor, output, chain, Retracting
<1>2. /\ \A r \in tracker' : RecordSound(r)
      /\ \A f \in IdsIn(tracker) : \/ f \in IdsIn(tracker')
                                   \/ BlocksOf(f) \subseteq Final
                                   \/ f \in out
      /\ e.type = "Reverted" => \A f \in IdsIn(tracker) : e.block \in BlocksOf(f) => f \in out
      /\ \A f \in out : f \in DOMAIN found /\ e.block \in BlocksOf(f)
  <2>1. FateInv /\ \A r \in tracker : RecordSound(r)
    BY DEF FollowInv, RecordInv
  <2> QED BY <1>1, <2>1, FateOnRecords
<1>3. out # {} => e.type = "Reverted"
  OBVIOUS
<1> HIDE DEF out
<1>4. \A g : BlocksOf(g)' = BlocksOf(g)
  BY <1>1 DEF BlocksOf
<1>5. StepsInv' /\ FoundInv' /\ Tracked' = Tracked /\ Recorded' = Recorded
  BY <1>1 DEF FollowInv, StepsInv, FoundInv, Tracked, Recorded
<1>6. Final' = Final
  BY <1>1 DEF Final
<1>7. hand'.out = out /\ HandInv'
  BY <1>1, <1>2, <1>3, <1>4 DEF HandInv, Free
<1>8. e = [type |-> e.type, block |-> e.block] /\ e.type \in {"Reverted", "Finalized"}
      /\ e.block \in Block
  BY DEF FollowInv, FateInv, Fate
<1>9. FateInv'
  BY <1>1, <1>8 DEF FollowInv, FateInv
<1>10. RecordInv'
  <2>1. \A r : RecordSound(r)' = RecordSound(r)
    BY <1>1, <1>4, <1>6 DEF RecordSound
  <2> QED BY <1>1, <1>2, <2>1 DEF FollowInv, RecordInv
<1>11. e.type = "Reverted" => e.block \notin Final
  <2>1. [type |-> "Finalized", block |-> e.block].block = e.block
        /\ [type |-> "Finalized", block |-> e.block].type = "Finalized"
    OBVIOUS
  <2> QED BY <2>1 DEF FollowInv, FateInv, Final
<1>12. ASSUME NEW g, Follows(g) PROVE Follows(g)'
  <2>1. g \in IdsIn(tracker) \cup retracted \/ BlocksOf(g) \subseteq Final
    BY <1>0, <1>12 DEF Follows
  <2>2. g \in IdsIn(tracker') \cup retracted \cup out \/ BlocksOf(g) \subseteq Final
    BY <1>2, <2>1
  <2>3. ASSUME BlocksOf(g) \cap gone' # {} PROVE g \in retracted \cup out
    <3>1. CASE BlocksOf(g) \cap gone # {}
      BY <1>0, <1>12, <3>1 DEF Follows
    <3>2. CASE e.type = "Reverted" /\ e.block \in BlocksOf(g)
      BY <1>2, <1>11, <2>1, <3>2
    <3> QED BY <1>1, <2>3, <3>1, <3>2
  <2>4. IdsIn(tracker)' = IdsIn(tracker')
    BY DEF IdsIn
  <2> QED BY <1>1, <1>4, <1>6, <1>7, <2>2, <2>3, <2>4 DEF Follows
<1>13. \A g : Logged(g) => Logged(g)'
  <2>1. \A g : InHand(g) => e.type = "Reverted" /\ e.block \in BlocksOf(g)
    BY <1>e DEF InHand
  <2>2. \A g : InHand(g) => BlocksOf(g) \cap gone' # {}
    BY <1>1, <2>1
  <2>3. gone \subseteq gone'
    BY <1>1
  <2> QED BY <1>1, <1>4, <1>6, <2>2, <2>3 DEF Logged, IdsIn
<1> QED BY <1>1, <1>5, <1>7, <1>9, <1>10, <1>12, <1>13 DEF FollowInv

LEMMA FollowRetract ==
    ASSUME FollowInv, NEW f \in hand.out, RetractFinding(f)
    PROVE  FollowInv'
<1>1. /\ found' = found /\ todo' = todo /\ published' = published /\ tracker' = tracker
      /\ findingLog' = findingLog /\ emitted' = emitted /\ again' = again /\ gone' = gone
      /\ \/ retracted' = retracted \cup {f} /\ excused' = excused
         \/ excused' = excused \cup {f} /\ retracted' = retracted
      /\ hand' = IF hand.out \ {f} = {} THEN Free
                 ELSE [fate |-> hand.fate, step |-> "publish", out |-> hand.out \ {f}]
  BY DEF RetractFinding, actor, tracking, chain, Retracting
<1>2. \A g : BlocksOf(g)' = BlocksOf(g)
  BY <1>1 DEF BlocksOf
<1>3. StepsInv' /\ FoundInv' /\ Tracked' = Tracked /\ Recorded' = Recorded /\ FateInv'
  BY <1>1 DEF FollowInv, StepsInv, FoundInv, Tracked, Recorded, FateInv
<1>4. Final' = Final
  BY <1>1 DEF Final
<1>5. hand.step = "publish"
  BY DEF FollowInv, HandInv
<1>6. hand'.out = hand.out \ {f} /\ HandInv'
  BY <1>1, <1>2, <1>5 DEF FollowInv, HandInv, Free
<1>7. RecordInv'
  BY <1>1, <1>2, <1>4 DEF FollowInv, RecordInv, RecordSound
<1>8. \A g : g \notin excused' => g \notin excused
  BY <1>1
<1>9. \A g : g \notin excused' /\ g \in retracted \cup hand.out => g \in retracted' \cup hand'.out
  BY <1>1, <1>6
<1>10. ASSUME NEW g, g \notin excused' PROVE Follows(g) => Follows(g)'
  BY <1>1, <1>2, <1>4, <1>9, <1>10 DEF Follows, IdsIn
<1>11. \A g : Logged(g) => Logged(g)'
  <2>1. \A g : ~InHand(g)
    BY <1>5 DEF InHand
  <2>2. retracted \subseteq retracted'
    BY <1>1
  <2> QED BY <1>1, <1>2, <1>4, <2>1, <2>2 DEF Logged, IdsIn
<1> QED BY <1>3, <1>6, <1>7, <1>8, <1>10, <1>11 DEF FollowInv

\* The tracker a restart begins with: what the changelog replays, or excused.
LEMMA FollowBoot ==
    ASSUME FollowInv, Boot
    PROVE  FollowInv'
<1>1. /\ found' = found /\ todo' = Idle /\ published' = published
      /\ findingLog' = findingLog /\ emitted' = emitted /\ again' \in SUBSET emitted
      /\ gone' = gone /\ retracted' = retracted /\ hand' = Free
      /\ tracker' = Sweep(findingLog, now)
      /\ excused' = excused \cup {r.id : r \in findingLog \ tracker'} \cup
          (IF hand.step \in {"apply", "publish"} /\ hand.fate.type = "Reverted"
           THEN {f \in DOMAIN found : hand.fate.block \in BlocksOf(f)} ELSE {})
  BY DEF Boot, output
<1>2. \A g : BlocksOf(g)' = BlocksOf(g)
  BY <1>1 DEF BlocksOf
<1>3. FoundInv' /\ FateInv' /\ Final' = Final
  BY <1>1 DEF FollowInv, FoundInv, FateInv, Final
<1>4. StepsInv' /\ todo'.steps = << >>
  BY <1>1 DEF StepsInv, Idle
<1>5. Tracked' = published /\ Recorded' = published
  BY <1>1, <1>4 DEF Tracked, Recorded
<1>6. HandInv' /\ hand'.out = {}
  BY <1>1 DEF HandInv, Free
<1>7. tracker' \subseteq findingLog
  BY <1>1 DEF Sweep
<1>8. RecordInv'
  BY <1>1, <1>2, <1>3, <1>7 DEF FollowInv, RecordInv, RecordSound
<1>9. ASSUME NEW g \in published \ excused' PROVE Follows(g)' /\ Logged(g)'
  <2>1. Follows(g) /\ Logged(g) /\ g \in DOMAIN found
    BY <1>1, <1>9 DEF FollowInv, FoundInv, Tracked, Recorded
  <2>2. ~InHand(g)
    BY <1>1, <1>9, <2>1 DEF InHand
  <2>3. g \notin hand.out
    BY <1>1, <1>9, <2>1 DEF FollowInv, HandInv
  <2>4. BlocksOf(g) \cap gone # {} => g \in retracted
    BY <2>1, <2>3 DEF Follows
  <2>5. g \in IdsIn(findingLog) => g \in IdsIn(tracker')
    BY <1>1, <1>9 DEF IdsIn
  <2>6. g \in IdsIn(findingLog) \cup retracted \/ BlocksOf(g) \subseteq Final
    BY <2>1, <2>2, <2>4 DEF Logged
  <2>7. IdsIn(tracker)' = IdsIn(tracker') /\ IdsIn(findingLog)' = IdsIn(findingLog)
    BY <1>1 DEF IdsIn
  <2> QED BY <1>1, <1>2, <1>3, <2>4, <2>5, <2>6, <2>7 DEF Follows, Logged
<1> QED BY <1>1, <1>3, <1>4, <1>5, <1>6, <1>8, <1>9 DEF FollowInv

LEMMA FollowNext == FollowInv /\ [Next]_vars => FollowInv'
<1> SUFFICES ASSUME FollowInv, [Next]_vars PROVE FollowInv'
  OBVIOUS
<1>0. StepsInv
  BY DEF FollowInv
<1>1. CASE Tick \/ Shutdown \/ UNCHANGED vars \/ \E c \in Chain : Deliver(c) \/ Rebalance(c)
  <2>1. found' = found /\ todo' = todo /\ published' = published /\ Untouched
    BY <1>1 DEF Tick, Shutdown, Deliver, Handle, Rebalance, vars, input, actor, tracking,
                output, chain, Untouched
  <2>2. StepsInv' /\ todo'.steps = todo.steps
    BY <1>0, <2>1 DEF StepsInv
  <2> QED BY <2>1, <2>2, FollowQuiet
<1>2. CASE Actor
  BY <1>2, FollowOnLeg, FollowAppend, FollowRecord, FollowTrack, FollowPublish DEF Actor
<1>3. CASE FinalityConsumer
  BY <1>3, FollowTake, FollowJournal, FollowApply, FollowRetract DEF FinalityConsumer
<1>4. CASE Restart \/ Crash
  BY <1>4, FollowBoot DEF Restart, Crash
<1> QED BY <1>1, <1>2, <1>3, <1>4 DEF Next

\* A published finding is tracked until its blocks are final, and retracted
\* once one of them is reverted, across crashes, shutdowns and restarts, but
\* for the findings the code gives up (finality.rs, finding_changelog.rs).
THEOREM FindingsFollow == Spec => []FindingsFollowTheirLegs
<1>1. Init => FollowInv
  BY FollowInit
<1>2. FollowInv /\ [Next]_vars => FollowInv'
  BY FollowNext
<1>3. FollowInv => FindingsFollowTheirLegs
  BY DEF FollowInv, FindingsFollowTheirLegs, Tracked, Follows, IdsIn
<1> QED BY <1>1, <1>2, <1>3, PTL DEF Spec

-----------------------------------------------------------------------------
(***************************************************************************)
(* Legs. LegsJoinOnce and ReplayRestoresBuffer are not inductive: between  *)
(* the steps of the actor the changelog lags behind the buffer, and a crash *)
(* may fall between any two. JoinInv follows every leg from its record     *)
(* through channel, buffer and changelog to the finding it is joined in, up *)
(* to the entries that are still to be appended.                           *)
(***************************************************************************)

\* The findings that are public or on their way there.
Alive == published \cup (IF todo.steps # << >> THEN {Len(found)} ELSE {})
InFinding(l) == \E f \in Alive : l \in found[f]

\* The legs with an entry that is still to be appended.
Logging(op) == {l \in Leg : Entry(op, l) \in Members(todo.entries)}

\* The candidates, in the buffer or on their way to the changelog.
Candidate == Members(buffer.legs) \cup Logging("buffered")

Used(l) == l \in Candidate \cup Members(legLog) \/ InFinding(l)

\* No record of l was handled yet.
Ahead(l) ==
    \E c \in Chain : \E i \in DOMAIN Feed[c] : high[c] < i /\ Feed[c][i] = l

\* A leg reaches the actor once.
Fresh(l) ==
    /\ Ahead(l) => l \notin Members(channel) /\ ~Used(l)
    /\ l \in Members(channel) => OnceIn(channel, l) /\ ~Used(l)

\* A candidate is in no finding, and a leg of a finding leaves the changelog
\* before the finding is public.
Apart(l) ==
    /\ l \in Candidate => ~InFinding(l)
    /\ l \in Members(legLog) =>
          /\ \A f \in published : l \notin found[f]
          /\ InFinding(l) => l \in Logging("removed")
    /\ \A f, g \in Alive : l \in found[f] /\ l \in found[g] => f = g

\* No leg is held or logged twice.
Single(l) ==
    /\ OnceIn(buffer.legs, l) /\ OnceIn(legLog, l)
    /\ OnceIn(todo.entries, Entry("buffered", l))
    /\ l \in Logging("buffered") => l \notin Members(legLog) \cup Logging("removed")

\* The buffer is what the changelog will say, which is by hash.
Logs(l) == l \in Members(legLog) \cup Logging("buffered")
Same(l) ==
    ~Expired(l, now) =>
        /\ Logs(l) /\ l \notin Logging("removed") => l \in Members(buffer.legs)
        /\ l \in Members(buffer.legs) /\ l \notin shadowed =>
              Logs(l) /\ l \notin Dropped(todo.entries)

EntryType == [op : {"buffered", "removed"}, leg : Leg]

JoinTypes ==
    /\ now \in Nat
    /\ channel \in Seq(Leg) /\ buffer \in Buffers(Leg) /\ legLog \in Seq(Leg)
    /\ todo.entries \in Seq(EntryType)
    /\ \A f \in DOMAIN found : found[f] \subseteq Leg
    /\ pos \in [Chain -> Nat] /\ floor \in [Chain -> Nat] /\ high \in [Chain -> Nat]
    /\ \A c \in Chain : floor[c] <= pos[c] /\ pos[c] <= high[c]

LegInv(l) == Fresh(l) /\ Apart(l) /\ Single(l) /\ Same(l)

JoinInv == JoinTypes /\ \A l \in Leg \ loose : LegInv(l)

LEMMA JoinInit == Init => JoinInv
<1> SUFFICES ASSUME Init PROVE JoinInv
  OBVIOUS
<1>1. /\ now = 0 /\ channel = << >> /\ buffer = EmptyBuffer /\ todo = Idle
      /\ legLog = << >> /\ found = << >> /\ published = {}
      /\ pos = [c \in Chain |-> 0] /\ floor = pos /\ high = pos
  BY DEF Init
<1>2. buffer.legs = << >> /\ buffer \in Buffers(Leg)
  BY <1>1 DEF EmptyBuffer, Buffers
<1>3. todo.entries = << >> /\ todo.steps = << >>
  BY <1>1 DEF Idle
<1>4. JoinTypes
  BY <1>1, <1>2, <1>3 DEF JoinTypes
<1>5. Members(<< >>) = {} /\ \A x : OnceIn(<< >>, x)
  BY EmptyFacts
<1>6. Logging("buffered") = {} /\ Candidate = {} /\ Alive = {} /\ Members(legLog) = {}
  BY <1>1, <1>2, <1>3, <1>5 DEF Logging, Candidate, Alive
<1>7. ASSUME NEW l \in Leg PROVE LegInv(l)
  <2>1. ~Used(l) /\ ~InFinding(l)
    BY <1>6 DEF Used, InFinding
  <2>2. Fresh(l) /\ Apart(l)
    BY <1>1, <1>5, <1>6, <2>1 DEF Fresh, Apart
  <2>3. Single(l) /\ Same(l)
    BY <1>1, <1>2, <1>3, <1>5, <1>6 DEF Single, Same, Logs
  <2> QED BY <2>2, <2>3 DEF LegInv
<1> QED BY <1>4, <1>7 DEF JoinInv

\* A step that leaves the legs where they are.
LEMMA JoinQuiet ==
    ASSUME JoinInv, now' \in Nat, now <= now',
           channel' = channel, buffer' = buffer, todo' = todo, legLog' = legLog,
           found' = found, published' = published, high' = high, loose' = loose,
           shadowed' = shadowed, pos' \in [Chain -> Nat], floor' \in [Chain -> Nat],
           \A c \in Chain : floor'[c] <= pos'[c] /\ pos'[c] <= high[c]
    PROVE  JoinInv'
<1>1. JoinTypes'
  BY DEF JoinInv, JoinTypes
<1>2. ASSUME NEW l \in Leg PROVE LegInv(l) => LegInv(l)'
  <2>1. /\ Alive' = Alive /\ Candidate' = Candidate
        /\ Logging("buffered")' = Logging("buffered") /\ Logging("removed")' = Logging("removed")
    BY DEF Alive, Candidate, Logging
  <2>2. (InFinding(l)' <=> InFinding(l)) /\ (Used(l)' <=> Used(l)) /\ (Ahead(l)' <=> Ahead(l))
    BY <2>1 DEF InFinding, Used, Ahead
  <2>3. Expired(l, now) => Expired(l, now')
    <3>1. Observed[l] \in Int /\ Window \in Nat /\ now \in Nat
      BY CorrelatorAssumption DEF JoinInv, JoinTypes
    <3> QED BY <3>1 DEF Expired
  <2>4. (Fresh(l) => Fresh(l)') /\ (Apart(l) => Apart(l)') /\ (Single(l) => Single(l)')
    BY <2>1, <2>2 DEF Fresh, Apart, Single
  <2>5. Same(l) => Same(l)'
    BY <2>1, <2>3 DEF Same, Logs
  <2> QED BY <2>4, <2>5 DEF LegInv
<1> QED BY <1>1, <1>2 DEF JoinInv

\* A record reaches the channel once, or its leg is loose.
LEMMA JoinDeliver ==
    ASSUME JoinInv, NEW c \in Chain, Deliver(c)
    PROVE  JoinInv'
<1> DEFINE k == pos[c] + 1
           x == Feed[c][k]
           new == x \notin Members(seen[c])
<1>1. /\ pos[c] < Len(Feed[c])
      /\ pos' = [pos EXCEPT ![c] = @ + 1]
      /\ channel' = IF new /\ Len(channel) < ChannelCap THEN Append(channel, x) ELSE channel
      /\ high' = [high EXCEPT ![c] = IF pos[c] < @ THEN @ ELSE @ + 1]
      /\ loose' = IF new /\ pos[c] < high[c] THEN loose \cup {x} ELSE loose
      /\ now' = now /\ floor' = floor
      /\ buffer' = buffer /\ todo' = todo /\ legLog' = legLog /\ found' = found
      /\ published' = published /\ shadowed' = shadowed
  BY DEF Deliver, Handle, actor, output
<1>2. /\ pos \in [Chain -> Nat] /\ high \in [Chain -> Nat] /\ floor \in [Chain -> Nat]
      /\ \A d \in Chain : floor[d] <= pos[d] /\ pos[d] <= high[d]
      /\ channel \in Seq(Leg)
  BY DEF JoinInv, JoinTypes
<1>3. Feed[c] \in Seq(Leg) /\ k \in DOMAIN Feed[c] /\ x \in Leg
  <2>1. Feed[c] \in Seq(Leg)
    BY CorrelatorAssumption
  <2>2. k \in 1..Len(Feed[c]) /\ DOMAIN Feed[c] = 1..Len(Feed[c])
    BY <1>1, <1>2, <2>1
  <2> QED BY <2>1, <2>2
<1> HIDE DEF x, new
<1>4. /\ pos' \in [Chain -> Nat] /\ high' \in [Chain -> Nat]
      /\ \A d \in Chain : pos[d] <= pos'[d] /\ high[d] <= high'[d] /\ pos'[d] <= high'[d]
      /\ pos[c] = high[c] => high'[c] = k
  BY <1>1, <1>2
<1>5. channel' \in Seq(Leg)
  BY <1>1, <1>2, <1>3, AppendFacts
<1>6. JoinTypes'
  <2>1. \A d \in Chain : floor'[d] <= pos'[d]
    BY <1>1, <1>2, <1>4
  <2> QED BY <1>1, <1>2, <1>4, <1>5, <2>1 DEF JoinInv, JoinTypes
<1>7. ASSUME NEW l \in Leg, l \notin loose' PROVE LegInv(l)'
  <2>1. LegInv(l)
    BY <1>1, <1>7 DEF JoinInv
  <2>2. /\ Alive' = Alive /\ Candidate' = Candidate
        /\ Logging("buffered")' = Logging("buffered") /\ Logging("removed")' = Logging("removed")
    BY <1>1 DEF Alive, Candidate, Logging
  <2>3. (InFinding(l)' <=> InFinding(l)) /\ (Used(l)' <=> Used(l))
    BY <1>1, <2>2 DEF InFinding, Used
  <2>4. Apart(l)' /\ Single(l)' /\ Same(l)'
    BY <1>1, <2>1, <2>2, <2>3 DEF LegInv, Apart, Single, Same, Logs
  <2>5. Ahead(l)' => Ahead(l)
    <3> SUFFICES ASSUME NEW d \in Chain, NEW i \in DOMAIN Feed[d], high'[d] < i, Feed[d][i] = l
                 PROVE  Ahead(l)
      BY DEF Ahead
    <3>1. Feed[d] \in Seq(Leg) /\ i \in Nat
      BY CorrelatorAssumption
    <3>2. high[d] < i
      BY <1>2, <1>4, <3>1
    <3> QED BY <3>2 DEF Ahead
  <2>6. CASE channel' = channel
    BY <2>1, <2>3, <2>4, <2>5, <2>6 DEF LegInv, Fresh
  <2>7. CASE new /\ channel' = Append(channel, x)
    <3>1. /\ Members(channel') = Members(channel) \cup {x}
          /\ \A y : OnceIn(channel, y) /\ (y = x => y \notin Members(channel)) => OnceIn(channel', y)
      BY <1>2, <1>3, <2>7, AppendFacts
    <3>2. CASE l # x
      <4>1. l \in Members(channel)' <=> l \in Members(channel)
        BY <3>1, <3>2
      <4>2. OnceIn(channel, l) => OnceIn(channel, l)'
        BY <3>1, <3>2
      <4> QED BY <2>1, <2>3, <2>4, <2>5, <4>1, <4>2 DEF LegInv, Fresh
    <3>3. CASE l = x
      <4>1. pos[c] = high[c] /\ high'[c] = k
        BY <1>1, <1>2, <1>4, <1>7, <2>7, <3>3
      <4>2. Ahead(l)
        <5>1. high[c] < k
          BY <1>2, <4>1
        <5> QED BY <1>3, <3>3, <5>1 DEF Ahead, x
      <4>3. l \notin Members(channel) /\ ~Used(l)
        BY <2>1, <4>2 DEF LegInv, Fresh
      <4>4. OnceIn(channel, l)' /\ ~Used(l)'
        <5>1. OnceIn(channel, l)
          BY <4>3 DEF OnceIn, Members
        <5> QED BY <2>3, <3>1, <4>3, <5>1
      <4>5. ~Ahead(l)'
        <5> SUFFICES ASSUME NEW d \in Chain, NEW i \in DOMAIN Feed[d], high'[d] < i, Feed[d][i] = l
                     PROVE  FALSE
          BY DEF Ahead
        <5>1. Feed[d][i] = Feed[c][k]
          BY <3>3 DEF x
        <5>2. d = c /\ i = k
          <6> HIDE DEF k
          <6> QED BY <1>3, <5>1, CorrelatorAssumption
        <5> QED BY <1>2, <4>1, <5>2
      <4> QED BY <2>4, <4>4, <4>5 DEF LegInv, Fresh
    <3> QED BY <3>2, <3>3
  <2> QED BY <1>1, <2>4, <2>6, <2>7 DEF LegInv
<1> QED BY <1>6, <1>7 DEF JoinInv

\* What the changelog entries of a list of legs say.
LEMMA EntriesFacts ==
    ASSUME NEW op \in {"buffered", "removed"}, NEW s \in Seq(Leg)
    PROVE  /\ Entries(op, s) \in Seq(EntryType)
           /\ Members(Entries(op, s)) = {Entry(op, l) : l \in Members(s)}
<1>1. Len(s) \in Nat /\ DOMAIN s = 1..Len(s) /\ \A i \in 1..Len(s) : s[i] \in Leg
  OBVIOUS
<1>2. \A l \in Leg : Entry(op, l) \in EntryType
  BY DEF Entry, EntryType
<1>3. Entries(op, s) = [i \in 1..Len(s) |-> Entry(op, s[i])]
  BY <1>1 DEF Entries
<1>4. Entries(op, s) \in [1..Len(s) -> EntryType]
  BY <1>1, <1>2, <1>3
<1> QED BY <1>1, <1>3, <1>4 DEF Members

LEMMA EntryEqual ==
    /\ \A l, m : Entry("buffered", l) # Entry("removed", m)
    /\ \A o, l, m : Entry(o, l) = Entry(o, m) => l = m
  BY DEF Entry

\* The actor takes a leg: between two legs there is nothing left to append.
LEMMA JoinIdle ==
    ASSUME JoinInv, todo = Idle
    PROVE  /\ todo.entries = << >> /\ Alive = published
           /\ Logging("buffered") = {} /\ Logging("removed") = {}
<1>1. todo.entries = << >> /\ todo.steps = << >>
  BY DEF Idle
<1>2. \A op : Logging(op) = {}
  BY <1>1, EmptyFacts DEF Logging
<1> QED BY <1>1, <1>2 DEF Alive

\* The leg joins with candidates.
LEMMA JoinMatch ==
    ASSUME JoinInv, FollowInv, OnLeg, Matched(buffer, Head(channel)) # << >>
    PROVE  JoinInv'
<1> DEFINE x == Head(channel)
           m == Matched(buffer, x)
           s == Consumed(buffer, m)
           n == Len(found) + 1
<1>1. /\ todo = Idle /\ channel # << >> /\ channel' = Tail(channel)
      /\ buffer' = Consume(buffer, m)
      /\ found' = Append(found, Members(s) \cup {x})
      /\ todo' = [entries |-> Entries("removed", s), steps |-> Steps]
      /\ now' = now /\ pos' = pos /\ floor' = floor /\ high' = high /\ legLog' = legLog
      /\ published' = published /\ loose' = loose
      /\ shadowed' = shadowed \cup (Members(buffer'.legs) \cap Dropped(todo'.entries))
  BY DEF OnLeg, output
<1>2. /\ buffer \in Buffers(Leg) /\ channel \in Seq(Leg)
      /\ \A f \in DOMAIN found : found[f] \subseteq Leg
  BY DEF JoinInv, JoinTypes
<1>3. m \in Seq(Leg) /\ Members(m) \subseteq Members(buffer.legs)
  BY <1>2, MatchedFacts
<1> HIDE DEF s, m
<1>4. /\ channel' \in Seq(Leg) /\ x \in Leg /\ x \in Members(channel)
      /\ Members(channel) = Members(channel') \cup {x}
      /\ \A y : OnceIn(channel, y) => OnceIn(channel', y)
      /\ OnceIn(channel, x) => x \notin Members(channel')
  BY <1>1, <1>2, TailFacts
<1> HIDE DEF x
<1>5. /\ buffer' \in Buffers(Leg) /\ s \in Seq(Leg)
      /\ Members(s) \subseteq Members(buffer.legs)
      /\ Members(buffer'.legs) \subseteq Members(buffer.legs)
      /\ \A y \in Members(buffer.legs) \ Members(s) : y \in Members(buffer'.legs)
      /\ \A y \in Members(s) : OnceIn(buffer.legs, y) => y \notin Members(buffer'.legs)
      /\ \A y : OnceIn(buffer.legs, y) => OnceIn(buffer'.legs, y)
  BY <1>1, <1>2, <1>3, ConsumeFacts DEF s
<1>a. Members(s) \subseteq Leg
  BY <1>5, MembersType
<1>6. /\ todo.entries = << >> /\ Alive = published
      /\ Logging("buffered") = {} /\ Logging("removed") = {}
  BY <1>1, JoinIdle
<1>7. /\ todo'.entries \in Seq(EntryType)
      /\ Members(todo'.entries) = {Entry("removed", l) : l \in Members(s)}
  BY <1>1, <1>5, EntriesFacts
<1>8. Logging("buffered")' = {} /\ Logging("removed")' = Members(s)
  BY <1>a, <1>7, EntryEqual DEF Logging
<1>9. /\ n \in DOMAIN found' /\ Len(found') = n /\ found'[n] = Members(s) \cup {x}
      /\ \A f \in DOMAIN found : f # n /\ f \in DOMAIN found' /\ found'[f] = found[f]
      /\ \A f \in DOMAIN found' : f \in DOMAIN found \/ f = n
  BY <1>1 DEF FollowInv, FoundInv
<1>10. Alive' = published \cup {n}
  <2>1. todo'.steps # << >>
    BY <1>1 DEF Steps
  <2> QED BY <1>1, <1>9, <2>1 DEF Alive
<1>11. published \subseteq DOMAIN found
  BY DEF FollowInv, FoundInv
<1> HIDE DEF n
<1>12. JoinTypes'
  <2>1. \A f \in DOMAIN found' : found'[f] \subseteq Leg
    BY <1>2, <1>a, <1>4, <1>9
  <2> QED BY <1>1, <1>4, <1>5, <1>7, <2>1 DEF JoinInv, JoinTypes
<1>13. ASSUME NEW l \in Leg, l \notin loose PROVE LegInv(l)'
  <2>1. LegInv(l)
    BY <1>13 DEF JoinInv
  <2>2. InFinding(l)' <=> InFinding(l) \/ l \in Members(s) \/ l = x
    BY <1>6, <1>9, <1>10, <1>11 DEF InFinding
  <2>3. l \in Candidate' => l \in Candidate /\ l \notin Members(s)
    BY <1>5, <1>6, <1>8, <2>1 DEF Candidate, LegInv, Single
  <2>4. l \in Members(s) => l \in Candidate
    BY <1>5 DEF Candidate
  <2>5. l \in Members(legLog)' <=> l \in Members(legLog)
    BY <1>1
  <2>6. l = x => OnceIn(channel, l) /\ ~Used(l) /\ ~Ahead(l)
    BY <1>4, <2>1 DEF LegInv, Fresh
  <2>7. l # x /\ ~Used(l) => ~Used(l)'
    BY <2>2, <2>3, <2>4, <2>5 DEF Used
  <2>8. Fresh(l)'
    <3>1. Ahead(l)' <=> Ahead(l)
      BY <1>1 DEF Ahead
    <3>2. l \in Members(channel)' => l \in Members(channel) /\ l # x
      BY <1>4, <2>6
    <3>3. OnceIn(channel, l) => OnceIn(channel, l)'
      BY <1>4
    <3> QED BY <2>1, <2>6, <2>7, <3>1, <3>2, <3>3 DEF LegInv, Fresh
  <2>9. Apart(l)'
    <3>1. l \in Candidate' => ~InFinding(l)'
      BY <2>1, <2>2, <2>3, <2>6 DEF LegInv, Apart, Used
    <3>2. l \in Members(legLog) => \A f \in published : l \notin found'[f]
      BY <1>9, <1>11, <2>1 DEF LegInv, Apart
    <3>3. l \in Members(legLog) /\ InFinding(l)' => l \in Members(s)
      BY <1>6, <2>1, <2>2, <2>6 DEF LegInv, Apart, Used, InFinding
    <3>4. ASSUME NEW f \in Alive', NEW g \in Alive', l \in found'[f], l \in found'[g]
          PROVE  f = g
      <4>1. l \in Members(s) \cup {x} => ~InFinding(l)
        BY <2>1, <2>4, <2>6 DEF LegInv, Apart, Used
      <4>2. CASE f \in published /\ g \in published
        BY <1>6, <1>9, <1>11, <2>1, <3>4, <4>2 DEF LegInv, Apart
      <4>3. ASSUME l \in found'[n], NEW h \in published, l \in found'[h] PROVE FALSE
        BY <1>6, <1>9, <1>11, <4>1, <4>3 DEF InFinding
      <4> QED BY <1>10, <3>4, <4>2, <4>3
    <3> QED BY <1>1, <1>8, <2>5, <3>1, <3>2, <3>3, <3>4 DEF Apart
  <2>10. Single(l)'
    <3>1. OnceIn(todo'.entries, Entry("buffered", l))
      <4>1. Entry("buffered", l) \notin Members(todo'.entries)
        BY <1>7, EntryEqual
      <4> QED BY <4>1 DEF OnceIn, Members
    <3> QED BY <1>1, <1>5, <1>8, <2>1, <3>1 DEF LegInv, Single
  <2>11. Same(l)'
    <3>1. l \in Members(buffer'.legs) <=> l \in Members(buffer.legs) /\ l \notin Members(s)
      BY <1>5, <2>1 DEF LegInv, Single
    <3>2. Logs(l)' <=> Logs(l)
      BY <1>1, <1>6, <1>8 DEF Logs
    <3>3. l \in Members(buffer'.legs) /\ l \notin shadowed' =>
             l \notin shadowed /\ l \notin Dropped(todo'.entries)
      BY <1>1
    <3> HIDE DEF Logs
    <3> QED BY <1>1, <1>6, <1>8, <2>1, <3>1, <3>2, <3>3 DEF LegInv, Same
  <2> QED BY <2>8, <2>9, <2>10, <2>11 DEF LegInv
<1> QED BY <1>1, <1>12, <1>13 DEF JoinInv

\* The leg becomes a candidate.
LEMMA JoinBuffer ==
    ASSUME JoinInv, OnLeg, Matched(buffer, Head(channel)) = << >>
    PROVE  JoinInv'
<1> DEFINE x == Head(channel)
           out == Evicted(buffer, now)
           first == << Entry("buffered", x) >>
           rest == Entries("removed", out)
<1>1. /\ todo = Idle /\ channel # << >> /\ channel' = Tail(channel)
      /\ buffer' = Insert(buffer, x, now) /\ found' = found
      /\ todo' = [entries |-> first \o rest, steps |-> << >>]
      /\ now' = now /\ pos' = pos /\ floor' = floor /\ high' = high /\ legLog' = legLog
      /\ published' = published /\ loose' = loose
      /\ shadowed' = shadowed \cup (Members(buffer'.legs) \cap Dropped(todo'.entries))
  BY DEF OnLeg, output
<1>2. buffer \in Buffers(Leg) /\ channel \in Seq(Leg)
  BY DEF JoinInv, JoinTypes
<1>3. /\ channel' \in Seq(Leg) /\ x \in Leg /\ x \in Members(channel)
      /\ Members(channel) = Members(channel') \cup {x}
      /\ \A y : OnceIn(channel, y) => OnceIn(channel', y)
      /\ OnceIn(channel, x) => x \notin Members(channel')
  BY <1>1, <1>2, TailFacts
<1> HIDE DEF x
<1>4. /\ buffer' \in Buffers(Leg) /\ out \in Seq(Leg)
      /\ Members(out) \subseteq Members(buffer.legs)
      /\ x \in Members(buffer'.legs)
      /\ \A y : OnceIn(buffer.legs, y) /\ y # x =>
            (y \in Members(buffer'.legs) <=> y \in Members(buffer.legs) /\ y \notin Members(out))
      /\ \A y : OnceIn(buffer.legs, y) /\ (y = x => y \notin Members(buffer.legs))
                => OnceIn(buffer'.legs, y)
      /\ Members(buffer'.legs) \subseteq Members(buffer.legs) \cup {x}
  BY <1>1, <1>2, <1>3, InsertFacts
<1> HIDE DEF out
<1>5. Members(out) \subseteq Leg
  BY <1>4, MembersType
<1>6. /\ todo.entries = << >> /\ Alive = published
      /\ Logging("buffered") = {} /\ Logging("removed") = {}
  BY <1>1, JoinIdle
<1>7. /\ rest \in Seq(EntryType)
      /\ Members(rest) = {Entry("removed", l) : l \in Members(out)}
  BY <1>4, EntriesFacts
<1>8. /\ first \in Seq(EntryType) /\ Members(first) = {Entry("buffered", x)}
      /\ \A e : OnceIn(first, e)
  <2>1. Entry("buffered", x) \in EntryType
    BY <1>3 DEF Entry, EntryType
  <2> QED BY <2>1, SingleFacts
<1> HIDE DEF first, rest
<1>9. /\ todo'.entries \in Seq(EntryType)
      /\ Members(todo'.entries) = Members(first) \cup Members(rest)
      /\ \A e : OnceIn(first, e) /\ OnceIn(rest, e) /\ ~(e \in Members(first) /\ e \in Members(rest))
                => OnceIn(todo'.entries, e)
  <2>1. todo'.entries = first \o rest
    BY <1>1
  <2> QED BY <1>7, <1>8, <2>1, ConcatFacts
<1>10. Logging("buffered")' = {x} /\ Logging("removed")' = Members(out)
  BY <1>3, <1>5, <1>7, <1>8, <1>9, EntryEqual DEF Logging
<1>11. Alive' = Alive
  BY <1>1, <1>6 DEF Alive
<1>12. JoinTypes'
  BY <1>1, <1>3, <1>4, <1>9 DEF JoinInv, JoinTypes
<1>13. ASSUME NEW l \in Leg, l \notin loose PROVE LegInv(l)'
  <2>1. LegInv(l)
    BY <1>13 DEF JoinInv
  <2>2. InFinding(l)' <=> InFinding(l)
    BY <1>1, <1>11 DEF InFinding
  <2>3. l \in Candidate' => l \in Candidate \/ l = x
    BY <1>4, <1>10 DEF Candidate
  <2>4. l \in Members(legLog)' <=> l \in Members(legLog)
    BY <1>1
  <2>5. l = x => OnceIn(channel, l) /\ ~Used(l) /\ ~Ahead(l)
    BY <1>3, <2>1 DEF LegInv, Fresh
  <2>6. l # x /\ ~Used(l) => ~Used(l)'
    BY <2>2, <2>3, <2>4 DEF Used
  <2>7. l = x => l \notin Members(buffer.legs) /\ l \notin Members(legLog) /\ ~InFinding(l)
    BY <2>5 DEF Used, Candidate
  <2>8. Fresh(l)'
    <3>1. Ahead(l)' <=> Ahead(l)
      BY <1>1 DEF Ahead
    <3>2. l \in Members(channel)' => l \in Members(channel) /\ l # x
      BY <1>3, <2>5
    <3>3. OnceIn(channel, l) => OnceIn(channel, l)'
      BY <1>3
    <3> QED BY <2>1, <2>5, <2>6, <3>1, <3>2, <3>3 DEF LegInv, Fresh
  <2>9. Apart(l)'
    <3>1. l \in Candidate' => ~InFinding(l)'
      BY <2>1, <2>2, <2>3, <2>7 DEF LegInv, Apart
    <3>2. l \in Members(legLog) => ~InFinding(l)
      BY <1>6, <2>1 DEF LegInv, Apart
    <3> QED BY <1>1, <1>11, <2>1, <2>2, <2>4, <3>1, <3>2 DEF LegInv, Apart
  <2>10. Single(l)'
    <3>1. OnceIn(todo'.entries, Entry("buffered", l))
      <4>1. Entry("buffered", l) \notin Members(rest)
        BY <1>7, EntryEqual
      <4>2. OnceIn(rest, Entry("buffered", l))
        BY <4>1 DEF OnceIn, Members
      <4> QED BY <1>8, <1>9, <4>1, <4>2
    <3>2. OnceIn(buffer'.legs, l)
      BY <1>4, <2>1, <2>7 DEF LegInv, Single
    <3>3. l = x => l \notin Members(out)
      BY <1>4, <2>7
    <3> QED BY <1>1, <1>10, <2>1, <2>7, <3>1, <3>2, <3>3 DEF LegInv, Single
  <2>11. Same(l)'
    <3>0. l \in Members(buffer'.legs) /\ l \notin shadowed' =>
             l \notin shadowed /\ l \notin Dropped(todo'.entries)
      BY <1>1
    <3>1. CASE l = x
      <4>1. l \notin Members(out)
        BY <1>4, <2>7, <3>1
      <4> QED BY <1>4, <1>10, <3>0, <3>1, <4>1 DEF Same, Logs
    <3>2. CASE l # x
      <4>1. l \in Members(buffer'.legs) <=> l \in Members(buffer.legs) /\ l \notin Members(out)
        BY <1>4, <2>1, <3>2 DEF LegInv, Single
      <4>2. Logs(l)' <=> Logs(l)
        BY <1>1, <1>6, <1>10, <3>2 DEF Logs
      <4> QED BY <1>1, <1>6, <1>10, <2>1, <3>0, <4>1, <4>2 DEF LegInv, Same
    <3> QED BY <3>1, <3>2
  <2> QED BY <2>8, <2>9, <2>10, <2>11 DEF LegInv
<1> QED BY <1>1, <1>12, <1>13 DEF JoinInv

\* A changelog entry lands, or is given up and its leg is loose.
LEMMA JoinAppend ==
    ASSUME JoinInv, StepsInv, AppendEntry
    PROVE  JoinInv'
<1> DEFINE e == Head(todo.entries)
           x == e.leg
<1>1. /\ todo.entries # << >>
      /\ todo' = [todo EXCEPT !.entries = Tail(@)]
      /\ \/ legLog' = ApplyEntry(legLog, e) /\ loose' = loose
         \/ loose' = loose \cup {x} /\ legLog' = legLog
      /\ now' = now /\ pos' = pos /\ floor' = floor /\ high' = high /\ channel' = channel
      /\ buffer' = buffer /\ found' = found /\ published' = published
      /\ shadowed' = shadowed
  BY DEF AppendEntry, input, output
<1>2. todo'.entries = Tail(todo.entries) /\ todo'.steps = todo.steps
  <2>1. todo = [entries |-> todo.entries, steps |-> todo.steps]
    BY DEF StepsInv
  <2>2. todo' = [entries |-> Tail(todo.entries), steps |-> todo.steps]
    BY <1>1, <2>1
  <2> QED BY <2>2
<1>3. todo.entries \in Seq(EntryType) /\ legLog \in Seq(Leg)
  BY DEF JoinInv, JoinTypes
<1>4. /\ todo'.entries \in Seq(EntryType) /\ e \in EntryType
      /\ Members(todo.entries) = Members(todo'.entries) \cup {e}
      /\ \A y : OnceIn(todo.entries, y) => OnceIn(todo'.entries, y)
      /\ OnceIn(todo.entries, e) => e \notin Members(todo'.entries)
  BY <1>1, <1>2, <1>3, TailFacts
<1> HIDE DEF e
<1>5. /\ x \in Leg /\ e.op \in {"buffered", "removed"} /\ e = Entry(e.op, x)
  BY <1>4 DEF EntryType, Entry
<1>6. Alive' = Alive
  BY <1>1, <1>2 DEF Alive
<1>7. /\ e.op = "buffered" => ApplyEntry(legLog, e) = Append(legLog, x)
      /\ e.op = "removed" => ApplyEntry(legLog, e) = Sift(legLog, Leg \ SameTx(x))
  BY DEF ApplyEntry
<1> HIDE DEF x
<1>8. /\ Append(legLog, x) \in Seq(Leg) /\ Members(Append(legLog, x)) = Members(legLog) \cup {x}
      /\ \A y : OnceIn(legLog, y) /\ (y = x => y \notin Members(legLog)) => OnceIn(Append(legLog, x), y)
  BY <1>3, <1>5, AppendFacts
<1>9. /\ Sift(legLog, Leg \ SameTx(x)) \in Seq(Leg)
      /\ Members(Sift(legLog, Leg \ SameTx(x))) = Members(legLog) \ SameTx(x)
      /\ \A y : OnceIn(legLog, y) => OnceIn(Sift(legLog, Leg \ SameTx(x)), y)
  <2>1. Members(legLog) \subseteq Leg
    BY <1>3, MembersType
  <2> QED BY <1>3, <2>1, SiftFacts
<1>10. legLog' \in Seq(Leg)
  BY <1>1, <1>3, <1>5, <1>7, <1>8, <1>9
<1>11. JoinTypes'
  BY <1>1, <1>4, <1>10 DEF JoinInv, JoinTypes
<1>12. ASSUME NEW l \in Leg, l \notin loose' PROVE LegInv(l)'
  <2>1. LegInv(l)
    BY <1>1, <1>12 DEF JoinInv
  <2>2. (InFinding(l)' <=> InFinding(l)) /\ (Ahead(l)' <=> Ahead(l))
    BY <1>1, <1>6 DEF InFinding, Ahead
  <2>3. OnceIn(todo'.entries, Entry("buffered", l))
    BY <1>4, <2>1 DEF LegInv, Single
  <2>a. l \in Dropped(todo'.entries) => l \in Dropped(todo.entries)
    BY <1>4 DEF Dropped
  <2>b. e.op = "removed" /\ l \in SameTx(x) => l \in Dropped(todo.entries)
    BY <1>4 DEF Dropped, x
  <2>c. x \in SameTx(x)
    BY <1>5 DEF SameTx
  <2>d. CASE l # x /\ e.op = "removed" /\ l \in SameTx(x) /\ loose' = loose
              /\ legLog' = Sift(legLog, Leg \ SameTx(x))
    <3>1. \A op \in {"buffered", "removed"} : Entry(op, l) # e
      BY <1>5, <2>d DEF Entry
    <3>2. /\ l \in Logging("buffered")' <=> l \in Logging("buffered")
          /\ l \in Logging("removed")' <=> l \in Logging("removed")
      BY <1>4, <3>1 DEF Logging
    <3>3. l \notin Members(legLog') /\ OnceIn(legLog', l)
      BY <1>9, <2>1, <2>d DEF LegInv, Single
    <3>4. (l \in Candidate' <=> l \in Candidate) /\ (Used(l)' => Used(l))
      BY <1>1, <2>2, <3>2, <3>3 DEF Candidate, Used
    <3>5. Fresh(l)' /\ Apart(l)'
      BY <1>1, <1>6, <2>1, <2>2, <3>2, <3>3, <3>4 DEF LegInv, Fresh, Apart
    <3>6. Single(l)'
      BY <1>1, <2>1, <2>3, <3>2, <3>3 DEF LegInv, Single
    <3>7. Same(l)'
      BY <1>1, <2>1, <2>b, <2>d, <3>2, <3>3 DEF LegInv, Same, Logs
    <3> QED BY <3>5, <3>6, <3>7 DEF LegInv
  <2>4. CASE l # x /\ (loose' # loose \/ e.op = "buffered" \/ l \notin SameTx(x) \/ legLog' = legLog)
    <3>1. \A op \in {"buffered", "removed"} : Entry(op, l) # e
      BY <1>5, <2>4 DEF Entry
    <3>2. /\ l \in Logging("buffered")' <=> l \in Logging("buffered")
          /\ l \in Logging("removed")' <=> l \in Logging("removed")
      BY <1>4, <3>1 DEF Logging
    <3>3. (l \in Members(legLog') <=> l \in Members(legLog)) /\ OnceIn(legLog', l)
      <4>1. OnceIn(legLog, l)
        BY <2>1 DEF LegInv, Single
      <4> QED BY <1>1, <1>5, <1>7, <1>8, <1>9, <2>4, <4>1
    <3>4. (l \in Candidate' <=> l \in Candidate) /\ (Used(l)' <=> Used(l))
      BY <1>1, <2>2, <3>2, <3>3 DEF Candidate, Used
    <3>5. Fresh(l)' /\ Apart(l)'
      BY <1>1, <1>6, <2>1, <2>2, <3>2, <3>3, <3>4 DEF LegInv, Fresh, Apart
    <3>6. Single(l)' /\ Same(l)'
      BY <1>1, <2>1, <2>3, <2>a, <3>2, <3>3 DEF LegInv, Single, Same, Logs
    <3> QED BY <3>5, <3>6 DEF LegInv
  <2>5. CASE l = x /\ e.op = "buffered"
    <3>1. legLog' = Append(legLog, x)
      BY <1>1, <1>7, <1>12, <2>5
    <3>2. /\ l \in Logging("buffered") /\ l \notin Members(legLog) /\ l \notin Logging("removed")
          /\ OnceIn(todo.entries, e)
      BY <1>4, <1>5, <2>1, <2>5 DEF Logging, LegInv, Single
    <3>3. l \notin Logging("buffered")' /\ l \notin Logging("removed")'
      BY <1>4, <1>5, <2>5, <3>2 DEF Logging
    <3>4. l \in Members(legLog') /\ OnceIn(legLog', l)
      BY <1>8, <2>1, <2>5, <3>1, <3>2 DEF LegInv, Single
    <3>5. l \in Candidate /\ ~InFinding(l) /\ Used(l)
      BY <2>1, <3>2 DEF Candidate, LegInv, Apart, Used
    <3>6. Fresh(l)'
      BY <1>1, <2>1, <2>2, <3>5 DEF LegInv, Fresh
    <3>7. Apart(l)'
      <4>1. \A f \in published : l \notin found[f]
        BY <3>5 DEF InFinding, Alive
      <4> QED BY <1>1, <1>6, <2>1, <2>2, <3>5, <4>1 DEF LegInv, Apart
    <3>8. Single(l)' /\ Same(l)'
      BY <1>1, <2>1, <2>3, <2>a, <3>2, <3>3, <3>4 DEF LegInv, Single, Same, Logs
    <3> QED BY <3>6, <3>7, <3>8 DEF LegInv
  <2>6. CASE l = x /\ e.op = "removed"
    <3>1. legLog' = Sift(legLog, Leg \ SameTx(x))
      BY <1>1, <1>7, <1>12, <2>6
    <3>2. l \in Logging("removed") /\ l \notin Logging("buffered")
      BY <1>4, <1>5, <2>1, <2>6 DEF Logging, LegInv, Single
    <3>3. l \notin Logging("buffered")'
      BY <1>4, <3>2 DEF Logging
    <3>4. l \notin Members(legLog') /\ OnceIn(legLog', l)
      BY <1>9, <2>1, <2>c, <2>6, <3>1 DEF LegInv, Single
    <3>5. (l \in Candidate' <=> l \in Candidate) /\ (Used(l)' => Used(l))
      BY <1>1, <2>2, <3>2, <3>3, <3>4 DEF Candidate, Used
    <3>6. Fresh(l)' /\ Apart(l)'
      BY <1>1, <1>6, <2>1, <2>2, <3>4, <3>5 DEF LegInv, Fresh, Apart
    <3>7. Single(l)' /\ Same(l)'
      BY <1>1, <2>1, <2>3, <2>b, <2>c, <2>6, <3>2, <3>3, <3>4 DEF LegInv, Single, Same, Logs
    <3> QED BY <3>6, <3>7 DEF LegInv
  <2> QED BY <1>1, <1>5, <1>7, <2>d, <2>4, <2>5, <2>6
<1> QED BY <1>11, <1>12 DEF JoinInv

\* A step of the finding, after the last changelog entry.
LEMMA JoinDoing ==
    ASSUME JoinInv, StepsInv, NEW op, Doing(op),
           published' \subseteq published \cup {Len(found)}, published \subseteq published',
           now' = now, channel' = channel, buffer' = buffer, legLog' = legLog,
           found' = found, loose' = loose, shadowed' = shadowed, high' = high, pos' = pos,
           floor' = floor
    PROVE  JoinInv'
<1>1. todo.entries = << >> /\ todo.steps # << >> /\ todo'.entries = << >>
  <2>1. todo = [entries |-> todo.entries, steps |-> todo.steps]
    BY DEF StepsInv
  <2> QED BY <2>1 DEF Doing
<1>2. Alive' \subseteq Alive /\ published' \subseteq Alive
  BY <1>1 DEF Alive
<1>3. Members(<< >>) = {}
  BY EmptyFacts
<1>4. \A o : Logging(o) = {} /\ Logging(o)' = {}
  BY <1>1, <1>3 DEF Logging
<1>5. JoinTypes'
  BY <1>1 DEF JoinInv, JoinTypes
<1>6. ASSUME NEW l \in Leg, LegInv(l) PROVE LegInv(l)'
  <2>1. (InFinding(l)' => InFinding(l)) /\ (Ahead(l)' <=> Ahead(l))
    BY <1>2 DEF InFinding, Ahead
  <2>2. Candidate' = Candidate /\ (Used(l)' => Used(l))
    BY <1>4, <2>1 DEF Candidate, Used
  <2>3. Fresh(l)'
    BY <1>6, <2>1, <2>2 DEF LegInv, Fresh
  <2>4. l \in Members(legLog) => ~InFinding(l)
    BY <1>4, <1>6 DEF LegInv, Apart
  <2>5. Apart(l)'
    <3>1. l \in Members(legLog) => \A f \in published' : l \notin found[f]
      BY <1>2, <2>4 DEF InFinding
    <3> QED BY <1>2, <1>6, <2>1, <2>2, <2>4, <3>1 DEF LegInv, Apart
  <2>6. Single(l)' /\ Same(l)'
    BY <1>1, <1>4, <1>6 DEF LegInv, Single, Same, Logs
  <2> QED BY <2>3, <2>5, <2>6 DEF LegInv
<1> QED BY <1>5, <1>6 DEF JoinInv

\* A new process begins with what the changelog replays.
LEMMA JoinBoot ==
    ASSUME JoinInv, Boot
    PROVE  JoinInv'
<1> DEFINE b == Seed(legLog)
<1>1. /\ channel' = << >> /\ todo' = Idle
      /\ buffer' = EvictExpired(b, now)
      /\ loose' = loose \cup (Members(legLog) \ Members(b.legs))
      /\ now' = now /\ high' = high /\ legLog' = legLog /\ found' = found
      /\ published' = published
  BY DEF Boot, output
<1>2. PICK p \in [Chain -> UNION {Committed(c) : c \in Chain}] :
         (\A c \in Chain : p[c] \in floor[c]..pos[c]) /\ pos' = p /\ floor' = p
  BY DEF Boot, Committed
<1>3. /\ legLog \in Seq(Leg) /\ now \in Nat
      /\ pos \in [Chain -> Nat] /\ floor \in [Chain -> Nat] /\ high \in [Chain -> Nat]
      /\ \A c \in Chain : floor[c] <= pos[c] /\ pos[c] <= high[c]
  BY DEF JoinInv, JoinTypes
<1>4. /\ pos' \in [Chain -> Nat] /\ floor' \in [Chain -> Nat]
      /\ \A c \in Chain : floor'[c] <= pos'[c] /\ pos'[c] <= high'[c]
  <2>1. ASSUME NEW c \in Chain PROVE p[c] \in Nat /\ p[c] <= high[c]
    <3>1. floor[c] \in Nat /\ pos[c] \in Nat /\ high[c] \in Nat /\ pos[c] <= high[c]
      BY <1>3
    <3>2. p[c] \in floor[c]..pos[c]
      BY <1>2
    <3> QED BY <3>1, <3>2
  <2> QED BY <1>1, <1>2, <2>1
<1>5. /\ b \in Buffers(Leg)
      /\ Members(b.legs) \subseteq Members(legLog)
      /\ \A x : OnceIn(legLog, x) => OnceIn(b.legs, x)
  BY <1>3, SeedFacts
<1> HIDE DEF b
<1>6. /\ buffer' \in Buffers(Leg)
      /\ Members(buffer'.legs) = Members(b.legs) \ Stale(now)
      /\ \A x : OnceIn(b.legs, x) => OnceIn(buffer'.legs, x)
  BY <1>1, <1>5, ExpiryFacts
<1>7. todo'.entries = << >> /\ todo'.steps = << >>
  BY <1>1 DEF Idle
<1>8. Members(<< >>) = {} /\ \A x : OnceIn(<< >>, x)
  BY EmptyFacts
<1>9. \A o : Logging(o)' = {}
  BY <1>7, <1>8 DEF Logging
<1>10. Alive' = published /\ published \subseteq Alive
  BY <1>1, <1>7 DEF Alive
<1>11. Candidate' \subseteq Members(legLog)
  BY <1>5, <1>6, <1>9 DEF Candidate
<1>12. JoinTypes'
  <2>1. channel' \in Seq(Leg) /\ todo'.entries \in Seq(EntryType)
    BY <1>1, <1>7, EmptyFacts
  <2> QED BY <1>1, <1>3, <1>4, <1>6, <2>1 DEF JoinInv, JoinTypes
<1>13. ASSUME NEW l \in Leg, l \notin loose' PROVE LegInv(l)'
  <2>1. LegInv(l)
    BY <1>1, <1>13 DEF JoinInv
  <2>2. (InFinding(l)' => InFinding(l)) /\ (Ahead(l)' <=> Ahead(l))
    BY <1>1, <1>10 DEF InFinding, Ahead
  <2>3. Used(l)' => Used(l)
    BY <1>1, <1>11, <2>2 DEF Used
  <2>4. Fresh(l)'
    BY <1>1, <1>8, <2>1, <2>2, <2>3 DEF LegInv, Fresh
  <2>5. l \in Members(legLog) => ~InFinding(l)'
    BY <1>1, <1>10, <2>1 DEF LegInv, Apart, InFinding
  <2>6. Apart(l)'
    BY <1>1, <1>10, <1>11, <2>1, <2>5 DEF LegInv, Apart
  <2>7. Single(l)'
    BY <1>1, <1>5, <1>6, <1>7, <1>8, <1>9, <2>1 DEF LegInv, Single
  <2>8. Same(l)'
    <3>1. l \in Members(legLog) <=> l \in Members(b.legs)
      BY <1>1, <1>5, <1>13
    <3>2. ~Expired(l, now) => l \notin Stale(now)
      BY DEF Stale
    <3>3. Dropped(todo'.entries) = {}
      BY <1>7, <1>8 DEF Dropped
    <3> QED BY <1>1, <1>5, <1>6, <1>9, <3>1, <3>2, <3>3 DEF Same, Logs
  <2> QED BY <2>4, <2>6, <2>7, <2>8 DEF LegInv
<1> QED BY <1>12, <1>13 DEF JoinInv

LEMMA JoinNext == JoinInv /\ FollowInv /\ [Next]_vars => JoinInv'
<1> SUFFICES ASSUME JoinInv, FollowInv, [Next]_vars PROVE JoinInv'
  OBVIOUS
<1>0. StepsInv
  BY DEF FollowInv
<1>1. /\ now \in Nat /\ pos \in [Chain -> Nat] /\ floor \in [Chain -> Nat]
      /\ high \in [Chain -> Nat]
      /\ \A c \in Chain : floor[c] <= pos[c] /\ pos[c] <= high[c]
  BY DEF JoinInv, JoinTypes
<1>2. CASE Tick \/ Shutdown \/ FinalityConsumer \/ UNCHANGED vars
  <2>1. /\ now' \in {now, now + 1} /\ channel' = channel /\ buffer' = buffer /\ todo' = todo
        /\ legLog' = legLog /\ found' = found /\ published' = published /\ high' = high
        /\ loose' = loose /\ pos' = pos /\ floor' = floor /\ shadowed' = shadowed
    BY <1>2 DEF Tick, Shutdown, FinalityConsumer, TakeFate, JournalFate, ApplyFate,
                RetractFinding, vars, input, actor, output
  <2>2. now' \in Nat /\ now <= now'
    BY <1>1, <2>1
  <2> QED BY <1>1, <2>1, <2>2, JoinQuiet
<1>3. ASSUME NEW c \in Chain, Rebalance(c) PROVE JoinInv'
  <2>1. /\ now' = now /\ channel' = channel /\ buffer' = buffer /\ todo' = todo
        /\ legLog' = legLog /\ found' = found /\ published' = published /\ high' = high
        /\ loose' = loose /\ shadowed' = shadowed
    BY <1>3 DEF Rebalance, actor, output
  <2>2. PICK p \in floor[c]..pos[c] :
           pos' = [pos EXCEPT ![c] = p] /\ floor' = [floor EXCEPT ![c] = p]
    BY <1>3 DEF Rebalance, Committed
  <2>3. /\ pos' \in [Chain -> Nat] /\ floor' \in [Chain -> Nat]
        /\ \A d \in Chain : floor'[d] <= pos'[d] /\ pos'[d] <= high[d]
    BY <1>1, <2>2
  <2>4. now' \in Nat /\ now <= now'
    BY <1>1, <2>1
  <2> QED BY <2>1, <2>3, <2>4, JoinQuiet
<1>4. CASE OnLeg
  BY <1>4, JoinMatch, JoinBuffer
<1>5. CASE AppendEntry
  BY <1>0, <1>5, JoinAppend
<1>6. CASE RecordFinding \/ TrackFinding \/ PublishFinding
  <2>1. PICK op : Doing(op)
    BY <1>6 DEF RecordFinding, TrackFinding, PublishFinding
  <2>2. /\ published' \subseteq published \cup {Len(found)} /\ published \subseteq published'
        /\ now' = now /\ channel' = channel /\ buffer' = buffer /\ legLog' = legLog
        /\ found' = found /\ loose' = loose /\ shadowed' = shadowed /\ high' = high /\ pos' = pos /\ floor' = floor
    BY <1>6 DEF RecordFinding, TrackFinding, PublishFinding, input, output
  <2> QED BY <1>0, <2>1, <2>2, JoinDoing
<1>7. CASE Restart \/ Crash
  BY <1>7, JoinBoot DEF Restart, Crash
<1>8. ASSUME NEW c \in Chain, Deliver(c) PROVE JoinInv'
  BY <1>8, JoinDeliver
<1> QED BY <1>2, <1>3, <1>4, <1>5, <1>6, <1>7, <1>8 DEF Next, Actor

LEMMA JoinInvariant == Spec => [](JoinInv /\ FollowInv)
<1>1. Init => JoinInv /\ FollowInv
  BY JoinInit, FollowInit
<1>2. JoinInv /\ FollowInv /\ [Next]_vars => (JoinInv /\ FollowInv)'
  BY JoinNext, FollowNext
<1> QED BY <1>1, <1>2, PTL DEF Spec

\* A leg counts in one published finding only, whatever is redelivered and
\* wherever a crash falls, unless it is loose (actor.rs, join.rs).
THEOREM LegsOnce == Spec => []LegsJoinOnce
<1>1. JoinInv /\ FollowInv => LegsJoinOnce
  <2> SUFFICES ASSUME JoinInv, FollowInv, NEW f \in published, NEW g \in published, f # g,
                      NEW l \in found[f] \cap found[g]
               PROVE  l \in loose
    BY DEF LegsJoinOnce
  <2>1. l \in Leg /\ f \in Alive /\ g \in Alive
    BY DEF JoinInv, JoinTypes, FollowInv, FoundInv, Alive
  <2> QED BY <2>1 DEF JoinInv, LegInv, Apart
<1> QED BY <1>1, JoinInvariant, PTL

\* Between two legs a replay of the changelog brings back no leg that was joined
\* or evicted, and every candidate but those whose hash another leg took out with
\* it, legs past the window and loose ones, whatever legs share a transaction
\* (buffer.rs, changelog.rs).
THEOREM ReplayRestores == Spec => []ReplayRestoresBuffer
<1>1. JoinInv /\ FollowInv => ReplayRestoresBuffer
  <2> SUFFICES ASSUME JoinInv, todo = Idle, NEW l \in Leg \ loose, ~Expired(l, now)
               PROVE  /\ Held(legLog, l) => Held(buffer.legs, l)
                      /\ Held(buffer.legs, l) => Held(legLog, l) \/ l \in shadowed
    BY DEF ReplayRestoresBuffer
  <2>1. Logging("buffered") = {} /\ Logging("removed") = {}
    BY JoinIdle
  <2> QED BY <2>1 DEF JoinInv, LegInv, Same, Logs, Held
<1> QED BY <1>1, JoinInvariant, PTL
==============================================================================
