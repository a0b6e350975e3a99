----------------------------- MODULE PlanProofs -----------------------------
(***************************************************************************)
(* Proofs about the planner: whatever the services and however they depend  *)
(* on one another, the waves layer them and the plan has every operation in *)
(* its place.  An operation that repeats a step (a round of Kahn's           *)
(* algorithm, a piece appended) is unrolled by LeastNatural: the first       *)
(* place where a claim about it fails cannot be there.                      *)
(***************************************************************************)
EXTENDS ComposeLaws, FiniteSetTheorems, WellFoundedInduction, TLAPS
-----------------------------------------------------------------------------
(* Least numbers, repeated steps, and what InOrder lists.                   *)
\* Every set of naturals with an element has a least one: what stands in for
\* induction here.
LEMMA LeastNatural ==
    ASSUME NEW S, S \subseteq Nat, S # {}
    PROVE  \E x \in S : \A y \in S : x <= y
<1>. DEFINE R == OpToRel(<, Nat)
<1>1. IsWellFoundedOn(R, Nat) BY NatLessThanWellFounded
<1>2. PICK x \in S : \A y \in S : ~(<<y, x>> \in R) BY <1>1, WFMin
<1>3. \A y \in S : ~(y < x) BY <1>2 DEF OpToRel
<1>. QED BY <1>3

\* Min picks the least of a set of naturals.
LEMMA MinIsLeast ==
    ASSUME NEW S, S \subseteq Nat, S # {}
    PROVE  Min(S) \in S /\ \A y \in S : Min(S) <= y
<1>1. \E x \in S : \A y \in S : x <= y BY LeastNatural
<1>. QED BY <1>1 DEF Min

\* The first of some places, or none.
LEMMA FirstPlace ==
    ASSUME NEW n \in Nat, NEW I, I \subseteq 1..n, NEW k, k = IF I # {} THEN Min(I) ELSE 0
    PROVE  /\ k \in 0..n /\ (k = 0 <=> I = {})
           /\ k # 0 => k \in I /\ k \in 1..n /\ \A y \in I : k <= y
<1>1. CASE I = {}
  <2>1. k = 0 BY <1>1, Zenon
  <2>2. 0 \in 0..n OBVIOUS
  <2>3. k \in 0..n BY <2>1, <2>2, Zenon
  <2>. QED BY <1>1, <2>1, <2>3, Zenon
<1>2. CASE I # {}
  <2>1. I \subseteq Nat OBVIOUS
  <2>2. Min(I) \in I /\ \A y \in I : Min(I) <= y BY <1>2, <2>1, MinIsLeast
  <2>3. k = Min(I) BY <1>2, Zenon
  <2>4. k \in I /\ \A y \in I : k <= y BY <2>2, <2>3, Zenon
  <2>5. k \in 1..n BY <2>4
  <2>6. k \in 0..n /\ k # 0 BY <2>5
  <2>. QED BY <1>2, <2>4, <2>5, <2>6, Zenon
<1>. QED BY <1>1, <1>2

Iterates(f, z, F) == f[0] = z /\ \A n \in Nat : f[n + 1] = F[<<n, f[n]>>]
\* Starting from z and going on with F, one comes through a sequence of values.
LEMMA Iteration ==
    ASSUME NEW S, NEW z \in S, NEW F \in [Nat \X S -> S]
    PROVE  \E f \in [Nat -> S] : Iterates(f, z, F)
<1>. DEFINE Goes(g, n) == g[0] = z /\ \A i \in 0..(n - 1) : g[i + 1] = F[<<i, g[i]>>]
            A == [n \in Nat |-> {g \in [0..n -> S] : Goes(g, n)}]
<1>1. \A n \in Nat : A[n] # {}
  <2>. DEFINE B == {n \in Nat : A[n] = {}}
  <2>1. SUFFICES ASSUME B # {} PROVE FALSE OBVIOUS
  <2>2. PICK n \in B : \A m \in B : n <= m BY <2>1, LeastNatural
  <2>3. CASE n = 0
    <3>1. [i \in 0..0 |-> z] \in A[0] OBVIOUS
    <3>. QED BY <2>3, <3>1
  <2>4. CASE n # 0
    <3>1. n \in Nat /\ n - 1 \in Nat /\ ~(n <= n - 1) BY <2>4
    <3>0. n - 1 \notin B BY <3>1, <2>2
    <3>2. PICK g : g \in A[n - 1] BY <3>0, <3>1
    <3>3. g \in [0..(n - 1) -> S] /\ Goes(g, n - 1) BY <3>1, <3>2
    <3>. DEFINE h == [i \in 0..n |-> IF i = n THEN F[<<n - 1, g[n - 1]>>] ELSE g[i]]
    <3>4. g[n - 1] \in S BY <3>1, <3>3
    <3>5. F[<<n - 1, g[n - 1]>>] \in S BY <3>1, <3>4
    <3>6. h \in [0..n -> S] BY <3>3, <3>5, <3>1
    <3>7. h[0] = z BY <3>3, <2>4
    <3>8. ASSUME NEW i \in 0..(n - 1) PROVE h[i + 1] = F[<<i, h[i]>>]
      <4>1. CASE i = n - 1 BY <4>1, <3>1
      <4>2. CASE i # n - 1 BY <4>2, <3>3, <3>1
      <4>. QED BY <4>1, <4>2
    <3>9. h \in A[n] BY <3>6, <3>7, <3>8
    <3>. QED BY <3>9
  <2>. QED BY <2>3, <2>4
<1>2. \A m, n \in Nat, i \in Nat : \A g \in A[m], h \in A[n] : i <= m /\ i <= n => g[i] = h[i]
  <2>. SUFFICES ASSUME NEW m \in Nat, NEW n \in Nat, NEW g \in A[m], NEW h \in A[n]
                PROVE  \A i \in Nat : i <= m /\ i <= n => g[i] = h[i]
    <3>. HIDE DEF A
    <3>. QED OBVIOUS
  <2>. DEFINE B == {i \in Nat : i <= m /\ i <= n /\ g[i] # h[i]}
  <2>1. SUFFICES ASSUME B # {} PROVE FALSE OBVIOUS
  <2>2. PICK i \in B : \A k \in B : i <= k BY <2>1, LeastNatural
  <2>3. Goes(g, m) /\ Goes(h, n) OBVIOUS
  <2>4. i # 0 BY <2>2, <2>3
  <2>5. i - 1 \in Nat /\ i - 1 \notin B BY <2>2, <2>4
  <2>6. g[i - 1] = h[i - 1] BY <2>5, <2>2
  <2>7. g[(i - 1) + 1] = F[<<i - 1, g[i - 1]>>] /\ h[(i - 1) + 1] = F[<<i - 1, h[i - 1]>>]
    BY <2>3, <2>5, <2>2
  <2>. QED BY <2>6, <2>7, <2>2
<1>. DEFINE G == [n \in Nat |-> CHOOSE g \in A[n] : TRUE]
            f == [n \in Nat |-> G[n][n]]
<1>3. \A n \in Nat : G[n] \in A[n] BY <1>1
<1>. HIDE DEF G
<1>4. f \in [Nat -> S] BY <1>3
<1>5. f[0] = z BY <1>3
<1>6. ASSUME NEW n \in Nat PROVE f[n + 1] = F[<<n, f[n]>>]
  <2>1. G[n + 1][n + 1] = F[<<n, G[n + 1][n]>>]
    <3>1. n + 1 \in Nat /\ n \in 0..((n + 1) - 1) OBVIOUS
    <3>2. G[n + 1] \in A[n + 1] BY <1>3, <3>1
    <3>3. \A i \in 0..((n + 1) - 1) : G[n + 1][i + 1] = F[<<i, G[n + 1][i]>>] BY <3>1, <3>2
    <3>. QED BY <3>1, <3>3
  <2>2. G[n + 1] \in A[n + 1] /\ G[n] \in A[n] /\ n + 1 \in Nat /\ n <= n + 1 /\ n <= n BY <1>3
  <2>. HIDE DEF A
  <2>3. G[n + 1][n] = G[n][n] BY <1>2, <2>2
  <2>. QED BY <2>1, <2>3
<1>. QED BY <1>4, <1>5, <1>6 DEF Iterates

\* The elements of a set of naturals one after the other, each once.
LEMMA InOrderEnumerates ==
    ASSUME NEW S, S \subseteq Nat, IsFiniteSet(S)
    PROVE  /\ InOrder(S) \in Seq(S) /\ DOMAIN InOrder(S) = 1..Cardinality(S)
           /\ Len(InOrder(S)) = Cardinality(S) /\ Cardinality(S) \in Nat
           /\ \A i, j \in DOMAIN InOrder(S) : i < j => InOrder(S)[i] < InOrder(S)[j]
           /\ \A x \in S : \E i \in DOMAIN InOrder(S) : InOrder(S)[i] = x
<1>. DEFINE n == Cardinality(S)
            Below(x) == {y \in S : y < x}
            rank == [x \in S |-> Cardinality(Below(x))]
<1>1. n \in Nat BY FS_CardinalityType
<1>2. ASSUME NEW x \in S PROVE rank[x] \in 0..(n - 1)
  <2>1. IsFiniteSet(Below(x)) /\ Cardinality(Below(x)) <= n
          /\ (n = Cardinality(Below(x)) => S = Below(x))
    BY FS_Subset
  <2>2. S # Below(x) OBVIOUS
  <2>3. Cardinality(Below(x)) \in Nat BY <2>1, FS_CardinalityType
  <2>. QED BY <1>1, <2>1, <2>2, <2>3
<1>3. ASSUME NEW x \in S, NEW y \in S, x < y PROVE rank[x] < rank[y]
  <2>1. IsFiniteSet(Below(y))
    <3>1. Below(y) \in SUBSET S OBVIOUS
    <3>2. \A T \in SUBSET S : IsFiniteSet(T) BY FS_Subset
    <3>. QED BY <3>1, <3>2
  <2>2. Below(x) \in SUBSET Below(y)
    <3>1. \A w \in S : w < x => w < y BY <1>3
    <3>. QED BY <3>1
  <2>3. Below(x) # Below(y) BY <1>3
  <2>4. Cardinality(Below(x)) <= Cardinality(Below(y))
          /\ (Cardinality(Below(y)) = Cardinality(Below(x)) => Below(y) = Below(x))
    BY <2>1, <2>2, FS_Subset
  <2>. QED BY <2>3, <2>4, <1>2
<1>4. rank \in Injection(S, 0..(n - 1))
  <2>1. rank \in [S -> 0..(n - 1)] BY <1>2
  <2>2. \A x, y \in S : rank[x] = rank[y] => x = y
    <3>1. \A x, y \in S : x < y => rank[x] < rank[y] BY <1>3
    <3>2. \A x, y \in S : x < y \/ y < x \/ x = y OBVIOUS
    <3>3. \A x \in S : rank[x] \in Int BY <1>2
    <3>. HIDE DEF rank
    <3>. QED BY <3>1, <3>2, <3>3
  <2>. HIDE DEF rank, n
  <2>3. IsInjective(rank) BY <2>1, <2>2 DEF IsInjective
  <2>. QED BY <2>1, <2>3 DEF Injection
<1>5. IsFiniteSet(0..(n - 1)) /\ Cardinality(0..(n - 1)) = n 
  <2>. HIDE DEF n
  <2>1. 0 \in Int /\ n - 1 \in Int /\ n = IF 0 > n - 1 THEN 0 ELSE (n - 1) - 0 + 1 BY <1>1
  <2>. QED BY <2>1, FS_Interval
<1>6. rank \in Surjection(S, 0..(n - 1)) 
  <2>. DEFINE T == 0..(n - 1)
  <2>1. rank \in Injection(S, T) /\ IsFiniteSet(T) /\ Cardinality(S) = Cardinality(T)
    BY <1>4, <1>5
  <2>. HIDE DEF rank, T
  <2>2. rank \in Surjection(S, T) BY <2>1, FS_Injection
  <2>. QED BY <2>2 DEF T
<1>7. \A i \in 1..n : \E x \in S : rank[x] = i - 1 
  <2>1. \A t \in 0..(n - 1) : \E x \in S : rank[x] = t BY <1>6 DEF Surjection
  <2>2. \A i \in 1..n : i - 1 \in 0..(n - 1) BY <1>1
  <2>. HIDE DEF rank, n
  <2>. QED BY <2>1, <2>2
<1>8. \A i \in 1..n : InOrder(S)[i] \in S /\ rank[InOrder(S)[i]] = i - 1
  <2>. SUFFICES ASSUME NEW i \in 1..n PROVE InOrder(S)[i] \in S /\ rank[InOrder(S)[i]] = i - 1
       OBVIOUS
  <2>1. \E x \in S : Cardinality({y \in S : y < x}) = i - 1 BY <1>7
  <2>2. InOrder(S)[i] = CHOOSE x \in S : Cardinality({y \in S : y < x}) = i - 1 BY DEF InOrder
  <2>. QED BY <2>1, <2>2
<1>9. DOMAIN InOrder(S) = 1..n BY DEF InOrder
<1>10. InOrder(S) \in Seq(S) /\ Len(InOrder(S)) = n
  <2>1. InOrder(S) \in [1..n -> S] BY <1>8, <1>9 DEF InOrder
  <2>. QED BY <2>1, <1>1
<1>11. ASSUME NEW i \in 1..n, NEW j \in 1..n, i < j PROVE InOrder(S)[i] < InOrder(S)[j]
  <2>1. InOrder(S)[i] \in S /\ InOrder(S)[j] \in S BY <1>8
  <2>2. InOrder(S)[j] < InOrder(S)[i] => rank[InOrder(S)[j]] < rank[InOrder(S)[i]] BY <1>3, <2>1
  <2>3. rank[InOrder(S)[j]] = j - 1 /\ rank[InOrder(S)[i]] = i - 1 BY <1>8
  <2>4. InOrder(S)[j] \in Nat /\ InOrder(S)[i] \in Nat BY <2>1
  <2>. HIDE DEF rank, n
  <2>. QED BY <2>2, <2>3, <2>4, <1>11, <1>1
<1>12. ASSUME NEW x \in S PROVE \E i \in 1..n : InOrder(S)[i] = x
  <2>. DEFINE i == rank[x] + 1
  <2>1. i \in 1..n BY <1>1, <1>2
  <2>2. rank[InOrder(S)[i]] = rank[x] /\ InOrder(S)[i] \in S BY <1>2, <1>8, <2>1
  <2>3. InOrder(S)[i] = x BY <2>2, <1>4 DEF Injection, IsInjective
  <2>. QED BY <2>1, <2>3
<1>. QED BY <1>1, <1>9, <1>10, <1>11, <1>12
-----------------------------------------------------------------------------
(* Flattening: where the elements of the pieces come to stand.              *)
\* What never falls from one place to the next never falls.
LEMMA NeverFalls ==
    ASSUME NEW n \in Nat, NEW off \in [0..n -> Nat], \A k \in 1..n : off[k - 1] <= off[k]
    PROVE  \A a, b \in 0..n : a <= b => off[a] <= off[b]
<1>. SUFFICES ASSUME NEW a \in 0..n PROVE \A b \in 0..n : a <= b => off[a] <= off[b]
  OBVIOUS
<1>. DEFINE B == {b \in 0..n : a <= b /\ ~(off[a] <= off[b])}
<1>1. SUFFICES ASSUME B # {} PROVE FALSE OBVIOUS
<1>2. B \subseteq Nat OBVIOUS
<1>3. PICK b \in B : \A c \in B : b <= c BY <1>1, <1>2, LeastNatural
<1>4. b # a OBVIOUS
<1>5. b \in 1..n /\ b - 1 \in 0..n /\ a <= b - 1 /\ ~(b <= b - 1) BY <1>3, <1>4
<1>6. off[a] <= off[b - 1] BY <1>5, <1>3
<1>. QED BY <1>3, <1>5, <1>6

\* What has reached p reached it at some place for the first time.
LEMMA Reaches ==
    ASSUME NEW n \in Nat, NEW off \in [0..n -> Nat], off[0] = 0, NEW p \in 1..off[n]
    PROVE  \E k \in 1..n : off[k - 1] < p /\ p <= off[k]
<1>. DEFINE B == {k \in 0..n : p <= off[k]}
<1>1. B # {} /\ B \subseteq Nat OBVIOUS
<1>2. PICK k \in B : \A c \in B : k <= c BY <1>1, LeastNatural
<1>3. k # 0 OBVIOUS
<1>4. k \in 1..n /\ k - 1 \in 0..n /\ ~(k <= k - 1) BY <1>2, <1>3
<1>5. k - 1 \notin B BY <1>4, <1>2
<1>. QED BY <1>2, <1>4, <1>5

\* The element j of piece k of a flattened sequence is at place off[k - 1] + j.
Offsets(seqs, off) ==
    /\ off \in [0..Len(seqs) -> Nat] /\ off[0] = 0
    /\ \A k \in 1..Len(seqs) : off[k] = off[k - 1] + Len(seqs[k])
\* FlattenSeq appends one piece after the other.
Appends(seqs, f) == f[0] = <<>> /\ \A i \in 1..Len(seqs) : f[i] = f[i - 1] \o seqs[i]
LEMMA FlattenAppends ==
    ASSUME NEW E, NEW seqs \in Seq(Seq(E))
    PROVE  \E f \in [Nat -> Seq(E)] : Appends(seqs, f) /\ FlattenSeq(seqs) = f[Len(seqs)]
<1>. DEFINE n == Len(seqs)
<1>1. n \in Nat /\ \A k \in 1..n : seqs[k] \in Seq(E) /\ Len(seqs[k]) \in Nat OBVIOUS
<1>2. CASE n = 0
  <2>. DEFINE f == [i \in Nat |-> <<>>]
  <2>1. FlattenSeq(seqs) = <<>> BY <1>2 DEF FlattenSeq
  <2>2. f \in [Nat -> Seq(E)] /\ f[0] = <<>> /\ f[n] = <<>> BY <1>1
  <2>3. \A i : i \notin 1..n BY <1>2
  <2>. HIDE DEF f
  <2>. QED BY <2>1, <2>2, <2>3 DEF Appends
<1>3. CASE n # 0
  <2>. DEFINE F == [p \in Nat \X Seq(E) |-> IF p[1] < n THEN p[2] \o seqs[p[1] + 1] ELSE p[2]]
  <2>1. F \in [Nat \X Seq(E) -> Seq(E)]
    <3>1. ASSUME NEW p \in Nat \X Seq(E)
          PROVE (IF p[1] < n THEN p[2] \o seqs[p[1] + 1] ELSE p[2]) \in Seq(E)
      <4>1. p[1] < n => p[1] + 1 \in 1..n BY <1>1
      <4>. QED BY <4>1, <1>1
    <3>. QED BY <3>1
  <2>2. <<>> \in Seq(E) OBVIOUS
  <2>. HIDE DEF n
  <2>3. PICK f \in [Nat -> Seq(E)] : f[0] = <<>> /\ \A i \in Nat : f[i + 1] = F[<<i, f[i]>>]
    <3>. DEFINE S == Seq(E)  z == <<>>
    <3>1. z \in S /\ F \in [Nat \X S -> S] BY <2>1, <2>2
    <3>. HIDE DEF F, S, z
    <3>2. \E f \in [Nat -> S] : Iterates(f, z, F) BY <3>1, Iteration
    <3>. QED BY <3>2 DEF S, z, Iterates
  <2>4. \A i \in 1..n : f[i] = f[i - 1] \o seqs[i]
    <3>. SUFFICES ASSUME NEW i \in 1..n PROVE f[i] = f[i - 1] \o seqs[i] OBVIOUS
    <3>1. i - 1 \in Nat /\ i - 1 < n /\ (i - 1) + 1 = i BY <1>1
    <3>2. f[(i - 1) + 1] = F[<<i - 1, f[i - 1]>>] BY <2>3, <3>1
    <3>3. f[i - 1] \in Seq(E) BY <2>3, <3>1
    <3>4. F[<<i - 1, f[i - 1]>>] = f[i - 1] \o seqs[(i - 1) + 1] BY <3>1, <3>3
    <3>. QED BY <3>1, <3>2, <3>4
  <2>. HIDE DEF F
  <2>. DEFINE Eqn(g) == g = [i \in 1..n |-> IF i = 1 THEN seqs[i] ELSE g[i - 1] \o seqs[i]]
              c == CHOOSE g : Eqn(g)
              h == [i \in 1..n |-> f[i]]
  <2>5. Eqn(h)
    <3>1. \A i \in 1..n : h[i] = IF i = 1 THEN seqs[i] ELSE h[i - 1] \o seqs[i]
      <4>. SUFFICES ASSUME NEW i \in 1..n
                    PROVE h[i] = IF i = 1 THEN seqs[i] ELSE h[i - 1] \o seqs[i]
        OBVIOUS
      <4>1. i = 1 => f[i] = seqs[i]
        <5>1. \A s \in Seq(E) : <<>> \o s = s OBVIOUS
        <5>2. i = 1 => f[i - 1] = <<>> BY <2>3
        <5>3. f[i] = f[i - 1] \o seqs[i] /\ seqs[i] \in Seq(E) BY <2>4, <1>1
        <5>. QED BY <5>1, <5>2, <5>3
      <4>2. i # 1 => i - 1 \in 1..n /\ h[i - 1] = f[i - 1] BY <1>1
      <4>. QED BY <4>1, <4>2, <2>4
    <3>. QED BY <3>1
  <2>. HIDE DEF h
  <2>6. Eqn(c) BY <2>5
  <2>7. FlattenSeq(seqs) = c[n] BY <1>3 DEF FlattenSeq, n
  <2>. HIDE DEF c
  <2>8. \A i \in 1..n : c[i] = IF i = 1 THEN seqs[i] ELSE c[i - 1] \o seqs[i] BY <2>6
  <2>9. \A i \in 1..n : c[i] = f[i]
    <3>. DEFINE B == {i \in 1..n : c[i] # f[i]}
    <3>1. SUFFICES ASSUME B # {} PROVE FALSE OBVIOUS
    <3>2. B \subseteq Nat BY <1>1
    <3>3. PICK i \in B : \A k \in B : i <= k BY <3>1, <3>2, LeastNatural
    <3>4. CASE i = 1
      <4>1. c[i] = seqs[i] BY <2>8, <3>4, <3>3
      <4>2. h[i] = seqs[i] BY <2>5, <3>4, <3>3
      <4>. QED BY <4>1, <4>2, <3>3 DEF h
    <3>5. CASE i # 1
      <4>1. i - 1 \in 1..n /\ ~(i <= i - 1) BY <3>5, <3>3, <1>1
      <4>2. c[i - 1] = f[i - 1] BY <4>1, <3>3
      <4>. QED BY <4>2, <2>8, <2>4, <3>3, <3>5
    <3>. QED BY <3>4, <3>5
  <2>10. FlattenSeq(seqs) = f[n] /\ f[n] \in Seq(E) BY <2>7, <2>9, <1>1, <1>3, <2>3
  <2>11. Appends(seqs, f) BY <2>3, <2>4 DEF Appends, n
  <2>. QED BY <2>10, <2>11 DEF n
<1>. QED BY <1>2, <1>3

\* FlattenSeq puts the pieces end to end: piece k begins where those before it
\* end.
LEMMA FlattenOffsets ==
    ASSUME NEW E, NEW seqs \in Seq(Seq(E))
    PROVE  /\ FlattenSeq(seqs) \in Seq(E)
           /\ \E off : /\ Offsets(seqs, off) /\ Len(FlattenSeq(seqs)) = off[Len(seqs)]
                       /\ \A k \in 1..Len(seqs) : \A j \in 1..Len(seqs[k]) :
                             FlattenSeq(seqs)[off[k - 1] + j] = seqs[k][j]
<1>. DEFINE n == Len(seqs)
<1>1. n \in Nat /\ \A k \in 1..n : seqs[k] \in Seq(E) /\ Len(seqs[k]) \in Nat OBVIOUS
<1>2. PICK f \in [Nat -> Seq(E)] : Appends(seqs, f) /\ FlattenSeq(seqs) = f[n]
  BY FlattenAppends
<1>3. f[0] = <<>> /\ \A i \in 1..n : f[i] = f[i - 1] \o seqs[i] BY <1>2 DEF Appends
<1>4. FlattenSeq(seqs) = f[n] /\ f[n] \in Seq(E) BY <1>1, <1>2
<1>. HIDE DEF n
<1>. DEFINE off == [k \in 0..n |-> Len(f[k])]
<1>5. Offsets(seqs, off)
  <2>1. \A k \in 0..n : off[k] \in Nat BY <1>2, <1>3, <1>1
  <2>2. off[0] = 0 BY <1>2, <1>3, <1>1
  <2>3. ASSUME NEW k \in 1..n PROVE off[k] = off[k - 1] + Len(seqs[k])
    <3>1. k - 1 \in 0..n /\ k \in 0..n /\ k - 1 \in Nat BY <1>1
    <3>2. f[k] = f[k - 1] \o seqs[k] /\ f[k - 1] \in Seq(E) /\ seqs[k] \in Seq(E)
      BY <1>2, <1>3, <3>1, <1>1
    <3>3. Len(f[k]) = Len(f[k - 1]) + Len(seqs[k]) BY <3>2
    <3>. QED BY <3>1, <3>3
  <2>. QED BY <2>1, <2>2, <2>3 DEF Offsets, n
<1>6. Len(FlattenSeq(seqs)) = off[n] BY <1>4, <1>1
<1>7. /\ \A k \in 0..n : off[k] = Len(f[k]) /\ off \in [0..n -> Nat]
      /\ \A k \in 1..n : off[k] = off[k - 1] + Len(seqs[k]) /\ off[k - 1] <= off[k]
  <2>1. \A k \in 0..n : off[k] = Len(f[k]) OBVIOUS
  <2>2. off \in [0..n -> Nat] /\ \A k \in 1..n : off[k] = off[k - 1] + Len(seqs[k])
    BY <1>5 DEF Offsets, n
  <2>. HIDE DEF off
  <2>3. \A k \in 1..n : k \in 0..n /\ k - 1 \in 0..n BY <1>1
  <2>4. \A k \in 1..n : off[k - 1] <= off[k]
    <3>. SUFFICES ASSUME NEW k \in 1..n PROVE off[k - 1] <= off[k] OBVIOUS
    <3>. DEFINE a == off[k - 1]  l == Len(seqs[k])
    <3>1. a \in Nat /\ l \in Nat /\ off[k] = a + l BY <2>2, <2>3, <1>1
    <3>. HIDE DEF a, l
    <3>2. a <= off[k] BY <3>1
    <3>. QED BY <3>2 DEF a
  <2>. QED BY <2>1, <2>2, <2>4
<1>. HIDE DEF off
<1>8. \A a, b \in 0..n : a <= b => off[a] <= off[b] BY <1>1, <1>7, NeverFalls
<1>9. \A k \in 1..n : \A j \in 1..Len(seqs[k]) : f[n][off[k - 1] + j] = seqs[k][j]
  <2>. SUFFICES ASSUME NEW k \in 1..n, NEW j \in 1..Len(seqs[k])
                PROVE f[n][off[k - 1] + j] = seqs[k][j]
    OBVIOUS
  <2>. DEFINE B == {m \in k..n : f[m][off[k - 1] + j] # seqs[k][j]}
  <2>0. n \in k..n BY <1>1
  <2>1. SUFFICES ASSUME B # {} PROVE FALSE BY <2>0
  <2>2. B \subseteq Nat BY <1>1
  <2>3. PICK m \in B : \A i \in B : m <= i BY <2>1, <2>2, LeastNatural
  <2>4. m \in 1..n /\ m - 1 \in 0..n /\ m - 1 \in Nat /\ k - 1 \in 0..n /\ k \in 0..n
    BY <1>1, <2>3
  <2>5. f[m] = f[m - 1] \o seqs[m] /\ f[m - 1] \in Seq(E) /\ seqs[m] \in Seq(E)
    BY <1>2, <1>3, <2>4, <1>1
  <2>6. Len(f[m - 1]) = off[m - 1] /\ off[k - 1] \in Nat /\ off[k] = off[k - 1] + Len(seqs[k])
        /\ Len(seqs[k]) \in Nat
    BY <1>7, <2>4, <1>1
  <2>7. CASE m = k
    <3>1. Len(f[m - 1]) = off[k - 1] BY <2>6, <2>7
    <3>2. \A s, t \in Seq(E) : \A i \in 1..Len(t) : (s \o t)[Len(s) + i] = t[i] OBVIOUS
    <3>3. j \in 1..Len(seqs[m]) BY <2>7
    <3>4. f[m][Len(f[m - 1]) + j] = seqs[m][j] BY <2>5, <3>2, <3>3
    <3>. QED BY <3>1, <3>4, <2>7, <2>3
  <2>8. CASE m # k
    <3>1. m - 1 \in k..n /\ k <= m - 1 /\ ~(m <= m - 1) BY <2>8, <2>3, <1>1
    <3>2. f[m - 1][off[k - 1] + j] = seqs[k][j] BY <3>1, <2>3
    <3>3. off[k] <= off[m - 1] BY <1>8, <2>4, <3>1
    <3>4. off[m - 1] \in Nat BY <1>7, <2>4
    <3>5. off[k - 1] + j \in 1..Len(f[m - 1])
      <4>. DEFINE a == off[k - 1]  b == off[m - 1]  c0 == off[k]  l == Len(seqs[k])
      <4>1. a \in Nat /\ b \in Nat /\ c0 = a + l /\ l \in Nat /\ c0 <= b /\ Len(f[m - 1]) = b
            /\ j \in 1..l
        BY <3>3, <3>4, <2>6
      <4>. HIDE DEF a, b, c0, l
      <4>2. a + j \in 1..b BY <4>1
      <4>. QED BY <4>1, <4>2 DEF a
    <3>6. \A s, t \in Seq(E) : \A i \in 1..Len(s) : (s \o t)[i] = s[i] OBVIOUS
    <3>7. f[m][off[k - 1] + j] = f[m - 1][off[k - 1] + j] BY <2>5, <3>5, <3>6
    <3>. QED BY <3>2, <3>7, <2>3
  <2>. QED BY <2>7, <2>8
<1>10. /\ Offsets(seqs, off) /\ Len(FlattenSeq(seqs)) = off[Len(seqs)]
       /\ \A k \in 1..Len(seqs) : \A j \in 1..Len(seqs[k]) :
             FlattenSeq(seqs)[off[k - 1] + j] = seqs[k][j]
  BY <1>4, <1>5, <1>6, <1>9 DEF n
<1>. QED BY <1>4, <1>10

\* Each place p of a flattened sequence shows element at[p] of piece[p]; every
\* element is shown, those of an earlier piece before those of a later one.
Spread(seqs, flat, piece, at) ==
    /\ \A p \in DOMAIN flat : /\ piece[p] \in DOMAIN seqs /\ at[p] \in DOMAIN seqs[piece[p]]
                              /\ flat[p] = seqs[piece[p]][at[p]]
    /\ \A k \in DOMAIN seqs : \A j \in DOMAIN seqs[k] :
          \E p \in DOMAIN flat : piece[p] = k /\ at[p] = j
    /\ \A p, q \in DOMAIN flat :
          p < q <=> piece[p] < piece[q] \/ (piece[p] = piece[q] /\ at[p] < at[q])

\* Each place of a flattened sequence is one place of one piece, in their order.
LEMMA FlattenSpreads ==
    ASSUME NEW E, NEW seqs \in Seq(Seq(E))
    PROVE  /\ FlattenSeq(seqs) \in Seq(E)
           /\ \E piece, at : Spread(seqs, FlattenSeq(seqs), piece, at)
<1>. DEFINE n == Len(seqs)  flat == FlattenSeq(seqs)
            len == [k \in 1..n |-> Len(seqs[k])]
<1>1. n \in Nat /\ DOMAIN seqs = 1..n OBVIOUS
<1>2. \A k \in 1..n : len[k] \in Nat /\ len[k] = Len(seqs[k]) /\ DOMAIN seqs[k] = 1..len[k]
                      /\ seqs[k] \in Seq(E)
  OBVIOUS
<1>3. flat \in Seq(E) BY FlattenOffsets
<1>4. PICK off : /\ Offsets(seqs, off) /\ Len(flat) = off[n]
                 /\ \A k \in 1..n : \A j \in 1..Len(seqs[k]) : flat[off[k - 1] + j] = seqs[k][j]
  BY FlattenOffsets
<1>. HIDE DEF len
<1>5. /\ off \in [0..n -> Nat] /\ off[0] = 0 /\ DOMAIN flat = 1..off[n]
      /\ \A k \in 1..n : off[k] = off[k - 1] + len[k] /\ k \in 0..n /\ k - 1 \in 0..n
                         /\ off[k] \in Nat /\ off[k - 1] \in Nat
  <2>1. off \in [0..n -> Nat] /\ off[0] = 0 /\ \A k \in 1..n : off[k] = off[k - 1] + len[k]
    BY <1>2, <1>4 DEF Offsets
  <2>2. DOMAIN flat = 1..Len(flat) BY <1>3
  <2>. HIDE DEF n, flat
  <2>. QED BY <2>1, <2>2, <1>1, <1>4
<1>. HIDE DEF n, flat
<1>6. \A k \in 1..n : off[k - 1] <= off[k]
  <2>. SUFFICES ASSUME NEW k \in 1..n PROVE off[k - 1] <= off[k] OBVIOUS
  <2>. DEFINE a == off[k - 1]
  <2>1. a \in Nat /\ len[k] \in Nat /\ off[k] = a + len[k] BY <1>2, <1>5
  <2>. HIDE DEF a
  <2>2. a <= off[k] BY <2>1
  <2>. QED BY <2>2 DEF a
<1>7. \A a, b \in 0..n : a <= b => off[a] <= off[b] BY <1>1, <1>5, <1>6, NeverFalls
<1>. DEFINE piece == [p \in 1..off[n] |-> CHOOSE k \in 1..n : off[k - 1] < p /\ p <= off[k]]
            at == [p \in 1..off[n] |-> p - off[piece[p] - 1]]
            base == [k \in 1..n |-> off[k - 1]]
<1>8. ASSUME NEW p \in 1..off[n]
      PROVE piece[p] \in 1..n /\ off[piece[p] - 1] < p /\ p <= off[piece[p]]
  <2>1. \E k \in 1..n : off[k - 1] < p /\ p <= off[k] BY <1>1, <1>5, Reaches
  <2>. QED BY <2>1
<1>9. \A p \in 1..off[n] : at[p] = p - off[piece[p] - 1] OBVIOUS
<1>10. \A k \in 1..n : base[k] = off[k - 1] OBVIOUS
<1>. HIDE DEF piece, at, base
<1>11. /\ \A k \in 1..n :
            base[k] \in Nat /\ off[k] = base[k] + len[k] /\ len[k] \in Nat /\ off[k] \in Nat
       /\ \A k, m \in 1..n : k < m => off[k] <= base[m]
       /\ \A k \in 1..n : off[k] <= off[n]
  <2>1. \A k \in 1..n :
          base[k] \in Nat /\ off[k] = base[k] + len[k] /\ len[k] \in Nat /\ off[k] \in Nat
    BY <1>2, <1>5, <1>10
  <2>2. ASSUME NEW k \in 1..n, NEW m \in 1..n, k < m PROVE off[k] <= base[m]
    <3>1. k \in 0..n /\ m - 1 \in 0..n /\ k <= m - 1 BY <2>2, <1>1
    <3>. QED BY <3>1, <1>7, <1>10
  <2>3. ASSUME NEW k \in 1..n PROVE off[k] <= off[n]
    <3>1. k \in 0..n /\ n \in 0..n /\ k <= n BY <1>1
    <3>. QED BY <3>1, <1>7
  <2>. QED BY <2>1, <2>2, <2>3
<1>12. ASSUME NEW p \in 1..off[n]
       PROVE  piece[p] \in 1..n /\ base[piece[p]] < p /\ p <= off[piece[p]]
                /\ at[p] = p - base[piece[p]]
              /\ at[p] \in 1..len[piece[p]] /\ p = base[piece[p]] + at[p] /\ p \in Nat
  <2>1. piece[p] \in 1..n /\ base[piece[p]] < p /\ p <= off[piece[p]] /\ at[p] = p - base[piece[p]]
    BY <1>8, <1>9, <1>10
  <2>. DEFINE b == base[piece[p]]  l == len[piece[p]]  o == off[piece[p]]
  <2>2. b \in Nat /\ l \in Nat /\ o = b + l /\ p \in Nat /\ b < p /\ p <= o /\ at[p] = p - b
    BY <2>1, <1>11, <1>5
  <2>. HIDE DEF b, l, o
  <2>3. at[p] \in 1..l /\ p = b + at[p] BY <2>2
  <2>. QED BY <2>1, <2>2, <2>3 DEF b, l, o
<1>13. ASSUME NEW k \in 1..n, NEW j \in 1..len[k]
       PROVE  base[k] + j \in 1..off[n] /\ piece[base[k] + j] = k /\ at[base[k] + j] = j
  <2>. DEFINE p == base[k] + j  m == piece[p]
  <2>1. p \in 1..off[n] /\ base[k] < p /\ p <= off[k]
    <3>1. base[k] \in Nat /\ off[k] = base[k] + len[k] /\ off[k] <= off[n] /\ j \in Nat /\ 1 <= j
          /\ j <= len[k] /\ len[k] \in Nat /\ off[n] \in Nat
      <4>1. off[n] \in Nat BY <1>1, <1>5
      <4>. QED BY <1>11, <4>1
    <3>. QED BY <3>1
  <2>. HIDE DEF p
  <2>2. m \in 1..n /\ base[m] < p /\ p <= off[m] /\ at[p] = p - base[m] BY <1>12, <2>1
  <2>3. p \in Int /\ base[k] \in Int /\ base[m] \in Int /\ off[k] \in Int /\ off[m] \in Int
    <3>1. off[n] \in Nat BY <1>1, <1>5
    <3>2. p \in Int BY <2>1, <3>1
    <3>3. \A i \in 1..n : base[i] \in Int /\ off[i] \in Int BY <1>11
    <3>. HIDE DEF m
    <3>. QED BY <3>2, <3>3, <2>2
  <2>4. ~(k < m) /\ ~(m < k)
    <3>1. k < m => off[k] <= base[m] BY <1>11, <2>2
    <3>2. m < k => off[m] <= base[k] BY <1>11, <2>2
    <3>. HIDE DEF m
    <3>. QED BY <3>1, <3>2, <2>1, <2>2, <2>3
  <2>5. k = m BY <2>2, <2>4, <1>1
  <2>6. at[p] = j BY <2>5, <2>2, <2>3 DEF p
  <2>. QED BY <2>1, <2>5, <2>6 DEF p
<1>14. ASSUME NEW p \in 1..off[n] PROVE flat[p] = seqs[piece[p]][at[p]]
  <2>. DEFINE k == piece[p]  j == at[p]
  <2>1. k \in 1..n /\ j \in 1..Len(seqs[k]) /\ p = off[k - 1] + j BY <1>12, <1>10, <1>2
  <2>. HIDE DEF k, j
  <2>2. flat[off[k - 1] + j] = seqs[k][j] BY <2>1, <1>4
  <2>. QED BY <2>1, <2>2 DEF k, j
<1>15. ASSUME NEW p \in 1..off[n], NEW q \in 1..off[n]
       PROVE  p < q <=> piece[p] < piece[q] \/ (piece[p] = piece[q] /\ at[p] < at[q])
  <2>. DEFINE k == piece[p]  m == piece[q]
  <2>1. /\ k \in 1..n /\ base[k] < p /\ p <= off[k] /\ p = base[k] + at[p] /\ at[p] \in Int
             /\ p \in Int
        /\ m \in 1..n /\ base[m] < q /\ q <= off[m] /\ q = base[m] + at[q] /\ at[q] \in Int
             /\ q \in Int
    BY <1>12
  <2>2. base[k] \in Int /\ base[m] \in Int /\ off[k] \in Int /\ off[m] \in Int BY <2>1, <1>11
  <2>3. (k < m => off[k] <= base[m]) /\ (m < k => off[m] <= base[k]) BY <2>1, <1>11
  <2>4. k < m \/ m < k \/ k = m BY <2>1
  <2>. HIDE DEF k, m
  <2>5. k < m => p < q BY <2>1, <2>2, <2>3
  <2>6. m < k => q < p BY <2>1, <2>2, <2>3
  <2>7. k = m => (p < q <=> at[p] < at[q])
    <3>. DEFINE b == base[k]  c == base[m]  x == at[p]  y == at[q]
    <3>1. b \in Int /\ x \in Int /\ y \in Int /\ p = b + x /\ q = c + y /\ (k = m => b = c)
      BY <2>1, <2>2
    <3>. HIDE DEF b, c, x, y
    <3>2. k = m => (p < q <=> x < y) BY <3>1
    <3>. QED BY <3>2 DEF x, y
  <2>8. p < q <=> k < m \/ (k = m /\ at[p] < at[q])
    <3>1. k \in Int /\ m \in Int /\ p \in Int /\ q \in Int BY <2>1
    <3>. QED BY <3>1, <2>4, <2>5, <2>6, <2>7
  <2>. QED BY <2>8 DEF k, m
<1>16. Spread(seqs, flat, piece, at)
  <2>1. DOMAIN flat = 1..off[n] BY <1>5
  <2>2. \A p \in 1..off[n] : piece[p] \in DOMAIN seqs /\ at[p] \in DOMAIN seqs[piece[p]]
    BY <1>12, <1>1, <1>2
  <2>3. ASSUME NEW k \in DOMAIN seqs, NEW j \in DOMAIN seqs[k]
        PROVE  \E p \in 1..off[n] : piece[p] = k /\ at[p] = j
    <3>1. k \in 1..n /\ j \in 1..len[k] BY <1>1, <1>2
    <3>. QED BY <3>1, <1>13
  <2>4. \A p \in 1..off[n] : flat[p] = seqs[piece[p]][at[p]] BY <1>14
  <2>5. \A p, q \in 1..off[n] :
          p < q <=> piece[p] < piece[q] \/ (piece[p] = piece[q] /\ at[p] < at[q])
    BY <1>15
  <2>6. \A k \in DOMAIN seqs :
          \A j \in DOMAIN seqs[k] : \E p \in 1..off[n] : piece[p] = k /\ at[p] = j
    BY <2>3
  <2>7. \A p \in DOMAIN flat : /\ piece[p] \in DOMAIN seqs /\ at[p] \in DOMAIN seqs[piece[p]]
                               /\ flat[p] = seqs[piece[p]][at[p]]
    BY <2>1, <2>2, <2>4, Zenon
  <2>8. \A p, q \in DOMAIN flat :
           p < q <=> piece[p] < piece[q] \/ (piece[p] = piece[q] /\ at[p] < at[q])
    BY <2>1, <2>5, Zenon
  <2>9. \A k \in DOMAIN seqs : \A j \in DOMAIN seqs[k] :
           \E p \in DOMAIN flat : piece[p] = k /\ at[p] = j
    <3>. SUFFICES ASSUME NEW k \in DOMAIN seqs, NEW j \in DOMAIN seqs[k]
                  PROVE  \E p \in DOMAIN flat : piece[p] = k /\ at[p] = j
      OBVIOUS
    <3>1. PICK p \in 1..off[n] : piece[p] = k /\ at[p] = j BY <2>6
    <3>2. p \in DOMAIN flat BY <2>1
    <3>. QED BY <3>1, <3>2
  <2>. QED BY <2>7, <2>8, <2>9, Zenon DEF Spread
<1>. QED BY <1>3, <1>16 DEF flat
-----------------------------------------------------------------------------
(* Kahn's algorithm: what its rounds count down.                            *)
IsGraph(g) ==
    /\ g.names \subseteq Nat /\ IsFiniteSet(g.names) /\ IsFiniteSet(DOMAIN g.edges)
    /\ \A i \in DOMAIN g.edges : g.edges[i].from \in g.names /\ g.edges[i].to \in g.names
    /\ g.in_degree = [n \in g.names |-> Cardinality({i \in DOMAIN g.edges : g.edges[i].to = n})]

Wave(g, k) == Rounds(g)[k].wave
\* What the waves before k hold, and the edges to n that come from elsewhere.
Before(g, k) == {n \in g.names : \E i \in 0..(k - 1) : n \in Wave(g, i)}
Open(g, k, n) == {i \in DOMAIN g.edges : g.edges[i].to = n /\ g.edges[i].from \notin Before(g, k)}

\* The rounds of topological_waves (dag.rs) are what its loop does, one after the
\* other.
LEMMA RoundsGoOn ==
    ASSUME NEW g, IsGraph(g)
    PROVE  /\ Rounds(g)[0] = FirstRound(g)
           /\ \A k \in Nat : Rounds(g)[k + 1] = NextRound(g, Rounds(g)[k])
<1>. DEFINE S == [left : [g.names -> Int], wave : SUBSET g.names]
            F == [p \in Nat \X S |-> NextRound(g, p[2])]
            z == FirstRound(g)
<1>1. \A D \in SUBSET DOMAIN g.edges : Cardinality(D) \in Int
  BY FS_Subset, FS_CardinalityType DEF IsGraph
<1>2. z \in S
  <2>1. \A n \in g.names : g.in_degree[n] \in Int BY <1>1 DEF IsGraph
  <2>2. g.in_degree \in [g.names -> Int] BY <2>1 DEF IsGraph
  <2>. QED BY <2>2 DEF FirstRound
<1>3. ASSUME NEW s \in S PROVE NextRound(g, s) \in S
  <2>. DEFINE P(n) == {i \in DOMAIN g.edges : g.edges[i].from \in s.wave /\ g.edges[i].to = n}
              left == [n \in g.names |-> s.left[n] - Cardinality(P(n))]
  <2>1. \A n \in g.names : s.left[n] \in Int /\ Cardinality(P(n)) \in Int
    <3>1. \A n \in g.names : P(n) \in SUBSET DOMAIN g.edges OBVIOUS
    <3>2. \A n \in g.names : Cardinality(P(n)) \in Int
      <4>. HIDE DEF P
      <4>. QED BY <1>1, <3>1
    <3>3. \A n \in g.names : s.left[n] \in Int
      <4>1. s.left \in [g.names -> Int] OBVIOUS
      <4>. QED BY <4>1
    <3>. QED BY <3>2, <3>3
  <2>2. left \in [g.names -> Int]
    <3>. HIDE DEF P
    <3>1. \A n \in g.names : s.left[n] - Cardinality(P(n)) \in Int BY <2>1
    <3>. QED BY <3>1
  <2>3. NextRound(g, s) = [left |-> left, wave |-> {n \in g.names : left[n] = 0 /\ s.left[n] # 0}]
    BY DEF NextRound
  <2>. HIDE DEF left
  <2>. QED BY <2>2, <2>3
<1>4. F \in [Nat \X S -> S] BY <1>3
<1>. HIDE DEF S, z
<1>5. PICK f \in [Nat -> S] : Iterates(f, z, F)
  <2>. HIDE DEF F
  <2>. QED BY <1>2, <1>4, Iteration
<1>6. f[0] = z /\ \A k \in Nat : f[k + 1] = NextRound(g, f[k]) BY <1>5 DEF Iterates
<1>. DEFINE Eqn(h) == h = [k \in Nat |-> IF k = 0 THEN FirstRound(g) ELSE NextRound(g, h[k - 1])]
<1>7. Eqn(f)
  <2>1. \A k \in Nat : f[k] = IF k = 0 THEN FirstRound(g) ELSE NextRound(g, f[k - 1])
    <3>. SUFFICES ASSUME NEW k \in Nat, k # 0 PROVE f[k] = NextRound(g, f[k - 1]) BY <1>6 DEF z
    <3>1. k - 1 \in Nat /\ (k - 1) + 1 = k OBVIOUS
    <3>2. f[(k - 1) + 1] = NextRound(g, f[k - 1]) BY <1>6, <3>1
    <3>. QED BY <3>1, <3>2
  <2>. QED BY <2>1
<1>8. Rounds(g) = CHOOSE h : Eqn(h) BY DEF Rounds
<1>9. Eqn(Rounds(g)) BY <1>7, <1>8
<1>10. \A k \in Nat : Rounds(g)[k] = IF k = 0 THEN FirstRound(g) ELSE NextRound(g, Rounds(g)[k - 1])
  BY <1>9
<1>11. ASSUME NEW k \in Nat PROVE Rounds(g)[k + 1] = NextRound(g, Rounds(g)[k])
  <2>1. k + 1 \in Nat /\ k + 1 # 0 /\ (k + 1) - 1 = k OBVIOUS
  <2>2. Rounds(g)[k + 1] = NextRound(g, Rounds(g)[(k + 1) - 1]) BY <1>10, <2>1
  <2>. QED BY <2>1, <2>2
<1>. QED BY <1>10, <1>11

\* The edges that are open at one wave were open at every wave before.
LEMMA OpenShrinks ==
    ASSUME NEW g, NEW i \in Nat, NEW k \in Nat, i <= k
    PROVE  /\ Before(g, i) \subseteq Before(g, k)
           /\ \A n : Open(g, k, n) \subseteq Open(g, i, n)
<1>1. \A h \in 0..(i - 1) : h \in 0..(k - 1) OBVIOUS
<1>2. Before(g, i) \subseteq Before(g, k) BY <1>1 DEF Before
<1>. QED BY <1>2 DEF Open

Counts(g, k) == Rounds(g)[k].left = [n \in g.names |-> Cardinality(Open(g, k, n))]
\* A service is in the first wave at which none of its edges is open.
Waves(g, k) ==
    Wave(g, k) = {n \in g.names : Open(g, k, n) = {} /\ (k = 0 \/ Open(g, k - 1, n) # {})}

\* An in-degree of zero is a service with no open edge.
LEMMA NoneOpen ==
    ASSUME NEW g, IsGraph(g), NEW k, NEW n
    PROVE  /\ IsFiniteSet(Open(g, k, n)) /\ Cardinality(Open(g, k, n)) \in Nat
           /\ Cardinality(Open(g, k, n)) = 0 <=> Open(g, k, n) = {}
<1>1. Open(g, k, n) \in SUBSET DOMAIN g.edges BY DEF Open
<1>2. IsFiniteSet(Open(g, k, n)) BY <1>1, FS_Subset DEF IsGraph
<1>. QED BY <1>2, FS_CardinalityType, FS_EmptySet

\* If the in-degrees left count open edges, a wave holds what has just lost its
\* last one.
LEMMA WaveOfCounts ==
    ASSUME NEW g, IsGraph(g), NEW k \in Nat, Counts(g, k), k # 0 => Counts(g, k - 1)
    PROVE  Waves(g, k)
<1>1. \A n \in g.names : Rounds(g)[k].left[n] = 0 <=> Open(g, k, n) = {}
  BY NoneOpen DEF Counts
<1>2. CASE k = 0
  <2>1. Rounds(g)[0] = FirstRound(g) BY RoundsGoOn
  <2>2. Wave(g, 0) = {n \in g.names : Rounds(g)[0].left[n] = 0} BY <2>1 DEF Wave, FirstRound
  <2>. QED BY <1>1, <1>2, <2>2 DEF Waves
<1>3. CASE k # 0
  <2>1. k - 1 \in Nat /\ (k - 1) + 1 = k BY <1>3
  <2>2. Rounds(g)[k] = NextRound(g, Rounds(g)[k - 1])
    <3>1. Rounds(g)[(k - 1) + 1] = NextRound(g, Rounds(g)[k - 1]) BY <2>1, RoundsGoOn
    <3>. QED BY <2>1, <3>1
  <2>3. Wave(g, k) = {n \in g.names : Rounds(g)[k].left[n] = 0 /\ Rounds(g)[k - 1].left[n] # 0}
    BY <2>2 DEF Wave, NextRound
  <2>4. \A n \in g.names : Rounds(g)[k - 1].left[n] = 0 <=> Open(g, k - 1, n) = {}
    BY <1>3, NoneOpen DEF Counts
  <2>. QED BY <1>1, <1>3, <2>3, <2>4 DEF Waves
<1>. QED BY <1>2, <1>3

\* The in-degrees left count the open edges, in every round.
LEMMA RoundsCount ==
    ASSUME NEW g, IsGraph(g)
    PROVE  \A k \in Nat : Counts(g, k)
<1>. DEFINE B == {k \in Nat : ~Counts(g, k)}
<1>1. SUFFICES ASSUME B # {} PROVE FALSE OBVIOUS
<1>2. PICK k \in B : \A i \in B : k <= i BY <1>1, LeastNatural
<1>3. \A i \in Nat : i < k => Counts(g, i) BY <1>2
<1>4. CASE k = 0
  <2>1. Before(g, 0) = {} BY DEF Before
  <2>2. \A n : Open(g, 0, n) = {i \in DOMAIN g.edges : g.edges[i].to = n} BY <2>1 DEF Open
  <2>3. Rounds(g)[0] = FirstRound(g) BY RoundsGoOn
  <2>4. Rounds(g)[0].left = g.in_degree BY <2>3 DEF FirstRound
  <2>5. Counts(g, 0) BY <2>2, <2>4 DEF Counts, IsGraph
  <2>. QED BY <1>4, <2>5, <1>2
<1>5. CASE k # 0
  <2>. DEFINE m == k - 1
  <2>1. m \in Nat /\ m + 1 = k /\ m < k /\ k \in Nat BY <1>5
  <2>2. Counts(g, m) BY <1>3, <2>1
  <2>3. \A i \in Nat : i <= m => Waves(g, i)
    <3>1. ASSUME NEW i \in Nat, i <= m PROVE Waves(g, i)
      <4>1. Counts(g, i) BY <1>3, <2>1, <3>1
      <4>2. i # 0 => i - 1 \in Nat /\ i - 1 < k BY <2>1, <3>1
      <4>3. i # 0 => Counts(g, i - 1) BY <4>2, <1>3
      <4>. QED BY <4>1, <4>3, WaveOfCounts
    <3>. QED BY <3>1
  <2>. HIDE DEF m
  <2>4. Rounds(g)[k] = NextRound(g, Rounds(g)[m]) BY <2>1, RoundsGoOn
  <2>. DEFINE P(n) == {i \in DOMAIN g.edges : g.edges[i].from \in Wave(g, m) /\ g.edges[i].to = n}
  <2>5. Rounds(g)[k].left = [n \in g.names |-> Rounds(g)[m].left[n] - Cardinality(P(n))]
    BY <2>4 DEF NextRound, Wave
  <2>6. \A n \in Wave(g, m) : n \notin Before(g, m)
    <3>. SUFFICES ASSUME NEW n \in Wave(g, m), NEW i \in 0..(m - 1), n \in Wave(g, i) PROVE FALSE
      BY DEF Before
    <3>1. i \in Nat /\ m - 1 \in Nat /\ i <= m - 1 /\ i <= m BY <2>1
    <3>2. Open(g, i, n) = {} BY <2>3, <3>1 DEF Waves
    <3>3. Open(g, m - 1, n) = {} BY <3>1, <3>2, OpenShrinks
    <3>4. m # 0 /\ Waves(g, m) BY <2>1, <2>3, <3>1
    <3>. QED BY <3>3, <3>4 DEF Waves
  <2>7. Before(g, k) = Before(g, m) \cup (Wave(g, m) \cap g.names)
    <3>1. \A i : i \in 0..(k - 1) <=> i \in 0..(m - 1) \/ i = m BY <2>1
    <3>. QED BY <3>1 DEF Before
  <2>8. \A i \in DOMAIN g.edges : g.edges[i].from \in g.names BY DEF IsGraph
  <2>9. ASSUME NEW n \in g.names
        PROVE  Cardinality(Open(g, k, n)) = Cardinality(Open(g, m, n)) - Cardinality(P(n))
    <3>1. P(n) \subseteq Open(g, m, n) BY <2>6 DEF Open
    <3>2. Open(g, k, n) = Open(g, m, n) \ P(n) BY <2>7, <2>8 DEF Open
    <3>3. Open(g, m, n) \cap P(n) = P(n) BY <3>1
    <3>4. IsFiniteSet(Open(g, m, n)) BY NoneOpen
    <3>. HIDE DEF P
    <3>. QED BY <3>2, <3>3, <3>4, FS_Difference
  <2>10. \A n \in g.names : Rounds(g)[m].left[n] = Cardinality(Open(g, m, n)) BY <2>2 DEF Counts
  <2>. HIDE DEF P
  <2>11. Counts(g, k) BY <2>5, <2>9, <2>10 DEF Counts
  <2>. QED BY <2>11, <1>2
<1>. QED BY <1>4, <1>5

\* So each wave holds the services whose last open edge the wave before closed.
LEMMA WavesAre ==
    ASSUME NEW g, IsGraph(g)
    PROVE  \A k \in Nat : Waves(g, k)
<1>. SUFFICES ASSUME NEW k \in Nat PROVE Waves(g, k) OBVIOUS
<1>1. k # 0 => k - 1 \in Nat OBVIOUS
<1>. QED BY <1>1, RoundsCount, WaveOfCounts
-----------------------------------------------------------------------------
(* When it ends, and what it leaves over.                                   *)
\* Who is in wave k.
LEMMA WaveMembers ==
    ASSUME NEW g, IsGraph(g), NEW k \in Nat, NEW n
    PROVE  n \in Wave(g, k) <=>
               n \in g.names /\ Open(g, k, n) = {} /\ (k = 0 \/ Open(g, k - 1, n) # {})
BY WavesAre DEF Waves

\* No service is placed twice.
LEMMA OneWave ==
    ASSUME NEW g, IsGraph(g), NEW n
    PROVE  \A i, k \in Nat : n \in Wave(g, i) /\ n \in Wave(g, k) => i = k
<1>1. ASSUME NEW i \in Nat, NEW k \in Nat, n \in Wave(g, i), n \in Wave(g, k), i < k PROVE FALSE
  <2>1. k - 1 \in Nat /\ i <= k - 1 /\ k # 0 BY <1>1
  <2>2. Open(g, i, n) = {} /\ Open(g, k - 1, n) # {} BY <1>1, <2>1, WaveMembers
  <2>. QED BY <2>1, <2>2, OpenShrinks
<1>2. ASSUME NEW i \in Nat, NEW k \in Nat, n \in Wave(g, i), n \in Wave(g, k) PROVE i = k
  <2>1. ~(i < k) /\ ~(k < i) BY <1>1, <1>2
  <2>. QED BY <2>1
<1>. QED BY <1>2

\* A service without an open edge has been placed.
LEMMA WaveOfClosed ==
    ASSUME NEW g, IsGraph(g), NEW n \in g.names, NEW k \in Nat, Open(g, k, n) = {}
    PROVE  \E i \in 0..k : n \in Wave(g, i)
<1>. DEFINE B == {i \in Nat : Open(g, i, n) = {}}
<1>1. B # {} /\ B \subseteq Nat OBVIOUS
<1>2. PICK i \in B : \A h \in B : i <= h BY <1>1, LeastNatural
<1>3. i <= k BY <1>2
<1>4. i # 0 => i - 1 \in Nat /\ ~(i <= i - 1) BY <1>2
<1>5. i # 0 => Open(g, i - 1, n) # {} BY <1>2, <1>4
<1>6. n \in Wave(g, i) BY <1>2, <1>5, WaveMembers
<1>. QED BY <1>2, <1>3, <1>6

\* After an empty wave nothing is placed any more.
LEMMA EmptyStays ==
    ASSUME NEW g, IsGraph(g), NEW k \in Nat, Wave(g, k) = {}
    PROVE  \A m \in Nat : k <= m => Wave(g, m) = {}
<1>. DEFINE B == {m \in Nat : k <= m /\ Wave(g, m) # {}}
<1>1. SUFFICES ASSUME B # {} PROVE FALSE OBVIOUS
<1>2. PICK m \in B : \A h \in B : m <= h BY <1>1, LeastNatural
<1>. DEFINE l == m - 1
<1>3. m # k BY <1>2
<1>4. l \in Nat /\ k <= l /\ ~(m <= l) /\ m \in Nat /\ m # 0 BY <1>2, <1>3
<1>5. Wave(g, l) = {} BY <1>2, <1>4
<1>6. Before(g, m) = Before(g, l)
  <2>1. \A i : i \in 0..(m - 1) <=> i \in 0..(l - 1) \/ i = l BY <1>4
  <2>. HIDE DEF l
  <2>. QED BY <1>5, <2>1 DEF Before
<1>7. \A n : Open(g, m, n) = Open(g, m - 1, n) BY <1>6 DEF Open
<1>8. \A n : n \notin Wave(g, m) BY <1>4, <1>7, WaveMembers
<1>. QED BY <1>2, <1>8

\* There are not more waves than services.
LEMMA LastEmpty ==
    ASSUME NEW g, IsGraph(g)
    PROVE  Cardinality(g.names) \in Nat /\ Wave(g, Cardinality(g.names)) = {}
<1>. DEFINE N == Cardinality(g.names)
<1>1. N \in Nat BY FS_CardinalityType DEF IsGraph
<1>2. SUFFICES ASSUME Wave(g, N) # {} PROVE FALSE BY <1>1
<1>. HIDE DEF N
<1>3. \A k \in 0..N : Wave(g, k) # {}
  <2>1. \A k \in 0..N : k \in Nat /\ k <= N BY <1>1
  <2>. QED BY <2>1, <1>1, <1>2, EmptyStays
<1>. DEFINE f == [k \in 0..N |-> CHOOSE n \in Wave(g, k) : TRUE]
<1>4. \A k \in 0..N : f[k] \in Wave(g, k) BY <1>3
<1>. HIDE DEF f
<1>5. \A k \in 0..N : f[k] \in g.names BY <1>4, <1>1, WaveMembers
<1>6. f \in [0..N -> g.names] BY <1>5 DEF f
<1>7. IsFiniteSet(0..N) /\ Cardinality(0..N) = N + 1
  <2>1. 0 \in Int /\ N \in Int /\ N + 1 = IF 0 > N THEN 0 ELSE N - 0 + 1 BY <1>1
  <2>. QED BY <2>1, FS_Interval
<1>8. Cardinality(g.names) < Cardinality(0..N) BY <1>1, <1>7 DEF N
<1>9. PICK i, k \in 0..N : i # k /\ f[i] = f[k]
  <2>1. IsFiniteSet(g.names) BY DEF IsGraph
  <2>. DEFINE S == 0..N
  <2>2. IsFiniteSet(S) /\ Cardinality(g.names) < Cardinality(S) /\ f \in [S -> g.names]
    BY <1>6, <1>7, <1>8
  <2>. HIDE DEF S
  <2>3. \E x, y \in S : x # y /\ f[x] = f[y] BY <2>1, <2>2, FS_PigeonHole
  <2>. QED BY <2>3 DEF S
<1>10. f[i] \in Wave(g, i) /\ f[i] \in Wave(g, k) /\ i \in Nat /\ k \in Nat BY <1>4, <1>9, <1>1
<1>. QED BY <1>9, <1>10, OneWave

\* What the algorithm leaves over, and its answer.
Stuck(g) == {n \in g.names : Open(g, Cardinality(g.names), n) # {}}
\* topological_waves answers with its waves when nothing is left over, and
\* otherwise names what is.
LEMMA WavesAnswer ==
    ASSUME NEW g, IsGraph(g)
    PROVE  /\ Stuck(g) # {} =>
                TopologicalWaves(g) = [ok |-> FALSE, val |-> "Cycle", path |-> InOrder(Stuck(g))]
           /\ Stuck(g) = {} =>
                \E d \in Nat : /\ TopologicalWaves(g) = Ok([k \in 1..d |-> InOrder(Wave(g, k - 1))])
                               /\ \A k \in 1..d : Wave(g, k - 1) # {}
                               /\ \A n \in g.names : \E k \in 1..d : n \in Wave(g, k - 1)
<1>. DEFINE N == Cardinality(g.names)
            drained == {k \in 1..N : \A i \in 1..k : Wave(g, i - 1) # {}}
            stuck == {s \in g.names : Rounds(g)[N].left[s] > 0}
<1>1. N \in Nat /\ Wave(g, N) = {} BY LastEmpty
<1>2. stuck = Stuck(g)
  <2>1. \A s \in g.names : Rounds(g)[N].left[s] = Cardinality(Open(g, N, s))
    <3>. HIDE DEF N
    <3>1. Counts(g, N) BY <1>1, RoundsCount
    <3>. QED BY <3>1 DEF Counts
  <2>2. \A s \in g.names : Cardinality(Open(g, N, s)) > 0 <=> Open(g, N, s) # {}
    <3>1. \A s \in g.names : Cardinality(Open(g, N, s)) \in Nat
                             /\ (Cardinality(Open(g, N, s)) = 0 <=> Open(g, N, s) = {})
      BY NoneOpen
    <3>2. \A c \in Nat : c > 0 <=> c # 0 OBVIOUS
    <3>. QED BY <3>1, <3>2
  <2>. QED BY <2>1, <2>2 DEF Stuck
<1>3. TopologicalWaves(g) =
          IF stuck # {} THEN [ok |-> FALSE, val |-> "Cycle", path |-> InOrder(stuck)]
          ELSE Ok([k \in drained |-> InOrder(Wave(g, k - 1))])
  BY DEF TopologicalWaves, Wave
<1>. HIDE DEF stuck
<1>4. ASSUME Stuck(g) = {}
      PROVE \E d \in Nat : /\ TopologicalWaves(g) = Ok([k \in 1..d |-> InOrder(Wave(g, k - 1))])
                           /\ \A k \in 1..d : Wave(g, k - 1) # {}
                           /\ \A n \in g.names : \E k \in 1..d : n \in Wave(g, k - 1)
  <2>. HIDE DEF N
  <2>. DEFINE B == {k \in Nat : Wave(g, k) = {}}
  <2>1. B # {} /\ B \subseteq Nat BY <1>1
  <2>2. PICK d \in B : \A h \in B : d <= h BY <2>1, LeastNatural
  <2>3. d \in Nat /\ d <= N /\ Wave(g, d) = {} BY <1>1, <2>2
  <2>4. \A k \in 1..d : Wave(g, k - 1) # {}
    <3>1. \A k \in 1..d : k - 1 \in Nat /\ ~(d <= k - 1) BY <2>3
    <3>. QED BY <3>1, <2>2
  <2>5. drained = 1..d
    <3>1. ASSUME NEW k \in 1..d PROVE k \in drained
      <4>1. k \in 1..N /\ \A i \in 1..k : i \in 1..d BY <1>1, <2>3
      <4>. QED BY <4>1, <2>4
    <3>2. ASSUME NEW k \in drained PROVE k \in 1..d
      <4>1. SUFFICES ASSUME d < k PROVE FALSE BY <1>1, <2>3
      <4>2. d + 1 \in 1..k /\ (d + 1) - 1 = d BY <4>1, <1>1, <2>3
      <4>3. Wave(g, (d + 1) - 1) # {} BY <4>2
      <4>. QED BY <4>2, <4>3, <2>3
    <3>. QED BY <3>1, <3>2
  <2>6. TopologicalWaves(g) = Ok([k \in 1..d |-> InOrder(Wave(g, k - 1))])
    BY <1>2, <1>3, <1>4, <2>5
  <2>7. ASSUME NEW n \in g.names PROVE \E k \in 1..d : n \in Wave(g, k - 1)
    <3>1. Open(g, N, n) = {} BY <1>4 DEF Stuck, N
    <3>2. PICK i \in 0..N : n \in Wave(g, i) BY <1>1, <3>1, WaveOfClosed
    <3>3. i \in Nat /\ i < d
      <4>1. i \in Nat BY <1>1
      <4>2. d <= i => Wave(g, i) = {} BY <4>1, <2>3, EmptyStays
      <4>. QED BY <4>1, <4>2, <3>2, <2>3
    <3>4. i + 1 \in 1..d /\ (i + 1) - 1 = i BY <3>3, <2>3
    <3>5. n \in Wave(g, (i + 1) - 1) BY <3>2, <3>4
    <3>. QED BY <3>4, <3>5
  <2>. QED BY <2>3, <2>4, <2>6, <2>7
<1>. QED BY <1>2, <1>3, <1>4

\* Each one left over waits for another one, and those that wait for one
\* another are left over.
LEMMA StuckWaits ==
    ASSUME NEW g, IsGraph(g), NEW n \in Stuck(g)
    PROVE  \E e \in DOMAIN g.edges : g.edges[e].to = n /\ g.edges[e].from \in Stuck(g)
<1>. DEFINE N == Cardinality(g.names)
<1>1. N \in Nat /\ Wave(g, N) = {} BY LastEmpty
<1>. HIDE DEF N
<1>2. PICK e \in Open(g, N, n) : TRUE BY DEF Stuck, N
<1>3. e \in DOMAIN g.edges /\ g.edges[e].to = n /\ g.edges[e].from \in g.names
      /\ g.edges[e].from \notin Before(g, N)
  BY <1>2 DEF Open, IsGraph
<1>. DEFINE m == g.edges[e].from
<1>4. ASSUME Open(g, N, m) = {} PROVE FALSE
  <2>1. PICK i \in 0..N : m \in Wave(g, i) BY <1>1, <1>3, <1>4, WaveOfClosed
  <2>2. i # N BY <1>1, <2>1
  <2>3. i \in 0..(N - 1) BY <2>2, <1>1
  <2>. QED BY <1>3, <2>1, <2>3 DEF Before
<1>. QED BY <1>3, <1>4 DEF Stuck, N

\* None of the services that wait for one another is ever placed: the first one
\* to be would need another one placed before it.
LEMMA WaitingStuck ==
    ASSUME NEW g, IsGraph(g), NEW C, C \subseteq g.names,
           \A n \in C : \E e \in DOMAIN g.edges : g.edges[e].to = n /\ g.edges[e].from \in C
    PROVE  C \subseteq Stuck(g)
<1>1. \A k \in Nat : \A n \in C : n \notin Wave(g, k)
  <2>. DEFINE B == {k \in Nat : \E n \in C : n \in Wave(g, k)}
  <2>1. SUFFICES ASSUME B # {} PROVE FALSE OBVIOUS
  <2>2. PICK k \in B : \A h \in B : k <= h BY <2>1, LeastNatural
  <2>3. PICK n \in C : n \in Wave(g, k) BY <2>2
  <2>4. PICK e \in DOMAIN g.edges : g.edges[e].to = n /\ g.edges[e].from \in C BY <2>3
  <2>5. Open(g, k, n) = {} BY <2>2, <2>3, WaveMembers
  <2>6. g.edges[e].from \in Before(g, k) BY <2>4, <2>5 DEF Open
  <2>7. PICK i \in 0..(k - 1) : g.edges[e].from \in Wave(g, i) BY <2>6 DEF Before
  <2>8. i \in Nat /\ ~(k <= i) BY <2>2, <2>7
  <2>. QED BY <2>2, <2>4, <2>7, <2>8
<1>2. Cardinality(g.names) \in Nat BY LastEmpty
<1>3. ASSUME NEW n \in C PROVE Open(g, Cardinality(g.names), n) # {}
  <2>1. \A i \in 0..Cardinality(g.names) : i \in Nat BY <1>2
  <2>. QED BY <1>1, <1>2, <2>1, WaveOfClosed
<1>. QED BY <1>3 DEF Stuck
-----------------------------------------------------------------------------
(* Services as the planner gets them, and what they depend on.              *)
\* The services as the planner gets them: every depends_on is one of the three forms.
Selectable(active) ==
    /\ DOMAIN active \subseteq Services
    /\ \A s \in DOMAIN active : active[s].depends_on \in DependsOn
Dependency == Services \X DependsCondition

\* The services of a set, each listed once and in order.
LEMMA InOrderOf ==
    ASSUME NEW S, S \subseteq Services
    PROVE  /\ S \subseteq Nat /\ IsFiniteSet(S) /\ InOrder(S) \in Seq(S)
           /\ DOMAIN InOrder(S) = 1..Cardinality(S)
           /\ \A i, j \in DOMAIN InOrder(S) : i < j => InOrder(S)[i] < InOrder(S)[j]
           /\ \A x \in S : \E i \in DOMAIN InOrder(S) : InOrder(S)[i] = x
<1>1. S \subseteq Nat /\ IsFiniteSet(S) BY ServicesAssumption, FS_Subset
<1>. QED BY <1>1, InOrderEnumerates

\* What the three forms of depends_on hold.
LEMMA DependsForms ==
    ASSUME NEW svc, svc.depends_on \in DependsOn
    PROVE  /\ svc.depends_on.form \in {"empty", "list", "map"}
           /\ svc.depends_on.form = "list" => svc.depends_on.names \in Seq(Services)
           /\ svc.depends_on.form = "map" =>
                 /\ DOMAIN svc.depends_on.specs \subseteq Services
                 /\ \A s \in DOMAIN svc.depends_on.specs :
                      svc.depends_on.specs[s] \in DependsCondition
BY DEF DependsOn, Partial

\* What a service depends on, and what it wants healthy.
LEMMA DepsShape ==
    ASSUME NEW svc, svc.depends_on \in DependsOn
    PROVE  DepsOf(svc) \in Seq(Dependency)
<1>1. CASE svc.depends_on.form = "empty"
  <2>1. DepsOf(svc) = <<>> BY <1>1 DEF DepsOf
  <2>. QED BY <2>1
<1>2. CASE svc.depends_on.form = "list"
  <2>1. DepsOf(svc) = [i \in DOMAIN svc.depends_on.names |-> <<svc.depends_on.names[i], "started">>]
    BY <1>2 DEF DepsOf, ForEach
  <2>2. svc.depends_on.names \in Seq(Services) BY <1>2, DependsForms
  <2>. QED BY <2>1, <2>2 DEF Dependency, DependsCondition
<1>3. CASE svc.depends_on.form = "map"
  <2>. DEFINE specs == svc.depends_on.specs  q == InOrder(DOMAIN specs)
  <2>1. DepsOf(svc) = [i \in DOMAIN q |-> <<q[i], specs[q[i]]>>]
    BY <1>3 DEF DepsOf, ForEach
  <2>2. DOMAIN specs \subseteq Services /\ \A s \in DOMAIN specs : specs[s] \in DependsCondition
    BY <1>3, DependsForms
  <2>3. q \in Seq(DOMAIN specs) BY <2>2, InOrderOf
  <2>. HIDE DEF q, specs
  <2>4. \A i \in DOMAIN q : <<q[i], specs[q[i]]>> \in Dependency BY <2>2, <2>3 DEF Dependency
  <2>. QED BY <2>1, <2>3, <2>4
<1>. QED BY <1>1, <1>2, <1>3, DependsForms

\* A list asks for no health, and a map says it of each service once.
LEMMA HealthyShape ==
    ASSUME NEW svc, svc.depends_on \in DependsOn
    PROVE  /\ HealthyDependencies(svc) \in Seq(Services)
           /\ \A i \in DOMAIN DepsOf(svc) : DepsOf(svc)[i][2] = "healthy" =>
                 \E j \in DOMAIN HealthyDependencies(svc) :
                   HealthyDependencies(svc)[j] = DepsOf(svc)[i][1]
           /\ \A j \in DOMAIN HealthyDependencies(svc) :
                 \E i \in DOMAIN DepsOf(svc) :
                   DepsOf(svc)[i] = <<HealthyDependencies(svc)[j], "healthy">>
<1>1. CASE svc.depends_on.form # "map"
  <2>1. HealthyDependencies(svc) = <<>> BY <1>1 DEF HealthyDependencies
  <2>2. CASE svc.depends_on.form = "list"
    <3>1. DepsOf(svc) =
             [i \in DOMAIN svc.depends_on.names |-> <<svc.depends_on.names[i], "started">>]
      BY <2>2 DEF DepsOf, ForEach
    <3>. QED BY <2>1, <3>1
  <2>3. CASE svc.depends_on.form = "empty"
    <3>1. DepsOf(svc) = <<>> BY <2>3 DEF DepsOf
    <3>. QED BY <2>1, <3>1
  <2>. QED BY <1>1, <2>2, <2>3, DependsForms
<1>2. CASE svc.depends_on.form = "map"
  <2>. DEFINE specs == svc.depends_on.specs  q == InOrder(DOMAIN specs)
              H == {s \in DOMAIN specs : specs[s] = "healthy"}  h == InOrder(H)
  <2>1. DepsOf(svc) = [i \in DOMAIN q |-> <<q[i], specs[q[i]]>>]
    BY <1>2 DEF DepsOf, ForEach
  <2>2. HealthyDependencies(svc) = h BY <1>2 DEF HealthyDependencies
  <2>3. DOMAIN specs \subseteq Services BY <1>2, DependsForms
  <2>4. q \in Seq(DOMAIN specs) /\ \A x \in DOMAIN specs : \E i \in DOMAIN q : q[i] = x
    BY <2>3, InOrderOf
  <2>5. H \subseteq Services BY <2>3
  <2>6. h \in Seq(H) /\ \A x \in H : \E i \in DOMAIN h : h[i] = x BY <2>5, InOrderOf
  <2>7. \A x : x \in H <=> x \in DOMAIN specs /\ specs[x] = "healthy" OBVIOUS
  <2>. HIDE DEF q, specs, H, h
  <2>8. \A i \in DOMAIN q : q[i] \in DOMAIN specs BY <2>4
  <2>9. \A i \in DOMAIN h : h[i] \in H BY <2>6
  <2>10. h \in Seq(Services) BY <2>5, <2>6
  <2>11. ASSUME NEW i \in DOMAIN q, specs[q[i]] = "healthy" PROVE \E j \in DOMAIN h : h[j] = q[i]
    <3>1. q[i] \in H BY <2>7, <2>8, <2>11
    <3>. QED BY <2>6, <3>1
  <2>12. ASSUME NEW j \in DOMAIN h
         PROVE \E i \in DOMAIN q : <<q[i], specs[q[i]]>> = <<h[j], "healthy">>
    <3>1. h[j] \in DOMAIN specs /\ specs[h[j]] = "healthy" BY <2>7, <2>9
    <3>2. PICK i \in DOMAIN q : q[i] = h[j] BY <2>4, <3>1
    <3>. QED BY <3>1, <3>2
  <2>. QED BY <2>1, <2>2, <2>10, <2>11, <2>12
<1>. QED BY <1>1, <1>2

\* A function on the places of a sequence is a sequence.
LEMMA IsSequence ==
    ASSUME NEW T, NEW q \in Seq(T), NEW S, NEW f, f \in [DOMAIN q -> S]
    PROVE  f \in Seq(S) /\ DOMAIN f = DOMAIN q
<1>1. DOMAIN q = 1..Len(q) /\ Len(q) \in Nat OBVIOUS
<1>. QED BY <1>1

Needs(active, s) == {d[1] : d \in ToSet(DepsOf(active[s]))}
GraphOf(g, active) ==
    /\ IsGraph(g) /\ g.names = DOMAIN active
    /\ \A e \in DOMAIN g.edges : g.edges[e].from \in Needs(active, g.edges[e].to)
    /\ \A s \in DOMAIN active : \A d \in Needs(active, s) :
          \E e \in DOMAIN g.edges : g.edges[e].to = s /\ g.edges[e].from = d

\* BuildGraph fails exactly when a service needs one that is not selected, and
\* otherwise has one edge or more for each thing a service needs.
LEMMA GraphBuilt ==
    ASSUME NEW active, Selectable(active)
    PROVE  /\ BuildGraph(active).ok \in BOOLEAN
           /\ (\A s \in DOMAIN active : Needs(active, s) \subseteq DOMAIN active) =>
                BuildGraph(active).ok
           /\ BuildGraph(active).ok =>
                 /\ GraphOf(BuildGraph(active).val, active)
                 /\ \A s \in DOMAIN active : Needs(active, s) \subseteq DOMAIN active
<1>. DEFINE A == DOMAIN active  q == InOrder(A)
            Edge == [from : Services, to : Services, kind : DependsCondition]
            piece_(s) == [i \in DOMAIN DepsOf(active[s]) |->
                            [from |-> DepsOf(active[s])[i][1], to |-> s,
                              kind |-> DepsOf(active[s])[i][2]]]
            pieces == [m \in DOMAIN q |-> piece_(q[m])]
            edges == FlattenSeq(pieces)
            g == [names |-> A, edges |-> edges,
                  in_degree |-> [s \in A |-> Cardinality({i \in DOMAIN edges : edges[i].to = s})]]
<1>1. BuildGraph(active) = IF \E i \in DOMAIN edges : edges[i].from \notin A
                           THEN Err("MissingDependency") ELSE Ok(g)
  BY DEF BuildGraph, ForEach
<1>2. A \subseteq Services /\ A \subseteq Nat /\ IsFiniteSet(A) /\ q \in Seq(A)
      /\ \A x \in A : \E i \in DOMAIN q : q[i] = x
  BY InOrderOf DEF Selectable
<1>3. ASSUME NEW s \in A PROVE piece_(s) \in Seq(Edge) /\ DepsOf(active[s]) \in Seq(Dependency)
  <2>1. DepsOf(active[s]) \in Seq(Dependency) BY DepsShape DEF Selectable
  <2>2. s \in Services BY <1>2
  <2>3. \A i \in DOMAIN DepsOf(active[s]) : DepsOf(active[s])[i] \in Dependency BY <2>1
  <2>4. \A i \in DOMAIN DepsOf(active[s]) :
            [from |-> DepsOf(active[s])[i][1], to |-> s, kind |-> DepsOf(active[s])[i][2]] \in Edge
    BY <2>2, <2>3 DEF Dependency
  <2>. HIDE DEF Edge
  <2>. QED BY <2>1, <2>4
<1>4. \A s \in A : /\ DOMAIN piece_(s) = DOMAIN DepsOf(active[s])
                   /\ \A i \in DOMAIN piece_(s) : /\ piece_(s)[i].from = DepsOf(active[s])[i][1]
                                                  /\ piece_(s)[i].to = s
  OBVIOUS
<1>. HIDE DEF piece_, Edge
<1>5. pieces \in Seq(Seq(Edge)) /\ DOMAIN pieces = DOMAIN q
  <2>. HIDE DEF q
  <2>1. \A m \in DOMAIN q : q[m] \in A BY <1>2
  <2>2. \A m \in DOMAIN q : piece_(q[m]) \in Seq(Edge) BY <1>3, <2>1
  <2>3. pieces \in [DOMAIN q -> Seq(Edge)] BY <2>2
  <2>. HIDE DEF pieces
  <2>. QED BY <2>3, <1>2, IsSequence
<1>6. \A m \in DOMAIN q : pieces[m] = piece_(q[m]) /\ q[m] \in A BY <1>2
<1>. HIDE DEF pieces, q
<1>7. edges \in Seq(Edge) BY <1>5, FlattenSpreads
<1>8. PICK piece, at : Spread(pieces, edges, piece, at) BY <1>5, FlattenSpreads
<1>9. ASSUME NEW e \in DOMAIN edges
      PROVE  edges[e].to \in A /\ edges[e].from \in Needs(active, edges[e].to)
  <2>1. piece[e] \in DOMAIN q /\ at[e] \in DOMAIN pieces[piece[e]]
          /\ edges[e] = pieces[piece[e]][at[e]]
    BY <1>5, <1>8 DEF Spread
  <2>. DEFINE s == q[piece[e]]  i == at[e]
  <2>2. s \in A /\ i \in DOMAIN piece_(s) /\ edges[e] = piece_(s)[i] BY <2>1, <1>6
  <2>. HIDE DEF s, i, edges
  <2>3. edges[e].to = s /\ edges[e].from = DepsOf(active[s])[i][1] /\ i \in DOMAIN DepsOf(active[s])
    BY <2>2, <1>4
  <2>. QED BY <2>2, <2>3 DEF Needs, ToSet
<1>10. ASSUME NEW s \in A, NEW d \in Needs(active, s)
       PROVE  \E e \in DOMAIN edges : edges[e].to = s /\ edges[e].from = d
  <2>1. PICK i \in DOMAIN DepsOf(active[s]) : d = DepsOf(active[s])[i][1] BY DEF Needs, ToSet
  <2>2. PICK m \in DOMAIN q : q[m] = s BY <1>2
  <2>3. i \in DOMAIN pieces[m] BY <2>1, <2>2, <1>4, <1>6
  <2>4. PICK e \in DOMAIN edges : piece[e] = m /\ at[e] = i BY <1>5, <1>8, <2>2, <2>3 DEF Spread
  <2>5. edges[e] = pieces[m][i] BY <1>8, <2>4 DEF Spread
  <2>6. edges[e] = piece_(s)[i] /\ i \in DOMAIN piece_(s) BY <2>5, <2>2, <1>6, <1>4, <2>1
  <2>. HIDE DEF edges
  <2>7. edges[e].to = s /\ edges[e].from = d BY <2>6, <1>4, <2>1
  <2>. QED BY <2>7
<1>11. IsFiniteSet(DOMAIN edges)
  <2>1. DOMAIN edges = 1..Len(edges) /\ Len(edges) \in Nat BY <1>7
  <2>. HIDE DEF edges
  <2>2. 1 \in Int /\ Len(edges) \in Int BY <2>1
  <2>. QED BY <2>1, <2>2, FS_Interval
<1>12. g.names = A /\ g.edges = edges
       /\ g.in_degree = [s \in A |-> Cardinality({i \in DOMAIN edges : edges[i].to = s})]
  OBVIOUS
<1>. HIDE DEF edges, g
<1>13. ASSUME \A i \in DOMAIN edges : edges[i].from \in A
       PROVE  GraphOf(g, active) /\ \A s \in A : Needs(active, s) \subseteq A
  <2>1. IsGraph(g) BY <1>2, <1>9, <1>11, <1>12, <1>13 DEF IsGraph
  <2>2. \A s \in A : Needs(active, s) \subseteq A
    <3>. SUFFICES ASSUME NEW s \in A, NEW d \in Needs(active, s) PROVE d \in A OBVIOUS
    <3>1. PICK e \in DOMAIN edges : edges[e].to = s /\ edges[e].from = d BY <1>10
    <3>. QED BY <3>1, <1>13
  <2>. QED BY <2>1, <2>2, <1>9, <1>10, <1>12 DEF GraphOf
<1>14. ASSUME \A s \in A : Needs(active, s) \subseteq A
       PROVE  \A i \in DOMAIN edges : edges[i].from \in A
  BY <1>9, <1>14
<1>15. CASE \E i \in DOMAIN edges : edges[i].from \notin A
  <2>1. BuildGraph(active).ok = FALSE BY <1>1, <1>15 DEF Err
  <2>. QED BY <2>1, <1>14, <1>15
<1>16. CASE \A i \in DOMAIN edges : edges[i].from \in A
  <2>1. BuildGraph(active).ok = TRUE /\ BuildGraph(active).val = g BY <1>1, <1>16 DEF Ok
  <2>. QED BY <2>1, <1>13, <1>16
<1>. QED BY <1>15, <1>16
-----------------------------------------------------------------------------
(* The waves of a graph: every service once, after all it depends on.       *)
\* Waves that hold each service once, after all it depends on.
Layered(active, waves) ==
    /\ waves \in Seq(Seq(DOMAIN active))
    /\ \A n \in DOMAIN active : \E k \in DOMAIN waves : \E i \in DOMAIN waves[k] : waves[k][i] = n
    /\ \A k, m \in DOMAIN waves : \A i \in DOMAIN waves[k], j \in DOMAIN waves[m] :
          waves[k][i] = waves[m][j] => k = m /\ i = j
    /\ \A k \in DOMAIN waves : \A i \in DOMAIN waves[k] : \A d \in Needs(active, waves[k][i]) :
          \E m \in 1..(k - 1) : \E j \in DOMAIN waves[m] : waves[m][j] = d

\* A wave lists services of the graph, none twice.
LEMMA WaveSubset ==
    ASSUME NEW g, IsGraph(g), NEW k \in Nat
    PROVE  /\ Wave(g, k) \subseteq g.names /\ InOrder(Wave(g, k)) \in Seq(Wave(g, k))
           /\ \A i, j \in DOMAIN InOrder(Wave(g, k)) :
                 InOrder(Wave(g, k))[i] = InOrder(Wave(g, k))[j] => i = j
           /\ \A n \in Wave(g, k) : \E i \in DOMAIN InOrder(Wave(g, k)) : InOrder(Wave(g, k))[i] = n
<1>1. Wave(g, k) \in SUBSET g.names BY WaveMembers
<1>2. Wave(g, k) \subseteq Nat /\ IsFiniteSet(Wave(g, k)) BY <1>1, FS_Subset DEF IsGraph
<1>. DEFINE q == InOrder(Wave(g, k))
<1>3. /\ q \in Seq(Wave(g, k)) /\ \A i, j \in DOMAIN q : i < j => q[i] < q[j]
      /\ \A n \in Wave(g, k) : \E i \in DOMAIN q : q[i] = n
  BY <1>2, InOrderEnumerates
<1>. HIDE DEF q
<1>4. ASSUME NEW i \in DOMAIN q, NEW j \in DOMAIN q, q[i] = q[j] PROVE i = j
  <2>1. i \in Int /\ j \in Int /\ q[i] \in Int /\ q[j] \in Int BY <1>3, <1>2
  <2>2. ~(i < j) /\ ~(j < i)
    <3>1. i < j => q[i] < q[j] BY <1>3
    <3>2. j < i => q[j] < q[i] BY <1>3
    <3>. QED BY <3>1, <3>2, <2>1, <1>4
  <2>. QED BY <2>1, <2>2
<1>. QED BY <1>1, <1>3, <1>4 DEF q

\* The waves of a graph layer its services, and fail only when some are left over.
LEMMA WavesLayer ==
    ASSUME NEW active, NEW g, GraphOf(g, active)
    PROVE  /\ TopologicalWaves(g).ok \in BOOLEAN /\ (TopologicalWaves(g).ok <=> Stuck(g) = {})
           /\ TopologicalWaves(g).ok => Layered(active, TopologicalWaves(g).val)
<1>1. IsGraph(g) /\ g.names = DOMAIN active BY DEF GraphOf
<1>2. CASE Stuck(g) # {}
  <2>1. TopologicalWaves(g).ok = FALSE BY <1>1, <1>2, WavesAnswer
  <2>. QED BY <1>2, <2>1
<1>3. CASE Stuck(g) = {}
  <2>1. PICK d \in Nat : /\ TopologicalWaves(g) = Ok([k \in 1..d |-> InOrder(Wave(g, k - 1))])
                         /\ \A n \in g.names : \E k \in 1..d : n \in Wave(g, k - 1)
    BY <1>1, <1>3, WavesAnswer
  <2>. DEFINE waves == [k \in 1..d |-> InOrder(Wave(g, k - 1))]
  <2>2. TopologicalWaves(g).ok = TRUE /\ TopologicalWaves(g).val = waves BY <2>1 DEF Ok
  <2>3. ASSUME NEW k \in 1..d
        PROVE  /\ k - 1 \in Nat /\ waves[k] = InOrder(Wave(g, k - 1))
               /\ waves[k] \in Seq(DOMAIN active)
               /\ \A i \in DOMAIN waves[k] :
                    waves[k][i] \in Wave(g, k - 1) /\ waves[k][i] \in g.names
               /\ \A i, j \in DOMAIN waves[k] : waves[k][i] = waves[k][j] => i = j
               /\ \A n \in Wave(g, k - 1) : \E i \in DOMAIN waves[k] : waves[k][i] = n
    <3>1. k - 1 \in Nat /\ waves[k] = InOrder(Wave(g, k - 1)) OBVIOUS
    <3>. DEFINE W == Wave(g, k - 1)
    <3>2. /\ W \subseteq g.names /\ waves[k] \in Seq(W)
          /\ \A i, j \in DOMAIN waves[k] : waves[k][i] = waves[k][j] => i = j
          /\ \A n \in W : \E i \in DOMAIN waves[k] : waves[k][i] = n
      BY <1>1, <3>1, WaveSubset
    <3>. HIDE DEF W, waves
    <3>3. \A i \in DOMAIN waves[k] : waves[k][i] \in W /\ waves[k][i] \in g.names BY <3>2
    <3>4. waves[k] \in Seq(DOMAIN active) BY <3>2, <1>1
    <3>. QED BY <3>1, <3>2, <3>3, <3>4 DEF W
  <2>4. DOMAIN waves = 1..d /\ waves \in Seq(Seq(DOMAIN active))
    <3>1. waves \in [1..d -> Seq(DOMAIN active)] BY <2>3
    <3>. HIDE DEF waves
    <3>. QED BY <3>1
  <2>. HIDE DEF waves
  <2>5. \A n \in DOMAIN active : \E k \in 1..d : \E i \in DOMAIN waves[k] : waves[k][i] = n
    BY <1>1, <2>1, <2>3
  <2>6. ASSUME NEW k \in 1..d, NEW m \in 1..d, NEW i \in DOMAIN waves[k], NEW j \in DOMAIN waves[m],
               waves[k][i] = waves[m][j]
        PROVE  k = m /\ i = j
    <3>1. waves[k][i] \in Wave(g, k - 1) /\ waves[k][i] \in Wave(g, m - 1) /\ k - 1 \in Nat
            /\ m - 1 \in Nat
      BY <2>3, <2>6
    <3>2. k - 1 = m - 1 BY <1>1, <3>1, OneWave
    <3>3. k = m BY <3>2
    <3>. QED BY <3>3, <2>3, <2>6
  <2>7. ASSUME NEW k \in 1..d, NEW i \in DOMAIN waves[k], NEW x \in Needs(active, waves[k][i])
        PROVE  \E m \in 1..(k - 1) : \E j \in DOMAIN waves[m] : waves[m][j] = x
    <3>1. k - 1 \in Nat /\ waves[k][i] \in Wave(g, k - 1) /\ waves[k][i] \in DOMAIN active
      BY <1>1, <2>3
    <3>2. PICK e \in DOMAIN g.edges : g.edges[e].to = waves[k][i] /\ g.edges[e].from = x
      BY <3>1 DEF GraphOf
    <3>3. Open(g, k - 1, waves[k][i]) = {} BY <1>1, <3>1, WaveMembers
    <3>4. x \in Before(g, k - 1) BY <3>2, <3>3 DEF Open
    <3>5. PICK h \in 0..((k - 1) - 1) : x \in Wave(g, h) BY <3>4 DEF Before
    <3>6. h + 1 \in 1..(k - 1) /\ h + 1 \in 1..d /\ (h + 1) - 1 = h BY <3>1
    <3>7. x \in Wave(g, (h + 1) - 1) BY <3>5, <3>6
    <3>8. \E j \in DOMAIN waves[h + 1] : waves[h + 1][j] = x BY <2>3, <3>6, <3>7
    <3>. QED BY <3>6, <3>8
  <2>8. Layered(active, waves) BY <2>4, <2>5, <2>6, <2>7 DEF Layered
  <2>. QED BY <1>3, <2>2, <2>8
<1>. QED BY <1>2, <1>3
-----------------------------------------------------------------------------
(* Barriers: whom a wave is the first to want healthy.                      *)
\* The elements of s at the places I, in their order.
Picks(q, s, I, h) ==
    /\ h \in Seq(I) /\ DOMAIN q = DOMAIN h
    /\ \A i \in DOMAIN q : q[i] = s[h[i]]
    /\ \A i, j \in DOMAIN q : i < j => h[i] < h[j]
    /\ \A x \in I : \E i \in DOMAIN q : h[i] = x
\* AtPlaces keeps the elements at the places it is given, in their order.
LEMMA AtPlacesPicks ==
    ASSUME NEW S, NEW s \in Seq(S), NEW I \in SUBSET DOMAIN s
    PROVE  AtPlaces(s, I) \in Seq(S) /\ \E h : Picks(AtPlaces(s, I), s, I, h)
<1>1. DOMAIN s = 1..Len(s) /\ Len(s) \in Nat OBVIOUS
<1>2. IsFiniteSet(DOMAIN s)
  <2>1. 1 \in Int /\ Len(s) \in Int BY <1>1
  <2>. QED BY <1>1, <2>1, FS_Interval
<1>3. I \subseteq Nat /\ IsFiniteSet(I) BY <1>1, <1>2, FS_Subset
<1>. DEFINE h == InOrder(I)  q == AtPlaces(s, I)
<1>4. /\ h \in Seq(I) /\ \A i, j \in DOMAIN h : i < j => h[i] < h[j]
      /\ \A x \in I : \E i \in DOMAIN h : h[i] = x
  BY <1>3, InOrderEnumerates
<1>5. q = [i \in DOMAIN h |-> s[h[i]]] BY DEF AtPlaces, ForEach
<1>. HIDE DEF h, q
<1>6. \A i \in DOMAIN h : h[i] \in DOMAIN s BY <1>4
<1>7. \A i \in DOMAIN h : s[h[i]] \in S BY <1>6
<1>8. q \in [DOMAIN h -> S] BY <1>5, <1>7
<1>9. q \in Seq(S) BY <1>4, <1>8, IsSequence
<1>10. Picks(q, s, I, h) BY <1>4, <1>5 DEF Picks
<1>. QED BY <1>9, <1>10 DEF q

Wants(active, s) == ToSet(HealthyDependencies(active[s]))
WantedBy(active, wave) == UNION {Wants(active, wave[i]) : i \in DOMAIN wave}

\* What the services of wave k want healthy.
LEMMA WantedShape ==
    ASSUME NEW active, Selectable(active), NEW waves, Layered(active, waves), NEW k \in DOMAIN waves
    PROVE  /\ Wanted_(waves, k, active) \in Seq(Services)
           /\ ToSet(Wanted_(waves, k, active)) = WantedBy(active, waves[k])
<1>. DEFINE wave == waves[k]
            pieces == [i \in DOMAIN wave |-> HealthyDependencies(active[wave[i]])]
            flat == Wanted_(waves, k, active)
<1>1. flat = FlattenSeq(pieces) BY DEF Wanted_, ForEach
<1>2. wave \in Seq(DOMAIN active) BY DEF Layered
<1>3. \A i \in DOMAIN wave : wave[i] \in DOMAIN active BY <1>2
<1>4. \A i \in DOMAIN wave : pieces[i] \in Seq(Services) BY <1>3, HealthyShape DEF Selectable
<1>5. pieces \in Seq(Seq(Services)) /\ DOMAIN pieces = DOMAIN wave
  <2>. HIDE DEF wave
  <2>1. pieces \in [DOMAIN wave -> Seq(Services)] BY <1>4
  <2>. HIDE DEF pieces
  <2>. QED BY <1>2, <2>1, IsSequence
<1>6. \A i \in DOMAIN wave : Wants(active, wave[i]) = {pieces[i][j] : j \in DOMAIN pieces[i]}
  BY DEF Wants, ToSet
<1>. HIDE DEF pieces, wave, flat
<1>7. flat \in Seq(Services) BY <1>1, <1>5, FlattenSpreads
<1>8. PICK piece, at : Spread(pieces, flat, piece, at) BY <1>1, <1>5, FlattenSpreads
<1>9. ASSUME NEW p \in DOMAIN flat PROVE flat[p] \in WantedBy(active, wave)
  <2>1. piece[p] \in DOMAIN wave /\ at[p] \in DOMAIN pieces[piece[p]]
          /\ flat[p] = pieces[piece[p]][at[p]]
    BY <1>5, <1>8 DEF Spread
  <2>2. flat[p] \in Wants(active, wave[piece[p]]) BY <1>6, <2>1
  <2>. QED BY <2>1, <2>2 DEF WantedBy
<1>10. ASSUME NEW d \in WantedBy(active, wave) PROVE \E p \in DOMAIN flat : flat[p] = d
  <2>1. PICK i \in DOMAIN wave : d \in Wants(active, wave[i]) BY DEF WantedBy
  <2>2. PICK j \in DOMAIN pieces[i] : d = pieces[i][j] BY <1>6, <2>1
  <2>3. PICK p \in DOMAIN flat : piece[p] = i /\ at[p] = j BY <1>5, <1>8, <2>1, <2>2 DEF Spread
  <2>4. flat[p] = pieces[i][j] BY <1>8, <2>3 DEF Spread
  <2>. QED BY <2>2, <2>4
<1>11. ToSet(flat) = WantedBy(active, wave)
  <2>1. \A d \in ToSet(flat) : d \in WantedBy(active, wave) BY <1>9 DEF ToSet
  <2>2. \A d \in WantedBy(active, wave) : d \in ToSet(flat) BY <1>10 DEF ToSet
  <2>. QED BY <2>1, <2>2
<1>. QED BY <1>7, <1>11 DEF wave, flat

\* Whom wave k is the first to want healthy: what its barriers are for.
Fresh(active, waves, k) ==
    {d \in WantedBy(active, waves[k]) : \A m \in 1..(k - 1) : d \notin WantedBy(active, waves[m])}
WaitOp(project, d) == [op |-> "wait", service |-> d, name |-> ContainerName(project, d)]
WaitsFor(f, project) == [i \in DOMAIN f |-> WaitOp(project, f[i])]
BarriersOf(f, active, waves, k) ==
    /\ f \in Seq(Services)
    /\ \A i \in DOMAIN f : f[i] \in Fresh(active, waves, k)
    /\ \A i, j \in DOMAIN f : f[i] = f[j] => i = j
    /\ \A d \in Fresh(active, waves, k) : \E i \in DOMAIN f : f[i] = d

\* The barriers of wave k: one for each service it is the first to want healthy.
LEMMA WaitOpsShape ==
    ASSUME NEW active, Selectable(active), NEW waves, Layered(active, waves),
             NEW k \in DOMAIN waves,
           NEW project
    PROVE  \E f : /\ WaitOps(waves, k, active, project) = WaitsFor(f, project)
                  /\ BarriersOf(f, active, waves, k)
<1>. DEFINE wanted == Wanted_(waves, k, active)
            emitted == UNION {ToSet(Wanted_(waves, j, active)) : j \in 1..(k - 1)}
            I == {i \in DOMAIN wanted : /\ wanted[i] \notin emitted
                                        /\ \A h \in 1..(i - 1) : wanted[h] # wanted[i]}
            f == AtPlaces(wanted, I)
<1>1. WaitOps(waves, k, active, project) = WaitsFor(f, project)
  BY DEF WaitOps, WaitOp, WaitsFor, ForEach
<1>2. wanted \in Seq(Services) /\ ToSet(wanted) = WantedBy(active, waves[k]) BY WantedShape
<1>3. k \in Nat /\ \A m \in 1..(k - 1) : m \in DOMAIN waves
  <2>1. waves \in Seq(Seq(DOMAIN active)) BY DEF Layered
  <2>2. DOMAIN waves = 1..Len(waves) /\ Len(waves) \in Nat BY <2>1
  <2>. QED BY <2>2
<1>4. \A d : d \in emitted <=> \E m \in 1..(k - 1) : d \in WantedBy(active, waves[m])
  <2>1. \A m \in 1..(k - 1) : ToSet(Wanted_(waves, m, active)) = WantedBy(active, waves[m])
    BY <1>3, WantedShape
  <2>2. \A d : d \in emitted <=> \E m \in 1..(k - 1) : d \in ToSet(Wanted_(waves, m, active))
    OBVIOUS
  <2>. QED BY <2>1, <2>2
<1>. HIDE DEF emitted, wanted
<1>5. I \in SUBSET DOMAIN wanted OBVIOUS
<1>6. \A i : i \in I <=> /\ i \in DOMAIN wanted /\ wanted[i] \notin emitted
                         /\ \A h \in 1..(i - 1) : wanted[h] # wanted[i]
  OBVIOUS
<1>. HIDE DEF I
<1>7. f \in Seq(Services) BY <1>2, <1>5, AtPlacesPicks
<1>8. PICK h : Picks(f, wanted, I, h) BY <1>2, <1>5, AtPlacesPicks
<1>. HIDE DEF f
<1>9. DOMAIN wanted \subseteq Nat BY <1>2
<1>10. \A i \in DOMAIN f : h[i] \in I /\ f[i] = wanted[h[i]] BY <1>8 DEF Picks
<1>11. \A d : d \in Fresh(active, waves, k) <=> d \in ToSet(wanted) /\ d \notin emitted
  BY <1>2, <1>4 DEF Fresh
<1>12. ASSUME NEW i \in DOMAIN f PROVE f[i] \in Fresh(active, waves, k)
  <2>1. h[i] \in DOMAIN wanted /\ wanted[h[i]] \notin emitted BY <1>6, <1>10
  <2>2. wanted[h[i]] \in ToSet(wanted) BY <2>1 DEF ToSet
  <2>. QED BY <2>1, <2>2, <1>10, <1>11
<1>13. ASSUME NEW i \in DOMAIN f, NEW j \in DOMAIN f, f[i] = f[j] PROVE i = j
  <2>1. h[i] \in I /\ h[j] \in I /\ wanted[h[i]] = wanted[h[j]] BY <1>10, <1>13
  <2>2. h[i] \in Nat /\ h[j] \in Nat /\ h[i] # 0 /\ h[j] # 0
    <3>1. 0 \notin DOMAIN wanted BY <1>2
    <3>. QED BY <2>1, <3>1, <1>6, <1>9
  <2>3. ~(h[i] < h[j]) /\ ~(h[j] < h[i])
    <3>1. \A a, b \in I : a \in Nat \ {0} /\ b \in Nat /\ a < b => a \in 1..(b - 1) OBVIOUS
    <3>2. \A b \in I : \A a \in 1..(b - 1) : wanted[a] # wanted[b] BY <1>6
    <3>. QED BY <3>1, <3>2, <2>1, <2>2
  <2>4. i \in Int /\ j \in Int BY <1>7
  <2>5. (i < j => h[i] < h[j]) /\ (j < i => h[j] < h[i]) BY <1>8 DEF Picks
  <2>. QED BY <2>3, <2>4, <2>5
<1>14. ASSUME NEW d \in Fresh(active, waves, k) PROVE \E i \in DOMAIN f : f[i] = d
  <2>. DEFINE B == {i \in DOMAIN wanted : wanted[i] = d}
  <2>1. B # {} /\ B \subseteq Nat BY <1>9, <1>11 DEF ToSet
  <2>2. PICK b \in B : \A c \in B : b <= c BY <2>1, LeastNatural
  <2>3. b \in DOMAIN wanted /\ wanted[b] = d /\ d \notin emitted BY <1>11, <2>2
  <2>4. \A c \in 1..(b - 1) : wanted[c] # wanted[b]
    <3>1. \A c \in 1..(b - 1) : c \in DOMAIN wanted /\ ~(b <= c) BY <2>3, <1>2
    <3>. QED BY <3>1, <2>2, <2>3
  <2>5. b \in I BY <1>6, <2>3, <2>4
  <2>6. PICK i \in DOMAIN f : h[i] = b BY <1>8, <2>5 DEF Picks
  <2>. QED BY <2>3, <2>6, <1>10
<1>15. BarriersOf(f, active, waves, k) BY <1>7, <1>12, <1>13, <1>14 DEF BarriersOf
<1>. QED BY <1>1, <1>15
-----------------------------------------------------------------------------
(* The operations of the waves.                                             *)
\* Where ops says kind of s, and what the planner owes of it.
Says(ops, i, kind, s) == ops[i].op = kind /\ ops[i].service = s
OrderedOps(active, ops) ==
    /\ \A i \in DOMAIN ops : ops[i].op = "run" => ops[i].service \in DOMAIN active
    /\ \A kind \in {"run", "wait"} : \A i, j \in DOMAIN ops : \A s :
          Says(ops, i, kind, s) /\ Says(ops, j, kind, s) => i = j
    /\ \A s \in DOMAIN active : \E i \in DOMAIN ops : Says(ops, i, "run", s)
    /\ \A i \in DOMAIN ops : ops[i].op = "run" =>
          /\ \A d \in Needs(active, ops[i].service) :
               \E j \in DOMAIN ops : j < i /\ Says(ops, j, "run", d)
          /\ \A d \in Wants(active, ops[i].service) :
               \E j \in DOMAIN ops : j < i /\ Says(ops, j, "wait", d)
    /\ \A i \in DOMAIN ops : ops[i].op = "wait" =>
          \E j \in DOMAIN ops : j < i /\ Says(ops, j, "run", ops[i].service)

WaveOp(active, project) ==
    {WaitOp(project, d) : d \in Services} \cup {RunOp(project, s, active[s]) : s \in DOMAIN active}
\* The operations of a wave: barriers for f, then a run of each of its services.
WaveOf(w, f, wave, active, project) ==
    /\ f \in Seq(Services) /\ DOMAIN w = 1..(Len(f) + Len(wave))
    /\ \A i \in 1..Len(f) : w[i] = WaitOp(project, f[i])
    /\ \A i \in 1..Len(wave) : w[Len(f) + i] = RunOp(project, wave[i], active[wave[i]])
\* The fields of the two operations of a wave that the plan's order is about.
LEMMA OpFields ==
    ASSUME NEW project, NEW s, NEW svc
    PROVE  /\ WaitOp(project, s).op = "wait" /\ WaitOp(project, s).service = s
           /\ RunOp(project, s, svc).op = "run" /\ RunOp(project, s, svc).service = s
<1>1. WaitOp(project, s).op = "wait" /\ WaitOp(project, s).service = s BY DEF WaitOp
<1>2. RunOp(project, s, svc).op = "run" /\ RunOp(project, s, svc).service = s BY DEF RunOp
<1>. QED BY <1>1, <1>2

\* A wave's operations are its barriers and then a run of each of its services.
LEMMA WaveOpsShape ==
    ASSUME NEW active, Selectable(active), NEW waves, Layered(active, waves),
             NEW k \in DOMAIN waves,
           NEW project
    PROVE  /\ WaveOps(waves, k, active, project) \in Seq(WaveOp(active, project))
           /\ \E f : /\ WaveOf(WaveOps(waves, k, active, project), f, waves[k], active, project)
                     /\ BarriersOf(f, active, waves, k)
<1>. DEFINE E == WaveOp(active, project)  wave == waves[k]
            r == [i \in DOMAIN wave |-> RunOp(project, wave[i], active[wave[i]])]
<1>1. PICK f : /\ WaitOps(waves, k, active, project) = WaitsFor(f, project)
              /\ BarriersOf(f, active, waves, k)
  BY WaitOpsShape
<1>. DEFINE b == [i \in DOMAIN f |-> WaitOp(project, f[i])]
<1>a. f \in Seq(Services) BY <1>1 DEF BarriersOf
<1>2. WaveOps(waves, k, active, project) = b \o r BY <1>1 DEF WaveOps, ForEach, WaitsFor
<1>3. wave \in Seq(DOMAIN active) BY DEF Layered
<1>4. \A i \in DOMAIN f : WaitOp(project, f[i]) \in E BY <1>a DEF WaveOp
<1>5. \A i \in DOMAIN wave : wave[i] \in DOMAIN active BY <1>3
<1>6. \A i \in DOMAIN wave : RunOp(project, wave[i], active[wave[i]]) \in E BY <1>5 DEF WaveOp
<1>. HIDE DEF E, wave
<1>7. b \in [DOMAIN f -> E] /\ r \in [DOMAIN wave -> E] BY <1>4, <1>6
<1>8. \A i \in DOMAIN f : b[i] = WaitOp(project, f[i]) OBVIOUS
<1>9. \A i \in DOMAIN wave : r[i] = RunOp(project, wave[i], active[wave[i]]) OBVIOUS
<1>. HIDE DEF b, r
<1>10. b \in Seq(E) /\ DOMAIN b = DOMAIN f BY <1>a, <1>7, IsSequence
<1>11. r \in Seq(E) /\ DOMAIN r = DOMAIN wave BY <1>3, <1>7, IsSequence
<1>12. /\ Len(b) = Len(f) /\ Len(r) = Len(wave) /\ DOMAIN f = 1..Len(f)
            /\ DOMAIN wave = 1..Len(wave)
       /\ Len(f) \in Nat /\ Len(wave) \in Nat
  <2>1. DOMAIN f = 1..Len(f) /\ Len(f) \in Nat BY <1>a
  <2>2. DOMAIN wave = 1..Len(wave) /\ Len(wave) \in Nat BY <1>3
  <2>3. DOMAIN b = 1..Len(b) /\ Len(b) \in Nat BY <1>10
  <2>4. DOMAIN r = 1..Len(r) /\ Len(r) \in Nat BY <1>11
  <2>5. \A a, c \in Nat : 1..a = 1..c => a = c
    <3>. SUFFICES ASSUME NEW a \in Nat, NEW c \in Nat, 1..a = 1..c PROVE a = c OBVIOUS
    <3>1. (a # 0 => a \in 1..c) /\ (c # 0 => c \in 1..a) OBVIOUS
    <3>. QED BY <3>1
  <2>. QED BY <2>1, <2>2, <2>3, <2>4, <2>5, <1>10, <1>11
<1>13. /\ b \o r \in Seq(E) /\ DOMAIN (b \o r) = 1..(Len(b) + Len(r))
       /\ \A i \in 1..Len(b) : (b \o r)[i] = b[i]
       /\ \A i \in 1..Len(r) : (b \o r)[Len(b) + i] = r[i]
  BY <1>10, <1>11
<1>14. WaveOf(b \o r, f, wave, active, project)
  BY <1>a, <1>8, <1>9, <1>12, <1>13 DEF WaveOf
<1>. QED BY <1>1, <1>2, <1>13, <1>14 DEF wave, E

\* The parts of a plan that the waves make up.
LEMMA WavesOrdered ==
    ASSUME NEW active, Selectable(active), NEW waves, Layered(active, waves), NEW project
    PROVE  LET ops == FlattenSeq([k \in DOMAIN waves |-> WaveOps(waves, k, active, project)])
           IN  ops \in Seq(WaveOp(active, project)) /\ OrderedOps(active, ops)
<1>. DEFINE E == WaveOp(active, project)
            pieces == [k \in DOMAIN waves |-> WaveOps(waves, k, active, project)]
            ops == FlattenSeq(pieces)
            Shape(k, f) ==
                WaveOf(pieces[k], f, waves[k], active, project) /\ BarriersOf(f, active, waves, k)
            F == [k \in DOMAIN waves |-> CHOOSE f : Shape(k, f)]
            c == [k \in DOMAIN waves |-> Len(F[k])]
<1>1. waves \in Seq(Seq(DOMAIN active)) BY DEF Layered
<1>2. \A k \in DOMAIN waves : pieces[k] \in Seq(E) /\ \E f : Shape(k, f) BY WaveOpsShape
<1>3. \A k \in DOMAIN waves : Shape(k, F[k]) BY <1>2
<1>4. \A k \in DOMAIN waves : c[k] = Len(F[k]) OBVIOUS
<1>. HIDE DEF F, c, E
<1>5. pieces \in Seq(Seq(E)) /\ DOMAIN pieces = DOMAIN waves
  <2>1. pieces \in [DOMAIN waves -> Seq(E)] BY <1>2
  <2>. HIDE DEF pieces
  <2>. QED BY <1>1, <2>1, IsSequence
<1>. HIDE DEF pieces
<1>6. ops \in Seq(E) BY <1>5, FlattenSpreads
<1>7. PICK piece, at : Spread(pieces, ops, piece, at) BY <1>5, FlattenSpreads
<1>. HIDE DEF ops
\* What piece k holds.
<1>8. ASSUME NEW k \in DOMAIN waves
      PROVE  /\ c[k] \in Nat /\ Len(waves[k]) \in Nat /\ DOMAIN waves[k] = 1..Len(waves[k])
                  /\ k \in Nat
             /\ DOMAIN F[k] = 1..c[k] /\ DOMAIN pieces[k] = 1..(c[k] + Len(waves[k]))
             /\ \A i \in 1..c[k] : pieces[k][i].op = "wait" /\ pieces[k][i].service = F[k][i]
             /\ \A i \in DOMAIN waves[k] : /\ pieces[k][c[k] + i].op = "run"
                                           /\ pieces[k][c[k] + i].service = waves[k][i]
                                           /\ c[k] + i \in DOMAIN pieces[k]
             /\ \A i \in 1..c[k] : i \in DOMAIN pieces[k]
             /\ \A i \in DOMAIN waves[k] : waves[k][i] \in DOMAIN active
  <2>. DEFINE wave == waves[k]  f == F[k]  w == pieces[k]  a == c[k]
  <2>1. WaveOf(w, f, wave, active, project) BY <1>3
  <2>2. wave \in Seq(DOMAIN active) /\ k \in Nat BY <1>1
  <2>3. a = Len(f) BY <1>4
  <2>. HIDE DEF wave, f, w, a
  <2>4. f \in Seq(Services) /\ DOMAIN w = 1..(Len(f) + Len(wave)) BY <2>1 DEF WaveOf
  <2>5. Len(wave) \in Nat /\ DOMAIN wave = 1..Len(wave)
          /\ \A i \in DOMAIN wave : wave[i] \in DOMAIN active
    BY <2>2
  <2>6. a \in Nat /\ DOMAIN f = 1..a /\ DOMAIN w = 1..(a + Len(wave)) BY <2>3, <2>4
  <2>7. \A i \in 1..a : w[i].op = "wait" /\ w[i].service = f[i]
    <3>1. \A i \in 1..a : w[i] = WaitOp(project, f[i]) BY <2>1, <2>3 DEF WaveOf
    <3>. QED BY <3>1, OpFields
  <2>8. \A i \in 1..Len(wave) : w[Len(f) + i].op = "run" /\ w[Len(f) + i].service = wave[i]
    BY <2>1, OpFields DEF WaveOf
  <2>9. \A i \in DOMAIN wave :
          w[a + i].op = "run" /\ w[a + i].service = wave[i] /\ a + i \in DOMAIN w
    <3>1. \A i \in 1..Len(wave) : a + i \in 1..(a + Len(wave)) BY <2>5, <2>6
    <3>. QED BY <2>3, <2>5, <2>6, <2>8, <3>1
  <2>10. \A i \in 1..a : i \in DOMAIN w BY <2>5, <2>6
  <2>. QED BY <2>2, <2>5, <2>6, <2>7, <2>9, <2>10 DEF wave, f, w, a
<1>9. ASSUME NEW k \in DOMAIN waves PROVE BarriersOf(F[k], active, waves, k) BY <1>3
\* Every operation is one of those.
<1>10. ASSUME NEW p \in DOMAIN ops
       PROVE  /\ piece[p] \in DOMAIN waves /\ ops[p] = pieces[piece[p]][at[p]]
                   /\ at[p] \in DOMAIN pieces[piece[p]]
              /\ ops[p].op = "wait" =>
                    /\ at[p] \in 1..c[piece[p]] /\ ops[p].service = F[piece[p]][at[p]]
              /\ ops[p].op = "run" =>
                    \E i \in DOMAIN waves[piece[p]] : /\ at[p] = c[piece[p]] + i
                                                      /\ ops[p].service = waves[piece[p]][i]
              /\ ops[p].op \in {"run", "wait"}
  <2>. DEFINE k == piece[p]  j == at[p]
  <2>1. k \in DOMAIN waves /\ j \in DOMAIN pieces[k] /\ ops[p] = pieces[k][j]
    BY <1>5, <1>7 DEF Spread
  <2>. HIDE DEF k, j
  <2>. DEFINE a == c[k]  n == Len(waves[k])
  <2>2. a \in Nat /\ n \in Nat /\ j \in 1..(a + n) /\ DOMAIN waves[k] = 1..n BY <2>1, <1>8
  <2>3. CASE j <= a
    <3>1. j \in 1..a BY <2>2, <2>3
    <3>2. ops[p].op = "wait" /\ ops[p].service = F[k][j] BY <2>1, <3>1, <1>8
    <3>. QED BY <2>1, <3>1, <3>2 DEF k, j
  <2>4. CASE ~(j <= a)
    <3>. DEFINE i == j - a
    <3>1. i \in 1..n /\ j = a + i BY <2>2, <2>4
    <3>. HIDE DEF i
    <3>2. i \in DOMAIN waves[k] BY <2>2, <3>1
    <3>3. pieces[k][a + i].op = "run" /\ pieces[k][a + i].service = waves[k][i] BY <2>1, <3>2, <1>8
    <3>4. ops[p].op = "run" /\ ops[p].service = waves[k][i] BY <2>1, <3>1, <3>3
    <3>. QED BY <2>1, <3>1, <3>2, <3>4 DEF k, j
  <2>. QED BY <2>3, <2>4
\* And each is somewhere.
<1>11. ASSUME NEW k \in DOMAIN waves, NEW i \in DOMAIN waves[k]
       PROVE  \E p \in DOMAIN ops :
                Says(ops, p, "run", waves[k][i]) /\ piece[p] = k /\ at[p] = c[k] + i
  <2>1. c[k] + i \in DOMAIN pieces[k] BY <1>8
  <2>2. PICK p \in DOMAIN ops : piece[p] = k /\ at[p] = c[k] + i BY <2>1, <1>5, <1>7 DEF Spread
  <2>3. ops[p] = pieces[k][c[k] + i] BY <2>2, <1>10
  <2>4. ops[p].op = "run" /\ ops[p].service = waves[k][i] BY <2>3, <1>8
  <2>. QED BY <2>2, <2>4 DEF Says
<1>12. ASSUME NEW k \in DOMAIN waves, NEW i \in 1..c[k]
       PROVE  \E p \in DOMAIN ops : Says(ops, p, "wait", F[k][i]) /\ piece[p] = k /\ at[p] = i
  <2>1. i \in DOMAIN pieces[k] BY <1>8
  <2>2. PICK p \in DOMAIN ops : piece[p] = k /\ at[p] = i BY <2>1, <1>5, <1>7 DEF Spread
  <2>3. ops[p] = pieces[k][i] BY <2>2, <1>10
  <2>4. ops[p].op = "wait" /\ ops[p].service = F[k][i] BY <2>3, <1>8
  <2>. QED BY <2>2, <2>4 DEF Says
<1>13. \A p, q \in DOMAIN ops :
         p < q <=> piece[p] < piece[q] \/ (piece[p] = piece[q] /\ at[p] < at[q])
  BY <1>7, Zenon DEF Spread
<1>14. \A p, q \in DOMAIN ops : piece[p] = piece[q] /\ at[p] = at[q] => p = q
  <2>. SUFFICES ASSUME NEW p \in DOMAIN ops, NEW q \in DOMAIN ops, piece[p] = piece[q],
                         at[p] = at[q]
                PROVE  p = q
    OBVIOUS
  <2>1. p \in Int /\ q \in Int BY <1>6
  <2>2. piece[p] \in Int /\ at[p] \in Int BY <1>10, <1>8
  <2>3. ~(piece[p] < piece[q]) /\ ~(at[p] < at[q]) /\ ~(piece[q] < piece[p]) /\ ~(at[q] < at[p])
    BY <2>2
  <2>4. ~(p < q) /\ ~(q < p) BY <2>3, <1>13
  <2>. QED BY <2>1, <2>4
\* A dependency is run in an earlier piece.
<1>l. /\ \A k \in DOMAIN waves : \A i \in DOMAIN waves[k] : \A d \in Needs(active, waves[k][i]) :
           \E m \in 1..(k - 1) : \E j \in DOMAIN waves[m] : waves[m][j] = d
      /\ \A k, m \in DOMAIN waves : \A i \in DOMAIN waves[k], j \in DOMAIN waves[m] :
            waves[k][i] = waves[m][j] => k = m /\ i = j
  BY Zenon DEF Layered
<1>15. ASSUME NEW k \in DOMAIN waves, NEW i \in DOMAIN waves[k],
                NEW d \in Needs(active, waves[k][i]),
              NEW p \in DOMAIN ops, piece[p] = k
       PROVE  \E q \in DOMAIN ops : q < p /\ Says(ops, q, "run", d)
  <2>1. PICK m \in 1..(k - 1) : \E j \in DOMAIN waves[m] : waves[m][j] = d BY <1>l
  <2>2. m \in DOMAIN waves /\ m < k BY <1>1
  <2>3. PICK j \in DOMAIN waves[m] : waves[m][j] = d BY <2>1
  <2>4. PICK q \in DOMAIN ops : Says(ops, q, "run", waves[m][j]) /\ piece[q] = m BY <2>2, <1>11
  <2>5. q < p BY <2>2, <2>4, <1>13, <1>15
  <2>. QED BY <2>3, <2>4, <2>5
\* What a service wants healthy it needs.
<1>16. \A s \in DOMAIN active : Wants(active, s) \subseteq Needs(active, s)
  <2>. SUFFICES ASSUME NEW s \in DOMAIN active, NEW d \in Wants(active, s)
                PROVE d \in Needs(active, s)
    OBVIOUS
  <2>1. PICK j \in DOMAIN HealthyDependencies(active[s]) : HealthyDependencies(active[s])[j] = d
    BY DEF Wants, ToSet
  <2>2. PICK i \in DOMAIN DepsOf(active[s]) : DepsOf(active[s])[i] = <<d, "healthy">>
    BY <2>1, HealthyShape DEF Selectable
  <2>. QED BY <2>2 DEF Needs, ToSet
<1>17. \A k \in DOMAIN waves :
         \A i \in DOMAIN waves[k] : Wants(active, waves[k][i]) \subseteq WantedBy(active, waves[k])
  BY DEF WantedBy
\* Each is wanted for the first time by some wave, which has its barrier.
<1>18. ASSUME NEW k \in DOMAIN waves, NEW d \in WantedBy(active, waves[k])
       PROVE  \E m \in DOMAIN waves : m <= k /\ d \in Fresh(active, waves, m)
  <2>. DEFINE B == {m \in DOMAIN waves : d \in WantedBy(active, waves[m])}
  <2>1. B # {} /\ B \subseteq Nat BY <1>8
  <2>2. PICK m \in B : \A h \in B : m <= h BY <2>1, LeastNatural
  <2>3. \A h \in 1..(m - 1) : h \in DOMAIN waves /\ ~(m <= h) BY <2>2, <1>1
  <2>4. \A h \in 1..(m - 1) : d \notin WantedBy(active, waves[h]) BY <2>2, <2>3
  <2>5. d \in Fresh(active, waves, m) BY <2>2, <2>4 DEF Fresh
  <2>. QED BY <2>2, <2>5
<1>19. \A i \in DOMAIN ops : ops[i].op = "run" => ops[i].service \in DOMAIN active BY <1>8, <1>10
<1>20. ASSUME NEW p \in DOMAIN ops, NEW q \in DOMAIN ops, NEW s,
              Says(ops, p, "run", s), Says(ops, q, "run", s)
       PROVE  p = q
  <2>1. PICK i \in DOMAIN waves[piece[p]] : at[p] = c[piece[p]] + i /\ s = waves[piece[p]][i]
    BY <1>10, <1>20 DEF Says
  <2>2. PICK j \in DOMAIN waves[piece[q]] : at[q] = c[piece[q]] + j /\ s = waves[piece[q]][j]
    BY <1>10, <1>20 DEF Says
  <2>3. piece[p] \in DOMAIN waves /\ piece[q] \in DOMAIN waves BY <1>10
  <2>4. piece[p] = piece[q] /\ i = j
    <3>1. waves[piece[p]][i] = waves[piece[q]][j] BY <2>1, <2>2
    <3>. DEFINE k == piece[p]  m == piece[q]
    <3>2. k \in DOMAIN waves /\ m \in DOMAIN waves BY <2>3
    <3>3. i \in DOMAIN waves[k] /\ j \in DOMAIN waves[m] BY <2>1, <2>2
    <3>4. waves[k][i] = waves[m][j] BY <3>1
    <3>. HIDE DEF k, m
    <3>5. k = m /\ i = j BY <3>2, <3>3, <3>4, <1>l
    <3>. QED BY <3>5 DEF k, m
  <2>. QED BY <2>1, <2>2, <2>4, <1>14
<1>21. ASSUME NEW p \in DOMAIN ops, NEW q \in DOMAIN ops, NEW s,
              Says(ops, p, "wait", s), Says(ops, q, "wait", s)
       PROVE  p = q
  <2>. DEFINE k == piece[p]  m == piece[q]
  <2>1. k \in DOMAIN waves /\ m \in DOMAIN waves /\ k \in Nat /\ m \in Nat BY <1>10, <1>8
  <2>2. at[p] \in DOMAIN F[k] /\ s = F[k][at[p]]
    <3>1. ops[p].op = "wait" /\ ops[p].service = s BY <1>21 DEF Says
    <3>2. at[p] \in 1..c[k] /\ ops[p].service = F[k][at[p]] BY <3>1, <1>10
    <3>. QED BY <3>1, <3>2, <2>1, <1>8
  <2>3. at[q] \in DOMAIN F[m] /\ s = F[m][at[q]]
    <3>1. ops[q].op = "wait" /\ ops[q].service = s BY <1>21 DEF Says
    <3>2. at[q] \in 1..c[m] /\ ops[q].service = F[m][at[q]] BY <3>1, <1>10
    <3>. QED BY <3>1, <3>2, <2>1, <1>8
  <2>. HIDE DEF k, m
  <2>a. BarriersOf(F[k], active, waves, k) /\ BarriersOf(F[m], active, waves, m) BY <1>9, <2>1
  <2>b. \A i \in DOMAIN F[k] : F[k][i] \in Fresh(active, waves, k) BY <2>a DEF BarriersOf
  <2>c. \A i \in DOMAIN F[m] : F[m][i] \in Fresh(active, waves, m) BY <2>a DEF BarriersOf
  <2>d. \A i, j \in DOMAIN F[k] : F[k][i] = F[k][j] => i = j BY <2>a DEF BarriersOf
  <2>4. s \in Fresh(active, waves, k) /\ s \in Fresh(active, waves, m)
    BY <2>b, <2>c, <2>2, <2>3, Zenon
  <2>5. ~(k < m) /\ ~(m < k)
    <3>1. k < m => k \in 1..(m - 1)
      <4>1. k # 0 BY <1>1, <2>1
      <4>. QED BY <4>1, <2>1
    <3>2. m < k => m \in 1..(k - 1)
      <4>1. m # 0 BY <1>1, <2>1
      <4>. QED BY <4>1, <2>1
    <3>. QED BY <3>1, <3>2, <2>4 DEF Fresh
  <2>6. k = m BY <2>1, <2>5
  <2>7. at[p] = at[q]
    <3>1. at[q] \in DOMAIN F[k] /\ F[k][at[q]] = F[k][at[p]] BY <2>2, <2>3, <2>6
    <3>. QED BY <3>1, <2>2, <2>d
  <2>. QED BY <2>6, <2>7, <1>14 DEF k, m
<1>22. \A s \in DOMAIN active : \E p \in DOMAIN ops : Says(ops, p, "run", s)
  <2>. SUFFICES ASSUME NEW s \in DOMAIN active PROVE \E p \in DOMAIN ops : Says(ops, p, "run", s)
    OBVIOUS
  <2>1. PICK k \in DOMAIN waves : \E i \in DOMAIN waves[k] : waves[k][i] = s BY DEF Layered
  <2>2. PICK i \in DOMAIN waves[k] : waves[k][i] = s BY <2>1
  <2>. QED BY <2>2, <1>11
<1>23. ASSUME NEW p \in DOMAIN ops, ops[p].op = "run"
       PROVE  /\ \A d \in Needs(active, ops[p].service) :
                   \E q \in DOMAIN ops : q < p /\ Says(ops, q, "run", d)
              /\ \A d \in Wants(active, ops[p].service) :
                   \E q \in DOMAIN ops : q < p /\ Says(ops, q, "wait", d)
  <2>. DEFINE k == piece[p]
  <2>1. k \in DOMAIN waves BY <1>10
  <2>2. PICK i \in DOMAIN waves[k] : at[p] = c[k] + i /\ ops[p].service = waves[k][i]
    BY <1>10, <1>23
  <2>3. piece[p] = k OBVIOUS
  <2>. HIDE DEF k
  <2>4. \A d \in Needs(active, ops[p].service) :
          \E q \in DOMAIN ops : q < p /\ Says(ops, q, "run", d)
    BY <2>1, <2>2, <2>3, <1>15
  <2>5. ASSUME NEW d \in Wants(active, ops[p].service)
        PROVE  \E q \in DOMAIN ops : q < p /\ Says(ops, q, "wait", d)
    <3>1. d \in WantedBy(active, waves[k]) BY <2>1, <2>2, <2>5, <1>17
    <3>2. PICK m \in DOMAIN waves : m <= k /\ d \in Fresh(active, waves, m) BY <2>1, <3>1, <1>18
    <3>3. PICK j \in DOMAIN F[m] : F[m][j] = d BY <1>9, <3>2 DEF BarriersOf
    <3>4. j \in 1..c[m] /\ c[m] \in Nat /\ m \in Nat /\ k \in Nat BY <1>8, <2>1, <3>2, <3>3
    <3>5. PICK q \in DOMAIN ops : Says(ops, q, "wait", F[m][j]) /\ piece[q] = m /\ at[q] = j
      BY <1>12, <3>2, <3>4
    <3>6. m < k \/ (m = k /\ j < c[k] + i)
      <4>1. i \in Nat /\ 1 <= i BY <1>8, <2>1, <2>2
      <4>. QED BY <4>1, <3>2, <3>4
    <3>7. q < p BY <1>13, <2>2, <2>3, <3>5, <3>6
    <3>. QED BY <3>3, <3>5, <3>7
  <2>. QED BY <2>4, <2>5
<1>24. ASSUME NEW p \in DOMAIN ops, ops[p].op = "wait"
       PROVE  \E q \in DOMAIN ops : q < p /\ Says(ops, q, "run", ops[p].service)
  <2>. DEFINE k == piece[p]
  <2>1. k \in DOMAIN waves /\ at[p] \in DOMAIN F[k] /\ ops[p].service = F[k][at[p]]
    BY <1>8, <1>10, <1>24
  <2>2. piece[p] = k OBVIOUS
  <2>. HIDE DEF k
  <2>3. ops[p].service \in WantedBy(active, waves[k]) BY <1>9, <2>1 DEF BarriersOf, Fresh
  <2>4. PICK i \in DOMAIN waves[k] : ops[p].service \in Wants(active, waves[k][i])
    BY <2>3 DEF WantedBy
  <2>5. ops[p].service \in Needs(active, waves[k][i]) BY <2>1, <2>4, <1>8, <1>16
  <2>. QED BY <2>1, <2>2, <2>4, <2>5, <1>15
<1>25. OrderedOps(active, ops)
  <2>1. \A kind \in {"run", "wait"} : \A i, j \in DOMAIN ops : \A s :
           Says(ops, i, kind, s) /\ Says(ops, j, kind, s) => i = j
    BY <1>20, <1>21
  <2>. QED BY <2>1, <1>19, <1>22, <1>23, <1>24 DEF OrderedOps
<1>. QED BY <1>6, <1>25 DEF ops, pieces, E
-----------------------------------------------------------------------------
(* Operations among others.                                                 *)
\* small is big without some operations that are neither run nor wait.
Embeds(small, big, h) ==
    /\ \A i \in DOMAIN small : h[i] \in DOMAIN big /\ big[h[i]] = small[i]
    /\ \A i, j \in DOMAIN small : i < j <=> h[i] < h[j]
    /\ \A p \in DOMAIN big : big[p].op \in {"run", "wait"} => \E i \in DOMAIN small : h[i] = p

\* What is said of runs and waits is said of the same ones in both sequences.
LEMMA SaysEmbedded ==
    ASSUME NEW small, NEW big, NEW h, Embeds(small, big, h)
    PROVE  /\ \A i \in DOMAIN small :
                \A kind, s : Says(small, i, kind, s) <=> Says(big, h[i], kind, s)
           /\ \A p \in DOMAIN big : \A kind \in {"run", "wait"} : \A s : Says(big, p, kind, s) =>
                 \E i \in DOMAIN small : h[i] = p /\ Says(small, i, kind, s)
<1>1. \A i \in DOMAIN small : \A kind, s : Says(small, i, kind, s) <=> Says(big, h[i], kind, s)
  BY DEF Embeds, Says
<1>2. ASSUME NEW p \in DOMAIN big, NEW kind \in {"run", "wait"}, NEW s, Says(big, p, kind, s)
      PROVE  \E i \in DOMAIN small : h[i] = p /\ Says(small, i, kind, s)
  <2>1. big[p].op \in {"run", "wait"} BY <1>2 DEF Says
  <2>2. PICK i \in DOMAIN small : h[i] = p BY <2>1 DEF Embeds
  <2>. QED BY <2>2, <1>1, <1>2
<1>. QED BY <1>1, <1>2

\* So the one is in order exactly when the other is.
LEMMA OrderedEmbedded ==
    ASSUME NEW active, NEW S, NEW T, NEW small \in Seq(S), NEW big \in Seq(T), NEW h,
           Embeds(small, big, h)
    PROVE  OrderedOps(active, small) <=> OrderedOps(active, big)
<1>1. \A i \in DOMAIN small : \A kind, s : Says(small, i, kind, s) <=> Says(big, h[i], kind, s)
  BY SaysEmbedded
<1>2. \A p \in DOMAIN big : \A kind \in {"run", "wait"} : \A s : Says(big, p, kind, s) =>
         \E i \in DOMAIN small : h[i] = p /\ Says(small, i, kind, s)
  BY SaysEmbedded
<1>3. /\ \A i \in DOMAIN small : h[i] \in DOMAIN big /\ big[h[i]] = small[i]
      /\ \A i, j \in DOMAIN small : i < j <=> h[i] < h[j]
      /\ \A p \in DOMAIN big : big[p].op \in {"run", "wait"} => \E i \in DOMAIN small : h[i] = p
  BY Zenon DEF Embeds
<1>4. \A i, j \in DOMAIN small : h[i] = h[j] => i = j
  <2>. SUFFICES ASSUME NEW i \in DOMAIN small, NEW j \in DOMAIN small, h[i] = h[j] PROVE i = j
    OBVIOUS
  <2>1. i \in Int /\ j \in Int /\ h[i] \in Int
    <3>1. DOMAIN small \subseteq Int /\ DOMAIN big \subseteq Int OBVIOUS
    <3>. QED BY <3>1, <1>3
  <2>2. ~(h[i] < h[j]) /\ ~(h[j] < h[i]) BY <2>1
  <2>. QED BY <2>1, <2>2, <1>3
\* What is said before place i of the one is said before place h[i] of the other.
<1>5. \A kind \in {"run", "wait"} : \A s : \A i \in DOMAIN small :
         (\E j \in DOMAIN small : j < i /\ Says(small, j, kind, s))
            <=> (\E q \in DOMAIN big : q < h[i] /\ Says(big, q, kind, s))
  <2>. SUFFICES ASSUME NEW kind \in {"run", "wait"}, NEW s, NEW i \in DOMAIN small
                PROVE  (\E j \in DOMAIN small : j < i /\ Says(small, j, kind, s))
                          <=> (\E q \in DOMAIN big : q < h[i] /\ Says(big, q, kind, s))
    OBVIOUS
  <2>1. ASSUME NEW j \in DOMAIN small, j < i, Says(small, j, kind, s)
        PROVE  \E q \in DOMAIN big : q < h[i] /\ Says(big, q, kind, s)
    <3>1. h[j] \in DOMAIN big /\ h[j] < h[i] /\ Says(big, h[j], kind, s) BY <2>1, <1>1, <1>3
    <3>. QED BY <3>1
  <2>2. ASSUME NEW q \in DOMAIN big, q < h[i], Says(big, q, kind, s)
        PROVE  \E j \in DOMAIN small : j < i /\ Says(small, j, kind, s)
    <3>1. PICK j \in DOMAIN small : h[j] = q /\ Says(small, j, kind, s) BY <2>2, <1>2
    <3>2. j < i BY <2>2, <3>1, <1>3
    <3>. QED BY <3>1, <3>2
  <2>. QED BY <2>1, <2>2
<1>6. \A i \in DOMAIN small : small[i].op = big[h[i]].op /\ small[i].service = big[h[i]].service
  BY <1>3
<1>7. ASSUME OrderedOps(active, small) PROVE OrderedOps(active, big)
  <2>1. \A p \in DOMAIN big : big[p].op = "run" => big[p].service \in DOMAIN active
    BY <1>3, <1>7 DEF OrderedOps
  <2>2. ASSUME NEW kind \in {"run", "wait"}, NEW p \in DOMAIN big, NEW q \in DOMAIN big, NEW s,
               Says(big, p, kind, s), Says(big, q, kind, s)
        PROVE  p = q
    <3>1. PICK i \in DOMAIN small : h[i] = p /\ Says(small, i, kind, s) BY <2>2, <1>2
    <3>2. PICK j \in DOMAIN small : h[j] = q /\ Says(small, j, kind, s) BY <2>2, <1>2
    <3>. QED BY <3>1, <3>2, <1>7 DEF OrderedOps
  <2>3. ASSUME NEW s \in DOMAIN active PROVE \E p \in DOMAIN big : Says(big, p, "run", s)
    <3>1. PICK i \in DOMAIN small : Says(small, i, "run", s) BY <1>7 DEF OrderedOps
    <3>. QED BY <3>1, <1>1, <1>3
  <2>4. ASSUME NEW p \in DOMAIN big, big[p].op = "run"
        PROVE  /\ \A d \in Needs(active, big[p].service) :
                     \E q \in DOMAIN big : q < p /\ Says(big, q, "run", d)
               /\ \A d \in Wants(active, big[p].service) :
                     \E q \in DOMAIN big : q < p /\ Says(big, q, "wait", d)
    <3>1. PICK i \in DOMAIN small : h[i] = p BY <2>4, <1>3
    <3>2. small[i].op = "run" /\ small[i].service = big[p].service BY <3>1, <1>6, <2>4
    <3>3. \A d \in Needs(active, big[p].service) :
             \E j \in DOMAIN small : j < i /\ Says(small, j, "run", d)
      BY <3>2, <1>7 DEF OrderedOps
    <3>4. \A d \in Wants(active, big[p].service) :
             \E j \in DOMAIN small : j < i /\ Says(small, j, "wait", d)
      BY <3>2, <1>7 DEF OrderedOps
    <3>. QED BY <3>1, <3>3, <3>4, <1>5
  <2>5. ASSUME NEW p \in DOMAIN big, big[p].op = "wait"
        PROVE  \E q \in DOMAIN big : q < p /\ Says(big, q, "run", big[p].service)
    <3>1. PICK i \in DOMAIN small : h[i] = p BY <2>5, <1>3
    <3>2. small[i].op = "wait" /\ small[i].service = big[p].service BY <3>1, <1>6, <2>5
    <3>3. \E j \in DOMAIN small : j < i /\ Says(small, j, "run", big[p].service)
      BY <3>2, <1>7 DEF OrderedOps
    <3>. QED BY <3>1, <3>3, <1>5
  <2>. QED BY <2>1, <2>2, <2>3, <2>4, <2>5 DEF OrderedOps
<1>8. ASSUME OrderedOps(active, big) PROVE OrderedOps(active, small)
  <2>1. \A i \in DOMAIN small : small[i].op = "run" => small[i].service \in DOMAIN active
    BY <1>3, <1>8 DEF OrderedOps
  <2>2. ASSUME NEW kind \in {"run", "wait"}, NEW i \in DOMAIN small, NEW j \in DOMAIN small, NEW s,
               Says(small, i, kind, s), Says(small, j, kind, s)
        PROVE  i = j
    <3>1. Says(big, h[i], kind, s) /\ Says(big, h[j], kind, s) BY <2>2, <1>1
    <3>2. h[i] \in DOMAIN big /\ h[j] \in DOMAIN big BY <1>3
    <3>3. h[i] = h[j] BY <3>1, <3>2, <1>8 DEF OrderedOps
    <3>. QED BY <3>3, <1>4
  <2>3. ASSUME NEW s \in DOMAIN active PROVE \E i \in DOMAIN small : Says(small, i, "run", s)
    <3>1. PICK p \in DOMAIN big : Says(big, p, "run", s) BY <1>8 DEF OrderedOps
    <3>. QED BY <3>1, <1>2
  <2>4. ASSUME NEW i \in DOMAIN small, small[i].op = "run"
        PROVE  /\ \A d \in Needs(active, small[i].service) :
                     \E j \in DOMAIN small : j < i /\ Says(small, j, "run", d)
               /\ \A d \in Wants(active, small[i].service) :
                     \E j \in DOMAIN small : j < i /\ Says(small, j, "wait", d)
    <3>1. h[i] \in DOMAIN big /\ big[h[i]].op = "run" /\ big[h[i]].service = small[i].service
      BY <1>3, <1>6, <2>4
    <3>2. \A d \in Needs(active, small[i].service) :
             \E q \in DOMAIN big : q < h[i] /\ Says(big, q, "run", d)
      BY <3>1, <1>8 DEF OrderedOps
    <3>3. \A d \in Wants(active, small[i].service) :
             \E q \in DOMAIN big : q < h[i] /\ Says(big, q, "wait", d)
      BY <3>1, <1>8 DEF OrderedOps
    <3>. QED BY <3>2, <3>3, <1>5
  <2>5. ASSUME NEW i \in DOMAIN small, small[i].op = "wait"
        PROVE  \E j \in DOMAIN small : j < i /\ Says(small, j, "run", small[i].service)
    <3>1. h[i] \in DOMAIN big /\ big[h[i]].op = "wait" /\ big[h[i]].service = small[i].service
      BY <1>3, <1>6, <2>5
    <3>2. \E q \in DOMAIN big : q < h[i] /\ Says(big, q, "run", small[i].service)
      BY <3>1, <1>8 DEF OrderedOps
    <3>. QED BY <3>2, <1>5
  <2>. QED BY <2>1, <2>2, <2>3, <2>4, <2>5 DEF OrderedOps
<1>. QED BY <1>7, <1>8
-----------------------------------------------------------------------------
(* Plans: what is laid out, and in which order.                             *)
\* A function on the places of a sequence, with its elements.
LEMMA IndexedIsSequence ==
    ASSUME NEW S, NEW q \in Seq(S), NEW f, DOMAIN f = DOMAIN q
    PROVE  \A X : (\A i \in DOMAIN f : f[i] \in X) /\ f = [i \in DOMAIN q |-> f[i]] => f \in Seq(X)
<1>. SUFFICES ASSUME NEW X, \A i \in DOMAIN f : f[i] \in X, f = [i \in DOMAIN q |-> f[i]]
              PROVE  f \in Seq(X)
  OBVIOUS
<1>1. f \in [DOMAIN q -> X] OBVIOUS
<1>. QED BY <1>1, IsSequence

\* A compose file as the planner gets it.
Readable(compose) ==
    /\ \E S : compose.networks \in Seq(S)
    /\ \E S : compose.volumes \in Seq(S)
    /\ Selectable(compose.services)

\* The operations of a plan: a that are shared, one for the image of each service
\* of q, and those of the waves.
Laid(ops, q, a, b, n) ==
    /\ a \in Nat /\ b \in Nat /\ n \in Nat /\ DOMAIN ops = 1..n /\ a + b <= n /\ DOMAIN q = 1..b
    /\ \A i \in 1..a : ops[i].op \in {"network", "volume"}
    /\ \A i \in 1..b : ops[a + i].op \in {"build", "pull"} /\ ops[a + i].service = q[i]
    /\ \A i \in 1..n : i > a + b => ops[i].op \in {"run", "wait"}

\* Layout (plan in lib.rs) has networks and volumes first, then images, then the
\* waves.
LEMMA LayoutLaid ==
    ASSUME NEW compose, Readable(compose), NEW active, Selectable(active),
           NEW waves, Layered(active, waves), NEW project
    PROVE  /\ \E S : Layout(compose, active, waves, project).ops \in Seq(S)
           /\ \E a, b, n :
                 Laid(Layout(compose, active, waves, project).ops, InOrder(DOMAIN active), a, b, n)
           /\ \E h : Embeds(FlattenSeq([k \in DOMAIN waves |-> WaveOps(waves, k, active, project)]),
                           Layout(compose, active, waves, project).ops, h)
<1>. DEFINE N == NetworkOps(compose, project)  V == VolumeOps(compose, project)
            I == ImageOps(active, project)  q == InOrder(DOMAIN active)
            F == FlattenSeq([k \in DOMAIN waves |-> WaveOps(waves, k, active, project)])
            E == WaveOp(active, project)
            S ==
                {N[i] : i \in DOMAIN N} \cup {V[i] : i \in DOMAIN V} \cup {I[i] : i \in DOMAIN I}
                  \cup E
            ops == Layout(compose, active, waves, project).ops
<1>1. N \in Seq(S) /\ \A i \in DOMAIN N : N[i].op = "network"
  <2>. DEFINE O(n) == [op |-> "network", name |-> n[1], driver |-> n[2].driver, project |-> project]
  <2>1. N = [i \in DOMAIN compose.networks |-> O(compose.networks[i])] BY DEF NetworkOps, ForEach
  <2>2. \A n : O(n).op = "network" OBVIOUS
  <2>. HIDE DEF O
  <2>3. DOMAIN N = DOMAIN compose.networks /\ N = [i \in DOMAIN compose.networks |-> N[i]] BY <2>1
  <2>4. \A i \in DOMAIN N : N[i].op = "network" BY <2>1, <2>2
  <2>5. \A i \in DOMAIN N : N[i] \in S OBVIOUS
  <2>. HIDE DEF N, S
  <2>. QED BY <2>3, <2>4, <2>5, IndexedIsSequence DEF Readable
<1>2. V \in Seq(S) /\ \A i \in DOMAIN V : V[i].op = "volume"
  <2>. DEFINE O(n) == [op |-> "volume", name |-> n[1], driver |-> n[2].driver, project |-> project]
  <2>1. V = [i \in DOMAIN compose.volumes |-> O(compose.volumes[i])] BY DEF VolumeOps, ForEach
  <2>2. \A n : O(n).op = "volume" OBVIOUS
  <2>. HIDE DEF O
  <2>3. DOMAIN V = DOMAIN compose.volumes /\ V = [i \in DOMAIN compose.volumes |-> V[i]] BY <2>1
  <2>4. \A i \in DOMAIN V : V[i].op = "volume" BY <2>1, <2>2
  <2>5. \A i \in DOMAIN V : V[i] \in S OBVIOUS
  <2>. HIDE DEF V, S
  <2>. QED BY <2>3, <2>4, <2>5, IndexedIsSequence DEF Readable
<1>3. /\ I \in Seq(S) /\ DOMAIN I = DOMAIN q /\ q \in Seq(DOMAIN active)
      /\ \A i \in DOMAIN I : I[i].op \in {"build", "pull"} /\ I[i].service = q[i]
  <2>. DEFINE O(s) == IF active[s].build # <<>> THEN BuildOp(project, s, active[s].build[1])
                      ELSE [op |-> "pull", service |-> s, image |-> active[s].image[1]]
  <2>1. I = [i \in DOMAIN q |-> O(q[i])] BY DEF ImageOps, ForEach
  <2>2. \A s : O(s).op \in {"build", "pull"} /\ O(s).service = s
    <3>1. \A s, x : BuildOp(project, s, x).op = "build" /\ BuildOp(project, s, x).service = s
      BY DEF BuildOp
    <3>. QED BY <3>1
  <2>0. q \in Seq(DOMAIN active) BY InOrderOf DEF Selectable
  <2>. HIDE DEF O, q
  <2>3. DOMAIN I = DOMAIN q /\ I = [i \in DOMAIN q |-> I[i]] BY <2>1
  <2>4. \A i \in DOMAIN I : I[i].op \in {"build", "pull"} /\ I[i].service = q[i] BY <2>1, <2>2
  <2>5. \A i \in DOMAIN I : I[i] \in S OBVIOUS
  <2>. HIDE DEF I, S
  <2>. QED BY <2>0, <2>3, <2>4, <2>5, IndexedIsSequence
<1>4. F \in Seq(S) /\ \A i \in DOMAIN F : F[i].op \in {"run", "wait"}
  <2>1. F \in Seq(E) BY WavesOrdered
  <2>2. \A o \in E : o.op \in {"run", "wait"} BY OpFields DEF WaveOp
  <2>3. E \subseteq S OBVIOUS
  <2>. HIDE DEF E, F, S
  <2>. QED BY <2>1, <2>2, <2>3
<1>5. ops = N \o V \o I \o F BY DEF Layout
<1>. HIDE DEF N, V, I, F, S, q, ops, E
<1>. DEFINE n1 == Len(N)  n2 == Len(V)  b == Len(I)  n3 == Len(F)
            a == n1 + n2
<1>6. /\ n1 \in Nat /\ n2 \in Nat /\ b \in Nat /\ n3 \in Nat
      /\ DOMAIN N = 1..n1 /\ DOMAIN V = 1..n2 /\ DOMAIN I = 1..b /\ DOMAIN F = 1..n3
  BY <1>1, <1>2, <1>3, <1>4
<1>7. /\ N \o V \in Seq(S) /\ Len(N \o V) = a
      /\ \A i \in 1..n1 : (N \o V)[i] = N[i]
      /\ \A i \in 1..n2 : (N \o V)[n1 + i] = V[i]
  BY <1>1, <1>2
<1>. HIDE DEF n1, n2
<1>. DEFINE c == N \o V
<1>. HIDE DEF c
<1>8. \A i \in 1..a : c[i].op \in {"network", "volume"}
  <2>1. \A i \in 1..a : i \in 1..n1 \/ (i - n1 \in 1..n2 /\ n1 + (i - n1) = i) BY <1>6
  <2>2. \A i \in 1..n1 : c[i].op = "network" BY <1>1, <1>6, <1>7 DEF c
  <2>3. \A i \in 1..n2 : c[n1 + i].op = "volume" BY <1>2, <1>6, <1>7 DEF c
  <2>. QED BY <2>1, <2>2, <2>3
<1>9. c \in Seq(S) /\ Len(c) = a /\ a \in Nat BY <1>6, <1>7 DEF c
<1>. HIDE DEF a
<1>. DEFINE e == c \o I
<1>10. /\ e \in Seq(S) /\ Len(e) = a + b
       /\ \A i \in 1..a : e[i] = c[i]
       /\ \A i \in 1..b : e[a + i] = I[i]
  BY <1>3, <1>9
<1>. HIDE DEF e
<1>11. ops = e \o F BY <1>5 DEF e, c
<1>. DEFINE m == a + b  n == a + b + n3
<1>12. /\ ops \in Seq(S) /\ Len(ops) = n /\ m \in Nat /\ n \in Nat /\ n = m + n3
       /\ \A i \in 1..m : ops[i] = e[i]
       /\ \A i \in 1..n3 : ops[m + i] = F[i]
  <2>1. m \in Nat /\ n3 \in Nat /\ n = m + n3 /\ n \in Nat BY <1>6, <1>9
  <2>2. e \in Seq(S) /\ Len(e) = m BY <1>10
  <2>3. F \in Seq(S) /\ Len(F) = n3 BY <1>4
  <2>4. \A s, t \in Seq(S) : /\ s \o t \in Seq(S) /\ Len(s \o t) = Len(s) + Len(t)
                             /\ \A i \in 1..Len(s) : (s \o t)[i] = s[i]
                             /\ \A i \in 1..Len(t) : (s \o t)[Len(s) + i] = t[i]
    OBVIOUS
  <2>. HIDE DEF m, n, n3
  <2>5. /\ e \o F \in Seq(S) /\ Len(e \o F) = m + n3
        /\ \A i \in 1..m : (e \o F)[i] = e[i]
        /\ \A i \in 1..n3 : (e \o F)[m + i] = F[i]
    BY <2>2, <2>3, <2>4
  <2>. QED BY <2>1, <2>5, <1>11
<1>13. DOMAIN ops = 1..n BY <1>12
<1>14. \A i \in 1..a : ops[i].op \in {"network", "volume"}
  <2>1. \A i \in 1..a : i \in 1..m BY <1>6, <1>9
  <2>. QED BY <2>1, <1>8, <1>10, <1>12
<1>15. \A i \in 1..b : ops[a + i].op \in {"build", "pull"} /\ ops[a + i].service = q[i]
  <2>1. \A i \in 1..b : a + i \in 1..m BY <1>6, <1>9
  <2>2. \A i \in 1..b : ops[a + i] = I[i] BY <2>1, <1>10, <1>12
  <2>. QED BY <2>2, <1>3, <1>6
<1>16. \A i \in 1..n : i > m => ops[i].op \in {"run", "wait"}
  <2>. HIDE DEF m, n
  <2>1. \A i \in 1..n : i > m => i - m \in 1..n3 /\ m + (i - m) = i BY <1>6, <1>12
  <2>. QED BY <2>1, <1>4, <1>6, <1>12
<1>17. a + b <= n BY <1>6, <1>9
<1>18. Laid(ops, q, a, b, n) BY <1>3, <1>6, <1>9, <1>12, <1>13, <1>14, <1>15, <1>16, <1>17 DEF Laid
<1>. DEFINE h == [i \in 1..n3 |-> m + i]
<1>19. \A i \in 1..n3 : h[i] = m + i OBVIOUS
<1>20. ASSUME NEW p \in 1..n, ops[p].op \in {"run", "wait"} PROVE p - m \in 1..n3 /\ m + (p - m) = p
  <2>1. ~(p \in 1..a) BY <1>14, <1>20
  <2>2. ~(p - a \in 1..b)
    <3>1. a + (p - a) = p BY <1>9
    <3>. QED BY <3>1, <1>15, <1>20
  <2>. QED BY <2>1, <2>2, <1>6, <1>9
<1>. HIDE DEF h, m, n, n3, b
<1>21. \A i \in 1..n3 : h[i] \in 1..n /\ ops[h[i]] = F[i]
  <2>1. \A i \in 1..n3 : m + i \in 1..n BY <1>6, <1>12
  <2>. QED BY <2>1, <1>12, <1>19
<1>22. \A i, j \in 1..n3 : i < j <=> h[i] < h[j] BY <1>6, <1>12, <1>19
<1>23. \A p \in 1..n : ops[p].op \in {"run", "wait"} => \E i \in 1..n3 : h[i] = p BY <1>19, <1>20
<1>24. Embeds(F, ops, h) BY <1>6, <1>13, <1>21, <1>22, <1>23 DEF Embeds
<1>. QED BY <1>12, <1>18, <1>24 DEF ops, q, F

\* What holds of the operations of the waves holds of the whole plan.
LEMMA LayoutOrdered ==
    ASSUME NEW compose, Readable(compose), NEW active, Selectable(active),
           NEW waves, Layered(active, waves), NEW project
    PROVE  OrderedOps(active, Layout(compose, active, waves, project).ops)
<1>. DEFINE F == FlattenSeq([k \in DOMAIN waves |-> WaveOps(waves, k, active, project)])
            ops == Layout(compose, active, waves, project).ops
            E == WaveOp(active, project)
<1>1. F \in Seq(E) /\ OrderedOps(active, F) BY WavesOrdered
<1>2. PICK S : ops \in Seq(S) BY LayoutLaid
<1>3. PICK h : Embeds(F, ops, h) BY LayoutLaid
<1>. HIDE DEF F, ops, E
<1>4. OrderedOps(active, ops) BY <1>1, <1>2, <1>3, OrderedEmbedded
<1>. QED BY <1>4 DEF ops

\* The services that the enabled profiles select, with what they say.
Profiled(compose, enabled) ==
    {s \in DOMAIN compose.services :
        LET profiles == ToSet(compose.services[s].profiles)
        IN  profiles = {} \/ profiles \cap ToSet(enabled) # {}}
Active(compose, enabled) == [s \in Profiled(compose, enabled) |-> compose.services[s]]

\* Profiles leave services out and change nothing of the others.
LEMMA ActiveSelectable ==
    ASSUME NEW compose, Selectable(compose.services), NEW enabled
    PROVE  /\ Selectable(Active(compose, enabled))
           /\ DOMAIN Active(compose, enabled) = Profiled(compose, enabled)
           /\ \A s \in Profiled(compose, enabled) :
                 Active(compose, enabled)[s] = compose.services[s]
<1>. DEFINE P == Profiled(compose, enabled)  active == Active(compose, enabled)
<1>1. P \subseteq DOMAIN compose.services BY DEF Profiled
<1>2. DOMAIN active = P /\ \A s \in P : active[s] = compose.services[s] BY DEF Active
<1>. HIDE DEF P, active
<1>3. Selectable(active) BY <1>1, <1>2 DEF Selectable
<1>. QED BY <1>2, <1>3 DEF P, active

\* A plan that is made is laid out from waves that layer the services it selects.
LEMMA PlanAnswers ==
    ASSUME NEW compose, Selectable(compose.services), NEW opts, Plan(compose, opts).ok
    PROVE  \E waves :
              /\ Plan(compose, opts).val
                    = Layout(compose, Active(compose, opts.profiles), waves,
                             ProjectName(compose, opts))
              /\ Layered(Active(compose, opts.profiles), waves)
<1>. DEFINE project == ProjectName(compose, opts)
            laid(active, waves) == Ok(Layout(compose, active, waves, project))
            waved(active, graph) ==
                AndThen(TopologicalWaves(graph), LAMBDA waves : laid(active, waves))
            graphed(active) == AndThen(BuildGraph(active), LAMBDA graph : waved(active, graph))
            checked(active) ==
                AndThen(ValidateReferences(compose, active), LAMBDA valid : graphed(active))
            known(active) ==
                AndThen(KnownServices(active, opts.services), LAMBDA asked : checked(active))
            active == Active(compose, opts.profiles)
            graph == BuildGraph(active).val
            waves == TopologicalWaves(graph).val
<1>1. Plan(compose, opts) = AndThen(FilterServices(compose, opts.profiles), LAMBDA a : known(a))
  BY DEF Plan
<1>2. Plan(compose, opts) = IF FilterServices(compose, opts.profiles).ok
                            THEN known(FilterServices(compose, opts.profiles).val)
                            ELSE FilterServices(compose, opts.profiles)
  <2>. HIDE DEF known
  <2>. QED BY <1>1 DEF AndThen, With
<1>3. \A a : known(a) = IF KnownServices(a, opts.services).ok THEN checked(a)
                        ELSE KnownServices(a, opts.services)
  <2>. HIDE DEF checked
  <2>. QED BY DEF AndThen, With
<1>4. \A a : checked(a) = IF ValidateReferences(compose, a).ok THEN graphed(a)
                          ELSE ValidateReferences(compose, a)
  <2>. HIDE DEF graphed
  <2>. QED BY DEF AndThen, With
<1>5. \A a : graphed(a) = IF BuildGraph(a).ok THEN waved(a, BuildGraph(a).val) ELSE BuildGraph(a)
  <2>. HIDE DEF waved
  <2>. QED BY DEF AndThen, With
<1>6. \A a, g : waved(a, g) = IF TopologicalWaves(g).ok THEN laid(a, TopologicalWaves(g).val)
                              ELSE TopologicalWaves(g)
  <2>. HIDE DEF laid
  <2>. QED BY DEF AndThen, With
<1>7. FilterServices(compose, opts.profiles).ok =>
        FilterServices(compose, opts.profiles).val = active
  BY DEF FilterServices, Ok, Err, Active, Profiled
<1>. HIDE DEF known, checked, graphed, waved, active
<1>8. known(active).ok /\ Plan(compose, opts) = known(active) BY <1>2, <1>7
<1>9. checked(active).ok /\ Plan(compose, opts) = checked(active) BY <1>3, <1>8
<1>10. graphed(active).ok /\ Plan(compose, opts) = graphed(active) BY <1>4, <1>9
<1>11. BuildGraph(active).ok /\ waved(active, graph).ok
         /\ Plan(compose, opts) = waved(active, graph)
  BY <1>5, <1>10
<1>12. /\ TopologicalWaves(graph).ok
       /\ Plan(compose, opts) = Ok(Layout(compose, active, waves, project))
  BY <1>6, <1>11
<1>13. Plan(compose, opts).val = Layout(compose, active, waves, project) BY <1>12 DEF Ok
<1>14. Selectable(active) BY ActiveSelectable DEF active
<1>15. GraphOf(graph, active) BY <1>11, <1>14, GraphBuilt
<1>16. Layered(active, waves) BY <1>12, <1>15, WavesLayer
<1>. QED BY <1>13, <1>16 DEF active

\* What the planner owes of every plan.
LEMMA PlanIsOrdered ==
    ASSUME NEW compose, Readable(compose), NEW opts, Plan(compose, opts).ok
    PROVE  /\ \E S : Plan(compose, opts).val.ops \in Seq(S)
           /\ OrderedOps(Active(compose, opts.profiles), Plan(compose, opts).val.ops)
<1>. DEFINE active == Active(compose, opts.profiles)
<1>1. Selectable(compose.services) BY DEF Readable
<1>2. PICK waves, project : /\ Plan(compose, opts).val = Layout(compose, active, waves, project)
                            /\ Layered(active, waves)
  BY <1>1, PlanAnswers
<1>3. Selectable(active) BY <1>1, ActiveSelectable
<1>. HIDE DEF active
<1>4. /\ \E S : Layout(compose, active, waves, project).ops \in Seq(S)
      /\ OrderedOps(active, Layout(compose, active, waves, project).ops)
  BY <1>1, <1>2, <1>3, LayoutLaid, LayoutOrdered
<1>. QED BY <1>2, <1>4 DEF active
-----------------------------------------------------------------------------
(* Loading: what a command has read and planned.                            *)
\* The visitor leaves alone whom a service depends on.
LEMMA VisitedDepends ==
    ASSUME NEW s \in Service, NEW x
    PROVE  VisitService(s, x).depends_on = s.depends_on /\ s.depends_on \in DependsOn
<1>1. s.depends_on \in DependsOn /\ "depends_on" \in DOMAIN s BY DEF Service
<1>2. VisitService(s, x).depends_on = s.depends_on BY <1>1 DEF VisitService, VisitDependsOn
<1>. QED BY <1>1, <1>2

\* Interpolation keeps a compose file one that the planner reads.
LEMMA VisitedReadable ==
    ASSUME NEW c, DOMAIN c.services \subseteq Services,
           \A s \in DOMAIN c.services : c.services[s] \in Service,
           c.networks \in Named(Network), c.volumes \in Named(Volume), NEW x
    PROVE  Readable(VisitCompose(c, x))
<1>. DEFINE read == VisitCompose(c, x)
<1>1. /\ read.services = [s \in DOMAIN c.services |-> VisitService(c.services[s], x)]
      /\ read.networks = [i \in DOMAIN c.networks |->
                             <<c.networks[i][1], VisitResource(c.networks[i][2], x)>>]
      /\ read.volumes = [i \in DOMAIN c.volumes |->
                             <<c.volumes[i][1], VisitResource(c.volumes[i][2], x)>>]
  BY DEF VisitCompose
<1>. HIDE DEF read
<1>2. Selectable(read.services)
  <2>1. DOMAIN read.services = DOMAIN c.services
        /\ \A s \in DOMAIN c.services : read.services[s] = VisitService(c.services[s], x)
    BY <1>1
  <2>2. \A s \in DOMAIN c.services : read.services[s].depends_on \in DependsOn
    BY <2>1, VisitedDepends
  <2>. QED BY <2>1, <2>2 DEF Selectable
<1>3. \A q, F : q \in Seq(Text \X Network) /\ F = [i \in DOMAIN q |-> F[i]] =>
         \E S : F \in Seq(S)
  <2>. SUFFICES ASSUME NEW q \in Seq(Text \X Network), NEW F, F = [i \in DOMAIN q |-> F[i]]
                PROVE  \E S : F \in Seq(S)
    OBVIOUS
  <2>. DEFINE T == Text \X Network  S == {F[i] : i \in DOMAIN q}
  <2>1. F \in [DOMAIN q -> S] OBVIOUS
  <2>2. q \in Seq(T) OBVIOUS
  <2>. HIDE DEF T, S
  <2>3. F \in Seq(S) BY <2>1, <2>2, IsSequence
  <2>. QED BY <2>3
<1>4. c.networks \in Seq(Text \X Network) /\ c.volumes \in Seq(Text \X Network)
  BY DEF Named, Volume
<1>5. /\ read.networks = [i \in DOMAIN c.networks |-> read.networks[i]]
      /\ read.volumes = [i \in DOMAIN c.volumes |-> read.volumes[i]]
  BY <1>1
<1>6. (\E S : read.networks \in Seq(S)) /\ (\E S : read.volumes \in Seq(S))
  BY <1>3, <1>4, <1>5
<1>. QED BY <1>2, <1>6 DEF Readable, read

\* What loading answers is the interpolated file and its plan.
Options(job) ==
    [profiles |-> job.profiles, project_name |-> job.project_name, services |-> job.services]
\* load (load.rs) answers with the interpolated file and its plan, or fails.
LEMMA LoadAnswers ==
    ASSUME NEW job, Load(job).ok
    PROVE  LET file == ResolveComposeFile(job.file, job.here)
               env == BuildEnv(job.process, job.dot_env, job.env_files)
               read == Interpolate(file[1], env.val).val
           IN  /\ file # <<>> /\ Validate(file[1]).ok /\ env.ok
               /\ Interpolate(file[1], env.val).ok /\ Plan(read, Options(job)).ok
               /\ Load(job).val = [compose |-> read, plan |-> Plan(read, Options(job)).val]
               /\ \E x : read = VisitCompose(file[1], x)
<1>. DEFINE file == ResolveComposeFile(job.file, job.here)
            opts == Options(job)
            done(read, plan) == Ok([compose |-> read, plan |-> plan])
            planned(read) == AndThen(Plan(read, opts), LAMBDA plan : done(read, plan))
            filled(compose, env) == AndThen(Interpolate(compose, env), LAMBDA read : planned(read))
            set(compose) == AndThen(BuildEnv(job.process, job.dot_env, job.env_files),
                                    LAMBDA env : filled(compose, env))
            valid(source) == AndThen(Validate(source), LAMBDA compose : set(compose))
            found == IF file = <<>> THEN Err("NoFile") ELSE Ok(file[1])
            built == BuildEnv(job.process, job.dot_env, job.env_files)
            env == built.val
            read == Interpolate(file[1], env).val
<1>1. Load(job) = AndThen(found, LAMBDA source : valid(source)) BY DEF Load, Options
<1>2. Load(job) = IF found.ok THEN valid(found.val) ELSE found
  <2>. HIDE DEF valid, found
  <2>. QED BY <1>1 DEF AndThen, With
<1>3. \A s : valid(s) = IF Validate(s).ok THEN set(Validate(s).val) ELSE Validate(s)
  <2>. HIDE DEF set
  <2>. QED BY DEF AndThen, With
<1>4. \A c : set(c) = IF built.ok THEN filled(c, env) ELSE built
  <2>. HIDE DEF filled
  <2>. QED BY DEF AndThen, With
<1>5. \A c, e : filled(c, e) = IF Interpolate(c, e).ok THEN planned(Interpolate(c, e).val)
                               ELSE Interpolate(c, e)
  <2>. HIDE DEF planned
  <2>. QED BY DEF AndThen, With
<1>6. \A r : planned(r) = IF Plan(r, opts).ok THEN done(r, Plan(r, opts).val) ELSE Plan(r, opts)
  <2>. HIDE DEF done
  <2>. QED BY DEF AndThen, With
<1>7. found.ok => file # <<>> /\ found.val = file[1]
  <2>. HIDE DEF file
  <2>. QED BY DEF Ok, Err
<1>8. \A s : Validate(s).ok => Validate(s).val = s BY DEF Validate, Ok, Err
<1>9. \A c, e : Interpolate(c, e).ok => \E x : Interpolate(c, e).val = VisitCompose(c, x)
  <2>. SUFFICES ASSUME NEW c, NEW e, Interpolate(c, e).ok
                PROVE  \E x : Interpolate(c, e).val = VisitCompose(c, x)
    OBVIOUS
  <2>. DEFINE F(x) == IF VisitCompose(c, [t \in Text |-> TRUE])
                             = VisitCompose(c, [t \in Text |-> x[t].ok])
                      THEN Ok(VisitCompose(c, [t \in Text |-> x[t].val]))
                      ELSE Err("Interpolation")
              x == [t \in Text |-> Expand(t, e)]
  <2>1. Interpolate(c, e) = With(x, LAMBDA y : F(y)) BY DEF Interpolate
  <2>2. Interpolate(c, e) = F(x)
    <3>. HIDE DEF F, x
    <3>. QED BY <2>1 DEF With
  <2>3. F(x).ok => F(x).val = VisitCompose(c, [t \in Text |-> x[t].val])
    <3>. HIDE DEF x
    <3>. QED BY DEF Ok, Err
  <2>. QED BY <2>2, <2>3
<1>10. \A r, p : done(r, p).val = [compose |-> r, plan |-> p] BY DEF Ok
<1>. HIDE DEF valid, found, set, filled, planned, done, built, env, file, opts
<1>11. file # <<>> /\ Load(job) = valid(file[1]) BY <1>2, <1>7
<1>12. Validate(file[1]).ok /\ Load(job) = set(file[1]) BY <1>3, <1>8, <1>11
<1>13. built.ok /\ Load(job) = filled(file[1], env) BY <1>4, <1>12
<1>14. Interpolate(file[1], env).ok /\ Load(job) = planned(read) BY <1>5, <1>13
<1>15. \E x : read = VisitCompose(file[1], x) BY <1>9, <1>14
<1>. HIDE DEF read
<1>16. Plan(read, opts).ok /\ Load(job) = done(read, Plan(read, opts).val) BY <1>6, <1>14
<1>17. Load(job).val = [compose |-> read, plan |-> Plan(read, opts).val] BY <1>10, <1>16
<1>. QED BY <1>11, <1>12, <1>13, <1>14, <1>15, <1>16, <1>17 DEF read, file, opts, env, built

\* Leaving out operations that are neither run nor wait.
LEMMA PicksEmbed ==
    ASSUME NEW S, NEW ops \in Seq(S), NEW I \in SUBSET DOMAIN ops,
           \A p \in DOMAIN ops : ops[p].op \in {"run", "wait"} => p \in I
    PROVE  AtPlaces(ops, I) \in Seq(S) /\ \E h : Embeds(AtPlaces(ops, I), ops, h)
<1>. DEFINE q == AtPlaces(ops, I)
<1>1. q \in Seq(S) BY AtPlacesPicks
<1>2. PICK h : Picks(q, ops, I, h) BY AtPlacesPicks
<1>. HIDE DEF q
<1>3. /\ h \in Seq(I) /\ DOMAIN q = DOMAIN h
      /\ \A i \in DOMAIN q : q[i] = ops[h[i]]
      /\ \A i, j \in DOMAIN q : i < j => h[i] < h[j]
      /\ \A x \in I : \E i \in DOMAIN q : h[i] = x
  BY <1>2 DEF Picks
<1>4. \A i \in DOMAIN q : h[i] \in I /\ h[i] \in DOMAIN ops BY <1>3
<1>5. ASSUME NEW i \in DOMAIN q, NEW j \in DOMAIN q, h[i] < h[j] PROVE i < j
  <2>1. i \in Int /\ j \in Int BY <1>1
  <2>2. h[i] \in Int /\ h[j] \in Int
    <3>1. DOMAIN ops \subseteq Int OBVIOUS
    <3>. QED BY <3>1, <1>4
  <2>3. j < i => h[j] < h[i] BY <1>3
  <2>4. i # j
    <3>1. i = j => ~(h[i] < h[j]) BY <2>2
    <3>. QED BY <3>1, <1>5
  <2>5. ~(j < i)
    <3>1. ~(h[j] < h[i]) BY <2>2, <1>5
    <3>. QED BY <3>1, <2>3
  <2>. QED BY <2>1, <2>4, <2>5
<1>6. Embeds(q, ops, h) BY <1>3, <1>4, <1>5 DEF Embeds
<1>. QED BY <1>1, <1>6 DEF q

\* What a command that loads has read, and the plan it has made of that.
LEMMA LoadedFile ==
    ASSUME NEW j \in Jobs, Loads[j].ok
    PROVE  \E read, opts :
              /\ Readable(read) /\ Plan(read, opts).ok
              /\ Loads[j].val.plan = Plan(read, opts).val
              /\ Chosen(j) = Active(read, opts.profiles)
<1>. DEFINE job == Job[j]  file == ResolveComposeFile(job.file, job.here)
<1>1. Loads[j] = Load(job) BY DEF Loads
<1>2. file # <<>> BY <1>1, LoadAnswers
<1>3. PICK x : /\ Load(job).val = [compose |-> VisitCompose(file[1], x),
                                   plan |-> Plan(VisitCompose(file[1], x), Options(job)).val]
               /\ Plan(VisitCompose(file[1], x), Options(job)).ok
  <2>1. PICK read : /\ Load(job).val = [compose |-> read, plan |-> Plan(read, Options(job)).val]
                    /\ Plan(read, Options(job)).ok
                    /\ \E x : read = VisitCompose(file[1], x)
    BY <1>1, LoadAnswers
  <2>. QED BY <2>1
<1>. DEFINE read == VisitCompose(file[1], x)  opts == Options(job)
<1>4. /\ DOMAIN file[1].services \subseteq Services
      /\ \A s \in DOMAIN file[1].services : file[1].services[s] \in Service
      /\ file[1].networks \in Named(Network) /\ file[1].volumes \in Named(Volume)
  BY <1>2, FilesAssumption
<1>5. Readable(read)
  <2>. HIDE DEF file
  <2>. QED BY <1>4, VisitedReadable
<1>6. /\ Loads[j].val.compose = read /\ Loads[j].val.plan = Plan(read, opts).val
      /\ Plan(read, opts).ok /\ opts.profiles = job.profiles
  BY <1>1, <1>3 DEF Options
<1>. HIDE DEF read, opts
<1>7. Selected(j) = Profiled(read, opts.profiles) /\ \A s : Service_(j, s) = read.services[s]
  BY <1>6 DEF Selected, Profiled, Service_
<1>8. Chosen(j) = Active(read, opts.profiles) BY <1>7 DEF Chosen, Active
<1>. QED BY <1>5, <1>6, <1>8

\* The plan of a command is in order, for the services that its profiles select.
LEMMA LoadedPlan ==
    ASSUME NEW j \in Jobs, Loads[j].ok
    PROVE  \E active, S :
              /\ Selectable(active) /\ DOMAIN active = Selected(j)
              /\ \A s \in Selected(j) : active[s] = Service_(j, s)
              /\ Loads[j].val.plan.ops \in Seq(S)
              /\ OrderedOps(active, Loads[j].val.plan.ops)
<1>1. PICK read, opts : /\ Readable(read) /\ Plan(read, opts).ok
                        /\ Loads[j].val.plan = Plan(read, opts).val
                        /\ Chosen(j) = Active(read, opts.profiles)
  BY LoadedFile
<1>. DEFINE active == Chosen(j)
<1>2. /\ DOMAIN active = Selected(j)
      /\ \A s \in Selected(j) : active[s] = Service_(j, s)
  BY DEF Chosen
<1>. HIDE DEF active
<1>3. (\E S : Plan(read, opts).val.ops \in Seq(S)) /\ OrderedOps(active, Plan(read, opts).val.ops)
  BY <1>1, PlanIsOrdered DEF active
<1>4. Selectable(active) BY <1>1, ActiveSelectable DEF Readable, active
<1>. QED BY <1>1, <1>2, <1>3, <1>4

\* What an up performs is all of its plan that runs a container or waits for one.
LEMMA UpPerforms ==
    ASSUME NEW j \in Jobs, Loads[j].ok, Job[j].command = "up", NEW S, NEW active,
           Loads[j].val.plan.ops \in Seq(S), OrderedOps(active, Loads[j].val.plan.ops)
    PROVE  Steps[j] \in Seq(S) /\ OrderedOps(active, Steps[j])
<1>. DEFINE ops == Loads[j].val.plan.ops
            I == {i \in DOMAIN ops : Performs(Job[j], ops[i])}
<1>1. Steps[j] = AtPlaces(ops, I) BY DEF Steps, Performed
<1>2. \A p \in DOMAIN ops : ops[p].op \in {"run", "wait"} => p \in I
  BY DEF Performs, UpSkips
<1>3. I \in SUBSET DOMAIN ops OBVIOUS
<1>. HIDE DEF ops, I
<1>4. ops \in Seq(S) /\ OrderedOps(active, ops) BY DEF ops
<1>5. AtPlaces(ops, I) \in Seq(S) BY <1>2, <1>3, <1>4, PicksEmbed
<1>6. PICK h : Embeds(AtPlaces(ops, I), ops, h) BY <1>2, <1>3, <1>4, PicksEmbed
<1>7. OrderedOps(active, AtPlaces(ops, I)) BY <1>4, <1>5, <1>6, OrderedEmbedded
<1>. QED BY <1>1, <1>5, <1>7

\* No other command runs a container.
LEMMA OthersRunNone ==
    ASSUME NEW j \in Jobs, ~(Loads[j].ok /\ Job[j].command = "up")
    PROVE  \A i \in DOMAIN Steps[j] : Steps[j][i].op # "run"
<1>1. CASE ~Loads[j].ok
  <2>1. Steps[j] = <<>> BY <1>1 DEF Steps
  <2>. QED BY <2>1
<1>2. CASE Loads[j].ok
  <2>. DEFINE ops == Loads[j].val.plan.ops
              I == {i \in DOMAIN ops : Performs(Job[j], ops[i])}
  <2>1. Steps[j] = AtPlaces(ops, I) BY <1>2 DEF Steps, Performed
  <2>2. PICK S : ops \in Seq(S) BY <1>2, LoadedPlan
  <2>3. \A i \in I : ops[i].op # "run" BY <1>2 DEF Performs
  <2>4. I \in SUBSET DOMAIN ops OBVIOUS
  <2>. HIDE DEF ops, I
  <2>5. PICK h : Picks(AtPlaces(ops, I), ops, I, h) BY <2>2, <2>4, AtPlacesPicks
  <2>6. \A i \in DOMAIN AtPlaces(ops, I) : h[i] \in I /\ AtPlaces(ops, I)[i] = ops[h[i]]
    BY <2>5 DEF Picks
  <2>. QED BY <2>1, <2>3, <2>6
<1>. QED BY <1>1, <1>2

\* A service that wants a dependency healthy has it among those it waits for.
LEMMA ConditionWants ==
    ASSUME NEW active, Selectable(active), NEW s \in DOMAIN active, NEW d,
           "healthy" \in {e[2] : e \in {x \in ToSet(DepsOf(active[s])) : x[1] = d}}
    PROVE  d \in Wants(active, s)
<1>1. PICK i \in DOMAIN DepsOf(active[s]) : DepsOf(active[s])[i][1] = d
             /\ DepsOf(active[s])[i][2] = "healthy"
  BY DEF ToSet
<1>2. \E k \in DOMAIN HealthyDependencies(active[s]) : HealthyDependencies(active[s])[k] = d
  BY <1>1, HealthyShape DEF Selectable
<1>. QED BY <1>2 DEF Wants, ToSet

\* And so is what an up performs of it.
LEMMA UpOrdered ==
    ASSUME NEW j \in Jobs, Loads[j].ok, Job[j].command = "up"
    PROVE  \E active, S :
              /\ Selectable(active) /\ DOMAIN active = Selected(j)
              /\ \A s \in Selected(j) : active[s] = Service_(j, s)
              /\ Steps[j] \in Seq(S) /\ OrderedOps(active, Steps[j])
BY LoadedPlan, UpPerforms

\* Whatever the files, the environment and the profiles: an up runs each service
\* once, after the containers it depends on and the barriers of those it wants
\* healthy (plan in lib.rs, topological_waves in dag.rs, execute in executor.rs).
THEOREM EveryPlanOrdered == StepsOrdered
<1>. SUFFICES ASSUME NEW j \in Jobs, NEW i \in DOMAIN Steps[j], Steps[j][i].op = "run"
              PROVE  /\ ~Comes(Steps[j], i, "run", Steps[j][i].service)
                     /\ \A d \in Dependencies(j, Steps[j][i].service) :
                           /\ Comes(Steps[j], i, "run", d)
                           /\ "healthy" \in Conditions(j, Steps[j][i].service, d) =>
                                 Comes(Steps[j], i, "wait", d)
  BY DEF StepsOrdered
<1>. DEFINE ops == Steps[j]  s == ops[i].service
<1>1. Loads[j].ok /\ Job[j].command = "up" BY OthersRunNone
<1>2. PICK active, S : /\ Selectable(active) /\ DOMAIN active = Selected(j)
                       /\ \A t \in Selected(j) : active[t] = Service_(j, t)
                       /\ ops \in Seq(S) /\ OrderedOps(active, ops)
  BY <1>1, UpOrdered
<1>. HIDE DEF ops
<1>3. /\ i \in DOMAIN ops /\ ops[i].op = "run" /\ i \in Nat
      /\ \A k \in 1..(i - 1) : k \in DOMAIN ops /\ k # i
      /\ \A k \in DOMAIN ops : k < i => k \in 1..(i - 1)
  BY <1>2 DEF ops
<1>4. s \in DOMAIN active BY <1>2, <1>3 DEF OrderedOps
<1>5. active[s] = Service_(j, s) BY <1>2, <1>4
<1>. HIDE DEF s
<1>6. Dependencies(j, s) = Needs(active, s) BY <1>5 DEF Dependencies, Needs
<1>7. \A kind, t : Comes(ops, i, kind, t) <=> \E k \in DOMAIN ops : k < i /\ Says(ops, k, kind, t)
  <2>1. \A k \in 1..(i - 1) : k < i BY <1>3
  <2>. QED BY <2>1, <1>3 DEF Comes, Says
<1>8. ~Comes(ops, i, "run", s)
  <2>1. Says(ops, i, "run", s) BY <1>3 DEF Says, s
  <2>2. ASSUME NEW k \in DOMAIN ops, k < i, Says(ops, k, "run", s) PROVE FALSE
    <3>1. k = i BY <1>2, <1>3, <2>1, <2>2 DEF OrderedOps
    <3>. QED BY <3>1, <2>2, <1>3
  <2>. QED BY <2>2, <1>7
<1>9. ASSUME NEW d \in Dependencies(j, s)
      PROVE  /\ Comes(ops, i, "run", d)
             /\ "healthy" \in Conditions(j, s, d) => Comes(ops, i, "wait", d)
  <2>1. /\ \A e \in Needs(active, s) : \E k \in DOMAIN ops : k < i /\ Says(ops, k, "run", e)
        /\ \A e \in Wants(active, s) : \E k \in DOMAIN ops : k < i /\ Says(ops, k, "wait", e)
    BY <1>2, <1>3 DEF OrderedOps, s
  <2>2. Comes(ops, i, "run", d) BY <2>1, <1>6, <1>7, <1>9
  <2>3. "healthy" \in Conditions(j, s, d) => d \in Wants(active, s)
    <3>1. Conditions(j, s, d) = {e[2] : e \in {x \in ToSet(DepsOf(active[s])) : x[1] = d}}
      BY <1>5 DEF Conditions
    <3>. QED BY <3>1, <1>2, <1>4, ConditionWants
  <2>. QED BY <2>1, <2>2, <2>3, <1>7
<1>. QED BY <1>8, <1>9 DEF ops, s

\* And it runs each service that its profiles select (profiles.rs) and no other.
THEOREM EveryPlanComplete == StepsComplete
<1>. SUFFICES ASSUME NEW j \in Jobs, Job[j].command = "up", Loads[j].ok
              PROVE  Selected(j) = {s \in Services : Comes(Steps[j], Len(Steps[j]) + 1, "run", s)}
  BY DEF StepsComplete
<1>. DEFINE ops == Steps[j]  n == Len(ops)
<1>1. PICK active, S : /\ Selectable(active) /\ DOMAIN active = Selected(j)
                       /\ ops \in Seq(S) /\ OrderedOps(active, ops)
  BY UpOrdered
<1>. HIDE DEF ops
<1>2. n \in Nat /\ DOMAIN ops = 1..((n + 1) - 1) BY <1>1
<1>. HIDE DEF n
<1>3. \A s : Comes(ops, n + 1, "run", s) <=> \E k \in DOMAIN ops : Says(ops, k, "run", s)
  BY <1>2 DEF Comes, Says
<1>4. \A s \in Selected(j) : s \in Services /\ Comes(ops, n + 1, "run", s)
  BY <1>1, <1>3 DEF OrderedOps, Selectable
<1>5. \A s : Comes(ops, n + 1, "run", s) => s \in Selected(j)
  BY <1>1, <1>3 DEF OrderedOps, Says
<1>. QED BY <1>4, <1>5 DEF ops, n
-----------------------------------------------------------------------------
(* Every way services can depend on one another.                            *)
\* What services wired by specs depend on.
LEMMA WiredNeeds ==
    ASSUME NEW conditions, conditions \subseteq DependsCondition, NEW specs \in Wiring(conditions)
    PROVE  /\ Selectable(Wired(specs)) /\ DOMAIN Wired(specs) = Services
           /\ \A s \in Services : /\ DOMAIN specs[s] \subseteq Services
                                  /\ Needs(Wired(specs), s) = DOMAIN specs[s]
                                  /\ ToSet(DepsOf(Wired(specs)[s]))
                                       = {<<d, specs[s][d]>> : d \in DOMAIN specs[s]}
<1>. DEFINE active == Wired(specs)
<1>1. DOMAIN active = Services /\ \A s \in Services : active[s].depends_on = After(specs[s])
  BY DEF Wired, Bare
<1>. HIDE DEF active
<1>2. \A s \in Services : specs[s] \in Partial(Services, conditions) BY DEF Wiring
<1>3. ASSUME NEW s \in Services
      PROVE  /\ DOMAIN specs[s] \subseteq Services
                  /\ specs[s] \in Partial(Services, DependsCondition)
  BY <1>2 DEF Partial
<1>4. \A s \in Services : After(specs[s]) \in DependsOn BY <1>3 DEF After, DependsOn
<1>5. Selectable(active) BY <1>1, <1>4 DEF Selectable
<1>6. ASSUME NEW s \in Services
      PROVE  /\ Needs(active, s) = DOMAIN specs[s]
             /\ ToSet(DepsOf(active[s])) = {<<d, specs[s][d]>> : d \in DOMAIN specs[s]}
  <2>. DEFINE D == DOMAIN specs[s]  q == InOrder(D)  f == specs[s]
  <2>0. active[s].depends_on.form = "map" /\ active[s].depends_on.specs = f
    <3>1. active[s].depends_on = After(f) BY <1>1
    <3>. HIDE DEF f
    <3>. QED BY <3>1 DEF After
  <2>1. DepsOf(active[s]) = [i \in DOMAIN q |-> <<q[i], f[q[i]]>>]
    BY <2>0 DEF DepsOf, ForEach
  <2>2. q \in Seq(D) /\ \A x \in D : \E i \in DOMAIN q : q[i] = x BY <1>3, InOrderOf
  <2>. HIDE DEF q, D, f
  <2>3. \A i \in DOMAIN q : q[i] \in D BY <2>2
  <2>4. ToSet(DepsOf(active[s])) = {<<d, f[d]>> : d \in D}
    <3>1. ToSet(DepsOf(active[s])) = {<<q[i], f[q[i]]>> : i \in DOMAIN q} BY <2>1 DEF ToSet
    <3>. QED BY <3>1, <2>2, <2>3
  <2>5. Needs(active, s) = D
    <3>1. Needs(active, s) = {e[1] : e \in {<<d, f[d]>> : d \in D}} BY <2>4 DEF Needs
    <3>2. \A d \in D : <<d, f[d]>> \in {<<c, f[c]>> : c \in D} /\ <<d, f[d]>>[1] = d OBVIOUS
    <3>3. \A d \in D : d \in Needs(active, s) BY <3>1, <3>2
    <3>4. \A x \in Needs(active, s) : x \in D BY <3>1
    <3>. QED BY <3>3, <3>4
  <2>. QED BY <2>4, <2>5 DEF D, f
<1>. QED BY <1>1, <1>3, <1>5, <1>6 DEF active

\* The graph of services wired by specs.
WiredGraph(g, specs) ==
    /\ IsGraph(g) /\ g.names = Services
    /\ \A e \in DOMAIN g.edges : g.edges[e].from \in DOMAIN specs[g.edges[e].to]
    /\ \A s \in Services : \A d \in DOMAIN specs[s] :
          \E e \in DOMAIN g.edges : g.edges[e].to = s /\ g.edges[e].from = d
\* Wired services need no service there is not, so they have a graph.
LEMMA WiredGraphBuilt ==
    ASSUME NEW conditions, conditions \subseteq DependsCondition, NEW specs \in Wiring(conditions)
    PROVE  /\ BuildGraph(Wired(specs)).ok /\ WiredGraph(BuildGraph(Wired(specs)).val, specs)
           /\ GraphOf(BuildGraph(Wired(specs)).val, Wired(specs))
<1>. DEFINE active == Wired(specs)  g == BuildGraph(active).val
<1>1. /\ Selectable(active) /\ DOMAIN active = Services
      /\ \A s \in Services :
           DOMAIN specs[s] \subseteq Services /\ Needs(active, s) = DOMAIN specs[s]
  BY WiredNeeds
<1>. HIDE DEF active
<1>2. BuildGraph(active).ok /\ GraphOf(g, active) BY <1>1, GraphBuilt
<1>. HIDE DEF g
<1>3. WiredGraph(g, specs)
  <2>1. IsGraph(g) /\ g.names = Services BY <1>1, <1>2 DEF GraphOf
  <2>2. \A e \in DOMAIN g.edges : g.edges[e].to \in Services BY <2>1 DEF IsGraph
  <2>3. \A e \in DOMAIN g.edges : g.edges[e].from \in DOMAIN specs[g.edges[e].to]
    BY <1>1, <1>2, <2>2 DEF GraphOf
  <2>4. \A s \in Services : \A d \in DOMAIN specs[s] :
          \E e \in DOMAIN g.edges : g.edges[e].to = s /\ g.edges[e].from = d
    BY <1>1, <1>2 DEF GraphOf
  <2>. QED BY <2>1, <2>3, <2>4 DEF WiredGraph
<1>. QED BY <1>2, <1>3 DEF g, active

\* What Kahn's algorithm leaves over are services that wait for one another.
LEMMA KnotsStick ==
    ASSUME NEW specs, NEW g, WiredGraph(g, specs)
    PROVE  /\ Stuck(g) \subseteq Services
           /\ Stuck(g) # {} => Waits(Stuck(g), specs)
           /\ Stuck(g) # {} <=> Knotted(specs)
<1>1. IsGraph(g) /\ g.names = Services BY DEF WiredGraph
<1>2. Stuck(g) \subseteq Services BY <1>1 DEF Stuck
<1>3. ASSUME Stuck(g) # {} PROVE Waits(Stuck(g), specs)
  <2>1. ASSUME NEW s \in Stuck(g) PROVE DOMAIN specs[s] \cap Stuck(g) # {}
    <3>1. PICK e \in DOMAIN g.edges : g.edges[e].to = s /\ g.edges[e].from \in Stuck(g)
      BY <1>1, StuckWaits
    <3>. QED BY <3>1 DEF WiredGraph
  <2>. QED BY <1>3, <2>1 DEF Waits
<1>4. ASSUME NEW C \in SUBSET Services, Waits(C, specs) PROVE Stuck(g) # {}
  <2>1. ASSUME NEW n \in C
        PROVE  \E e \in DOMAIN g.edges : g.edges[e].to = n /\ g.edges[e].from \in C
    <3>1. PICK d \in DOMAIN specs[n] : d \in C BY <1>4 DEF Waits
    <3>. QED BY <3>1 DEF WiredGraph
  <2>2. C \subseteq Stuck(g) BY <1>1, <2>1, WaitingStuck
  <2>. QED BY <2>2, <1>4 DEF Waits
<1>. QED BY <1>2, <1>3, <1>4 DEF Knotted

\* The waves of a graph without a knot.
LEMMA UnknottedLayers ==
    ASSUME NEW specs, NEW g, WiredGraph(g, specs), Stuck(g) = {}
    PROVE  TopologicalWaves(g).ok /\ InLayers(specs, TopologicalWaves(g).val)
<1>. DEFINE waves == TopologicalWaves(g).val
            In_(s) == {k \in DOMAIN waves : \E i \in DOMAIN waves[k] : waves[k][i] = s}
<1>1. IsGraph(g) /\ g.names = Services BY DEF WiredGraph
<1>2. PICK n \in Nat : /\ TopologicalWaves(g) = Ok([k \in 1..n |-> InOrder(Wave(g, k - 1))])
                       /\ \A s \in Services : \E k \in 1..n : s \in Wave(g, k - 1)
  BY <1>1, WavesAnswer
<1>3. /\ TopologicalWaves(g).ok = TRUE /\ DOMAIN waves = 1..n
      /\ \A k \in 1..n : waves[k] = InOrder(Wave(g, k - 1))
  BY <1>2 DEF Ok
<1>. HIDE DEF waves
<1>4. ASSUME NEW k \in 1..n
      PROVE  /\ \A i \in DOMAIN waves[k] : waves[k][i] \in Wave(g, k - 1)
             /\ \A i, h \in DOMAIN waves[k] : waves[k][i] = waves[k][h] => i = h
             /\ \A s \in Wave(g, k - 1) : \E i \in DOMAIN waves[k] : waves[k][i] = s
  <2>. DEFINE W == Wave(g, k - 1)
  <2>1. k - 1 \in Nat OBVIOUS
  <2>2. /\ waves[k] \in Seq(W)
        /\ \A i, h \in DOMAIN waves[k] : waves[k][i] = waves[k][h] => i = h
        /\ \A s \in W : \E i \in DOMAIN waves[k] : waves[k][i] = s
    <3>. DEFINE q == InOrder(W)
    <3>1. W \subseteq g.names /\ q \in Seq(W) /\ (\A i, h \in DOMAIN q : q[i] = q[h] => i = h)
          /\ \A s \in W : \E i \in DOMAIN q : q[i] = s
      BY <1>1, <2>1, WaveSubset
    <3>2. waves[k] = q BY <1>3
    <3>. HIDE DEF q, W
    <3>. QED BY <3>1, <3>2
  <2>. HIDE DEF W
  <2>3. \A i \in DOMAIN waves[k] : waves[k][i] \in W BY <2>2
  <2>. QED BY <2>2, <2>3 DEF W
<1>5. ASSUME NEW k \in Nat, NEW s \in Wave(g, k) PROVE In_(s) = {k + 1}
  <2>1. s \in Services BY <1>1, WaveMembers
  <2>2. PICK m \in 1..n : s \in Wave(g, m - 1) BY <1>2, <2>1
  <2>3. m - 1 \in Nat BY <2>2
  <2>4. m - 1 = k BY <1>1, <2>2, <2>3, OneWave
  <2>5. k + 1 \in 1..n /\ (k + 1) - 1 = k BY <2>3, <2>4, <2>2
  <2>6. k + 1 \in In_(s) BY <1>3, <1>4, <2>5
  <2>7. ASSUME NEW h \in In_(s) PROVE h = k + 1
    <3>1. h \in 1..n /\ s \in Wave(g, h - 1) /\ h - 1 \in Nat BY <1>3, <1>4
    <3>2. h - 1 = k BY <1>1, <3>1, OneWave
    <3>. QED BY <3>1, <3>2
  <2>. HIDE DEF In_
  <2>. QED BY <2>6, <2>7
<1>. HIDE DEF In_
<1>6. ASSUME NEW s \in Services
      PROVE  \E k \in 1..n : /\ In_(s) = {k}
                             /\ \A d \in DOMAIN specs[s] : \E m \in 1..(k - 1) : In_(d) = {m}
                             /\ k = 1 \/ \E d \in DOMAIN specs[s] : In_(d) = {k - 1}
  <2>1. PICK k \in 1..n : s \in Wave(g, k - 1) BY <1>2
  <2>. DEFINE l == k - 1
  <2>2. l \in Nat /\ k = l + 1 /\ s \in Wave(g, l) BY <2>1
  <2>. HIDE DEF l
  <2>3. In_(s) = {k} BY <1>5, <2>2
  <2>4. Open(g, l, s) = {} /\ (l = 0 \/ Open(g, l - 1, s) # {}) BY <1>1, <2>2, WaveMembers
  <2>5. ASSUME NEW e \in DOMAIN g.edges, g.edges[e].to = s
        PROVE  \E i \in 0..(l - 1) : g.edges[e].from \in Wave(g, i)
    <3>1. g.edges[e].from \in Before(g, l) BY <2>4, <2>5 DEF Open
    <3>. QED BY <3>1 DEF Before
  <2>6. ASSUME NEW d \in DOMAIN specs[s] PROVE \E m \in 1..(k - 1) : In_(d) = {m}
    <3>1. PICK e \in DOMAIN g.edges : g.edges[e].to = s /\ g.edges[e].from = d
      BY DEF WiredGraph
    <3>2. PICK i \in 0..(l - 1) : d \in Wave(g, i) BY <2>5, <3>1
    <3>3. i \in Nat /\ i + 1 \in 1..(k - 1) BY <2>2, <3>2
    <3>4. In_(d) = {i + 1} BY <1>5, <3>2, <3>3
    <3>. QED BY <3>3, <3>4
  <2>7. ASSUME k # 1 PROVE \E d \in DOMAIN specs[s] : In_(d) = {k - 1}
    <3>1. l # 0 /\ l - 1 \in Nat BY <2>2, <2>7
    <3>2. PICK e \in Open(g, l - 1, s) : TRUE BY <2>4, <3>1
    <3>. DEFINE d == g.edges[e].from
    <3>3. e \in DOMAIN g.edges /\ g.edges[e].to = s /\ d \notin Before(g, l - 1) BY <3>2 DEF Open
    <3>4. d \in DOMAIN specs[s] /\ d \in Services BY <3>3, <1>1 DEF WiredGraph, IsGraph
    <3>5. PICK i \in 0..(l - 1) : d \in Wave(g, i) BY <2>5, <3>3
    <3>6. i = l - 1
      <4>1. \A h \in 0..((l - 1) - 1) : d \notin Wave(g, h)
        <5>1. d \in g.names BY <1>1, <3>4
        <5>. QED BY <3>3, <5>1 DEF Before
      <4>2. i \notin 0..((l - 1) - 1) BY <4>1, <3>5
      <4>. QED BY <4>2, <3>5, <3>1
    <3>. HIDE DEF d
    <3>7. In_(d) = {(l - 1) + 1} BY <1>5, <3>1, <3>5, <3>6
    <3>8. (l - 1) + 1 = k - 1 BY <2>2
    <3>. QED BY <3>4, <3>7, <3>8
  <2>. QED BY <2>3, <2>6, <2>7
<1>7. InLayers(specs, TopologicalWaves(g).val)
  <2>1. \A k \in DOMAIN waves : \A i, h \in DOMAIN waves[k] : waves[k][i] = waves[k][h] => i = h
    BY <1>3, <1>4
  <2>. QED BY <2>1, <1>3, <1>6, Zenon DEF In_, waves, InLayers
<1>. QED BY <1>3, <1>7

\* BuildGraph and topological_waves (dag.rs), whatever the services and however
\* they depend on one another, under conditions of any kind.
THEOREM EveryWiringLayers ==
    ASSUME NEW conditions, conditions \subseteq DependsCondition, NEW specs \in Wiring(conditions)
    PROVE  Layers(specs, TopologicalWaves(BuildGraph(Wired(specs)).val))
<1>. DEFINE g == BuildGraph(Wired(specs)).val  waves == TopologicalWaves(g)
<1>1. WiredGraph(g, specs) BY WiredGraphBuilt
<1>. HIDE DEF g
<1>2. IsGraph(g) BY <1>1 DEF WiredGraph
<1>3. CASE Stuck(g) # {}
  <2>1. Knotted(specs) /\ Waits(Stuck(g), specs) BY <1>1, <1>3, KnotsStick
  <2>2. waves.ok = FALSE /\ waves.path = InOrder(Stuck(g)) BY <1>2, <1>3, WavesAnswer
  <2>3. Stuck(g) \subseteq ToSet(waves.path)
    <3>1. Stuck(g) \subseteq Services BY <1>1, KnotsStick
    <3>2. \A x \in Stuck(g) : \E i \in DOMAIN InOrder(Stuck(g)) : InOrder(Stuck(g))[i] = x
      BY <3>1, InOrderOf
    <3>. QED BY <2>2, <3>2 DEF ToSet
  <2>. HIDE DEF waves
  <2>4. ~waves.ok /\ \E C \in SUBSET ToSet(waves.path) : Waits(C, specs) BY <2>1, <2>2, <2>3
  <2>5. Layers(specs, waves) BY <2>1, <2>4, Zenon DEF Layers
  <2>. QED BY <2>5 DEF waves, g
<1>4. CASE Stuck(g) = {}
  <2>1. ~Knotted(specs) BY <1>1, <1>4, KnotsStick
  <2>2. waves.ok /\ InLayers(specs, waves.val) BY <1>1, <1>4, UnknottedLayers
  <2>. HIDE DEF waves
  <2>3. Layers(specs, waves) BY <2>1, <2>2, Zenon DEF Layers, InLayers
  <2>. QED BY <2>3 DEF waves, g
<1>. QED BY <1>3, <1>4 DEF g

\* topological_waves (dag.rs) places each service in one wave, after all it
\* depends on and no later than it must, and fails exactly when services wait for
\* one another: for any number of services and each of their dependency graphs.
THEOREM WavesSoundHolds == Spec => []WavesSound
<1>1. {"started"} \subseteq DependsCondition BY DEF DependsCondition
<1>2. WavesSound BY <1>1, EveryWiringLayers DEF WavesSound
<1>. QED BY <1>2, PTL
-----------------------------------------------------------------------------
(* Every plan is sound.                                                     *)
\* The kind of an operation says in which part of the plan it is.
LEMMA LaidKinds ==
    ASSUME NEW ops, NEW q, NEW a, NEW b, NEW n, Laid(ops, q, a, b, n)
    PROVE  /\ a \in Nat /\ b \in Nat /\ n \in Nat /\ DOMAIN ops = 1..n
           /\ \A i \in DOMAIN ops : ops[i].op \in {"network", "volume"} <=> i <= a
           /\ \A i \in DOMAIN ops : ops[i].op \in {"build", "pull"} <=> a < i /\ i <= a + b
           /\ \A i \in DOMAIN ops : ops[i].op \in {"run", "wait"} <=> a + b < i
           /\ \A i \in DOMAIN ops : ops[i].op \in {"build", "pull"} =>
                 i - a \in DOMAIN q /\ ops[i].service = q[i - a]
           /\ \A i \in DOMAIN q : /\ a + i \in DOMAIN ops /\ ops[a + i].op \in {"build", "pull"}
                                  /\ ops[a + i].service = q[i]
<1>1. a \in Nat /\ b \in Nat /\ n \in Nat /\ DOMAIN ops = 1..n /\ a + b <= n /\ DOMAIN q = 1..b
  BY DEF Laid
<1>2. \A i \in 1..n : i <= a => ops[i].op \in {"network", "volume"}
  <2>1. \A i \in 1..n : i <= a => i \in 1..a BY <1>1
  <2>. QED BY <2>1 DEF Laid
<1>3. \A i \in 1..n : a < i /\ i <= a + b =>
         i - a \in 1..b /\ ops[i].op \in {"build", "pull"} /\ ops[i].service = q[i - a]
  <2>1. \A i \in 1..n : a < i /\ i <= a + b => i - a \in 1..b /\ a + (i - a) = i BY <1>1
  <2>2. \A i \in 1..b : ops[a + i].op \in {"build", "pull"} /\ ops[a + i].service = q[i] BY DEF Laid
  <2>. QED BY <2>1, <2>2
<1>4. \A i \in 1..n : a + b < i => ops[i].op \in {"run", "wait"}
  <2>1. \A i \in 1..n : a + b < i => i > a + b BY <1>1
  <2>. QED BY <2>1 DEF Laid
<1>5. \A i \in 1..n : \/ i <= a /\ ~(a < i) /\ ~(a + b < i)
                      \/ ~(i <= a) /\ a < i /\ i <= a + b /\ ~(a + b < i)
                      \/ ~(i <= a) /\ ~(i <= a + b) /\ a + b < i
  BY <1>1
<1>6. \A i \in 1..b :
        a + i \in 1..n /\ ops[a + i].op \in {"build", "pull"} /\ ops[a + i].service = q[i]
  <2>1. \A i \in 1..b : a + i \in 1..n BY <1>1
  <2>. QED BY <2>1 DEF Laid
<1>7. ASSUME NEW i \in 1..n
      PROVE  /\ ops[i].op \in {"network", "volume"} <=> i <= a
             /\ ops[i].op \in {"build", "pull"} <=> a < i /\ i <= a + b
             /\ ops[i].op \in {"run", "wait"} <=> a + b < i
             /\ ops[i].op \in {"build", "pull"} =>
                   i - a \in 1..b /\ ops[i].service = q[i - a]
  BY <1>2, <1>3, <1>4, <1>5
<1>. QED BY <1>1, <1>6, <1>7

\* A service's run comes after those it depends on, and after the barriers of
\* those it wants healthy.
LEMMA RunsAndWaits ==
    ASSUME NEW active, Selectable(active), NEW ops, DOMAIN ops \subseteq Int,
             OrderedOps(active, ops),
           NEW s \in DOMAIN active, NEW d \in ToSet(DepsOf(active[s])),
           NEW k \in DOMAIN ops, Says(ops, k, "run", s)
    PROVE  /\ \A i \in DOMAIN ops : Says(ops, i, "run", d[1]) => i < k
           /\ d[2] = "healthy" =>
                 /\ \E i \in DOMAIN ops : Says(ops, i, "wait", d[1])
                 /\ \A i \in DOMAIN ops : Says(ops, i, "wait", d[1]) => i < k
<1>1. ops[k].op = "run" /\ ops[k].service = s BY DEF Says
<1>2. d[1] \in Needs(active, s) BY DEF Needs
<1>3. PICK j \in DOMAIN ops : j < k /\ Says(ops, j, "run", d[1]) BY <1>1, <1>2 DEF OrderedOps
<1>4. \A i \in DOMAIN ops : Says(ops, i, "run", d[1]) => i = j BY <1>3 DEF OrderedOps
<1>5. ASSUME d[2] = "healthy"
      PROVE  /\ \E i \in DOMAIN ops : Says(ops, i, "wait", d[1])
             /\ \A i \in DOMAIN ops : Says(ops, i, "wait", d[1]) => i < k
  <2>1. d[1] \in Wants(active, s)
    <3>1. PICK i \in DOMAIN DepsOf(active[s]) : DepsOf(active[s])[i] = d BY DEF ToSet
    <3>2. \E h \in DOMAIN HealthyDependencies(active[s]) : HealthyDependencies(active[s])[h] = d[1]
      BY <1>5, <3>1, HealthyShape DEF Selectable
    <3>. QED BY <3>2 DEF Wants, ToSet
  <2>2. PICK h \in DOMAIN ops : h < k /\ Says(ops, h, "wait", d[1]) BY <1>1, <2>1 DEF OrderedOps
  <2>3. \A i \in DOMAIN ops : Says(ops, i, "wait", d[1]) => i = h BY <2>2 DEF OrderedOps
  <2>. QED BY <2>2, <2>3
<1>. QED BY <1>3, <1>4, <1>5

\* A plan that is laid out, with its runs and waits in order, is sound.
LEMMA LaidIsSound ==
    ASSUME NEW active, Selectable(active), NEW ops, NEW a, NEW b, NEW n,
           Laid(ops, InOrder(DOMAIN active), a, b, n), OrderedOps(active, ops)
    PROVE  PlanSound(ops, active)
<1>. DEFINE q == InOrder(DOMAIN active)
            Places(kinds, s) == {i \in DOMAIN ops : ops[i].op \in kinds /\ ops[i].service = s}
            shared == {i \in DOMAIN ops : ops[i].op \in {"network", "volume"}}
            Precede(I, K) == \A i \in I, k \in K : i < k
<1>1. /\ a \in Nat /\ b \in Nat /\ n \in Nat /\ DOMAIN ops = 1..n
      /\ \A i \in DOMAIN ops : ops[i].op \in {"network", "volume"} <=> i <= a
      /\ \A i \in DOMAIN ops : ops[i].op \in {"build", "pull"} <=> a < i /\ i <= a + b
      /\ \A i \in DOMAIN ops : ops[i].op \in {"run", "wait"} <=> a + b < i
      /\ \A i \in DOMAIN ops : ops[i].op \in {"build", "pull"} =>
            i - a \in DOMAIN q /\ ops[i].service = q[i - a]
      /\ \A i \in DOMAIN q : /\ a + i \in DOMAIN ops /\ ops[a + i].op \in {"build", "pull"}
                             /\ ops[a + i].service = q[i]
  BY LaidKinds
<1>2. /\ q \in Seq(DOMAIN active) /\ DOMAIN active \subseteq Nat
      /\ \A i, j \in DOMAIN q : i < j => q[i] < q[j]
      /\ \A s \in DOMAIN active : \E i \in DOMAIN q : q[i] = s
  BY InOrderOf DEF Selectable
<1>. HIDE DEF q
<1>3. \A i, j \in DOMAIN q : q[i] = q[j] => i = j
  <2>. SUFFICES ASSUME NEW i \in DOMAIN q, NEW j \in DOMAIN q, q[i] = q[j] PROVE i = j OBVIOUS
  <2>1. i \in Int /\ j \in Int /\ q[i] \in Int /\ q[j] \in Int BY <1>2
  <2>2. (i < j => q[i] < q[j]) /\ (j < i => q[j] < q[i]) BY <1>2
  <2>. QED BY <2>1, <2>2
<1>4. /\ \A kinds, s : \A i : i \in Places(kinds, s)
            <=> i \in DOMAIN ops /\ ops[i].op \in kinds /\ ops[i].service = s
      /\ \A i : i \in shared <=> i \in DOMAIN ops /\ ops[i].op \in {"network", "volume"}
  OBVIOUS
<1>5. \A kind, s : \A i : i \in Places({kind}, s) <=> i \in DOMAIN ops /\ Says(ops, i, kind, s)
  BY DEF Says
<1>. HIDE DEF Places, shared
<1>6. Precede(shared, DOMAIN ops \ shared) BY <1>1, <1>4
<1>7. \A kind \in {"run", "wait"} : \A i, j \in DOMAIN ops : \A s :
         Says(ops, i, kind, s) /\ Says(ops, j, kind, s) => i = j
  BY DEF OrderedOps
<1>8. \A i \in DOMAIN ops : ops[i].op = "run" => ops[i].service \in DOMAIN active BY DEF OrderedOps
<1>9. \A i \in DOMAIN ops : ops[i].op = "wait" =>
         \E j \in DOMAIN ops : j < i /\ Says(ops, j, "run", ops[i].service)
  BY DEF OrderedOps
<1>10. ASSUME NEW i \in DOMAIN ops \ shared PROVE ops[i].service \in DOMAIN active
  <2>1. ops[i].op \in {"build", "pull", "run", "wait"} BY <1>1, <1>4
  <2>2. ops[i].op \in {"build", "pull"} => ops[i].service \in DOMAIN active BY <1>1, <1>2
  <2>3. ops[i].op = "wait" => ops[i].service \in DOMAIN active BY <1>8, <1>9 DEF Says
  <2>. QED BY <2>1, <2>2, <2>3, <1>8
<1>11. ASSUME NEW s \in DOMAIN active
       PROVE  /\ \E i \in DOMAIN ops : Places({"run"}, s) = {i}
              /\ \E i \in DOMAIN ops : Places({"build", "pull"}, s) = {i}
              /\ \A t \in DOMAIN active : Precede(Places({"build", "pull"}, t), Places({"run"}, s))
              /\ \A i, k \in Places({"wait"}, s) : i = k
              /\ Precede(Places({"run"}, s), Places({"wait"}, s))
              /\ \A d \in ToSet(DepsOf(active[s])) :
                    /\ Precede(Places({"run"}, d[1]), Places({"run"}, s))
                    /\ d[2] = "healthy" =>
                          /\ Places({"wait"}, d[1]) # {}
                          /\ Precede(Places({"wait"}, d[1]), Places({"run"}, s))
  <2>1. PICK r \in DOMAIN ops : Says(ops, r, "run", s) BY DEF OrderedOps
  <2>2. Places({"run"}, s) = {r} BY <2>1, <1>5, <1>7
  <2>3. \E i \in DOMAIN ops : Places({"build", "pull"}, s) = {i}
    <3>1. PICK i \in DOMAIN q : q[i] = s BY <1>2
    <3>2. a + i \in DOMAIN ops /\ a + i \in Places({"build", "pull"}, s) BY <3>1, <1>1, <1>4
    <3>3. ASSUME NEW k \in Places({"build", "pull"}, s) PROVE k = a + i
      <4>1. k \in DOMAIN ops /\ k - a \in DOMAIN q /\ q[k - a] = s BY <3>3, <1>1, <1>4
      <4>2. k - a = i BY <4>1, <3>1, <1>3
      <4>3. k \in Int /\ i \in Int BY <4>1, <1>1, <1>2
      <4>. QED BY <4>2, <4>3, <1>1
    <3>. QED BY <3>2, <3>3
  <2>4. \A t \in DOMAIN active : Precede(Places({"build", "pull"}, t), Places({"run"}, s))
    <3>1. a + b < r /\ r \in Int BY <2>1, <1>1 DEF Says
    <3>2. \A t : \A i \in Places({"build", "pull"}, t) : i \in Int /\ i <= a + b BY <1>1, <1>4
    <3>3. \A t : \A i \in Places({"build", "pull"}, t) : i < r BY <3>1, <3>2, <1>1
    <3>. QED BY <3>3, <2>2
  <2>5. \A i, k \in Places({"wait"}, s) : i = k BY <1>5, <1>7
  <2>6. ASSUME NEW k \in Places({"wait"}, s) PROVE r < k
    <3>1. k \in DOMAIN ops /\ ops[k].op = "wait" /\ ops[k].service = s BY <2>6, <1>4
    <3>2. PICK j \in DOMAIN ops : j < k /\ Says(ops, j, "run", s) BY <3>1, <1>9
    <3>3. j = r BY <3>2, <2>1, <1>7
    <3>. QED BY <3>2, <3>3
  <2>7. ASSUME NEW d \in ToSet(DepsOf(active[s]))
        PROVE  /\ \A i \in Places({"run"}, d[1]) : i < r
               /\ d[2] = "healthy" =>
                     Places({"wait"}, d[1]) # {} /\ \A i \in Places({"wait"}, d[1]) : i < r
    <3>1. DOMAIN ops \subseteq Int BY <1>1
    <3>2. /\ \A i \in DOMAIN ops : Says(ops, i, "run", d[1]) => i < r
          /\ d[2] = "healthy" =>
                /\ \E i \in DOMAIN ops : Says(ops, i, "wait", d[1])
                /\ \A i \in DOMAIN ops : Says(ops, i, "wait", d[1]) => i < r
      BY <2>1, <3>1, RunsAndWaits
    <3>. QED BY <3>2, <1>5
  <2>. QED BY <2>2, <2>3, <2>4, <2>5, <2>6, <2>7
<1>. QED BY <1>6, <1>10, <1>11, Zenon DEF PlanSound, Places, shared, Precede

\* Any plan that is made (plan in lib.rs), of any file the planner reads, whatever
\* the profiles: each operation comes after all that it needs.
THEOREM EveryPlanSound ==
    ASSUME NEW compose, Readable(compose), NEW opts, Plan(compose, opts).ok
    PROVE  PlanSound(Plan(compose, opts).val.ops, Active(compose, opts.profiles))
<1>. DEFINE active == Active(compose, opts.profiles)
<1>1. Selectable(compose.services) BY DEF Readable
<1>2. PICK waves, project : /\ Plan(compose, opts).val = Layout(compose, active, waves, project)
                            /\ Layered(active, waves)
  BY <1>1, PlanAnswers
<1>3. Selectable(active) BY <1>1, ActiveSelectable
<1>. HIDE DEF active
<1>4. OrderedOps(active, Layout(compose, active, waves, project).ops) BY <1>2, <1>3, LayoutOrdered
<1>5. PICK a, b, n :
         Laid(Layout(compose, active, waves, project).ops, InOrder(DOMAIN active), a, b, n)
  BY <1>2, <1>3, LayoutLaid
<1>6. PlanSound(Layout(compose, active, waves, project).ops, active)
  BY <1>3, <1>4, <1>5, LaidIsSound
<1>. QED BY <1>2, <1>6 DEF active

\* In particular the plan of each command that loads.
LEMMA LoadedPlanSound ==
    ASSUME NEW j \in Jobs, Loads[j].ok
    PROVE  PlanSound(Loads[j].val.plan.ops, Chosen(j))
<1>1. PICK read, opts : /\ Readable(read) /\ Plan(read, opts).ok
                        /\ Loads[j].val.plan = Plan(read, opts).val
                        /\ Chosen(j) = Active(read, opts.profiles)
  BY LoadedFile
<1>2. PlanSound(Plan(read, opts).val.ops, Active(read, opts.profiles)) BY <1>1, EveryPlanSound
<1>. QED BY <1>1, <1>2

\* What wired services make up is a file without references, of which the planner
\* takes every service.
LEMMA WiredRead ==
    ASSUME NEW conditions, conditions \subseteq DependsCondition, NEW specs \in Wiring(conditions)
    PROVE  /\ Readable(WiredFile(specs)) /\ WiredFile(specs).services = Wired(specs)
           /\ Active(WiredFile(specs), <<>>) = Wired(specs)
           /\ FilterServices(WiredFile(specs), <<>>) = Ok(Wired(specs))
           /\ KnownServices(Wired(specs), <<>>) = Ok(Wired(specs))
           /\ ValidateReferences(WiredFile(specs), Wired(specs)) = Ok(Wired(specs))
<1>. DEFINE file == WiredFile(specs)  active == Wired(specs)  R == {<<<<"_">>, Resource>>}
<1>1. /\ file.services = active /\ file.networks \in Seq(R) /\ file.volumes \in Seq(R)
  BY DEF WiredFile, File
<1>2. Selectable(active) /\ DOMAIN active = Services BY WiredNeeds
<1>3. \A s \in Services : /\ active[s].profiles = <<>> /\ active[s].networks = <<>>
                          /\ active[s].volumes = <<>>
  BY DEF Wired, Bare
<1>4. active = [s \in Services |-> active[s]] BY DEF Wired
<1>. HIDE DEF file, active
<1>5. ToSet(<<>>) = {} BY DEF ToSet
<1>6. Profiled(file, <<>>) = Services BY <1>1, <1>2, <1>3, <1>5 DEF Profiled
<1>7. Active(file, <<>>) = active BY <1>1, <1>4, <1>6 DEF Active
<1>8. Readable(file) BY <1>1, <1>2 DEF Readable
<1>9. FilterServices(file, <<>>) = Ok(active)
  <2>1. FilterServices(file, <<>>) = Ok(Active(file, <<>>))
    BY <1>5 DEF FilterServices, Active, Profiled
  <2>. QED BY <2>1, <1>7
<1>10. KnownServices(active, <<>>) = Ok(active) BY <1>5 DEF KnownServices
<1>11. ValidateReferences(file, active) = Ok(active)
  <2>1. \A s \in DOMAIN active : ToSet(active[s].networks) \subseteq KnownNetworks(file)
    BY <1>2, <1>3, <1>5
  <2>2. \A s \in DOMAIN active : NamedVolumes(active[s]) \subseteq Keys(file.volumes)
    <3>1. \A s \in DOMAIN active : NamedVolumes(active[s]) = {}
      BY <1>2, <1>3, <1>5 DEF NamedVolumes
    <3>. QED BY <3>1
  <2>. QED BY <2>1, <2>2 DEF ValidateReferences
<1>. QED BY <1>1, <1>7, <1>8, <1>9, <1>10, <1>11 DEF file, active

\* Services of which none wait for one another have a plan.
LEMMA WiredPlanned ==
    ASSUME NEW conditions, conditions \subseteq DependsCondition, NEW specs \in Wiring(conditions),
           ~Knotted(specs), NEW opts, opts.profiles = <<>>, opts.services = <<>>
    PROVE  Plan(WiredFile(specs), opts).ok
<1>. DEFINE file == WiredFile(specs)  active == Wired(specs)
            graph == BuildGraph(active).val  waves == TopologicalWaves(graph).val
            project == ProjectName(file, opts)
            laid(a, w) == Ok(Layout(file, a, w, project))
            waved(a, g) == AndThen(TopologicalWaves(g), LAMBDA w : laid(a, w))
            graphed(a) == AndThen(BuildGraph(a), LAMBDA g : waved(a, g))
            checked(a) == AndThen(ValidateReferences(file, a), LAMBDA valid : graphed(a))
            known(a) == AndThen(KnownServices(a, opts.services), LAMBDA asked : checked(a))
<1>1. Plan(file, opts) = AndThen(FilterServices(file, opts.profiles), LAMBDA a : known(a))
  BY DEF Plan
<1>2. Plan(file, opts) = IF FilterServices(file, opts.profiles).ok
                         THEN known(FilterServices(file, opts.profiles).val)
                         ELSE FilterServices(file, opts.profiles)
  <2>. HIDE DEF known
  <2>. QED BY <1>1 DEF AndThen, With
<1>3. known(active) = IF KnownServices(active, opts.services).ok THEN checked(active)
                      ELSE KnownServices(active, opts.services)
  <2>. HIDE DEF checked
  <2>. QED BY DEF AndThen, With
<1>4. checked(active) = IF ValidateReferences(file, active).ok THEN graphed(active)
                        ELSE ValidateReferences(file, active)
  <2>. HIDE DEF graphed
  <2>. QED BY DEF AndThen, With
<1>5. graphed(active) = IF BuildGraph(active).ok THEN waved(active, graph) ELSE BuildGraph(active)
  <2>. HIDE DEF waved
  <2>. QED BY DEF AndThen, With
<1>6. waved(active, graph) = IF TopologicalWaves(graph).ok THEN laid(active, waves)
                             ELSE TopologicalWaves(graph)
  <2>. HIDE DEF laid
  <2>. QED BY DEF AndThen, With
<1>7. BuildGraph(active).ok /\ WiredGraph(graph, specs) /\ GraphOf(graph, active)
  BY WiredGraphBuilt
<1>8. TopologicalWaves(graph).ok
  <2>. HIDE DEF graph
  <2>1. Stuck(graph) = {} BY <1>7, KnotsStick
  <2>. QED BY <2>1, <1>7, UnknottedLayers
<1>9. \A v : Ok(v).ok = TRUE /\ Ok(v).val = v BY DEF Ok
<1>10. /\ FilterServices(file, opts.profiles) = Ok(active)
       /\ KnownServices(active, opts.services) = Ok(active)
       /\ ValidateReferences(file, active) = Ok(active)
  BY WiredRead
<1>11. laid(active, waves).ok = TRUE BY <1>9
<1>. HIDE DEF file, active, graph, waves, laid, waved, graphed, checked, known
<1>12. Plan(file, opts) = laid(active, waves)
  BY <1>2, <1>3, <1>4, <1>5, <1>6, <1>7, <1>8, <1>9, <1>10
<1>. QED BY <1>11, <1>12 DEF file

\* And that of wired services of which none wait for one another.
LEMMA WiredPlanSound ==
    ASSUME NEW conditions, conditions \subseteq DependsCondition, NEW specs \in Wiring(conditions),
           ~Knotted(specs), NEW opts, opts.profiles = <<>>, opts.services = <<>>
    PROVE  LET plan == Plan(WiredFile(specs), opts)
           IN  plan.ok /\ PlanSound(plan.val.ops, Wired(specs))
<1>1. Readable(WiredFile(specs)) /\ Active(WiredFile(specs), opts.profiles) = Wired(specs)
  BY WiredRead
<1>2. Plan(WiredFile(specs), opts).ok BY WiredPlanned
<1>3. PlanSound(Plan(WiredFile(specs), opts).val.ops, Active(WiredFile(specs), opts.profiles))
  BY <1>1, <1>2, EveryPlanSound
<1>. QED BY <1>1, <1>2, <1>3

\* Everything that a container needs comes before it (plan in lib.rs): networks,
\* volumes and images, the containers it depends on and one barrier for each it
\* wants healthy; for the plan of every command, of every file of services that do
\* not wait for one another, and what up performs of a plan keeps that order.
THEOREM PlanOrderedHolds == Spec => []PlanOrdered
<1>1. StepsOrdered /\ StepsComplete BY EveryPlanOrdered, EveryPlanComplete
<1>2. \A j \in Jobs : Loads[j].ok => PlanSound(Loads[j].val.plan.ops, Chosen(j))
  BY LoadedPlanSound
<1>3. ASSUME NEW specs \in Wiring({"started", "healthy"}), ~Knotted(specs)
      PROVE  LET plan == Plan(WiredFile(specs),
                              [profiles |-> <<>>, project_name |-> <<>>, services |-> <<>>])
             IN  plan.ok /\ PlanSound(plan.val.ops, Wired(specs))
  <2>. DEFINE opts == [profiles |-> <<>>, project_name |-> <<>>, services |-> <<>>]
  <2>1. opts.profiles = <<>> /\ opts.services = <<>> OBVIOUS
  <2>2. {"started", "healthy"} \subseteq DependsCondition BY DEF DependsCondition
  <2>. HIDE DEF opts
  <2>. QED BY <2>1, <2>2, <1>3, WiredPlanSound DEF opts
<1>4. PlanOrdered BY <1>1, <1>2, <1>3, Zenon DEF PlanOrdered
<1>. QED BY <1>4, PTL
=============================================================================
