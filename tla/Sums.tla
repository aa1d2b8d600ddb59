------------------------------- MODULE Sums ---------------------------------
(***************************************************************************)
(* Sums over finite sets, and the two principles of induction that the     *)
(* proofs about them rest on.                                              *)
(***************************************************************************)
EXTENDS Integers, FiniteSets, FiniteSetsExt, FiniteSetTheorems, WellFoundedInduction, TLAPS

\* Unless a step names another prover.
USE Zenon

\* The sum of g over S.
SumOver(g, S) == FoldSet(LAMBDA x, n : g[x] + n, 0, S)

\* A set of numbers that has 0 and with each number the next one has them all.
LEMMA Induction ==
    ASSUME NEW A \in SUBSET Nat, 0 \in A, \A n \in A : n + 1 \in A
    PROVE  A = Nat
<1> DEFINE R == {p \in Nat \X Nat : p[1] < p[2]}
<1>1. IsWellFoundedOn(R, Nat)
  BY SMT, NatLessThanWellFounded DEF OpToRel
<1>2. ASSUME NEW x \in Nat, NEW y \in Nat, x < y PROVE <<x, y>> \in R
  BY SMT, <1>2
<1> HIDE DEF R
<1>3. ASSUME Nat \ A # {} PROVE FALSE
  <2>1. PICK x \in Nat \ A : \A y \in Nat \ A : <<y, x>> \notin R
    BY <1>1, <1>3, WFMin
  <2>2. x # 0 /\ x - 1 \in Nat /\ x - 1 < x /\ (x - 1) + 1 = x
    BY SMT
  <2>3. x - 1 \in A
    BY <1>2, <2>1, <2>2
  <2> QED
    BY <2>2, <2>3
<1> QED
  BY <1>3

\* A set of finite sets that has the empty one and with each set those of one element more.
LEMMA SetInduction ==
    ASSUME NEW S, IsFiniteSet(S), NEW A,
           {} \in A, \A T \in SUBSET S, x \in S : T \in A /\ x \notin T => T \cup {x} \in A
    PROVE  S \in A
<1> DEFINE N == {n \in Nat : \A T \in SUBSET S : Cardinality(T) = n => T \in A}
<1>1. \A T \in SUBSET S : IsFiniteSet(T) /\ Cardinality(T) \in Nat
  BY FS_Subset, FS_CardinalityType
<1>2. 0 \in N
  BY <1>1, FS_EmptySet
<1>3. ASSUME NEW n \in N PROVE n + 1 \in N
  <2> SUFFICES ASSUME NEW T \in SUBSET S, Cardinality(T) = n + 1 PROVE T \in A
    BY SMT
  <2>1. PICK x : x \in T
    <3>1. Cardinality(T) # 0
      BY SMT, <1>3
    <3> QED
      BY <1>1, <3>1, FS_EmptySet
  <2>2. Cardinality(T \ {x}) = Cardinality(T) - 1
    BY <1>1, <2>1, FS_RemoveElement
  <2>3. Cardinality(T \ {x}) = n
    BY SMT, <1>3, <2>2
  <2>4. T \ {x} \in A
    BY <1>3, <2>3
  <2>5. T = (T \ {x}) \cup {x}
    BY <2>1
  <2> QED
    BY <2>1, <2>4, <2>5
<1>4. N = Nat
  <2> HIDE DEF N
  <2>1. N \in SUBSET Nat
    BY DEF N
  <2> QED
    BY <1>2, <1>3, <2>1, Induction
<1> QED
  BY <1>1, <1>4

-----------------------------------------------------------------------------
\* The element that the fold takes out of a set next, and one step of it.
Pick(s) == CHOOSE x \in s : TRUE
Fold(g, f, s) == IF s = {} THEN 0 ELSE g[Pick(s)] + f[s \ {Pick(s)}]
IsFold(g, S, f) == f = [s \in SUBSET S |-> Fold(g, f, s)]

LEMMA SumIsFold ==
    ASSUME NEW S, NEW g
    PROVE  SumOver(g, S) = (CHOOSE f : IsFold(g, S, f))[S]
  BY DEF SumOver, FoldSet, MapThenFoldSet, IsFold, Fold, Pick

LEMMA PickIn == ASSUME NEW s, s # {} PROVE Pick(s) \in s
  BY DEF Pick

\* There is such a function.
LEMMA FoldExists ==
    ASSUME NEW S, IsFiniteSet(S), NEW g
    PROVE  \E f : IsFold(g, S, f)
<1> DEFINE Up(n, f) == f = [s \in SUBSET S |-> f[s]]
                         /\ \A s \in SUBSET S : Cardinality(s) <= n => f[s] = Fold(g, f, s)
           N == {n \in Nat : \E f : Up(n, f)}
<1>1. \A T \in SUBSET S : IsFiniteSet(T) /\ Cardinality(T) \in Nat /\ Cardinality(T) <= Cardinality(S)
  BY FS_Subset, FS_CardinalityType
<1>2. 0 \in N
  <2> DEFINE f == [s \in SUBSET S |-> 0]
  <2>1. \A s \in SUBSET S : Cardinality(s) <= 0 => s = {}
    BY SMT, <1>1, FS_EmptySet
  <2>2. Up(0, f)
    BY <2>1 DEF Fold
  <2> QED
    BY <2>2
<1>3. ASSUME NEW n \in N PROVE n + 1 \in N
  <2>1. PICK f : Up(n, f)
    BY <1>3
  <2> DEFINE h == [s \in SUBSET S |-> IF Cardinality(s) <= n THEN f[s] ELSE Fold(g, f, s)]
  <2>2. ASSUME NEW s \in SUBSET S, Cardinality(s) <= n + 1 PROVE h[s] = Fold(g, h, s)
    <3>1. h[s] = Fold(g, f, s)
      BY <2>1
    <3>2. ASSUME s # {} PROVE h[s \ {Pick(s)}] = f[s \ {Pick(s)}]
      <4>1. Pick(s) \in s /\ s \ {Pick(s)} \in SUBSET S
        BY <3>2, PickIn
      <4>2. Cardinality(s \ {Pick(s)}) = Cardinality(s) - 1
        BY <1>1, <4>1, FS_RemoveElement
      <4>3. Cardinality(s \ {Pick(s)}) <= n
        BY SMT, <1>1, <1>3, <2>2, <4>2
      <4> QED
        BY <4>1, <4>3
    <3> QED
      BY <3>1, <3>2 DEF Fold
  <2>3. h = [s \in SUBSET S |-> h[s]]
    OBVIOUS
  <2>4. n + 1 \in Nat
    BY SMT, <1>3
  <2> HIDE DEF h
  <2>5. Up(n + 1, h)
    BY <2>2, <2>3
  <2> QED
    BY <2>4, <2>5
<1>4. N = Nat
  <2> HIDE DEF N
  <2>1. N \in SUBSET Nat
    BY DEF N
  <2> QED
    BY <1>2, <1>3, <2>1, Induction
<1>5. Cardinality(S) \in Nat
  BY FS_CardinalityType
<1>6. PICK f : Up(Cardinality(S), f)
  BY <1>4, <1>5
<1>7. \A s \in SUBSET S : f[s] = Fold(g, f, s)
  BY <1>1, <1>6
<1> QED
  BY <1>6, <1>7 DEF IsFold

\* And only one, on the sets that two of them share.
LEMMA FoldUnique ==
    ASSUME NEW S, IsFiniteSet(S), NEW U, NEW g, NEW f, IsFold(g, S, f), NEW h, IsFold(g, U, h),
           NEW T \in SUBSET S, T \in SUBSET U
    PROVE  f[T] = h[T]
<1> DEFINE N == {n \in Nat : \A s \in SUBSET S : s \in SUBSET U /\ Cardinality(s) = n => f[s] = h[s]}
<1>1. \A s \in SUBSET S : IsFiniteSet(s) /\ Cardinality(s) \in Nat
  BY FS_Subset, FS_CardinalityType
<1>f. \A s \in SUBSET S : f[s] = Fold(g, f, s)
  BY DEF IsFold
<1>h. \A s \in SUBSET U : h[s] = Fold(g, h, s)
  BY DEF IsFold
<1>2. 0 \in N
  <2>1. \A s \in SUBSET S : Cardinality(s) = 0 => s = {}
    BY <1>1, FS_EmptySet
  <2> QED
    BY <1>f, <1>h, <2>1 DEF Fold
<1>3. ASSUME NEW n \in N PROVE n + 1 \in N
  <2>1. n + 1 \in Nat /\ n + 1 # 0 /\ (n + 1) - 1 = n
    BY SMT, <1>3
  <2>2. ASSUME NEW s \in SUBSET S, s \in SUBSET U, Cardinality(s) = n + 1 PROVE f[s] = h[s]
    <3>1. s # {}
      BY <2>1, <2>2, FS_EmptySet
    <3>2. Pick(s) \in s
      BY <3>1, PickIn
    <3>3. Cardinality(s \ {Pick(s)}) = n
      BY <1>1, <2>1, <2>2, <3>2, FS_RemoveElement
    <3>4. f[s \ {Pick(s)}] = h[s \ {Pick(s)}]
      BY <1>3, <2>2, <3>3
    <3> QED
      BY <1>f, <1>h, <2>2, <3>4 DEF Fold
  <2> QED
    BY <2>1, <2>2
<1>4. N = Nat
  <2> HIDE DEF N
  <2>1. N \in SUBSET Nat
    BY DEF N
  <2> QED
    BY <1>2, <1>3, <2>1, Induction
<1> QED
  BY <1>1, <1>4

LEMMA SumEmpty == ASSUME NEW g PROVE SumOver(g, {}) = 0
<1>1. PICK f : IsFold(g, {}, f)
  BY FoldExists, FS_EmptySet
<1>2. IsFold(g, {}, CHOOSE h : IsFold(g, {}, h))
  BY <1>1
<1> DEFINE h == CHOOSE h : IsFold(g, {}, h)
<1>3. h[{}] = 0
  <2> HIDE DEF h
  <2> QED
    BY <1>2 DEF IsFold, Fold, h
<1> QED
  BY <1>3, SumIsFold

\* The fold's own equation.
LEMMA SumPick ==
    ASSUME NEW S, IsFiniteSet(S), S # {}, NEW g
    PROVE  Pick(S) \in S /\ SumOver(g, S) = g[Pick(S)] + SumOver(g, S \ {Pick(S)})
<1> DEFINE T == S \ {Pick(S)}
           f == CHOOSE h : IsFold(g, S, h)
           k == CHOOSE h : IsFold(g, T, h)
<1>1. Pick(S) \in S
  BY PickIn
<1>2. IsFiniteSet(T) /\ T \in SUBSET S
  BY FS_Subset
<1> HIDE DEF T
<1>3. IsFold(g, S, f)
  BY FoldExists
<1>4. IsFold(g, T, k)
  BY <1>2, FoldExists
<1>5. SumOver(g, S) = f[S] /\ SumOver(g, T) = k[T]
  BY SumIsFold
<1> HIDE DEF f, k
<1>6. f[T] = k[T]
  <2>1. T \in SUBSET T
    OBVIOUS
  <2> QED
    BY SMT, <1>2, <1>3, <1>4, <2>1, FoldUnique
<1>7. f[S] = g[Pick(S)] + f[T]
  BY <1>3 DEF IsFold, Fold, T
<1> QED
  BY <1>1, <1>5, <1>6, <1>7 DEF T

\* Only the values on S matter.
LEMMA SumSame ==
    ASSUME NEW S, NEW g, NEW h, \A x \in S : g[x] = h[x]
    PROVE  SumOver(g, S) = SumOver(h, S)
<1>1. ASSUME NEW f, NEW s \in SUBSET S PROVE Fold(g, f, s) = Fold(h, f, s)
  BY PickIn DEF Fold
<1>2. ASSUME NEW f PROVE IsFold(g, S, f) <=> IsFold(h, S, f)
  BY <1>1 DEF IsFold
<1>3. (CHOOSE f : IsFold(g, S, f)) = (CHOOSE f : IsFold(h, S, f))
  BY <1>2
<1> QED
  BY <1>3, SumIsFold

-----------------------------------------------------------------------------
LEMMA SumNat ==
    ASSUME NEW S, IsFiniteSet(S), NEW g, \A x \in S : g[x] \in Nat
    PROVE  SumOver(g, S) \in Nat
<1> DEFINE N == {n \in Nat : \A s \in SUBSET S : Cardinality(s) = n => SumOver(g, s) \in Nat}
<1>1. \A s \in SUBSET S : IsFiniteSet(s) /\ Cardinality(s) \in Nat
  BY FS_Subset, FS_CardinalityType
<1>2. 0 \in N
  <2>1. \A s \in SUBSET S : Cardinality(s) = 0 => s = {}
    BY <1>1, FS_EmptySet
  <2>2. SumOver(g, {}) \in Nat
    BY SMT, SumEmpty
  <2> QED
    BY <2>1, <2>2
<1>3. ASSUME NEW n \in N PROVE n + 1 \in N
  <2>1. n + 1 \in Nat /\ n + 1 # 0 /\ (n + 1) - 1 = n
    BY SMT, <1>3
  <2>2. ASSUME NEW s \in SUBSET S, Cardinality(s) = n + 1 PROVE SumOver(g, s) \in Nat
    <3>1. s # {}
      BY <2>1, <2>2, FS_EmptySet
    <3>2. Pick(s) \in s /\ SumOver(g, s) = g[Pick(s)] + SumOver(g, s \ {Pick(s)})
      BY <1>1, <3>1, SumPick
    <3>3. Cardinality(s \ {Pick(s)}) = n
      BY <1>1, <2>1, <2>2, <3>2, FS_RemoveElement
    <3>4. SumOver(g, s \ {Pick(s)}) \in Nat /\ g[Pick(s)] \in Nat
      BY <1>3, <3>2, <3>3
    <3> QED
      BY SMT, <3>2, <3>4
  <2> QED
    BY <2>1, <2>2
<1>4. N = Nat
  <2> HIDE DEF N
  <2>1. N \in SUBSET Nat
    BY DEF N
  <2> QED
    BY <1>2, <1>3, <2>1, Induction
<1>5. S \in SUBSET S /\ Cardinality(S) \in Nat
  BY FS_CardinalityType
<1>6. Cardinality(S) \in N
  BY <1>4, <1>5
<1> QED
  BY <1>5, <1>6

\* Any element may be taken out first.
LEMMA SumOut ==
    ASSUME NEW S, IsFiniteSet(S), NEW g, \A x \in S : g[x] \in Nat, NEW x \in S
    PROVE  SumOver(g, S) = g[x] + SumOver(g, S \ {x})
<1> DEFINE Out(s) == \A y \in s : SumOver(g, s) = g[y] + SumOver(g, s \ {y})
           N == {n \in Nat : \A s \in SUBSET S : Cardinality(s) = n => Out(s)}
<1>1. \A s \in SUBSET S : IsFiniteSet(s) /\ Cardinality(s) \in Nat
  BY FS_Subset, FS_CardinalityType
<1>t. ASSUME NEW s \in SUBSET S PROVE SumOver(g, s) \in Nat
  BY <1>1, SumNat
<1>2. 0 \in N
  <2>1. \A s \in SUBSET S : Cardinality(s) = 0 => s = {}
    BY <1>1, FS_EmptySet
  <2> QED
    BY <2>1
<1>3. ASSUME NEW n \in N PROVE n + 1 \in N
  <2>1. n + 1 \in Nat /\ n + 1 # 0 /\ (n + 1) - 1 = n
    BY SMT, <1>3
  <2>2. ASSUME NEW s \in SUBSET S, Cardinality(s) = n + 1, NEW y \in s
        PROVE  SumOver(g, s) = g[y] + SumOver(g, s \ {y})
    <3> DEFINE p == Pick(s)
               u == s \ {p}
               w == s \ {y}
               v == u \ {y}
    <3>1. p \in s /\ SumOver(g, s) = g[p] + SumOver(g, u)
      BY <1>1, SumPick
    <3>2. CASE y = p
      BY <3>1, <3>2
    <3>3. CASE y # p
      <4>0. ASSUME NEW z \in s PROVE Cardinality(s \ {z}) = n
        BY <1>1, <2>1, <2>2, FS_RemoveElement
      <4>1. Cardinality(u) = n /\ Cardinality(w) = n
        BY <3>1, <4>0
      <4>2. y \in u /\ p \in w /\ v = w \ {p}
        BY <3>1, <3>3
      <4>3. SumOver(g, u) = g[y] + SumOver(g, v)
        BY <1>3, <4>1, <4>2
      <4>4. SumOver(g, w) = g[p] + SumOver(g, v)
        <5>1. w \in SUBSET S /\ Out(w)
          BY <1>3, <4>1
        <5>2. SumOver(g, w) = g[p] + SumOver(g, w \ {p})
          BY <4>2, <5>1
        <5> QED
          BY <4>2, <5>2
      <4>5. g[p] \in Nat /\ g[y] \in Nat /\ SumOver(g, v) \in Nat
        BY <1>t, <3>1
      <4> HIDE DEF p, u, v, w
      <4>6. g[p] + (g[y] + SumOver(g, v)) = g[y] + (g[p] + SumOver(g, v))
        BY SMT, <4>5
      <4> QED
        BY <3>1, <4>3, <4>4, <4>6 DEF w
    <3> QED
      BY <3>2, <3>3
  <2> QED
    BY <2>1, <2>2
<1>4. N = Nat
  <2> HIDE DEF N
  <2>1. N \in SUBSET Nat
    BY DEF N
  <2> QED
    BY <1>2, <1>3, <2>1, Induction
<1> QED
  BY <1>1, <1>4

\* One value changes.
LEMMA SumExcept ==
    ASSUME NEW S, IsFiniteSet(S), NEW g \in [S -> Nat], NEW x \in S, NEW v \in Nat
    PROVE  /\ SumOver([g EXCEPT ![x] = v], S) \in Nat
           /\ SumOver([g EXCEPT ![x] = v], S) + g[x] = SumOver(g, S) + v
<1> DEFINE h == [g EXCEPT ![x] = v]
           T == S \ {x}
<1>1. h \in [S -> Nat] /\ h[x] = v /\ \A y \in T : h[y] = g[y]
  OBVIOUS
<1>2. IsFiniteSet(T)
  BY FS_Subset
<1> HIDE DEF h
<1>3. SumOver(h, S) = h[x] + SumOver(h, T) /\ SumOver(g, S) = g[x] + SumOver(g, T)
  BY <1>1, SumOut
<1>4. SumOver(h, T) = SumOver(g, T)
  BY <1>1, SumSame
<1>5. SumOver(g, T) \in Nat /\ g[x] \in Nat
  BY <1>2, SumNat
<1> HIDE DEF T
<1>6. SumOver(h, S) \in Nat /\ SumOver(h, S) + g[x] = SumOver(g, S) + v
  BY SMT, <1>1, <1>3, <1>4, <1>5
<1> QED
  BY <1>6 DEF h

\* No value is larger than the sum.
LEMMA SumAbove ==
    ASSUME NEW S, IsFiniteSet(S), NEW g \in [S -> Nat], NEW x \in S
    PROVE  g[x] <= SumOver(g, S)
<1>1. SumOver(g, S) = g[x] + SumOver(g, S \ {x})
  BY SumOut
<1>2. SumOver(g, S \ {x}) \in Nat
  BY SumNat, FS_Subset
<1> QED
  BY SMT, <1>1, <1>2

LEMMA SumOfZeros ==
    ASSUME NEW S, IsFiniteSet(S), NEW g, \A x \in S : g[x] = 0
    PROVE  SumOver(g, S) = 0
<1> DEFINE A == {s \in SUBSET S : SumOver(g, s) = 0}
<1>1. {} \in A
  BY SumEmpty
<1>2. ASSUME NEW T \in SUBSET S, NEW x \in S, T \in A, x \notin T PROVE T \cup {x} \in A
  <2>1. IsFiniteSet(T \cup {x}) /\ T \cup {x} \in SUBSET S /\ (T \cup {x}) \ {x} = T
    BY <1>2, FS_Subset
  <2>2. \A y \in T \cup {x} : g[y] \in Nat
    BY SMT
  <2>3. SumOver(g, T \cup {x}) = g[x] + SumOver(g, T)
    <3>1. x \in T \cup {x}
      OBVIOUS
    <3>2. SumOver(g, T \cup {x}) = g[x] + SumOver(g, (T \cup {x}) \ {x})
      BY <2>1, <2>2, <3>1, SumOut
    <3> QED
      BY <2>1, <3>2
  <2>4. SumOver(g, T \cup {x}) = 0
    BY SMT, <1>2, <2>3
  <2> QED
    BY <2>1, <2>4
<1> HIDE DEF A
<1>3. S \in A
  BY <1>1, <1>2, SetInduction
<1> QED
  BY <1>3 DEF A

\* The sums over two sets that share nothing.
LEMMA SumUnion ==
    ASSUME NEW S, IsFiniteSet(S), NEW T, IsFiniteSet(T), S \cap T = {},
           NEW g, \A x \in S \cup T : g[x] \in Nat
    PROVE  SumOver(g, S \cup T) = SumOver(g, S) + SumOver(g, T)
<1> DEFINE A == {s \in SUBSET S : SumOver(g, s \cup T) = SumOver(g, s) + SumOver(g, T)}
<1>0. SumOver(g, T) \in Nat
  BY SumNat
<1>1. {} \in A
  <2>1. SumOver(g, T) = 0 + SumOver(g, T)
    BY SMT, <1>0
  <2>2. {} \cup T = T
    OBVIOUS
  <2> QED
    BY <2>1, <2>2, SumEmpty
<1>2. ASSUME NEW s \in SUBSET S, NEW x \in S, s \in A, x \notin s PROVE s \cup {x} \in A
  <2> DEFINE r == s \cup {x}
  <2>1. IsFiniteSet(r) /\ IsFiniteSet(s) /\ r \in SUBSET S /\ r \ {x} = s /\ x \in r
    BY <1>2, FS_Subset
  <2>2. IsFiniteSet(r \cup T) /\ (r \cup T) \ {x} = s \cup T /\ x \in r \cup T
    BY <1>2, <2>1, FS_Union
  <2>3. \A y \in r \cup T : g[y] \in Nat
    BY <2>1
  <2> HIDE DEF r
  <2>4. SumOver(g, r \cup T) = g[x] + SumOver(g, s \cup T)
    <3>1. SumOver(g, r \cup T) = g[x] + SumOver(g, (r \cup T) \ {x})
      BY <2>2, <2>3, SumOut
    <3> QED
      BY <2>2, <3>1
  <2>5. SumOver(g, r) = g[x] + SumOver(g, s)
    <3>1. SumOver(g, r) = g[x] + SumOver(g, r \ {x})
      BY <2>1, <2>3, SumOut
    <3> QED
      BY <2>1, <3>1
  <2>6. SumOver(g, s) \in Nat /\ g[x] \in Nat
    BY <2>1, SumNat
  <2>7. SumOver(g, s \cup T) = SumOver(g, s) + SumOver(g, T)
    BY <1>2
  <2>8. SumOver(g, r \cup T) = SumOver(g, r) + SumOver(g, T)
    BY SMT, <1>0, <2>4, <2>5, <2>6, <2>7
  <2> QED
    BY <2>1, <2>8 DEF r
<1> HIDE DEF A
<1>3. S \in A
  BY <1>1, <1>2, SetInduction
<1> QED
  BY <1>3 DEF A
=============================================================================
