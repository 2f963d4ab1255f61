---------------------------- MODULE RestoreProofs ----------------------------
(***************************************************************************)
(* Theorems about Restore, for any snapshot or close event, any server it  *)
(* is brought back to, and any number of failures, attempts and things     *)
(* that users do meanwhile.                                                *)
(*                                                                         *)
(* The argument: what BuildPlan returns is a sound plan (each pane is made *)
(* once, its options follow at once, the layout of its window comes later, *)
(* and no two windows share a target), and every step of Apply and of a    *)
(* user leaves a server behind: windows and panes under ids below the next *)
(* one, no two windows of a session at one index (Basics).  On top of it   *)
(* one invariant for each property: panes are from the plan's past         *)
(* (FromPlan, Once), windows that were made keep their place as long as    *)
(* nobody closes one (Landed), the pane made last is active until its      *)
(* options are set (Opted), and every step behind pos has its pane, its    *)
(* failure, or its turn in a queue to come (Books).                        *)
(***************************************************************************)
EXTENDS Restore, FiniteSetTheorems, SequenceTheorems, WellFoundedInduction, NaturalsInduction, TLAPS

-----------------------------------------------------------------------------
(* Numbers and sequences *)

LEMMA LeastNat ==
    ASSUME NEW T \in SUBSET Nat, T # {}
    PROVE  \E x \in T : \A y \in T : x <= y
<1>1. PICK x \in T : \A y \in T : ~(<<y, x>> \in OpToRel(<, Nat))
  BY NatLessThanWellFounded, WFMin
<1>2. \A y \in T : ~(y < x)
  BY <1>1 DEF OpToRel
<1> QED
  BY <1>2

\* A set that holds 1 and with a number the next holds all of them.
LEMMA AllNumbers ==
    ASSUME NEW T, NEW n \in Nat, 1 \in T, \A i \in 1..n : i \in T /\ i + 1 <= n => i + 1 \in T
    PROVE  1..n \subseteq T
<1> DEFINE missed == {i \in 1..n : i \notin T}
<1> SUFFICES ASSUME missed # {} PROVE FALSE
  OBVIOUS
<1>1. missed \in SUBSET Nat
  OBVIOUS
<1>2. PICK m \in missed : \A i \in missed : m <= i
  <2> HIDE DEF missed
  <2> QED  BY <1>1, LeastNat
<1>3. m \in 1..n /\ m # 1 /\ m - 1 \in 1..n /\ m - 1 \notin missed
  BY <1>2
<1> QED  BY <1>2, <1>3

\* Among finitely many positions there is one of every rank.
LEMMA NthIs ==
    ASSUME NEW S \in SUBSET Nat, IsFiniteSet(S), NEW k \in 1..Cardinality(S)
    PROVE  Nth(S, k) \in S /\ Cardinality({j \in S : j <= Nth(S, k)}) = k
<1> DEFINE Upto(x) == {j \in S : j <= x}
           c == Cardinality(S)
           rank == [x \in S |-> Cardinality(Upto(x))]
<1>0. c \in Nat
  BY FS_CardinalityType
<1>1. ASSUME NEW x \in S
      PROVE  /\ Upto(x) \in SUBSET S /\ IsFiniteSet(Upto(x)) /\ Cardinality(Upto(x)) \in 1..c
  <2> DEFINE U == Upto(x)
  <2>1. U \in SUBSET S /\ x \in U
    OBVIOUS
  <2> HIDE DEF U
  <2>2. IsFiniteSet(U) /\ Cardinality(U) <= c /\ Cardinality(U) \in Nat
    BY <2>1, FS_Subset, FS_CardinalityType
  <2>3. Cardinality(U) # 0
    BY <2>1, <2>2, FS_EmptySet
  <2>4. Cardinality(U) \in 1..c
    BY <1>0, <2>2, <2>3
  <2> QED  BY <2>1, <2>2, <2>4 DEF U
<1>2. ASSUME NEW x \in S, NEW y \in S, x < y
      PROVE  Cardinality(Upto(x)) # Cardinality(Upto(y))
  <2> DEFINE X == Upto(x)
             Y == Upto(y)
  <2>1. X \in SUBSET Y /\ y \in Y /\ y \notin X
    <3>1. \A j \in S : j \in Int
      OBVIOUS
    <3>2. x \in Int /\ y \in Int /\ ~(y <= x) /\ y <= y
      BY <1>2, <3>1
    <3>3. \A j \in S : j <= x => j <= y
      BY <1>2, <3>1, <3>2
    <3> QED  BY <3>2, <3>3
  <2>2. IsFiniteSet(Y)
    BY <1>1
  <2> HIDE DEF X, Y
  <2>3. Cardinality(Y) = Cardinality(X) => X = Y
    BY <2>1, <2>2, FS_Subset
  <2>4. Cardinality(X) # Cardinality(Y)
    BY <2>1, <2>3
  <2> QED  BY <2>4 DEF X, Y
<1>3. rank \in Injection(S, 1..c)
  <2>1. rank \in [S -> 1..c]
    BY <1>1
  <2>2. \A x, y \in S : rank[x] = rank[y] => x = y
    <3> SUFFICES ASSUME NEW x \in S, NEW y \in S, rank[x] = rank[y], x # y PROVE FALSE
      OBVIOUS
    <3>1. x < y \/ y < x
      OBVIOUS
    <3> QED  BY <1>2, <3>1
  <2> HIDE DEF rank
  <2> QED  BY <2>1, <2>2 DEF Injection, IsInjective
<1>4. IsFiniteSet(1..c) /\ Cardinality(1..c) = c
  <2> HIDE DEF c
  <2>1. 1 \in Int /\ c \in Int
    BY <1>0
  <2>2. Cardinality(1..c) = IF 1 > c THEN 0 ELSE c - 1 + 1
    BY <2>1, FS_Interval
  <2> QED  BY <1>0, <2>1, <2>2, FS_Interval
<1>5. rank \in Surjection(S, 1..c)
  <2> HIDE DEF rank
  <2>1. Cardinality(S) = Cardinality(1..c)
    BY <1>4
  <2> HIDE DEF c
  <2> QED  BY <1>3, <1>4, <2>1, FS_Injection
<1>6. \E x \in S : rank[x] = k
  <2> HIDE DEF rank
  <2> QED  BY <1>5 DEF Surjection
<1> QED  BY <1>6 DEF Nth

\* A set of positions as a sequence: each of them once.
LEMMA InOrderIs ==
    ASSUME NEW S \in SUBSET Nat, IsFiniteSet(S)
    PROVE  /\ InOrder(S) \in Seq(S) /\ Cardinality(S) \in Nat
           /\ Len(InOrder(S)) = Cardinality(S) /\ DOMAIN InOrder(S) = 1..Cardinality(S)
           /\ \A k, l \in 1..Cardinality(S) : InOrder(S)[k] = InOrder(S)[l] => k = l
           /\ \A x \in S : \E k \in 1..Cardinality(S) : InOrder(S)[k] = x
<1> DEFINE c == Cardinality(S)
           f == InOrder(S)
<1>1. c \in Nat
  BY FS_CardinalityType
<1>2. f = [k \in 1..c |-> Nth(S, k)]
  BY DEF InOrder
<1>3. \A k \in 1..c : f[k] \in S /\ Cardinality({j \in S : j <= f[k]}) = k
  BY <1>2, NthIs
<1>4. f \in [1..c -> S]
  BY <1>2, <1>3
<1>5. \A k, l \in 1..c : f[k] = f[l] => k = l
  BY <1>3
<1>6. Cardinality(1..c) = Cardinality(S)
  <2> HIDE DEF c
  <2>1. Cardinality(1..c) = IF 1 > c THEN 0 ELSE c - 1 + 1
    BY <1>1, FS_Interval
  <2>2. Cardinality(1..c) = c
    BY <1>1, <2>1
  <2> QED  BY <2>2 DEF c
<1>7. f \in Injection(1..c, S)
  <2> HIDE DEF f, c
  <2> QED  BY <1>4, <1>5 DEF Injection, IsInjective
<1>8. f \in Surjection(1..c, S)
  <2> HIDE DEF f
  <2> QED  BY <1>6, <1>7, FS_Injection
<1>9. \A x \in S : \E k \in 1..c : f[k] = x
  <2> HIDE DEF f, c
  <2> QED  BY <1>8 DEF Surjection
<1>10. f \in Seq(S) /\ Len(f) = c /\ DOMAIN f = 1..c
  <2> HIDE DEF f, c
  <2> QED  BY <1>1, <1>4
<1> QED  BY <1>1, <1>5, <1>9, <1>10

\* What is picked of a sequence comes from the positions asked for, each once.
Picks(g, s, S) ==
    \E from \in [1..Len(g) -> S] :
        /\ \A k \in 1..Len(g) : g[k] = s[from[k]]
        /\ \A k, l \in 1..Len(g) : from[k] = from[l] => k = l
        /\ \A x \in S : \E k \in 1..Len(g) : from[k] = x

LEMMA PickedIs ==
    ASSUME NEW A, NEW s \in Seq(A), NEW S \in SUBSET (1..Len(s))
    PROVE  Picked(s, S) \in Seq(A) /\ Picks(Picked(s, S), s, S)
<1>1. S \in SUBSET Nat /\ IsFiniteSet(S) /\ Len(s) \in Nat
  <2>1. Len(s) \in Nat
    OBVIOUS
  <2>2. IsFiniteSet(1..Len(s))
    BY <2>1, FS_Interval
  <2>3. IsFiniteSet(S)
    BY <2>2, FS_Subset
  <2> QED  BY <2>1, <2>3
<1> DEFINE c == Cardinality(S)
           f == InOrder(S)
<1>2. /\ f \in Seq(S) /\ c \in Nat /\ Len(f) = c /\ DOMAIN f = 1..c
      /\ \A k, l \in 1..c : f[k] = f[l] => k = l
      /\ \A x \in S : \E k \in 1..c : f[k] = x
  BY <1>1, InOrderIs
<1>3. f \in [1..c -> S]
  <2> HIDE DEF f, c
  <2> QED  BY <1>2
<1>4. Picked(s, S) = [k \in 1..c |-> s[f[k]]]
  BY DEF Picked, InOrder
<1> HIDE DEF f, c
<1>5. \A k \in 1..c : s[f[k]] \in A
  <2>1. \A i \in 1..Len(s) : s[i] \in A
    OBVIOUS
  <2>2. \A k \in 1..c : f[k] \in 1..Len(s)
    BY <1>3
  <2> QED  BY <2>1, <2>2
<1>6. Picked(s, S) \in Seq(A) /\ Len(Picked(s, S)) = c
  BY <1>2, <1>4, <1>5
<1>7. \A k \in 1..c : Picked(s, S)[k] = s[f[k]]
  BY <1>4
<1> QED  BY <1>2, <1>3, <1>6, <1>7 DEF Picks

\* What FlattenSeq computes exists.
LEMMA FlattenDefined ==
    ASSUME NEW ss, NEW n \in Nat \ {0}, Len(ss) = n
    PROVE  \E g : /\ g = [i \in 1..n |-> IF i = 1 THEN ss[i] ELSE g[i - 1] \o ss[i]]
                  /\ FlattenSeq(ss) = g[n]
<1> DEFINE Partial(g, m) == g = [i \in 1..m |-> IF i = 1 THEN ss[i] ELSE g[i - 1] \o ss[i]]
           T == {m \in 1..n : \E g : Partial(g, m)}
<1>1. 1 \in T
  <2> DEFINE one == [i \in 1..1 |-> ss[1]]
  <2>1. one = [i \in 1..1 |-> IF i = 1 THEN ss[i] ELSE one[i - 1] \o ss[i]]
    <3>1. \A i \in 1..1 : i = 1
      OBVIOUS
    <3> QED  BY <3>1
  <2>2. 1 \in 1..n
    OBVIOUS
  <2> HIDE DEF one
  <2> QED  BY <2>1, <2>2
<1>2. ASSUME NEW m \in 1..n, m \in T, m + 1 <= n PROVE m + 1 \in T
  <2>1. PICK g : Partial(g, m)
    BY <1>2
  <2> DEFINE h == [i \in 1..m + 1 |-> IF i <= m THEN g[i] ELSE g[m] \o ss[m + 1]]
  <2>2. Partial(h, m + 1)
    <3>1. \A i \in 1..m : g[i] = IF i = 1 THEN ss[i] ELSE g[i - 1] \o ss[i]
      BY <2>1
    <3>2. \A i \in 1..m + 1 : h[i] = IF i = 1 THEN ss[i] ELSE h[i - 1] \o ss[i]
      <4> SUFFICES ASSUME NEW i \in 1..m + 1
                   PROVE  h[i] = IF i = 1 THEN ss[i] ELSE h[i - 1] \o ss[i]
        OBVIOUS
      <4>1. CASE i <= m
        <5>1. h[i] = g[i] /\ i \in 1..m
          BY <4>1
        <5>2. i # 1 => h[i - 1] = g[i - 1]
          BY <4>1
        <5> HIDE DEF h
        <5> QED  BY <3>1, <5>1, <5>2
      <4>2. CASE i = m + 1
        <5>1. i # 1 /\ i - 1 = m /\ ~(m + 1 <= m) /\ m + 1 \in 1..m + 1 /\ m \in 1..m + 1 /\ m <= m
          BY <4>2
        <5>2. h[m] = g[m] /\ h[m + 1] = g[m] \o ss[m + 1]
          BY <5>1
        <5> HIDE DEF h
        <5> QED  BY <4>2, <5>1, <5>2
      <4> QED  BY <4>1, <4>2
    <3> HIDE DEF h
    <3>3. h = [i \in 1..m + 1 |-> h[i]]
      BY DEF h
    <3> QED  BY <3>2, <3>3
  <2>3. m + 1 \in 1..n
    BY <1>2
  <2> HIDE DEF h, Partial
  <2> QED  BY <2>2, <2>3
<1>3. 1..n \subseteq T
  <2> HIDE DEF T
  <2> QED  BY <1>1, <1>2, AllNumbers
<1>4. \E g : Partial(g, n)
  <2>1. n \in 1..n
    OBVIOUS
  <2> QED  BY <1>3, <2>1
<1> DEFINE G == CHOOSE g : g = [i \in 1..n |-> IF i = 1 THEN ss[i] ELSE g[i - 1] \o ss[i]]
<1>5. Partial(G, n)
  BY <1>4
<1>6. FlattenSeq(ss) = G[n]
  BY DEF FlattenSeq
<1> QED  BY <1>5, <1>6

\* f is the pieces ss one after the other, each at an offset of its own.
Joins(f, ss, at) ==
    /\ at \in [1..Len(ss) -> Nat]
    /\ \A i \in 1..Len(ss) :
         /\ at[i] + Len(ss[i]) <= Len(f)
         /\ \A k \in 1..Len(ss[i]) : f[at[i] + k] = ss[i][k]
    /\ \A i, j \in 1..Len(ss) : i < j => at[i] + Len(ss[i]) <= at[j]
    /\ \A x \in 1..Len(f) : \E i \in 1..Len(ss) : \E k \in 1..Len(ss[i]) : x = at[i] + k

\* A piece more.
LEMMA JoinsNext ==
    ASSUME NEW A, NEW m \in Nat, NEW ss \in Seq(Seq(A)), Len(ss) = m, NEW t \in Seq(Seq(A)), Len(t) = m + 1,
           \A i \in 1..m : t[i] = ss[i],
           NEW f \in Seq(A), NEW at, Joins(f, ss, at)
    PROVE  \E to : Joins(f \o t[m + 1], t, to)
<1> DEFINE p == t[m + 1]
           g == f \o p
           to == [i \in 1..m + 1 |-> IF i <= m THEN at[i] ELSE Len(f)]
<1>1. /\ p \in Seq(A) /\ g \in Seq(A) /\ Len(g) = Len(f) + Len(p) /\ Len(f) \in Nat /\ Len(p) \in Nat
      /\ \A x \in 1..Len(f) : g[x] = f[x]
      /\ \A k \in 1..Len(p) : g[Len(f) + k] = p[k]
  <2>1. p \in Seq(A)
    OBVIOUS
  <2> HIDE DEF p
  <2>2. Len(p) \in Nat /\ Len(f) \in Nat
    BY <2>1
  <2>3. \A x \in 1..Len(f) + Len(p) : g[x] = IF x <= Len(f) THEN f[x] ELSE p[x - Len(f)]
    BY <2>1, ConcatProperties
  <2>4. g \in Seq(A) /\ Len(g) = Len(f) + Len(p)
    BY <2>1, ConcatProperties
  <2> HIDE DEF g
  <2>5. \A k \in 1..Len(p) : g[Len(f) + k] = p[k]
    <3> TAKE k \in 1..Len(p)
    <3>1. Len(f) + k \in 1..Len(f) + Len(p) /\ ~(Len(f) + k <= Len(f)) /\ Len(f) + k - Len(f) = k
      BY <2>2
    <3> QED  BY <2>3, <3>1
  <2>6. \A x \in 1..Len(f) : g[x] = f[x]
    <3> TAKE x \in 1..Len(f)
    <3>1. x \in 1..Len(f) + Len(p) /\ x <= Len(f)
      BY <2>2
    <3> QED  BY <2>3, <3>1
  <2> QED  BY <2>1, <2>2, <2>4, <2>5, <2>6
<1>2. /\ at \in [1..m -> Nat]
      /\ \A i \in 1..m : Len(ss[i]) \in Nat /\ at[i] + Len(ss[i]) <= Len(f)
      /\ \A i \in 1..m : \A k \in 1..Len(ss[i]) : f[at[i] + k] = ss[i][k]
      /\ \A i, j \in 1..m : i < j => at[i] + Len(ss[i]) <= at[j]
      /\ \A x \in 1..Len(f) : \E i \in 1..m : \E k \in 1..Len(ss[i]) : x = at[i] + k
  <2>1. \A i \in 1..m : ss[i] \in Seq(A)
    OBVIOUS
  <2>2. \A i \in 1..m : Len(ss[i]) \in Nat
    BY <2>1
  <2> QED  BY <2>2 DEF Joins
<1> HIDE DEF g, p
<1>3. /\ to \in [1..m + 1 -> Nat] /\ to[m + 1] = Len(f)
      /\ \A i \in 1..m : to[i] = at[i]
  BY <1>1, <1>2
<1> HIDE DEF to
<1>4. \A i \in 1..m + 1 : i \in 1..m \/ i = m + 1
  OBVIOUS
<1>5. ASSUME NEW i \in 1..m + 1
      PROVE  to[i] + Len(t[i]) <= Len(g) /\ \A k \in 1..Len(t[i]) : g[to[i] + k] = t[i][k]
  <2>1. CASE i \in 1..m
    <3>1. /\ to[i] = at[i] /\ at[i] \in Nat /\ t[i] = ss[i] /\ Len(ss[i]) \in Nat
          /\ at[i] + Len(ss[i]) <= Len(f)
      BY <1>2, <1>3, <2>1
    <3>2. \A k \in 1..Len(ss[i]) : at[i] + k \in 1..Len(f)
      <4> DEFINE l == Len(ss[i])
      <4> HIDE DEF l
      <4>1. l \in Nat /\ at[i] \in Nat /\ at[i] + l <= Len(f) /\ Len(f) \in Nat
        BY <1>1, <3>1 DEF l
      <4>2. \A k \in 1..l : at[i] + k \in 1..Len(f)
        BY <4>1
      <4> QED  BY <4>2 DEF l
    <3>3. \A k \in 1..Len(ss[i]) : g[at[i] + k] = ss[i][k]
      BY <1>1, <1>2, <2>1, <3>2
    <3> QED  BY <1>1, <3>1, <3>3
  <2>2. CASE i = m + 1
    <3>1. to[i] = Len(f) /\ t[i] = p
      BY <1>3, <2>2 DEF p
    <3> QED  BY <1>1, <3>1
  <2> QED  BY <1>4, <2>1, <2>2
<1>6. ASSUME NEW i \in 1..m + 1, NEW j \in 1..m + 1, i < j
      PROVE  to[i] + Len(t[i]) <= to[j]
  <2>1. i \in 1..m /\ t[i] = ss[i] /\ to[i] = at[i]
    BY <1>3, <1>6
  <2> QED  BY <1>2, <1>3, <1>4, <1>6, <2>1
<1>7. ASSUME NEW x \in 1..Len(g)
      PROVE  \E i \in 1..m + 1 : \E k \in 1..Len(t[i]) : x = to[i] + k
  <2>1. CASE x <= Len(f)
    <3>1. x \in 1..Len(f)
      BY <1>1, <2>1
    <3>2. PICK i \in 1..m : \E k \in 1..Len(ss[i]) : x = at[i] + k
      BY <1>2, <3>1
    <3>3. i \in 1..m + 1 /\ t[i] = ss[i] /\ to[i] = at[i]
      BY <1>3
    <3> QED  BY <3>2, <3>3
  <2>2. CASE ~(x <= Len(f))
    <3>1. x - Len(f) \in 1..Len(p) /\ x = Len(f) + (x - Len(f)) /\ m + 1 \in 1..m + 1
      BY <1>1, <2>2
    <3> QED  BY <1>3, <3>1 DEF p
  <2> QED  BY <2>1, <2>2
<1>8. Joins(g, t, to)
  BY <1>3, <1>5, <1>6, <1>7 DEF Joins
<1> QED  BY <1>8 DEF g, p

LEMMA FlattenIs ==
    ASSUME NEW A, NEW ss \in Seq(Seq(A))
    PROVE  FlattenSeq(ss) \in Seq(A) /\ \E at : Joins(FlattenSeq(ss), ss, at)
<1>1. CASE Len(ss) = 0
  <2>1. FlattenSeq(ss) = ss /\ ss = <<>>
    BY <1>1 DEF FlattenSeq
  <2> DEFINE at == [i \in 1..0 |-> 0]
  <2>2. at \in [1..0 -> Nat] /\ 1..Len(ss) = {} /\ 1..0 = {}
    BY <1>1
  <2>3. Joins(ss, ss, at)
    BY <1>1, <2>2 DEF Joins
  <2> QED  BY <2>1, <2>3
<1>2. CASE Len(ss) # 0
  <2> DEFINE n == Len(ss)
  <2>1. n \in Nat \ {0}
    BY <1>2
  <2>2. PICK g : /\ g = [i \in 1..n |-> IF i = 1 THEN ss[i] ELSE g[i - 1] \o ss[i]]
                 /\ FlattenSeq(ss) = g[n]
    BY <2>1, FlattenDefined
  <2> DEFINE cut(m) == [i \in 1..m |-> ss[i]]
             T == {m \in 1..n : g[m] \in Seq(A) /\ \E at : Joins(g[m], cut(m), at)}
  <2>3. ASSUME NEW m \in 1..n
        PROVE  cut(m) \in Seq(Seq(A)) /\ Len(cut(m)) = m /\ \A i \in 1..m : cut(m)[i] = ss[i]
    <3>1. \A i \in 1..m : ss[i] \in Seq(A)
      OBVIOUS
    <3> QED  BY <3>1
  <2>4. 1 \in T
    <3>1. 1 \in 1..n /\ g[1] = ss[1] /\ ss[1] \in Seq(A)
      BY <2>1, <2>2
    <3> DEFINE c == cut(1)
               at == [i \in 1..1 |-> 0]
               p == ss[1]
    <3>2. Len(c) = 1 /\ c[1] = p /\ p \in Seq(A) /\ Len(p) \in Nat
      BY <2>3, <3>1
    <3> HIDE DEF c, p
    <3>3. Joins(p, c, at)
      <4>1. 1..Len(c) = {1} /\ at \in [1..Len(c) -> Nat] /\ at[1] = 0
        BY <3>2
      <4> HIDE DEF at
      <4>2. at[1] + Len(c[1]) <= Len(p) /\ \A k \in 1..Len(c[1]) : p[at[1] + k] = c[1][k]
        BY <3>2, <4>1
      <4>3. \A x \in 1..Len(p) : x = at[1] + x /\ x \in 1..Len(c[1])
        BY <3>2, <4>1
      <4>4. \A i \in 1..Len(c) : i = 1
        BY <4>1
      <4>5. \A x \in 1..Len(p) : \E i \in 1..Len(c) : \E k \in 1..Len(c[i]) : x = at[i] + k
        BY <4>1, <4>3
      <4> QED  BY <4>1, <4>2, <4>4, <4>5 DEF Joins
    <3> HIDE DEF at
    <3> QED  BY <3>1, <3>3 DEF c, p
  <2>5. ASSUME NEW m \in 1..n, m \in T, m + 1 <= n PROVE m + 1 \in T
    <3>1. m + 1 \in 1..n /\ m \in Nat /\ g[m + 1] = g[m] \o ss[m + 1]
      <4>1. m + 1 \in 1..n /\ m \in Nat /\ m + 1 # 1 /\ m + 1 - 1 = m
        BY <2>5
      <4>2. \A i \in 1..n : g[i] = IF i = 1 THEN ss[i] ELSE g[i - 1] \o ss[i]
        BY <2>2
      <4>3. \A i \in 1..n : i # 1 /\ i - 1 = m => g[i] = g[m] \o ss[i]
        <5> HIDE DEF n
        <5> QED  BY <4>2
      <4> HIDE DEF n
      <4>4. PICK j \in 1..n : j = m + 1
        BY <4>1
      <4>5. j # 1 /\ j - 1 = m
        BY <4>1, <4>4
      <4>6. g[j] = g[m] \o ss[j]
        BY <4>3, <4>5
      <4> QED  BY <4>1, <4>4, <4>6
    <3>2. PICK at : Joins(g[m], cut(m), at)
      BY <2>5
    <3> DEFINE c == cut(m)
               d == cut(m + 1)
    <3>3. /\ c \in Seq(Seq(A)) /\ Len(c) = m /\ d \in Seq(Seq(A)) /\ Len(d) = m + 1
          /\ \A i \in 1..m : d[i] = c[i]
          /\ d[m + 1] = ss[m + 1]
      BY <2>3, <3>1
    <3>4. Joins(g[m], c, at)
      BY <3>2
    <3> HIDE DEF c, d
    <3>5. g[m] \in Seq(A) /\ ss[m + 1] \in Seq(A)
      BY <2>5, <3>1
    <3>6. \E to : Joins(g[m] \o d[m + 1], d, to)
      BY <3>1, <3>3, <3>4, <3>5, JoinsNext
    <3>7. g[m + 1] \in Seq(A)
      BY <3>1, <3>5, ConcatProperties
    <3> QED  BY <3>1, <3>3, <3>6, <3>7 DEF d
  <2>6. n \in T
    <3>1. 1..n \subseteq T
      <4> HIDE DEF T
      <4> QED  BY <2>1, <2>4, <2>5, AllNumbers
    <3>2. n \in 1..n
      BY <2>1
    <3> HIDE DEF T
    <3> QED  BY <3>1, <3>2
  <2>7. cut(n) = ss
    OBVIOUS
  <2> QED  BY <2>2, <2>6, <2>7
<1> QED  BY <1>1, <1>2

-----------------------------------------------------------------------------
(* Plans *)

Makes == {"window", "split"}
Targets == [sess : STRING \cup {""}, idx : Nat, id : Nat]
Froms == Nat \X Nat \X Nat
Steps == [op : {"window", "split", "option", "layout", "bridge"}, target : Targets,
          from : Froms, new : BOOLEAN]

\* Each pane is made once, its options follow at once, and the layout of its
\* window comes later.
Sound(f) ==
    /\ \A x, y \in DOMAIN f : f[x].op \in Makes /\ f[y].op \in Makes /\ f[x].from = f[y].from => x = y
    /\ \A x \in DOMAIN f : f[x].op = "option" =>
         /\ x - 1 \in DOMAIN f /\ f[x - 1].op \in Makes
         /\ f[x - 1].from = f[x].from /\ f[x - 1].target = f[x].target
    /\ \A x \in DOMAIN f : f[x].op \in Makes =>
         \E y \in DOMAIN f : x < y /\ f[y].op = "layout" /\ f[y].target = f[x].target

\* Panes are split off after their window was made.
Rooted(f) ==
    \A x \in DOMAIN f : f[x].op = "split" =>
        \E y \in DOMAIN f : y < x /\ f[y].op = "window" /\ f[y].target = f[x].target

LEMMA TuplesIn == ASSUME NEW s \in Nat, NEW w \in Nat, NEW p \in Nat
                  PROVE  <<s, w, p>> \in Froms
BY DEF Froms

\* The item is one of those given.
Given == item \in Items

LEMMA ItemIs ==
    ASSUME Given
    PROVE  /\ item.sessions \in Seq(SessionRecord) /\ item.lost \in Nat
           /\ DOMAIN item.sessions \subseteq Nat
           /\ \A s \in DOMAIN item.sessions :
                /\ item.sessions[s] \in SessionRecord
                /\ item.sessions[s].name \in STRING
                /\ item.sessions[s].windows \in Seq(WindowRecord)
                /\ DOMAIN item.sessions[s].windows \subseteq Nat
                /\ \A w \in DOMAIN item.sessions[s].windows :
                     /\ item.sessions[s].windows[w] \in WindowRecord
                     /\ item.sessions[s].windows[w].panes \in Seq(PaneRecord)
                     /\ item.sessions[s].windows[w].idx \in Nat
                     /\ item.sessions[s].windows[w].name \in STRING
                     /\ item.sessions[s].windows[w].id \in Nat
                     /\ DOMAIN item.sessions[s].windows[w].panes \subseteq Nat
<1>1. item \in ItemRecord
  BY RestoreAssumption DEF Given
<1>2. item.sessions \in Seq(SessionRecord) /\ item.lost \in Nat
  BY <1>1 DEF ItemRecord
<1>3. DOMAIN item.sessions = 1..Len(item.sessions) /\ Len(item.sessions) \in Nat
      /\ \A s \in DOMAIN item.sessions : item.sessions[s] \in SessionRecord
  BY <1>2
<1>4. ASSUME NEW r \in SessionRecord
      PROVE  /\ r.name \in STRING /\ r.windows \in Seq(WindowRecord)
             /\ DOMAIN r.windows = 1..Len(r.windows) /\ Len(r.windows) \in Nat
             /\ \A w \in DOMAIN r.windows : r.windows[w] \in WindowRecord
  BY DEF SessionRecord
<1>5. ASSUME NEW r \in WindowRecord
      PROVE  /\ r.panes \in Seq(PaneRecord) /\ r.idx \in Nat /\ r.name \in STRING /\ r.id \in Nat
             /\ DOMAIN r.panes \subseteq Nat
  BY DEF WindowRecord
<1>6. ASSUME NEW n \in Nat PROVE 1..n \subseteq Nat
  OBVIOUS
<1> QED
  BY <1>2, <1>3, <1>4, <1>5, <1>6

Wins(s) == item.sessions[s].windows
PanesIn(s, w) == item.sessions[s].windows[w].panes

\* The step is about a pane of the window, or a bridge of its session.
About(st, s, w) ==
    /\ s \in DOMAIN item.sessions /\ w \in DOMAIN Wins(s)
    /\ st.target = IndexTarget(s, w)
    /\ st.from[1] = s /\ st.from[2] = w
    /\ st.op # "bridge" => st.from[3] \in DOMAIN PanesIn(s, w)
    /\ st.op = "window" => st.from[3] = KeptPanes(Wins(s)[w])[1]

StepsOf(s) == {st \in Steps : \E w \in DOMAIN Wins(s) : About(st, s, w)}

LEMMA TargetIs ==
    ASSUME Given, NEW s \in DOMAIN item.sessions, NEW w \in DOMAIN Wins(s)
    PROVE  IndexTarget(s, w) \in Targets
BY ItemIs DEF IndexTarget, Targets, Wins

\* Different windows of an item have different targets.
LEMMA TargetsDiffer ==
    ASSUME Given, NEW s \in DOMAIN item.sessions, NEW w \in DOMAIN Wins(s),
           NEW t \in DOMAIN item.sessions, NEW v \in DOMAIN Wins(t),
           IndexTarget(s, w) = IndexTarget(t, v)
    PROVE  s = t /\ w = v
<1>1. item.sessions[s].name = item.sessions[t].name /\ Wins(s)[w].idx = Wins(t)[v].idx
  BY DEF IndexTarget, Wins
<1>2. s = t
  BY <1>1, RestoreAssumption DEF Given
<1> QED
  BY <1>1, <1>2, RestoreAssumption DEF Given, Wins

LEMMA KeptPanesAre ==
    ASSUME Given, NEW s \in DOMAIN item.sessions, NEW w \in DOMAIN Wins(s)
    PROVE  LET kept == KeptPanes(Wins(s)[w])
           IN  /\ Len(kept) \in Nat /\ DOMAIN kept = 1..Len(kept)
               /\ \A k \in 1..Len(kept) : kept[k] \in DOMAIN PanesIn(s, w) /\ kept[k] \in Nat
               /\ \A k, l \in 1..Len(kept) : kept[k] = kept[l] => k = l
<1> DEFINE ps == PanesIn(s, w)
           S == {p \in DOMAIN ps : ~ SkipPane(ps[p])}
<1>1. S \in SUBSET Nat /\ S \subseteq DOMAIN ps /\ IsFiniteSet(S)
  <2>1. ps \in Seq(PaneRecord)
    BY ItemIs DEF PanesIn, Wins
  <2> HIDE DEF ps
  <2>2. DOMAIN ps = 1..Len(ps) /\ Len(ps) \in Nat
    BY <2>1
  <2>3. IsFiniteSet(DOMAIN ps)
    BY <2>2, FS_Interval
  <2>4. IsFiniteSet(S)
    BY <2>3, FS_Subset
  <2> QED  BY <2>2, <2>4
<1>2. KeptPanes(Wins(s)[w]) = InOrder(S)
  BY DEF KeptPanes, Wins, PanesIn
<1> HIDE DEF S
<1>3. /\ InOrder(S) \in Seq(S) /\ Len(InOrder(S)) = Cardinality(S) /\ Cardinality(S) \in Nat
      /\ DOMAIN InOrder(S) = 1..Cardinality(S)
      /\ \A k, l \in 1..Cardinality(S) : InOrder(S)[k] = InOrder(S)[l] => k = l
  BY <1>1, InOrderIs
<1>4. \A k \in 1..Cardinality(S) : InOrder(S)[k] \in S
  BY <1>3
<1> QED  BY <1>1, <1>2, <1>3, <1>4

LEMMA KeptWindowsAre ==
    ASSUME Given, NEW s \in DOMAIN item.sessions
    PROVE  LET kept == KeptWindows(item.sessions[s])
           IN  /\ Len(kept) \in Nat /\ DOMAIN kept = 1..Len(kept)
               /\ \A k \in 1..Len(kept) : kept[k] \in DOMAIN Wins(s) /\ KeptPanes(Wins(s)[kept[k]]) # <<>>
               /\ \A k, l \in 1..Len(kept) : kept[k] = kept[l] => k = l
<1> DEFINE ws == Wins(s)
           S == {w \in DOMAIN ws : KeptPanes(ws[w]) # <<>>}
<1>1. S \in SUBSET Nat /\ IsFiniteSet(S)
  <2>1. ws \in Seq(WindowRecord)
    BY ItemIs DEF Wins
  <2> HIDE DEF ws
  <2>2. DOMAIN ws = 1..Len(ws) /\ Len(ws) \in Nat
    BY <2>1
  <2>3. IsFiniteSet(DOMAIN ws)
    BY <2>2, FS_Interval
  <2>4. IsFiniteSet(S)
    BY <2>3, FS_Subset
  <2> QED  BY <2>2, <2>4
<1>2. KeptWindows(item.sessions[s]) = InOrder(S)
  BY DEF KeptWindows, Wins
<1>3. /\ InOrder(S) \in Seq(S) /\ Len(InOrder(S)) = Cardinality(S) /\ Cardinality(S) \in Nat
      /\ DOMAIN InOrder(S) = 1..Cardinality(S)
      /\ \A k, l \in 1..Cardinality(S) : InOrder(S)[k] = InOrder(S)[l] => k = l
  <2> HIDE DEF S
  <2> QED  BY <1>1, InOrderIs
<1>4. \A k \in 1..Cardinality(S) : InOrder(S)[k] \in S
  <2> HIDE DEF S
  <2> QED  BY <1>3
<1>5. \A x \in S : x \in DOMAIN ws /\ KeptPanes(ws[x]) # <<>>
  OBVIOUS
<1> HIDE DEF S
<1> QED  BY <1>2, <1>3, <1>4, <1>5

\* The steps that make the k-th pane kept of a window.
Piece(s, w, new, k) ==
    LET from == <<s, w, KeptPanes(Wins(s)[w])[k]>>
        target == IndexTarget(s, w)
    IN  <<PlanStep(IF k = 1 THEN "window" ELSE "split", target, from, new /\ k = 1)>> \o Options(target, from)

IsPiece(piece, s, w, k) ==
    LET from == <<s, w, KeptPanes(Wins(s)[w])[k]>>
    IN  /\ piece \in Seq({st \in Steps : About(st, s, w)})
        /\ Len(piece) \in {1, 2}
        /\ piece[1].op = (IF k = 1 THEN "window" ELSE "split") /\ piece[1].from = from
        /\ piece[1].target = IndexTarget(s, w)
        /\ Len(piece) = 2 =>
             piece[2].op = "option" /\ piece[2].from = from /\ piece[2].target = IndexTarget(s, w)

LEMMA PieceIs ==
    ASSUME Given, NEW s \in DOMAIN item.sessions, NEW w \in DOMAIN Wins(s), NEW new \in BOOLEAN,
           NEW k \in 1..Len(KeptPanes(Wins(s)[w]))
    PROVE  IsPiece(Piece(s, w, new, k), s, w, k)
<1> DEFINE kept == KeptPanes(Wins(s)[w])
           from == <<s, w, kept[k]>>
           target == IndexTarget(s, w)
           a == PlanStep(IF k = 1 THEN "window" ELSE "split", target, from, new /\ k = 1)
           b == PlanStep("option", target, from, FALSE)
           A == {st \in Steps : About(st, s, w)}
<1>1. /\ kept[k] \in DOMAIN PanesIn(s, w) /\ kept[k] \in Nat /\ s \in Nat /\ w \in Nat
  BY KeptPanesAre, ItemIs DEF Wins
<1>2. target \in Targets /\ from \in Froms
  BY <1>1, TargetIs, TuplesIn
<1>3. from[1] = s /\ from[2] = w /\ from[3] = kept[k]
  OBVIOUS
<1> HIDE DEF target, from
<1>4. (new /\ k = 1) \in BOOLEAN
  OBVIOUS
<1>5. a \in Steps /\ a.op = (IF k = 1 THEN "window" ELSE "split") /\ a.target = target /\ a.from = from
  BY <1>2, <1>4 DEF PlanStep, Steps
<1>6. b \in Steps /\ b.op = "option" /\ b.target = target /\ b.from = from
  BY <1>2 DEF PlanStep, Steps
<1>7. a \in A /\ b \in A
  BY <1>1, <1>3, <1>5, <1>6 DEF About, target
<1> HIDE DEF a, b
<1>8. Piece(s, w, new, k) = <<a>> \o (IF PaneOf(from).deco THEN <<b>> ELSE <<>>)
  BY DEF Piece, Options, a, b, from, target
<1>9. Piece(s, w, new, k) = <<a>> \/ Piece(s, w, new, k) = <<a, b>>
  <2>1. <<a>> \o <<b>> = <<a, b>>
    <3> DEFINE c == <<a>> \o <<b>>
    <3>1. <<a>> \in Seq(A) /\ <<b>> \in Seq(A) /\ Len(<<a>>) = 1 /\ Len(<<b>>) = 1
      BY <1>7
    <3>2. c \in Seq(A) /\ Len(c) = 2
      BY <3>1, ConcatProperties
    <3>3. c[1] = a /\ c[2] = b
      BY <3>1
    <3> HIDE DEF c
    <3>4. c = <<a, b>>
      BY <3>2, <3>3
    <3> QED  BY <3>4 DEF c
  <2>2. <<a>> \o <<>> = <<a>>
    OBVIOUS
  <2> QED  BY <1>8, <2>1, <2>2
<1>10. CASE Piece(s, w, new, k) = <<a>>
  <2>1. <<a>> \in Seq(A) /\ Len(<<a>>) = 1 /\ <<a>>[1] = a
    BY <1>7
  <2> QED  BY <1>5, <1>10, <2>1 DEF IsPiece, from, target, A
<1>11. CASE Piece(s, w, new, k) = <<a, b>>
  <2>1. <<a, b>> \in Seq(A) /\ Len(<<a, b>>) = 2 /\ <<a, b>>[1] = a /\ <<a, b>>[2] = b
    BY <1>7
  <2> QED  BY <1>5, <1>6, <1>11, <2>1 DEF IsPiece, from, target, A
<1> QED  BY <1>9, <1>10, <1>11

\* One more step, which makes and decorates nothing.
LEMMA SoundThenOther ==
    ASSUME NEW f \in Seq(Steps), Sound(f), Rooted(f),
           NEW st \in Steps, st.op \in {"layout", "bridge"}
    PROVE  Sound(f \o <<st>>) /\ Rooted(f \o <<st>>)
<1> DEFINE g == f \o <<st>>
           n == Len(f)
<1>1. /\ n \in Nat /\ DOMAIN f = 1..n /\ DOMAIN g = 1..n + 1 /\ g[n + 1] = st
      /\ \A x \in 1..n : g[x] = f[x]
  <2>1. g = Append(f, st)
    OBVIOUS
  <2> HIDE DEF g
  <2> QED  BY <2>1
<1> HIDE DEF g, n
<1>2. \A x \in DOMAIN g : x \in DOMAIN f \/ x = n + 1
  BY <1>1
<1>3. \A x \in DOMAIN f : x \in DOMAIN g /\ g[x] = f[x]
  BY <1>1
<1>4. \A x \in DOMAIN g : g[x].op \in Makes \cup {"option"} => x \in DOMAIN f
  BY <1>1, <1>2 DEF Makes
<1>5. Sound(g)
  BY <1>3, <1>4 DEF Sound
<1>6. Rooted(g)
  BY <1>3, <1>4 DEF Rooted, Makes
<1> QED  BY <1>5, <1>6 DEF g

\* Sound plans that make different panes, one after the other.
LEMMA SoundJoined ==
    ASSUME NEW ss \in Seq(Seq(Steps)), NEW f \in Seq(Steps), NEW at, Joins(f, ss, at),
           \A i \in DOMAIN ss : Sound(ss[i]) /\ Rooted(ss[i]),
           \A i, j \in DOMAIN ss : i # j =>
             \A x \in DOMAIN ss[i], y \in DOMAIN ss[j] :
               ss[i][x].op \in Makes /\ ss[j][y].op \in Makes => ss[i][x].from # ss[j][y].from
    PROVE  Sound(f) /\ Rooted(f)
<1>0. DOMAIN ss = 1..Len(ss) /\ DOMAIN f = 1..Len(f) /\ Len(f) \in Nat /\ Len(ss) \in Nat
  OBVIOUS
<1>1. \A i \in DOMAIN ss : DOMAIN ss[i] = 1..Len(ss[i]) /\ Len(ss[i]) \in Nat /\ at[i] \in Nat
  <2>1. \A i \in DOMAIN ss : ss[i] \in Seq(Steps)
    OBVIOUS
  <2>2. \A t \in Seq(Steps) : DOMAIN t = 1..Len(t) /\ Len(t) \in Nat
    OBVIOUS
  <2> QED  BY <1>0, <2>1, <2>2 DEF Joins
<1>2. ASSUME NEW x \in DOMAIN f
      PROVE  \E i \in DOMAIN ss : \E k \in DOMAIN ss[i] : x = at[i] + k /\ f[x] = ss[i][k]
  <2>1. PICK i \in 1..Len(ss) : \E k \in 1..Len(ss[i]) : x = at[i] + k
    BY <1>0 DEF Joins
  <2>2. PICK k \in 1..Len(ss[i]) : x = at[i] + k
    BY <2>1
  <2>3. f[at[i] + k] = ss[i][k]
    BY DEF Joins
  <2> QED  BY <1>0, <1>1, <2>2, <2>3
<1>3. ASSUME NEW i \in DOMAIN ss, NEW k \in DOMAIN ss[i]
      PROVE  at[i] + k \in DOMAIN f /\ f[at[i] + k] = ss[i][k]
  <2>1. i \in 1..Len(ss) /\ k \in 1..Len(ss[i]) /\ at[i] \in Nat /\ Len(ss[i]) \in Nat
    BY <1>0, <1>1
  <2>2. at[i] + Len(ss[i]) <= Len(f) /\ f[at[i] + k] = ss[i][k]
    BY <2>1 DEF Joins
  <2> DEFINE l == Len(ss[i])
  <2>3. l \in Nat /\ k \in 1..l /\ at[i] + l <= Len(f)
    BY <2>1, <2>2
  <2> HIDE DEF l
  <2>4. at[i] + k \in 1..Len(f)
    BY <1>0, <2>1, <2>3
  <2> QED  BY <1>0, <2>2, <2>4
<1>4. \A x, y \in DOMAIN f : f[x].op \in Makes /\ f[y].op \in Makes /\ f[x].from = f[y].from => x = y
  <2> SUFFICES ASSUME NEW x \in DOMAIN f, NEW y \in DOMAIN f,
                      f[x].op \in Makes, f[y].op \in Makes, f[x].from = f[y].from
               PROVE  x = y
    OBVIOUS
  <2>1. PICK i \in DOMAIN ss : \E k \in DOMAIN ss[i] : x = at[i] + k /\ f[x] = ss[i][k]
    BY <1>2
  <2>2. PICK k \in DOMAIN ss[i] : x = at[i] + k /\ f[x] = ss[i][k]
    BY <2>1
  <2>3. PICK j \in DOMAIN ss : \E l \in DOMAIN ss[j] : y = at[j] + l /\ f[y] = ss[j][l]
    BY <1>2
  <2>4. PICK l \in DOMAIN ss[j] : y = at[j] + l /\ f[y] = ss[j][l]
    BY <2>3
  <2>5. i = j
    BY <2>2, <2>4
  <2>6. k = l
    BY <2>2, <2>4, <2>5 DEF Sound
  <2> QED  BY <2>2, <2>4, <2>5, <2>6
<1>5. ASSUME NEW x \in DOMAIN f, f[x].op = "option"
      PROVE  /\ x - 1 \in DOMAIN f /\ f[x - 1].op \in Makes
             /\ f[x - 1].from = f[x].from /\ f[x - 1].target = f[x].target
  <2>1. PICK i \in DOMAIN ss : \E k \in DOMAIN ss[i] : x = at[i] + k /\ f[x] = ss[i][k]
    BY <1>2
  <2>2. PICK k \in DOMAIN ss[i] : x = at[i] + k /\ f[x] = ss[i][k]
    BY <2>1
  <2>3. /\ k - 1 \in DOMAIN ss[i] /\ ss[i][k - 1].op \in Makes
        /\ ss[i][k - 1].from = f[x].from /\ ss[i][k - 1].target = f[x].target
    BY <1>5, <2>2 DEF Sound
  <2>4. at[i] + (k - 1) \in DOMAIN f /\ f[at[i] + (k - 1)] = ss[i][k - 1]
    BY <1>3, <2>3
  <2>5. at[i] + (k - 1) = x - 1
    BY <1>1, <2>2
  <2> QED  BY <2>3, <2>4, <2>5
<1>6. ASSUME NEW x \in DOMAIN f, f[x].op \in Makes
      PROVE  \E y \in DOMAIN f : x < y /\ f[y].op = "layout" /\ f[y].target = f[x].target
  <2>1. PICK i \in DOMAIN ss : \E k \in DOMAIN ss[i] : x = at[i] + k /\ f[x] = ss[i][k]
    BY <1>2
  <2>2. PICK k \in DOMAIN ss[i] : x = at[i] + k /\ f[x] = ss[i][k]
    BY <2>1
  <2>3. PICK l \in DOMAIN ss[i] : k < l /\ ss[i][l].op = "layout" /\ ss[i][l].target = f[x].target
    BY <1>6, <2>2 DEF Sound
  <2>4. at[i] + l \in DOMAIN f /\ f[at[i] + l] = ss[i][l]
    BY <1>3
  <2>5. x < at[i] + l
    BY <1>1, <2>2, <2>3
  <2> QED  BY <2>3, <2>4, <2>5
<1>7. ASSUME NEW x \in DOMAIN f, f[x].op = "split"
      PROVE  \E y \in DOMAIN f : y < x /\ f[y].op = "window" /\ f[y].target = f[x].target
  <2>1. PICK i \in DOMAIN ss : \E k \in DOMAIN ss[i] : x = at[i] + k /\ f[x] = ss[i][k]
    BY <1>2
  <2>2. PICK k \in DOMAIN ss[i] : x = at[i] + k /\ f[x] = ss[i][k]
    BY <2>1
  <2>3. PICK l \in DOMAIN ss[i] : l < k /\ ss[i][l].op = "window" /\ ss[i][l].target = f[x].target
    BY <1>7, <2>2 DEF Rooted
  <2>4. at[i] + l \in DOMAIN f /\ f[at[i] + l] = ss[i][l]
    BY <1>3
  <2>5. at[i] + l < x
    BY <1>1, <2>2, <2>3
  <2> QED  BY <2>3, <2>4, <2>5
<1>8. Sound(f)
  BY <1>4, <1>5, <1>6 DEF Sound
<1>9. Rooted(f)
  BY <1>7 DEF Rooted
<1> QED  BY <1>8, <1>9

OfWindow(s, w) == {st \in Steps : About(st, s, w)}

LEMMA WindowPlanIs ==
    ASSUME Given, NEW s \in DOMAIN item.sessions, NEW w \in DOMAIN Wins(s), NEW new \in BOOLEAN,
           KeptPanes(Wins(s)[w]) # <<>>
    PROVE  WindowPlan(s, w, new) \in Seq(OfWindow(s, w)) /\ Sound(WindowPlan(s, w, new)) /\ Rooted(WindowPlan(s, w, new))
<1> DEFINE kept == KeptPanes(Wins(s)[w])
           n == Len(kept)
           target == IndexTarget(s, w)
           A == OfWindow(s, w)
           ss == [k \in DOMAIN kept |-> Piece(s, w, new, k)]
           F == FlattenSeq(ss)
           last == PlanStep("layout", target, <<s, w, kept[1]>>, FALSE)
           f == F \o <<last>>
<1>1. WindowPlan(s, w, new) = f
  BY DEF WindowPlan, Piece, Wins
<1>2. /\ n \in Nat /\ DOMAIN kept = 1..n /\ n >= 1
      /\ \A k \in 1..n : kept[k] \in DOMAIN PanesIn(s, w) /\ kept[k] \in Nat
      /\ \A k, l \in 1..n : kept[k] = kept[l] => k = l
  <2>1. /\ n \in Nat /\ DOMAIN kept = 1..n
        /\ \A k \in 1..n : kept[k] \in DOMAIN PanesIn(s, w) /\ kept[k] \in Nat
        /\ \A k, l \in 1..n : kept[k] = kept[l] => k = l
    BY KeptPanesAre
  <2>2. kept = InOrder({p \in DOMAIN Wins(s)[w].panes : ~ SkipPane(Wins(s)[w].panes[p])})
    BY DEF KeptPanes
  <2>3. n # 0
    <3> DEFINE S == {p \in DOMAIN Wins(s)[w].panes : ~ SkipPane(Wins(s)[w].panes[p])}
    <3>1. kept = [k \in 1..Cardinality(S) |-> Nth(S, k)]
      BY <2>2 DEF InOrder
    <3>2. SUFFICES ASSUME n = 0 PROVE FALSE
      OBVIOUS
    <3>3. DOMAIN kept = {}
      BY <2>1, <3>2
    <3> HIDE DEF S
    <3>4. 1..Cardinality(S) = {}
      BY <3>1, <3>3
    <3>5. kept = <<>>
      BY <3>1, <3>4
    <3> QED  BY <3>5
  <2> QED  BY <2>1, <2>3
<1>3. ASSUME NEW k \in 1..n
      PROVE  /\ ss[k] \in Seq(A) /\ Len(ss[k]) \in {1, 2}
             /\ ss[k][1].op = (IF k = 1 THEN "window" ELSE "split")
             /\ ss[k][1].from = <<s, w, kept[k]>> /\ ss[k][1].target = target
             /\ Len(ss[k]) = 2 =>
                  ss[k][2].op = "option" /\ ss[k][2].from = <<s, w, kept[k]>> /\ ss[k][2].target = target
  <2>1. ss[k] = Piece(s, w, new, k) /\ k \in 1..Len(KeptPanes(Wins(s)[w]))
    BY <1>2
  <2>2. IsPiece(Piece(s, w, new, k), s, w, k)
    BY <2>1, PieceIs
  <2> HIDE DEF ss
  <2> QED  BY <2>1, <2>2 DEF OfWindow, IsPiece
<1>4. ss \in Seq(Seq(A)) /\ Len(ss) = n
  BY <1>2, <1>3
<1> HIDE DEF ss
<1>5. PICK at : Joins(F, ss, at)
  BY <1>4, FlattenIs
<1>6. F \in Seq(A)
  BY <1>4, FlattenIs
<1>7. last \in A /\ last.op = "layout" /\ last.target = target
  <2>1. kept[1] \in DOMAIN PanesIn(s, w) /\ kept[1] \in Nat /\ s \in Nat /\ w \in Nat /\ target \in Targets
    BY <1>2, ItemIs, TargetIs DEF Wins
  <2>2. <<s, w, kept[1]>> \in Froms
    BY <2>1, TuplesIn
  <2> QED  BY <2>1, <2>2 DEF PlanStep, OfWindow, Steps, About
<1> HIDE DEF F, last, A, kept, n, target
<1> DEFINE N == Len(F)
<1>8. /\ N \in Nat /\ DOMAIN f = 1..N + 1 /\ f[N + 1] = last /\ f \in Seq(A)
      /\ \A x \in 1..N : f[x] = F[x]
  <2>1. f = Append(F, last)
    BY <1>6, <1>7
  <2> HIDE DEF f
  <2> QED  BY <1>6, <1>7, <2>1
<1>9. \A k \in 1..n : at[k] \in Nat /\ at[k] + Len(ss[k]) <= N /\ \A m \in 1..Len(ss[k]) : F[at[k] + m] = ss[k][m]
  BY <1>4, <1>5 DEF Joins
<1>10. \A k, l \in 1..n : k < l => at[k] + Len(ss[k]) <= at[l]
  BY <1>4, <1>5 DEF Joins
<1> HIDE DEF N
\* Where the pieces are.
<1>11. ASSUME NEW k \in 1..n
       PROVE  /\ at[k] \in Nat /\ at[k] + 1 \in 1..N
              /\ f[at[k] + 1].op = (IF k = 1 THEN "window" ELSE "split")
              /\ f[at[k] + 1].from = <<s, w, kept[k]>> /\ f[at[k] + 1].target = target
  <2> DEFINE l == Len(ss[k])
  <2>1. at[k] \in Nat /\ at[k] + l <= N /\ l \in {1, 2} /\ \A m \in 1..l : F[at[k] + m] = ss[k][m]
    BY <1>3, <1>9
  <2> HIDE DEF l
  <2>2. at[k] + 1 \in 1..N /\ 1 \in 1..l
    BY <1>8, <2>1
  <2>3. f[at[k] + 1] = ss[k][1]
    BY <1>8, <2>1, <2>2
  <2> HIDE DEF f
  <2> QED  BY <1>3, <2>1, <2>2, <2>3
<1>12. ASSUME NEW x \in 1..N
       PROVE  \E k \in 1..n : \/ x = at[k] + 1
                              \/ /\ x = at[k] + 2 /\ f[x].op = "option"
                                 /\ f[x].from = <<s, w, kept[k]>> /\ f[x].target = target
  <2>1. PICK k \in 1..n : \E m \in 1..Len(ss[k]) : x = at[k] + m
    BY <1>4, <1>5 DEF Joins, N
  <2>2. PICK m \in 1..Len(ss[k]) : x = at[k] + m
    BY <2>1
  <2>3. f[x] = ss[k][m]
    BY <1>8, <1>9, <2>2
  <2>4. m = 1 \/ (m = 2 /\ Len(ss[k]) = 2)
    <3>1. Len(ss[k]) \in {1, 2}
      BY <1>3
    <3>2. CASE Len(ss[k]) = 1
      BY <3>2
    <3>3. CASE Len(ss[k]) = 2
      BY <3>3
    <3> QED  BY <3>1, <3>2, <3>3
  <2> HIDE DEF f
  <2> QED  BY <1>3, <2>2, <2>3, <2>4
<1> HIDE DEF f
<1>13. \A x \in DOMAIN f : x \in 1..N \/ f[x].op = "layout"
  BY <1>7, <1>8
<1>14. ASSUME NEW x \in DOMAIN f, f[x].op \in Makes
       PROVE  \E k \in 1..n : x = at[k] + 1
  <2>1. x \in 1..N
    BY <1>13, <1>14 DEF Makes
  <2> QED  BY <1>12, <1>14, <2>1 DEF Makes
<1>15. \A x, y \in DOMAIN f : f[x].op \in Makes /\ f[y].op \in Makes /\ f[x].from = f[y].from => x = y
  <2> SUFFICES ASSUME NEW x \in DOMAIN f, NEW y \in DOMAIN f,
                      f[x].op \in Makes, f[y].op \in Makes, f[x].from = f[y].from
               PROVE  x = y
    OBVIOUS
  <2>1. PICK k \in 1..n : x = at[k] + 1
    BY <1>14
  <2>2. PICK l \in 1..n : y = at[l] + 1
    BY <1>14
  <2>3. <<s, w, kept[k]>> = <<s, w, kept[l]>>
    BY <1>11, <2>1, <2>2
  <2>4. kept[k] = kept[l]
    BY <2>3
  <2> QED  BY <1>2, <2>1, <2>2, <2>4
<1>16. ASSUME NEW x \in DOMAIN f, f[x].op = "option"
       PROVE  /\ x - 1 \in DOMAIN f /\ f[x - 1].op \in Makes
              /\ f[x - 1].from = f[x].from /\ f[x - 1].target = f[x].target
  <2>1. x \in 1..N
    BY <1>13, <1>16
  <2>2. PICK k \in 1..n : \/ x = at[k] + 1
                          \/ /\ x = at[k] + 2 /\ f[x].op = "option"
                             /\ f[x].from = <<s, w, kept[k]>> /\ f[x].target = target
    BY <1>12, <2>1
  <2>3. x = at[k] + 2 /\ f[x].from = <<s, w, kept[k]>> /\ f[x].target = target
    BY <1>11, <1>16, <2>2
  <2>4. x - 1 = at[k] + 1 /\ x - 1 \in DOMAIN f
    BY <1>8, <1>11, <2>3
  <2> QED  BY <1>11, <2>3, <2>4 DEF Makes
<1>17. ASSUME NEW x \in DOMAIN f, f[x].op \in Makes
       PROVE  \E y \in DOMAIN f : x < y /\ f[y].op = "layout" /\ f[y].target = f[x].target
  <2>1. PICK k \in 1..n : x = at[k] + 1
    BY <1>14, <1>17
  <2>2. x \in 1..N /\ f[x].target = target
    BY <1>11, <2>1
  <2>3. N + 1 \in DOMAIN f /\ x < N + 1
    BY <1>8, <2>2
  <2> QED  BY <1>7, <1>8, <2>2, <2>3
<1>18. ASSUME NEW x \in DOMAIN f, f[x].op = "split"
       PROVE  \E y \in DOMAIN f : y < x /\ f[y].op = "window" /\ f[y].target = f[x].target
  <2>1. PICK k \in 1..n : x = at[k] + 1
    BY <1>14, <1>18 DEF Makes
  <2>2. k # 1 /\ f[x].target = target
    BY <1>11, <1>18, <2>1
  <2>3. 1 \in 1..n /\ 1 < k
    BY <1>2, <2>2
  <2>4. at[1] + Len(ss[1]) <= at[k] /\ Len(ss[1]) >= 1 /\ Len(ss[1]) \in Nat
    BY <1>3, <1>10, <2>3
  <2>5. at[1] + 1 \in DOMAIN f /\ at[1] + 1 < x
    <3>1. at[1] \in Nat /\ at[1] + 1 \in 1..N /\ at[k] \in Nat
      BY <1>11, <2>3
    <3> DEFINE l == Len(ss[1])
               i == at[1]
               j == at[k]
    <3>2. i + l <= j /\ l >= 1 /\ l \in Nat /\ i \in Nat /\ j \in Nat
      BY <2>4, <3>1
    <3>3. i + 1 \in 1..N /\ N \in Nat
      BY <1>8, <3>1
    <3> HIDE DEF i, j, l
    <3>4. i + 1 < j + 1
      BY <3>2
    <3>5. i + 1 \in 1..N + 1
      BY <3>3
    <3> QED  BY <1>8, <2>1, <3>4, <3>5 DEF i, j
  <2>6. f[at[1] + 1].op = "window" /\ f[at[1] + 1].target = target
    BY <1>11, <2>3
  <2> QED  BY <2>2, <2>5, <2>6
<1>19. Sound(f) /\ Rooted(f)
  BY <1>15, <1>16, <1>17, <1>18 DEF Sound, Rooted
<1> QED  BY <1>1, <1>8, <1>19 DEF A

LEMMA SeqSub ==
    ASSUME NEW A, NEW B, A \subseteq B, NEW f \in Seq(A)
    PROVE  f \in Seq(B)
OBVIOUS

LEMMA SessionPlanIs ==
    ASSUME Given, NEW s \in DOMAIN item.sessions
    PROVE  SessionPlan(s) \in Seq(StepsOf(s)) /\ Sound(SessionPlan(s)) /\ Rooted(SessionPlan(s))
<1> DEFINE kept == KeptWindows(item.sessions[s])
           n == Len(kept)
           A == StepsOf(s)
           ss == [k \in DOMAIN kept |-> WindowPlan(s, kept[k], k = 1)]
           F == FlattenSeq(ss)
           bridge == PlanStep("bridge", IndexTarget(s, 1), <<s, 1, 1>>, FALSE)
<1>1. SessionPlan(s) = F \o (IF kept # <<>> /\ item.sessions[s].bridge THEN <<bridge>> ELSE <<>>)
  BY DEF SessionPlan
<1>2. /\ n \in Nat /\ DOMAIN kept = 1..n
      /\ \A k \in 1..n : kept[k] \in DOMAIN Wins(s) /\ KeptPanes(Wins(s)[kept[k]]) # <<>>
      /\ \A k, l \in 1..n : kept[k] = kept[l] => k = l
  BY KeptWindowsAre
<1>3. ASSUME NEW k \in 1..n
      PROVE  ss[k] \in Seq(OfWindow(s, kept[k])) /\ Sound(ss[k]) /\ Rooted(ss[k])
  <2> DEFINE new == k = 1
  <2>1. ss[k] = WindowPlan(s, kept[k], new)
    BY <1>2
  <2>2. new \in BOOLEAN
    OBVIOUS
  <2>3. kept[k] \in DOMAIN Wins(s) /\ KeptPanes(Wins(s)[kept[k]]) # <<>>
    BY <1>2
  <2> HIDE DEF ss, kept, new
  <2> QED  BY <2>1, <2>2, <2>3, WindowPlanIs DEF OfWindow
<1>4. DOMAIN ss = 1..n /\ Len(ss) = n
  BY <1>2
<1> HIDE DEF ss, kept, n
<1>5. A \subseteq Steps
  BY DEF StepsOf
<1>6. \A k \in 1..n : ss[k] \in Seq(A)
  <2> TAKE k \in 1..n
  <2>1. OfWindow(s, kept[k]) \subseteq A
    BY <1>2 DEF OfWindow, StepsOf
  <2> QED  BY <1>3, <2>1, SeqSub
<1>7. ss \in Seq(Seq(A)) /\ ss \in Seq(Seq(Steps))
  <2>0. ss = [k \in 1..n |-> ss[k]]
    BY <1>2, <1>4 DEF ss
  <2>1. \A k \in 1..n : ss[k] \in Seq(Steps)
    <3> HIDE DEF A
    <3> QED  BY <1>5, <1>6, SeqSub
  <2> HIDE DEF A
  <2> QED  BY <1>2, <1>4, <1>6, <2>0, <2>1
<1> HIDE DEF A
<1>8. PICK at : Joins(F, ss, at)
  BY <1>7, FlattenIs
<1>9. F \in Seq(A) /\ F \in Seq(Steps)
  BY <1>5, <1>7, FlattenIs, SeqSub
<1> HIDE DEF F
<1>10. ASSUME NEW i \in DOMAIN ss, NEW j \in DOMAIN ss, i # j,
              NEW x \in DOMAIN ss[i], NEW y \in DOMAIN ss[j]
       PROVE  ss[i][x].from # ss[j][y].from
  <2>1. ss[i][x] \in OfWindow(s, kept[i]) /\ ss[j][y] \in OfWindow(s, kept[j])
    BY <1>3, <1>4
  <2>2. ss[i][x].from[2] = kept[i] /\ ss[j][y].from[2] = kept[j]
    BY <2>1 DEF OfWindow, About
  <2> QED  BY <1>2, <1>4, <1>10, <2>2
<1>11. Sound(F) /\ Rooted(F)
  <2>1. \A i \in DOMAIN ss : Sound(ss[i]) /\ Rooted(ss[i])
    BY <1>3, <1>4
  <2> QED  BY <1>7, <1>8, <1>9, <1>10, <2>1, SoundJoined
<1>12. CASE kept # <<>> /\ item.sessions[s].bridge
  <2>1. n # 0
    <3> SUFFICES ASSUME n = 0 PROVE FALSE
      OBVIOUS
    <3>1. kept = <<>>
      <4>1. kept = [k \in 1..n |-> kept[k]]
        <5>1. kept = [k \in 1..Cardinality({w \in DOMAIN Wins(s) : KeptPanes(Wins(s)[w]) # <<>>}) |->
                        Nth({w \in DOMAIN Wins(s) : KeptPanes(Wins(s)[w]) # <<>>}, k)]
          BY DEF kept, KeptWindows, InOrder, Wins
        <5> QED  BY <1>2, <5>1
      <4> QED  BY <4>1
    <3> QED  BY <1>12, <3>1
  <2>2. 1 \in DOMAIN Wins(s)
    <3>1. kept[1] \in DOMAIN Wins(s)
      BY <1>2, <2>1
    <3>2. Wins(s) \in Seq(WindowRecord)
      BY ItemIs DEF Wins
    <3> QED  BY <3>1, <3>2
  <2>3. s \in Nat
    BY ItemIs
  <2>4. IndexTarget(s, 1) \in Targets /\ <<s, 1, 1>> \in Froms
    BY <2>2, <2>3, TargetIs, TuplesIn
  <2>5. bridge \in Steps /\ bridge.op = "bridge" /\ bridge.target = IndexTarget(s, 1) /\ bridge.from = <<s, 1, 1>>
    BY <2>4 DEF PlanStep, Steps
  <2> HIDE DEF bridge
  <2>6. bridge \in A
    BY <2>2, <2>5 DEF A, StepsOf, About
  <2>7. SessionPlan(s) = F \o <<bridge>>
    BY <1>1, <1>12
  <2>8. F \o <<bridge>> \in Seq(A)
    BY <1>9, <2>6
  <2>9. Sound(F \o <<bridge>>) /\ Rooted(F \o <<bridge>>)
    BY <1>9, <1>11, <2>5, SoundThenOther
  <2> QED  BY <2>7, <2>8, <2>9 DEF A
<1>13. CASE ~(kept # <<>> /\ item.sessions[s].bridge)
  <2>1. SessionPlan(s) = F
    <3>1. F \o <<>> = F
      BY <1>9, ConcatEmptySeq
    <3> QED  BY <1>1, <1>13, <3>1
  <2> QED  BY <1>9, <1>11, <2>1 DEF A
<1> QED  BY <1>12, <1>13

\* The plan is of windows addressed by index, in sessions not skipped.
AllAbout(f, running) ==
    \A x \in DOMAIN f :
        /\ About(f[x], f[x].from[1], f[x].from[2])
        /\ ~ SkipSession(item.sessions[f[x].from[1]], running)

LEMMA BuildPlanIs ==
    ASSUME Given, NEW running
    PROVE  LET f == BuildPlan(running)
           IN  f \in Seq(Steps) /\ Sound(f) /\ Rooted(f) /\ AllAbout(f, running)
<1> DEFINE ss == [s \in DOMAIN item.sessions |->
                    IF SkipSession(item.sessions[s], running) THEN <<>> ELSE SessionPlan(s)]
           n == Len(item.sessions)
           A == {st \in Steps : \E s \in DOMAIN item.sessions :
                    ~ SkipSession(item.sessions[s], running) /\ st \in StepsOf(s)}
           F == BuildPlan(running)
<1>1. n \in Nat /\ DOMAIN item.sessions = 1..n
  BY ItemIs
<1>2. F = FlattenSeq(ss)
  BY DEF BuildPlan
<1>3. ASSUME NEW s \in 1..n
      PROVE  /\ ss[s] \in Seq(A) /\ ss[s] \in Seq(StepsOf(s)) /\ Sound(ss[s]) /\ Rooted(ss[s])
  <2>1. CASE SkipSession(item.sessions[s], running)
    <3>1. ss[s] = <<>>
      BY <1>1, <2>1
    <3> HIDE DEF ss, A
    <3>2. ss[s] \in Seq(A) /\ ss[s] \in Seq(StepsOf(s)) /\ DOMAIN ss[s] = {}
      BY <3>1
    <3> QED  BY <3>2 DEF Sound, Rooted
  <2>2. CASE ~ SkipSession(item.sessions[s], running)
    <3>1. ss[s] = SessionPlan(s)
      BY <1>1, <2>2
    <3>2. StepsOf(s) \subseteq A
      BY <1>1, <2>2 DEF StepsOf
    <3> HIDE DEF ss, A
    <3>3. SessionPlan(s) \in Seq(StepsOf(s)) /\ Sound(SessionPlan(s)) /\ Rooted(SessionPlan(s))
      BY <1>1, SessionPlanIs
    <3>4. SessionPlan(s) \in Seq(A)
      BY <3>2, <3>3, SeqSub
    <3> QED  BY <3>1, <3>3, <3>4
  <2> QED  BY <2>1, <2>2
<1>4. DOMAIN ss = 1..n /\ Len(ss) = n /\ ss = [k \in 1..n |-> ss[k]]
  BY <1>1
<1> HIDE DEF ss, n, F
<1>5. A \subseteq Steps
  OBVIOUS
<1>6. \A st \in A : \E s \in DOMAIN item.sessions : ~ SkipSession(item.sessions[s], running) /\ st \in StepsOf(s)
  OBVIOUS
<1> HIDE DEF A
<1>7. ss \in Seq(Seq(A)) /\ ss \in Seq(Seq(Steps))
  <2>1. \A k \in 1..n : ss[k] \in Seq(Steps)
    BY <1>3, <1>5, SeqSub
  <2> QED  BY <1>1, <1>3, <1>4, <2>1
<1>8. PICK at : Joins(F, ss, at)
  BY <1>2, <1>7, FlattenIs
<1>9. F \in Seq(A) /\ F \in Seq(Steps)
  BY <1>2, <1>5, <1>7, FlattenIs, SeqSub
<1>10. ASSUME NEW i \in DOMAIN ss, NEW j \in DOMAIN ss, i # j,
              NEW x \in DOMAIN ss[i], NEW y \in DOMAIN ss[j]
       PROVE  ss[i][x].from # ss[j][y].from
  <2>1. ss[i][x] \in StepsOf(i) /\ ss[j][y] \in StepsOf(j)
    BY <1>3, <1>4
  <2>2. ss[i][x].from[1] = i /\ ss[j][y].from[1] = j
    BY <2>1 DEF StepsOf, About
  <2> QED  BY <1>10, <2>2
<1>11. Sound(F) /\ Rooted(F)
  <2>1. \A i \in DOMAIN ss : Sound(ss[i]) /\ Rooted(ss[i])
    BY <1>3, <1>4
  <2> QED  BY <1>7, <1>8, <1>9, <1>10, <2>1, SoundJoined
<1>12. AllAbout(F, running)
  <2> SUFFICES ASSUME NEW x \in DOMAIN F
               PROVE  /\ About(F[x], F[x].from[1], F[x].from[2])
                      /\ ~ SkipSession(item.sessions[F[x].from[1]], running)
    BY DEF AllAbout
  <2>1. F[x] \in A
    BY <1>9
  <2>2. PICK s \in DOMAIN item.sessions : ~ SkipSession(item.sessions[s], running) /\ F[x] \in StepsOf(s)
    BY <1>6, <2>1
  <2>3. PICK w \in DOMAIN Wins(s) : About(F[x], s, w)
    BY <2>2 DEF StepsOf
  <2>4. F[x].from[1] = s /\ F[x].from[2] = w
    BY <2>3 DEF About
  <2> QED  BY <2>2, <2>3, <2>4
<1> QED  BY <1>9, <1>11, <1>12 DEF F

\* A lost pane goes back into window i, which is there.
Into(f, i) ==
    \A x \in DOMAIN f :
        /\ f[x].target = IdTarget(i) /\ f[x].op \in {"split", "option", "layout"}
        /\ f[x].from = <<1, 1, item.lost>> /\ item.lost \in DOMAIN PanesIn(1, 1)

LEMMA PaneRestoreIs ==
    ASSUME Given, item.kind = "pane", NEW i \in Nat \ {0}
    PROVE  LET f == BuildPaneRestore(i)
           IN  f \in Seq(Steps) /\ Sound(f) /\ Into(f, i)
<1> DEFINE from == <<1, 1, item.lost>>
           t == IdTarget(i)
           a == PlanStep("split", t, from, FALSE)
           b == PlanStep("option", t, from, FALSE)
           c == PlanStep("layout", t, from, FALSE)
           f == BuildPaneRestore(i)
<1>1. t \in Targets /\ from \in Froms /\ item.lost \in DOMAIN PanesIn(1, 1)
  <2>1. t \in Targets
    <3>1. "" \in STRING \cup {""} /\ 0 \in Nat /\ i \in Nat
      OBVIOUS
    <3> QED  BY <3>1 DEF IdTarget, Targets
  <2>2. item.lost \in DOMAIN PanesIn(1, 1) /\ item.lost \in Nat
    BY ItemIs, RestoreAssumption DEF Given, PanesIn
  <2> QED  BY <2>1, <2>2, TuplesIn
<1>2. f = <<a>> \o (IF PaneOf(from).deco THEN <<b>> ELSE <<>>) \o <<c>>
  BY DEF BuildPaneRestore, Options
<1> HIDE DEF from, t, f
<1>3. /\ a \in Steps /\ a.op = "split" /\ a.target = t /\ a.from = from
      /\ b \in Steps /\ b.op = "option" /\ b.target = t /\ b.from = from
      /\ c \in Steps /\ c.op = "layout" /\ c.target = t /\ c.from = from
  BY <1>1 DEF PlanStep, Steps
<1> HIDE DEF a, b, c
<1>4. CASE f = <<a>> \o <<b>> \o <<c>>
  <2>1. /\ <<a>> \o <<b>> \in Seq(Steps) /\ Len(<<a>> \o <<b>>) = 2
        /\ (<<a>> \o <<b>>)[1] = a /\ (<<a>> \o <<b>>)[2] = b
    BY <1>3
  <2> DEFINE ab == <<a>> \o <<b>>
  <2> HIDE DEF ab
  <2>2. f \in Seq(Steps) /\ DOMAIN f = 1..3 /\ f[1] = a /\ f[2] = b /\ f[3] = c
    <3>0. f = ab \o <<c>>
      BY <1>4 DEF ab
    <3>1. ab \in Seq(Steps) /\ Len(ab) = 2 /\ ab[1] = a /\ ab[2] = b
      BY <2>1 DEF ab
    <3>5. <<c>> \in Seq(Steps) /\ Len(<<c>>) = 1 /\ <<c>>[1] = c
      BY <1>3
    <3> DEFINE one == <<c>>
    <3> HIDE DEF one, f
    <3>7. one \in Seq(Steps) /\ Len(one) = 1
      BY <3>5 DEF one
    <3>8. /\ ab \o one \in Seq(Steps) /\ Len(ab \o one) = Len(ab) + Len(one)
          /\ \A x \in 1..Len(ab) + Len(one) :
                (ab \o one)[x] = IF x <= Len(ab) THEN ab[x] ELSE one[x - Len(ab)]
      BY <3>1, <3>7, ConcatProperties
    <3>9. Len(ab) + Len(one) = 3
      BY <3>1, <3>7
    <3>6. f \in Seq(Steps) /\ Len(f) = 3 /\ \A x \in 1..3 : f[x] = IF x <= 2 THEN ab[x] ELSE one[x - 2]
      BY <3>0, <3>1, <3>8, <3>9 DEF one
    <3>2. f \in Seq(Steps) /\ Len(f) = 3 /\ f[3] = c
      BY <3>5, <3>6 DEF one
    <3>3. f[1] = ab[1] /\ f[2] = ab[2]
      BY <3>6
    <3>4. DOMAIN f = 1..3
      BY <3>2
    <3> QED  BY <3>1, <3>2, <3>3, <3>4
  <2>3. \A x \in DOMAIN f : x = 1 \/ x = 2 \/ x = 3
    BY <2>2
  <2>4. Sound(f)
    BY <1>3, <2>2, <2>3 DEF Sound, Makes
  <2> QED  BY <1>1, <1>3, <2>2, <2>3, <2>4 DEF Into, t, f, from
<1>5. CASE f = <<a>> \o <<>> \o <<c>>
  <2>1. <<a>> \o <<>> = <<a>>
    OBVIOUS
  <2>2. f = Append(<<a>>, c)
    BY <1>3, <1>5, <2>1
  <2>3. f \in Seq(Steps) /\ DOMAIN f = 1..2 /\ f[1] = a /\ f[2] = c
    BY <1>3, <2>2
  <2>4. \A x \in DOMAIN f : x = 1 \/ x = 2
    BY <2>3
  <2>5. Sound(f)
    BY <1>3, <2>3, <2>4 DEF Sound, Makes
  <2> QED  BY <1>1, <1>3, <2>3, <2>4, <2>5 DEF Into, t, f, from
<1> QED  BY <1>2, <1>4, <1>5

-----------------------------------------------------------------------------
(* The server *)

Origins == Nat \X Nat \X Nat \X Nat
Names == STRING \cup {""}
LiveWin == [sess : Names, idx : Nat, name : Names, from : Origins, active : Nat]
LivePane == [win : Nat, from : Origins, runs : Nat, opts : Origins]

\* No two windows of a session have one index.
Apart(ws) ==
    \A i, j \in DOMAIN ws : ws[i].sess = ws[j].sess /\ ws[i].idx = ws[j].idx => i = j

WindowsOK ==
    /\ DOMAIN windows \subseteq Nat \ {0} /\ IsFiniteSet(DOMAIN windows)
    /\ windows \in [DOMAIN windows -> LiveWin]
    /\ \A i \in DOMAIN windows : i < next
    /\ Apart(windows)

PanesOK ==
    /\ DOMAIN panes \subseteq Nat \ {0}
    /\ panes \in [DOMAIN panes -> LivePane]
    /\ \A p \in DOMAIN panes : p < next /\ panes[p].win \in DOMAIN windows
    /\ \A i \in DOMAIN windows : windows[i].active \in DOMAIN panes /\ panes[windows[i].active].win = i

ServerOK == next \in Nat \ {0} /\ WindowsOK /\ PanesOK

\* Windows of a server: types and indexes, whatever is done to them.
Lined(ws) == IsFiniteSet(DOMAIN ws) /\ ws \in [DOMAIN ws -> LiveWin] /\ Apart(ws)

\* The windows are the same but for their indexes.
Reindexed(ws, vs) ==
    /\ DOMAIN ws = DOMAIN vs
    /\ \A i \in DOMAIN vs : /\ ws[i].sess = vs[i].sess /\ ws[i].name = vs[i].name
                            /\ ws[i].from = vs[i].from /\ ws[i].active = vs[i].active

LEMMA SetIdx ==
    ASSUME NEW r \in LiveWin, NEW k \in Nat
    PROVE  /\ [r EXCEPT !.idx = k] \in LiveWin /\ [r EXCEPT !.idx = k].idx = k
           /\ [r EXCEPT !.idx = k].sess = r.sess /\ [r EXCEPT !.idx = k].name = r.name
           /\ [r EXCEPT !.idx = k].from = r.from /\ [r EXCEPT !.idx = k].active = r.active
BY DEF LiveWin

\* new-window -b makes room at the index it is given.
LEMMA ShiftedIs ==
    ASSUME Lined(windows), NEW target, target.idx \in Nat
    PROVE  /\ Lined(Shifted(target)) /\ Reindexed(Shifted(target), windows)
           /\ \A i \in DOMAIN windows :
                ~(Shifted(target)[i].sess = target.sess /\ Shifted(target)[i].idx = target.idx)
           /\ \A i \in DOMAIN windows :
                windows[i].sess # target.sess => Shifted(target)[i] = windows[i]
<1> DEFINE Taken(k) == \E i \in DOMAIN windows : windows[i].sess = target.sess /\ windows[i].idx = k
           moves(i) == /\ windows[i].sess = target.sess
                       /\ windows[i].idx >= target.idx
                       /\ \A k \in target.idx .. windows[i].idx : Taken(k)
           ws == Shifted(target)
<1>1. ws = [i \in DOMAIN windows |-> IF moves(i) THEN [windows[i] EXCEPT !.idx = @ + 1] ELSE windows[i]]
  BY DEF Shifted
<1>2. \A i \in DOMAIN windows : windows[i] \in LiveWin
  BY DEF Lined
<1>3. \A i \in DOMAIN windows : windows[i].idx \in Nat
  BY <1>2 DEF LiveWin
<1>4. ASSUME NEW i \in DOMAIN windows
      PROVE  /\ ws[i] \in LiveWin /\ ws[i].sess = windows[i].sess /\ ws[i].name = windows[i].name
             /\ ws[i].from = windows[i].from /\ ws[i].active = windows[i].active
             /\ ws[i].idx = (IF moves(i) THEN windows[i].idx + 1 ELSE windows[i].idx)
             /\ ~moves(i) => ws[i] = windows[i]
  <2>1. CASE moves(i)
    <3>1. ws[i] = [windows[i] EXCEPT !.idx = windows[i].idx + 1]
      BY <1>1, <1>2, <2>1
    <3>2. windows[i].idx + 1 \in Nat
      BY <1>3
    <3> HIDE DEF ws, moves
    <3> QED  BY <1>2, <2>1, <3>1, <3>2, SetIdx
  <2>2. CASE ~moves(i)
    <3>1. ws[i] = windows[i]
      BY <1>1, <2>2
    <3> HIDE DEF ws, moves
    <3> QED  BY <1>2, <2>2, <3>1
  <2> QED  BY <2>1, <2>2
<1>5. DOMAIN ws = DOMAIN windows /\ ws = [i \in DOMAIN windows |-> ws[i]]
  BY <1>1
<1> HIDE DEF ws
\* One that does not move is below the target or above a gap.
<1>6. ASSUME NEW i \in DOMAIN windows, NEW j \in DOMAIN windows,
             windows[i].sess = target.sess, windows[j].sess = target.sess,
             moves(i), ~moves(j)
      PROVE  windows[j].idx # windows[i].idx + 1
  <2> SUFFICES ASSUME windows[j].idx = windows[i].idx + 1 PROVE FALSE
    OBVIOUS
  <2>1. \A k \in target.idx .. windows[j].idx : k \in target.idx .. windows[i].idx \/ k = windows[j].idx
    BY <1>3
  <2>2. Taken(windows[j].idx)
    BY <1>6
  <2>3. \A k \in target.idx .. windows[j].idx : Taken(k)
    <3> HIDE DEF Taken
    <3> QED  BY <1>6, <2>1, <2>2
  <2>4. windows[j].idx >= target.idx
    BY <1>3, <1>6
  <2> QED  BY <1>6, <2>3, <2>4
<1>7. Apart(ws)
  <2> SUFFICES ASSUME NEW i \in DOMAIN windows, NEW j \in DOMAIN windows,
                      ws[i].sess = ws[j].sess, ws[i].idx = ws[j].idx
               PROVE  i = j
    BY <1>5 DEF Apart
  <2>1. windows[i].sess = windows[j].sess
    BY <1>4
  <2>2. windows[i].idx = windows[j].idx => i = j
    BY <2>1 DEF Lined, Apart
  <2>3. moves(i) \/ moves(j) => windows[i].sess = target.sess /\ windows[j].sess = target.sess
    BY <2>1
  <2> HIDE DEF moves
  <2> QED  BY <1>3, <1>4, <1>6, <2>2, <2>3
<1>8. ASSUME NEW i \in DOMAIN windows, ws[i].sess = target.sess, ws[i].idx = target.idx PROVE FALSE
  <2>1. windows[i].sess = target.sess
    BY <1>4, <1>8
  <2>2. CASE windows[i].idx = target.idx
    <3>1. \A k \in target.idx .. windows[i].idx : k = windows[i].idx
      BY <1>3, <2>2
    <3>2. moves(i)
      BY <1>3, <2>1, <2>2, <3>1
    <3> HIDE DEF moves
    <3> QED  BY <1>3, <1>4, <1>8, <2>2, <3>2
  <2>3. CASE windows[i].idx # target.idx
    <3>1. moves(i) /\ windows[i].idx + 1 = target.idx
      BY <1>4, <1>8, <2>3
    <3> QED  BY <1>3, <3>1
  <2> QED  BY <2>2, <2>3
<1>9. Lined(ws)
  BY <1>4, <1>5, <1>7 DEF Lined
<1>10. Reindexed(ws, windows)
  BY <1>4, <1>5 DEF Reindexed
<1>11. \A i \in DOMAIN windows : windows[i].sess # target.sess => ~moves(i)
  OBVIOUS
<1> QED  BY <1>4, <1>8, <1>9, <1>10, <1>11 DEF ws

\* Some index is free.
LEMMA FreeIndexIs ==
    ASSUME Lined(windows), NEW sess
    PROVE  /\ FreeIndex(sess) \in Nat
           /\ \A i \in DOMAIN windows : ~(windows[i].sess = sess /\ windows[i].idx = FreeIndex(sess))
<1> DEFINE c == Cardinality(DOMAIN windows)
           Free(k) == At([sess |-> sess, idx |-> k, id |-> 0]) = {}
           range == BaseIndex .. BaseIndex + c
           free == {k \in range : Free(k)}
<1>0. BaseIndex \in Nat /\ c \in Nat
  BY RestoreAssumption, FS_CardinalityType DEF Lined
<1>1. ASSUME NEW k
      PROVE  Free(k) <=> \A i \in DOMAIN windows : ~(windows[i].sess = sess /\ windows[i].idx = k)
  BY DEF At
<1>2. free # {}
  <2> SUFFICES ASSUME free = {} PROVE FALSE
    OBVIOUS
  <2>1. \A k \in range : \E i \in DOMAIN windows : windows[i].sess = sess /\ windows[i].idx = k
    <3> HIDE DEF Free, range
    <3> QED  BY <1>1
  <2> DEFINE g == [k \in range |-> CHOOSE i \in DOMAIN windows : windows[i].sess = sess /\ windows[i].idx = k]
  <2>2. \A k \in range : g[k] \in DOMAIN windows /\ windows[g[k]].idx = k
    <3> HIDE DEF range
    <3> QED  BY <2>1
  <2>3. g \in [range -> DOMAIN windows] /\ \A k, l \in range : g[k] = g[l] => k = l
    <3>1. g = [k \in range |-> g[k]]
      OBVIOUS
    <3> HIDE DEF g, range
    <3> QED  BY <2>2, <3>1
  <2>4. IsFiniteSet(DOMAIN windows)
    BY DEF Lined
  <2>5. Cardinality(range) <= c
    <3> HIDE DEF g, range
    <3>1. g \in Injection(range, DOMAIN windows)
      BY <2>3 DEF Injection, IsInjective
    <3> QED  BY <2>4, <3>1, FS_Injection
  <2>6. Cardinality(range) = c + 1
    <3> HIDE DEF c
    <3>1. BaseIndex \in Int /\ BaseIndex + c \in Int /\ ~(BaseIndex > BaseIndex + c)
      BY <1>0
    <3>2. PICK top \in Int : top = BaseIndex + c
      BY <3>1
    <3>3. Cardinality(BaseIndex .. top) = IF BaseIndex > top THEN 0 ELSE top - BaseIndex + 1
      BY <3>1, FS_Interval
    <3> QED  BY <1>0, <3>2, <3>3
  <2> HIDE DEF c, range
  <2> QED  BY <1>0, <2>5, <2>6
<1>3. PICK m \in free : \A k \in free : m <= k
  <2>1. free \in SUBSET Nat
    <3> HIDE DEF Free, c
    <3> QED  BY <1>0
  <2> HIDE DEF free
  <2> QED  BY <1>2, <2>1, LeastNat
<1>4. m \in range /\ Free(m) /\ \A j \in BaseIndex .. m - 1 : ~Free(j)
  <2> HIDE DEF Free, c
  <2>1. m \in range /\ Free(m)
    OBVIOUS
  <2>2. \A j \in BaseIndex .. m - 1 : j \in range /\ j < m
    BY <1>0, <2>1
  <2>3. \A j \in BaseIndex .. m - 1 : ~Free(j)
    <3> TAKE j \in BaseIndex .. m - 1
    <3>1. j \in free => m <= j
      BY <1>3
    <3> QED  BY <1>0, <2>1, <2>2, <3>1
  <2> QED  BY <2>1, <2>3
<1>5. FreeIndex(sess) = CHOOSE k \in range : Free(k) /\ \A j \in BaseIndex .. k - 1 : ~Free(j)
  BY DEF FreeIndex
<1>6. FreeIndex(sess) \in range /\ Free(FreeIndex(sess))
  <2> HIDE DEF Free, range
  <2> QED  BY <1>4, <1>5
<1>7. FreeIndex(sess) \in Nat
  <2> HIDE DEF c
  <2> QED  BY <1>0, <1>6
<1> QED  BY <1>1, <1>6, <1>7

\* Renumbering keeps the order, and so the indexes apart.
LEMMA RenumberedIs ==
    ASSUME NEW ws, Lined(ws), NEW sess
    PROVE  Lined(Renumbered(ws, sess)) /\ Reindexed(Renumbered(ws, sess), ws)
<1> DEFINE below(i) == {j \in DOMAIN ws : ws[j].sess = sess /\ ws[j].idx < ws[i].idx}
           at(i) == BaseIndex + Cardinality(below(i))
           vs == Renumbered(ws, sess)
           moves(i) == Renumber /\ ws[i].sess = sess
<1>1. vs = [i \in DOMAIN ws |-> IF moves(i) THEN [ws[i] EXCEPT !.idx = at(i)] ELSE ws[i]]
  BY DEF Renumbered
<1>2. \A i \in DOMAIN ws : ws[i] \in LiveWin /\ ws[i].idx \in Nat
  BY DEF Lined, LiveWin
<1>3. ASSUME NEW i \in DOMAIN ws
      PROVE  IsFiniteSet(below(i)) /\ Cardinality(below(i)) \in Nat
  <2> DEFINE B == below(i)
  <2>1. B \in SUBSET DOMAIN ws
    OBVIOUS
  <2> HIDE DEF B
  <2>2. IsFiniteSet(B) /\ Cardinality(B) \in Nat
    BY <2>1, FS_Subset, FS_CardinalityType DEF Lined
  <2> QED  BY <2>2 DEF B
<1>4. ASSUME NEW i \in DOMAIN ws
      PROVE  /\ vs[i] \in LiveWin /\ vs[i].sess = ws[i].sess /\ vs[i].name = ws[i].name
             /\ vs[i].from = ws[i].from /\ vs[i].active = ws[i].active
             /\ vs[i].idx = (IF moves(i) THEN at(i) ELSE ws[i].idx)
  <2>1. at(i) \in Nat
    <3> HIDE DEF below
    <3> QED  BY <1>3, RestoreAssumption
  <2>2. CASE moves(i)
    <3>1. vs[i] = [ws[i] EXCEPT !.idx = at(i)]
      BY <1>1, <2>2
    <3> HIDE DEF vs, at, moves
    <3> QED  BY <1>2, <2>1, <2>2, <3>1, SetIdx
  <2>3. CASE ~moves(i)
    <3>1. vs[i] = ws[i]
      BY <1>1, <2>3
    <3> HIDE DEF vs, at, moves
    <3> QED  BY <1>2, <2>3, <3>1
  <2> QED  BY <2>2, <2>3
<1>5. DOMAIN vs = DOMAIN ws /\ vs = [i \in DOMAIN ws |-> vs[i]]
  BY <1>1
<1>6. ASSUME NEW i \in DOMAIN ws, NEW j \in DOMAIN ws, ws[i].sess = sess, ws[i].idx < ws[j].idx
      PROVE  at(i) # at(j)
  <2> DEFINE I == below(i)
             J == below(j)
  <2>1. I \in SUBSET J /\ i \in J /\ i \notin I
    <3>1. \A k \in DOMAIN ws : ws[k].idx < ws[i].idx => ws[k].idx < ws[j].idx
      BY <1>2, <1>6
    <3>2. ~(ws[i].idx < ws[i].idx)
      BY <1>2
    <3> QED  BY <1>6, <3>1, <3>2
  <2>2. IsFiniteSet(J) /\ Cardinality(J) \in Nat /\ Cardinality(I) \in Nat
    BY <1>3
  <2> HIDE DEF I, J
  <2>3. Cardinality(J) = Cardinality(I) => J = I
    BY <2>1, <2>2, FS_Subset
  <2>4. Cardinality(I) # Cardinality(J)
    BY <2>1, <2>3
  <2>5. BaseIndex + Cardinality(I) # BaseIndex + Cardinality(J)
    BY <2>2, <2>4, RestoreAssumption
  <2> QED  BY <2>5 DEF I, J
<1> HIDE DEF vs, at
<1>7. Apart(vs)
  <2> SUFFICES ASSUME NEW i \in DOMAIN ws, NEW j \in DOMAIN ws,
                      vs[i].sess = vs[j].sess, vs[i].idx = vs[j].idx
               PROVE  i = j
    BY <1>5 DEF Apart
  <2>1. ws[i].sess = ws[j].sess
    BY <1>4
  <2>2. moves(i) <=> moves(j)
    BY <2>1
  <2>3. ws[i].idx = ws[j].idx
    <3>1. CASE ~moves(i)
      BY <1>4, <2>2, <3>1
    <3>2. CASE moves(i)
      <4>1. at(i) = at(j) /\ ws[i].sess = sess /\ ws[j].sess = sess
        BY <1>4, <2>1, <2>2, <3>2
      <4> QED  BY <1>2, <1>6, <4>1
    <3> QED  BY <3>1, <3>2
  <2> QED  BY <2>1, <2>3 DEF Lined, Apart
<1>8. Lined(vs)
  BY <1>4, <1>5, <1>7 DEF Lined
<1>9. Reindexed(vs, ws)
  BY <1>4, <1>5 DEF Reindexed
<1> QED  BY <1>8, <1>9 DEF vs

LEMMA NobodyIs == Nobody \in Origins /\ Nobody[1] = 0
BY DEF Nobody, Origins

\* A new window whose place is free.
LEMMA AddedOK ==
    ASSUME ServerOK, NEW shifted, Lined(shifted), Reindexed(shifted, windows),
           NEW sess \in Names, NEW idx \in Nat, NEW name \in Names, NEW from \in Origins,
           \A i \in DOMAIN windows : ~(shifted[i].sess = sess /\ shifted[i].idx = idx),
           AddWindow(shifted, sess, idx, name, from)
    PROVE  ServerOK'
<1>1. PICK N : N = next
  OBVIOUS
<1>2. PICK W : W = [sess |-> sess, idx |-> idx, name |-> name, from |-> from, active |-> N]
  OBVIOUS
<1>3. PICK P : P = [win |-> N, from |-> from, runs |-> 0, opts |-> Nobody]
  OBVIOUS
<1>4. windows' = With(shifted, N, W) /\ panes' = With(panes, N, P) /\ next' = N + 1 /\ N \in Nat \ {0}
  BY <1>1, <1>2, <1>3 DEF AddWindow, ServerOK
<1>5. /\ W \in LiveWin /\ W.sess = sess /\ W.idx = idx /\ W.active = N
      /\ P \in LivePane /\ P.win = N
  BY <1>2, <1>3, <1>4, NobodyIs DEF LiveWin, LivePane
<1>6. DOMAIN shifted = DOMAIN windows /\ \A i \in DOMAIN windows : shifted[i].active = windows[i].active
  BY DEF Reindexed
<1>7. /\ \A i \in DOMAIN windows : i \in Nat \ {0} /\ i < N /\ i # N
      /\ \A p \in DOMAIN panes : p \in Nat \ {0} /\ p < N /\ p # N /\ panes[p].win \in DOMAIN windows
      /\ \A i \in DOMAIN windows : windows[i].active \in DOMAIN panes /\ panes[windows[i].active].win = i
  BY <1>1, <1>4 DEF ServerOK, WindowsOK, PanesOK
<1>8. /\ DOMAIN windows' = DOMAIN windows \cup {N} /\ windows'[N] = W
      /\ \A i \in DOMAIN windows : windows'[i] = shifted[i]
      /\ windows' = [i \in DOMAIN windows \cup {N} |-> windows'[i]]
  <2>1. /\ DOMAIN windows' = DOMAIN shifted \cup {N} /\ windows'[N] = W
        /\ \A i \in DOMAIN shifted : i # N => windows'[i] = shifted[i]
        /\ windows' = [i \in DOMAIN shifted \cup {N} |-> windows'[i]]
    <3>1. PICK f, g : f = shifted /\ g = windows'
      OBVIOUS
    <3>2. g = With(f, N, W)
      BY <1>4, <3>1
    <3>3. /\ DOMAIN g = DOMAIN f \cup {N} /\ g[N] = W
          /\ \A i \in DOMAIN f : i # N => g[i] = f[i]
          /\ g = [i \in DOMAIN f \cup {N} |-> g[i]]
      BY <3>2 DEF With
    <3> QED  BY <3>1, <3>3
  <2> QED  BY <1>6, <1>7, <2>1
<1>9. /\ DOMAIN panes' = DOMAIN panes \cup {N} /\ panes'[N] = P
      /\ \A p \in DOMAIN panes : panes'[p] = panes[p]
      /\ panes' = [p \in DOMAIN panes \cup {N} |-> panes'[p]]
  <2>1. /\ DOMAIN panes' = DOMAIN panes \cup {N} /\ panes'[N] = P
        /\ \A p \in DOMAIN panes : p # N => panes'[p] = panes[p]
        /\ panes' = [p \in DOMAIN panes \cup {N} |-> panes'[p]]
    <3>1. PICK f, g : f = panes /\ g = panes'
      OBVIOUS
    <3>2. g = With(f, N, P)
      BY <1>4, <3>1
    <3>3. /\ DOMAIN g = DOMAIN f \cup {N} /\ g[N] = P
          /\ \A p \in DOMAIN f : p # N => g[p] = f[p]
          /\ g = [p \in DOMAIN f \cup {N} |-> g[p]]
      BY <3>2 DEF With
    <3> QED  BY <3>1, <3>3
  <2> QED  BY <1>7, <2>1
<1>10. WindowsOK'
  <2>1. IsFiniteSet(DOMAIN windows')
    BY <1>8, FS_AddElement DEF ServerOK, WindowsOK
  <2>2. \A i \in DOMAIN windows : shifted[i] \in LiveWin
    BY <1>6 DEF Lined
  <2>3. windows' \in [DOMAIN windows' -> LiveWin]
    BY <1>5, <1>8, <2>2
  <2>4. Apart(windows')
    <3> SUFFICES ASSUME NEW i \in DOMAIN windows', NEW j \in DOMAIN windows',
                        windows'[i].sess = windows'[j].sess, windows'[i].idx = windows'[j].idx
                 PROVE  i = j
      BY DEF Apart
    <3>1. CASE i \in DOMAIN windows /\ j \in DOMAIN windows
      BY <1>6, <1>8, <3>1 DEF Lined, Apart
    <3>2. CASE i = N \/ j = N
      BY <1>5, <1>8, <3>2
    <3> QED  BY <1>8, <3>1, <3>2
  <2>5. \A i \in DOMAIN windows' : i \in Nat \ {0} /\ i < next'
    BY <1>4, <1>7, <1>8
  <2> QED  BY <2>1, <2>3, <2>4, <2>5 DEF WindowsOK
<1>11. PanesOK'
  <2>1. \A p \in DOMAIN panes : panes[p] \in LivePane
    BY DEF ServerOK, PanesOK
  <2>2. panes' \in [DOMAIN panes' -> LivePane]
    BY <1>5, <1>9, <2>1
  <2>3. \A p \in DOMAIN panes' : p \in Nat \ {0} /\ p < next' /\ panes'[p].win \in DOMAIN windows'
    BY <1>4, <1>5, <1>7, <1>8, <1>9
  <2>4. \A i \in DOMAIN windows' : windows'[i].active \in DOMAIN panes' /\ panes'[windows'[i].active].win = i
    BY <1>5, <1>6, <1>7, <1>8, <1>9
  <2> QED  BY <2>2, <2>3, <2>4 DEF PanesOK
<1> QED  BY <1>4, <1>10, <1>11 DEF ServerOK

\* Nothing of the windows but their indexes and active panes changes.
LEMMA PanesStayOK ==
    ASSUME ServerOK, NEW vs, Lined(vs), Reindexed(vs, windows), windows' = vs, UNCHANGED <<panes, next>>
    PROVE  ServerOK'
<1>1. WindowsOK'
  BY DEF ServerOK, WindowsOK, Lined, Reindexed
<1>2. PanesOK'
  <2>1. DOMAIN windows' = DOMAIN windows /\ \A i \in DOMAIN windows : windows'[i].active = windows[i].active
    BY DEF Reindexed
  <2> QED  BY <2>1 DEF ServerOK, PanesOK
<1> QED  BY <1>1, <1>2 DEF ServerOK

LEMMA LinedNow ==
    ASSUME ServerOK
    PROVE  Lined(windows) /\ Reindexed(windows, windows)
BY DEF ServerOK, WindowsOK, Lined, Reindexed

LEMMA OpenedOK ==
    ASSUME ServerOK, NEW sess \in Names, NEW idx \in Nat, NEW name \in Names, NEW from \in Origins,
           \A i \in DOMAIN windows : ~(windows[i].sess = sess /\ windows[i].idx = idx),
           AddWindow(windows, sess, idx, name, from)
    PROVE  ServerOK'
<1>1. PICK vs : vs = windows
  OBVIOUS
<1>2. Lined(vs) /\ Reindexed(vs, windows)
  BY <1>1, LinedNow
<1>3. AddWindow(vs, sess, idx, name, from)
  BY <1>1
<1>4. \A i \in DOMAIN windows : ~(vs[i].sess = sess /\ vs[i].idx = idx)
  BY <1>1
<1> QED  BY <1>2, <1>3, <1>4, AddedOK

LEMMA SetActive ==
    ASSUME NEW r \in LiveWin, NEW k \in Nat
    PROVE  /\ [r EXCEPT !.active = k] \in LiveWin /\ [r EXCEPT !.active = k].active = k
           /\ [r EXCEPT !.active = k].sess = r.sess /\ [r EXCEPT !.active = k].name = r.name
           /\ [r EXCEPT !.active = k].from = r.from /\ [r EXCEPT !.active = k].idx = r.idx
BY DEF LiveWin

\* Another active pane.
Activated(ws, w, q) == [ws EXCEPT ![w].active = q]

LEMMA ActiveSet ==
    ASSUME ServerOK, NEW w \in DOMAIN windows, NEW q \in Nat, NEW ws, ws = Activated(windows, w, q)
    PROVE  /\ DOMAIN ws = DOMAIN windows /\ ws \in [DOMAIN ws -> LiveWin] /\ Apart(ws)
           /\ ws[w].active = q
           /\ \A i \in DOMAIN windows : /\ ws[i].sess = windows[i].sess /\ ws[i].idx = windows[i].idx
                                        /\ ws[i].name = windows[i].name /\ ws[i].from = windows[i].from
                                        /\ i # w => ws[i] = windows[i]
<1>1. windows \in [DOMAIN windows -> LiveWin] /\ Apart(windows)
  BY DEF ServerOK, WindowsOK
<1>2. ws[w] = [windows[w] EXCEPT !.active = q]
  BY DEF Activated
<1>3. DOMAIN ws = DOMAIN windows /\ \A i \in DOMAIN windows : i # w => ws[i] = windows[i]
  BY DEF Activated
<1>4. windows[w] \in LiveWin
  BY <1>1
<1>5. /\ ws[w] \in LiveWin /\ ws[w].active = q /\ ws[w].sess = windows[w].sess /\ ws[w].idx = windows[w].idx
      /\ ws[w].name = windows[w].name /\ ws[w].from = windows[w].from
  BY <1>2, <1>4, SetActive
<1>6. ws = [i \in DOMAIN windows |-> ws[i]]
  BY DEF Activated
<1>7. \A i \in DOMAIN windows : ws[i] \in LiveWin /\ ws[i].sess = windows[i].sess /\ ws[i].idx = windows[i].idx
  BY <1>1, <1>3, <1>5
<1>8. Apart(ws)
  BY <1>1, <1>3, <1>7 DEF Apart
<1> QED  BY <1>3, <1>5, <1>6, <1>7, <1>8

\* A new pane of a window.
LEMMA SplitOK ==
    ASSUME ServerOK, NEW w \in DOMAIN windows, NEW from \in Origins,
           windows' = [windows EXCEPT ![w].active = next],
           panes' = With(panes, next, [win |-> w, from |-> from, runs |-> 0, opts |-> Nobody]),
           next' = next + 1
    PROVE  ServerOK'
<1>1. PICK N : N = next
  OBVIOUS
<1>2. PICK P : P = [win |-> w, from |-> from, runs |-> 0, opts |-> Nobody]
  OBVIOUS
<1>3. /\ N \in Nat \ {0} /\ next' = N + 1
      /\ \A i \in DOMAIN windows : i \in Nat \ {0} /\ i < N
      /\ \A p \in DOMAIN panes : p \in Nat \ {0} /\ p < N /\ p # N /\ panes[p].win \in DOMAIN windows
      /\ \A i \in DOMAIN windows : windows[i].active \in DOMAIN panes /\ panes[windows[i].active].win = i
  BY <1>1 DEF ServerOK, WindowsOK, PanesOK
<1>4. P \in LivePane /\ P.win = w
  BY <1>2, <1>3, NobodyIs DEF LivePane
<1>5. /\ DOMAIN panes' = DOMAIN panes \cup {N} /\ panes'[N] = P
      /\ \A p \in DOMAIN panes : p # N => panes'[p] = panes[p]
      /\ panes' = [p \in DOMAIN panes \cup {N} |-> panes'[p]]
  <2>1. PICK f, g : f = panes /\ g = panes'
    OBVIOUS
  <2>2. g = With(f, N, P)
    BY <1>1, <1>2, <2>1
  <2>3. /\ DOMAIN g = DOMAIN f \cup {N} /\ g[N] = P
        /\ \A p \in DOMAIN f : p # N => g[p] = f[p]
        /\ g = [p \in DOMAIN f \cup {N} |-> g[p]]
    BY <2>2 DEF With
  <2> QED  BY <2>1, <2>3
<1>6. /\ DOMAIN windows' = DOMAIN windows /\ windows' \in [DOMAIN windows' -> LiveWin] /\ Apart(windows')
      /\ windows'[w].active = N /\ \A i \in DOMAIN windows : i # w => windows'[i] = windows[i]
  <2>1. PICK ws : ws = windows'
    OBVIOUS
  <2>2. ws = Activated(windows, w, N) /\ N \in Nat
    BY <1>1, <1>3, <2>1 DEF Activated
  <2>3. /\ DOMAIN ws = DOMAIN windows /\ ws \in [DOMAIN ws -> LiveWin] /\ Apart(ws)
        /\ ws[w].active = N /\ \A i \in DOMAIN windows : i # w => ws[i] = windows[i]
    BY <2>2, ActiveSet
  <2> QED  BY <2>1, <2>3
<1>7. WindowsOK'
  BY <1>3, <1>6 DEF ServerOK, WindowsOK
<1>8. PanesOK'
  <2>1. \A p \in DOMAIN panes : panes[p] \in LivePane
    BY DEF ServerOK, PanesOK
  <2>2. panes' \in [DOMAIN panes' -> LivePane]
    BY <1>4, <1>5, <2>1, <1>3
  <2>3. \A p \in DOMAIN panes' : p \in Nat \ {0} /\ p < next' /\ panes'[p].win \in DOMAIN windows'
    <3> SUFFICES ASSUME NEW p \in DOMAIN panes'
                 PROVE  p \in Nat \ {0} /\ p < next' /\ panes'[p].win \in DOMAIN windows'
      OBVIOUS
    <3>1. CASE p = N
      BY <1>3, <1>4, <1>5, <1>6, <3>1
    <3>2. CASE p \in DOMAIN panes /\ p # N
      <4>1. p \in Nat \ {0} /\ p < N /\ panes[p].win \in DOMAIN windows
        BY <1>3, <3>2
      <4>2. panes'[p] = panes[p]
        BY <1>5, <3>2
      <4> QED  BY <1>3, <1>6, <4>1, <4>2
    <3> QED  BY <1>5, <3>1, <3>2
  <2>4. \A i \in DOMAIN windows' : windows'[i].active \in DOMAIN panes' /\ panes'[windows'[i].active].win = i
    <3> SUFFICES ASSUME NEW i \in DOMAIN windows
                 PROVE  windows'[i].active \in DOMAIN panes' /\ panes'[windows'[i].active].win = i
      BY <1>6
    <3>1. CASE i = w
      BY <1>4, <1>5, <1>6, <3>1
    <3>2. CASE i # w
      <4>1. windows[i].active \in DOMAIN panes /\ windows[i].active # N /\ panes[windows[i].active].win = i
        BY <1>3
      <4> QED  BY <1>5, <1>6, <3>2, <4>1
    <3> QED  BY <3>1, <3>2
  <2> QED  BY <2>2, <2>3, <2>4 DEF PanesOK
<1> QED  BY <1>3, <1>7, <1>8 DEF ServerOK

\* Panes that stay where they are.
LEMMA PanesMarked ==
    ASSUME ServerOK, UNCHANGED <<windows, next>>, DOMAIN panes' = DOMAIN panes,
           panes' = [p \in DOMAIN panes |-> panes'[p]],
           \A p \in DOMAIN panes : panes'[p] \in LivePane /\ panes'[p].win = panes[p].win
    PROVE  ServerOK'
<1>1. WindowsOK'
  BY DEF ServerOK, WindowsOK
<1>2. PanesOK'
  BY DEF ServerOK, PanesOK
<1> QED  BY <1>1, <1>2 DEF ServerOK

LEMMA UserSessionOK ==
    ASSUME Given, ServerOK, UserSession
    PROVE  ServerOK'
<1>1. PICK n \in ItemNames \ LiveSessions : AddWindow(windows, n, BaseIndex, "", Nobody)
  BY DEF UserSession
<1>2. n \in Names /\ "" \in Names
  BY <1>1, ItemIs DEF ItemNames, Names
<1>3. \A i \in DOMAIN windows : windows[i].sess # n
  BY <1>1 DEF LiveSessions
<1>4. PICK idx, name, from : idx = BaseIndex /\ name = "" /\ from = Nobody
  OBVIOUS
<1>5. idx \in Nat /\ name \in Names /\ from \in Origins
  BY <1>2, <1>4, NobodyIs, RestoreAssumption
<1>6. n \in Names
  BY <1>2
<1>7. AddWindow(windows, n, idx, name, from)
  BY <1>1, <1>4
<1>8. \A i \in DOMAIN windows : ~(windows[i].sess = n /\ windows[i].idx = idx)
  BY <1>3
<1> QED  BY <1>5, <1>6, <1>7, <1>8, OpenedOK

LEMMA UserWindowOK ==
    ASSUME ServerOK, UserWindow
    PROVE  ServerOK'
<1>1. PICK n \in LiveSessions : AddWindow(windows, n, FreeIndex(n), "", Nobody)
  BY DEF UserWindow
<1>2. n \in Names /\ "" \in Names
  BY <1>1 DEF LiveSessions, ServerOK, WindowsOK, LiveWin, Names
<1>3. Lined(windows) /\ Reindexed(windows, windows)
  BY LinedNow
<1>4. /\ FreeIndex(n) \in Nat
      /\ \A i \in DOMAIN windows : ~(windows[i].sess = n /\ windows[i].idx = FreeIndex(n))
  BY <1>3, FreeIndexIs
<1>5. PICK idx, name, from : idx = FreeIndex(n) /\ name = "" /\ from = Nobody
  OBVIOUS
<1>6. idx \in Nat /\ name \in Names /\ from \in Origins
  BY <1>2, <1>4, <1>5, NobodyIs
<1>7. n \in Names
  BY <1>2
<1>8. AddWindow(windows, n, idx, name, from)
  BY <1>1, <1>5
<1>9. \A i \in DOMAIN windows : ~(windows[i].sess = n /\ windows[i].idx = idx)
  BY <1>4, <1>5
<1> QED  BY <1>6, <1>7, <1>8, <1>9, OpenedOK

LEMMA SelectOK ==
    ASSUME ServerOK, SelectPane
    PROVE  ServerOK'
<1>1. PICK p \in DOMAIN panes : /\ windows' = [windows EXCEPT ![panes[p].win].active = p]
                                /\ UNCHANGED <<panes, next>>
  BY DEF SelectPane
<1>2. PICK w : w = panes[p].win
  OBVIOUS
<1>3. w \in DOMAIN windows /\ p \in Nat
  BY <1>2 DEF ServerOK, PanesOK
<1>4. PICK ws : ws = windows'
  OBVIOUS
<1>5. ws = Activated(windows, w, p)
  BY <1>1, <1>2, <1>4 DEF Activated
<1>6. /\ DOMAIN ws = DOMAIN windows /\ ws \in [DOMAIN ws -> LiveWin] /\ Apart(ws) /\ ws[w].active = p
      /\ \A i \in DOMAIN windows : i # w => ws[i] = windows[i]
  BY <1>3, <1>5, ActiveSet
<1>7. WindowsOK'
  BY <1>1, <1>4, <1>6 DEF ServerOK, WindowsOK
<1>8. PanesOK'
  <2>1. \A i \in DOMAIN windows' : windows'[i].active \in DOMAIN panes' /\ panes'[windows'[i].active].win = i
    BY <1>1, <1>2, <1>4, <1>6 DEF ServerOK, PanesOK
  <2> QED  BY <1>1, <1>4, <1>6, <2>1 DEF ServerOK, PanesOK
<1> QED  BY <1>1, <1>7, <1>8 DEF ServerOK

LEMMA CloseOK ==
    ASSUME ServerOK, ClosePane
    PROVE  ServerOK'
<1>1. PICK p \in DOMAIN panes :
         LET w == panes[p].win
             rest == PanesOf(w) \ {p}
         IN  /\ panes' = Restrict(panes, DOMAIN panes \ {p})
             /\ IF rest = {}
                THEN windows' = Renumbered(Restrict(windows, DOMAIN windows \ {w}), windows[w].sess)
                ELSE \E q \in rest :
                       windows' = [windows EXCEPT ![w].active = IF @ = p THEN q ELSE @]
             /\ UNCHANGED next
  BY DEF ClosePane
<1>2. PICK w : w = panes[p].win
  OBVIOUS
<1>3. PICK ws, ps, N : ws = windows' /\ ps = panes' /\ N = next
  OBVIOUS
<1>4. /\ w \in DOMAIN windows
      /\ \A i \in DOMAIN windows : i \in Nat \ {0} /\ i < N
      /\ \A q \in DOMAIN panes : /\ q \in Nat \ {0} /\ q < N /\ panes[q].win \in DOMAIN windows
                                 /\ panes[q] \in LivePane
      /\ \A i \in DOMAIN windows : windows[i].active \in DOMAIN panes /\ panes[windows[i].active].win = i
      /\ N \in Nat \ {0} /\ next' = N
  BY <1>1, <1>2, <1>3 DEF ServerOK, WindowsOK, PanesOK
<1>5. DOMAIN ps = DOMAIN panes \ {p} /\ ps = [q \in DOMAIN ps |-> ps[q]] /\ \A q \in DOMAIN ps : ps[q] = panes[q]
  BY <1>1, <1>3 DEF Restrict
<1>6. ps \in [DOMAIN ps -> LivePane]
  BY <1>4, <1>5
<1>7. CASE PanesOf(w) \ {p} = {}
  <2>1. PICK vs : vs = Restrict(windows, DOMAIN windows \ {w})
    OBVIOUS
  <2>2. PICK s : s = windows[w].sess
    OBVIOUS
  <2>3. ws = Renumbered(vs, s)
    BY <1>1, <1>2, <1>3, <1>7, <2>1, <2>2
  <2>4. /\ DOMAIN vs = DOMAIN windows \ {w} /\ vs = [i \in DOMAIN vs |-> vs[i]]
        /\ \A i \in DOMAIN vs : vs[i] = windows[i]
    BY <2>1 DEF Restrict
  <2>5. Lined(vs)
    <3>1. IsFiniteSet(DOMAIN vs)
      BY <2>4, FS_Subset DEF ServerOK, WindowsOK
    <3>2. vs \in [DOMAIN vs -> LiveWin]
      BY <2>4 DEF ServerOK, WindowsOK
    <3>3. Apart(vs)
      BY <2>4 DEF ServerOK, WindowsOK, Apart
    <3> QED  BY <3>1, <3>2, <3>3 DEF Lined
  <2>6. Lined(ws) /\ Reindexed(ws, vs)
    BY <2>3, <2>5, RenumberedIs
  <2>7. DOMAIN ws = DOMAIN windows \ {w} /\ \A i \in DOMAIN ws : ws[i].active = windows[i].active
    BY <2>4, <2>6 DEF Reindexed
  <2>8. \A q \in DOMAIN ps : panes[q].win # w
    BY <1>5, <1>7 DEF PanesOf
  <2>9. WindowsOK'
    BY <1>3, <1>4, <2>6, <2>7 DEF WindowsOK, Lined
  <2>10. PanesOK'
    <3>1. \A q \in DOMAIN ps : ps[q].win \in DOMAIN ws
      BY <1>4, <1>5, <2>7, <2>8
    <3>2. \A i \in DOMAIN ws : ws[i].active \in DOMAIN ps /\ ps[ws[i].active].win = i
      BY <1>2, <1>4, <1>5, <2>7
    <3> QED  BY <1>3, <1>4, <1>5, <1>6, <3>1, <3>2 DEF PanesOK
  <2> QED  BY <1>4, <2>9, <2>10 DEF ServerOK
<1>8. CASE PanesOf(w) \ {p} # {}
  <2>1. PICK q \in PanesOf(w) \ {p} : windows' = [windows EXCEPT ![w].active = IF @ = p THEN q ELSE @]
    BY <1>1, <1>2, <1>8
  <2>2. PICK a : a = IF windows[w].active = p THEN q ELSE windows[w].active
    OBVIOUS
  <2>3. q \in DOMAIN ps /\ ps[q].win = w /\ a \in DOMAIN ps /\ ps[a].win = w /\ a \in Nat
    BY <1>4, <1>5, <2>1, <2>2 DEF PanesOf
  <2>4. ws = Activated(windows, w, a)
    BY <1>3, <1>4, <2>1, <2>2 DEF Activated
  <2>5. /\ DOMAIN ws = DOMAIN windows /\ ws \in [DOMAIN ws -> LiveWin] /\ Apart(ws) /\ ws[w].active = a
        /\ \A i \in DOMAIN windows : i # w => ws[i] = windows[i]
    <3>1. w \in DOMAIN windows /\ a \in Nat
      BY <1>4, <2>3
    <3> QED  BY <2>4, <3>1, ActiveSet
  <2>6. WindowsOK'
    BY <1>3, <1>4, <2>5 DEF ServerOK, WindowsOK
  <2>7. PanesOK'
    <3>1. \A i \in DOMAIN ws : ws[i].active \in DOMAIN ps /\ ps[ws[i].active].win = i
      BY <1>2, <1>4, <1>5, <2>3, <2>5
    <3> QED  BY <1>3, <1>4, <1>5, <1>6, <2>5, <3>1 DEF PanesOK
  <2> QED  BY <1>4, <2>6, <2>7 DEF ServerOK
<1> QED  BY <1>7, <1>8

-----------------------------------------------------------------------------
(* Types *)

ByIndex == Rooted(plan) /\ \A x \in DOMAIN plan : About(plan[x], plan[x].from[1], plan[x].from[2])
ById == item.kind = "pane" /\ \E i \in Nat \ {0} : Into(plan, i)
PlanOK == plan \in Seq(Steps) /\ Sound(plan) /\ (ByIndex \/ ById)

Waiting == [target : Targets, pane : Nat]

ProgressOK ==
    /\ Given
    /\ phase \in {"idle", "apply", "done", "died"} /\ row \in BOOLEAN /\ try \in Nat
    /\ phase = "apply" => try # 0
    /\ PlanOK /\ pos \in 1 .. Len(plan) + 1 /\ placing \in Nat
    /\ pending \in Seq(Waiting) /\ batch \in Seq(Waiting)
    /\ \A k \in DOMAIN pending : pending[k].pane < next
    /\ \A k \in DOMAIN batch : batch[k].pane < next

LEMMA Prefixed ==
    ASSUME NEW t \in Nat, NEW a \in Nat, NEW b \in Nat, NEW c \in Nat
    PROVE  <<t>> \o <<a, b, c>> = <<t, a, b, c>>
<1>1. <<t>> \in Seq(Nat) /\ <<a, b, c>> \in Seq(Nat) /\ Len(<<t>>) = 1 /\ Len(<<a, b, c>>) = 3
  OBVIOUS
<1>2. PICK f, g : f = <<t>> /\ g = <<a, b, c>>
  OBVIOUS
<1>3. /\ f \o g \in Seq(Nat) /\ Len(f \o g) = 4
      /\ \A i \in 1 .. 4 : (f \o g)[i] = IF i <= 1 THEN f[i] ELSE g[i - 1]
  BY <1>1, <1>2, ConcatProperties
<1>4. (f \o g)[1] = t /\ (f \o g)[2] = a /\ (f \o g)[3] = b /\ (f \o g)[4] = c
  BY <1>2, <1>3
<1>5. f \o g = <<t, a, b, c>>
  <2>1. PICK h : h = f \o g
    OBVIOUS
  <2>2. h \in Seq(Nat) /\ Len(h) = 4 /\ h[1] = t /\ h[2] = a /\ h[3] = b /\ h[4] = c
    BY <1>3, <1>4, <2>1
  <2>3. h = <<t, a, b, c>>
    BY <2>2
  <2> QED  BY <2>1, <2>3
<1> QED  BY <1>2, <1>5

\* The step a plan is at.
LEMMA NowIs ==
    ASSUME ProgressOK, pos <= Len(plan)
    PROVE  /\ pos \in DOMAIN plan /\ Now = plan[pos] /\ Now \in Steps
           /\ Now.target \in Targets /\ Now.target.sess \in Names /\ Now.target.idx \in Nat
           /\ Now.from \in Froms /\ Origin \in Origins
           /\ Origin = <<try, Now.from[1], Now.from[2], Now.from[3]>>
           /\ pos + 1 \in 1 .. Len(plan) + 1
<1>1. plan \in Seq(Steps) /\ pos \in DOMAIN plan /\ pos + 1 \in 1 .. Len(plan) + 1
  BY DEF ProgressOK, PlanOK
<1>2. Now = plan[pos] /\ Now \in Steps
  BY <1>1 DEF Now
<1>3. Now.target \in Targets /\ Now.from \in Froms
  BY <1>2 DEF Steps
<1>4. Now.target.sess \in Names /\ Now.target.idx \in Nat
  BY <1>3 DEF Targets, Names
<1>5. PICK a \in Nat, b \in Nat, c \in Nat : Now.from = <<a, b, c>>
  BY <1>3 DEF Froms
<1>6. Origin = <<try, a, b, c>>
  <2>1. PICK t \in Nat : t = try
    BY DEF ProgressOK
  <2>2. <<t>> \o <<a, b, c>> = <<t, a, b, c>>
    BY Prefixed
  <2> QED  BY <1>5, <2>1, <2>2 DEF Origin
<1>7. try \in Nat
  BY DEF ProgressOK
<1> QED  BY <1>1, <1>2, <1>3, <1>4, <1>5, <1>6, <1>7 DEF Origins

\* Only plans that address windows by index make any.
LEMMA WindowStepIs ==
    ASSUME ProgressOK, NEW x \in DOMAIN plan, plan[x].op = "window"
    PROVE  ByIndex /\ About(plan[x], plan[x].from[1], plan[x].from[2])
<1>1. ~ById
  BY DEF ById, Into
<1> QED  BY <1>1 DEF ProgressOK, PlanOK, ByIndex

LEMMA NewWindowIs ==
    ASSUME ProgressOK, pos <= Len(plan), Now.op = "window"
    PROVE  NewName \in Names /\ Now.target.id = 0
<1>1. pos \in DOMAIN plan /\ Now = plan[pos]
  BY NowIs
<1>2. About(Now, Now.from[1], Now.from[2])
  BY <1>1, WindowStepIs
<1>3. Now.target.id = 0
  BY <1>2 DEF About, IndexTarget
<1>4. WinOf(Now.from).name \in STRING
  BY <1>2, ItemIs DEF ProgressOK, About, Wins, WinOf
<1> QED  BY <1>3, <1>4 DEF NewName, Names

LEMMA FreeAt ==
    ASSUME NEW target, target.id = 0, At(target) = {}
    PROVE  \A i \in DOMAIN windows : ~(windows[i].sess = target.sess /\ windows[i].idx = target.idx)
BY DEF At

\* Applying a plan, window by window.
LEMMA CreateSessionOK ==
    ASSUME ProgressOK, ServerOK, CreateSession
    PROVE  ServerOK'
<1>1. pos <= Len(plan) /\ Now.op = "window" /\ Now.target.sess \notin LiveSessions
  BY DEF CreateSession, Applying
<1>2. CASE UNCHANGED live
  BY <1>2 DEF live, ServerOK, WindowsOK, PanesOK
<1>3. CASE AddWindow(windows, Now.target.sess, BaseIndex, NewName, Origin)
  <2>1. PICK sess, idx, name, from :
            sess = Now.target.sess /\ idx = BaseIndex /\ name = NewName /\ from = Origin
    OBVIOUS
  <2>2. sess \in Names /\ name \in Names /\ from \in Origins
    BY <1>1, <2>1, NowIs, NewWindowIs
  <2>3. AddWindow(windows, sess, idx, name, from)
    BY <1>3, <2>1
  <2>4. \A i \in DOMAIN windows : ~(windows[i].sess = sess /\ windows[i].idx = idx)
    BY <1>1, <2>1 DEF LiveSessions
  <2>5. idx \in Nat
    BY <2>1, RestoreAssumption
  <2> QED  BY <2>2, <2>3, <2>4, <2>5, OpenedOK
<1> QED  BY <1>2, <1>3 DEF CreateSession

LEMMA NewWindowOK ==
    ASSUME ProgressOK, ServerOK, NewWindow
    PROVE  ServerOK'
<1>1. pos <= Len(plan) /\ Now.op = "window"
  BY DEF NewWindow, Applying
<1>2. CASE UNCHANGED live
  BY <1>2 DEF live, ServerOK, WindowsOK, PanesOK
<1>3. CASE AddWindow(Shifted(Now.target), Now.target.sess, Now.target.idx, NewName, Origin)
  <2>1. PICK target, vs, sess, idx, name, from :
            /\ target = Now.target /\ vs = Shifted(target) /\ sess = target.sess /\ idx = target.idx
            /\ name = NewName /\ from = Origin
    OBVIOUS
  <2>2. sess \in Names /\ idx \in Nat /\ name \in Names /\ from \in Origins
    BY <1>1, <2>1, NowIs, NewWindowIs
  <2>3. Lined(windows)
    BY LinedNow
  <2>4. /\ Lined(vs) /\ Reindexed(vs, windows)
        /\ \A i \in DOMAIN windows : ~(vs[i].sess = sess /\ vs[i].idx = idx)
    BY <2>1, <2>2, <2>3, ShiftedIs
  <2>5. AddWindow(vs, sess, idx, name, from)
    BY <1>3, <2>1
  <2> QED  BY <2>2, <2>4, <2>5, AddedOK
<1> QED  BY <1>2, <1>3 DEF NewWindow

\* Another index for a window.
Placed(ws, w, k) == [ws EXCEPT ![w].idx = k]

LEMMA PlacedIs ==
    ASSUME ServerOK, NEW w \in DOMAIN windows, NEW k \in Nat, NEW ws, ws = Placed(windows, w, k),
           \A i \in DOMAIN windows : ~(windows[i].sess = windows[w].sess /\ windows[i].idx = k)
    PROVE  /\ Lined(ws) /\ Reindexed(ws, windows) /\ ws[w].idx = k
           /\ \A i \in DOMAIN windows : i # w => ws[i] = windows[i]
<1>1. windows[w] \in LiveWin /\ windows = [i \in DOMAIN windows |-> windows[i]]
  BY DEF ServerOK, WindowsOK
<1>2. /\ ws[w] = [windows[w] EXCEPT !.idx = k] /\ DOMAIN ws = DOMAIN windows
      /\ ws = [i \in DOMAIN windows |-> ws[i]]
      /\ \A i \in DOMAIN windows : i # w => ws[i] = windows[i]
  BY DEF Placed
<1>3. /\ ws[w] \in LiveWin /\ ws[w].idx = k /\ ws[w].sess = windows[w].sess /\ ws[w].name = windows[w].name
      /\ ws[w].from = windows[w].from /\ ws[w].active = windows[w].active
  BY <1>1, <1>2, SetIdx
<1>4. Reindexed(ws, windows)
  BY <1>2, <1>3 DEF Reindexed
<1>5. Apart(ws)
  <2>1. Apart(windows)
    BY DEF ServerOK, WindowsOK
  <2>2. \A i \in DOMAIN windows : i # w => ws[i].sess = windows[i].sess /\ ws[i].idx = windows[i].idx
    BY <1>2
  <2> SUFFICES ASSUME NEW i \in DOMAIN windows, NEW j \in DOMAIN windows,
                      ws[i].sess = ws[j].sess, ws[i].idx = ws[j].idx
               PROVE  i = j
    BY <1>2 DEF Apart
  <2>3. CASE i # w /\ j # w
    BY <2>1, <2>2, <2>3 DEF Apart
  <2>4. CASE i = w /\ j # w
    BY <1>3, <2>2, <2>4
  <2>5. CASE i # w /\ j = w
    BY <1>3, <2>2, <2>5
  <2> QED  BY <2>3, <2>4, <2>5
<1>6. Lined(ws)
  <2>1. \A i \in DOMAIN windows : ws[i] \in LiveWin
    BY <1>2, <1>3 DEF ServerOK, WindowsOK
  <2>2. ws \in [DOMAIN ws -> LiveWin]
    BY <1>2, <2>1
  <2> QED  BY <1>2, <1>5, <2>2 DEF ServerOK, WindowsOK, Lined
<1> QED  BY <1>2, <1>3, <1>4, <1>6

\* What a step changes: ids are given once, and keep what they were given for.
Stays ==
    /\ next <= next'
    /\ \A i \in DOMAIN windows' : i < next =>
         /\ i \in DOMAIN windows
         /\ windows'[i].sess = windows[i].sess /\ windows'[i].from = windows[i].from
    /\ \A p \in DOMAIN panes' : p < next =>
         p \in DOMAIN panes /\ panes'[p].win = panes[p].win /\ panes'[p].from = panes[p].from

Added(vs, sess, idx, from) ==
    /\ next' = next + 1 /\ next \in Nat \ {0} /\ next \notin DOMAIN windows /\ next \notin DOMAIN panes
    /\ DOMAIN windows' = DOMAIN windows \cup {next}
    /\ windows'[next].sess = sess /\ windows'[next].idx = idx
    /\ windows'[next].from = from /\ windows'[next].active = next
    /\ \A i \in DOMAIN windows : windows'[i] = vs[i]
    /\ DOMAIN panes' = DOMAIN panes \cup {next}
    /\ panes'[next].win = next /\ panes'[next].from = from
    /\ panes'[next].runs = 0 /\ panes'[next].opts = Nobody
    /\ \A p \in DOMAIN panes : panes'[p] = panes[p]

LEMMA AddedIs ==
    ASSUME ServerOK, NEW vs, Reindexed(vs, windows), NEW sess, NEW idx, NEW name, NEW from,
           AddWindow(vs, sess, idx, name, from)
    PROVE  Added(vs, sess, idx, from)
<1>1. PICK N : N = next
  OBVIOUS
<1>2. PICK W : W = [sess |-> sess, idx |-> idx, name |-> name, from |-> from, active |-> N]
  OBVIOUS
<1>3. PICK P : P = [win |-> N, from |-> from, runs |-> 0, opts |-> Nobody]
  OBVIOUS
<1>4. windows' = With(vs, N, W) /\ panes' = With(panes, N, P) /\ next' = N + 1
  BY <1>1, <1>2, <1>3 DEF AddWindow
<1>5. N \in Nat \ {0} /\ N \notin DOMAIN windows /\ N \notin DOMAIN panes
  BY <1>1 DEF ServerOK, WindowsOK, PanesOK
<1>6. DOMAIN vs = DOMAIN windows
  BY DEF Reindexed
<1>7. /\ DOMAIN windows' = DOMAIN windows \cup {N} /\ windows'[N] = W
      /\ \A i \in DOMAIN windows : windows'[i] = vs[i]
  BY <1>4, <1>5, <1>6 DEF With
<1>8. /\ DOMAIN panes' = DOMAIN panes \cup {N} /\ panes'[N] = P
      /\ \A p \in DOMAIN panes : panes'[p] = panes[p]
  BY <1>4, <1>5 DEF With
<1> QED  BY <1>1, <1>2, <1>3, <1>4, <1>5, <1>7, <1>8 DEF Added

LEMMA AddedStays ==
    ASSUME ServerOK, NEW vs, Reindexed(vs, windows), NEW sess, NEW idx, NEW name, NEW from,
           AddWindow(vs, sess, idx, name, from)
    PROVE  Stays
<1>1. /\ next' = next + 1 /\ next \in Nat \ {0} /\ next \notin DOMAIN windows /\ next \notin DOMAIN panes
      /\ DOMAIN windows' = DOMAIN windows \cup {next}
      /\ \A i \in DOMAIN windows : windows'[i] = vs[i]
      /\ DOMAIN panes' = DOMAIN panes \cup {next}
      /\ \A p \in DOMAIN panes : panes'[p] = panes[p]
  <2>1. Added(vs, sess, idx, from)
    BY AddedIs
  <2> QED  BY <2>1 DEF Added
<1>2. \A i \in DOMAIN windows : vs[i].sess = windows[i].sess /\ vs[i].from = windows[i].from
  BY DEF Reindexed
<1> QED  BY <1>1, <1>2 DEF Stays

LEMMA SplitIs ==
    ASSUME ServerOK, NEW w \in DOMAIN windows, NEW from,
           windows' = [windows EXCEPT ![w].active = next],
           panes' = With(panes, next, [win |-> w, from |-> from, runs |-> 0, opts |-> Nobody]),
           next' = next + 1
    PROVE  /\ next \in Nat \ {0} /\ next \notin DOMAIN panes
           /\ DOMAIN windows' = DOMAIN windows /\ windows'[w].active = next
           /\ \A i \in DOMAIN windows : /\ windows'[i].sess = windows[i].sess /\ windows'[i].idx = windows[i].idx
                                        /\ windows'[i].from = windows[i].from
                                        /\ i # w => windows'[i] = windows[i]
           /\ DOMAIN panes' = DOMAIN panes \cup {next}
           /\ panes'[next].win = w /\ panes'[next].from = from
           /\ panes'[next].runs = 0 /\ panes'[next].opts = Nobody
           /\ \A p \in DOMAIN panes : panes'[p] = panes[p]
           /\ Stays
<1>1. PICK N : N = next
  OBVIOUS
<1>2. PICK P : P = [win |-> w, from |-> from, runs |-> 0, opts |-> Nobody]
  OBVIOUS
<1>3. N \in Nat \ {0} /\ N \notin DOMAIN panes /\ next' = N + 1
  BY <1>1 DEF ServerOK, PanesOK
<1>4. PICK ws : ws = windows'
  OBVIOUS
<1>5. ws = Activated(windows, w, N) /\ N \in Nat
  BY <1>1, <1>3, <1>4 DEF Activated
<1>6. /\ DOMAIN ws = DOMAIN windows /\ ws[w].active = N
      /\ \A i \in DOMAIN windows : /\ ws[i].sess = windows[i].sess /\ ws[i].idx = windows[i].idx
                                   /\ ws[i].name = windows[i].name /\ ws[i].from = windows[i].from
                                   /\ i # w => ws[i] = windows[i]
  BY <1>5, ActiveSet
<1>7. panes' = With(panes, N, P)
  BY <1>1, <1>2
<1>8. /\ DOMAIN panes' = DOMAIN panes \cup {N} /\ panes'[N] = P
      /\ \A p \in DOMAIN panes : panes'[p] = panes[p]
  BY <1>3, <1>7 DEF With
<1>9. Stays
  BY <1>1, <1>3, <1>4, <1>6, <1>8 DEF Stays
<1> QED  BY <1>1, <1>2, <1>3, <1>4, <1>6, <1>8, <1>9

\* The panes and windows that a close leaves.
LEMMA CloseStays ==
    ASSUME ServerOK, ClosePane
    PROVE  /\ Stays /\ DOMAIN panes' \subseteq DOMAIN panes
           /\ \A p \in DOMAIN panes : p \in DOMAIN panes' \/ panes[p].from \in closed'
           /\ \A p \in DOMAIN panes' : panes'[p] = panes[p]
<1>1. PICK p \in DOMAIN panes :
         LET w == panes[p].win
             rest == PanesOf(w) \ {p}
         IN  /\ panes' = Restrict(panes, DOMAIN panes \ {p})
             /\ IF rest = {}
                THEN windows' = Renumbered(Restrict(windows, DOMAIN windows \ {w}), windows[w].sess)
                ELSE \E q \in rest :
                       windows' = [windows EXCEPT ![w].active = IF @ = p THEN q ELSE @]
             /\ closed' = closed \union {panes[p].from}
             /\ UNCHANGED next
  BY DEF ClosePane
<1>2. /\ DOMAIN panes' = DOMAIN panes \ {p} /\ \A q \in DOMAIN panes' : panes'[q] = panes[q]
      /\ panes[p].from \in closed'
  BY <1>1 DEF Restrict
<1>3. PICK w : w = panes[p].win
  OBVIOUS
<1>4. \A i \in DOMAIN windows' : /\ i \in DOMAIN windows /\ windows'[i].sess = windows[i].sess
                                 /\ windows'[i].from = windows[i].from
  <2>1. CASE PanesOf(w) \ {p} = {}
    <3>1. PICK vs, s, ws : vs = Restrict(windows, DOMAIN windows \ {w}) /\ s = windows[w].sess /\ ws = windows'
      OBVIOUS
    <3>2. ws = Renumbered(vs, s)
      BY <1>1, <1>3, <2>1, <3>1
    <3>3. /\ DOMAIN vs = DOMAIN windows \ {w} /\ vs = [i \in DOMAIN vs |-> vs[i]]
          /\ \A i \in DOMAIN vs : vs[i] = windows[i]
      BY <3>1 DEF Restrict
    <3>4. Lined(vs)
      <4>1. IsFiniteSet(DOMAIN vs)
        BY <3>3, FS_Subset DEF ServerOK, WindowsOK
      <4>2. vs \in [DOMAIN vs -> LiveWin]
        BY <3>3 DEF ServerOK, WindowsOK
      <4>3. Apart(vs)
        BY <3>3 DEF ServerOK, WindowsOK, Apart
      <4> QED  BY <4>1, <4>2, <4>3 DEF Lined
    <3>5. Lined(ws) /\ Reindexed(ws, vs)
      BY <3>2, <3>4, RenumberedIs
    <3> QED  BY <3>1, <3>3, <3>5 DEF Reindexed
  <2>2. CASE PanesOf(w) \ {p} # {}
    <3>1. PICK q \in PanesOf(w) \ {p} : windows' = [windows EXCEPT ![w].active = IF @ = p THEN q ELSE @]
      BY <1>1, <1>3, <2>2
    <3>2. PICK a, ws : a = (IF windows[w].active = p THEN q ELSE windows[w].active) /\ ws = windows'
      OBVIOUS
    <3>3. w \in DOMAIN windows /\ a \in Nat
      <4>1. w \in DOMAIN windows /\ windows[w].active \in Nat /\ q \in Nat
        BY <1>3, <3>1 DEF PanesOf, ServerOK, WindowsOK, PanesOK, LiveWin
      <4> QED  BY <3>2, <4>1
    <3>4. ws = Activated(windows, w, a)
      BY <3>1, <3>2, <3>3 DEF Activated
    <3>5. /\ DOMAIN ws = DOMAIN windows
          /\ \A i \in DOMAIN windows : ws[i].sess = windows[i].sess /\ ws[i].from = windows[i].from
      BY <3>3, <3>4, ActiveSet
    <3> QED  BY <3>2, <3>5
  <2> QED  BY <2>1, <2>2
<1>5. next' = next /\ next \in Nat
  BY <1>1 DEF ServerOK
<1>6. Stays
  BY <1>2, <1>4, <1>5 DEF Stays
<1> QED  BY <1>2, <1>6

LEMMA SelectIs ==
    ASSUME ServerOK, SelectPane
    PROVE  /\ Stays /\ UNCHANGED <<panes, next>> /\ DOMAIN windows' = DOMAIN windows
           /\ \A i \in DOMAIN windows : /\ windows'[i].sess = windows[i].sess /\ windows'[i].idx = windows[i].idx
                                        /\ windows'[i].from = windows[i].from
<1>1. PICK p \in DOMAIN panes : /\ windows' = [windows EXCEPT ![panes[p].win].active = p]
                                /\ UNCHANGED <<panes, next>>
  BY DEF SelectPane
<1>2. PICK w, ws : w = panes[p].win /\ ws = windows'
  OBVIOUS
<1>3. w \in DOMAIN windows /\ p \in Nat
  BY <1>2 DEF ServerOK, PanesOK
<1>4. ws = Activated(windows, w, p)
  BY <1>1, <1>2 DEF Activated
<1>5. /\ DOMAIN ws = DOMAIN windows
      /\ \A i \in DOMAIN windows : /\ ws[i].sess = windows[i].sess /\ ws[i].idx = windows[i].idx
                                   /\ ws[i].from = windows[i].from
  BY <1>3, <1>4, ActiveSet
<1>6. Stays
  BY <1>1, <1>2, <1>5 DEF Stays, ServerOK
<1> QED  BY <1>1, <1>2, <1>5, <1>6

\* The window new-session made is for the step the plan is at.
PlacingOK ==
    placing # 0 =>
        /\ pos <= Len(plan) /\ Now.op = "window" /\ placing < next
        /\ placing \in DOMAIN windows =>
             windows[placing].sess = Now.target.sess /\ windows[placing].from = Origin

LEMMA LiveKept ==
    ASSUME ServerOK, UNCHANGED live
    PROVE  ServerOK' /\ Stays
<1>1. UNCHANGED <<windows, panes, next>>
  BY DEF live
<1>2. next \in Nat
  BY DEF ServerOK
<1> QED  BY <1>1, <1>2 DEF Stays, ServerOK, WindowsOK, PanesOK

\* move-window puts it at the index its target has.
LEMMA MoveIs ==
    ASSUME ProgressOK, PlacingOK, ServerOK, pos <= Len(plan), Now.op = "window",
           placing # 0, placing \in DOMAIN windows, At(Now.target) = {},
           windows' = [windows EXCEPT ![placing].idx = Now.target.idx], UNCHANGED <<panes, next>>
    PROVE  /\ ServerOK' /\ Stays
           /\ DOMAIN windows' = DOMAIN windows /\ windows'[placing].idx = Now.target.idx
           /\ windows'[placing].sess = Now.target.sess /\ windows'[placing].from = Origin
           /\ windows'[placing].active = windows[placing].active
           /\ \A i \in DOMAIN windows : i # placing => windows'[i] = windows[i]
<1>1. PICK w, k, target, ws : w = placing /\ k = Now.target.idx /\ target = Now.target /\ ws = windows'
  OBVIOUS
<1>2. w \in DOMAIN windows /\ k \in Nat /\ target.id = 0 /\ At(target) = {} /\ k = target.idx
  BY <1>1, NowIs, NewWindowIs
<1>3. ws = Placed(windows, w, k)
  BY <1>1 DEF Placed
<1>4. windows[w].sess = target.sess /\ windows[w].from = Origin
  BY <1>1 DEF PlacingOK
<1>5. \A i \in DOMAIN windows : ~(windows[i].sess = windows[w].sess /\ windows[i].idx = k)
  BY <1>2, <1>4, FreeAt
<1>6. /\ Lined(ws) /\ Reindexed(ws, windows) /\ ws[w].idx = k
      /\ \A i \in DOMAIN windows : i # w => ws[i] = windows[i]
  BY <1>2, <1>3, <1>5, PlacedIs
<1>7. ServerOK'
  BY <1>1, <1>6, PanesStayOK
<1>8. /\ DOMAIN ws = DOMAIN windows
      /\ \A i \in DOMAIN windows : /\ ws[i].sess = windows[i].sess /\ ws[i].from = windows[i].from
                                   /\ ws[i].active = windows[i].active
  BY <1>6 DEF Reindexed
<1>9. Stays
  BY <1>1, <1>8 DEF Stays, ServerOK
<1> QED  BY <1>1, <1>2, <1>4, <1>6, <1>7, <1>8, <1>9

\* A pane that is given a value: its options or one more run of its command.
LEMMA SetOpts ==
    ASSUME NEW r \in LivePane, NEW o \in Origins
    PROVE  /\ [r EXCEPT !.opts = o] \in LivePane /\ [r EXCEPT !.opts = o].opts = o
           /\ [r EXCEPT !.opts = o].win = r.win /\ [r EXCEPT !.opts = o].from = r.from
           /\ [r EXCEPT !.opts = o].runs = r.runs
BY DEF LivePane

LEMMA SetRuns ==
    ASSUME NEW r \in LivePane, NEW n \in Nat
    PROVE  /\ [r EXCEPT !.runs = n] \in LivePane /\ [r EXCEPT !.runs = n].runs = n
           /\ [r EXCEPT !.runs = n].win = r.win /\ [r EXCEPT !.runs = n].from = r.from
           /\ [r EXCEPT !.runs = n].opts = r.opts
BY DEF LivePane

LEMMA OptedIs ==
    ASSUME ServerOK, NEW p \in DOMAIN panes, NEW o \in Origins, UNCHANGED <<windows, next>>,
           panes' = [panes EXCEPT ![p].opts = o]
    PROVE  /\ ServerOK' /\ Stays /\ DOMAIN panes' = DOMAIN panes
           /\ \A q \in DOMAIN panes : q # p => panes'[q] = panes[q]
           /\ panes'[p].opts = o /\ panes'[p].win = panes[p].win /\ panes'[p].from = panes[p].from
           /\ panes'[p].runs = panes[p].runs
<1>1. panes = [q \in DOMAIN panes |-> panes[q]] /\ \A q \in DOMAIN panes : panes[q] \in LivePane
  BY DEF ServerOK, PanesOK
<1>2. /\ DOMAIN panes' = DOMAIN panes /\ panes' = [q \in DOMAIN panes |-> panes'[q]]
      /\ \A q \in DOMAIN panes : q # p => panes'[q] = panes[q]
      /\ panes'[p] = [panes[p] EXCEPT !.opts = o]
  BY <1>1
<1>3. /\ panes'[p] \in LivePane /\ panes'[p].opts = o /\ panes'[p].win = panes[p].win
      /\ panes'[p].from = panes[p].from /\ panes'[p].runs = panes[p].runs
  <2>1. PICK r, t : r = panes[p] /\ t = panes'[p]
    OBVIOUS
  <2>2. r \in LivePane /\ t = [r EXCEPT !.opts = o]
    BY <1>1, <1>2, <2>1
  <2>3. t \in LivePane /\ t.opts = o /\ t.win = r.win /\ t.from = r.from /\ t.runs = r.runs
    BY <2>2, SetOpts
  <2> QED  BY <2>1, <2>3
<1>4. ServerOK'
  BY <1>1, <1>2, <1>3, PanesMarked
<1>5. Stays
  BY <1>2, <1>3 DEF Stays, ServerOK
<1> QED  BY <1>2, <1>3, <1>4, <1>5

LEMMA RanIs ==
    ASSUME ServerOK, NEW p \in DOMAIN panes, UNCHANGED <<windows, next>>,
           panes' = [panes EXCEPT ![p].runs = @ + 1]
    PROVE  /\ ServerOK' /\ Stays /\ DOMAIN panes' = DOMAIN panes
           /\ \A q \in DOMAIN panes : q # p => panes'[q] = panes[q]
           /\ panes'[p].runs = panes[p].runs + 1 /\ panes'[p].win = panes[p].win
           /\ panes'[p].from = panes[p].from /\ panes'[p].opts = panes[p].opts
<1>1. panes = [q \in DOMAIN panes |-> panes[q]] /\ \A q \in DOMAIN panes : panes[q] \in LivePane
  BY DEF ServerOK, PanesOK
<1>2. PICK n : n = panes[p].runs + 1
  OBVIOUS
<1>3. n \in Nat
  BY <1>1, <1>2 DEF LivePane
<1>4. /\ DOMAIN panes' = DOMAIN panes /\ panes' = [q \in DOMAIN panes |-> panes'[q]]
      /\ \A q \in DOMAIN panes : q # p => panes'[q] = panes[q]
      /\ panes'[p] = [panes[p] EXCEPT !.runs = n]
  BY <1>1, <1>2
<1>5. /\ panes'[p] \in LivePane /\ panes'[p].runs = n /\ panes'[p].win = panes[p].win
      /\ panes'[p].from = panes[p].from /\ panes'[p].opts = panes[p].opts
  <2>1. PICK r, t : r = panes[p] /\ t = panes'[p]
    OBVIOUS
  <2>2. r \in LivePane /\ t = [r EXCEPT !.runs = n]
    BY <1>1, <1>4, <2>1
  <2>3. t \in LivePane /\ t.runs = n /\ t.win = r.win /\ t.from = r.from /\ t.opts = r.opts
    BY <1>3, <2>2, SetRuns
  <2> QED  BY <2>1, <2>3
<1>6. ServerOK'
  BY <1>1, <1>4, <1>5, PanesMarked
<1>7. Stays
  BY <1>4, <1>5 DEF Stays, ServerOK
<1> QED  BY <1>2, <1>4, <1>5, <1>6, <1>7

\* A window with a target is one the target's session and index, or id, name.
LEMMA AtIn ==
    ASSUME NEW target
    PROVE  At(target) \subseteq DOMAIN windows
BY DEF At

LEMMA ApplyServer ==
    ASSUME ProgressOK, PlacingOK, ServerOK, ApplyStep
    PROVE  ServerOK' /\ Stays
<1>1. CASE CreateSession
  <2>1. CASE UNCHANGED live
    BY <2>1, LiveKept
  <2>2. CASE AddWindow(windows, Now.target.sess, BaseIndex, NewName, Origin)
    <3>1. PICK vs, sess, name, from : vs = windows /\ sess = Now.target.sess /\ name = NewName /\ from = Origin
      OBVIOUS
    <3>2. AddWindow(vs, sess, BaseIndex, name, from) /\ Reindexed(vs, windows)
      BY <2>2, <3>1, LinedNow
    <3> QED  BY <1>1, <3>2, AddedStays, CreateSessionOK
  <2> QED  BY <1>1, <2>1, <2>2 DEF CreateSession
<1>2. CASE MoveWindow
  <2>1. CASE UNCHANGED live
    BY <2>1, LiveKept
  <2>2. CASE /\ placing \in DOMAIN windows /\ At(Now.target) = {} /\ UNCHANGED <<panes, next>>
             /\ windows' = [windows EXCEPT ![placing].idx = Now.target.idx]
    <3>1. pos <= Len(plan) /\ Now.op = "window" /\ placing # 0
      BY <1>2 DEF MoveWindow, Applying
    <3> QED  BY <2>2, <3>1, MoveIs
  <2> QED  BY <1>2, <2>1, <2>2 DEF MoveWindow
<1>3. CASE NewWindow
  <2>1. CASE UNCHANGED live
    BY <2>1, LiveKept
  <2>2. CASE AddWindow(Shifted(Now.target), Now.target.sess, Now.target.idx, NewName, Origin)
    <3>1. PICK target, vs, sess, idx, name, from :
              /\ target = Now.target /\ vs = Shifted(target) /\ sess = target.sess /\ idx = target.idx
              /\ name = NewName /\ from = Origin
      OBVIOUS
    <3>2. AddWindow(vs, sess, idx, name, from)
      BY <2>2, <3>1
    <3>3. pos <= Len(plan) /\ Lined(windows)
      BY <1>3, LinedNow DEF NewWindow, Applying
    <3>4. target.idx \in Nat
      BY <3>1, <3>3, NowIs
    <3>5. Reindexed(vs, windows)
      BY <3>1, <3>3, <3>4, ShiftedIs
    <3> QED  BY <1>3, <3>2, <3>5, AddedStays, NewWindowOK
  <2> QED  BY <1>3, <2>1, <2>2 DEF NewWindow
<1>4. CASE SplitPane
  <2>1. CASE UNCHANGED live
    BY <2>1, LiveKept
  <2>2. CASE \E w \in At(Now.target) : SplitInto(w)
    <3>1. PICK w \in At(Now.target) : SplitInto(w)
      BY <2>2
    <3>2. PICK from : from = Origin
      OBVIOUS
    <3>3. w \in DOMAIN windows /\ from \in Origins
      BY <1>4, <3>1, <3>2, AtIn, NowIs DEF SplitPane, Applying
    <3>4. /\ windows' = [windows EXCEPT ![w].active = next] /\ next' = next + 1
          /\ panes' = With(panes, next, [win |-> w, from |-> from, runs |-> 0, opts |-> Nobody])
      BY <3>1, <3>2 DEF SplitInto
    <3> QED  BY <3>3, <3>4, SplitOK, SplitIs
  <2> QED  BY <1>4, <2>1, <2>2 DEF SplitPane, Skipped, SplitNow
<1>5. CASE SetOption
  <2>1. CASE UNCHANGED live
    BY <2>1, LiveKept
  <2>2. CASE /\ \E w \in At(Now.target) : panes' = [panes EXCEPT ![windows[w].active].opts = Origin]
             /\ UNCHANGED <<windows, next>>
    <3>1. PICK w \in At(Now.target) : panes' = [panes EXCEPT ![windows[w].active].opts = Origin]
      BY <2>2
    <3>2. PICK o, p : o = Origin /\ p = windows[w].active
      OBVIOUS
    <3>3. o \in Origins /\ w \in DOMAIN windows
      BY <1>5, <3>1, <3>2, AtIn, NowIs DEF SetOption, Applying
    <3>4. p \in DOMAIN panes
      BY <3>2, <3>3 DEF ServerOK, PanesOK
    <3>5. panes' = [panes EXCEPT ![p].opts = o]
      BY <3>1, <3>2
    <3> QED  BY <2>2, <3>3, <3>4, <3>5, OptedIs
  <2> QED  BY <1>5, <2>1, <2>2 DEF SetOption, Skipped, live
<1>6. CASE SetLayout
  BY <1>6, LiveKept DEF SetLayout, Skipped
<1>7. CASE ReopenBridge
  BY <1>7, LiveKept DEF ReopenBridge
<1>8. CASE Respawn
  <2>1. CASE UNCHANGED live
    BY <2>1, LiveKept
  <2>2. CASE /\ Head(batch).pane \in DOMAIN panes /\ UNCHANGED <<windows, next>>
             /\ panes' = [panes EXCEPT ![Head(batch).pane].runs = @ + 1]
    <3>1. PICK p : p = Head(batch).pane
      OBVIOUS
    <3>2. p \in DOMAIN panes /\ panes' = [panes EXCEPT ![p].runs = @ + 1]
      BY <2>2, <3>1
    <3> QED  BY <2>2, <3>2, RanIs
  <2> QED  BY <1>8, <2>1, <2>2 DEF Respawn, live
<1> QED  BY <1>1, <1>2, <1>3, <1>4, <1>5, <1>6, <1>7, <1>8 DEF ApplyStep

LEMMA UserServer ==
    ASSUME ProgressOK, ServerOK, UserStep
    PROVE  ServerOK' /\ Stays
<1>1. CASE UserSession
  <2>1. PICK n \in ItemNames \ LiveSessions : AddWindow(windows, n, BaseIndex, "", Nobody)
    BY <1>1 DEF UserSession
  <2>2. PICK vs, idx, name, from : vs = windows /\ idx = BaseIndex /\ name = "" /\ from = Nobody
    OBVIOUS
  <2>3. AddWindow(vs, n, idx, name, from) /\ Reindexed(vs, windows)
    BY <2>1, <2>2, LinedNow
  <2>4. ServerOK'
    BY <1>1, UserSessionOK DEF ProgressOK
  <2> QED  BY <2>3, <2>4, AddedStays
<1>2. CASE UserWindow
  <2>1. PICK n \in LiveSessions : AddWindow(windows, n, FreeIndex(n), "", Nobody)
    BY <1>2 DEF UserWindow
  <2>2. PICK vs, idx, name, from : vs = windows /\ idx = FreeIndex(n) /\ name = "" /\ from = Nobody
    OBVIOUS
  <2>3. AddWindow(vs, n, idx, name, from) /\ Reindexed(vs, windows)
    BY <2>1, <2>2, LinedNow
  <2>4. ServerOK'
    BY <1>2, UserWindowOK
  <2> QED  BY <2>3, <2>4, AddedStays
<1>3. CASE SelectPane
  BY <1>3, SelectOK, SelectIs
<1>4. CASE ClosePane
  BY <1>4, CloseOK, CloseStays
<1> QED  BY <1>1, <1>2, <1>3, <1>4 DEF UserStep

-----------------------------------------------------------------------------
(* Init *)

LEMMA Greatest ==
    ASSUME NEW S \in SUBSET Nat, IsFiniteSet(S), S # {}
    PROVE  Max(S) \in S /\ \A x \in S : x <= Max(S)
<1> DEFINE c == Cardinality(S)
<1>1. c \in Nat /\ c # 0
  BY FS_CardinalityType, FS_EmptySet
<1>2. c \in 1 .. Cardinality(S)
  BY <1>1
<1>3. PICK m : m = Nth(S, c)
  OBVIOUS
<1>4. m \in S /\ Cardinality({j \in S : j <= m}) = c
  <2> HIDE DEF c
  <2> QED  BY <1>2, <1>3, NthIs
<1>5. {j \in S : j <= m} = S
  <2> DEFINE T == {j \in S : j <= m}
  <2>1. T \in SUBSET S
    OBVIOUS
  <2>2. Cardinality(T) = Cardinality(S)
    BY <1>4
  <2> HIDE DEF T
  <2>3. T = S
    BY <2>1, <2>2, FS_Subset
  <2> QED  BY <2>3 DEF T
<1>6. \A x \in S : m >= x
  BY <1>4, <1>5
<1>7. Max(S) \in S /\ \A x \in S : Max(S) >= x
  BY <1>4, <1>6 DEF Max
<1> QED  BY <1>4, <1>7

LEMMA Image ==
    ASSUME NEW f, IsFiniteSet(DOMAIN f), NEW T, \A x \in DOMAIN f : f[x] \in T,
           \A t \in T : \E x \in DOMAIN f : f[x] = t
    PROVE  IsFiniteSet(T)
<1>1. PICK g : g = [x \in DOMAIN f |-> f[x]]
  OBVIOUS
<1>2. g \in Surjection(DOMAIN f, T)
  BY <1>1 DEF Surjection
<1> QED  BY <1>2, FS_Surjection

LEMMA RecordedIdsFinite ==
    ASSUME Given
    PROVE  IsFiniteSet(RecordedIds) /\ RecordedIds \subseteq Nat
<1> DEFINE ids(s) == {item.sessions[s].windows[w].id : w \in DOMAIN item.sessions[s].windows}
           all == {ids(s) : s \in DOMAIN item.sessions}
<1>1. ASSUME NEW s \in DOMAIN item.sessions
      PROVE  IsFiniteSet(ids(s)) /\ ids(s) \subseteq Nat
  <2>1. PICK ws : ws = item.sessions[s].windows
    OBVIOUS
  <2>2. ws \in Seq(WindowRecord) /\ \A w \in DOMAIN ws : ws[w].id \in Nat
    BY <2>1, ItemIs
  <2>3. PICK n \in Nat : DOMAIN ws = 1 .. n
    BY <2>2
  <2>4. IsFiniteSet(1 .. n)
    BY FS_Interval
  <2>5. PICK f : f = [w \in 1 .. n |-> ws[w].id]
    OBVIOUS
  <2>6. PICK T : T = ids(s)
    OBVIOUS
  <2>7. /\ DOMAIN f = 1 .. n /\ \A x \in DOMAIN f : f[x] \in T
        /\ \A t \in T : t \in Nat /\ \E x \in DOMAIN f : f[x] = t
    BY <2>1, <2>2, <2>3, <2>5, <2>6
  <2>8. IsFiniteSet(T)
    BY <2>4, <2>7, Image
  <2> QED  BY <2>6, <2>7, <2>8
<1>2. IsFiniteSet(all)
  <2>1. PICK n \in Nat : DOMAIN item.sessions = 1 .. n
    BY ItemIs
  <2>2. IsFiniteSet(1 .. n)
    BY FS_Interval
  <2>3. PICK f : f = [s \in 1 .. n |-> ids(s)]
    OBVIOUS
  <2>4. PICK T : T = all
    OBVIOUS
  <2>5. /\ DOMAIN f = 1 .. n /\ \A x \in DOMAIN f : f[x] \in T
        /\ \A t \in T : \E x \in DOMAIN f : f[x] = t
    <3> HIDE DEF ids
    <3> QED  BY <2>1, <2>3, <2>4
  <2>6. IsFiniteSet(T)
    BY <2>2, <2>5, Image
  <2> QED  BY <2>4, <2>6
<1>3. \A T \in all : IsFiniteSet(T) /\ T \subseteq Nat
  <2> HIDE DEF ids
  <2> QED  BY <1>1
<1>4. RecordedIds = UNION all
  BY DEF RecordedIds
<1> HIDE DEF all
<1>5. IsFiniteSet(UNION all) /\ UNION all \subseteq Nat
  BY <1>2, <1>3, FS_UNION
<1> QED  BY <1>4, <1>5

LEMMA InitServer ==
    ASSUME Init
    PROVE  ServerOK /\ \A p \in DOMAIN panes : panes[p].from = Nobody
<1>1. Given
  BY DEF Init, Given
<1>2. PICK s \in LiveSets :
        LET ids == {w.id : w \in s}
            W(i) == CHOOSE w \in s : w.id = i
        IN  /\ windows = [i \in ids |-> [sess |-> W(i).sess, idx |-> W(i).idx, name |-> W(i).name,
                                         from |-> Nobody, active |-> i]]
            /\ panes = [i \in ids |-> [win |-> i, from |-> Nobody, runs |-> 0, opts |-> Nobody]]
            /\ next = 1 + Max({0} \union ids \union RecordedIds)
  BY DEF Init
<1> DEFINE ids == {w.id : w \in s}
           W(i) == CHOOSE w \in s : w.id = i
<1>3. /\ IsFiniteSet(s) /\ s \subseteq LiveWindow
      /\ \A v, w \in s : v.id = w.id \/ (v.sess = w.sess /\ v.idx = w.idx) => v = w
  BY RestoreAssumption
<1>4. \A i \in ids : W(i) \in s /\ W(i).id = i /\ W(i) \in LiveWindow
  BY <1>3
<1>5. ids \subseteq Nat \ {0}
  BY <1>3 DEF LiveWindow
<1>6. IsFiniteSet(ids)
  <2>1. PICK f : f = [w \in s |-> w.id]
    OBVIOUS
  <2>2. PICK T : T = ids
    OBVIOUS
  <2>3. DOMAIN f = s /\ (\A x \in DOMAIN f : f[x] \in T) /\ \A t \in T : \E x \in DOMAIN f : f[x] = t
    BY <2>1, <2>2
  <2>4. IsFiniteSet(T)
    BY <1>3, <2>3, Image
  <2> QED  BY <2>2, <2>4
<1>7. DOMAIN windows = ids /\ DOMAIN panes = ids
  BY <1>2
<1>8. ASSUME NEW i \in ids
      PROVE  /\ windows[i] \in LiveWin /\ windows[i].sess = W(i).sess /\ windows[i].idx = W(i).idx
             /\ windows[i].active = i /\ panes[i] \in LivePane /\ panes[i].win = i /\ panes[i].from = Nobody
  <2>1. PICK w : w = W(i)
    OBVIOUS
  <2>2. w.sess \in Names /\ w.idx \in Nat /\ w.name \in Names
    BY <1>4, <2>1 DEF LiveWindow, Names
  <2>3. i \in Nat
    BY <1>5
  <2>4. /\ windows[i] = [sess |-> w.sess, idx |-> w.idx, name |-> w.name, from |-> Nobody, active |-> i]
        /\ panes[i] = [win |-> i, from |-> Nobody, runs |-> 0, opts |-> Nobody]
    BY <1>2, <2>1
  <2> HIDE DEF W, ids
  <2> QED  BY <2>1, <2>2, <2>3, <2>4, NobodyIs DEF LiveWin, LivePane
<1>9. windows = [i \in ids |-> windows[i]] /\ panes = [i \in ids |-> panes[i]]
  BY <1>2
<1>10. next \in Nat \ {0} /\ \A i \in ids : i < next
  <2>1. PICK S : S = {0} \union ids \union RecordedIds
    OBVIOUS
  <2>2. S \in SUBSET Nat /\ S # {} /\ ids \subseteq S
    <3>1. PICK I, R : I = ids /\ R = RecordedIds
      OBVIOUS
    <3>2. I \subseteq Nat /\ R \subseteq Nat
      BY <1>1, <1>5, <3>1, RecordedIdsFinite
    <3>3. S = {0} \union I \union R
      BY <2>1, <3>1
    <3>4. S \in SUBSET Nat /\ 0 \in S /\ I \subseteq S
      BY <3>2, <3>3
    <3> HIDE DEF ids
    <3> QED  BY <3>1, <3>4
  <2>3. IsFiniteSet(S)
    <3> HIDE DEF ids
    <3>1. IsFiniteSet({0})
      BY FS_Singleton
    <3>2. IsFiniteSet({0} \union ids)
      BY <1>6, <3>1, FS_Union
    <3>3. IsFiniteSet(({0} \union ids) \union RecordedIds)
      BY <1>1, <3>2, FS_Union, RecordedIdsFinite
    <3> QED  BY <2>1, <3>3
  <2>4. Max(S) \in S /\ \A x \in S : x <= Max(S)
    BY <2>2, <2>3, Greatest
  <2>5. next = 1 + Max(S)
    BY <1>2, <2>1
  <2> HIDE DEF ids
  <2>6. Max(S) \in Nat
    BY <2>2, <2>4
  <2> QED  BY <2>2, <2>4, <2>5, <2>6
<1>11. \A i, j \in ids : windows[i].sess = windows[j].sess /\ windows[i].idx = windows[j].idx => i = j
  <2> SUFFICES ASSUME NEW i \in ids, NEW j \in ids,
                      windows[i].sess = windows[j].sess, windows[i].idx = windows[j].idx
               PROVE  i = j
    OBVIOUS
  <2>1. PICK v, w : v = W(i) /\ w = W(j)
    OBVIOUS
  <2>2. v \in s /\ w \in s /\ v.id = i /\ w.id = j
    BY <1>4, <2>1
  <2>3. v.sess = w.sess /\ v.idx = w.idx
    BY <1>8, <2>1
  <2> QED  BY <1>3, <2>2, <2>3
<1> HIDE DEF ids, W
<1>12. WindowsOK
  BY <1>5, <1>6, <1>7, <1>8, <1>9, <1>10, <1>11 DEF WindowsOK, Apart
<1>13. PanesOK
  BY <1>5, <1>7, <1>8, <1>9, <1>10 DEF PanesOK
<1> QED  BY <1>7, <1>8, <1>10, <1>12, <1>13 DEF ServerOK

-----------------------------------------------------------------------------
(* The progress of a plan *)

LEMMA PlanKept ==
    ASSUME PlanOK, UNCHANGED <<item, plan>>
    PROVE  PlanOK'
<1>1. ASSUME NEW st, NEW s, NEW w
      PROVE  About(st, s, w)' <=> About(st, s, w)
  BY DEF About, Wins, PanesIn, IndexTarget, KeptPanes, SkipPane
<1>2. ASSUME NEW i
      PROVE  Into(plan, i)' <=> Into(plan, i)
  BY DEF Into, IdTarget, PanesIn
<1>3. ByIndex => ByIndex'
  BY <1>1 DEF ByIndex
<1>4. ById => ById'
  BY <1>2 DEF ById
<1> QED  BY <1>3, <1>4 DEF PlanOK

LEMMA ProgressKept ==
    ASSUME ProgressOK, Stays, UNCHANGED <<item, plan, try>>, ServerOK, ServerOK',
           phase' \in {"idle", "apply", "done", "died"}, row' \in BOOLEAN,
           phase' = "apply" => phase = "apply",
           pos' = pos \/ (pos <= Len(plan) /\ pos' = pos + 1), placing' \in Nat,
           pending' \in Seq(Waiting), batch' \in Seq(Waiting),
           \A k \in DOMAIN pending' : pending'[k].pane < next',
           \A k \in DOMAIN batch' : batch'[k].pane < next'
    PROVE  ProgressOK'
<1>1. PlanOK'
  BY PlanKept DEF ProgressOK
<1>2. pos' \in 1 .. Len(plan') + 1
  <2>1. Len(plan) \in Nat /\ pos \in 1 .. Len(plan) + 1
    BY DEF ProgressOK, PlanOK
  <2> QED  BY <2>1
<1>3. Given'
  BY DEF ProgressOK, Given
<1> QED  BY <1>1, <1>2, <1>3 DEF ProgressOK

\* What waits stays of the kind it is.
LEMMA QueuesKept ==
    ASSUME ProgressOK, Stays, UNCHANGED <<pending, batch>>, ServerOK, ServerOK'
    PROVE  /\ pending' \in Seq(Waiting) /\ batch' \in Seq(Waiting)
           /\ \A k \in DOMAIN pending' : pending'[k].pane < next'
           /\ \A k \in DOMAIN batch' : batch'[k].pane < next'
<1>1. next \in Nat /\ next' \in Nat /\ next <= next'
  BY DEF ServerOK, Stays
<1>2. \A k \in DOMAIN pending : pending[k].pane \in Nat
  <2>1. \A k \in DOMAIN pending : pending[k] \in Waiting
    BY DEF ProgressOK
  <2> QED  BY <2>1 DEF Waiting
<1>3. \A k \in DOMAIN batch : batch[k].pane \in Nat
  <2>1. \A k \in DOMAIN batch : batch[k] \in Waiting
    BY DEF ProgressOK
  <2> QED  BY <2>1 DEF Waiting
<1> QED  BY <1>1, <1>2, <1>3 DEF ProgressOK

LEMMA Entries ==
    ASSUME ProgressOK, ServerOK, ServerOK', Stays
    PROVE  /\ \A k \in DOMAIN pending : pending[k] \in Waiting /\ pending[k].pane < next'
           /\ \A k \in DOMAIN batch : batch[k] \in Waiting /\ batch[k].pane < next'
<1>1. next \in Nat /\ next' \in Nat /\ next <= next'
  BY DEF ServerOK, Stays
<1>2. /\ \A k \in DOMAIN pending : pending[k] \in Waiting
      /\ \A k \in DOMAIN batch : batch[k] \in Waiting
  BY DEF ProgressOK
<1>3. /\ \A k \in DOMAIN pending : pending[k].pane \in Nat
      /\ \A k \in DOMAIN batch : batch[k].pane \in Nat
  BY <1>2 DEF Waiting
<1> QED  BY <1>1, <1>2, <1>3 DEF ProgressOK

LEMMA Queued ==
    ASSUME ProgressOK, ServerOK, ServerOK', Stays, pos <= Len(plan), NEW p \in Nat, p < next', Queue(p)
    PROVE  pending' \in Seq(Waiting) /\ \A k \in DOMAIN pending' : pending'[k].pane < next'
<1>1. pending \in Seq(Waiting) /\ \A k \in DOMAIN pending : pending[k].pane < next'
  BY Entries DEF ProgressOK
<1>2. PICK e : e = [target |-> Now.target, pane |-> p]
  OBVIOUS
<1>3. e \in Waiting /\ e.pane = p
  BY <1>2, NowIs DEF Waiting
<1>4. pending' = pending \/ pending' = Append(pending, e)
  BY <1>2 DEF Queue
<1>5. CASE pending' = Append(pending, e)
  <2>1. PICK q, f : q = pending' /\ f = pending
    OBVIOUS
  <2>2. /\ q \in Seq(Waiting) /\ Len(q) = Len(f) + 1 /\ DOMAIN q = 1 .. Len(q)
        /\ \A k \in 1 .. Len(f) : q[k] = f[k]
        /\ q[Len(f) + 1] = e
    BY <1>1, <1>3, <1>5, <2>1
  <2>3. \A k \in DOMAIN q : q[k].pane < next'
    BY <1>1, <1>3, <2>1, <2>2
  <2> QED  BY <2>1, <2>2, <2>3
<1> QED  BY <1>1, <1>4, <1>5

\* The panes of two entries differ.
Distinct(q) == \A j, k \in DOMAIN q : q[j].pane = q[k].pane => j = k

\* Some positions of a queue are picked, each of them once.
Portion(g, f, U) ==
    /\ \A k \in DOMAIN g : \E j \in U : g[k] = f[j]
    /\ \A j \in U : \E k \in DOMAIN g : g[k] = f[j]
    /\ Distinct(f) => Distinct(g)

LEMMA PortionIs ==
    ASSUME NEW f \in Seq(Waiting), NEW U, U \subseteq DOMAIN f, NEW g, g = Picked(f, U)
    PROVE  g \in Seq(Waiting) /\ Portion(g, f, U)
<1>1. DOMAIN f = 1 .. Len(f) /\ U \in SUBSET (1 .. Len(f))
  OBVIOUS
<1>2. g \in Seq(Waiting) /\ Picks(g, f, U)
  BY <1>1, PickedIs
<1>3. PICK from \in [1 .. Len(g) -> U] :
        /\ \A k \in 1 .. Len(g) : g[k] = f[from[k]]
        /\ \A k, l \in 1 .. Len(g) : from[k] = from[l] => k = l
        /\ \A x \in U : \E k \in 1 .. Len(g) : from[k] = x
  BY <1>2 DEF Picks
<1>4. DOMAIN g = 1 .. Len(g)
  BY <1>2
<1>5. \A k \in DOMAIN g : from[k] \in U /\ from[k] \in DOMAIN f /\ g[k] = f[from[k]]
  BY <1>3, <1>4
<1>6. Distinct(f) => Distinct(g)
  BY <1>3, <1>4, <1>5 DEF Distinct
<1>7. \A j \in U : \E k \in DOMAIN g : g[k] = f[j]
  BY <1>3, <1>4
<1> QED  BY <1>2, <1>5, <1>6, <1>7 DEF Portion

\* The positions of the panes whose window has settled.
Settling == {i \in DOMAIN pending : pending[i].target = Now.target}

LEMMA HandedOver ==
    ASSUME ProgressOK, HandOver
    PROVE  /\ pending' \in Seq(Waiting) /\ batch' \in Seq(Waiting)
           /\ Portion(batch', pending, Settling) /\ Portion(pending', pending, DOMAIN pending \ Settling)
<1>1. PICK f, S, T, g, h :
          f = pending /\ S = Settling /\ T = DOMAIN pending \ Settling /\ g = batch' /\ h = pending'
  OBVIOUS
<1>2. f \in Seq(Waiting) /\ S \subseteq DOMAIN f /\ T \subseteq DOMAIN f
  BY <1>1 DEF ProgressOK, Settling
<1>3. g = Picked(f, S) /\ h = Picked(f, T)
  BY <1>1 DEF HandOver, Settling
<1>4. g \in Seq(Waiting) /\ Portion(g, f, S)
  BY <1>2, <1>3, PortionIs
<1>5. h \in Seq(Waiting) /\ Portion(h, f, T)
  BY <1>2, <1>3, PortionIs
<1> QED  BY <1>1, <1>4, <1>5

\* How far a step of Apply takes the plan, and what it does to the queues.
Moves ==
    /\ UNCHANGED <<item, plan, try, phase, row>>
    /\ pos' = pos \/ (pos <= Len(plan) /\ pos' = pos + 1)
    /\ placing' \in {0, placing, next}
    /\ \/ UNCHANGED <<pending, batch>>
       \/ /\ pos <= Len(plan) /\ UNCHANGED batch
          /\ \E p \in Nat : p < next' /\ Queue(p)
       \/ HandOver
       \/ batch # <<>> /\ batch' = Tail(batch) /\ UNCHANGED pending

LEMMA ApplyMoves ==
    ASSUME ProgressOK, PlacingOK, ServerOK, ServerOK', Stays, ApplyStep
    PROVE  Moves
<1>1. UNCHANGED <<item, plan, try, phase, row>>
  BY DEF ApplyStep, CreateSession, MoveWindow, NewWindow, SplitPane, SetOption, SetLayout, ReopenBridge,
         Respawn, applying
<1>2. next \in Nat /\ placing \in Nat
  BY DEF ServerOK, ProgressOK
<1>3. ASSUME WindowFails, pos <= Len(plan), UNCHANGED batch PROVE Moves
  BY <1>1, <1>3 DEF WindowFails, Advance, Moves
<1>4. ASSUME NEW p \in Nat, p < next', WindowMade(p), pos <= Len(plan), UNCHANGED batch PROVE Moves
  BY <1>1, <1>4 DEF WindowMade, Advance, Moves
<1>5. CASE CreateSession
  <2>1. pos <= Len(plan) /\ UNCHANGED batch
    BY <1>5 DEF CreateSession, Applying
  <2>2. CASE WindowFails
    BY <1>3, <2>1, <2>2
  <2>3. CASE next' = next + 1 /\ WindowMade(next)
    BY <1>2, <1>4, <2>1, <2>3
  <2>4. CASE placing' = next /\ UNCHANGED <<pos, pending>>
    BY <1>1, <2>1, <2>4 DEF Moves
  <2> QED  BY <1>5, <2>2, <2>3, <2>4 DEF CreateSession, AddWindow
<1>6. CASE MoveWindow
  <2>1. pos <= Len(plan) /\ UNCHANGED batch /\ Now.op = "window" /\ placing # 0
    BY <1>6 DEF MoveWindow, Applying
  <2>2. CASE WindowFails
    BY <1>3, <2>1, <2>2
  <2>3. CASE WindowMade(placing) /\ UNCHANGED next
    <3>1. placing < next'
      BY <2>1, <2>3 DEF PlacingOK
    <3> QED  BY <1>2, <1>4, <2>1, <2>3, <3>1
  <2> QED  BY <1>6, <2>2, <2>3 DEF MoveWindow
<1>7. CASE NewWindow
  <2>1. pos <= Len(plan) /\ UNCHANGED batch
    BY <1>7 DEF NewWindow, Applying
  <2>2. CASE WindowFails
    BY <1>3, <2>1, <2>2
  <2>3. CASE next' = next + 1 /\ WindowMade(next)
    BY <1>2, <1>4, <2>1, <2>3
  <2>4. CASE Advance /\ UNCHANGED <<placing, pending>>
    BY <1>1, <2>1, <2>4 DEF Moves, Advance
  <2> QED  BY <1>7, <2>2, <2>3, <2>4 DEF NewWindow, AddWindow
<1>8. CASE SplitPane
  <2>1. pos <= Len(plan)
    BY <1>8 DEF SplitPane, Applying
  <2>2. CASE Skipped
    BY <1>1, <2>1, <2>2 DEF Skipped, Advance, Moves
  <2>3. CASE SplitNow
    <3>1. pos' = pos + 1 /\ UNCHANGED <<placing, batch>>
      BY <2>3 DEF SplitNow, Advance
    <3>2. CASE UNCHANGED pending
      BY <1>1, <2>1, <3>1, <3>2 DEF Moves
    <3>3. CASE next' = next + 1 /\ Queue(next)
      <4>1. next < next'
        BY <1>2, <3>3
      <4> QED  BY <1>1, <1>2, <2>1, <3>1, <3>3, <4>1 DEF Moves
    <3> QED  BY <2>3, <3>2, <3>3 DEF SplitNow, SplitInto
  <2> QED  BY <1>8, <2>2, <2>3 DEF SplitPane
<1>9. CASE SetOption
  BY <1>1, <1>9 DEF SetOption, Applying, Skipped, Advance, Moves
<1>10. CASE SetLayout
  BY <1>1, <1>10 DEF SetLayout, Applying, Skipped, Advance, SettleWindow, Moves
<1>11. CASE ReopenBridge
  BY <1>1, <1>11 DEF ReopenBridge, Applying, Advance, Moves
<1>12. CASE Respawn
  BY <1>1, <1>12 DEF Respawn, Moves
<1> QED  BY <1>5, <1>6, <1>7, <1>8, <1>9, <1>10, <1>11, <1>12 DEF ApplyStep

LEMMA ApplyProgress ==
    ASSUME ProgressOK, ServerOK, ServerOK', Stays, Moves
    PROVE  ProgressOK'
<1>1. /\ next \in Nat /\ placing \in Nat /\ pending \in Seq(Waiting) /\ batch \in Seq(Waiting)
      /\ phase \in {"idle", "apply", "done", "died"} /\ row \in BOOLEAN
  BY DEF ServerOK, ProgressOK
<1>2. placing' \in Nat
  BY <1>1 DEF Moves
<1>3. ASSUME pending' \in Seq(Waiting), batch' \in Seq(Waiting),
             \A k \in DOMAIN pending' : pending'[k].pane < next',
             \A k \in DOMAIN batch' : batch'[k].pane < next'
      PROVE  ProgressOK'
  BY <1>1, <1>2, <1>3, ProgressKept DEF Moves
<1>4. CASE UNCHANGED <<pending, batch>>
  BY <1>3, <1>4, QueuesKept
<1>5. CASE /\ pos <= Len(plan) /\ UNCHANGED batch
           /\ \E p \in Nat : p < next' /\ Queue(p)
  BY <1>1, <1>3, <1>5, Entries, Queued
<1>6. CASE HandOver
  <2>1. \A k \in DOMAIN pending : pending[k].pane < next'
    BY Entries
  <2>2. pending' \in Seq(Waiting) /\ batch' \in Seq(Waiting)
    BY <1>6, HandedOver
  <2>3. /\ \A k \in DOMAIN batch' : \E j \in Settling : batch'[k] = pending[j]
        /\ \A k \in DOMAIN pending' : \E j \in DOMAIN pending \ Settling : pending'[k] = pending[j]
    BY <1>6, HandedOver DEF Portion
  <2>4. Settling \subseteq DOMAIN pending
    BY DEF Settling
  <2> QED  BY <1>3, <2>1, <2>2, <2>3, <2>4
<1>7. CASE batch # <<>> /\ batch' = Tail(batch) /\ UNCHANGED pending
  <2>1. PICK f, g : f = batch /\ g = batch'
    OBVIOUS
  <2>2. g \in Seq(Waiting) /\ \A k \in DOMAIN g : k + 1 \in DOMAIN f /\ g[k] = f[k + 1]
    BY <1>1, <1>7, <2>1
  <2>3. \A k \in DOMAIN f : f[k].pane < next'
    BY <2>1, Entries
  <2>4. \A k \in DOMAIN g : g[k].pane < next'
    BY <2>2, <2>3
  <2>5. \A k \in DOMAIN pending' : pending'[k].pane < next'
    BY <1>7, Entries
  <2> QED  BY <1>1, <1>3, <1>7, <2>1, <2>2, <2>4, <2>5
<1> QED  BY <1>4, <1>5, <1>6, <1>7 DEF Moves

LEMMA NowKept ==
    ASSUME UNCHANGED <<pos, plan, try>>
    PROVE  Now' = Now /\ Origin' = Origin
BY DEF Now, Origin

LEMMA PlacingKept ==
    ASSUME PlacingOK, ProgressOK, ServerOK, ServerOK', Stays, UNCHANGED <<pos, plan, try, placing>>
    PROVE  PlacingOK'
<1> SUFFICES ASSUME placing # 0 PROVE PlacingOK'
  BY DEF PlacingOK
<1>1. /\ pos <= Len(plan) /\ Now.op = "window" /\ placing < next
      /\ placing \in DOMAIN windows => windows[placing].sess = Now.target.sess /\ windows[placing].from = Origin
  BY DEF PlacingOK
<1>2. Now' = Now /\ Origin' = Origin
  BY NowKept
<1>3. placing < next'
  BY <1>1 DEF Stays, ServerOK, ProgressOK
<1>4. placing \in DOMAIN windows' =>
        /\ placing \in DOMAIN windows
        /\ windows'[placing].sess = windows[placing].sess /\ windows'[placing].from = windows[placing].from
  BY <1>1 DEF Stays
<1> QED  BY <1>1, <1>2, <1>3, <1>4 DEF PlacingOK

LEMMA ApplyPlacing ==
    ASSUME ProgressOK, PlacingOK, ServerOK, ServerOK', Stays, ApplyStep
    PROVE  PlacingOK'
<1>1. CASE placing' = 0
  BY <1>1 DEF PlacingOK
<1>2. UNCHANGED <<plan, try>>
  BY DEF ApplyStep, CreateSession, MoveWindow, NewWindow, SplitPane, SetOption, SetLayout, ReopenBridge,
         Respawn, applying
<1>3. CASE CreateSession
  <2>1. CASE WindowFails \/ WindowMade(next)
    BY <1>1, <2>1 DEF WindowFails, WindowMade
  <2>2. CASE /\ AddWindow(windows, Now.target.sess, BaseIndex, NewName, Origin)
             /\ placing' = next /\ UNCHANGED pos
    <3>1. PICK vs, sess, idx, name, from :
              /\ vs = windows /\ sess = Now.target.sess /\ idx = BaseIndex
              /\ name = NewName /\ from = Origin
      OBVIOUS
    <3>2. AddWindow(vs, sess, idx, name, from) /\ Reindexed(vs, windows)
      BY <2>2, <3>1, LinedNow
    <3>3. /\ next' = next + 1 /\ next \in Nat
          /\ windows'[next].sess = sess /\ windows'[next].from = from
      <4>1. Added(vs, sess, idx, from) /\ next \in Nat
        BY <3>2, AddedIs DEF ServerOK
      <4> QED  BY <4>1 DEF Added
    <3>4. pos <= Len(plan) /\ Now.op = "window"
      BY <1>3 DEF CreateSession, Applying
    <3>5. Now' = Now /\ Origin' = Origin
      BY <1>2, <2>2, NowKept
    <3> QED  BY <1>2, <2>2, <3>1, <3>3, <3>4, <3>5 DEF PlacingOK
  <2> QED  BY <1>3, <2>1, <2>2 DEF CreateSession
<1>4. CASE MoveWindow
  BY <1>1, <1>4 DEF MoveWindow, WindowFails, WindowMade
<1>5. CASE Respawn
  BY <1>2, <1>5, PlacingKept DEF Respawn
<1>6. CASE placing = 0 /\ UNCHANGED placing
  BY <1>1, <1>6
<1>7. CASE NewWindow
  BY <1>1, <1>7 DEF NewWindow, WindowFails, WindowMade
<1>8. CASE SplitPane \/ SetOption \/ SetLayout \/ ReopenBridge
  <2>1. Now.op # "window" /\ UNCHANGED placing
    BY <1>8 DEF SplitPane, SetOption, SetLayout, ReopenBridge, Applying, Skipped, SplitNow
  <2> QED  BY <1>6, <2>1 DEF PlacingOK
<1> QED  BY <1>3, <1>4, <1>5, <1>7, <1>8 DEF ApplyStep

LEMMA StartPlan ==
    ASSUME ProgressOK, ServerOK, Start
    PROVE  /\ PlanOK'
           /\ item.kind = "snapshot" /\ item.cmd = "restore" =>
                plan' \in Seq(Steps) /\ AllAbout(plan', LiveSessions)
<1>1. plan' \in Plans /\ item' = item
  BY DEF Start
<1>2. PICK f : f = plan'
  OBVIOUS
<1>3. Given
  BY DEF ProgressOK
<1>4. CASE item.kind = "pane" /\ \E i \in ParentWindows : f = BuildPaneRestore(i)
  <2>1. PICK i \in ParentWindows : f = BuildPaneRestore(i)
    BY <1>4
  <2>2. i \in Nat \ {0}
    BY <2>1 DEF ParentWindows, ServerOK, WindowsOK
  <2>3. f \in Seq(Steps) /\ Sound(f) /\ Into(f, i)
    BY <1>3, <1>4, <2>1, <2>2, PaneRestoreIs
  <2>4. Into(plan, i)'
    BY <1>1, <1>2, <2>3 DEF Into, IdTarget, PanesIn
  <2>5. PlanOK'
    BY <1>1, <1>2, <1>4, <2>2, <2>3, <2>4 DEF PlanOK, ById
  <2> QED  BY <1>4, <2>5
<1>5. CASE \E R \in RunningSets : f = BuildPlan(R)
  <2>1. PICK running \in RunningSets : f = BuildPlan(running)
    BY <1>5
  <2>2. item.cmd = "restore" => running = LiveSessions
    BY <2>1 DEF RunningSets
  <2>3. f \in Seq(Steps) /\ Sound(f) /\ Rooted(f) /\ AllAbout(f, running)
    BY <1>3, <2>1, BuildPlanIs
  <2>4. \A x \in DOMAIN f : About(f[x], f[x].from[1], f[x].from[2])
    BY <2>3 DEF AllAbout
  <2>5. ASSUME NEW st, NEW s, NEW w
        PROVE  About(st, s, w)' <=> About(st, s, w)
    BY <1>1 DEF About, Wins, PanesIn, IndexTarget, KeptPanes, SkipPane
  <2>6. \A x \in DOMAIN f : About(f[x], f[x].from[1], f[x].from[2])'
    BY <2>4, <2>5
  <2>7. ByIndex'
    BY <1>2, <2>3, <2>6 DEF ByIndex
  <2>8. PlanOK'
    BY <1>2, <2>3, <2>7 DEF PlanOK
  <2> QED  BY <1>2, <2>2, <2>3, <2>8
<1> QED  BY <1>1, <1>2, <1>4, <1>5 DEF Plans

Basics == ProgressOK /\ PlacingOK /\ ServerOK

LEMMA BasicsInit == Init => Basics
<1> SUFFICES ASSUME Init PROVE Basics
  OBVIOUS
<1>1. ServerOK
  BY InitServer
<1>2. /\ Given /\ row = TRUE /\ phase = "idle" /\ try = 0 /\ plan = <<>> /\ pos = 1 /\ placing = 0
      /\ pending = <<>> /\ batch = <<>>
  BY DEF Init, Given
<1>3. PlanOK
  BY <1>2 DEF PlanOK, Sound, ByIndex, Rooted
<1>4. PlacingOK
  BY <1>2 DEF PlacingOK
<1>5. ProgressOK
  BY <1>2, <1>3 DEF ProgressOK
<1> QED  BY <1>1, <1>4, <1>5 DEF Basics

LEMMA BasicsNext == Basics /\ [Next]_vars => Basics' /\ Stays /\ item' = item
<1> SUFFICES ASSUME Basics, [Next]_vars PROVE Basics' /\ Stays /\ item' = item
  OBVIOUS
<1> USE DEF Basics
<1>1. CASE UNCHANGED vars
  <2>1. UNCHANGED <<live, item, row, phase, try, plan, pos, placing, pending, batch>>
    BY <1>1 DEF vars, progress
  <2>2. ServerOK' /\ Stays
    BY <2>1, LiveKept
  <2>3. PlacingOK'
    BY <2>1, <2>2, PlacingKept
  <2>4. phase' \in {"idle", "apply", "done", "died"} /\ row' \in BOOLEAN /\ placing' \in Nat
    BY <2>1 DEF ProgressOK
  <2>5. ProgressOK'
    BY <2>1, <2>2, <2>4, QueuesKept, ProgressKept
  <2> QED  BY <2>1, <2>2, <2>3, <2>5
<1>2. CASE Start
  <2>1. /\ UNCHANGED <<live, item, row>> /\ try' = try + 1 /\ phase' = "apply" /\ pos' = 1 /\ placing' = 0
        /\ pending' = <<>> /\ batch' = <<>>
    BY <1>2 DEF Start
  <2>2. ServerOK' /\ Stays
    BY <2>1, LiveKept
  <2>3. PlanOK'
    BY <1>2, StartPlan
  <2>4. Len(plan') \in Nat
    BY <2>3 DEF PlanOK
  <2>5. ProgressOK'
    BY <2>1, <2>3, <2>4 DEF ProgressOK, Given
  <2>6. PlacingOK'
    BY <2>1 DEF PlacingOK
  <2> QED  BY <2>1, <2>2, <2>5, <2>6
<1>3. CASE ApplyStep
  <2>1. ServerOK' /\ Stays
    BY <1>3, ApplyServer
  <2>2. Moves
    BY <1>3, <2>1, ApplyMoves
  <2>3. ProgressOK' /\ PlacingOK'
    BY <1>3, <2>1, <2>2, ApplyProgress, ApplyPlacing
  <2> QED  BY <2>1, <2>2, <2>3 DEF Moves
<1>4. CASE Finish \/ Die
  <2>1. /\ UNCHANGED <<live, item, try, plan, pos, placing, pending, batch>>
        /\ phase' \in {"done", "died"} /\ row' \in BOOLEAN
    BY <1>4 DEF Finish, Die, progress, ProgressOK
  <2>2. ServerOK' /\ Stays
    BY <2>1, LiveKept
  <2>3. PlacingOK'
    BY <2>1, <2>2, PlacingKept
  <2>4. placing' \in Nat /\ phase' \in {"idle", "apply", "done", "died"}
    BY <2>1 DEF ProgressOK
  <2>5. ProgressOK'
    BY <2>1, <2>2, <2>4, QueuesKept, ProgressKept
  <2> QED  BY <2>1, <2>2, <2>3, <2>5
<1>5. CASE UserStep
  <2>1. ServerOK' /\ Stays
    BY <1>5, UserServer
  <2>2. UNCHANGED <<item, row, phase, try, plan, pos, placing, pending, batch>>
    BY <1>5 DEF UserStep, UserSession, UserWindow, SelectPane, ClosePane, UserAct, progress
  <2>3. PlacingOK'
    BY <2>1, <2>2, PlacingKept
  <2>4. phase' \in {"idle", "apply", "done", "died"} /\ row' \in BOOLEAN /\ placing' \in Nat
    BY <2>2 DEF ProgressOK
  <2>5. ProgressOK'
    BY <2>1, <2>2, <2>4, QueuesKept, ProgressKept
  <2> QED  BY <2>1, <2>2, <2>3, <2>5
<1> QED  BY <1>1, <1>2, <1>3, <1>4, <1>5 DEF Next

\* In every reachable state what Apply has and what tmux has fit together:
\* active panes and panes are those of live windows, no two windows of a session
\* have one index, whatever is created, moved, renumbered or closed meanwhile.
THEOREM TypeCorrect == Spec => []TypeOK
<1>1. Init => Basics
  BY BasicsInit
<1>2. Basics /\ [Next]_vars => Basics'
  BY BasicsNext
<1>3. Basics => TypeOK
  <2> SUFFICES ASSUME Basics PROVE TypeOK
    OBVIOUS
  <2>1. \A q \in ToSet(pending) \union ToSet(batch) : q.pane < next
    BY DEF Basics, ProgressOK, ToSet
  <2>2. \A i \in DOMAIN windows : i < next /\ windows[i].active \in PanesOf(i)
    BY DEF Basics, ServerOK, WindowsOK, PanesOK, PanesOf
  <2>3. \A p \in DOMAIN panes : panes[p].win \in DOMAIN windows
    BY DEF Basics, ServerOK, PanesOK
  <2>4. \A i, j \in DOMAIN windows :
          i # j => <<windows[i].sess, windows[i].idx>> # <<windows[j].sess, windows[j].idx>>
    BY DEF Basics, ServerOK, WindowsOK, Apart
  <2>5. /\ phase \in {"idle", "apply", "done", "died"} /\ row \in BOOLEAN
        /\ pos \in 1 .. Len(plan) + 1 /\ next \in Nat
    BY DEF Basics, ProgressOK, ServerOK
  <2> QED  BY <2>1, <2>2, <2>3, <2>4, <2>5 DEF TypeOK
<1> QED  BY <1>1, <1>2, <1>3, PTL DEF Spec

-----------------------------------------------------------------------------
(* No pane twice *)

\* A step that makes no pane, and one that makes the pane of the plan's step.
NoneMade ==
    /\ DOMAIN panes' \subseteq DOMAIN panes
    /\ UNCHANGED <<plan, try, item>>
    /\ pos' = pos \/ pos' = pos + 1
    /\ placing # 0 => placing' = placing \/ pos' = pos + 1

OneMade ==
    /\ phase = "apply" /\ pos <= Len(plan) /\ Now.op \in Makes /\ placing = 0
    /\ UNCHANGED <<plan, try, item>>
    /\ next \notin DOMAIN panes /\ DOMAIN panes' = DOMAIN panes \cup {next} /\ next < next'
    /\ panes'[next].from = Origin /\ panes'[next].win \in DOMAIN windows'
    /\ Now.target.id = 0 => windows'[panes'[next].win].sess = Now.target.sess
    /\ pos' = pos + 1 \/ (pos' = pos /\ placing' # 0)

LEMMA ApplyMakes ==
    ASSUME Basics, Basics', ApplyStep
    PROVE  NoneMade \/ OneMade
<1>1. UNCHANGED <<plan, try, item>> /\ phase = "apply"
  BY DEF ApplyStep, Applying, CreateSession, MoveWindow, NewWindow, SplitPane, SetOption, SetLayout, ReopenBridge,
         Respawn, applying
<1>2. ProgressOK /\ PlacingOK /\ ServerOK /\ ServerOK' /\ next \in Nat \ {0} /\ pos \in Nat
  BY DEF Basics, ServerOK, ProgressOK
<1>3. ASSUME UNCHANGED panes, pos' = pos + 1 PROVE NoneMade
  BY <1>1, <1>3 DEF NoneMade
<1>4. ASSUME NEW vs, NEW sess, NEW idx, NEW name, NEW from, Reindexed(vs, windows),
             AddWindow(vs, sess, idx, name, from), sess = Now.target.sess, from = Origin,
             pos <= Len(plan), Now.op = "window", placing = 0,
             pos' = pos + 1 \/ (pos' = pos /\ placing' = next)
      PROVE  OneMade
  <2>1. /\ next' = next + 1 /\ next \notin DOMAIN panes
        /\ DOMAIN windows' = DOMAIN windows \cup {next} /\ windows'[next].sess = sess
        /\ DOMAIN panes' = DOMAIN panes \cup {next}
        /\ panes'[next].win = next /\ panes'[next].from = from
    <3>1. Added(vs, sess, idx, from)
      BY <1>2, <1>4, AddedIs
    <3> QED  BY <3>1 DEF Added
  <2> QED  BY <1>1, <1>2, <1>4, <2>1 DEF OneMade, Makes
<1>5. CASE CreateSession
  <2>1. pos <= Len(plan) /\ Now.op = "window" /\ placing = 0
    BY <1>5 DEF CreateSession, Applying
  <2>2. CASE UNCHANGED live /\ WindowFails
    BY <1>3, <2>2 DEF live, WindowFails, Advance
  <2>3. CASE /\ AddWindow(windows, Now.target.sess, BaseIndex, NewName, Origin)
             /\ WindowFails \/ WindowMade(next) \/ (placing' = next /\ UNCHANGED pos)
    <3>1. PICK vs, sess, idx, name, from :
              /\ vs = windows /\ sess = Now.target.sess /\ idx = BaseIndex
              /\ name = NewName /\ from = Origin
      OBVIOUS
    <3>2. AddWindow(vs, sess, idx, name, from) /\ Reindexed(vs, windows)
      BY <1>2, <2>3, <3>1, LinedNow
    <3>3. pos' = pos + 1 \/ (pos' = pos /\ placing' = next)
      BY <2>3 DEF WindowFails, WindowMade, Advance
    <3> QED  BY <1>4, <2>1, <3>1, <3>2, <3>3
  <2> QED  BY <1>5, <2>2, <2>3 DEF CreateSession
<1>6. CASE MoveWindow
  <2>1. UNCHANGED panes /\ pos' = pos + 1
    BY <1>6 DEF MoveWindow, WindowFails, WindowMade, Advance, live
  <2> QED  BY <1>3, <2>1
<1>7. CASE NewWindow
  <2>1. pos <= Len(plan) /\ Now.op = "window" /\ placing = 0
    BY <1>7 DEF NewWindow, Applying
  <2>2. CASE UNCHANGED live /\ WindowFails
    BY <1>3, <2>2 DEF live, WindowFails, Advance
  <2>3. CASE /\ AddWindow(Shifted(Now.target), Now.target.sess, Now.target.idx, NewName, Origin)
             /\ WindowMade(next) \/ Advance
    <3>1. PICK target, vs, sess, idx, name, from :
              /\ target = Now.target /\ vs = Shifted(target) /\ sess = target.sess /\ idx = target.idx
              /\ name = NewName /\ from = Origin
      OBVIOUS
    <3>2. AddWindow(vs, sess, idx, name, from)
      BY <2>3, <3>1
    <3>3. target.idx \in Nat /\ Lined(windows)
      BY <1>2, <2>1, <3>1, NowIs, LinedNow
    <3>4. Reindexed(vs, windows)
      BY <3>1, <3>3, ShiftedIs
    <3>5. pos' = pos + 1
      BY <2>3 DEF WindowMade, Advance
    <3> QED  BY <1>4, <2>1, <3>1, <3>2, <3>4, <3>5
  <2> QED  BY <1>7, <2>2, <2>3 DEF NewWindow
<1>8. CASE SplitPane
  <2>1. pos <= Len(plan) /\ Now.op = "split" /\ pos' = pos + 1
    BY <1>8 DEF SplitPane, Applying, Skipped, SplitNow, Advance
  <2>2. placing = 0
    BY <1>2, <2>1 DEF PlacingOK
  <2>3. CASE UNCHANGED live
    BY <1>3, <2>1, <2>3 DEF live
  <2>4. CASE \E w \in At(Now.target) : SplitInto(w)
    <3>1. PICK w \in At(Now.target) : SplitInto(w)
      BY <2>4
    <3>2. PICK from : from = Origin
      OBVIOUS
    <3>3. w \in DOMAIN windows /\ (Now.target.id = 0 => windows[w].sess = Now.target.sess)
      BY <3>1 DEF At
    <3>4. /\ windows' = [windows EXCEPT ![w].active = next] /\ next' = next + 1
          /\ panes' = With(panes, next, [win |-> w, from |-> from, runs |-> 0, opts |-> Nobody])
      BY <3>1, <3>2 DEF SplitInto
    <3>5. /\ next \notin DOMAIN panes /\ DOMAIN windows' = DOMAIN windows
          /\ windows'[w].sess = windows[w].sess
          /\ DOMAIN panes' = DOMAIN panes \cup {next}
          /\ panes'[next].win = w /\ panes'[next].from = from
      BY <1>2, <3>3, <3>4, SplitIs
    <3> QED  BY <1>1, <1>2, <2>1, <2>2, <3>2, <3>3, <3>4, <3>5 DEF OneMade, Makes
  <2> QED  BY <1>8, <2>3, <2>4 DEF SplitPane, Skipped, SplitNow
<1>9. CASE SetOption
  <2>1. pos' = pos + 1 /\ DOMAIN panes' \subseteq DOMAIN panes
    BY <1>9 DEF SetOption, Skipped, Advance, live
  <2> QED  BY <1>1, <2>1 DEF NoneMade
<1>10. CASE SetLayout \/ ReopenBridge
  BY <1>3, <1>10 DEF SetLayout, ReopenBridge, Skipped, Advance, live
<1>11. CASE Respawn
  <2>1. UNCHANGED <<pos, placing>> /\ DOMAIN panes' \subseteq DOMAIN panes
    BY <1>11 DEF Respawn
  <2> QED  BY <1>1, <2>1 DEF NoneMade
<1> QED  BY <1>5, <1>6, <1>7, <1>8, <1>9, <1>10, <1>11 DEF ApplyStep

\* Panes of this attempt come from the steps taken.
FromPlan ==
    \A p \in DOMAIN panes :
        /\ panes[p].from = Nobody \/ panes[p].from[1] \in 1 .. try
        /\ panes[p].from[1] = try /\ try # 0 =>
             \E x \in DOMAIN plan :
                 /\ plan[x].op \in Makes
                 /\ panes[p].from = <<try, plan[x].from[1], plan[x].from[2], plan[x].from[3]>>
                 /\ x < pos \/ (x = pos /\ placing # 0)

\* What users make is nobody's.
LEMMA UserMakes ==
    ASSUME ServerOK, UserStep
    PROVE  \A p \in DOMAIN panes' : p \in DOMAIN panes \/ panes'[p].from = Nobody
<1> SUFFICES ASSUME NEW p \in DOMAIN panes', p \notin DOMAIN panes
             PROVE  panes'[p].from = Nobody
  OBVIOUS
<1>1. PICK n, k, name, from : AddWindow(windows, n, k, name, from) /\ from = Nobody
  <2>1. CASE UserSession
    BY <2>1 DEF UserSession
  <2>2. CASE UserWindow
    BY <2>2 DEF UserWindow
  <2>3. CASE SelectPane
    BY <2>3 DEF SelectPane
  <2>4. CASE ClosePane
    BY <2>4, CloseStays
  <2> QED  BY <2>1, <2>2, <2>3, <2>4 DEF UserStep
<1>2. PICK vs : vs = windows
  OBVIOUS
<1>3. AddWindow(vs, n, k, name, from) /\ Reindexed(vs, windows)
  BY <1>1, <1>2, LinedNow
<1>4. Added(vs, n, k, from)
  BY <1>3, AddedIs
<1> QED  BY <1>1, <1>4 DEF Added

LEMMA FromPlanNext == Basics /\ FromPlan /\ [Next]_vars => FromPlan'
<1> SUFFICES ASSUME Basics, FromPlan, [Next]_vars, NEW p \in DOMAIN panes'
             PROVE  /\ panes'[p].from = Nobody \/ panes'[p].from[1] \in 1 .. try'
                    /\ panes'[p].from[1] = try' /\ try' # 0 =>
                         \E x \in DOMAIN plan' :
                             /\ plan'[x].op \in Makes
                             /\ panes'[p].from =
                                  <<try', plan'[x].from[1], plan'[x].from[2], plan'[x].from[3]>>
                             /\ x < pos' \/ (x = pos' /\ placing' # 0)
  BY DEF FromPlan
<1>1. Basics' /\ Stays
  BY BasicsNext
<1>2. try \in Nat /\ pos \in Nat /\ next \in Nat /\ placing \in Nat
  BY DEF Basics, ProgressOK, ServerOK
<1>3. p \in DOMAIN panes => panes'[p].from = panes[p].from
  <2>1. p \in DOMAIN panes => p < next
    BY DEF Basics, ServerOK, PanesOK
  <2> QED  BY <1>1, <2>1 DEF Stays
<1>4. p \in DOMAIN panes =>
        /\ panes[p].from = Nobody \/ panes[p].from[1] \in 1 .. try
        /\ panes[p].from[1] = try /\ try # 0 =>
             \E x \in DOMAIN plan :
                 /\ plan[x].op \in Makes
                 /\ panes[p].from = <<try, plan[x].from[1], plan[x].from[2], plan[x].from[3]>>
                 /\ x < pos \/ (x = pos /\ placing # 0)
  BY DEF FromPlan
<1>5. CASE NoneMade
  <2>1. p \in DOMAIN panes /\ UNCHANGED <<plan, try>>
    BY <1>5 DEF NoneMade
  <2>2. ASSUME NEW x \in DOMAIN plan, x < pos \/ (x = pos /\ placing # 0)
        PROVE  x < pos' \/ (x = pos' /\ placing' # 0)
    <3>1. x \in Nat
      BY DEF Basics, ProgressOK, PlanOK
    <3> QED  BY <1>2, <1>5, <2>2, <3>1 DEF NoneMade
  <2> QED  BY <1>3, <1>4, <2>1, <2>2
<1>6. CASE OneMade
  <2>1. UNCHANGED <<plan, try>> /\ placing = 0 /\ (p \in DOMAIN panes \/ p = next)
    BY <1>6 DEF OneMade
  <2>2. CASE p \in DOMAIN panes
    <3>1. ASSUME NEW x \in DOMAIN plan, x < pos PROVE x < pos'
      <4>1. x \in Nat
        BY DEF Basics, ProgressOK, PlanOK
      <4> QED  BY <1>2, <1>6, <3>1, <4>1 DEF OneMade
    <3> QED  BY <1>3, <1>4, <2>1, <2>2, <3>1
  <2>3. CASE p = next
    <3>1. ProgressOK /\ pos <= Len(plan)
      BY <1>6 DEF Basics, OneMade
    <3>2. /\ pos \in DOMAIN plan /\ Now = plan[pos]
          /\ Origin = <<try, Now.from[1], Now.from[2], Now.from[3]>>
      BY <3>1, NowIs
    <3>3. panes'[p].from = <<try, plan[pos].from[1], plan[pos].from[2], plan[pos].from[3]>>
      BY <1>6, <2>3, <3>2 DEF OneMade
    <3>4. plan[pos].op \in Makes /\ (pos < pos' \/ (pos = pos' /\ placing' # 0))
      BY <1>2, <1>6, <3>2 DEF OneMade
    <3>5. panes'[p].from[1] = try
      BY <3>3
    <3>6. panes'[p].from[1] \in 1 .. try
      <4>1. try # 0
        BY <1>6 DEF OneMade, Basics, ProgressOK
      <4> QED  BY <1>2, <3>5, <4>1
    <3> QED  BY <1>2, <2>1, <3>2, <3>3, <3>4, <3>6
  <2> QED  BY <2>1, <2>2, <2>3
<1>7. CASE Start
  <2>1. UNCHANGED panes /\ try' = try + 1
    BY <1>7 DEF Start, live
  <2>2. panes'[p].from = Nobody \/ panes'[p].from[1] \in 1 .. try
    BY <1>4, <2>1
  <2> QED  BY <1>2, <2>1, <2>2, NobodyIs
<1>8. CASE UserStep
  <2>1. UNCHANGED <<plan, try, pos, placing>>
    BY <1>8 DEF UserStep, UserSession, UserWindow, SelectPane, ClosePane, UserAct, progress
  <2>2. CASE p \in DOMAIN panes
    BY <1>3, <1>4, <2>1, <2>2
  <2>3. CASE p \notin DOMAIN panes
    <3>1. panes'[p].from = Nobody
      BY <1>8, <2>3, UserMakes DEF Basics
    <3> QED  BY <1>2, <2>1, <3>1, NobodyIs
  <2> QED  BY <2>2, <2>3
<1>9. CASE UNCHANGED vars \/ Finish \/ Die
  <2>1. UNCHANGED <<panes, plan, try, pos, placing, item>>
    BY <1>9 DEF vars, Finish, Die, live, progress
  <2> QED  BY <1>5, <2>1 DEF NoneMade
<1>10. CASE ApplyStep
  BY <1>1, <1>5, <1>6, <1>10, ApplyMakes
<1> QED  BY <1>7, <1>8, <1>9, <1>10 DEF Next

Alike(f, g) == f[2] = g[2] /\ f[3] = g[3] /\ f[4] = g[4]

\* Restored panes of a snapshot are in sessions of the names they had, the
\* plan is about other sessions than those restored before, and no two panes
\* are of one recorded pane.
Once ==
    item.kind = "snapshot" /\ item.cmd = "restore" =>
        /\ \A p \in DOMAIN panes : panes[p].from # Nobody =>
             /\ panes[p].from[2] \in DOMAIN item.sessions
             /\ windows[panes[p].win].sess = item.sessions[panes[p].from[2]].name
        /\ \A p \in DOMAIN panes : panes[p].from # Nobody /\ panes[p].from[1] # try =>
             \A x \in DOMAIN plan : plan[x].from[1] # panes[p].from[2]
        /\ \A p, q \in DOMAIN panes :
             p # q /\ panes[p].from # Nobody /\ panes[q].from # Nobody => ~Alike(panes[p].from, panes[q].from)

\* What a pane there was before is like afterwards.
LEMMA OldPane ==
    ASSUME Basics, Basics', Stays, NEW p \in DOMAIN panes', p < next
    PROVE  /\ p \in DOMAIN panes /\ panes'[p].from = panes[p].from /\ panes'[p].win = panes[p].win
           /\ windows'[panes'[p].win].sess = windows[panes[p].win].sess
<1>1. p \in DOMAIN panes /\ panes'[p].from = panes[p].from /\ panes'[p].win = panes[p].win
  BY DEF Stays
<1>2. panes'[p].win \in DOMAIN windows'
  BY DEF Basics, ServerOK, PanesOK
<1>3. panes[p].win < next
  BY <1>1 DEF Basics, ServerOK, PanesOK, WindowsOK
<1> QED  BY <1>1, <1>2, <1>3 DEF Stays

LEMMA OnceNext ==
    ASSUME SkipRunning
    PROVE  Basics /\ FromPlan /\ Once /\ [Next]_vars => Once'
<1> SUFFICES ASSUME Basics, FromPlan, Once, [Next]_vars, item.kind = "snapshot", item.cmd = "restore"
             PROVE  Once'
  <2>1. Basics /\ [Next]_vars => item' = item
    BY BasicsNext
  <2> QED  BY <2>1 DEF Once
<1>1. Basics' /\ Stays /\ item' = item /\ FromPlan'
  BY BasicsNext, FromPlanNext
<1>2. /\ try \in Nat /\ next \in Nat
      /\ \A p \in DOMAIN panes : p \in Nat /\ p < next /\ panes[p].from \in Origins
  <2>1. \A p \in DOMAIN panes : panes[p] \in LivePane
    BY DEF Basics, ServerOK, PanesOK
  <2> QED  BY <2>1 DEF Basics, ProgressOK, ServerOK, PanesOK, LivePane
<1>3. /\ \A p \in DOMAIN panes : panes[p].from # Nobody =>
           /\ panes[p].from[2] \in DOMAIN item.sessions
           /\ windows[panes[p].win].sess = item.sessions[panes[p].from[2]].name
      /\ \A p \in DOMAIN panes : panes[p].from # Nobody /\ panes[p].from[1] # try =>
           \A x \in DOMAIN plan : plan[x].from[1] # panes[p].from[2]
      /\ \A p, q \in DOMAIN panes :
           p # q /\ panes[p].from # Nobody /\ panes[q].from # Nobody => ~Alike(panes[p].from, panes[q].from)
  BY DEF Once
<1>4. \A p \in DOMAIN panes' : p \in DOMAIN panes =>
         /\ panes'[p].from = panes[p].from
         /\ windows'[panes'[p].win].sess = windows[panes[p].win].sess
  BY <1>1, <1>2, OldPane
\* A step whose new panes are the users' keeps it, unless it changes the plan.
<1>5. ASSUME UNCHANGED <<plan, try>>,
             \A p \in DOMAIN panes' : p \in DOMAIN panes \/ panes'[p].from = Nobody
      PROVE  Once'
  <2>1. \A p \in DOMAIN panes' : panes'[p].from # Nobody =>
          /\ p \in DOMAIN panes /\ panes'[p].from = panes[p].from
          /\ windows'[panes'[p].win].sess = windows[panes[p].win].sess
    BY <1>4, <1>5
  <2> QED  BY <1>1, <1>3, <1>5, <2>1 DEF Once
<1>6. CASE NoneMade
  BY <1>5, <1>6 DEF NoneMade
<1>7. CASE OneMade
  <2>1. /\ ProgressOK /\ pos <= Len(plan) /\ Now.op \in Makes /\ placing = 0 /\ UNCHANGED <<plan, try>>
        /\ DOMAIN panes' = DOMAIN panes \cup {next} /\ panes'[next].from = Origin
        /\ Now.target.id = 0 => windows'[panes'[next].win].sess = Now.target.sess
    BY <1>7 DEF OneMade, Basics
  <2>2. /\ pos \in DOMAIN plan /\ Now = plan[pos] /\ Now \in Steps
        /\ Origin = <<try, Now.from[1], Now.from[2], Now.from[3]>>
    BY <2>1, NowIs
  <2>3. About(Now, Now.from[1], Now.from[2]) /\ Sound(plan)
    <3>1. ~ById
      BY DEF ById
    <3> QED  BY <2>1, <2>2, <3>1 DEF ProgressOK, PlanOK, ByIndex
  <2>4. PICK s, w, c : s = Now.from[1] /\ w = Now.from[2] /\ c = Now.from[3]
    OBVIOUS
  <2>5. s \in DOMAIN item.sessions /\ Now.target.id = 0 /\ Now.target.sess = item.sessions[s].name
    BY <2>3, <2>4 DEF About, IndexTarget
  <2>6. panes'[next].from = <<try, s, w, c>>
    BY <2>1, <2>2, <2>4
  <2>7. ASSUME NEW p \in DOMAIN panes, panes[p].from # Nobody
        PROVE  ~Alike(panes[p].from, <<try, s, w, c>>)
    <3>1. CASE panes[p].from[1] # try
      BY <1>3, <2>2, <2>4, <2>7, <3>1 DEF Alike
    <3>2. CASE panes[p].from[1] = try
      <4>1. try # 0
        BY <1>7 DEF OneMade, Basics, ProgressOK
      <4>2. PICK x \in DOMAIN plan : /\ plan[x].op \in Makes /\ x < pos
                                     /\ panes[p].from = <<try, plan[x].from[1], plan[x].from[2], plan[x].from[3]>>
        BY <2>1, <3>2, <4>1 DEF FromPlan
      <4>3. x # pos /\ plan[x].from # plan[pos].from
        <5>1. x \in Nat /\ pos \in Nat
          BY <2>1 DEF ProgressOK, PlanOK
        <5> QED  BY <2>1, <2>2, <2>3, <4>2, <5>1 DEF Sound
      <4>4. plan[x].from \in Froms /\ plan[pos].from \in Froms
        <5>1. plan[x] \in Steps /\ plan[pos] \in Steps
          BY <2>1, <2>2 DEF ProgressOK, PlanOK
        <5> QED  BY <5>1 DEF Steps
      <4>5. PICK f, g : f = plan[x].from /\ g = plan[pos].from
        OBVIOUS
      <4>6. f \in Froms /\ g \in Froms /\ f # g
        BY <4>3, <4>4, <4>5
      <4>7. ~(f[1] = g[1] /\ f[2] = g[2] /\ f[3] = g[3])
        BY <4>6 DEF Froms
      <4>8. panes[p].from = <<try, f[1], f[2], f[3]>> /\ g[1] = s /\ g[2] = w /\ g[3] = c
        BY <2>2, <2>4, <4>2, <4>5
      <4> QED  BY <4>7, <4>8 DEF Alike
    <3> QED  BY <3>1, <3>2
  <2>8. \A p \in DOMAIN panes' : panes'[p].from # Nobody =>
          /\ panes'[p].from[2] \in DOMAIN item.sessions
          /\ windows'[panes'[p].win].sess = item.sessions[panes'[p].from[2]].name
    <3> SUFFICES ASSUME NEW p \in DOMAIN panes', panes'[p].from # Nobody
                 PROVE  /\ panes'[p].from[2] \in DOMAIN item.sessions
                        /\ windows'[panes'[p].win].sess = item.sessions[panes'[p].from[2]].name
      OBVIOUS
    <3>1. CASE p \in DOMAIN panes
      BY <1>3, <1>4, <3>1
    <3>2. CASE p = next
      <4>1. panes'[p].from[2] = s
        BY <2>6, <3>2
      <4> QED  BY <2>1, <2>5, <3>2, <4>1
    <3> QED  BY <2>1, <3>1, <3>2
  <2>9. \A p \in DOMAIN panes' : panes'[p].from # Nobody /\ panes'[p].from[1] # try =>
          \A x \in DOMAIN plan : plan[x].from[1] # panes'[p].from[2]
    <3>1. panes'[next].from[1] = try
      BY <2>6
    <3> QED  BY <1>3, <1>4, <2>1, <3>1
  <2>10. ASSUME NEW p \in DOMAIN panes', NEW q \in DOMAIN panes', p # q,
                panes'[p].from # Nobody, panes'[q].from # Nobody
         PROVE  ~Alike(panes'[p].from, panes'[q].from)
    <3>1. CASE p \in DOMAIN panes /\ q \in DOMAIN panes
      BY <1>3, <1>4, <2>10, <3>1
    <3>2. CASE p \in DOMAIN panes /\ q = next
      BY <1>4, <2>6, <2>7, <2>10, <3>2
    <3>3. CASE p = next /\ q \in DOMAIN panes
      <4>1. ~Alike(panes[q].from, <<try, s, w, c>>)
        BY <1>4, <2>7, <2>10, <3>3
      <4> QED  BY <1>4, <2>6, <3>3, <4>1 DEF Alike
    <3> QED  BY <2>1, <2>10, <3>1, <3>2, <3>3
  <2> QED  BY <1>1, <2>1, <2>8, <2>9, <2>10 DEF Once
<1>8. CASE Start
  <2>1. UNCHANGED live /\ try' = try + 1
    BY <1>8 DEF Start
  <2>2. UNCHANGED <<windows, panes>>
    BY <2>1 DEF live
  <2>3. plan' \in Seq(Steps) /\ AllAbout(plan', LiveSessions)
    BY <1>8, StartPlan DEF Basics
  <2>4. ASSUME NEW p \in DOMAIN panes, panes[p].from # Nobody, NEW x \in DOMAIN plan'
        PROVE  plan'[x].from[1] # panes[p].from[2]
    <3>1. PICK s : s = panes[p].from[2]
      OBVIOUS
    <3>2. s \in DOMAIN item.sessions /\ windows[panes[p].win].sess = item.sessions[s].name
      BY <1>3, <2>4, <3>1
    <3>3. panes[p].win \in DOMAIN windows
      BY DEF Basics, ServerOK, PanesOK
    <3>4. item.sessions[s].name \in LiveSessions
      BY <3>2, <3>3 DEF LiveSessions
    <3>5. SkipSession(item.sessions[s], LiveSessions)
      BY <3>4 DEF SkipSession
    <3>6. ~SkipSession(item.sessions[plan'[x].from[1]], LiveSessions)
      BY <2>3, <2>4 DEF AllAbout
    <3> QED  BY <3>1, <3>5, <3>6
  <2> QED  BY <1>1, <1>3, <2>2, <2>4 DEF Once
<1>9. CASE UserStep
  <2>1. UNCHANGED <<plan, try>>
    BY <1>9 DEF UserStep, UserSession, UserWindow, SelectPane, ClosePane, UserAct, progress
  <2>2. \A p \in DOMAIN panes' : p \in DOMAIN panes \/ panes'[p].from = Nobody
    BY <1>9, UserMakes DEF Basics
  <2> QED  BY <1>5, <2>1, <2>2
<1>10. CASE UNCHANGED vars \/ Finish \/ Die
  <2>1. UNCHANGED <<panes, plan, try>>
    BY <1>10 DEF vars, Finish, Die, live, progress
  <2> QED  BY <1>5, <2>1
<1>11. CASE ApplyStep
  BY <1>1, <1>6, <1>7, <1>11, ApplyMakes
<1> QED  BY <1>8, <1>9, <1>10, <1>11 DEF Next

LEMMA LastThree ==
    ASSUME NEW a \in Nat, NEW b \in Nat, NEW c \in Nat, NEW d \in Nat
    PROVE  SubSeq(<<a, b, c, d>>, 2, 4) = <<b, c, d>>
<1>1. PICK f : f = <<a, b, c, d>>
  OBVIOUS
<1>2. f \in Seq(Nat) /\ Len(f) = 4 /\ f[2] = b /\ f[3] = c /\ f[4] = d
  BY <1>1
<1>3. PICK g : g = SubSeq(f, 2, 4)
  OBVIOUS
<1>4. g \in Seq(Nat) /\ Len(g) = 3 /\ g[1] = f[2] /\ g[2] = f[3] /\ g[3] = f[4]
  BY <1>2, <1>3
<1>5. g = <<b, c, d>>
  BY <1>2, <1>4
<1> QED  BY <1>1, <1>3, <1>5

\* Restoring a snapshot again, after an attempt that failed part-way or was
\* killed, brings no pane back a second time, if running sessions are skipped
\* (skip_existing, the default): each session some pane of which was restored
\* still has its name, and so the plan leaves it out.
THEOREM NotTwiceCorrect ==
    ASSUME SkipRunning
    PROVE  Spec => []NotTwice
<1>1. Init => Basics /\ FromPlan /\ Once
  <2> SUFFICES ASSUME Init PROVE Basics /\ FromPlan /\ Once
    OBVIOUS
  <2>1. Basics /\ \A p \in DOMAIN panes : panes[p].from = Nobody
    BY BasicsInit, InitServer
  <2>2. try = 0
    BY DEF Init
  <2> QED  BY <2>1, <2>2 DEF FromPlan, Once
<1>2. Basics /\ FromPlan /\ Once /\ [Next]_vars => Basics' /\ FromPlan' /\ Once'
  BY BasicsNext, FromPlanNext, OnceNext
<1>3. Basics /\ Once => NotTwice
  <2> SUFFICES ASSUME Basics, Once, item.cmd = "restore", NEW p \in DOMAIN panes, NEW q \in DOMAIN panes,
                      p # q, panes[p].from # Nobody, panes[q].from # Nobody
               PROVE  SubSeq(panes[p].from, 2, 4) # SubSeq(panes[q].from, 2, 4)
    BY DEF NotTwice
  <2>0. item.kind = "snapshot"
    BY RestoreAssumption DEF Basics, ProgressOK, Given
  <2>1. ~Alike(panes[p].from, panes[q].from)
    BY <2>0 DEF Once
  <2>2. panes[p].from \in Origins /\ panes[q].from \in Origins
    <3>1. panes[p] \in LivePane /\ panes[q] \in LivePane
      BY DEF Basics, ServerOK, PanesOK
    <3> QED  BY <3>1 DEF LivePane
  <2>3. PICK f, g : f = panes[p].from /\ g = panes[q].from
    OBVIOUS
  <2>4. PICK a1 \in Nat, b1 \in Nat, c1 \in Nat, d1 \in Nat : f = <<a1, b1, c1, d1>>
    BY <2>2, <2>3 DEF Origins
  <2>5. PICK a2 \in Nat, b2 \in Nat, c2 \in Nat, d2 \in Nat : g = <<a2, b2, c2, d2>>
    BY <2>2, <2>3 DEF Origins
  <2>6. SubSeq(f, 2, 4) = <<b1, c1, d1>> /\ SubSeq(g, 2, 4) = <<b2, c2, d2>>
    BY <2>4, <2>5, LastThree
  <2>7. ~(b1 = b2 /\ c1 = c2 /\ d1 = d2)
    BY <2>1, <2>3, <2>4, <2>5 DEF Alike
  <2>8. <<b1, c1, d1>> # <<b2, c2, d2>>
    BY <2>7
  <2>9. SubSeq(f, 2, 4) # SubSeq(g, 2, 4)
    BY <2>6, <2>8
  <2> QED  BY <2>3, <2>9
<1> QED  BY <1>1, <1>2, <1>3, PTL DEF Spec

-----------------------------------------------------------------------------
(* Own windows *)

Near(f, g) == f[1] = g[1] /\ f[2] = g[2] /\ f[3] = g[3]

\* The window a step of the plan made is where the step put it.
Made(x) ==
    \E i \in DOMAIN windows :
        /\ windows[i].sess = plan[x].target.sess /\ windows[i].idx = plan[x].target.idx
        /\ windows[i].from[1] = try
        /\ windows[i].from[2] = plan[x].from[1] /\ windows[i].from[3] = plan[x].from[2]

\* Windows stay where they are.
Firm ==
    \A i \in DOMAIN windows :
        i \in DOMAIN windows' /\ windows'[i].sess = windows[i].sess /\ windows'[i].idx = windows[i].idx
        /\ windows'[i].from = windows[i].from

\* A plan makes each window once.
LEMMA WindowStepsDiffer ==
    ASSUME ProgressOK, NEW x \in DOMAIN plan, NEW y \in DOMAIN plan,
           plan[x].op = "window", plan[y].op = "window",
           \/ plan[x].from[1] = plan[y].from[1] /\ plan[x].from[2] = plan[y].from[2]
           \/ plan[x].target = plan[y].target
           \/ item.kind \in {"window", "pane"}
    PROVE  x = y
<1>1. /\ About(plan[x], plan[x].from[1], plan[x].from[2]) /\ About(plan[y], plan[y].from[1], plan[y].from[2])
      /\ Given /\ Sound(plan)
  BY WindowStepIs DEF ProgressOK, PlanOK
<1>2. PICK s, w, t, v : s = plan[x].from[1] /\ w = plan[x].from[2] /\ t = plan[y].from[1] /\ v = plan[y].from[2]
  OBVIOUS
<1>3. /\ s \in DOMAIN item.sessions /\ w \in DOMAIN Wins(s) /\ t \in DOMAIN item.sessions /\ v \in DOMAIN Wins(t)
      /\ plan[x].target = IndexTarget(s, w) /\ plan[y].target = IndexTarget(t, v)
      /\ plan[x].from[3] = KeptPanes(Wins(s)[w])[1] /\ plan[y].from[3] = KeptPanes(Wins(t)[v])[1]
  BY <1>1, <1>2 DEF About
<1>4. s = t /\ w = v
  <2>1. CASE plan[x].from[1] = plan[y].from[1] /\ plan[x].from[2] = plan[y].from[2]
    BY <1>2, <2>1
  <2>2. CASE plan[x].target = plan[y].target
    <3>1. IndexTarget(s, w) = IndexTarget(t, v)
      BY <1>3, <2>2
    <3>2. s \in DOMAIN item.sessions /\ w \in DOMAIN Wins(s)
      BY <1>3
    <3>3. t \in DOMAIN item.sessions /\ v \in DOMAIN Wins(t)
      BY <1>3
    <3> QED  BY <1>1, <3>1, <3>2, <3>3, TargetsDiffer
  <2>3. CASE item.kind \in {"window", "pane"}
    <3>1. item.kind # "snapshot"
      BY <2>3
    <3>2. Len(item.sessions) = 1 /\ Len(item.sessions[1].windows) = 1
      BY <1>1, <2>3, <3>1, RestoreAssumption DEF Given
    <3>3. item.sessions \in Seq(SessionRecord)
      BY <1>1, ItemIs
    <3>4. DOMAIN item.sessions = {1}
      BY <3>2, <3>3
    <3>5. item.sessions[1].windows \in Seq(WindowRecord)
      BY <1>1, <3>4, ItemIs
    <3>6. DOMAIN Wins(1) = {1}
      BY <3>2, <3>5 DEF Wins
    <3> QED  BY <1>3, <3>4, <3>6
  <2> QED  BY <2>1, <2>2, <2>3
<1>5. plan[x].from \in Froms /\ plan[y].from \in Froms
  <2>1. plan[x] \in Steps /\ plan[y] \in Steps
    BY DEF ProgressOK, PlanOK
  <2> QED  BY <2>1 DEF Steps
<1>6. plan[x].from = plan[y].from
  <2>1. PICK f, g : f = plan[x].from /\ g = plan[y].from
    OBVIOUS
  <2>2. f \in Froms /\ g \in Froms /\ f[1] = g[1] /\ f[2] = g[2] /\ f[3] = g[3]
    BY <1>2, <1>3, <1>4, <1>5, <2>1
  <2>3. f = g
    BY <2>2 DEF Froms
  <2> QED  BY <2>1, <2>3
<1> QED  BY <1>1, <1>6 DEF Sound, Makes

\* new-window at a free index moves nothing.
LEMMA ShiftedFree ==
    ASSUME ServerOK, NEW target, target.id = 0, target.idx \in Nat, At(target) = {}
    PROVE  Shifted(target) = windows
<1> DEFINE Taken(k) == \E i \in DOMAIN windows : windows[i].sess = target.sess /\ windows[i].idx = k
           moves(i) == /\ windows[i].sess = target.sess
                       /\ windows[i].idx >= target.idx
                       /\ \A k \in target.idx .. windows[i].idx : Taken(k)
<1>1. ~Taken(target.idx)
  BY FreeAt
<1>2. ASSUME NEW i \in DOMAIN windows PROVE ~moves(i)
  <2>1. windows[i].idx \in Nat
    <3>1. windows[i] \in LiveWin
      BY DEF ServerOK, WindowsOK
    <3> QED  BY <3>1 DEF LiveWin
  <2>2. windows[i].idx >= target.idx => target.idx \in target.idx .. windows[i].idx
    BY <2>1
  <2> HIDE DEF Taken
  <2> QED  BY <1>1, <2>2
<1>3. Shifted(target) = [i \in DOMAIN windows |-> IF moves(i) THEN [windows[i] EXCEPT !.idx = @ + 1] ELSE windows[i]]
  BY DEF Shifted
<1>4. windows = [i \in DOMAIN windows |-> windows[i]]
  BY DEF ServerOK, WindowsOK
<1> HIDE DEF moves
<1> QED  BY <1>2, <1>3, <1>4

LEMMA AddedFirm ==
    ASSUME NEW vs, vs = windows, NEW sess, NEW idx, NEW from, Added(vs, sess, idx, from)
    PROVE  Firm
BY DEF Added, Firm

LEMMA UserFirm ==
    ASSUME ServerOK, UserStep
    PROVE  Firm \/ "close" \in touched'
<1>1. CASE UserSession \/ UserWindow
  <2>1. PICK n, k, name, from : AddWindow(windows, n, k, name, from)
    BY <1>1 DEF UserSession, UserWindow
  <2>2. PICK vs : vs = windows
    OBVIOUS
  <2>3. AddWindow(vs, n, k, name, from) /\ Reindexed(vs, windows)
    BY <2>1, <2>2, LinedNow
  <2>4. Added(vs, n, k, from)
    BY <2>3, AddedIs
  <2> QED  BY <2>2, <2>4, AddedFirm
<1>2. CASE SelectPane
  BY <1>2, SelectIs DEF Firm
<1>3. CASE ClosePane
  BY <1>3 DEF ClosePane, UserAct
<1> QED  BY <1>1, <1>2, <1>3 DEF UserStep

MadeAll ==
    \A x \in DOMAIN plan :
        plan[x].op = "window" /\ x < pos /\ plan[x].target \notin failedWindows => Made(x)

LEMMA MadeKept ==
    ASSUME Basics, Basics', Firm, UNCHANGED <<plan, try>>, NEW x \in DOMAIN plan, Made(x)
    PROVE  Made(x)'
<1>1. PICK i \in DOMAIN windows :
        /\ windows[i].sess = plan[x].target.sess /\ windows[i].idx = plan[x].target.idx
        /\ windows[i].from[1] = try
        /\ windows[i].from[2] = plan[x].from[1] /\ windows[i].from[3] = plan[x].from[2]
  BY DEF Made
<1>2. /\ i \in DOMAIN windows' /\ windows'[i].sess = windows[i].sess /\ windows'[i].idx = windows[i].idx
      /\ windows'[i].from = windows[i].from
  BY DEF Firm
<1> QED  BY <1>1, <1>2 DEF Made

\* One more window has been made, or has failed.
LEMMA MadeAllKept ==
    ASSUME Basics, Basics', MadeAll, UNCHANGED <<plan, try>>, failedWindows \subseteq failedWindows',
           NEW P, P = pos,
           \A x \in DOMAIN plan : plan[x].op = "window" /\ x < pos /\ Made(x) => Made(x)',
           \/ pos' = pos
           \/ /\ pos' = pos + 1 /\ pos <= Len(plan)
              /\ Now.op = "window" /\ Now.target \notin failedWindows' => Made(P)'
    PROVE  MadeAll'
<1> SUFFICES ASSUME NEW x \in DOMAIN plan, plan[x].op = "window", x < pos', plan[x].target \notin failedWindows'
             PROVE  Made(x)'
  BY DEF MadeAll
<1>1. x \in Nat /\ pos \in Nat
  BY DEF Basics, ProgressOK, PlanOK
<1>2. CASE x < pos
  BY <1>2 DEF MadeAll
<1>3. CASE x = pos
  <2>1. Now = plan[x]
    BY <1>3 DEF Now
  <2>2. plan[x].target = Now.target /\ Now.op = "window"
    BY <2>1
  <2> QED  BY <1>1, <1>3, <2>2
<1> QED  BY <1>1, <1>2, <1>3

LEMMA MadeHere ==
    ASSUME ProgressOK, pos <= Len(plan), UNCHANGED <<plan, try>>, NEW P, P = pos, NEW i, i \in DOMAIN windows',
           windows'[i].sess = Now.target.sess, windows'[i].idx = Now.target.idx, windows'[i].from = Origin
    PROVE  Made(P)'
<1>1. Now = plan[P] /\ Origin = <<try, Now.from[1], Now.from[2], Now.from[3]>>
  BY NowIs
<1>2. Origin[1] = try /\ Origin[2] = Now.from[1] /\ Origin[3] = Now.from[2]
  BY <1>1
<1> QED  BY <1>1, <1>2 DEF Made

LEMMA FirmMadeAll ==
    ASSUME Basics, Basics', MadeAll, Firm, UNCHANGED <<plan, try>>, failedWindows \subseteq failedWindows',
           NEW P, P = pos,
           \/ pos' = pos
           \/ /\ pos' = pos + 1 /\ pos <= Len(plan)
              /\ Now.op = "window" /\ Now.target \notin failedWindows' => Made(P)'
    PROVE  MadeAll'
<1>1. \A x \in DOMAIN plan : plan[x].op = "window" /\ x < pos /\ Made(x) => Made(x)'
  BY MadeKept
<1> QED  BY <1>1, MadeAllKept

LEMMA ApplyMade ==
    ASSUME Basics, Basics', MadeAll, ApplyStep
    PROVE  MadeAll'
<1>1. UNCHANGED <<plan, try, item>>
  BY DEF ApplyStep, CreateSession, MoveWindow, NewWindow, SplitPane, SetOption, SetLayout, ReopenBridge,
         Respawn, applying
<1>2. ProgressOK /\ PlacingOK /\ ServerOK
  BY DEF Basics
<1>3. PICK P : P = pos
  OBVIOUS
<1>4. ASSUME Firm, pos' = pos + 1, pos <= Len(plan), failedWindows' = failedWindows \cup {Now.target}
      PROVE  MadeAll'
  BY <1>1, <1>3, <1>4, FirmMadeAll
<1>5. ASSUME Firm, UNCHANGED failedWindows, pos' = pos + 1 \/ pos' = pos, pos <= Len(plan), Now.op # "window"
      PROVE  MadeAll'
  BY <1>1, <1>3, <1>5, FirmMadeAll
<1>6. UNCHANGED windows => Firm
  BY DEF Firm
<1>7. CASE CreateSession
  <2>1. pos <= Len(plan) /\ Now.op = "window"
    BY <1>7 DEF CreateSession, Applying
  <2>2. CASE UNCHANGED live /\ WindowFails
    BY <1>4, <1>6, <2>1, <2>2 DEF live, WindowFails, Advance
  <2>3. CASE AddWindow(windows, Now.target.sess, BaseIndex, NewName, Origin)
    <3>1. PICK vs, sess, idx, name, from :
              /\ vs = windows /\ sess = Now.target.sess /\ idx = BaseIndex
              /\ name = NewName /\ from = Origin
      OBVIOUS
    <3>2. AddWindow(vs, sess, idx, name, from) /\ Reindexed(vs, windows)
      BY <1>2, <2>3, <3>1, LinedNow
    <3>3. Added(vs, sess, idx, from)
      BY <1>2, <3>2, AddedIs
    <3>4. Firm
      BY <3>1, <3>3, AddedFirm
    <3>5. CASE WindowFails
      BY <1>4, <2>1, <3>4, <3>5 DEF WindowFails, Advance
    <3>6. CASE WindowMade(next) /\ BaseIndex = Now.target.idx
      <4>1. PICK i : i = next
        OBVIOUS
      <4>2. /\ i \in DOMAIN windows' /\ windows'[i].sess = Now.target.sess
            /\ windows'[i].idx = Now.target.idx /\ windows'[i].from = Origin
        BY <3>1, <3>3, <3>6, <4>1 DEF Added
      <4>3. Made(P)'
        BY <1>1, <1>2, <1>3, <2>1, <4>2, MadeHere
      <4>4. pos' = pos + 1 /\ UNCHANGED failedWindows
        BY <3>6 DEF WindowMade, Advance
      <4> QED  BY <1>1, <1>3, <2>1, <3>4, <4>3, <4>4, FirmMadeAll
    <3>7. CASE UNCHANGED <<pos, failedWindows>>
      BY <1>1, <1>3, <3>4, <3>7, FirmMadeAll
    <3> QED  BY <1>7, <2>3, <3>5, <3>6, <3>7 DEF CreateSession
  <2> QED  BY <1>7, <2>2, <2>3 DEF CreateSession
<1>8. CASE MoveWindow
  <2>1. pos <= Len(plan) /\ Now.op = "window" /\ placing # 0
    BY <1>8 DEF MoveWindow, Applying
  <2>2. CASE UNCHANGED live /\ WindowFails
    BY <1>4, <1>6, <2>1, <2>2 DEF live, WindowFails, Advance
  <2>3. CASE /\ placing \in DOMAIN windows /\ At(Now.target) = {} /\ UNCHANGED <<panes, next>>
             /\ windows' = [windows EXCEPT ![placing].idx = Now.target.idx]
             /\ WindowMade(placing)
    <3>1. /\ DOMAIN windows' = DOMAIN windows /\ windows'[placing].idx = Now.target.idx
          /\ windows'[placing].sess = Now.target.sess /\ windows'[placing].from = Origin
          /\ \A i \in DOMAIN windows : i # placing => windows'[i] = windows[i]
      BY <1>2, <2>1, <2>3, MoveIs
    <3>2. Made(P)'
      <4>1. PICK i : i = placing
        OBVIOUS
      <4>2. /\ i \in DOMAIN windows' /\ windows'[i].sess = Now.target.sess
            /\ windows'[i].idx = Now.target.idx /\ windows'[i].from = Origin
        BY <2>3, <3>1, <4>1
      <4> QED  BY <1>1, <1>2, <1>3, <2>1, <4>2, MadeHere
    <3>3. ASSUME NEW x \in DOMAIN plan, plan[x].op = "window", x < pos, Made(x)
          PROVE  Made(x)'
      <4>1. PICK i \in DOMAIN windows :
              /\ windows[i].sess = plan[x].target.sess /\ windows[i].idx = plan[x].target.idx
              /\ windows[i].from[1] = try
              /\ windows[i].from[2] = plan[x].from[1] /\ windows[i].from[3] = plan[x].from[2]
        BY <3>3 DEF Made
      <4>2. /\ windows[placing].from = Origin /\ P \in DOMAIN plan /\ Now = plan[P] /\ x # P
            /\ Origin = <<try, Now.from[1], Now.from[2], Now.from[3]>>
        <5>1. x \in Nat /\ pos \in Nat
          BY <1>2 DEF ProgressOK, PlanOK
        <5> QED  BY <1>2, <1>3, <2>1, <2>3, <3>3, <5>1, NowIs DEF PlacingOK
      <4>3. i # placing
        <5>1. ~(plan[x].from[1] = plan[P].from[1] /\ plan[x].from[2] = plan[P].from[2])
          BY <1>2, <2>1, <3>3, <4>2, WindowStepsDiffer
        <5>2. Origin[2] = plan[P].from[1] /\ Origin[3] = plan[P].from[2]
          BY <4>2
        <5> QED  BY <4>1, <4>2, <5>1, <5>2
      <4>4. i \in DOMAIN windows' /\ windows'[i] = windows[i]
        BY <3>1, <4>3
      <4> QED  BY <1>1, <4>1, <4>4 DEF Made
    <3>4. pos' = pos + 1 /\ UNCHANGED failedWindows
      BY <2>3 DEF WindowMade, Advance
    <3> QED  BY <1>1, <1>3, <2>1, <3>2, <3>3, <3>4, MadeAllKept
  <2> QED  BY <1>8, <2>2, <2>3 DEF MoveWindow
<1>9. CASE NewWindow
  <2>1. pos <= Len(plan) /\ Now.op = "window"
    BY <1>9 DEF NewWindow, Applying
  <2>2. CASE UNCHANGED live /\ WindowFails
    BY <1>4, <1>6, <2>1, <2>2 DEF live, WindowFails, Advance
  <2>3. CASE /\ AddWindow(Shifted(Now.target), Now.target.sess, Now.target.idx, NewName, Origin)
             /\ InsertBefore \/ At(Now.target) = {}
             /\ pos' = pos + 1 /\ UNCHANGED failedWindows
    <3>1. PICK target, vs, sess, idx, name, from :
              /\ target = Now.target /\ vs = Shifted(target) /\ sess = target.sess /\ idx = target.idx
              /\ name = NewName /\ from = Origin
      OBVIOUS
    <3>2. AddWindow(vs, sess, idx, name, from)
      BY <2>3, <3>1
    <3>3. target.idx \in Nat /\ target.id = 0 /\ Lined(windows)
      BY <1>2, <2>1, <3>1, NowIs, NewWindowIs, LinedNow
    <3>4. Reindexed(vs, windows)
      BY <3>1, <3>3, ShiftedIs
    <3>5. Added(vs, sess, idx, from)
      BY <1>2, <3>2, <3>4, AddedIs
    <3>6. Made(P)'
      <4>1. PICK i : i = next
        OBVIOUS
      <4>2. /\ i \in DOMAIN windows' /\ windows'[i].sess = Now.target.sess
            /\ windows'[i].idx = Now.target.idx /\ windows'[i].from = Origin
        BY <3>1, <3>5, <4>1 DEF Added
      <4> QED  BY <1>1, <1>2, <1>3, <2>1, <4>2, MadeHere
    <3>7. CASE At(Now.target) = {}
      <4>1. vs = windows
        BY <1>2, <3>1, <3>3, <3>7, ShiftedFree
      <4>2. Firm
        BY <3>5, <4>1, AddedFirm
      <4> QED  BY <1>1, <1>3, <2>1, <2>3, <3>6, <4>2, FirmMadeAll
    <3>8. CASE InsertBefore
      <4>1. item.kind \in {"window", "pane"}
        BY <3>8 DEF InsertBefore
      <4>2. ASSUME NEW x \in DOMAIN plan, plan[x].op = "window", x < pos PROVE FALSE
        <5>1. P \in DOMAIN plan /\ plan[P].op = "window"
          BY <1>2, <1>3, <2>1, NowIs
        <5>2. x = P
          BY <1>2, <4>1, <4>2, <5>1, WindowStepsDiffer
        <5> QED  BY <1>2, <1>3, <4>2, <5>2 DEF ProgressOK, PlanOK
      <4> QED  BY <1>1, <1>3, <2>1, <2>3, <3>6, <4>2, MadeAllKept
    <3> QED  BY <2>3, <3>7, <3>8
  <2> QED  BY <1>9, <2>2, <2>3 DEF NewWindow, WindowMade, Advance
<1>10. CASE SplitPane
  <2>1. pos <= Len(plan) /\ Now.op # "window" /\ pos' = pos + 1 /\ UNCHANGED failedWindows
    BY <1>10 DEF SplitPane, Applying, Skipped, SplitNow, Advance
  <2>2. CASE UNCHANGED live
    BY <1>5, <1>6, <2>1, <2>2 DEF live
  <2>3. CASE \E w \in At(Now.target) : SplitInto(w)
    <3>1. PICK w \in At(Now.target) : SplitInto(w)
      BY <2>3
    <3>2. PICK from : from = Origin
      OBVIOUS
    <3>3. w \in DOMAIN windows
      BY <3>1 DEF At
    <3>4. /\ windows' = [windows EXCEPT ![w].active = next] /\ next' = next + 1
          /\ panes' = With(panes, next, [win |-> w, from |-> from, runs |-> 0, opts |-> Nobody])
      BY <3>1, <3>2 DEF SplitInto
    <3>5. /\ DOMAIN windows' = DOMAIN windows
          /\ \A i \in DOMAIN windows : /\ windows'[i].sess = windows[i].sess /\ windows'[i].idx = windows[i].idx
                                       /\ windows'[i].from = windows[i].from
      BY <1>2, <3>3, <3>4, SplitIs
    <3>6. Firm
      BY <3>5 DEF Firm
    <3> QED  BY <1>5, <2>1, <3>6
  <2> QED  BY <1>10, <2>2, <2>3 DEF SplitPane, Skipped, SplitNow
<1>11. CASE SetOption \/ SetLayout \/ ReopenBridge
  <2>1. /\ pos <= Len(plan) /\ Now.op # "window" /\ pos' = pos + 1 /\ UNCHANGED <<failedWindows, windows>>
    BY <1>11 DEF SetOption, SetLayout, ReopenBridge, Applying, Skipped, Advance, live
  <2> QED  BY <1>5, <1>6, <2>1
<1>12. CASE Respawn
  <2>1. UNCHANGED <<pos, failedWindows, windows>>
    BY <1>12 DEF Respawn
  <2> QED  BY <1>1, <1>3, <1>6, <2>1, FirmMadeAll
<1> QED  BY <1>7, <1>8, <1>9, <1>10, <1>11, <1>12 DEF ApplyStep

\* A pane of this attempt is in a window made for it, or in the one its plan
\* aims at by id.
InPlace(p) ==
    \/ Near(windows[panes[p].win].from, panes[p].from)
    \/ \E x \in DOMAIN plan : plan[x].target.id = panes[p].win

InPlaceAll == \A p \in DOMAIN panes : panes[p].from[1] = try /\ try # 0 => InPlace(p)

Landed == "close" \notin touched => InPlaceAll /\ MadeAll

\* The window that a split is aimed at.
LEMMA SplitHits ==
    ASSUME ProgressOK, ServerOK, MadeAll, pos <= Len(plan), Now.op = "split", Now.target \notin failedWindows,
           NEW w \in At(Now.target)
    PROVE  \/ Near(windows[w].from, Origin)
           \/ \E x \in DOMAIN plan : plan[x].target.id = w
<1>1. /\ pos \in DOMAIN plan /\ Now = plan[pos] /\ w \in DOMAIN windows
      /\ Origin = <<try, Now.from[1], Now.from[2], Now.from[3]>>
  BY NowIs DEF At
<1>2. CASE Now.target.id # 0
  <2>1. Now.target.id = w
    BY <1>2 DEF At
  <2> QED  BY <1>1, <2>1
<1>3. CASE Now.target.id = 0
  <2>1. ByIndex
    <3>1. ASSUME ById PROVE FALSE
      <4>1. PICK i \in Nat \ {0} : plan[pos].target = IdTarget(i)
        BY <1>1, <3>1 DEF ById, Into
      <4>2. IdTarget(i).id = i
        BY DEF IdTarget
      <4>3. plan[pos].target.id = i
        BY <4>1, <4>2
      <4> QED  BY <1>1, <1>3, <4>3
    <3> QED  BY <3>1 DEF ProgressOK, PlanOK
  <2>2. PICK y \in DOMAIN plan : y < pos /\ plan[y].op = "window" /\ plan[y].target = plan[pos].target
    BY <1>1, <2>1 DEF ByIndex, Rooted
  <2>3. Made(y)
    BY <1>1, <2>2 DEF MadeAll
  <2>4. PICK i \in DOMAIN windows :
          /\ windows[i].sess = plan[y].target.sess /\ windows[i].idx = plan[y].target.idx
          /\ windows[i].from[1] = try
          /\ windows[i].from[2] = plan[y].from[1] /\ windows[i].from[3] = plan[y].from[2]
    BY <2>3 DEF Made
  <2>5. windows[w].sess = Now.target.sess /\ windows[w].idx = Now.target.idx
    BY <1>3 DEF At
  <2>6. i = w
    BY <1>1, <2>2, <2>4, <2>5 DEF ServerOK, WindowsOK, Apart
  <2>7. plan[y].from[1] = plan[pos].from[1] /\ plan[y].from[2] = plan[pos].from[2]
    <3>1. /\ About(plan[y], plan[y].from[1], plan[y].from[2]) /\ About(plan[pos], plan[pos].from[1], plan[pos].from[2])
      BY <1>1, <2>1 DEF ByIndex
    <3>2. PICK s, v, t, u : s = plan[y].from[1] /\ v = plan[y].from[2] /\ t = plan[pos].from[1] /\ u = plan[pos].from[2]
      OBVIOUS
    <3>3. s \in DOMAIN item.sessions /\ v \in DOMAIN Wins(s) /\ t \in DOMAIN item.sessions /\ u \in DOMAIN Wins(t)
      BY <3>1, <3>2 DEF About
    <3>4. IndexTarget(s, v) = IndexTarget(t, u)
      BY <2>2, <3>1, <3>2 DEF About
    <3>5. s = t /\ v = u
      BY <3>3, <3>4, TargetsDiffer DEF ProgressOK
    <3> QED  BY <3>2, <3>5
  <2>8. Origin[1] = try /\ Origin[2] = plan[pos].from[1] /\ Origin[3] = plan[pos].from[2]
    BY <1>1
  <2> QED  BY <2>4, <2>6, <2>7, <2>8 DEF Near
<1> QED  BY <1>2, <1>3

LEMMA ApplyInPlace ==
    ASSUME Basics, Basics', MadeAll, ApplyStep, NEW p \in DOMAIN panes', p \notin DOMAIN panes
    PROVE  \/ Near(windows'[panes'[p].win].from, panes'[p].from)
           \/ \E x \in DOMAIN plan : plan[x].target.id = panes'[p].win
<1>1. ProgressOK /\ PlacingOK /\ ServerOK
  BY DEF Basics
<1>2. ~UNCHANGED panes /\ ~(DOMAIN panes' = DOMAIN panes)
  OBVIOUS
<1>3. ASSUME NEW vs, NEW sess, NEW idx, NEW name, NEW from, Reindexed(vs, windows),
             AddWindow(vs, sess, idx, name, from)
      PROVE  Near(windows'[panes'[p].win].from, panes'[p].from)
  <2>1. Added(vs, sess, idx, from)
    BY <1>1, <1>3, AddedIs
  <2>2. p = next /\ panes'[next].win = next /\ windows'[next].from = panes'[next].from
    BY <2>1 DEF Added
  <2> QED  BY <2>2 DEF Near
<1>4. CASE CreateSession
  <2>1. AddWindow(windows, Now.target.sess, BaseIndex, NewName, Origin)
    BY <1>2, <1>4 DEF CreateSession, live
  <2>2. PICK vs, sess, idx, name, from :
            /\ vs = windows /\ sess = Now.target.sess /\ idx = BaseIndex
            /\ name = NewName /\ from = Origin
    OBVIOUS
  <2>3. AddWindow(vs, sess, idx, name, from) /\ Reindexed(vs, windows)
    BY <1>1, <2>1, <2>2, LinedNow
  <2> QED  BY <1>3, <2>3
<1>5. CASE MoveWindow
  BY <1>2, <1>5 DEF MoveWindow, live
<1>6. CASE NewWindow
  <2>1. AddWindow(Shifted(Now.target), Now.target.sess, Now.target.idx, NewName, Origin)
    BY <1>2, <1>6 DEF NewWindow, live
  <2>2. PICK target, vs, sess, idx, name, from :
            /\ target = Now.target /\ vs = Shifted(target) /\ sess = target.sess /\ idx = target.idx
            /\ name = NewName /\ from = Origin
    OBVIOUS
  <2>3. AddWindow(vs, sess, idx, name, from)
    BY <2>1, <2>2
  <2>4. target.idx \in Nat /\ Lined(windows)
    BY <1>1, <1>6, <2>2, NowIs, LinedNow DEF NewWindow, Applying
  <2>5. Reindexed(vs, windows)
    BY <2>2, <2>4, ShiftedIs
  <2> QED  BY <1>3, <2>3, <2>5
<1>7. CASE SplitPane
  <2>1. pos <= Len(plan) /\ Now.op = "split"
    BY <1>7 DEF SplitPane, Applying
  <2>2. Now.target \notin failedWindows /\ SplitNow
    BY <1>2, <1>7 DEF SplitPane, Skipped, live
  <2>3. PICK w \in At(Now.target) : SplitInto(w)
    BY <1>2, <2>2 DEF SplitNow, live
  <2>4. PICK from : from = Origin
    OBVIOUS
  <2>5. w \in DOMAIN windows
    BY <2>3 DEF At
  <2>6. /\ windows' = [windows EXCEPT ![w].active = next] /\ next' = next + 1
        /\ panes' = With(panes, next, [win |-> w, from |-> from, runs |-> 0, opts |-> Nobody])
    BY <2>3, <2>4 DEF SplitInto
  <2>7. /\ DOMAIN panes' = DOMAIN panes \cup {next} /\ panes'[next].win = w /\ panes'[next].from = from
        /\ windows'[w].from = windows[w].from
    BY <1>1, <2>5, <2>6, SplitIs
  <2>8. p = next
    BY <2>7
  <2>9. Near(windows[w].from, Origin) \/ \E x \in DOMAIN plan : plan[x].target.id = w
    BY <1>1, <2>1, <2>2, <2>3, SplitHits
  <2> QED  BY <2>4, <2>7, <2>8, <2>9
<1>8. CASE SetOption
  <2>1. panes' = panes \/ \E w \in At(Now.target) : panes' = [panes EXCEPT ![windows[w].active].opts = Origin]
    BY <1>8 DEF SetOption, Skipped, live
  <2> QED  BY <1>2, <2>1
<1>9. CASE SetLayout \/ ReopenBridge
  BY <1>2, <1>9 DEF SetLayout, ReopenBridge, Skipped, live
<1>10. CASE Respawn
  <2>1. panes' = panes \/ \E q \in DOMAIN panes : panes' = [panes EXCEPT ![q].runs = @ + 1]
    BY <1>10 DEF Respawn
  <2> QED  BY <1>2, <2>1
<1> QED  BY <1>4, <1>5, <1>6, <1>7, <1>8, <1>9, <1>10 DEF ApplyStep

LEMMA OldInPlace ==
    ASSUME Basics, Basics', Stays, UNCHANGED <<plan, try>>, NEW p \in DOMAIN panes', p \in DOMAIN panes
    PROVE  /\ panes'[p].from = panes[p].from
           /\ InPlace(p) =>
                \/ Near(windows'[panes'[p].win].from, panes'[p].from)
                \/ \E x \in DOMAIN plan : plan[x].target.id = panes'[p].win
<1>1. p < next
  BY DEF Basics, ServerOK, PanesOK
<1>2. panes'[p].from = panes[p].from /\ panes'[p].win = panes[p].win
  BY <1>1 DEF Stays
<1>3. panes'[p].win \in DOMAIN windows' /\ panes[p].win < next
  BY DEF Basics, ServerOK, PanesOK, WindowsOK
<1>4. windows'[panes'[p].win].from = windows[panes[p].win].from
  BY <1>2, <1>3 DEF Stays
<1> QED  BY <1>2, <1>4 DEF InPlace

LEMMA LandedNext == Basics /\ FromPlan /\ Landed /\ [Next]_vars => Landed'
<1> SUFFICES ASSUME Basics, FromPlan, Landed, [Next]_vars PROVE Landed'
  OBVIOUS
<1>1. Basics' /\ Stays
  BY BasicsNext
<1>2. try \in Nat /\ pos \in Nat /\ next \in Nat /\ ServerOK
  BY DEF Basics, ProgressOK, ServerOK
\* Panes stay in place unless the plan changes.
<1>3. ASSUME UNCHANGED <<plan, try>>, InPlaceAll,
             \A p \in DOMAIN panes' : p \in DOMAIN panes \/ panes'[p].from = Nobody
               \/ Near(windows'[panes'[p].win].from, panes'[p].from)
               \/ \E x \in DOMAIN plan : plan[x].target.id = panes'[p].win
      PROVE  InPlaceAll'
  <2> SUFFICES ASSUME NEW p \in DOMAIN panes', panes'[p].from[1] = try, try # 0
               PROVE  \/ Near(windows'[panes'[p].win].from, panes'[p].from)
                      \/ \E x \in DOMAIN plan : plan[x].target.id = panes'[p].win
    BY <1>3 DEF InPlaceAll, InPlace
  <2>1. panes'[p].from # Nobody
    BY NobodyIs
  <2>2. CASE p \in DOMAIN panes
    <3>1. panes'[p].from = panes[p].from
      BY <1>1, <1>3, <2>2, OldInPlace
    <3>2. InPlace(p)
      BY <1>3, <2>2, <3>1 DEF InPlaceAll
    <3> QED  BY <1>1, <1>3, <2>2, <3>2, OldInPlace
  <2>3. CASE p \notin DOMAIN panes
    BY <1>3, <2>1, <2>3
  <2> QED  BY <2>2, <2>3
<1>4. CASE Start
  <2>1. UNCHANGED live /\ try' = try + 1 /\ pos' = 1
    BY <1>4 DEF Start
  <2>2. InPlaceAll'
    <3>1. \A p \in DOMAIN panes : panes[p].from[1] # try'
      BY <1>2, <2>1, NobodyIs DEF FromPlan
    <3> QED  BY <2>1, <3>1 DEF InPlaceAll, live
  <2>3. MadeAll'
    <3>1. \A x \in DOMAIN plan' : x \in Nat /\ ~(x < 1)
      BY <1>1 DEF Basics, ProgressOK, PlanOK
    <3> QED  BY <2>1, <3>1 DEF MadeAll
  <2> QED  BY <2>2, <2>3 DEF Landed
<1>5. CASE ApplyStep
  <2>1. UNCHANGED <<plan, try, touched>>
    BY <1>5 DEF ApplyStep, CreateSession, MoveWindow, NewWindow, SplitPane, SetOption, SetLayout, ReopenBridge,
         Respawn, applying
  <2>2. SUFFICES ASSUME "close" \notin touched PROVE InPlaceAll' /\ MadeAll'
    BY <2>1 DEF Landed
  <2>3. InPlaceAll /\ MadeAll
    BY <2>2 DEF Landed
  <2>4. MadeAll'
    BY <1>1, <1>5, <2>3, ApplyMade
  <2>5. \A p \in DOMAIN panes' : p \in DOMAIN panes
               \/ Near(windows'[panes'[p].win].from, panes'[p].from)
               \/ \E x \in DOMAIN plan : plan[x].target.id = panes'[p].win
    BY <1>1, <1>5, <2>3, ApplyInPlace
  <2>6. InPlaceAll'
    BY <1>3, <2>1, <2>3, <2>5
  <2> QED  BY <2>4, <2>6
<1>6. CASE UserStep
  <2>1. UNCHANGED <<plan, try, pos, failedWindows>> /\ touched \subseteq touched'
    BY <1>6 DEF UserStep, UserSession, UserWindow, SelectPane, ClosePane, UserAct, progress
  <2>2. SUFFICES ASSUME "close" \notin touched' PROVE InPlaceAll' /\ MadeAll'
    BY DEF Landed
  <2>3. InPlaceAll /\ MadeAll /\ Firm
    BY <1>2, <1>6, <2>1, <2>2, UserFirm DEF Landed
  <2>4. PICK P : P = pos
    OBVIOUS
  <2>5. MadeAll'
    BY <1>1, <2>1, <2>3, <2>4, FirmMadeAll
  <2>6. \A p \in DOMAIN panes' : p \in DOMAIN panes \/ panes'[p].from = Nobody
    BY <1>2, <1>6, UserMakes
  <2>7. InPlaceAll'
    BY <1>3, <2>1, <2>3, <2>6
  <2> QED  BY <2>5, <2>7
<1>7. CASE UNCHANGED vars \/ Finish \/ Die
  <2>1. UNCHANGED <<windows, panes, plan, try, pos, failedWindows, touched>>
    BY <1>7 DEF vars, Finish, Die, live, progress
  <2> QED  BY <2>1 DEF Landed, InPlaceAll, InPlace, MadeAll, Made
<1> QED  BY <1>4, <1>5, <1>6, <1>7 DEF Next

LEMMA FirstThree ==
    ASSUME NEW a \in Nat, NEW b \in Nat, NEW c \in Nat, NEW d \in Nat
    PROVE  SubSeq(<<a, b, c, d>>, 1, 3) = <<a, b, c>>
<1>1. PICK f : f = <<a, b, c, d>>
  OBVIOUS
<1>2. f \in Seq(Nat) /\ Len(f) = 4 /\ f[1] = a /\ f[2] = b /\ f[3] = c
  BY <1>1
<1>3. PICK g : g = SubSeq(f, 1, 3)
  OBVIOUS
<1>4. g \in Seq(Nat) /\ Len(g) = 3 /\ g[1] = f[1] /\ g[2] = f[2] /\ g[3] = f[3]
  BY <1>2, <1>3
<1>5. g = <<a, b, c>>
  BY <1>2, <1>4
<1> QED  BY <1>1, <1>3, <1>5

\* As long as nobody closes a window, every pane that a restore has made is in
\* the window made for it, or in the live one that an undo of a pane aims at by
\* id: whatever fails, whatever users open meanwhile, and wherever tmux shifts
\* the windows around it.
THEOREM LandsInOwnWindowCorrect == Spec => []LandsInOwnWindow
<1>1. Init => Basics /\ FromPlan /\ Landed
  <2> SUFFICES ASSUME Init PROVE Basics /\ FromPlan /\ Landed
    OBVIOUS
  <2>1. Basics /\ \A p \in DOMAIN panes : panes[p].from = Nobody
    BY BasicsInit, InitServer
  <2>2. try = 0 /\ plan = <<>>
    BY DEF Init
  <2> QED  BY <2>1, <2>2 DEF FromPlan, Landed, InPlaceAll, MadeAll
<1>2. Basics /\ FromPlan /\ Landed /\ [Next]_vars => Basics' /\ FromPlan' /\ Landed'
  BY BasicsNext, FromPlanNext, LandedNext
<1>3. Basics /\ Landed => LandsInOwnWindow
  <2> SUFFICES ASSUME Basics, Landed, "close" \notin touched, NEW p \in Current
               PROVE  \/ SubSeq(windows[panes[p].win].from, 1, 3) = SubSeq(panes[p].from, 1, 3)
                      \/ \E i \in DOMAIN plan : plan[i].target.id = panes[p].win
    BY DEF LandsInOwnWindow
  <2>1. /\ p \in DOMAIN panes /\ panes[p].from[1] = try /\ try # 0
    BY DEF Current, Basics, ProgressOK
  <2>2. InPlace(p)
    BY <2>1 DEF Landed, InPlaceAll
  <2>3. CASE Near(windows[panes[p].win].from, panes[p].from)
    <3>1. PICK f, g : f = windows[panes[p].win].from /\ g = panes[p].from
      OBVIOUS
    <3>2. f \in Origins /\ g \in Origins
      <4>1. panes[p] \in LivePane /\ windows[panes[p].win] \in LiveWin
        BY <2>1 DEF Basics, ServerOK, PanesOK, WindowsOK
      <4> QED  BY <3>1, <4>1 DEF LivePane, LiveWin
    <3>3. PICK a1 \in Nat, b1 \in Nat, c1 \in Nat, d1 \in Nat : f = <<a1, b1, c1, d1>>
      BY <3>2 DEF Origins
    <3>4. PICK a2 \in Nat, b2 \in Nat, c2 \in Nat, d2 \in Nat : g = <<a2, b2, c2, d2>>
      BY <3>2 DEF Origins
    <3>5. SubSeq(f, 1, 3) = <<a1, b1, c1>> /\ SubSeq(g, 1, 3) = <<a2, b2, c2>>
      BY <3>3, <3>4, FirstThree
    <3>6. a1 = a2 /\ b1 = b2 /\ c1 = c2
      BY <2>3, <3>1, <3>3, <3>4 DEF Near
    <3>7. SubSeq(f, 1, 3) = SubSeq(g, 1, 3)
      BY <3>5, <3>6
    <3> QED  BY <3>1, <3>7
  <2>4. CASE \E x \in DOMAIN plan : plan[x].target.id = panes[p].win
    BY <2>4
  <2> QED  BY <2>2, <2>3, <2>4 DEF InPlace
<1> QED  BY <1>1, <1>2, <1>3, PTL DEF Spec

-----------------------------------------------------------------------------
(* Own options *)

\* Users opened windows at most, and no split failed.
Calm == touched \subseteq {"open"} /\ \A f \in failed : f.op # "split"

ActiveFrom(i) == panes[windows[i].active].from

\* The pane the plan's step made is the active one where its options will go.
Fresh(x) ==
    \E i \in At(plan[x].target) :
        ActiveFrom(i) = <<try, plan[x].from[1], plan[x].from[2], plan[x].from[3]>>

OwnOpts == \A p \in DOMAIN panes : panes[p].opts[1] = try /\ try # 0 => panes[p].opts = panes[p].from

FreshLast ==
    \A x \in DOMAIN plan :
        x + 1 = pos /\ placing = 0 /\ plan[x].op \in Makes /\ plan[x].target \notin failedWindows => Fresh(x)

FreshPlaced == placing # 0 => placing \in DOMAIN windows /\ ActiveFrom(placing) = Origin

Opted ==
    /\ \A p \in DOMAIN panes : panes[p].opts[1] \in 0 .. try
    /\ Calm => OwnOpts /\ FreshLast /\ FreshPlaced

\* No window moves, and each keeps its active pane.
Held ==
    \A i \in DOMAIN windows :
        /\ i \in DOMAIN windows'
        /\ windows'[i].sess = windows[i].sess /\ windows'[i].idx = windows[i].idx
        /\ panes'[windows'[i].active].from = panes[windows[i].active].from

\* New panes have no options, and old ones those they had.
Plain ==
    \A p \in DOMAIN panes' :
        \/ panes'[p].opts = Nobody
        \/ p \in DOMAIN panes /\ panes'[p].opts = panes[p].opts /\ panes'[p].from = panes[p].from

\* The panes there were are as they were, and new ones have nothing yet.
Grows ==
    /\ \A p \in DOMAIN panes : p \in DOMAIN panes' /\ panes'[p] = panes[p]
    /\ \A p \in DOMAIN panes' : p \in DOMAIN panes \/ (panes'[p].opts = Nobody /\ panes'[p].runs = 0)

LEMMA GrowsPlain == Grows => Plain
BY DEF Grows, Plain

LEMMA AddedGrows ==
    ASSUME ServerOK, NEW vs, NEW sess, NEW idx, NEW from, Added(vs, sess, idx, from)
    PROVE  /\ Grows
           /\ next \in DOMAIN windows' /\ windows'[next].sess = sess /\ windows'[next].idx = idx
           /\ panes'[windows'[next].active].from = from
           /\ vs = windows => Held
<1>1. \A i \in DOMAIN windows : windows[i].active \in DOMAIN panes
  BY DEF ServerOK, PanesOK
<1>2. /\ DOMAIN panes' = DOMAIN panes \cup {next} /\ panes'[next].opts = Nobody
      /\ panes'[next].runs = 0 /\ \A p \in DOMAIN panes : panes'[p] = panes[p]
  BY DEF Added
<1>3. Grows
  BY <1>2 DEF Grows
<1>4. vs = windows => Held
  <2>1. ASSUME vs = windows, NEW i \in DOMAIN windows
        PROVE  i \in DOMAIN windows' /\ windows'[i] = windows[i]
    BY <2>1 DEF Added
  <2> QED  BY <1>1, <1>2, <2>1 DEF Held
<1>5. /\ next \in DOMAIN windows' /\ windows'[next].sess = sess /\ windows'[next].idx = idx
      /\ windows'[next].active = next /\ panes'[next].from = from
  BY DEF Added
<1>6. panes'[windows'[next].active].from = from
  BY <1>5
<1> QED  BY <1>3, <1>4, <1>5, <1>6

LEMMA HeldSame ==
    ASSUME ServerOK, UNCHANGED windows,
           \A p \in DOMAIN panes : panes'[p].from = panes[p].from
    PROVE  Held
<1>1. \A i \in DOMAIN windows : windows[i].active \in DOMAIN panes
  BY DEF ServerOK, PanesOK
<1> QED  BY <1>1 DEF Held

LEMMA PlainOwn ==
    ASSUME Plain, OwnOpts, UNCHANGED try
    PROVE  OwnOpts'
BY NobodyIs DEF Plain, OwnOpts

LEMMA PlainBelow ==
    ASSUME Plain, try \in Nat, \A p \in DOMAIN panes : panes[p].opts[1] \in 0 .. try, try' = try
    PROVE  \A p \in DOMAIN panes' : panes'[p].opts[1] \in 0 .. try'
<1>1. Nobody[1] \in 0 .. try
  BY NobodyIs
<1> QED  BY <1>1 DEF Plain

LEMMA FreshKept ==
    ASSUME Held, UNCHANGED <<plan, try>>, NEW x \in DOMAIN plan, Fresh(x)
    PROVE  Fresh(x)'
<1>1. PICK i \in At(plan[x].target) :
          ActiveFrom(i) = <<try, plan[x].from[1], plan[x].from[2], plan[x].from[3]>>
  BY DEF Fresh
<1>2. i \in DOMAIN windows
  BY DEF At
<1>3. /\ i \in DOMAIN windows'
      /\ windows'[i].sess = windows[i].sess /\ windows'[i].idx = windows[i].idx
      /\ panes'[windows'[i].active].from = panes[windows[i].active].from
  BY <1>2 DEF Held
<1>4. PICK T : T = plan[x].target
  OBVIOUS
<1>5. i \in At(T)'
  <2>1. i \in At(T)
    BY <1>1, <1>4
  <2>2. CASE T.id # 0
    BY <1>3, <2>1, <2>2 DEF At
  <2>3. CASE T.id = 0
    BY <1>3, <2>1, <2>3 DEF At
  <2> QED  BY <2>2, <2>3
<1>6. ActiveFrom(i)' = ActiveFrom(i)
  BY <1>3 DEF ActiveFrom
<1> QED  BY <1>1, <1>4, <1>5, <1>6 DEF Fresh

\* A step that has just made its pane.
LEMMA FreshNow ==
    ASSUME Basics, Basics', pos <= Len(plan), UNCHANGED <<plan, try>>, NEW P, P = pos, NEW i, i \in DOMAIN windows',
           \/ Now.target.id = i
           \/ /\ Now.target.id = 0
              /\ windows'[i].sess = Now.target.sess /\ windows'[i].idx = Now.target.idx,
           Now.target.id # 0 => Now.target.id = i,
           panes'[windows'[i].active].from = Origin
    PROVE  Fresh(P)'
<1>1. Now = plan[P] /\ Origin = <<try, Now.from[1], Now.from[2], Now.from[3]>>
  BY NowIs DEF Basics
<1>2. PICK T : T = Now.target
  OBVIOUS
<1>3. i \in At(T)'
  <2>1. CASE T.id # 0
    BY <1>2, <2>1 DEF At
  <2>2. CASE T.id = 0
    <3>1. Now.target.id = 0
      BY <1>2, <2>2
    <3>2. i # 0
      BY DEF Basics, ServerOK, WindowsOK
    <3>3. windows'[i].sess = T.sess /\ windows'[i].idx = T.idx
      BY <1>2, <3>1, <3>2
    <3> QED  BY <2>2, <3>3 DEF At
  <2> QED  BY <2>1, <2>2
<1>4. ActiveFrom(i)' = Origin
  BY DEF ActiveFrom
<1> QED  BY <1>1, <1>2, <1>3, <1>4 DEF Fresh

\* A step that leaves the active panes keeps what is known of them.
LEMMA HeldOpted ==
    ASSUME Basics, Basics', Opted, Calm, Held, Plain, UNCHANGED <<plan, try, pos, placing, failedWindows>>
    PROVE  OwnOpts' /\ FreshLast' /\ FreshPlaced'
<1>1. OwnOpts /\ FreshLast /\ FreshPlaced
  BY DEF Opted
<1>2. OwnOpts'
  BY <1>1, PlainOwn
<1>3. FreshLast'
  <2> SUFFICES ASSUME NEW x \in DOMAIN plan, x + 1 = pos, placing = 0, plan[x].op \in Makes,
                      plan[x].target \notin failedWindows
               PROVE  Fresh(x)'
    BY DEF FreshLast
  <2>1. Fresh(x)
    BY <1>1 DEF FreshLast
  <2> QED  BY <2>1, FreshKept
<1>4. FreshPlaced'
  <2> SUFFICES ASSUME placing # 0 PROVE placing \in DOMAIN windows' /\ ActiveFrom(placing)' = Origin'
    BY DEF FreshPlaced
  <2>1. placing \in DOMAIN windows /\ ActiveFrom(placing) = Origin
    BY <1>1 DEF FreshPlaced
  <2>2. Origin' = Origin
    BY DEF Origin, Now
  <2>3. PICK i : i = placing
    OBVIOUS
  <2>4. i \in DOMAIN windows /\ i \in DOMAIN windows' /\ ActiveFrom(i)' = ActiveFrom(i)
    BY <2>1, <2>3 DEF Held, ActiveFrom
  <2> QED  BY <2>1, <2>2, <2>3, <2>4 DEF ActiveFrom
<1> QED  BY <1>2, <1>3, <1>4

\* The plan's step is done.
LEMMA AdvancedOpted ==
    ASSUME Basics, OwnOpts', UNCHANGED <<plan, try>>, pos' = pos + 1, placing' = 0, NEW P, P = pos,
           Now.op \in Makes /\ Now.target \notin failedWindows' => Fresh(P)'
    PROVE  OwnOpts' /\ FreshLast' /\ FreshPlaced'
<1>1. FreshLast'
  <2> SUFFICES ASSUME NEW x \in DOMAIN plan, x + 1 = pos', plan[x].op \in Makes,
                      plan[x].target \notin failedWindows'
               PROVE  Fresh(x)'
    BY DEF FreshLast
  <2>1. x \in Nat /\ pos \in Nat
    BY DEF Basics, ProgressOK, PlanOK
  <2>2. x = P
    BY <2>1
  <2>3. Now = plan[x]
    BY <2>2 DEF Now
  <2> QED  BY <2>2, <2>3
<1> QED  BY <1>1 DEF FreshPlaced

LEMMA PlainSame ==
    ASSUME UNCHANGED panes
    PROVE  Plain
BY DEF Plain

LEMMA RespawnIs ==
    ASSUME ServerOK, Respawn
    PROVE  /\ DOMAIN panes' = DOMAIN panes
           /\ \A p \in DOMAIN panes : panes'[p].opts = panes[p].opts /\ panes'[p].from = panes[p].from
<1>1. CASE UNCHANGED panes
  BY <1>1
<1>2. CASE Head(batch).pane \in DOMAIN panes /\ panes' = [panes EXCEPT ![Head(batch).pane].runs = @ + 1]
  <2>1. PICK q : q = Head(batch).pane
    OBVIOUS
  <2>2. q \in DOMAIN panes /\ panes' = [panes EXCEPT ![q].runs = @ + 1] /\ UNCHANGED <<windows, next>>
    BY <1>2, <2>1 DEF Respawn
  <2>3. /\ DOMAIN panes' = DOMAIN panes /\ \A p \in DOMAIN panes : p # q => panes'[p] = panes[p]
        /\ panes'[q].opts = panes[q].opts /\ panes'[q].from = panes[q].from
    BY <2>2, RanIs
  <2> QED  BY <2>3
<1> QED  BY <1>1, <1>2 DEF Respawn

LEMMA ApplyGrows ==
    ASSUME Basics, ApplyStep, ~SetOption, ~Respawn
    PROVE  Grows
<1>1. ProgressOK /\ ServerOK
  BY DEF Basics
<1>2. CASE UNCHANGED panes
  BY <1>2 DEF Grows
<1>3. ASSUME NEW vs, NEW sess, NEW idx, NEW name, NEW from, Reindexed(vs, windows),
             AddWindow(vs, sess, idx, name, from)
      PROVE  Grows
  <2>1. Added(vs, sess, idx, from)
    BY <1>1, <1>3, AddedIs
  <2> QED  BY <1>1, <2>1, AddedGrows
<1>4. CASE CreateSession
  <2>1. CASE AddWindow(windows, Now.target.sess, BaseIndex, NewName, Origin)
    <3>1. PICK vs, sess, idx, name, from :
              /\ vs = windows /\ sess = Now.target.sess /\ idx = BaseIndex
              /\ name = NewName /\ from = Origin
      OBVIOUS
    <3>2. AddWindow(vs, sess, idx, name, from) /\ Reindexed(vs, windows)
      BY <1>1, <2>1, <3>1, LinedNow
    <3> QED  BY <1>3, <3>2
  <2> QED  BY <1>2, <1>4, <2>1 DEF CreateSession, live
<1>5. CASE NewWindow
  <2>1. CASE AddWindow(Shifted(Now.target), Now.target.sess, Now.target.idx, NewName, Origin)
    <3>1. PICK target, vs, sess, idx, name, from :
              /\ target = Now.target /\ vs = Shifted(target) /\ sess = target.sess /\ idx = target.idx
              /\ name = NewName /\ from = Origin
      OBVIOUS
    <3>2. AddWindow(vs, sess, idx, name, from)
      BY <2>1, <3>1
    <3>3. target.idx \in Nat /\ Lined(windows)
      BY <1>1, <1>5, <3>1, NowIs, LinedNow DEF NewWindow, Applying
    <3>4. Reindexed(vs, windows)
      BY <3>1, <3>3, ShiftedIs
    <3> QED  BY <1>3, <3>2, <3>4
  <2> QED  BY <1>2, <1>5, <2>1 DEF NewWindow, live
<1>6. CASE SplitPane
  <2>1. CASE \E w \in At(Now.target) : SplitInto(w)
    <3>1. PICK w \in At(Now.target) : SplitInto(w)
      BY <2>1
    <3>2. PICK from : from = Origin
      OBVIOUS
    <3>3. w \in DOMAIN windows
      BY <3>1, AtIn
    <3>4. /\ windows' = [windows EXCEPT ![w].active = next] /\ next' = next + 1
          /\ panes' = With(panes, next, [win |-> w, from |-> from, runs |-> 0, opts |-> Nobody])
      BY <3>1, <3>2 DEF SplitInto
    <3>5. /\ DOMAIN panes' = DOMAIN panes \cup {next} /\ panes'[next].opts = Nobody
          /\ panes'[next].runs = 0 /\ \A p \in DOMAIN panes : panes'[p] = panes[p]
      BY <1>1, <3>3, <3>4, SplitIs
    <3> QED  BY <3>5 DEF Grows
  <2> QED  BY <1>2, <1>6, <2>1 DEF SplitPane, SplitNow, Skipped, live
<1>7. CASE MoveWindow \/ SetLayout \/ ReopenBridge
  BY <1>2, <1>7 DEF MoveWindow, SetLayout, ReopenBridge, Skipped, live
<1> QED  BY <1>4, <1>5, <1>6, <1>7 DEF ApplyStep

\* Only set-option sets options.
LEMMA ApplyPlain ==
    ASSUME Basics, ApplyStep, ~SetOption
    PROVE  Plain
<1>1. CASE Respawn
  BY <1>1, RespawnIs DEF Plain, Basics
<1>2. CASE ~Respawn
  BY <1>2, ApplyGrows, GrowsPlain
<1> QED  BY <1>1, <1>2

LEMMA CreateOpted ==
    ASSUME Basics, Basics', Opted, Calm, Plain, CreateSession
    PROVE  OwnOpts' /\ FreshLast' /\ FreshPlaced'
<1>1. UNCHANGED <<plan, try>> /\ pos <= Len(plan) /\ Now.op = "window"
  BY DEF CreateSession, Applying, applying
<1>2. ProgressOK /\ ServerOK /\ OwnOpts'
  BY <1>1, PlainOwn DEF Basics, Opted
<1>3. PICK P : P = pos
  OBVIOUS
<1>4. CASE WindowFails
  <2>1. pos' = pos + 1 /\ placing' = 0 /\ Now.target \in failedWindows'
    BY <1>4 DEF WindowFails, Advance
  <2> QED  BY <1>1, <1>2, <1>3, <2>1, AdvancedOpted
<1>5. CASE AddWindow(windows, Now.target.sess, BaseIndex, NewName, Origin)
  <2>1. PICK vs, sess, idx, name, from :
            /\ vs = windows /\ sess = Now.target.sess /\ idx = BaseIndex
            /\ name = NewName /\ from = Origin
    OBVIOUS
  <2>2. AddWindow(vs, sess, idx, name, from) /\ Reindexed(vs, windows)
    BY <1>2, <1>5, <2>1, LinedNow
  <2>3. Added(vs, sess, idx, from)
    BY <1>2, <2>2, AddedIs
  <2>4. /\ next \in DOMAIN windows' /\ windows'[next].sess = sess /\ windows'[next].idx = idx
        /\ panes'[windows'[next].active].from = from
    BY <1>2, <2>3, AddedGrows
  <2>5. CASE WindowMade(next) /\ BaseIndex = Now.target.idx
    <3>1. PICK i : i = next
      OBVIOUS
    <3>2. Now.target.id = 0
      BY <1>1, <1>2, NewWindowIs
    <3>3. /\ i \in DOMAIN windows' /\ windows'[i].sess = Now.target.sess /\ windows'[i].idx = Now.target.idx
          /\ panes'[windows'[i].active].from = Origin
      BY <2>1, <2>4, <2>5, <3>1
    <3>4. Fresh(P)'
      BY <1>1, <1>3, <3>2, <3>3, FreshNow
    <3>5. pos' = pos + 1 /\ placing' = 0
      BY <2>5 DEF WindowMade, Advance
    <3> QED  BY <1>1, <1>2, <1>3, <3>4, <3>5, AdvancedOpted
  <2>6. CASE placing' = next /\ UNCHANGED pos
    <3>1. Origin' = Origin
      BY <1>1, <2>6 DEF Origin, Now
    <3>2. PICK i : i = placing'
      OBVIOUS
    <3>3. i \in DOMAIN windows' /\ panes'[windows'[i].active].from = Origin
      BY <2>1, <2>4, <2>6, <3>2
    <3>4. FreshPlaced'
      BY <3>1, <3>2, <3>3 DEF FreshPlaced, ActiveFrom
    <3>5. placing' # 0
      BY <1>2, <2>6 DEF ServerOK
    <3>6. FreshLast'
      BY <3>5 DEF FreshLast
    <3> QED  BY <1>2, <3>4, <3>6
  <2> QED  BY <1>4, <1>5, <2>5, <2>6 DEF CreateSession
<1> QED  BY <1>4, <1>5 DEF CreateSession

LEMMA MoveOpted ==
    ASSUME Basics, Basics', Opted, Calm, Plain, MoveWindow
    PROVE  OwnOpts' /\ FreshLast' /\ FreshPlaced'
<1>1. UNCHANGED <<plan, try, panes>> /\ pos <= Len(plan) /\ Now.op = "window" /\ placing # 0
      /\ pos' = pos + 1 /\ placing' = 0
  BY DEF MoveWindow, Applying, applying, live, WindowFails, WindowMade, Advance
<1>2. ProgressOK /\ PlacingOK /\ ServerOK /\ OwnOpts /\ FreshPlaced
  BY DEF Basics, Opted
<1>3. PICK P : P = pos
  OBVIOUS
<1>4. OwnOpts'
  BY <1>1, <1>2, PlainOwn
<1>5. CASE WindowFails
  <2>1. Now.target \in failedWindows'
    BY <1>5 DEF WindowFails
  <2> QED  BY <1>1, <1>3, <1>4, <2>1, AdvancedOpted
<1>6. CASE /\ placing \in DOMAIN windows /\ At(Now.target) = {} /\ UNCHANGED <<panes, next>>
           /\ windows' = [windows EXCEPT ![placing].idx = Now.target.idx]
  <2>1. /\ DOMAIN windows' = DOMAIN windows /\ windows'[placing].idx = Now.target.idx
        /\ windows'[placing].sess = Now.target.sess
        /\ windows'[placing].active = windows[placing].active
    BY <1>1, <1>2, <1>6, MoveIs
  <2>2. PICK i : i = placing
    OBVIOUS
  <2>3. Now.target.id = 0
    BY <1>1, <1>2, NewWindowIs
  <2>4. /\ i \in DOMAIN windows' /\ windows'[i].sess = Now.target.sess /\ windows'[i].idx = Now.target.idx
        /\ panes'[windows'[i].active].from = Origin
    BY <1>1, <1>2, <1>6, <2>1, <2>2 DEF FreshPlaced, ActiveFrom
  <2>5. Fresh(P)'
    BY <1>1, <1>3, <2>3, <2>4, FreshNow
  <2> QED  BY <1>1, <1>3, <1>4, <2>5, AdvancedOpted
<1> QED  BY <1>5, <1>6 DEF MoveWindow

LEMMA NewWindowOpted ==
    ASSUME Basics, Basics', Opted, Calm, Plain, NewWindow
    PROVE  OwnOpts' /\ FreshLast' /\ FreshPlaced'
<1>1. UNCHANGED <<plan, try>> /\ pos <= Len(plan) /\ Now.op = "window" /\ pos' = pos + 1 /\ placing' = 0
  BY DEF NewWindow, Applying, applying, WindowFails, WindowMade, Advance
<1>2. ProgressOK /\ ServerOK /\ OwnOpts'
  BY <1>1, PlainOwn DEF Basics, Opted
<1>3. PICK P : P = pos
  OBVIOUS
<1>4. CASE UNCHANGED live /\ WindowFails
  <2>1. Now.target \in failedWindows'
    BY <1>4 DEF WindowFails
  <2> QED  BY <1>1, <1>2, <1>3, <2>1, AdvancedOpted
<1>5. CASE AddWindow(Shifted(Now.target), Now.target.sess, Now.target.idx, NewName, Origin)
  <2>1. PICK target, vs, sess, idx, name, from :
            /\ target = Now.target /\ vs = Shifted(target) /\ sess = target.sess /\ idx = target.idx
            /\ name = NewName /\ from = Origin
    OBVIOUS
  <2>2. AddWindow(vs, sess, idx, name, from)
    BY <1>5, <2>1
  <2>3. target.idx \in Nat /\ target.id = 0 /\ Lined(windows)
    BY <1>1, <1>2, <2>1, NowIs, NewWindowIs, LinedNow
  <2>4. Reindexed(vs, windows)
    BY <2>1, <2>3, ShiftedIs
  <2>5. Added(vs, sess, idx, from)
    BY <1>2, <2>2, <2>4, AddedIs
  <2>6. /\ next \in DOMAIN windows' /\ windows'[next].sess = sess /\ windows'[next].idx = idx
        /\ panes'[windows'[next].active].from = from
    BY <1>2, <2>5, AddedGrows
  <2>7. PICK i : i = next
    OBVIOUS
  <2>8. /\ i \in DOMAIN windows' /\ windows'[i].sess = Now.target.sess /\ windows'[i].idx = Now.target.idx
        /\ panes'[windows'[i].active].from = Origin /\ Now.target.id = 0
    BY <2>1, <2>3, <2>6, <2>7
  <2>9. Fresh(P)'
    BY <1>1, <1>3, <2>8, FreshNow
  <2> QED  BY <1>1, <1>2, <1>3, <2>9, AdvancedOpted
<1> QED  BY <1>4, <1>5 DEF NewWindow

LEMMA SplitOpted ==
    ASSUME Basics, Basics', Opted, Calm, Plain, SplitPane
    PROVE  Calm' => OwnOpts' /\ FreshLast' /\ FreshPlaced'
<1>1. UNCHANGED <<plan, try, placing, failedWindows>> /\ pos <= Len(plan) /\ Now.op = "split" /\ pos' = pos + 1
  BY DEF SplitPane, Applying, applying, Skipped, SplitNow, Advance
<1>2. ProgressOK /\ PlacingOK /\ ServerOK /\ OwnOpts'
  BY <1>1, PlainOwn DEF Basics, Opted
<1>3. PICK P : P = pos
  OBVIOUS
<1>4. placing' = 0
  BY <1>1, <1>2 DEF PlacingOK
<1>5. CASE Skipped
  <2>1. Now.target \in failedWindows'
    BY <1>1, <1>5 DEF Skipped
  <2> QED  BY <1>1, <1>2, <1>3, <1>4, <2>1, AdvancedOpted
<1>6. CASE Fails("split") /\ UNCHANGED live
  <2>1. PICK r : r = [op |-> "split", from |-> Origin]
    OBVIOUS
  <2>2. r \in failed' /\ r.op = "split"
    BY <1>6, <2>1 DEF Fails
  <2> QED  BY <2>2 DEF Calm
<1>7. CASE \E w \in At(Now.target) : SplitInto(w)
  <2>1. PICK w \in At(Now.target) : SplitInto(w)
    BY <1>7
  <2>2. PICK from : from = Origin
    OBVIOUS
  <2>3. w \in DOMAIN windows /\ \/ Now.target.id = w
                                \/ /\ Now.target.id = 0
                                   /\ windows[w].sess = Now.target.sess /\ windows[w].idx = Now.target.idx
    BY <2>1 DEF At
  <2>4. /\ windows' = [windows EXCEPT ![w].active = next] /\ next' = next + 1
        /\ panes' = With(panes, next, [win |-> w, from |-> from, runs |-> 0, opts |-> Nobody])
    BY <2>1, <2>2 DEF SplitInto
  <2>5. /\ DOMAIN windows' = DOMAIN windows /\ windows'[w].active = next
        /\ windows'[w].sess = windows[w].sess /\ windows'[w].idx = windows[w].idx
        /\ DOMAIN panes' = DOMAIN panes \cup {next}
        /\ panes'[next].from = from /\ panes'[next].opts = Nobody
        /\ \A p \in DOMAIN panes : panes'[p] = panes[p]
    BY <1>2, <2>3, <2>4, SplitIs
  <2>6. panes'[windows'[w].active].from = Origin
    BY <2>2, <2>5
  <2>7. w \in DOMAIN windows'
    BY <2>3, <2>5
  <2>8. \/ Now.target.id = w
         \/ /\ Now.target.id = 0
            /\ windows'[w].sess = Now.target.sess /\ windows'[w].idx = Now.target.idx
    BY <2>3, <2>5
  <2>9. Now.target.id # 0 => Now.target.id = w
    BY <2>3
  <2>10. Fresh(P)'
    BY <1>1, <1>3, <2>6, <2>7, <2>8, <2>9, FreshNow
  <2> QED  BY <1>1, <1>2, <1>3, <1>4, <2>10, AdvancedOpted
<1> QED  BY <1>5, <1>6, <1>7 DEF SplitPane, SplitNow
\* set-option takes effect on the pane it is for.
LEMMA OptionHits ==
    ASSUME Basics, Opted, Calm, pos <= Len(plan), Now.op = "option", Now.target \notin failedWindows,
           NEW w \in At(Now.target)
    PROVE  panes[windows[w].active].from = Origin
<1>1. PICK P : P = pos
  OBVIOUS
<1>2. /\ P \in DOMAIN plan /\ Now = plan[P] /\ Origin = <<try, Now.from[1], Now.from[2], Now.from[3]>>
      /\ Sound(plan) /\ placing = 0 /\ P \in Nat
  BY <1>1, NowIs DEF Basics, ProgressOK, PlacingOK, PlanOK
<1>3. PICK x : x = P - 1
  OBVIOUS
<1>4. x \in DOMAIN plan /\ plan[x].op \in Makes /\ plan[x].from = Now.from /\ plan[x].target = Now.target
  BY <1>2, <1>3 DEF Sound
<1>5. x + 1 = pos
  BY <1>1, <1>2, <1>3
<1>6. Fresh(x)
  BY <1>2, <1>4, <1>5 DEF Opted, FreshLast
<1>7. PICK i \in At(Now.target) : ActiveFrom(i) = Origin
  BY <1>2, <1>4, <1>6 DEF Fresh
<1>8. i = w
  <2>1. i \in DOMAIN windows /\ w \in DOMAIN windows
    BY AtIn
  <2> QED  BY <1>7, <2>1 DEF At, Basics, ServerOK, WindowsOK, Apart
<1> QED  BY <1>7, <1>8 DEF ActiveFrom

\* A pane's options are those of its origin, or as before.
LEMMA OptionOpted ==
    ASSUME Basics, Basics', Opted, SetOption
    PROVE  /\ \A p \in DOMAIN panes' : panes'[p].opts[1] \in 0 .. try'
           /\ Calm => OwnOpts' /\ FreshLast' /\ FreshPlaced'
<1>1. UNCHANGED <<plan, try, placing, failedWindows>> /\ pos <= Len(plan) /\ Now.op = "option" /\ pos' = pos + 1
  BY DEF SetOption, Applying, applying, Skipped, Advance
<1>2. ProgressOK /\ PlacingOK /\ ServerOK /\ try \in Nat
  BY DEF Basics, ProgressOK
<1>3. PICK P : P = pos
  OBVIOUS
<1>4. placing' = 0 /\ Now.op \notin Makes
  BY <1>1, <1>2 DEF PlacingOK, Makes
<1>5. CASE UNCHANGED panes
  <2>1. Plain
    BY <1>5, PlainSame
  <2>2. \A p \in DOMAIN panes' : panes'[p].opts[1] \in 0 .. try'
    BY <1>5, <1>1 DEF Opted
  <2>3. Calm => OwnOpts'
    BY <1>1, <2>1, PlainOwn DEF Opted
  <2> QED  BY <1>1, <1>3, <1>4, <2>2, <2>3, AdvancedOpted
<1>6. CASE /\ Now.target \notin failedWindows /\ UNCHANGED <<windows, next>>
           /\ \E w \in At(Now.target) : panes' = [panes EXCEPT ![windows[w].active].opts = Origin]
  <2>1. PICK w \in At(Now.target) : panes' = [panes EXCEPT ![windows[w].active].opts = Origin]
    BY <1>6
  <2>2. PICK o, q : o = Origin /\ q = windows[w].active
    OBVIOUS
  <2>3. o \in Origins /\ q \in DOMAIN panes /\ o[1] = try
    <3>1. w \in DOMAIN windows
      BY <2>1, AtIn
    <3>2. Origin \in Origins /\ Origin[1] = try
      <4>1. Origin \in Origins /\ Origin = <<try, Now.from[1], Now.from[2], Now.from[3]>>
        BY <1>1, <1>2, NowIs
      <4> QED  BY <4>1
    <3> QED  BY <1>2, <2>2, <3>1, <3>2 DEF ServerOK, PanesOK
  <2>4. panes' = [panes EXCEPT ![q].opts = o]
    BY <2>1, <2>2
  <2>5. /\ DOMAIN panes' = DOMAIN panes /\ \A p \in DOMAIN panes : p # q => panes'[p] = panes[p]
        /\ panes'[q].opts = o /\ panes'[q].from = panes[q].from
    BY <1>2, <1>6, <2>3, <2>4, OptedIs
  <2>6. \A p \in DOMAIN panes' : panes'[p].opts[1] \in 0 .. try'
    BY <1>1, <1>2, <2>3, <2>5 DEF Opted
  <2>7. Calm => OwnOpts'
    <3> SUFFICES ASSUME Calm PROVE OwnOpts'
      OBVIOUS
    <3>1. panes[q].from = o
      BY <1>1, <1>6, <2>1, <2>2, OptionHits
    <3>2. OwnOpts
      BY DEF Opted
    <3> QED  BY <1>1, <2>5, <3>1, <3>2 DEF OwnOpts
  <2> QED  BY <1>1, <1>3, <1>4, <2>6, <2>7, AdvancedOpted
<1> QED  BY <1>5, <1>6 DEF SetOption, Skipped, live

\* Layouts, bridges and respawns set no option.
LEMMA OtherOpted ==
    ASSUME Basics, Basics', Opted, Calm, Plain, SetLayout \/ ReopenBridge \/ Respawn
    PROVE  OwnOpts' /\ FreshLast' /\ FreshPlaced'
<1>1. UNCHANGED <<plan, try, placing, failedWindows, windows>>
  BY DEF SetLayout, ReopenBridge, Respawn, applying, Skipped, live
<1>2. ProgressOK /\ PlacingOK /\ ServerOK /\ OwnOpts'
  BY <1>1, PlainOwn DEF Basics, Opted
<1>3. PICK P : P = pos
  OBVIOUS
<1>4. CASE SetLayout \/ ReopenBridge
  <2>1. pos <= Len(plan) /\ Now.op \in {"layout", "bridge"} /\ pos' = pos + 1
    BY <1>4 DEF SetLayout, ReopenBridge, Applying, Skipped, Advance
  <2>2. placing' = 0 /\ Now.op \notin Makes
    BY <1>1, <1>2, <2>1 DEF PlacingOK, Makes
  <2> QED  BY <1>1, <1>2, <1>3, <2>1, <2>2, AdvancedOpted
<1>5. CASE Respawn
  <2>1. UNCHANGED <<pos, next>>
    BY <1>5 DEF Respawn
  <2>2. \A p \in DOMAIN panes : panes'[p].from = panes[p].from
    BY <1>5, RespawnIs DEF Basics
  <2>3. Held
    BY <1>1, <1>2, <2>2, HeldSame
  <2> QED  BY <1>1, <2>1, <2>3, HeldOpted
<1> QED  BY <1>4, <1>5

\* What failed stays reported.
LEMMA ReportsStay == ASSUME ApplyStep PROVE failed \subseteq failed'
BY DEF ApplyStep, CreateSession, MoveWindow, NewWindow, SplitPane, SplitNow, SplitInto, SetOption, SetLayout,
       SettleWindow, LayoutSet, LayoutFails, ReopenBridge, Respawn, Skipped, WindowFails, WindowMade, Fails

LEMMA ApplyOpted ==
    ASSUME Basics, Basics', Opted, ApplyStep
    PROVE  Opted'
<1>1. UNCHANGED <<try, touched>> /\ try \in Nat
  BY DEF ApplyStep, CreateSession, MoveWindow, NewWindow, SplitPane, SetOption, SetLayout, ReopenBridge,
         Respawn, applying, Basics, ProgressOK
<1>2. Calm' => Calm
  BY <1>1, ReportsStay DEF Calm
<1>3. ASSUME Plain, Calm' => OwnOpts' /\ FreshLast' /\ FreshPlaced' PROVE Opted'
  <2>1. \A p \in DOMAIN panes' : panes'[p].opts[1] \in 0 .. try'
    BY <1>1, <1>3, PlainBelow DEF Opted
  <2> QED  BY <1>3, <2>1 DEF Opted
<1>4. CASE SetOption
  BY <1>2, <1>4, OptionOpted DEF Opted
<1>5. CASE ~SetOption
  <2>1. Plain
    BY <1>5, ApplyPlain
  <2>2. Calm' => OwnOpts' /\ FreshLast' /\ FreshPlaced'
    <3> SUFFICES ASSUME Calm' PROVE OwnOpts' /\ FreshLast' /\ FreshPlaced'
      OBVIOUS
    <3>1. CASE SplitPane
      BY <1>2, <2>1, <3>1, SplitOpted
    <3>2. CASE CreateSession \/ MoveWindow \/ NewWindow
      BY <1>2, <2>1, <3>2, CreateOpted, MoveOpted, NewWindowOpted
    <3>3. CASE SetLayout \/ ReopenBridge \/ Respawn
      BY <1>2, <2>1, <3>3, OtherOpted
    <3> QED  BY <1>5, <3>1, <3>2, <3>3 DEF ApplyStep
  <2> QED  BY <1>3, <2>1, <2>2
<1> QED  BY <1>4, <1>5

\* Users give no pane of ours options, and as long as they only open windows
\* every window keeps its active pane.
LEMMA UserOpted ==
    ASSUME Basics, Basics', Opted, UserStep
    PROVE  Opted'
<1>1. UNCHANGED <<plan, try, pos, placing, failed, failedWindows>> /\ touched \subseteq touched'
  BY DEF UserStep, UserSession, UserWindow, SelectPane, ClosePane, UserAct, progress
<1>2. try \in Nat /\ ServerOK
  BY DEF Basics, ProgressOK
<1>3. Calm' => Calm
  BY <1>1 DEF Calm
<1>4. CASE UserSession \/ UserWindow
  <2>1. PICK n, k, name, from : AddWindow(windows, n, k, name, from)
    BY <1>4 DEF UserSession, UserWindow
  <2>2. PICK vs : vs = windows
    OBVIOUS
  <2>3. AddWindow(vs, n, k, name, from) /\ Reindexed(vs, windows)
    BY <1>2, <2>1, <2>2, LinedNow
  <2>4. Added(vs, n, k, from)
    BY <1>2, <2>3, AddedIs
  <2>5. Plain /\ Held
    BY <1>2, <2>2, <2>4, AddedGrows, GrowsPlain
  <2>6. \A p \in DOMAIN panes' : panes'[p].opts[1] \in 0 .. try'
    BY <1>1, <1>2, <2>5, PlainBelow DEF Opted
  <2>7. Calm => OwnOpts' /\ FreshLast' /\ FreshPlaced'
    BY <1>1, <2>5, HeldOpted
  <2> QED  BY <1>3, <2>6, <2>7 DEF Opted
<1>5. CASE SelectPane \/ ClosePane
  <2>1. ~Calm'
    <3>1. "select" \in touched' \/ "close" \in touched'
      BY <1>5 DEF SelectPane, ClosePane, UserAct
    <3> QED  BY <3>1 DEF Calm
  <2>2. \A p \in DOMAIN panes' : p \in DOMAIN panes /\ panes'[p] = panes[p]
    <3>1. CASE SelectPane
      BY <3>1 DEF SelectPane
    <3>2. CASE ClosePane
      BY <1>2, <3>2, CloseStays
    <3> QED  BY <1>5, <3>1, <3>2
  <2> QED  BY <1>1, <2>1, <2>2 DEF Opted
<1> QED  BY <1>4, <1>5 DEF UserStep

LEMMA OptedNext == Basics /\ Opted /\ [Next]_vars => Opted'
<1> SUFFICES ASSUME Basics, Opted, [Next]_vars PROVE Opted'
  OBVIOUS
<1>1. Basics'
  BY BasicsNext
<1>2. try \in Nat /\ pos \in Nat
  BY DEF Basics, ProgressOK
<1>3. CASE Start
  <2>1. UNCHANGED panes /\ try' = try + 1 /\ pos' = 1 /\ placing' = 0
    BY <1>3 DEF Start, live
  <2>2. \A p \in DOMAIN panes' : panes'[p].opts[1] \in 0 .. try /\ panes'[p].opts[1] \in 0 .. try'
    BY <1>2, <2>1 DEF Opted
  <2>3. OwnOpts'
    BY <1>2, <2>1, <2>2 DEF OwnOpts
  <2>4. FreshLast'
    <3>1. \A x \in DOMAIN plan' : x \in Nat \ {0}
      BY <1>1 DEF Basics, ProgressOK, PlanOK
    <3> QED  BY <2>1, <3>1 DEF FreshLast
  <2>5. FreshPlaced'
    BY <2>1 DEF FreshPlaced
  <2> QED  BY <2>2, <2>3, <2>4, <2>5 DEF Opted
<1>4. CASE ApplyStep
  BY <1>1, <1>4, ApplyOpted
<1>5. CASE UserStep
  BY <1>1, <1>5, UserOpted
<1>6. CASE UNCHANGED vars \/ Finish \/ Die
  <2>1. UNCHANGED <<windows, panes, plan, try, pos, placing, failed, failedWindows, touched>>
    BY <1>6 DEF vars, Finish, Die, live, progress
  <2> QED  BY <2>1 DEF Opted, Calm, OwnOpts, FreshLast, FreshPlaced, Fresh, ActiveFrom, At, Origin, Now
<1> QED  BY <1>3, <1>4, <1>5, <1>6 DEF Next

\* Where users open windows at most and no split failed, the options a pane is
\* given are those recorded for it, though set-option names only its window: its
\* creation left it active, and the plan goes from one straight to the other.
THEOREM OptionsOnOwnPaneCorrect == Spec => []OptionsOnOwnPane
<1>1. Init => Basics /\ Opted
  <2> SUFFICES ASSUME Init PROVE Basics /\ Opted
    OBVIOUS
  <2>1. Basics /\ try = 0 /\ plan = <<>> /\ placing = 0
    BY BasicsInit DEF Init
  <2>2. \A p \in DOMAIN panes : panes[p].opts = Nobody
    BY DEF Init
  <2>3. OwnOpts /\ FreshLast /\ FreshPlaced
    BY <2>1 DEF OwnOpts, FreshLast, FreshPlaced
  <2>4. \A p \in DOMAIN panes : panes[p].opts[1] \in 0 .. try
    BY <2>1, <2>2, NobodyIs
  <2> QED  BY <2>1, <2>3, <2>4 DEF Opted
<1>2. Basics /\ Opted /\ [Next]_vars => Basics' /\ Opted'
  BY BasicsNext, OptedNext
<1>3. Basics /\ Opted => OptionsOnOwnPane
  <2> SUFFICES ASSUME Basics, Opted, Calm, NEW p \in DOMAIN panes, panes[p].opts[1] = try, try > 0
               PROVE  panes[p].opts = panes[p].from
    BY DEF OptionsOnOwnPane, Calm
  <2>1. try # 0 /\ OwnOpts
    BY DEF Basics, ProgressOK, Opted
  <2> QED  BY <2>1 DEF OwnOpts
<1> QED  BY <1>1, <1>2, <1>3, PTL DEF Spec

-----------------------------------------------------------------------------
(* Every pane accounted for *)

NameOf(x) == <<try, plan[x].from[1], plan[x].from[2], plan[x].from[3]>>
NeedsRun(f) == PaneOf(<<f[2], f[3], f[4]>>).startup
Report(op, f) == [op |-> op, from |-> f]

\* Pane p waits for its startup command.
Waits(p) ==
    \/ \E k \in DOMAIN pending : pending[k].pane = p
    \/ \E k \in DOMAIN batch : batch[k].pane = p

Rests(p) == p \in DOMAIN panes => panes[p].runs = 0 /\ NeedsRun(panes[p].from)

\* Each pane waits once, and for a window that was made and has yet to settle.
QueueOK ==
    /\ Distinct(pending) /\ Distinct(batch)
    /\ \A j \in DOMAIN pending, k \in DOMAIN batch : pending[j].pane # batch[k].pane
    /\ \A p \in Nat : Waits(p) => Rests(p)
    /\ \A k \in DOMAIN pending :
         /\ pending[k].target \notin failedWindows
         /\ \E x \in DOMAIN plan : x < pos /\ plan[x].op \in Makes /\ plan[x].target = pending[k].target
         /\ \E y \in DOMAIN plan : pos <= y /\ plan[y].op = "layout" /\ plan[y].target = pending[k].target

\* The window that new-session made still has its pane, which nothing started.
AtHand ==
    placing # 0 =>
        /\ ~Waits(placing)
        /\ IF placing \in DOMAIN panes
           THEN panes[placing].from = Origin /\ panes[placing].runs = 0
           ELSE Origin \in closed

\* A window that failed is one of the plan's, and was reported.
FailedOK ==
    \A t \in failedWindows : \E x \in DOMAIN plan :
        /\ x < pos /\ plan[x].op = "window" /\ plan[x].target = t
        /\ Report("window", NameOf(x)) \in failed

Back(x) ==
    \E p \in DOMAIN panes :
        panes[p].from = NameOf(x) /\ panes[p].runs = IF NeedsRun(NameOf(x)) THEN 1 ELSE 0
Reported(x) ==
    \/ \E f \in failed : f.from = NameOf(x) /\ f.op # "layout"
    \/ \E y \in DOMAIN plan :
         /\ Report("window", NameOf(y)) \in failed
         /\ plan[y].from[1] = plan[x].from[1] /\ plan[y].from[2] = plan[x].from[2]
Due(x) ==
    \E p \in DOMAIN panes :
        panes[p].from = NameOf(x) /\ panes[p].runs = 0 /\ NeedsRun(NameOf(x)) /\ Waits(p)

Settled(x) == Back(x) \/ NameOf(x) \in closed \/ Reported(x) \/ Due(x)

SettledAll == \A x \in DOMAIN plan : x < pos /\ plan[x].op \in Makes => Settled(x)

\* The panes there were are as they were, or users closed them.
Unrun ==
    \A p \in DOMAIN panes :
        IF p \in DOMAIN panes'
        THEN panes'[p].from = panes[p].from /\ panes'[p].runs = panes[p].runs
        ELSE panes[p].from \in closed'

Same == UNCHANGED <<plan, try, item>>

LEMMA NamedAlike ==
    ASSUME Same
    PROVE  /\ \A x : NameOf(x)' = NameOf(x)
           /\ \A f : NeedsRun(f)' = NeedsRun(f)
BY DEF Same, NameOf, NeedsRun, PaneOf, WinOf

LEMMA SettledKept ==
    ASSUME Same, Unrun, closed \subseteq closed', failed \subseteq failed',
           \A p : Waits(p) => Waits(p)', NEW x \in DOMAIN plan, Settled(x)
    PROVE  Settled(x)'
<1>1. PICK n : n = NameOf(x)
  OBVIOUS
<1>2. NameOf(x)' = n /\ NeedsRun(n)' = NeedsRun(n)
  BY <1>1, NamedAlike
<1>3. CASE Back(x)
  <2>1. PICK p \in DOMAIN panes : panes[p].from = n /\ panes[p].runs = IF NeedsRun(n) THEN 1 ELSE 0
    BY <1>1, <1>3 DEF Back
  <2>2. CASE p \in DOMAIN panes'
    BY <1>2, <2>1, <2>2 DEF Unrun, Settled, Back
  <2>3. CASE p \notin DOMAIN panes'
    BY <1>2, <2>1, <2>3 DEF Unrun, Settled
  <2> QED  BY <2>2, <2>3
<1>4. CASE NameOf(x) \in closed
  BY <1>1, <1>2, <1>4 DEF Settled
<1>5. CASE Reported(x)
  <2>1. CASE \E f \in failed : f.from = NameOf(x) /\ f.op # "layout"
    BY <1>1, <1>2, <2>1 DEF Settled, Reported
  <2>2. CASE \E y \in DOMAIN plan :
              /\ Report("window", NameOf(y)) \in failed
              /\ plan[y].from[1] = plan[x].from[1] /\ plan[y].from[2] = plan[x].from[2]
    <3>1. PICK y \in DOMAIN plan :
              /\ Report("window", NameOf(y)) \in failed
              /\ plan[y].from[1] = plan[x].from[1] /\ plan[y].from[2] = plan[x].from[2]
      BY <2>2
    <3>2. NameOf(y)' = NameOf(y)
      BY NamedAlike
    <3>3. Report("window", NameOf(y))' \in failed'
      BY <3>1, <3>2 DEF Report
    <3> QED  BY <3>1, <3>3 DEF Settled, Reported, Same
  <2> QED  BY <1>5, <2>1, <2>2 DEF Reported
<1>6. CASE Due(x)
  <2>1. PICK p \in DOMAIN panes : panes[p].from = n /\ panes[p].runs = 0 /\ NeedsRun(n) /\ Waits(p)
    BY <1>1, <1>6 DEF Due
  <2>2. CASE p \in DOMAIN panes'
    BY <1>2, <2>1, <2>2 DEF Unrun, Settled, Due
  <2>3. CASE p \notin DOMAIN panes'
    BY <1>2, <2>1, <2>3 DEF Unrun, Settled
  <2> QED  BY <2>2, <2>3
<1> QED  BY <1>3, <1>4, <1>5, <1>6 DEF Settled

\* The pane of the plan's step is there, and waits if it has a command.
LEMMA MadeSettled ==
    ASSUME ProgressOK, pos <= Len(plan), Same, NEW P, P = pos, NEW p,
           \/ p \in DOMAIN panes' /\ panes'[p].from = Origin /\ panes'[p].runs = 0
           \/ Origin \in closed',
           NeedsRun(Origin) => Waits(p)'
    PROVE  Settled(P)'
<1>1. NameOf(P) = Origin
  BY NowIs DEF NameOf
<1>2. PICK n : n = Origin
  OBVIOUS
<1>3. NameOf(P)' = n /\ NeedsRun(n)' = NeedsRun(n)
  BY <1>1, <1>2, NamedAlike
<1>4. CASE Origin \in closed'
  BY <1>2, <1>3, <1>4 DEF Settled
<1>5. CASE p \in DOMAIN panes' /\ panes'[p].from = Origin /\ panes'[p].runs = 0
  <2>1. CASE NeedsRun(n)
    BY <1>2, <1>3, <1>5, <2>1 DEF Settled, Due
  <2>2. CASE ~NeedsRun(n)
    BY <1>2, <1>3, <1>5, <2>2 DEF Settled, Back
  <2> QED  BY <2>1, <2>2
<1> QED  BY <1>4, <1>5

LEMMA ReportSettled ==
    ASSUME ProgressOK, pos <= Len(plan), Same, NEW P, P = pos, NEW op, op # "layout", Fails(op)
    PROVE  Settled(P)'
<1>1. NameOf(P) = Origin
  BY NowIs DEF NameOf
<1>2. PICK n : n = Origin
  OBVIOUS
<1>3. NameOf(P)' = n
  BY <1>1, <1>2, NamedAlike
<1>4. PICK r : r = [op |-> op, from |-> n]
  OBVIOUS
<1>5. r \in failed' /\ r.op # "layout" /\ r.from = n
  BY <1>2, <1>4 DEF Fails
<1> QED  BY <1>3, <1>5 DEF Settled, Reported

\* Steps with one target are about one window.
LEMMA SameWindow ==
    ASSUME ProgressOK, ByIndex, NEW x \in DOMAIN plan, NEW y \in DOMAIN plan, plan[x].target = plan[y].target
    PROVE  plan[x].from[1] = plan[y].from[1] /\ plan[x].from[2] = plan[y].from[2]
<1>1. /\ About(plan[x], plan[x].from[1], plan[x].from[2]) /\ About(plan[y], plan[y].from[1], plan[y].from[2])
  BY DEF ByIndex
<1>2. PICK s, v, t, u : s = plan[x].from[1] /\ v = plan[x].from[2] /\ t = plan[y].from[1] /\ u = plan[y].from[2]
  OBVIOUS
<1>3. s \in DOMAIN item.sessions /\ v \in DOMAIN Wins(s) /\ t \in DOMAIN item.sessions /\ u \in DOMAIN Wins(t)
  BY <1>1, <1>2 DEF About
<1>4. IndexTarget(s, v) = IndexTarget(t, u)
  BY <1>1, <1>2 DEF About
<1>5. s = t /\ v = u
  BY <1>3, <1>4, TargetsDiffer DEF ProgressOK
<1> QED  BY <1>2, <1>5

\* What is aimed at a failed window is named by that failure.
LEMMA SkipSettled ==
    ASSUME ProgressOK, pos <= Len(plan), Same, failed \subseteq failed', FailedOK, NEW P, P = pos,
           Now.target \in failedWindows
    PROVE  Settled(P)'
<1>1. Now = plan[P] /\ P \in DOMAIN plan
  BY NowIs
<1>2. PICK x \in DOMAIN plan : /\ x < pos /\ plan[x].op = "window" /\ plan[x].target = plan[P].target
                               /\ Report("window", NameOf(x)) \in failed
  BY <1>1 DEF FailedOK
<1>3. plan[x].from[1] = plan[P].from[1] /\ plan[x].from[2] = plan[P].from[2]
  BY <1>1, <1>2, SameWindow, WindowStepIs
<1>4. NameOf(x)' = NameOf(x)
  BY NamedAlike
<1>5. Report("window", NameOf(x))' \in failed'
  BY <1>2, <1>4 DEF Report
<1> QED  BY <1>1, <1>2, <1>3, <1>5 DEF Settled, Reported, Same

\* A window that is about to be made is not one that panes have been put into.
LEMMA Unmade ==
    ASSUME ProgressOK, pos <= Len(plan), Now.op = "window", NEW x \in DOMAIN plan, x < pos, plan[x].op \in Makes
    PROVE  plan[x].target # Now.target
<1>1. pos \in DOMAIN plan /\ Now = plan[pos]
  BY NowIs
<1>2. ByIndex
  BY <1>1, WindowStepIs
<1>3. PICK y \in DOMAIN plan : y < pos /\ plan[y].op = "window" /\ plan[y].target = plan[x].target
  <2>1. CASE plan[x].op = "window"
    BY <2>1
  <2>2. CASE plan[x].op = "split"
    <3>1. PICK y \in DOMAIN plan : y < x /\ plan[y].op = "window" /\ plan[y].target = plan[x].target
      BY <1>2, <2>2 DEF ByIndex, Rooted
    <3>2. y < pos
      <4>1. x \in Nat /\ y \in Nat /\ pos \in Nat
        BY DEF ProgressOK, PlanOK
      <4> QED  BY <3>1, <4>1
    <3> QED  BY <3>1, <3>2
  <2> QED  BY <2>1, <2>2 DEF Makes
<1>4. y # pos
  BY <1>3 DEF ProgressOK, PlanOK
<1>5. plan[y].target # plan[pos].target
  BY <1>1, <1>3, <1>4, WindowStepsDiffer
<1> QED  BY <1>1, <1>3, <1>5

LEMMA WaitsBelow ==
    ASSUME ProgressOK, NEW p, Waits(p)
    PROVE  p \in Nat /\ p < next
<1>1. /\ \A k \in DOMAIN pending : pending[k] \in Waiting /\ pending[k].pane < next
      /\ \A k \in DOMAIN batch : batch[k] \in Waiting /\ batch[k].pane < next
  BY DEF ProgressOK
<1>2. /\ \A k \in DOMAIN pending : pending[k].pane \in Nat
      /\ \A k \in DOMAIN batch : batch[k].pane \in Nat
  BY <1>1 DEF Waiting
<1> QED  BY <1>1, <1>2 DEF Waits

LEMMA RestsKept ==
    ASSUME Stays, Same, Unrun, NEW p, p < next, Rests(p)
    PROVE  Rests(p)'
<1>1. p \in DOMAIN panes' => p \in DOMAIN panes
  BY DEF Stays
<1>2. NeedsRun(panes[p].from)' = NeedsRun(panes'[p].from)
  BY DEF Same, NeedsRun, PaneOf, WinOf
<1> SUFFICES ASSUME p \in DOMAIN panes' PROVE panes'[p].runs = 0 /\ NeedsRun(panes[p].from)'
  BY DEF Rests
<1>3. panes[p].runs = 0 /\ NeedsRun(panes[p].from) /\ panes'[p].runs = panes[p].runs /\ panes'[p].from = panes[p].from
  BY <1>1 DEF Rests, Unrun
<1> QED  BY <1>2, <1>3

LEMMA StartsIs ==
    ASSUME ProgressOK, pos <= Len(plan)
    PROVE  NowStarts = NeedsRun(Origin)
<1>1. Now.from \in Froms /\ Origin = <<try, Now.from[1], Now.from[2], Now.from[3]>>
  BY NowIs
<1>2. PICK a \in Nat, b \in Nat, c \in Nat : Now.from = <<a, b, c>>
  BY <1>1 DEF Froms
<1>3. Origin = <<try, a, b, c>>
  BY <1>1, <1>2
<1>4. PICK f : f = Origin
  OBVIOUS
<1>5. <<f[2], f[3], f[4]>> = <<a, b, c>>
  BY <1>3, <1>4
<1>6. Now.from = <<f[2], f[3], f[4]>>
  BY <1>2, <1>5
<1> QED  BY <1>4, <1>6 DEF NowStarts, NeedsRun

\* The queues are as they were, the plan may go on.
LEMMA QueueKept ==
    ASSUME Basics, Basics', Stays, QueueOK, Same, Unrun, UNCHANGED <<pending, batch>>,
           \/ UNCHANGED <<pos, failedWindows>>
           \/ /\ pos' = pos + 1 /\ pos <= Len(plan)
              /\ Now.op # "layout" \/ Now.target \in failedWindows
              /\ \/ UNCHANGED failedWindows
                 \/ Now.op = "window" /\ failedWindows' = failedWindows \union {Now.target}
    PROVE  QueueOK'
<1>1. ProgressOK /\ pos \in Nat /\ \A x \in DOMAIN plan : x \in Nat
  BY DEF Basics, ProgressOK, PlanOK
<1>2. Distinct(pending)' /\ Distinct(batch)'
  BY DEF QueueOK, Distinct
<1>3. \A j \in DOMAIN pending', k \in DOMAIN batch' : pending'[j].pane # batch'[k].pane
  BY DEF QueueOK
<1>4. ASSUME NEW p \in Nat, Waits(p)' PROVE Rests(p)'
  <2>1. Waits(p)
    BY <1>4 DEF Waits
  <2>2. p < next /\ Rests(p)
    BY <1>1, <2>1, WaitsBelow DEF QueueOK
  <2> QED  BY <2>2, RestsKept
<1>5. ASSUME NEW k \in DOMAIN pending'
      PROVE  /\ pending'[k].target \notin failedWindows'
             /\ \E x \in DOMAIN plan' : x < pos' /\ plan'[x].op \in Makes /\ plan'[x].target = pending'[k].target
             /\ \E y \in DOMAIN plan' : pos' <= y /\ plan'[y].op = "layout" /\ plan'[y].target = pending'[k].target
  <2>1. PICK T : T = pending[k].target
    OBVIOUS
  <2>2. T \notin failedWindows
    BY <1>5, <2>1 DEF QueueOK
  <2>3. PICK x \in DOMAIN plan : x < pos /\ plan[x].op \in Makes /\ plan[x].target = T
    BY <1>5, <2>1 DEF QueueOK
  <2>4. PICK y \in DOMAIN plan : pos <= y /\ plan[y].op = "layout" /\ plan[y].target = T
    BY <1>5, <2>1 DEF QueueOK
  <2>5. T \notin failedWindows'
    <3>1. pos <= Len(plan) /\ Now.op = "window" => T # Now.target
      BY <1>1, <2>3, Unmade
    <3> QED  BY <2>2, <3>1
  <2>6. pos' <= y
    <3>1. CASE UNCHANGED pos
      BY <2>4, <3>1
    <3>2. CASE pos' = pos + 1 /\ pos <= Len(plan) /\ (Now.op # "layout" \/ Now.target \in failedWindows)
      <4>1. Now = plan[pos]
        BY DEF Now
      <4>2. pos # y
        BY <2>2, <2>4, <3>2, <4>1
      <4> QED  BY <1>1, <2>4, <3>2, <4>2
    <3> QED  BY <3>1, <3>2
  <2>7. x < pos'
    BY <1>1, <2>3
  <2> QED  BY <2>1, <2>3, <2>4, <2>5, <2>6, <2>7 DEF Same
<1> QED  BY <1>2, <1>3, <1>4, <1>5 DEF QueueOK

\* The pane that the plan's step made is put into the queue.
LEMMA QueueMade ==
    ASSUME Basics, Basics', Stays, QueueOK, Same, Unrun, UNCHANGED <<batch, failedWindows>>,
           pos' = pos + 1, pos <= Len(plan), Now.op \in Makes, Now.target \notin failedWindows,
           NEW p \in Nat, Queue(p), ~Waits(p),
           p \in DOMAIN panes' => panes'[p].from = Origin /\ panes'[p].runs = 0
    PROVE  /\ QueueOK'
           /\ \A q : Waits(q) => Waits(q)'
           /\ NeedsRun(Origin) => Waits(p)'
<1>1. /\ ProgressOK /\ pos \in Nat /\ (\A x \in DOMAIN plan : x \in Nat) /\ Sound(plan)
      /\ pending \in Seq(Waiting)
  BY DEF Basics, ProgressOK, PlanOK
<1>2. /\ pos \in DOMAIN plan /\ Now = plan[pos] /\ NowStarts = NeedsRun(Origin)
      /\ Now.target \in Targets
  BY <1>1, NowIs, StartsIs
<1>3. CASE ~NowStarts
  <2>1. UNCHANGED pending
    BY <1>3 DEF Queue
  <2>2. Now.op # "layout"
    BY DEF Makes
  <2>3. QueueOK'
    BY <2>1, <2>2, QueueKept
  <2> QED  BY <1>2, <1>3, <2>1, <2>3 DEF Waits
<1>4. CASE NowStarts
  <2>1. PICK e : e = [target |-> Now.target, pane |-> p]
    OBVIOUS
  <2>2. PICK f, g : f = pending /\ g = pending'
    OBVIOUS
  <2>3. e \in Waiting /\ e.pane = p /\ e.target = Now.target /\ g = Append(f, e) /\ f \in Seq(Waiting)
    BY <1>1, <1>2, <1>4, <2>1, <2>2 DEF Queue, Waiting
  <2>4. /\ Len(f) \in Nat /\ DOMAIN f = 1 .. Len(f) /\ DOMAIN g = 1 .. Len(f) + 1
        /\ (\A k \in DOMAIN f : g[k] = f[k]) /\ g[Len(f) + 1] = e
    BY <2>3
  <2>5. \A k \in DOMAIN g : k \in DOMAIN f \/ k = Len(f) + 1
    BY <2>4
  <2>6. /\ \A k \in DOMAIN f : f[k].pane # p
        /\ \A k \in DOMAIN batch : batch[k].pane # p
    BY <2>2 DEF Waits
  <2>7. Distinct(g)
    <3>1. Distinct(f)
      BY <2>2 DEF QueueOK
    <3> QED  BY <2>3, <2>4, <2>5, <2>6, <3>1 DEF Distinct
  <2>8. \A j \in DOMAIN g, k \in DOMAIN batch : g[j].pane # batch[k].pane
    <3>1. \A j \in DOMAIN f, k \in DOMAIN batch : f[j].pane # batch[k].pane
      BY <2>2 DEF QueueOK
    <3> QED  BY <2>3, <2>4, <2>5, <2>6, <3>1
  <2>9. \A q : Waits(q)' => Waits(q) \/ q = p
    <3>1. \A q : (\E k \in DOMAIN g : g[k].pane = q) => (\E k \in DOMAIN f : f[k].pane = q) \/ q = p
      BY <2>3, <2>4, <2>5
    <3> QED  BY <2>2, <3>1 DEF Waits
  <2>10. ASSUME NEW q \in Nat, Waits(q)' PROVE Rests(q)'
    <3>1. CASE Waits(q)
      <4>1. q < next /\ Rests(q)
        BY <1>1, <3>1, WaitsBelow DEF QueueOK
      <4> QED  BY <4>1, RestsKept
    <3>2. CASE q = p
      <4>1. NeedsRun(Origin)
        BY <1>2, <1>4
      <4>2. PICK o : o = Origin
        OBVIOUS
      <4>3. NeedsRun(o)' = NeedsRun(o)
        BY NamedAlike
      <4>4. p \in DOMAIN panes' => panes'[p].runs = 0 /\ panes'[p].from = o /\ NeedsRun(o)'
        BY <4>1, <4>2, <4>3
      <4> QED  BY <3>2, <4>4 DEF Rests, NeedsRun
    <3> QED  BY <2>9, <2>10, <3>1, <3>2
  <2>11. ASSUME NEW k \in DOMAIN g
         PROVE  /\ g[k].target \notin failedWindows'
                /\ \E x \in DOMAIN plan' : x < pos' /\ plan'[x].op \in Makes /\ plan'[x].target = g[k].target
                /\ \E y \in DOMAIN plan' : pos' <= y /\ plan'[y].op = "layout" /\ plan'[y].target = g[k].target
    <3>1. CASE k \in DOMAIN f
      <4>1. PICK T : T = f[k].target
        OBVIOUS
      <4>2. T \notin failedWindows
        BY <2>2, <3>1, <4>1 DEF QueueOK
      <4>3. PICK x \in DOMAIN plan : x < pos /\ plan[x].op \in Makes /\ plan[x].target = T
        BY <2>2, <3>1, <4>1 DEF QueueOK
      <4>4. PICK y \in DOMAIN plan : pos <= y /\ plan[y].op = "layout" /\ plan[y].target = T
        BY <2>2, <3>1, <4>1 DEF QueueOK
      <4>5. pos # y
        BY <1>2, <4>4 DEF Makes
      <4>6. x < pos' /\ pos' <= y
        BY <1>1, <4>3, <4>4, <4>5
      <4>7. g[k].target = T
        BY <2>4, <3>1, <4>1
      <4> QED  BY <4>2, <4>3, <4>4, <4>6, <4>7 DEF Same
    <3>2. CASE k = Len(f) + 1
      <4>1. g[k].target = plan[pos].target
        BY <1>2, <2>3, <2>4, <3>2
      <4>2. PICK y \in DOMAIN plan : pos < y /\ plan[y].op = "layout" /\ plan[y].target = plan[pos].target
        BY <1>1, <1>2 DEF Sound
      <4>3. pos < pos' /\ pos' <= y
        BY <1>1, <4>2
      <4>4. plan[pos].op \in Makes /\ plan[pos].target \notin failedWindows
        BY <1>2
      <4> QED  BY <1>2, <4>1, <4>2, <4>3, <4>4 DEF Same
    <3> QED  BY <2>5, <3>1, <3>2
  <2>12. Distinct(batch)'
    BY DEF QueueOK, Distinct
  <2>13. QueueOK'
    BY <2>2, <2>7, <2>8, <2>10, <2>11, <2>12 DEF QueueOK, Distinct
  <2>14. \A q : Waits(q) => Waits(q)'
    <3>1. \A q : (\E k \in DOMAIN f : f[k].pane = q) => \E k \in DOMAIN g : g[k].pane = q
      BY <2>4
    <3> QED  BY <2>2, <3>1 DEF Waits
  <2>15. Waits(p)'
    <3>1. Len(f) + 1 \in DOMAIN g /\ g[Len(f) + 1].pane = p
      BY <2>3, <2>4
    <3> QED  BY <2>2, <3>1 DEF Waits
  <2> QED  BY <2>13, <2>14, <2>15
<1> QED  BY <1>3, <1>4

\* The panes of a window that settled are handed over to be started.
LEMMA QueueHanded ==
    ASSUME Basics, Basics', Stays, QueueOK, Same, Unrun, HandOver, batch = <<>>, UNCHANGED failedWindows,
           pos' = pos + 1, pos <= Len(plan)
    PROVE  QueueOK' /\ \A q : Waits(q) <=> Waits(q)'
<1>1. ProgressOK /\ pos \in Nat /\ \A x \in DOMAIN plan : x \in Nat
  BY DEF Basics, ProgressOK, PlanOK
<1>2. Now = plan[pos]
  BY DEF Now
<1>3. PICK f, g, h, S : f = pending /\ g = batch' /\ h = pending' /\ S = Settling
  OBVIOUS
<1>4. S = {i \in DOMAIN f : f[i].target = Now.target}
  BY <1>3 DEF Settling
<1>5. Portion(g, f, S) /\ Portion(h, f, DOMAIN f \ S)
  BY <1>1, <1>3, HandedOver
<1>6. Distinct(f)
  BY <1>3 DEF QueueOK
<1>7. Distinct(g) /\ Distinct(h)
  BY <1>5, <1>6 DEF Portion
<1>8. /\ \A k \in DOMAIN g : \E j \in S : g[k] = f[j]
      /\ \A j \in S : \E k \in DOMAIN g : g[k] = f[j]
      /\ \A k \in DOMAIN h : \E j \in DOMAIN f \ S : h[k] = f[j]
      /\ \A j \in DOMAIN f \ S : \E k \in DOMAIN h : h[k] = f[j]
  BY <1>5 DEF Portion
<1>9. \A j \in DOMAIN h, k \in DOMAIN g : h[j].pane # g[k].pane
  BY <1>4, <1>6, <1>8 DEF Distinct
<1>10. \A q : Waits(q) <=> Waits(q)'
  <2>1. \A q : Waits(q) <=> \E k \in DOMAIN f : f[k].pane = q
    BY <1>3 DEF Waits
  <2>2. \A q : Waits(q)' <=> (\E k \in DOMAIN h : h[k].pane = q) \/ (\E k \in DOMAIN g : g[k].pane = q)
    BY <1>3 DEF Waits
  <2>3. ASSUME NEW k \in DOMAIN f
        PROVE  (\E l \in DOMAIN h : h[l].pane = f[k].pane) \/ (\E l \in DOMAIN g : g[l].pane = f[k].pane)
    BY <1>8
  <2>4. \A k \in DOMAIN h : \E l \in DOMAIN f : f[l].pane = h[k].pane
    BY <1>8
  <2>5. \A k \in DOMAIN g : \E l \in DOMAIN f : f[l].pane = g[k].pane
    BY <1>4, <1>8
  <2> QED  BY <2>1, <2>2, <2>3, <2>4, <2>5
<1>11. ASSUME NEW p \in Nat, Waits(p)' PROVE Rests(p)'
  <2>1. p < next /\ Rests(p)
    BY <1>1, <1>10, <1>11, WaitsBelow DEF QueueOK
  <2> QED  BY <2>1, RestsKept
<1>12. ASSUME NEW k \in DOMAIN h
       PROVE  /\ h[k].target \notin failedWindows'
              /\ \E x \in DOMAIN plan' : x < pos' /\ plan'[x].op \in Makes /\ plan'[x].target = h[k].target
              /\ \E y \in DOMAIN plan' : pos' <= y /\ plan'[y].op = "layout" /\ plan'[y].target = h[k].target
  <2>1. PICK j \in DOMAIN f : h[k] = f[j] /\ f[j].target # Now.target
    BY <1>4, <1>8
  <2>2. PICK T : T = f[j].target
    OBVIOUS
  <2>3. T \notin failedWindows
    BY <1>3, <2>2 DEF QueueOK
  <2>4. PICK x \in DOMAIN plan : x < pos /\ plan[x].op \in Makes /\ plan[x].target = T
    BY <1>3, <2>2 DEF QueueOK
  <2>5. PICK y \in DOMAIN plan : pos <= y /\ plan[y].op = "layout" /\ plan[y].target = T
    BY <1>3, <2>2 DEF QueueOK
  <2>6. pos # y
    BY <1>2, <2>1, <2>2, <2>5
  <2>7. x < pos' /\ pos' <= y
    BY <1>1, <2>4, <2>5, <2>6
  <2> QED  BY <2>1, <2>2, <2>3, <2>4, <2>5, <2>7 DEF Same
<1>13. QueueOK'
  BY <1>3, <1>7, <1>9, <1>11, <1>12 DEF QueueOK, Distinct
<1> QED  BY <1>10, <1>13

\* Apply's books: the queues, the window at hand, the failures, and each pane.
Books == QueueOK /\ AtHand /\ FailedOK /\ SettledAll

\* respawn-pane runs what waited, once, or is reported.
LEMMA RespawnBooks ==
    ASSUME Basics, Basics', Books, Respawn
    PROVE  Books'
<1>1. /\ Same /\ UNCHANGED <<windows, next, pos, placing, pending, failedWindows, closed>>
      /\ batch # <<>> /\ batch' = Tail(batch)
  BY DEF Respawn, applying, Same
<1>2. ProgressOK /\ ServerOK /\ QueueOK /\ AtHand /\ FailedOK /\ SettledAll
  BY DEF Basics, Books
<1>3. PICK f, g, p : f = batch /\ g = batch' /\ p = Head(batch).pane
  OBVIOUS
<1>4. /\ f \in Seq(Waiting) /\ 1 \in DOMAIN f /\ f[1].pane = p
      /\ \A k \in DOMAIN g : k \in Nat \ {0} /\ k + 1 \in DOMAIN f /\ g[k] = f[k + 1]
      /\ \A k \in DOMAIN f : k \in Nat /\ (k = 1 \/ (k - 1 \in DOMAIN g /\ g[k - 1] = f[k]))
  <2>1. f \in Seq(Waiting) /\ f # <<>> /\ g = Tail(f) /\ p = Head(f).pane
    BY <1>1, <1>2, <1>3 DEF ProgressOK
  <2> QED  BY <2>1
<1>5. \A r : Waits(r)' => Waits(r) /\ r # p
  <2>1. ASSUME NEW k \in DOMAIN g PROVE g[k].pane # p
    <3>1. k + 1 # 1 /\ g[k] = f[k + 1] /\ k + 1 \in DOMAIN f
      BY <1>4
    <3> QED  BY <1>2, <1>3, <1>4, <3>1 DEF QueueOK, Distinct
  <2>2. \A k \in DOMAIN pending : pending[k].pane # p
    BY <1>2, <1>3, <1>4 DEF QueueOK
  <2>3. \A r : (\E k \in DOMAIN g : g[k].pane = r) => (\E k \in DOMAIN f : f[k].pane = r)
    BY <1>4
  <2> QED  BY <1>1, <1>3, <2>1, <2>2, <2>3 DEF Waits
<1>6. \A r : Waits(r) => Waits(r)' \/ r = p
  <2>1. \A r : (\E k \in DOMAIN f : f[k].pane = r) => (\E k \in DOMAIN g : g[k].pane = r) \/ r = p
    BY <1>4
  <2> QED  BY <1>1, <1>3, <2>1 DEF Waits
<1>7. Waits(p) /\ p \in Nat /\ Rests(p)
  <2>1. Waits(p)
    BY <1>3, <1>4 DEF Waits
  <2>2. p \in Nat
    BY <1>2, <2>1, WaitsBelow
  <2> QED  BY <1>2, <2>1, <2>2 DEF QueueOK
\* The pane that was first runs now, or it is reported, or it is gone.
<1>8. /\ failed \subseteq failed'
      /\ \/ /\ p \in DOMAIN panes /\ panes' = [panes EXCEPT ![p].runs = @ + 1]
         \/ /\ UNCHANGED panes
            /\ p \in DOMAIN panes => \E r \in failed' : r.op = "respawn" /\ r.from = panes[p].from
  <2>1. failed \subseteq failed'
    BY DEF Respawn
  <2>2. CASE p \in DOMAIN panes /\ panes' = [panes EXCEPT ![p].runs = @ + 1]
    BY <2>1, <2>2
  <2>3. CASE /\ UNCHANGED panes
             /\ failed' = failed \union {[op |-> "respawn", from |-> IF p \in DOMAIN panes THEN panes[p].from ELSE Nobody]}
    <3>1. PICK r : r = [op |-> "respawn", from |-> IF p \in DOMAIN panes THEN panes[p].from ELSE Nobody]
      OBVIOUS
    <3>2. r \in failed' /\ r.op = "respawn" /\ (p \in DOMAIN panes => r.from = panes[p].from)
      BY <2>3, <3>1
    <3> QED  BY <2>1, <2>3, <3>2
  <2> QED  BY <1>3, <2>2, <2>3 DEF Respawn
<1>9. /\ DOMAIN panes' = DOMAIN panes /\ \A r \in DOMAIN panes : panes'[r].from = panes[r].from
      /\ \A r \in DOMAIN panes : r # p => panes'[r] = panes[r]
      /\ p \in DOMAIN panes =>
           panes'[p].runs = 1 \/ \E r \in failed' : r.op = "respawn" /\ r.from = panes[p].from
  <2>1. CASE /\ UNCHANGED panes
             /\ p \in DOMAIN panes => \E r \in failed' : r.op = "respawn" /\ r.from = panes[p].from
    BY <2>1
  <2>2. CASE p \in DOMAIN panes /\ panes' = [panes EXCEPT ![p].runs = @ + 1]
    <3>1. /\ DOMAIN panes' = DOMAIN panes /\ panes'[p].from = panes[p].from
          /\ \A r \in DOMAIN panes : r # p => panes'[r] = panes[r]
          /\ panes'[p].runs = panes[p].runs + 1
      BY <1>1, <1>2, <2>2, RanIs
    <3>2. panes[p].runs = 0
      BY <1>7, <2>2 DEF Rests
    <3> QED  BY <3>1, <3>2
  <2> QED  BY <1>8, <2>1, <2>2
<1>10. QueueOK'
  <2>1. Distinct(pending)' /\ Distinct(g)
    <3>1. Distinct(f)
      BY <1>2, <1>3 DEF QueueOK
    <3>2. ASSUME NEW j \in DOMAIN g, NEW k \in DOMAIN g, g[j].pane = g[k].pane PROVE j = k
      <4>1. j + 1 = k + 1
        BY <1>4, <3>1, <3>2 DEF Distinct
      <4> QED  BY <1>4, <4>1
    <3> QED  BY <1>1, <1>2, <3>2 DEF QueueOK, Distinct
  <2>2. \A j \in DOMAIN pending, k \in DOMAIN g : pending[j].pane # g[k].pane
    BY <1>2, <1>3, <1>4 DEF QueueOK
  <2>3. ASSUME NEW r \in Nat, Waits(r)' PROVE Rests(r)'
    <3>1. Rests(r) /\ r # p
      BY <1>2, <1>5, <2>3 DEF QueueOK
    <3>2. \A h : NeedsRun(h)' = NeedsRun(h)
      BY <1>1, NamedAlike
    <3>3. r \in DOMAIN panes' => panes'[r] = panes[r] /\ panes[r].runs = 0 /\ NeedsRun(panes[r].from)
      BY <1>9, <3>1 DEF Rests
    <3>4. PICK h : h = panes[r].from
      OBVIOUS
    <3>5. r \in DOMAIN panes' => panes'[r].runs = 0 /\ panes'[r].from = h /\ NeedsRun(h)'
      BY <3>2, <3>3, <3>4
    <3> QED  BY <3>5 DEF Rests, NeedsRun
  <2> QED  BY <1>1, <1>2, <1>3, <2>1, <2>2, <2>3 DEF QueueOK, Distinct, Same
<1>11. AtHand'
  <2> SUFFICES ASSUME placing # 0 PROVE AtHand'
    BY <1>1 DEF AtHand
  <2>1. /\ ~Waits(placing)
        /\ IF placing \in DOMAIN panes
           THEN panes[placing].from = Origin /\ panes[placing].runs = 0
           ELSE Origin \in closed
    BY <1>2 DEF AtHand
  <2>2. PICK w : w = placing
    OBVIOUS
  <2>3. ~Waits(w)' /\ w # p
    BY <1>5, <1>7, <2>1, <2>2
  <2>4. Origin' = Origin
    BY <1>1, NowKept DEF Same
  <2>5. /\ w \in DOMAIN panes => panes'[w] = panes[w]
        /\ w \in DOMAIN panes <=> w \in DOMAIN panes'
    BY <1>9, <2>3
  <2>6. /\ placing' = w /\ ~Waits(placing)'
        /\ IF w \in DOMAIN panes'
           THEN panes'[w].from = Origin' /\ panes'[w].runs = 0
           ELSE Origin' \in closed'
    <3>1. ~Waits(placing)'
      BY <1>1, <2>2, <2>3 DEF Waits
    <3> QED  BY <1>1, <2>1, <2>2, <2>4, <2>5, <3>1
  <2> QED  BY <2>6 DEF AtHand
<1>12. FailedOK'
  <2> SUFFICES ASSUME NEW t \in failedWindows
               PROVE  \E x \in DOMAIN plan' : /\ x < pos' /\ plan'[x].op = "window" /\ plan'[x].target = t
                                              /\ Report("window", NameOf(x))' \in failed'
    BY <1>1 DEF FailedOK
  <2>1. PICK x \in DOMAIN plan : /\ x < pos /\ plan[x].op = "window" /\ plan[x].target = t
                                 /\ Report("window", NameOf(x)) \in failed
    BY <1>2 DEF FailedOK
  <2>2. NameOf(x)' = NameOf(x)
    BY <1>1, NamedAlike
  <2>3. Report("window", NameOf(x))' = Report("window", NameOf(x))
    BY <2>2 DEF Report
  <2> QED  BY <1>1, <1>8, <2>1, <2>3 DEF Same
<1>13. SettledAll'
  <2> SUFFICES ASSUME NEW x \in DOMAIN plan, x < pos, plan[x].op \in Makes PROVE Settled(x)'
    BY <1>1 DEF SettledAll, Same
  <2>1. Settled(x)
    BY <1>2 DEF SettledAll
  <2>2. PICK n : n = NameOf(x)
    OBVIOUS
  <2>3. NameOf(x)' = n /\ NeedsRun(n)' = NeedsRun(n)
    BY <1>1, <2>2, NamedAlike
  <2>4. CASE Back(x)
    <3>1. PICK r \in DOMAIN panes : panes[r].from = n /\ panes[r].runs = IF NeedsRun(n) THEN 1 ELSE 0
      BY <2>2, <2>4 DEF Back
    <3>2. r # p
      BY <1>7, <3>1 DEF Rests
    <3>3. r \in DOMAIN panes' /\ panes'[r] = panes[r]
      BY <1>9, <3>1, <3>2
    <3> QED  BY <2>3, <3>1, <3>3 DEF Settled, Back
  <2>5. CASE NameOf(x) \in closed
    BY <1>1, <2>2, <2>3, <2>5 DEF Settled
  <2>6. CASE Reported(x)
    <3>1. \A y : Report("window", NameOf(y))' = Report("window", NameOf(y))
      <4>1. \A y : NameOf(y)' = NameOf(y)
        BY <1>1, NamedAlike
      <4> QED  BY <4>1 DEF Report
    <3>2. Reported(x)'
      BY <1>1, <1>8, <2>2, <2>3, <2>6, <3>1 DEF Reported, Same
    <3> QED  BY <3>2 DEF Settled
  <2>7. CASE Due(x)
    <3>1. PICK r \in DOMAIN panes : panes[r].from = n /\ panes[r].runs = 0 /\ NeedsRun(n) /\ Waits(r)
      BY <2>2, <2>7 DEF Due
    <3>2. CASE r # p
      <4>1. r \in DOMAIN panes' /\ panes'[r] = panes[r] /\ Waits(r)'
        BY <1>6, <1>9, <3>1, <3>2
      <4> QED  BY <2>3, <3>1, <4>1 DEF Settled, Due
    <3>3. CASE r = p
      <4>1. CASE panes'[p].runs = 1
        BY <1>9, <2>3, <3>1, <3>3, <4>1 DEF Settled, Back
      <4>2. CASE \E h \in failed' : h.op = "respawn" /\ h.from = panes[p].from
        BY <2>3, <3>1, <3>3, <4>2 DEF Settled, Reported
      <4> QED  BY <1>9, <3>1, <3>3, <4>1, <4>2
    <3> QED  BY <3>2, <3>3
  <2> QED  BY <2>1, <2>4, <2>5, <2>6, <2>7 DEF Settled
<1> QED  BY <1>10, <1>11, <1>12, <1>13 DEF Books

LEMMA ApplyUnrun ==
    ASSUME Basics, ApplyStep, ~Respawn
    PROVE  Unrun
<1>1. CASE ~SetOption
  <2>1. Grows
    BY <1>1, ApplyGrows
  <2> QED  BY <2>1 DEF Grows, Unrun
<1>2. CASE SetOption
  <2>1. CASE UNCHANGED panes
    BY <2>1 DEF Unrun
  <2>2. CASE /\ UNCHANGED <<windows, next>>
             /\ \E w \in At(Now.target) : panes' = [panes EXCEPT ![windows[w].active].opts = Origin]
    <3>1. PICK w \in At(Now.target) : panes' = [panes EXCEPT ![windows[w].active].opts = Origin]
      BY <2>2
    <3>2. PICK o, q : o = Origin /\ q = windows[w].active
      OBVIOUS
    <3>3. o \in Origins /\ q \in DOMAIN panes
      <4>1. w \in DOMAIN windows /\ ProgressOK /\ pos <= Len(plan)
        BY <1>2, <3>1, AtIn DEF Basics, SetOption, Applying
      <4> QED  BY <3>2, <4>1, NowIs DEF Basics, ServerOK, PanesOK
    <3>4. panes' = [panes EXCEPT ![q].opts = o]
      BY <3>1, <3>2
    <3>5. /\ DOMAIN panes' = DOMAIN panes /\ \A p \in DOMAIN panes : p # q => panes'[p] = panes[p]
          /\ panes'[q].from = panes[q].from /\ panes'[q].runs = panes[q].runs
      BY <2>2, <3>3, <3>4, OptedIs DEF Basics
    <3> QED  BY <3>5 DEF Unrun
  <2> QED  BY <1>2, <2>1, <2>2 DEF SetOption, Skipped, live
<1> QED  BY <1>1, <1>2

LEMMA FailuresStay ==
    ASSUME Basics, Basics', Same, FailedOK, failed \subseteq failed', pos <= pos',
           \/ UNCHANGED failedWindows
           \/ /\ pos <= Len(plan) /\ pos' = pos + 1 /\ Now.op = "window" /\ Fails("window")
              /\ failedWindows' = failedWindows \union {Now.target}
    PROVE  FailedOK'
<1>1. pos \in Nat /\ ProgressOK
  BY DEF Basics, ProgressOK
<1>2. \A y : Report("window", NameOf(y))' = Report("window", NameOf(y))
  <2>1. \A y : NameOf(y)' = NameOf(y)
    BY NamedAlike
  <2> QED  BY <2>1 DEF Report
<1> SUFFICES ASSUME NEW t \in failedWindows'
             PROVE  \E x \in DOMAIN plan' : /\ x < pos' /\ plan'[x].op = "window" /\ plan'[x].target = t
                                            /\ Report("window", NameOf(x))' \in failed'
  BY DEF FailedOK
<1>3. CASE t \in failedWindows
  <2>1. PICK x \in DOMAIN plan : /\ x < pos /\ plan[x].op = "window" /\ plan[x].target = t
                                 /\ Report("window", NameOf(x)) \in failed
    BY <1>3 DEF FailedOK
  <2>2. x < pos'
    <3>1. x \in Nat
      BY DEF Basics, ProgressOK, PlanOK
    <3>2. pos' \in Nat
      BY DEF Basics, ProgressOK
    <3> QED  BY <1>1, <2>1, <3>1, <3>2
  <2> QED  BY <1>2, <2>1, <2>2 DEF Same
<1>4. CASE t \notin failedWindows
  <2>1. /\ pos <= Len(plan) /\ pos' = pos + 1 /\ Now.op = "window" /\ Fails("window") /\ t = Now.target
    BY <1>4
  <2>2. PICK P : P = pos
    OBVIOUS
  <2>3. P \in DOMAIN plan /\ Now = plan[P] /\ NameOf(P) = Origin
    BY <1>1, <2>1, <2>2, NowIs DEF NameOf
  <2>4. Report("window", NameOf(P)) \in failed'
    BY <2>1, <2>3 DEF Fails, Report
  <2>5. P < pos'
    BY <1>1, <2>1, <2>2
  <2> QED  BY <1>2, <2>1, <2>3, <2>4, <2>5 DEF Same
<1> QED  BY <1>3, <1>4

\* The plan goes on by a step.
LEMMA BooksGo ==
    ASSUME Basics, Basics', Books, Same, Unrun, UNCHANGED closed, failed \subseteq failed', QueueOK',
           placing' = 0, pos <= Len(plan), pos' = pos + 1,
           \A q : Waits(q) => Waits(q)',
           \/ UNCHANGED failedWindows
           \/ Now.op = "window" /\ Fails("window") /\ failedWindows' = failedWindows \union {Now.target},
           NEW P, P = pos, Now.op \in Makes => Settled(P)'
    PROVE  Books'
<1>1. pos \in Nat /\ ProgressOK /\ \A x \in DOMAIN plan : x \in Nat
  BY DEF Basics, ProgressOK, PlanOK
<1>2. AtHand'
  BY DEF AtHand
<1>3. FailedOK'
  BY <1>1, FailuresStay DEF Books
<1>4. SettledAll'
  <2> SUFFICES ASSUME NEW x \in DOMAIN plan, x < pos', plan[x].op \in Makes PROVE Settled(x)'
    BY DEF SettledAll, Same
  <2>1. CASE x < pos
    <3>1. Settled(x)
      BY <2>1 DEF Books, SettledAll
    <3> QED  BY <3>1, SettledKept
  <2>2. CASE x = pos
    <3>1. Now = plan[x] /\ x = P
      BY <2>2 DEF Now
    <3> QED  BY <3>1
  <2> QED  BY <1>1, <2>1, <2>2
<1> QED  BY <1>2, <1>3, <1>4 DEF Books

\* The plan stays where it is.
LEMMA BooksStay ==
    ASSUME Basics, Basics', Stays, Books, Same, Unrun, closed \subseteq closed', failed \subseteq failed',
           UNCHANGED <<pos, pending, batch, failedWindows>>,
           placing' = placing \/ AtHand'
    PROVE  Books'
<1>1. QueueOK'
  BY QueueKept DEF Books
<1>2. \A q : Waits(q) <=> Waits(q)'
  BY DEF Waits
<1>3. FailedOK'
  <2>1. pos <= pos'
    BY DEF Basics, ProgressOK
  <2> QED  BY <2>1, FailuresStay DEF Books
<1>4. SettledAll'
  <2> SUFFICES ASSUME NEW x \in DOMAIN plan, x < pos, plan[x].op \in Makes PROVE Settled(x)'
    BY DEF SettledAll, Same
  <2>1. Settled(x)
    BY DEF Books, SettledAll
  <2> QED  BY <1>2, <2>1, SettledKept
<1>5. AtHand'
  <2> SUFFICES ASSUME placing' = placing, placing # 0 PROVE AtHand'
    BY DEF AtHand
  <2>1. /\ ~Waits(placing)
        /\ IF placing \in DOMAIN panes
           THEN panes[placing].from = Origin /\ panes[placing].runs = 0
           ELSE Origin \in closed
    BY DEF Books, AtHand
  <2>2. PICK w : w = placing
    OBVIOUS
  <2>3. Origin' = Origin
    BY NowKept DEF Same
  <2>4. w \in DOMAIN panes' => w \in DOMAIN panes
    <3>1. w < next
      BY <2>2 DEF Basics, PlacingOK
    <3> QED  BY <3>1 DEF Stays
  <2>5. IF w \in DOMAIN panes'
        THEN panes'[w].from = Origin' /\ panes'[w].runs = 0
        ELSE Origin' \in closed'
    <3>1. CASE w \in DOMAIN panes'
      BY <2>1, <2>2, <2>3, <2>4, <3>1 DEF Unrun
    <3>2. CASE w \notin DOMAIN panes' /\ w \in DOMAIN panes
      BY <2>1, <2>2, <2>3, <3>2 DEF Unrun
    <3>3. CASE w \notin DOMAIN panes' /\ w \notin DOMAIN panes
      BY <2>1, <2>2, <2>3, <3>3
    <3> QED  BY <3>1, <3>2, <3>3
  <2>6. ~Waits(w)'
    BY <1>2, <2>1, <2>2
  <2>7. placing' = w
    BY <2>2
  <2>8. ~Waits(placing)'
    BY <2>6, <2>7 DEF Waits
  <2> QED  BY <2>5, <2>7, <2>8 DEF AtHand
<1> QED  BY <1>1, <1>3, <1>4, <1>5 DEF Books

\* The plan's step made no pane that waits, or none at all.
LEMMA BooksPass ==
    ASSUME Basics, Basics', Stays, Books, Same, Unrun, UNCHANGED <<closed, pending, batch>>, failed \subseteq failed',
           placing' = 0, pos <= Len(plan), pos' = pos + 1,
           Now.op # "layout" \/ Now.target \in failedWindows,
           \/ UNCHANGED failedWindows
           \/ Now.op = "window" /\ Fails("window") /\ failedWindows' = failedWindows \union {Now.target},
           NEW P, P = pos, Now.op \in Makes => Settled(P)'
    PROVE  Books'
<1>1. QueueOK'
  BY QueueKept DEF Books
<1>2. \A q : Waits(q) => Waits(q)'
  BY DEF Waits
<1> QED  BY <1>1, <1>2, BooksGo

\* The plan's step made pane p.
LEMMA BooksMade ==
    ASSUME Basics, Basics', Stays, Books, Same, Unrun, UNCHANGED <<closed, batch, failed, failedWindows>>,
           placing' = 0, pos <= Len(plan), pos' = pos + 1,
           Now.op \in Makes, Now.target \notin failedWindows,
           NEW p \in Nat, Queue(p), ~Waits(p),
           IF p \in DOMAIN panes' THEN panes'[p].from = Origin /\ panes'[p].runs = 0 ELSE Origin \in closed'
    PROVE  Books'
<1>1. PICK P : P = pos
  OBVIOUS
<1>2. QueueOK' /\ (\A q : Waits(q) => Waits(q)') /\ (NeedsRun(Origin) => Waits(p)')
  BY QueueMade DEF Books
<1>3. Settled(P)'
  BY <1>1, <1>2, MadeSettled DEF Basics
<1> QED  BY <1>1, <1>2, <1>3, BooksGo

\* The plan's step failed to make its pane, or to learn its id.
LEMMA BooksFail ==
    ASSUME Basics, Basics', Stays, Books, Same, Unrun, UNCHANGED <<closed, pending, batch>>,
           NEW op, op # "layout", Fails(op), Now.op # "layout",
           placing' = 0, pos <= Len(plan), pos' = pos + 1,
           \/ UNCHANGED failedWindows
           \/ Now.op = "window" /\ op = "window" /\ failedWindows' = failedWindows \union {Now.target}
    PROVE  Books'
<1>1. PICK P : P = pos
  OBVIOUS
<1>2. Settled(P)'
  BY <1>1, ReportSettled DEF Basics
<1>3. failed \subseteq failed'
  BY DEF Fails
<1> QED  BY <1>1, <1>2, <1>3, BooksPass

LEMMA WindowUnfailed ==
    ASSUME ProgressOK, FailedOK, pos <= Len(plan), Now.op = "window"
    PROVE  Now.target \notin failedWindows
<1> SUFFICES ASSUME Now.target \in failedWindows PROVE FALSE
  OBVIOUS
<1>1. PICK x \in DOMAIN plan : x < pos /\ plan[x].op = "window" /\ plan[x].target = Now.target
  BY DEF FailedOK
<1> QED  BY <1>1, Unmade DEF Makes

LEMMA FailBooks ==
    ASSUME Basics, Basics', Stays, Books, Same, Unrun, UNCHANGED <<closed, batch>>,
           WindowFails, pos <= Len(plan), Now.op = "window"
    PROVE  Books'
<1>1. PICK op : op = "window"
  OBVIOUS
<1>2. /\ Fails(op) /\ op # "layout" /\ failedWindows' = failedWindows \union {Now.target}
      /\ placing' = 0 /\ pos' = pos + 1 /\ UNCHANGED pending
  BY <1>1 DEF WindowFails, Advance
<1> QED  BY <1>1, <1>2, BooksFail

LEMMA FreshWaits ==
    ASSUME Basics
    PROVE  next \in Nat /\ ~Waits(next)
<1>1. next \in Nat
  BY DEF Basics, ServerOK
<1> QED  BY <1>1, WaitsBelow DEF Basics

LEMMA CreateBooks ==
    ASSUME Basics, Basics', Stays, Books, Same, Unrun, CreateSession
    PROVE  Books'
<1>1. pos <= Len(plan) /\ Now.op = "window" /\ UNCHANGED <<closed, batch>>
  BY DEF CreateSession, Applying, applying
<1>2. ProgressOK /\ ServerOK /\ FailedOK
  BY DEF Basics, Books
<1>3. CASE WindowFails
  BY <1>1, <1>3, FailBooks
<1>4. CASE AddWindow(windows, Now.target.sess, BaseIndex, NewName, Origin)
  <2>1. PICK vs, sess, idx, name, from :
            /\ vs = windows /\ sess = Now.target.sess /\ idx = BaseIndex
            /\ name = NewName /\ from = Origin
    OBVIOUS
  <2>2. AddWindow(vs, sess, idx, name, from) /\ Reindexed(vs, windows)
    BY <1>2, <1>4, <2>1, LinedNow
  <2>3. Added(vs, sess, idx, from)
    BY <1>2, <2>2, AddedIs
  <2>4. PICK p : p = next
    OBVIOUS
  <2>5. p \in DOMAIN panes' /\ panes'[p].from = Origin /\ panes'[p].runs = 0
    BY <2>1, <2>3, <2>4 DEF Added
  <2>6. p \in Nat /\ ~Waits(p)
    BY <2>4, FreshWaits
  <2>7. CASE WindowMade(next)
    <3>1. Queue(p) /\ placing' = 0 /\ pos' = pos + 1 /\ UNCHANGED <<failed, failedWindows>>
      BY <2>4, <2>7 DEF WindowMade, Advance
    <3>2. Now.op \in Makes /\ Now.target \notin failedWindows
      BY <1>1, <1>2, WindowUnfailed DEF Makes
    <3> QED  BY <1>1, <2>5, <2>6, <3>1, <3>2, BooksMade
  <2>8. CASE placing' = next /\ UNCHANGED <<pos, pending, failed, failedWindows>>
    <3>1. Origin' = Origin
      BY <2>8, NowKept DEF Same
    <3>2. ~Waits(p)'
      BY <1>1, <2>6, <2>8 DEF Waits
    <3>3. placing' = p
      BY <2>4, <2>8
    <3>4. ~Waits(placing)'
      BY <3>2, <3>3 DEF Waits
    <3>5. AtHand'
      BY <2>5, <3>1, <3>3, <3>4 DEF AtHand
    <3> QED  BY <1>1, <2>8, <3>5, BooksStay
  <2> QED  BY <1>3, <1>4, <2>7, <2>8 DEF CreateSession
<1> QED  BY <1>3, <1>4 DEF CreateSession

LEMMA MoveBooks ==
    ASSUME Basics, Basics', Stays, Books, Same, Unrun, MoveWindow
    PROVE  Books'
<1>1. pos <= Len(plan) /\ Now.op = "window" /\ placing # 0 /\ UNCHANGED <<closed, batch, panes>>
  BY DEF MoveWindow, Applying, applying, live
<1>2. ProgressOK /\ ServerOK /\ FailedOK
  BY DEF Basics, Books
<1>3. CASE WindowFails
  BY <1>1, <1>3, FailBooks
<1>4. CASE WindowMade(placing)
  <2>1. PICK p : p = placing
    OBVIOUS
  <2>2. Queue(p) /\ placing' = 0 /\ pos' = pos + 1 /\ UNCHANGED <<failed, failedWindows>>
    BY <1>4, <2>1 DEF WindowMade, Advance
  <2>3. Now.op \in Makes /\ Now.target \notin failedWindows
    BY <1>1, <1>2, WindowUnfailed DEF Makes
  <2>4. /\ p \in Nat /\ ~Waits(p)
        /\ IF p \in DOMAIN panes' THEN panes'[p].from = Origin /\ panes'[p].runs = 0 ELSE Origin \in closed'
    BY <1>1, <1>2, <2>1 DEF Books, AtHand, ProgressOK
  <2> QED  BY <1>1, <2>2, <2>3, <2>4, BooksMade
<1> QED  BY <1>3, <1>4 DEF MoveWindow

LEMMA NewWindowBooks ==
    ASSUME Basics, Basics', Stays, Books, Same, Unrun, NewWindow
    PROVE  Books'
<1>1. pos <= Len(plan) /\ Now.op = "window" /\ placing = 0 /\ UNCHANGED <<closed, batch>>
  BY DEF NewWindow, Applying, applying
<1>2. ProgressOK /\ ServerOK /\ FailedOK
  BY DEF Basics, Books
<1>3. CASE WindowFails
  BY <1>1, <1>3, FailBooks
<1>4. CASE AddWindow(Shifted(Now.target), Now.target.sess, Now.target.idx, NewName, Origin)
  <2>1. PICK target, vs, sess, idx, name, from :
            /\ target = Now.target /\ vs = Shifted(target) /\ sess = target.sess /\ idx = target.idx
            /\ name = NewName /\ from = Origin
    OBVIOUS
  <2>2. AddWindow(vs, sess, idx, name, from)
    BY <1>4, <2>1
  <2>3. target.idx \in Nat /\ Lined(windows)
    BY <1>1, <1>2, <2>1, NowIs, LinedNow
  <2>4. Reindexed(vs, windows)
    BY <2>1, <2>3, ShiftedIs
  <2>5. Added(vs, sess, idx, from)
    BY <1>2, <2>2, <2>4, AddedIs
  <2>6. PICK p : p = next
    OBVIOUS
  <2>7. p \in DOMAIN panes' /\ panes'[p].from = Origin /\ panes'[p].runs = 0
    BY <2>1, <2>5, <2>6 DEF Added
  <2>8. p \in Nat /\ ~Waits(p)
    BY <2>6, FreshWaits
  <2>9. CASE WindowMade(next)
    <3>1. Queue(p) /\ placing' = 0 /\ pos' = pos + 1 /\ UNCHANGED <<failed, failedWindows>>
      BY <2>6, <2>9 DEF WindowMade, Advance
    <3>2. Now.op \in Makes /\ Now.target \notin failedWindows
      BY <1>1, <1>2, WindowUnfailed DEF Makes
    <3> QED  BY <1>1, <2>7, <2>8, <3>1, <3>2, BooksMade
  <2>10. CASE Fails("window") /\ Advance /\ UNCHANGED <<placing, pending, failedWindows>>
    <3>1. PICK op : op = "window"
      OBVIOUS
    <3>2. Fails(op) /\ op # "layout" /\ pos' = pos + 1
      BY <2>10, <3>1 DEF Advance
    <3> QED  BY <1>1, <2>10, <3>2, BooksFail
  <2> QED  BY <1>3, <1>4, <2>9, <2>10 DEF NewWindow
<1> QED  BY <1>3, <1>4 DEF NewWindow

LEMMA SplitBooks ==
    ASSUME Basics, Basics', Stays, Books, Same, Unrun, SplitPane
    PROVE  Books'
<1>1. /\ pos <= Len(plan) /\ Now.op = "split" /\ pos' = pos + 1
      /\ UNCHANGED <<closed, batch, placing, failedWindows>>
  BY DEF SplitPane, Applying, applying, Skipped, SplitNow, Advance
<1>2. ProgressOK /\ PlacingOK /\ ServerOK /\ FailedOK
  BY DEF Basics, Books
<1>3. placing' = 0 /\ Now.op \in Makes
  BY <1>1, <1>2 DEF PlacingOK, Makes
<1>4. PICK P : P = pos
  OBVIOUS
<1>5. ASSUME Fails("split"), UNCHANGED pending PROVE Books'
  <2>1. PICK op : op = "split"
    OBVIOUS
  <2>2. Fails(op) /\ op # "layout"
    BY <1>5, <2>1
  <2> QED  BY <1>1, <1>3, <1>5, <2>2, BooksFail
<1>6. CASE Skipped
  <2>1. Now.target \in failedWindows /\ UNCHANGED <<pending, failed>>
    BY <1>6 DEF Skipped
  <2>2. Settled(P)'
    BY <1>1, <1>2, <1>4, <2>1, SkipSettled
  <2> QED  BY <1>1, <1>3, <1>4, <2>1, <2>2, BooksPass
<1>7. CASE Now.target \notin failedWindows /\ SplitNow
  <2>1. CASE \E w \in At(Now.target) : SplitInto(w)
    <3>1. PICK w \in At(Now.target) : SplitInto(w)
      BY <2>1
    <3>2. PICK from : from = Origin
      OBVIOUS
    <3>3. w \in DOMAIN windows
      BY <3>1, AtIn
    <3>4. /\ windows' = [windows EXCEPT ![w].active = next] /\ next' = next + 1
          /\ panes' = With(panes, next, [win |-> w, from |-> from, runs |-> 0, opts |-> Nobody])
      BY <3>1, <3>2 DEF SplitInto
    <3>5. DOMAIN panes' = DOMAIN panes \cup {next} /\ panes'[next].from = from /\ panes'[next].runs = 0
      BY <1>2, <3>3, <3>4, SplitIs
    <3>6. CASE Fails("split") /\ UNCHANGED pending
      BY <1>5, <3>6
    <3>7. CASE Queue(next) /\ UNCHANGED failed
      <4>1. PICK p : p = next
        OBVIOUS
      <4>2. p \in DOMAIN panes' /\ panes'[p].from = Origin /\ panes'[p].runs = 0
        BY <3>2, <3>5, <4>1
      <4>3. p \in Nat /\ ~Waits(p) /\ Queue(p)
        BY <3>7, <4>1, FreshWaits
      <4> QED  BY <1>1, <1>3, <1>7, <3>7, <4>2, <4>3, BooksMade
    <3> QED  BY <3>1, <3>6, <3>7 DEF SplitInto
  <2>2. CASE Fails("split") /\ UNCHANGED pending
    BY <1>5, <2>2
  <2> QED  BY <1>7, <2>1, <2>2 DEF SplitNow
<1> QED  BY <1>6, <1>7 DEF SplitPane

LEMMA OtherBooks ==
    ASSUME Basics, Basics', Stays, Books, Same, Unrun, SetOption \/ SetLayout \/ ReopenBridge
    PROVE  Books'
<1>1. /\ pos <= Len(plan) /\ Now.op \in {"option", "layout", "bridge"} /\ pos' = pos + 1
      /\ UNCHANGED <<closed, placing, failedWindows>>
  BY DEF SetOption, SetLayout, ReopenBridge, Applying, applying, Skipped, Advance
<1>2. placing' = 0 /\ Now.op \notin Makes
  BY <1>1 DEF Basics, PlacingOK, Makes
<1>3. PICK P : P = pos
  OBVIOUS
<1>4. failed \subseteq failed'
  BY ReportsStay DEF ApplyStep
<1>5. ASSUME UNCHANGED <<pending, batch>>, Now.op # "layout" \/ Now.target \in failedWindows
      PROVE  Books'
  BY <1>1, <1>2, <1>3, <1>4, <1>5, BooksPass
<1>6. CASE SetOption \/ ReopenBridge
  <2>1. UNCHANGED <<pending, batch>> /\ Now.op # "layout"
    BY <1>6 DEF SetOption, ReopenBridge, Applying, Skipped
  <2> QED  BY <1>5, <2>1
<1>7. CASE SetLayout
  <2>1. CASE Skipped
    BY <1>5, <2>1 DEF Skipped
  <2>2. CASE HandOver
    <3>1. batch = <<>>
      BY <1>7 DEF SetLayout, Applying
    <3>2. QueueOK' /\ \A q : Waits(q) => Waits(q)'
      BY <1>1, <2>2, <3>1, QueueHanded DEF Books
    <3> QED  BY <1>1, <1>2, <1>3, <1>4, <3>2, BooksGo
  <2> QED  BY <1>7, <2>1, <2>2 DEF SetLayout, SettleWindow
<1> QED  BY <1>6, <1>7

LEMMA ApplyBooks ==
    ASSUME Basics, Basics', Stays, Books, ApplyStep
    PROVE  Books'
<1>1. CASE Respawn
  BY <1>1, RespawnBooks
<1>2. CASE ~Respawn
  <2>1. Same
    BY DEF ApplyStep, CreateSession, MoveWindow, NewWindow, SplitPane, SetOption, SetLayout, ReopenBridge,
           Respawn, applying, Same
  <2>2. Unrun
    BY <1>2, ApplyUnrun
  <2> QED
    BY <1>2, <2>1, <2>2, CreateBooks, MoveBooks, NewWindowBooks, SplitBooks, OtherBooks DEF ApplyStep
<1> QED  BY <1>1, <1>2

\* What users close is noted, and they touch no other pane that is there.
LEMMA UserUnrun ==
    ASSUME ServerOK, UserStep
    PROVE  Unrun /\ closed \subseteq closed'
<1>1. CASE UserSession \/ UserWindow
  <2>1. PICK n, k, name, from : AddWindow(windows, n, k, name, from)
    BY <1>1 DEF UserSession, UserWindow
  <2>2. PICK vs : vs = windows
    OBVIOUS
  <2>3. AddWindow(vs, n, k, name, from) /\ Reindexed(vs, windows)
    BY <2>1, <2>2, LinedNow
  <2>4. Grows
    BY <2>3, AddedIs, AddedGrows
  <2> QED  BY <1>1, <2>4 DEF Grows, Unrun, UserSession, UserWindow
<1>2. CASE SelectPane
  BY <1>2 DEF SelectPane, Unrun
<1>3. CASE ClosePane
  <2>1. /\ \A p \in DOMAIN panes : p \in DOMAIN panes' \/ panes[p].from \in closed'
        /\ \A p \in DOMAIN panes' : panes'[p] = panes[p]
    BY <1>3, CloseStays
  <2> QED  BY <1>3, <2>1 DEF Unrun, ClosePane
<1> QED  BY <1>1, <1>2, <1>3 DEF UserStep

LEMMA BooksNext == Basics /\ Books /\ [Next]_vars => Books'
<1> SUFFICES ASSUME Basics, Books, [Next]_vars PROVE Books'
  OBVIOUS
<1>1. Basics' /\ Stays
  BY BasicsNext
<1>2. CASE Start
  <2>1. pos' = 1 /\ placing' = 0 /\ pending' = <<>> /\ batch' = <<>> /\ failedWindows' = {}
    BY <1>2 DEF Start
  <2>2. \A p : ~Waits(p)'
    BY <2>1 DEF Waits
  <2>3. QueueOK'
    BY <2>1, <2>2 DEF QueueOK, Distinct
  <2>4. \A x \in DOMAIN plan' : ~(x < pos')
    <3>1. \A x \in DOMAIN plan' : x \in Nat \ {0}
      BY <1>1 DEF Basics, ProgressOK, PlanOK
    <3> QED  BY <2>1, <3>1
  <2> QED  BY <2>1, <2>3, <2>4 DEF Books, AtHand, FailedOK, SettledAll
<1>3. CASE ApplyStep
  BY <1>1, <1>3, ApplyBooks
<1>4. CASE UserStep
  <2>1. Same /\ UNCHANGED <<pos, placing, pending, batch, failed, failedWindows>>
    BY <1>4 DEF UserStep, UserSession, UserWindow, SelectPane, ClosePane, UserAct, progress, Same
  <2>2. Unrun /\ closed \subseteq closed'
    BY <1>4, UserUnrun DEF Basics
  <2> QED  BY <1>1, <2>1, <2>2, BooksStay
<1>5. CASE UNCHANGED vars \/ Finish \/ Die
  <2>1. Same /\ UNCHANGED <<live, pos, placing, pending, batch, failed, failedWindows, closed>>
    BY <1>5 DEF vars, Finish, Die, progress, Same
  <2>2. Unrun
    BY <2>1 DEF Unrun, live
  <2> QED  BY <1>1, <2>1, <2>2, BooksStay
<1> QED  BY <1>2, <1>3, <1>4, <1>5 DEF Next

\* An attempt that is done went through its plan; what undo deleted was all back.
Through ==
    /\ phase = "done" => pos > Len(plan) /\ batch = <<>>
    /\ ~row => phase = "done" /\ Fatal = {}

LEMMA ThroughNext == Through /\ [Next]_vars => Through'
<1> SUFFICES ASSUME Through, [Next]_vars PROVE Through'
  OBVIOUS
<1>1. CASE Start
  BY <1>1 DEF Start, Through
<1>2. CASE ApplyStep
  <2>1. phase = "apply" /\ UNCHANGED <<phase, row>>
    BY <1>2 DEF ApplyStep, CreateSession, MoveWindow, NewWindow, SplitPane, SetOption, SetLayout, ReopenBridge,
                Respawn, Applying, applying
  <2> QED  BY <2>1 DEF Through
<1>3. CASE Finish
  <2>1. phase' = "done" /\ pos > Len(plan) /\ batch = <<>> /\ UNCHANGED <<pos, plan, batch, failed>>
    BY <1>3 DEF Finish, progress
  <2>2. ~row' => Fatal = {}
    BY <1>3 DEF Finish, Through
  <2> QED  BY <2>1, <2>2 DEF Through, Fatal
<1>4. CASE Die
  BY <1>4 DEF Die, Through
<1>5. CASE UserStep \/ UNCHANGED vars
  <2>1. UNCHANGED <<phase, row, pos, plan, batch, failed>>
    BY <1>5 DEF vars, UserStep, UserSession, UserWindow, SelectPane, ClosePane, UserAct, progress
  <2> QED  BY <2>1 DEF Through, Fatal
<1> QED  BY <1>1, <1>2, <1>3, <1>4, <1>5 DEF Next

\* Nothing waits any more when an attempt is done: every layout has been set.
LEMMA NoneWaits ==
    ASSUME Basics, Books, Through, phase = "done", NEW x \in DOMAIN plan, plan[x].op \in Makes
    PROVE  Back(x) \/ NameOf(x) \in closed \/ Reported(x)
<1>1. ProgressOK /\ QueueOK /\ SettledAll /\ pos > Len(plan) /\ batch = <<>>
  BY DEF Basics, Books, Through
<1>2. pos \in Nat /\ Len(plan) \in Nat /\ \A y \in DOMAIN plan : y \in Nat /\ y <= Len(plan)
  BY <1>1 DEF ProgressOK, PlanOK
<1>3. \A k \in DOMAIN pending : FALSE
  BY <1>1, <1>2 DEF QueueOK
<1>4. \A p : ~Waits(p)
  BY <1>1, <1>3 DEF Waits
<1>5. ~Due(x)
  BY <1>4 DEF Due
<1>6. x < pos
  BY <1>1, <1>2
<1>7. Settled(x)
  BY <1>1, <1>6 DEF SettledAll
<1> QED  BY <1>5, <1>7 DEF Settled

\* What a step restores is named as the properties name it.
LEMMA StepNamed ==
    ASSUME ProgressOK, NEW x \in DOMAIN plan
    PROVE  /\ <<try>> \o plan[x].from = NameOf(x)
           /\ PaneOf(plan[x].from).startup = NeedsRun(NameOf(x))
           /\ NameOf(x) \in Origins
           /\ SubSeq(NameOf(x), 1, 3) = <<try, plan[x].from[1], plan[x].from[2]>>
<1>1. plan[x].from \in Froms /\ try \in Nat
  <2>1. plan[x] \in Steps
    BY DEF ProgressOK, PlanOK
  <2> QED  BY <2>1 DEF Steps, ProgressOK
<1>2. PICK a \in Nat, b \in Nat, c \in Nat : plan[x].from = <<a, b, c>>
  BY <1>1 DEF Froms
<1>3. PICK n : n = NameOf(x)
  OBVIOUS
<1>4. n = <<try, a, b, c>>
  BY <1>2, <1>3 DEF NameOf
<1>5. <<try>> \o plan[x].from = n
  BY <1>1, <1>2, <1>4, Prefixed
<1>6. <<n[2], n[3], n[4]>> = plan[x].from
  BY <1>2, <1>4
<1>7. PaneOf(plan[x].from).startup = NeedsRun(n)
  BY <1>6 DEF NeedsRun
<1>8. n \in Origins
  BY <1>1, <1>4 DEF Origins
<1>9. SubSeq(n, 1, 3) = <<try, a, b>>
  BY <1>1, <1>4, FirstThree
<1> QED  BY <1>2, <1>3, <1>5, <1>7, <1>8, <1>9

\* When Apply is through, every pane of its plan is back, with its startup command
\* run exactly once, or a failure names it or its window, or a user closed it.
THEOREM AccountedCorrect == Spec => []Accounted
<1>1. Init => Basics /\ Books /\ Through
  <2> SUFFICES ASSUME Init PROVE Basics /\ Books /\ Through
    OBVIOUS
  <2>1. /\ plan = <<>> /\ placing = 0 /\ pending = <<>> /\ batch = <<>> /\ failedWindows = {}
        /\ phase = "idle" /\ row = TRUE
    BY DEF Init
  <2>2. \A p : ~Waits(p)
    BY <2>1 DEF Waits
  <2>3. QueueOK
    BY <2>1, <2>2 DEF QueueOK, Distinct
  <2> QED  BY <2>1, <2>3, BasicsInit DEF Books, AtHand, FailedOK, SettledAll, Through
<1>2. Basics /\ Books /\ Through /\ [Next]_vars => Basics' /\ Books' /\ Through'
  BY BasicsNext, BooksNext, ThroughNext
<1>3. Basics /\ Books /\ Through => Accounted
  <2> SUFFICES ASSUME Basics, Books, Through, phase = "done", NEW x \in DOMAIN plan, plan[x].op \in Makes,
                      NEW from, from = <<try>> \o plan[x].from
               PROVE  \/ RestoredAs(from, PaneOf(plan[x].from).startup)
                      \/ from \in closed
                      \/ \E f \in failed : f.from = from /\ f.op # "layout"
                      \/ \E f \in failed : f.op = "window" /\ SubSeq(f.from, 1, 3) = SubSeq(from, 1, 3)
    BY DEF Accounted, Makes
  <2>1. ProgressOK
    BY DEF Basics
  <2>2. /\ from = NameOf(x) /\ PaneOf(plan[x].from).startup = NeedsRun(from)
        /\ SubSeq(from, 1, 3) = <<try, plan[x].from[1], plan[x].from[2]>>
    BY <2>1, StepNamed
  <2>3. CASE Back(x)
    BY <2>2, <2>3 DEF Back, RestoredAs
  <2>4. CASE \E y \in DOMAIN plan :
              /\ Report("window", NameOf(y)) \in failed
              /\ plan[y].from[1] = plan[x].from[1] /\ plan[y].from[2] = plan[x].from[2]
    <3>1. PICK y \in DOMAIN plan :
              /\ Report("window", NameOf(y)) \in failed
              /\ plan[y].from[1] = plan[x].from[1] /\ plan[y].from[2] = plan[x].from[2]
      BY <2>4
    <3>2. PICK n : n = NameOf(y)
      OBVIOUS
    <3>3. SubSeq(n, 1, 3) = SubSeq(from, 1, 3)
      <4>1. SubSeq(n, 1, 3) = <<try, plan[y].from[1], plan[y].from[2]>>
        BY <2>1, <3>2, StepNamed
      <4> QED  BY <2>2, <3>1, <4>1
    <3>4. PICK f : f = Report("window", n)
      OBVIOUS
    <3>5. f.op = "window" /\ f.from = n
      BY <3>4 DEF Report
    <3>6. f \in failed
      BY <3>1, <3>2, <3>4
    <3>7. SubSeq(f.from, 1, 3) = SubSeq(from, 1, 3)
      BY <3>3, <3>5
    <3> QED  BY <3>5, <3>6, <3>7
  <2>5. Back(x) \/ NameOf(x) \in closed \/ Reported(x)
    BY NoneWaits
  <2> QED  BY <2>2, <2>3, <2>4, <2>5 DEF Reported
<1> QED  BY <1>1, <1>2, <1>3, PTL DEF Spec

\* The event of a close is deleted only when all of it is back, or was closed again.
THEOREM PoppedOnlyIfRestoredCorrect == Spec => []PoppedOnlyIfRestored
<1>1. Init => Through
  BY DEF Init, Through
<1>2. Through /\ [Next]_vars => Through'
  BY ThroughNext
<1>3. Accounted /\ Through => PoppedOnlyIfRestored
  <2> SUFFICES ASSUME Accounted, Through, ~row, phase = "done",
                      NEW x \in DOMAIN plan, plan[x].op \in {"window", "split"},
                      NEW from, from = <<try>> \o plan[x].from
               PROVE  RestoredAs(from, PaneOf(plan[x].from).startup) \/ from \in closed
    BY DEF PoppedOnlyIfRestored
  <2>1. \A f \in failed : f.op = "layout"
    BY DEF Through, Fatal
  <2>2. \/ RestoredAs(from, PaneOf(plan[x].from).startup)
        \/ from \in closed
        \/ \E f \in failed : f.from = from /\ f.op # "layout"
        \/ \E f \in failed : f.op = "window" /\ SubSeq(f.from, 1, 3) = SubSeq(from, 1, 3)
    BY DEF Accounted
  <2>3. ~ \E f \in failed : f.op = "window" /\ SubSeq(f.from, 1, 3) = SubSeq(from, 1, 3)
    BY <2>1
  <2> QED  BY <2>1, <2>2, <2>3
<1> QED  BY <1>1, <1>2, <1>3, AccountedCorrect, PTL DEF Spec
=============================================================================
