---------------------------- MODULE PickerProofs ----------------------------
(***************************************************************************)
(* The picker, for every list it is opened on, every size of the terminal  *)
(* and every order of keys, clicks and late answers: its types; Enter      *)
(* restores what the tree shows; the cursor's row, the rows of the list    *)
(* and the blocks of a close fit what they are drawn in; a click selects   *)
(* the row under the pointer; only a filter toggle unsettles it, and only  *)
(* another size moves the offset of a close off its end; and no screen is  *)
(* asked for twice.                                                        *)
(*                                                                         *)
(* The argument.  First what the operators of the layout and of the lists  *)
(* return, for any numbers: a window holds the cursor's row and no more    *)
(* rows than it may, the blocks of a close take no more than the panel and *)
(* none of them grows when a screen arrives, a walk ends on a target.      *)
(* Then the inductive invariant PickInv: that every tree that was built is *)
(* decorated with the filter in force and the manifest under the cursor    *)
(* was read (EnterInv), that the rows stand for closes that can be         *)
(* restored (Given), that the list's cursor is on what can be selected     *)
(* (OnList), and types.  Each action keeps it by what it does to the       *)
(* cursors; the properties of a state follow from it and the operators'    *)
(* facts, those of a step from it before and after.                        *)
(***************************************************************************)
EXTENDS Picker, FiniteSetTheorems, SequenceTheorems, WellFoundedInduction, NaturalsInduction, TLAPS

(* Finite sets of numbers *)

LEMMA LeastNat ==
    ASSUME NEW T \in SUBSET Nat, T # {}
    PROVE  \E x \in T : \A y \in T : x <= y
<1>1. PICK x \in T : \A y \in T : ~(<<y, x>> \in OpToRel(<, Nat))
  BY NatLessThanWellFounded, WFMin
<1>2. \A y \in T : ~(y < x)
  BY <1>1 DEF OpToRel
<1> QED
  BY <1>2

LEMMA MaxOfTwo ==
    ASSUME NEW a \in Int, NEW b \in Int
    PROVE  Max({a, b}) = IF a >= b THEN a ELSE b
<1> DEFINE m == IF a >= b THEN a ELSE b
<1>1. m \in {a, b} /\ \A y \in {a, b} : m >= y
  OBVIOUS
<1>2. \A x \in {a, b} : (\A y \in {a, b} : x >= y) => x = m
  OBVIOUS
<1> QED
  BY <1>1, <1>2 DEF Max

LEMMA MinOfTwo ==
    ASSUME NEW a \in Int, NEW b \in Int
    PROVE  Min({a, b}) = IF a <= b THEN a ELSE b
<1> DEFINE m == IF a <= b THEN a ELSE b
<1>1. m \in {a, b} /\ \A y \in {a, b} : m =< y
  OBVIOUS
<1>2. \A x \in {a, b} : (\A y \in {a, b} : x =< y) => x = m
  OBVIOUS
<1> QED
  BY <1>1, <1>2 DEF Min

\* Of a finite set of numbers one is the farthest in a direction.
LEMMA Farthest ==
    ASSUME NEW S \in SUBSET Int, S # {}, IsFiniteSet(S), NEW dir \in {-1, 1}
    PROVE  \E t \in S : \A u \in S : dir * (u - t) <= 0
<1> DEFINE Past(t) == {u \in S : dir * (u - t) > 0}
           sizes == {Cardinality(Past(t)) : t \in S}
<1>1. \A t \in S : IsFiniteSet(Past(t)) /\ Cardinality(Past(t)) \in Nat
  <2> TAKE t \in S
  <2> DEFINE P == Past(t)
  <2>1. P \in SUBSET S
    OBVIOUS
  <2> HIDE DEF P
  <2>2. IsFiniteSet(P) /\ Cardinality(P) \in Nat
    BY <2>1, FS_Subset, FS_CardinalityType
  <2> QED
    BY <2>2 DEF P
<1>2. sizes \in SUBSET Nat /\ sizes # {}
  BY <1>1
<1>3. PICK n \in sizes : \A m \in sizes : n <= m
  <2> HIDE DEF sizes
  <2> QED
    BY <1>2, LeastNat
<1>4. PICK t \in S : n = Cardinality(Past(t))
  BY <1>3
<1>5. ASSUME NEW v \in S, dir * (v - t) > 0 PROVE FALSE
  <2> DEFINE P == Past(v)
             Q == Past(t)
  <2>1. P \in SUBSET Q /\ v \in Q /\ v \notin P
    <3>1. \A u \in S : dir * (u - v) > 0 => dir * (u - t) > 0
      BY <1>5
    <3>2. ~(dir * (v - v) > 0)
      OBVIOUS
    <3> QED
      BY <1>5, <3>1, <3>2
  <2>2. /\ IsFiniteSet(Q) /\ Cardinality(P) \in Nat /\ Cardinality(Q) \in Nat
        /\ Cardinality(Q) <= Cardinality(P)
    <3>1. Cardinality(P) \in sizes
      OBVIOUS
    <3> QED
      BY <1>1, <1>3, <1>4, <3>1
  <2> HIDE DEF P, Q
  <2>3. Cardinality(P) <= Cardinality(Q) /\ (Cardinality(P) = Cardinality(Q) => P = Q)
    BY <2>1, <2>2, FS_Subset
  <2> QED
    BY <2>1, <2>2, <2>3
<1>6. \A u \in S : dir * (u - t) <= 0
  BY <1>5
<1> QED
  BY <1>6

LEMMA MaxIn ==
    ASSUME NEW S \in SUBSET Int, S # {}, IsFiniteSet(S)
    PROVE  Max(S) \in S /\ \A u \in S : u <= Max(S)
<1>1. PICK t \in S : \A u \in S : 1 * (u - t) <= 0
  BY Farthest
<1>2. \A u \in S : t >= u
  BY <1>1
<1>3. Max(S) \in S /\ \A u \in S : Max(S) >= u
  BY <1>2 DEF Max
<1> QED
  BY <1>3

LEMMA MinIn ==
    ASSUME NEW S \in SUBSET Int, S # {}, IsFiniteSet(S)
    PROVE  Min(S) \in S /\ \A u \in S : Min(S) <= u
<1>1. PICK t \in S : \A u \in S : (-1) * (u - t) <= 0
  BY Farthest
<1>2. \A u \in S : t =< u
  BY <1>1
<1>3. Min(S) \in S /\ \A u \in S : Min(S) =< u
  BY <1>2 DEF Min
<1> QED
  BY <1>3

\* Of a finite set of numbers one is the n-th in a direction.
LEMMA NthExists ==
    ASSUME NEW S \in SUBSET Int, IsFiniteSet(S), NEW dir \in {-1, 1},
           NEW n \in 1..Cardinality(S)
    PROVE  \E t \in S : Cardinality({u \in S : dir * (u - t) <= 0}) = n
<1> DEFINE Upto(t) == {u \in S : dir * (u - t) <= 0}
           c == Cardinality(S)
           Reached(m) == \E t \in S : Cardinality(Upto(t)) = m
           missed == {j \in Nat : j < c /\ ~Reached(c - j)}
<1>0. c \in Nat
  BY FS_CardinalityType
<1>1. \A t \in S : Upto(t) \in SUBSET S /\ IsFiniteSet(Upto(t))
  <2> TAKE t \in S
  <2> DEFINE P == Upto(t)
  <2>1. P \in SUBSET S
    OBVIOUS
  <2> HIDE DEF P
  <2>2. IsFiniteSet(P)
    BY <2>1, FS_Subset
  <2> QED
    BY <2>1, <2>2 DEF P
<1>2. c > 0 => Reached(c)
  <2> SUFFICES ASSUME c > 0 PROVE Reached(c)
    OBVIOUS
  <2>1. S # {}
    BY FS_EmptySet
  <2>2. PICK t \in S : \A u \in S : dir * (u - t) <= 0
    BY <2>1, Farthest
  <2>3. Upto(t) = S
    BY <2>2
  <2> QED
    BY <2>3
<1>3. ASSUME NEW m \in 2..c, Reached(m) PROVE Reached(m - 1)
  <2>1. PICK t \in S : Cardinality(Upto(t)) = m
    BY <1>3
  <2> DEFINE U == Upto(t)
             R == U \ {t}
  <2>2. t \in U /\ U \in SUBSET Int /\ R \in SUBSET Int /\ IsFiniteSet(U) /\ Cardinality(U) = m
    <3>1. dir * (t - t) <= 0
      OBVIOUS
    <3>2. t \in U
      BY <3>1
    <3>3. IsFiniteSet(U) /\ Cardinality(U) = m
      BY <1>1, <2>1
    <3> QED
      BY <3>2, <3>3
  <2>3. IsFiniteSet(R) /\ Cardinality(R) = m - 1
    <3> HIDE DEF U
    <3> QED
      BY <2>2, FS_RemoveElement
  <2>4. R # {}
    <3> HIDE DEF R
    <3> QED
      BY <2>3, FS_EmptySet
  <2>5. PICK v \in R : \A u \in R : dir * (u - v) <= 0
    <3> HIDE DEF R
    <3> QED
      BY <2>2, <2>3, <2>4, Farthest
  <2>6. v \in S /\ dir * (v - t) <= 0 /\ v # t
    BY <2>5
  <2>7. Upto(v) = R
    <3>1. ASSUME NEW u \in S, dir * (u - v) <= 0 PROVE dir * (u - t) <= 0 /\ u # t
      BY <2>6, <3>1
    <3>2. ASSUME NEW u \in R PROVE u \in S /\ dir * (u - v) <= 0
      BY <2>5
    <3> QED
      BY <3>1, <3>2
  <2> QED
    BY <2>3, <2>6, <2>7
<1>4. missed = {}
  <2> SUFFICES ASSUME missed # {} PROVE FALSE
    OBVIOUS
  <2>1. missed \in SUBSET Nat
    OBVIOUS
  <2>2. PICK j \in missed : \A k \in missed : j <= k
    <3> HIDE DEF missed
    <3> QED
      BY <2>1, LeastNat
  <2>3. j \in Nat /\ j < c /\ ~Reached(c - j)
    BY <2>2
  <2>4. j # 0
    <3> HIDE DEF Reached
    <3> QED
      BY <1>0, <1>2, <2>3
  <2>5. j - 1 \in Nat /\ j - 1 < c /\ j - 1 \notin missed
    BY <1>0, <2>2, <2>3, <2>4
  <2>6. Reached(c - (j - 1))
    BY <2>5
  <2>7. c - (j - 1) \in 2..c /\ (c - (j - 1)) - 1 = c - j
    BY <1>0, <2>3, <2>5
  <2> HIDE DEF Reached
  <2>8. Reached((c - (j - 1)) - 1)
    BY <1>3, <2>6, <2>7
  <2> QED
    BY <2>3, <2>7, <2>8
<1>5. c - n \in Nat /\ c - n < c /\ c - (c - n) = n
  BY <1>0
<1>6. Reached(c - (c - n))
  <2> HIDE DEF Reached
  <2> QED
    BY <1>4, <1>5
<1> QED
  BY <1>5, <1>6
-----------------------------------------------------------------------------
(* Windows of a list *)

LEMMA DivFacts ==
    ASSUME NEW a \in Int, NEW b \in Nat \ {0}
    PROVE  /\ a \div b \in Int /\ a % b \in 0..b - 1
           /\ a = b * (a \div b) + (a % b)
OBVIOUS

\* The rows a list draws of a total, around its cursor.
WindowOK(w, c, total, n) ==
    /\ w.above \in Nat /\ w.last \in Nat
    /\ w.above <= w.last /\ w.last <= total /\ w.last - w.above <= n
    /\ c \in 1..total => w.above < c /\ c <= w.last

LEMMA ScrollWindowOK ==
    ASSUME NEW c \in Nat, NEW total \in Nat, NEW n \in Nat \ {0}
    PROVE  WindowOK(ScrollWindow(c, total, n), c, total, n)
<1> DEFINE half == n \div 2
           centered == Max({c - 1 - half, 0})
<1>1. half \in Nat /\ half < n
  OBVIOUS
<1>2. centered = IF c - 1 - half >= 0 THEN c - 1 - half ELSE 0
  <2> HIDE DEF half
  <2> QED
    BY <1>1, MaxOfTwo
<1>3. ScrollWindow(c, total, n) =
        IF total <= n THEN [above |-> 0, last |-> total]
        ELSE IF centered + n > total THEN [above |-> total - n, last |-> total]
        ELSE [above |-> centered, last |-> centered + n]
  BY DEF ScrollWindow
<1> HIDE DEF half, centered
<1> QED
  BY <1>1, <1>2, <1>3 DEF WindowOK

LEMMA ListRowsOK ==
    ASSUME NEW height \in Int, NEW hide \in Nat
    PROVE  /\ ListRows(height) = IF height - 2 >= 1 THEN height - 2 ELSE 1
           /\ RowBudget(height, hide) \in Nat \ {0}
           /\ RowBudget(height, hide) + (IF FooterShows(height, hide) THEN 1 ELSE 0) = ListRows(height)
<1>1. ListRows(height) = IF height - 2 >= 1 THEN height - 2 ELSE 1
  BY MaxOfTwo DEF ListRows
<1> QED
  BY <1>1 DEF RowBudget, FooterShows

LEMMA CloseListWindowOK ==
    ASSUME NEW c \in Nat, NEW total \in Nat, NEW headers \in SUBSET Nat, IsFiniteSet(headers),
           NEW height \in Int, NEW hide \in Nat,
           NEW w, w = CloseListWindow(c, total, headers, height, hide)
    PROVE  /\ WindowOK(w, c, total, RowBudget(height, hide) - IF w.pin = 0 THEN 0 ELSE 1)
           /\ w.pin \in {0} \cup headers
<1> DEFINE budget == RowBudget(height, hide)
           whole == ScrollWindow(c, total, budget)
           before == {0} \cup {h \in headers : h <= c}
           header == Max(before)
           pin == IF header > whole.above \/ budget < 2 THEN 0 ELSE header
           rest == IF pin = 0 THEN whole ELSE ScrollWindow(c, total, budget - 1)
<1>1. budget \in Nat \ {0}
  BY ListRowsOK
<1>2. header \in {0} \cup headers
  <2>1. before \in SUBSET Int /\ before # {}
    <3>1. before \in SUBSET Int
      <4>1. headers \in SUBSET Int
        OBVIOUS
      <4> HIDE DEF budget, whole, header, pin, rest
      <4>2. ASSUME NEW x \in before PROVE x \in Int
        BY <4>1, <4>2
      <4> QED
        BY <4>2
    <3>2. 0 \in before
      OBVIOUS
    <3> HIDE DEF before
    <3> QED
      BY <3>1, <3>2
  <2>2. IsFiniteSet(before)
    <3> DEFINE H == {h \in headers : h <= c}
    <3>1. H \in SUBSET headers
      OBVIOUS
    <3> HIDE DEF H
    <3>2. IsFiniteSet(H)
      BY <3>1, FS_Subset
    <3>3. IsFiniteSet(H \cup {0})
      BY <3>2, FS_AddElement
    <3>4. before = H \cup {0}
      BY DEF H
    <3> QED
      BY <3>3, <3>4
  <2>3. header \in before
    <3> HIDE DEF before
    <3> QED
      BY <2>1, <2>2, MaxIn
  <2> QED
    BY <2>3
<1>3. w = [pin |-> pin, above |-> rest.above, last |-> rest.last]
  BY DEF CloseListWindow
<1> HIDE DEF header, budget, whole, rest
<1>4. pin \in {0} \cup headers /\ (pin # 0 => budget >= 2)
  BY <1>1, <1>2
<1>5. CASE pin = 0
  <2>1. rest = whole /\ WindowOK(whole, c, total, budget)
    BY <1>1, <1>5, ScrollWindowOK DEF rest, whole
  <2> HIDE DEF pin
  <2>2. w.above = whole.above /\ w.last = whole.last /\ w.pin = 0
    BY <1>3, <1>5, <2>1
  <2> QED
    BY <1>1, <2>1, <2>2 DEF WindowOK, budget
<1>6. CASE pin # 0
  <2> HIDE DEF pin
  <2>1. rest = ScrollWindow(c, total, budget - 1) /\ budget - 1 \in Nat \ {0}
    BY <1>1, <1>4, <1>6 DEF rest
  <2>2. WindowOK(rest, c, total, budget - 1)
    BY <2>1, ScrollWindowOK
  <2>3. w.above = rest.above /\ w.last = rest.last /\ w.pin = pin
    BY <1>3
  <2> QED
    BY <1>1, <1>4, <1>6, <2>2, <2>3 DEF WindowOK, budget
<1> QED
  BY <1>5, <1>6

\* A list without headers is a scrolled list.
SameWindow(w, v) == w.pin = 0 /\ w.above = v.above /\ w.last = v.last

LEMMA NoHeaders ==
    ASSUME NEW c \in Nat, NEW total \in Nat, NEW height \in Int, NEW hide \in Nat
    PROVE  SameWindow(CloseListWindow(c, total, {}, height, hide), ListWindow(c, total, height, hide))
<1> DEFINE before == {0} \cup {h \in {} : h <= c}
<1>1. before = {0, 0}
  OBVIOUS
<1>2. Max(before) = 0
  BY <1>1, MaxOfTwo
<1> DEFINE budget == RowBudget(height, hide)
           whole == ScrollWindow(c, total, budget)
           pin == IF Max(before) > whole.above \/ budget < 2 THEN 0 ELSE Max(before)
           rest == IF pin = 0 THEN whole ELSE ScrollWindow(c, total, budget - 1)
<1>3. CloseListWindow(c, total, {}, height, hide) = [pin |-> pin, above |-> rest.above, last |-> rest.last]
  BY DEF CloseListWindow
<1> HIDE DEF before, whole
<1>4. pin = 0
  BY <1>2
<1> HIDE DEF pin
<1>5. rest = whole
  BY <1>4
<1> HIDE DEF rest
<1>6. CloseListWindow(c, total, {}, height, hide) = [pin |-> 0, above |-> whole.above, last |-> whole.last]
  BY <1>3, <1>4, <1>5
<1>7. ListWindow(c, total, height, hide) = whole
  BY DEF ListWindow, whole
<1> QED
  BY <1>6, <1>7 DEF SameWindow
-----------------------------------------------------------------------------
(* Sums *)

\* The sum MapThenSumSet takes, one element at a time.
Sums(h, D) ==
    CHOOSE iter : iter = [s \in SUBSET D |->
        IF s = {} THEN 0 ELSE h[CHOOSE x \in s : TRUE] + iter[s \ {CHOOSE x \in s : TRUE}]]

LEMMA SumIsSums ==
    ASSUME NEW h, NEW D
    PROVE  MapThenSumSet(LAMBDA i : h[i], D) = Sums(h, D)[D]
BY DEF MapThenSumSet, MapThenFoldSet, Sums

\* A set whose elements are two, but q in F, and one more in E.
SumOf(s, F, E, q) == 2 * Cardinality(s \ F) + q * Cardinality(s \cap F) + Cardinality(s \cap E)

LEMMA SumOfStep ==
    ASSUME NEW s, IsFiniteSet(s), NEW F, NEW E \in SUBSET F, NEW q \in Int, NEW x \in s
    PROVE  /\ SumOf(s, F, E, q) \in Int
           /\ SumOf(s, F, E, q) = SumOf(s \ {x}, F, E, q)
                + (IF x \in F THEN q + (IF x \in E THEN 1 ELSE 0) ELSE 2)
<1> DEFINE A == s \ F
           B == s \cap F
           C == s \cap E
           t == s \ {x}
<1>1. IsFiniteSet(A) /\ IsFiniteSet(B) /\ IsFiniteSet(C)
  BY FS_Subset
<1>2. t \ F = A \ {x} /\ t \cap F = B \ {x} /\ t \cap E = C \ {x}
  OBVIOUS
<1>3. (x \in A <=> x \notin F) /\ (x \in B <=> x \in F) /\ (x \in C <=> x \in E)
  OBVIOUS
<1> DEFINE a == Cardinality(A)
           b == Cardinality(B)
           c == Cardinality(C)
<1> HIDE DEF A, B, C, t
<1>4. a \in Nat /\ b \in Nat /\ c \in Nat
  BY <1>1, FS_CardinalityType
<1>5. /\ Cardinality(A \ {x}) = IF x \in A THEN a - 1 ELSE a
      /\ Cardinality(B \ {x}) = IF x \in B THEN b - 1 ELSE b
      /\ Cardinality(C \ {x}) = IF x \in C THEN c - 1 ELSE c
  BY <1>1, FS_RemoveElement
<1>6. SumOf(s, F, E, q) = 2 * a + q * b + c
  BY DEF SumOf, A, B, C
<1>7. SumOf(t, F, E, q) = 2 * Cardinality(A \ {x}) + q * Cardinality(B \ {x}) + Cardinality(C \ {x})
  BY <1>2 DEF SumOf
<1> HIDE DEF a, b, c
<1>8. q * b \in Int /\ q * (b - 1) = q * b - q
  BY <1>4
<1>9. CASE x \notin F
  <2>1. SumOf(t, F, E, q) = 2 * (a - 1) + q * b + c
    BY <1>3, <1>5, <1>7, <1>9
  <2> QED
    BY <1>4, <1>6, <1>8, <1>9, <2>1 DEF t
<1>10. CASE x \in F
  <2>1. SumOf(t, F, E, q) = 2 * a + q * (b - 1) + (IF x \in E THEN c - 1 ELSE c)
    BY <1>3, <1>5, <1>7, <1>10
  <2> QED
    BY <1>4, <1>6, <1>8, <1>10, <2>1 DEF t
<1> QED
  BY <1>9, <1>10

OfKinds(h, s, F, E, q) ==
    \A i \in s : h[i] = IF i \in F THEN q + (IF i \in E THEN 1 ELSE 0) ELSE 2

LEMMA SumByKinds ==
    ASSUME NEW D, IsFiniteSet(D), NEW F \in SUBSET D, NEW E \in SUBSET F, NEW q \in Int, NEW h,
           OfKinds(h, D, F, E, q)
    PROVE  Sums(h, D)[D] = SumOf(D, F, E, q)
<1> DEFINE Eqn(iter) == iter = [s \in SUBSET D |->
              IF s = {} THEN 0 ELSE h[CHOOSE x \in s : TRUE] + iter[s \ {CHOOSE x \in s : TRUE}]]
           G == [s \in SUBSET D |-> SumOf(s, F, E, q)]
           ch(s) == CHOOSE x \in s : TRUE
<1>1. ASSUME NEW t, t = {} PROVE SumOf(t, F, E, q) = 0
  <2>1. t \ F = {} /\ t \cap F = {} /\ t \cap E = {}
    BY <1>1
  <2>2. Cardinality({}) = 0
    BY FS_EmptySet
  <2>3. Cardinality(t \ F) = 0 /\ Cardinality(t \cap F) = 0 /\ Cardinality(t \cap E) = 0
    BY <2>1, <2>2
  <2> QED
    BY <2>3 DEF SumOf
<1>2. ASSUME NEW s \in SUBSET D, s # {}
      PROVE  /\ ch(s) \in s /\ s \ {ch(s)} \in SUBSET D
             /\ SumOf(s, F, E, q) = h[ch(s)] + SumOf(s \ {ch(s)}, F, E, q)
             /\ IsFiniteSet(s)
  <2>1. ch(s) \in s
    BY <1>2
  <2>2. PICK x \in s : x = ch(s)
    BY <2>1
  <2>3. IsFiniteSet(s) /\ IsFiniteSet(s \ {x})
    BY FS_Subset
  <2>4. /\ SumOf(s, F, E, q) = SumOf(s \ {x}, F, E, q)
                + (IF x \in F THEN q + (IF x \in E THEN 1 ELSE 0) ELSE 2)
    BY <2>3, SumOfStep
  <2>5. SumOf(s \ {x}, F, E, q) \in Int
    <3>1. PICK t : t = s \ {x}
      OBVIOUS
    <3>2. CASE t = {}
      BY <1>1, <3>1, <3>2
    <3>3. CASE t # {}
      <4>1. PICK y \in t : TRUE
        BY <3>3
      <4>2. IsFiniteSet(t)
        BY <2>3, <3>1
      <4>3. SumOf(t, F, E, q) \in Int
        BY <4>1, <4>2, SumOfStep
      <4> QED
        BY <3>1, <4>3
    <3> QED
      BY <3>2, <3>3
  <2>6. h[x] = (IF x \in F THEN q + (IF x \in E THEN 1 ELSE 0) ELSE 2) /\ h[x] \in Int
    BY <2>2 DEF OfKinds
  <2>7. SumOf(s, F, E, q) = h[x] + SumOf(s \ {x}, F, E, q)
    BY <2>4, <2>5, <2>6
  <2> HIDE DEF ch
  <2> QED
    BY <2>1, <2>2, <2>3, <2>7
<1>3. Eqn(G)
  <2>1. ASSUME NEW s \in SUBSET D
        PROVE  G[s] = IF s = {} THEN 0 ELSE h[ch(s)] + G[s \ {ch(s)}]
    <3> HIDE DEF ch
    <3>1. CASE s = {}
      BY <1>1, <3>1
    <3>2. CASE s # {}
      <4>1. /\ s \ {ch(s)} \in SUBSET D
            /\ SumOf(s, F, E, q) = h[ch(s)] + SumOf(s \ {ch(s)}, F, E, q)
        BY <1>2, <3>2
      <4> QED
        BY <3>2, <4>1
    <3> QED
      BY <3>1, <3>2
  <2>2. G = [s \in SUBSET D |-> G[s]]
    OBVIOUS
  <2> QED
    BY <2>1, <2>2
<1> DEFINE g == Sums(h, D)
<1>4. Eqn(g)
  <2>1. g = CHOOSE iter : Eqn(iter)
    BY DEF Sums
  <2> HIDE DEF Eqn, g
  <2> QED
    BY <1>3, <2>1
<1>5. /\ g[{}] = 0
      /\ \A s \in SUBSET D : s # {} => g[s] = h[ch(s)] + g[s \ {ch(s)}]
  <2> HIDE DEF g
  <2> QED
    BY <1>4
<1> DEFINE wrong == {Cardinality(s) : s \in {u \in SUBSET D : g[u] # SumOf(u, F, E, q)}}
<1>6. wrong \in SUBSET Nat
  BY FS_Subset, FS_CardinalityType
<1>7. wrong = {}
  <2> SUFFICES ASSUME wrong # {} PROVE FALSE
    OBVIOUS
  <2>1. PICK n \in wrong : \A m \in wrong : n <= m
    <3> HIDE DEF wrong
    <3> QED
      BY <1>6, LeastNat
  <2>2. PICK s \in SUBSET D : g[s] # SumOf(s, F, E, q) /\ n = Cardinality(s)
    BY <2>1
  <2>3. s # {}
    BY <1>1, <1>5, <2>2
  <2>4. /\ ch(s) \in s /\ s \ {ch(s)} \in SUBSET D /\ IsFiniteSet(s)
        /\ SumOf(s, F, E, q) = h[ch(s)] + SumOf(s \ {ch(s)}, F, E, q)
    BY <1>2, <2>3
  <2>5. PICK t : t = s \ {ch(s)}
    OBVIOUS
  <2> HIDE DEF ch, g
  <2>6. Cardinality(t) = Cardinality(s) - 1 /\ Cardinality(s) \in Nat
    BY <2>4, <2>5, FS_RemoveElement, FS_CardinalityType
  <2>7. g[t] = SumOf(t, F, E, q)
    <3> SUFFICES ASSUME g[t] # SumOf(t, F, E, q) PROVE FALSE
      OBVIOUS
    <3>1. Cardinality(t) \in wrong
      BY <2>4, <2>5
    <3> HIDE DEF wrong
    <3> QED
      BY <2>1, <2>2, <2>6, <3>1
  <2> QED
    BY <1>5, <2>2, <2>3, <2>4, <2>5, <2>7
<1>8. \A s \in SUBSET D : g[s] = SumOf(s, F, E, q)
  <2> HIDE DEF g
  <2> QED
    BY <1>7
<1> QED
  BY <1>8
-----------------------------------------------------------------------------
(* The blocks of a close *)

\* The blocks there is room for, those among them that share the rest, what
\* they share, and who comes first when it does not divide.
ShownBlocks(noted, room) == 1..Min({Cardinality(DOMAIN noted), room \div 2})
FlexBlocks(noted, room) == {i \in ShownBlocks(noted, room) : ~noted[i]}
FlexRoom(noted, room) ==
    room - 2 * Cardinality(ShownBlocks(noted, room) \ FlexBlocks(noted, room))
Early(F, r) == {i \in F : Cardinality({j \in F : j < i}) < r}

LEMMA BlockParts ==
    ASSUME NEW noted, NEW n \in Nat, DOMAIN noted = 1..n, NEW room \in Int
    PROVE  LET S == ShownBlocks(noted, room)
               F == FlexBlocks(noted, room)
           IN  /\ S \in SUBSET (1..n) /\ IsFiniteSet(S) /\ Cardinality(S) \in Nat
               /\ F \in SUBSET S /\ IsFiniteSet(F) /\ Cardinality(F) \in Nat
               /\ Cardinality(S \ F) = Cardinality(S) - Cardinality(F)
               /\ S # {} => 2 * Cardinality(S) <= room
               /\ F # {} => Cardinality(F) \in Nat \ {0}
               /\ FlexRoom(noted, room) \in Int
<1> DEFINE S == ShownBlocks(noted, room)
           F == FlexBlocks(noted, room)
           half == room \div 2
           k == IF n <= half THEN n ELSE half
<1>1. half \in Int /\ 2 * half <= room
  OBVIOUS
<1>2. S = 1..k
  <2>1. Cardinality(1..n) = n
    BY FS_Interval
  <2> HIDE DEF half
  <2>2. Min({n, half}) = k
    BY <1>1, MinOfTwo
  <2> HIDE DEF k
  <2> QED
    BY <2>1, <2>2 DEF ShownBlocks, half
<1>3. k \in Int /\ k <= n /\ k <= half
  <2> HIDE DEF half
  <2> QED
    BY <1>1
<1> HIDE DEF k, half, S
<1>4. /\ S \in SUBSET (1..n) /\ IsFiniteSet(S) /\ Cardinality(S) = IF 1 > k THEN 0 ELSE k
      /\ (S # {} => k >= 1)
  BY <1>2, <1>3, FS_Interval
<1>5. F \in SUBSET S
  BY DEF FlexBlocks, S
<1> HIDE DEF F
<1>6. IsFiniteSet(F) /\ Cardinality(F) \in Nat /\ (F # {} => Cardinality(F) # 0) /\ S \cap F = F
  BY <1>4, <1>5, FS_Subset, FS_CardinalityType, FS_EmptySet
<1>7. Cardinality(S \ F) = Cardinality(S) - Cardinality(F)
  <2>1. Cardinality(S \ F) = Cardinality(S) - Cardinality(S \cap F)
    BY <1>4, FS_Difference
  <2>2. Cardinality(S \cap F) = Cardinality(F)
    BY <1>6
  <2> QED
    BY <2>1, <2>2
<1>8. Cardinality(S) \in Nat /\ (S # {} => 2 * Cardinality(S) <= room)
  BY <1>1, <1>3, <1>4
<1>9. FlexRoom(noted, room) \in Int
  <2>1. FlexRoom(noted, room) = room - 2 * Cardinality(S \ F)
    BY DEF FlexRoom, S, F
  <2> QED
    BY <1>6, <1>7, <1>8, <2>1
<1> QED
  BY <1>4, <1>5, <1>6, <1>7, <1>8, <1>9 DEF S, F

LEMMA BlockAt ==
    ASSUME NEW noted, NEW room, NEW i \in ShownBlocks(noted, room)
    PROVE  LET F == FlexBlocks(noted, room)
               rest == FlexRoom(noted, room)
           IN  CloseBlockHeights(noted, room)[i] =
                 IF i \in F
                   THEN rest \div Cardinality(F)
                          + (IF i \in Early(F, rest % Cardinality(F)) THEN 1 ELSE 0)
                   ELSE 2
<1> DEFINE S == ShownBlocks(noted, room)
           F == FlexBlocks(noted, room)
           rest == FlexRoom(noted, room)
           Extra(x) == IF Cardinality({j \in F : j < x}) < rest % Cardinality(F) THEN 1 ELSE 0
<1>1. CloseBlockHeights(noted, room) =
        [x \in S |-> IF noted[x] THEN 2 ELSE rest \div Cardinality(F) + Extra(x)]
  BY DEF CloseBlockHeights, ShownBlocks, FlexBlocks, FlexRoom
<1>2. i \in F <=> ~noted[i]
  BY DEF FlexBlocks
<1> HIDE DEF F, rest
<1>3. i \in F => Extra(i) = IF i \in Early(F, rest % Cardinality(F)) THEN 1 ELSE 0
  BY DEF Early
<1> HIDE DEF Extra
<1>4. CloseBlockHeights(noted, room)[i] = IF noted[i] THEN 2 ELSE rest \div Cardinality(F) + Extra(i)
  BY <1>1
<1> QED
  BY <1>2, <1>3, <1>4 DEF F, rest

LEMMA BlockDomain ==
    ASSUME NEW noted, NEW room
    PROVE  DOMAIN CloseBlockHeights(noted, room) = ShownBlocks(noted, room)
BY DEF CloseBlockHeights, ShownBlocks

\* No more come first than there are rows left over.
LEMMA EarlyFew ==
    ASSUME NEW F \in SUBSET Int, IsFiniteSet(F), NEW r \in Nat
    PROVE  IsFiniteSet(Early(F, r)) /\ Cardinality(Early(F, r)) \in 0..r
<1> DEFINE E == Early(F, r)
<1>1. E \in SUBSET F
  BY DEF Early
<1>2. IsFiniteSet(E) /\ Cardinality(E) \in Nat
  BY <1>1, FS_Subset, FS_CardinalityType
<1>3. CASE E = {}
  BY <1>2, <1>3, FS_EmptySet
<1>4. CASE E # {}
  <2>1. PICK m \in E : \A u \in E : u <= m
    <3>1. E \in SUBSET Int
      BY <1>1
    <3> HIDE DEF E
    <3> QED
      BY <1>2, <1>4, <3>1, MaxIn
  <2> DEFINE B == {j \in F : j < m}
  <2>2. m \in F /\ Cardinality(B) < r
    BY <2>1 DEF Early
  <2>3. B \in SUBSET F /\ m \notin B /\ E \in SUBSET (B \cup {m})
    <3>1. m \in Int
      BY <1>1
    <3>2. \A u \in E : u \in F /\ u \in Int /\ u <= m
      BY <1>1, <2>1
    <3> HIDE DEF E
    <3> QED
      BY <3>1, <3>2
  <2> HIDE DEF B, E
  <2>4. IsFiniteSet(B) /\ Cardinality(B) \in Nat
    BY <2>3, FS_Subset, FS_CardinalityType
  <2>5. IsFiniteSet(B \cup {m}) /\ Cardinality(B \cup {m}) = Cardinality(B) + 1
    BY <2>3, <2>4, FS_AddElement
  <2>6. Cardinality(E) <= Cardinality(B \cup {m})
    BY <2>3, <2>5, FS_Subset
  <2> QED
    BY <1>2, <2>2, <2>4, <2>5, <2>6 DEF E
<1> QED
  BY <1>3, <1>4

LEMMA BlocksFit ==
    ASSUME NEW noted, NEW n \in Nat, DOMAIN noted = 1..n, NEW room \in Int
    PROVE  LET h == CloseBlockHeights(noted, room)
           IN  /\ DOMAIN h \in SUBSET (1..n)
               /\ \A i \in DOMAIN h : h[i] \in Int /\ h[i] >= 2
               /\ DOMAIN h # {} => MapThenSumSet(LAMBDA i : h[i], DOMAIN h) <= room
<1> DEFINE h == CloseBlockHeights(noted, room)
           S == ShownBlocks(noted, room)
           F == FlexBlocks(noted, room)
           f == Cardinality(F)
           rest == FlexRoom(noted, room)
           q == rest \div f
           r == rest % f
           E == Early(F, r)
<1>1. DOMAIN h = S
  BY BlockDomain
<1>2. /\ S \in SUBSET (1..n) /\ IsFiniteSet(S) /\ Cardinality(S) \in Nat
      /\ F \in SUBSET S /\ IsFiniteSet(F) /\ Cardinality(F) \in Nat
      /\ Cardinality(S \ F) = Cardinality(S) - Cardinality(F)
      /\ S # {} => 2 * Cardinality(S) <= room
      /\ F # {} => Cardinality(F) \in Nat \ {0}
      /\ rest \in Int
  BY BlockParts
<1>3. rest = room - 2 * Cardinality(S \ F)
  BY DEF FlexRoom
<1>4. \A i \in S : h[i] = IF i \in F THEN q + (IF i \in E THEN 1 ELSE 0) ELSE 2
  BY BlockAt
<1>5. E \in SUBSET F
  BY DEF Early
<1> HIDE DEF h, S, F, rest
<1>6. CASE F = {}
  <2>1. \A i \in S : h[i] = 2
    BY <1>4, <1>6
  <2>2. ASSUME S # {} PROVE MapThenSumSet(LAMBDA i : h[i], S) <= room
    <3>1. OfKinds(h, S, F, F, 0)
      BY <1>6, <2>1 DEF OfKinds
    <3>2. Sums(h, S)[S] = SumOf(S, F, F, 0)
      <4>1. F \in SUBSET S /\ F \in SUBSET F /\ 0 \in Int /\ IsFiniteSet(S)
        BY <1>2
      <4> QED
        BY <3>1, <4>1, SumByKinds
    <3>3. S \cap F = F /\ Cardinality(F) = 0
      BY <1>6, FS_EmptySet
    <3>4. Cardinality(S \cap F) = 0
      BY <3>3
    <3>5. SumOf(S, F, F, 0) = 2 * Cardinality(S)
      BY <1>2, <3>3, <3>4 DEF SumOf
    <3>6. Sums(h, S)[S] <= room
      BY <1>2, <2>2, <3>2, <3>5
    <3> QED
      BY <3>6, SumIsSums
  <2> QED
    BY <1>1, <1>2, <2>1, <2>2 DEF h
<1>7. CASE F # {}
  <2>1. f \in Nat \ {0} /\ S # {}
    BY <1>2, <1>7
  <2> DEFINE c == Cardinality(S)
  <2>2. c \in Nat /\ 2 * c <= room /\ rest = room - 2 * (c - f)
    BY <1>2, <1>3, <2>1
  <2> HIDE DEF c, f
  <2>3. rest >= 2 * f /\ rest \in Int
    BY <2>1, <2>2
  <2>4. q \in Int /\ r \in 0..f - 1 /\ rest = f * q + r
    BY <2>1, <2>3, DivFacts
  <2> HIDE DEF q, r
  <2>5. q >= 2
    <3> SUFFICES ASSUME q <= 1 PROVE FALSE
      BY <2>4
    <3>1. f * q <= f * 1
      BY <2>1, <2>4
    <3> QED
      BY <2>1, <2>3, <2>4, <3>1
  <2>6. IsFiniteSet(E) /\ Cardinality(E) \in 0..r
    <3>1. r \in Nat /\ F \in SUBSET Int
      BY <1>2, <2>1, <2>4
    <3> QED
      BY <1>2, <3>1, EarlyFew
  <2> HIDE DEF E
  <2>7. Sums(h, S)[S] = SumOf(S, F, E, q)
    <3>1. OfKinds(h, S, F, E, q)
      BY <1>4 DEF OfKinds
    <3> QED
      BY <1>2, <1>5, <2>4, <3>1, SumByKinds
  <2>8. S \cap F = F /\ S \cap E = E
    BY <1>2, <1>5
  <2>9. SumOf(S, F, E, q) = 2 * (c - f) + q * f + Cardinality(E)
    BY <1>2, <2>8 DEF SumOf, c, f
  <2>10. q * f = f * q /\ q * f \in Int
    BY <2>1, <2>4
  <2>11. Sums(h, S)[S] <= room
    BY <2>1, <2>2, <2>4, <2>6, <2>7, <2>9, <2>10
  <2>12. MapThenSumSet(LAMBDA i : h[i], S) <= room
    BY <2>11, SumIsSums
  <2>13. \A i \in S : h[i] \in Int /\ h[i] >= 2
    BY <1>4, <2>4, <2>5
  <2> QED
    BY <1>1, <1>2, <2>12, <2>13 DEF h
<1> QED
  BY <1>6, <1>7

\* Who has a share of at least two keeps no more when others bring two each.
LEMMA ShareShrinks ==
    ASSUME NEW f \in Nat \ {0}, NEW a \in Nat, NEW rest \in Int, rest >= 2 * f
    PROVE  LET q == rest \div f
               p == (rest + 2 * a) \div (f + a)
           IN  /\ q \in Int /\ p \in Int /\ rest % f \in Nat /\ (rest + 2 * a) % (f + a) \in Nat
               /\ p <= q
               /\ p = q => (rest + 2 * a) % (f + a) <= rest % f
<1> DEFINE q == rest \div f
           r == rest % f
           g == f + a
           left == rest + 2 * a
           p == left \div g
           s == left % g
<1>1. g \in Nat \ {0} /\ g = f + a
  OBVIOUS
<1>2. q \in Int /\ r \in 0..f - 1 /\ rest = f * q + r
  BY DivFacts
<1>3. p \in Int /\ s \in 0..g - 1 /\ left = g * p + s
  <2>1. left \in Int
    OBVIOUS
  <2> HIDE DEF g, left
  <2> QED
    BY <1>1, <2>1, DivFacts
<1> HIDE DEF q, r, g, p, s
<1>4. g * q = f * q + a * q /\ a * q \in Int /\ f * q \in Int /\ g * q \in Int
  BY <1>1, <1>2
<1>5. q >= 2
  <2> SUFFICES ASSUME q <= 1 PROVE FALSE
    BY <1>2
  <2>1. f * q <= f * 1
    BY <1>2
  <2> QED
    BY <1>2, <2>1
<1>6. a * q >= 2 * a
  <2>1. a * q >= a * 2
    BY <1>2, <1>5
  <2> QED
    BY <2>1, <1>4
<1>7. p <= q
  <2> SUFFICES ASSUME p >= q + 1 PROVE FALSE
    BY <1>2, <1>3
  <2>1. g * p >= g * (q + 1)
    BY <1>1, <1>2, <1>3
  <2>2. g * (q + 1) = g * q + g
    BY <1>1, <1>2
  <2>3. g * p \in Int
    BY <1>1, <1>3
  <2> QED
    BY <1>1, <1>2, <1>3, <1>4, <1>6, <2>1, <2>2, <2>3
<1>8. p = q => s <= r
  BY <1>1, <1>2, <1>3, <1>4, <1>6
<1> QED
  BY <1>1, <1>2, <1>3, <1>7, <1>8 DEF q, r, g, p, s

\* A pane that shows its screen has no more rows when another's has arrived.
LEMMA BlocksShrink ==
    ASSUME NEW noted, NEW more, NEW n \in Nat, DOMAIN noted = 1..n, DOMAIN more = 1..n,
           NEW room \in Int, \A i \in 1..n : more[i] => noted[i],
           NEW i \in ShownBlocks(noted, room), ~noted[i]
    PROVE  /\ i \in ShownBlocks(more, room)
           /\ CloseBlockHeights(more, room)[i] <= CloseBlockHeights(noted, room)[i]
<1> DEFINE S == ShownBlocks(noted, room)
           F == FlexBlocks(noted, room)
           G == FlexBlocks(more, room)
           f == Cardinality(F)
           g == Cardinality(G)
           rest == FlexRoom(noted, room)
           left == FlexRoom(more, room)
           q == rest \div f
           r == rest % f
           p == left \div g
           s == left % g
<1>1. ShownBlocks(more, room) = S
  BY DEF ShownBlocks
<1>2. /\ S \in SUBSET (1..n) /\ IsFiniteSet(S) /\ Cardinality(S) \in Nat
      /\ F \in SUBSET S /\ IsFiniteSet(F) /\ f \in Nat
      /\ Cardinality(S \ F) = Cardinality(S) - f
      /\ S # {} => 2 * Cardinality(S) <= room
      /\ F # {} => f \in Nat \ {0}
  BY BlockParts
<1>3. /\ G \in SUBSET S /\ IsFiniteSet(G) /\ g \in Nat
      /\ Cardinality(S \ G) = Cardinality(S) - g
  <2>1. LET X == ShownBlocks(more, room)
        IN /\ G \in SUBSET X /\ IsFiniteSet(G) /\ g \in Nat
           /\ Cardinality(X \ G) = Cardinality(X) - g
    BY BlockParts
  <2> HIDE DEF S, G
  <2> QED
    BY <1>1, <2>1
<1>4. rest = room - 2 * Cardinality(S \ F) /\ left = room - 2 * Cardinality(S \ G)
  BY <1>1 DEF FlexRoom
<1>5. F \in SUBSET G /\ i \in F /\ i \in G
  <2>1. \A j \in S : more[j] => noted[j]
    BY <1>2
  <2> QED
    BY <1>1, <2>1 DEF FlexBlocks
<1>6. CloseBlockHeights(noted, room)[i] = q + (IF i \in Early(F, r) THEN 1 ELSE 0)
  BY <1>5, BlockAt
<1>7. CloseBlockHeights(more, room)[i] = p + (IF i \in Early(G, s) THEN 1 ELSE 0)
  BY <1>1, <1>5, BlockAt
<1> HIDE DEF S, F, G, rest, left
<1>8. f <= g
  BY <1>3, <1>5, FS_Subset
<1>9. f \in Nat \ {0} /\ rest \in Int /\ rest >= 2 * f /\ g \in Nat /\ left = rest + 2 * (g - f)
  <2> DEFINE c == Cardinality(S)
  <2>1. f \in Nat \ {0} /\ c \in Nat /\ 2 * c <= room
    BY <1>2, <1>5
  <2>2. rest = room - 2 * (c - f) /\ left = room - 2 * (c - g)
    BY <1>2, <1>3, <1>4
  <2> HIDE DEF c, f, g, q, p, r, s
  <2>3. rest \in Int /\ left \in Int
    BY <1>3, <2>1, <2>2
  <2>4. rest >= 2 * f
    BY <2>1, <2>2
  <2>5. left = rest + 2 * (g - f)
    BY <1>3, <2>1, <2>2
  <2> QED
    BY <1>3, <2>1, <2>3, <2>4, <2>5
<1>10. /\ q \in Int /\ p \in Int /\ r \in Nat /\ s \in Nat /\ p <= q /\ (p = q => s <= r)
  <2> DEFINE a == g - f
  <2>1. a \in Nat /\ f + a = g /\ rest + 2 * a = left
    BY <1>8, <1>9
  <2> HIDE DEF a, f, g
  <2> QED
    BY <1>9, <2>1, ShareShrinks
<1>11. ASSUME i \in Early(G, s), p = q PROVE i \in Early(F, r)
  <2> DEFINE A == {j \in F : j < i}
             B == {j \in G : j < i}
  <2>1. A \in SUBSET B /\ B \in SUBSET G
    BY <1>5
  <2>2. Cardinality(B) < s
    BY <1>11 DEF Early
  <2>3. (Cardinality(A) < r) => i \in Early(F, r)
    BY <1>5 DEF Early
  <2> HIDE DEF A, B
  <2>4. Cardinality(A) <= Cardinality(B) /\ Cardinality(A) \in Nat /\ Cardinality(B) \in Nat
    BY <1>3, <2>1, FS_Subset, FS_CardinalityType
  <2> HIDE DEF r, s
  <2> QED
    BY <1>10, <1>11, <2>2, <2>3, <2>4
<1>12. CloseBlockHeights(more, room)[i] <= CloseBlockHeights(noted, room)[i]
  <2> HIDE DEF p, q, r, s
  <2> QED
    BY <1>6, <1>7, <1>10, <1>11
<1> QED
  BY <1>1, <1>12 DEF S
-----------------------------------------------------------------------------
(* Sequences, walks and the rows of the close list *)

LEMMA FunIsSeq ==
    ASSUME NEW n \in Nat, NEW S, NEW f \in [1..n -> S]
    PROVE  f \in Seq(S) /\ Len(f) = n /\ DOMAIN f = 1..n
<1>1. f \in Seq(S)
  BY SeqDef
<1> QED
  BY <1>1, LenProperties

LEMMA ListedOK ==
    ASSUME NEW L, Listed(L)
    PROVE  /\ DOMAIN L = 1..Len(L) /\ Len(L) \in Nat
           /\ L # <<>> => 1 \in DOMAIN L
           /\ L = <<>> => DOMAIN L = {}
<1>1. DOMAIN L = 1..Len(L) /\ Len(L) \in Nat
  BY DEF Listed
<1>2. ASSUME Len(L) = 0 PROVE L = <<>>
  <2>1. L \in [1..0 -> {}] /\ 0 \in Nat
    BY <1>2 DEF Listed
  <2>2. L \in Seq({}) /\ Len(L) = 0
    BY <2>1, FunIsSeq
  <2> QED
    BY <2>2, EmptySeq
<1>3. L = <<>> => Len(L) = 0
  OBVIOUS
<1> QED
  BY <1>1, <1>2, <1>3

LEMMA SeqListed ==
    ASSUME NEW S, NEW L \in Seq(S)
    PROVE  Listed(L)
<1>1. L \in [1..Len(L) -> S] /\ Len(L) \in Nat
  BY LenProperties
<1> QED
  BY <1>1 DEF Listed

\* A walk ends on a target or stays.
LEMMA WalkOnTarget ==
    ASSUME NEW targets \in SUBSET Int, IsFiniteSet(targets), NEW from \in Int,
           NEW dir \in {-1, 1}, NEW k \in Nat \ {0}
    PROVE  Walk(targets, from, dir, k) \in targets \cup {from}
<1> DEFINE ahead == {t \in targets : dir * (t - from) > 0}
           n == Min({k, Cardinality(ahead)})
<1>1. ahead \in SUBSET targets
  OBVIOUS
<1>2. CASE ahead = {}
  BY <1>2 DEF Walk
<1>3. CASE ahead # {}
  <2>1. IsFiniteSet(ahead) /\ ahead \in SUBSET Int
    <3> HIDE DEF ahead
    <3> QED
      BY <1>1, FS_Subset
  <2>2. Cardinality(ahead) \in Nat \ {0}
    <3> HIDE DEF ahead
    <3> QED
      BY <1>3, <2>1, FS_CardinalityType, FS_EmptySet
  <2>3. n \in 1..Cardinality(ahead)
    <3> DEFINE c == Cardinality(ahead)
    <3> HIDE DEF c
    <3>1. Min({k, c}) = IF k <= c THEN k ELSE c
      BY <2>2, MinOfTwo DEF c
    <3> QED
      BY <2>2, <3>1 DEF c
  <2>4. \E t \in ahead : Cardinality({u \in ahead : dir * (u - t) <= 0}) = n
    <3> HIDE DEF ahead, n
    <3> QED
      BY <2>1, <2>3, NthExists
  <2>5. Walk(targets, from, dir, k) =
          CHOOSE t \in ahead : Cardinality({u \in ahead : dir * (u - t) <= 0}) = n
    BY <1>3 DEF Walk
  <2>6. Walk(targets, from, dir, k) \in ahead
    <3> HIDE DEF ahead, n
    <3> QED
      BY <2>4, <2>5
  <2> QED
    BY <1>1, <2>6
<1> QED
  BY <1>2, <1>3
-----------------------------------------------------------------------------
(* The close list *)

LEMMA NthIn ==
    ASSUME NEW S \in SUBSET Int, IsFiniteSet(S), NEW k \in 1..Cardinality(S)
    PROVE  Nth(S, k) \in S
<1>1. PICK t \in S : Cardinality({u \in S : 1 * (u - t) <= 0}) = k
  BY NthExists
<1>2. {u \in S : 1 * (u - t) <= 0} = {j \in S : j <= t}
  <2>1. \A u \in S : 1 * (u - t) <= 0 <=> u <= t
    OBVIOUS
  <2> QED
    BY <2>1
<1>3. Cardinality({j \in S : j <= t}) = k
  BY <1>1, <1>2
<1> QED
  BY <1>3 DEF Nth

\* What a row of the list may be.
RowsOf(closes) == {Header} \cup {Row(closes, i) : i \in Kept(closes)}

LEMMA KeptFinite ==
    ASSUME NEW closes, Listed(closes)
    PROVE  /\ Kept(closes) \in SUBSET DOMAIN closes /\ DOMAIN closes \in SUBSET (Nat \ {0})
           /\ IsFiniteSet(DOMAIN closes) /\ HiddenCount(closes) \in Nat
<1>1. DOMAIN closes = 1..Len(closes) /\ Len(closes) \in Nat
  BY ListedOK
<1>2. IsFiniteSet(DOMAIN closes)
  BY <1>1, FS_Interval
<1>3. Kept(closes) \in SUBSET DOMAIN closes
  BY DEF Kept
<1>4. HiddenCount(closes) \in Nat
  <2> DEFINE H == DOMAIN closes \ Kept(closes)
  <2>1. H \in SUBSET DOMAIN closes
    OBVIOUS
  <2>2. HiddenCount(closes) = Cardinality(H)
    BY DEF HiddenCount
  <2> HIDE DEF H
  <2> QED
    BY <1>2, <2>1, <2>2, FS_Subset, FS_CardinalityType
<1> QED
  BY <1>1, <1>2, <1>3, <1>4

LEMMA SectionOK ==
    ASSUME NEW closes, Listed(closes), NEW mine
    PROVE  /\ Section(closes, mine) \in Seq(RowsOf(closes))
           /\ Section(closes, mine) # <<>> =>
                /\ Len(Section(closes, mine)) >= 2
                /\ Section(closes, mine)[2] \in {Row(closes, i) : i \in Kept(closes)}
<1> DEFINE newest == Newest(closes, mine)
           X == {Row(closes, i) : i \in Kept(closes)}
           c == Cardinality(newest)
           body == [k \in 1..c |-> Row(closes, Nth(newest, k))]
<1>1. newest \in SUBSET Kept(closes)
  BY DEF Newest
<1>2. newest \in SUBSET Int /\ IsFiniteSet(newest)
  <2>1. newest \in SUBSET DOMAIN closes /\ DOMAIN closes \in SUBSET Int /\ IsFiniteSet(DOMAIN closes)
    BY <1>1, KeptFinite
  <2> HIDE DEF newest
  <2> QED
    BY <2>1, FS_Subset
<1> HIDE DEF newest
<1>3. c \in Nat
  BY <1>2, FS_CardinalityType
<1>4. \A k \in 1..c : Nth(newest, k) \in Kept(closes)
  BY <1>1, <1>2, NthIn
<1>5. body \in [1..c -> X] /\ X \in SUBSET RowsOf(closes)
  BY <1>4 DEF RowsOf
<1>6. CASE newest = {}
  <2>1. Section(closes, mine) = <<>>
    BY <1>6 DEF Section, newest
  <2> QED
    BY <2>1, EmptySeq
<1>7. CASE newest # {}
  <2>1. c \in Nat \ {0}
    BY <1>2, <1>3, <1>7, FS_EmptySet
  <2>2. Section(closes, mine) = <<Header>> \o body
    BY <1>7 DEF Section, newest
  <2> HIDE DEF body, c, X
  <2>3. body \in Seq(X) /\ Len(body) = c
    BY <1>5, <2>1, FunIsSeq
  <2>4. body \in Seq(RowsOf(closes))
    BY <1>5, <2>3, SeqMonotonic
  <2>5. <<Header>> \in Seq(RowsOf(closes)) /\ Len(<<Header>>) = 1
    BY DEF RowsOf
  <2>6. /\ Section(closes, mine) \in Seq(RowsOf(closes))
        /\ Len(Section(closes, mine)) = 1 + c
        /\ Section(closes, mine)[2] = body[1]
    BY <2>1, <2>2, <2>3, <2>4, <2>5, ConcatProperties
  <2>7. body[1] \in X
    BY <1>5, <2>1
  <2> QED
    BY <2>1, <2>6, <2>7 DEF X
<1> QED
  BY <1>6, <1>7

\* A row is a header or stands for a close that can be restored, and a list
\* with a row has one of the latter.
LEMMA CloseRows ==
    ASSUME NEW closes, Listed(closes)
    PROVE  LET list == BuildCloseList(closes)
           IN  /\ Listed(list)
               /\ \A i \in DOMAIN list : list[i].event \in {0} \cup Kept(closes)
               /\ list # <<>> => \E i \in DOMAIN list : list[i].event # 0
<1> DEFINE a == Section(closes, TRUE)
           b == Section(closes, FALSE)
           list == BuildCloseList(closes)
<1>1. /\ a \in Seq(RowsOf(closes)) /\ b \in Seq(RowsOf(closes))
      /\ a # <<>> => Len(a) >= 2 /\ a[2] \in {Row(closes, i) : i \in Kept(closes)}
      /\ b # <<>> => Len(b) >= 2 /\ b[2] \in {Row(closes, i) : i \in Kept(closes)}
  BY SectionOK
<1>2. list = a \o b
  BY DEF BuildCloseList
<1> HIDE DEF a, b, list
<1>3. /\ list \in Seq(RowsOf(closes)) /\ Len(list) = Len(a) + Len(b)
      /\ \A i \in 1..Len(a) + Len(b) : list[i] = IF i <= Len(a) THEN a[i] ELSE b[i - Len(a)]
  BY <1>1, <1>2, ConcatProperties
<1>4. Len(a) \in Nat /\ Len(b) \in Nat
  BY <1>1, LenProperties
<1>5. DOMAIN list = 1..Len(list) /\ Len(list) \in Nat
  BY <1>3, LenProperties
<1>6. \A i \in DOMAIN list : list[i] \in RowsOf(closes)
  BY <1>3, <1>5, ElementOfSeq
<1>7. \A r \in RowsOf(closes) : r.event \in {0} \cup Kept(closes)
  BY DEF RowsOf, Row, Header
<1>8. \A r \in {Row(closes, i) : i \in Kept(closes)} : r.event # 0
  <2>1. 0 \notin Kept(closes)
    BY KeptFinite
  <2> QED
    BY <2>1 DEF Row
<1>9. ASSUME list # <<>> PROVE \E i \in DOMAIN list : list[i].event # 0
  <2>1. CASE a # <<>>
    <3>1. 2 \in 1..Len(a) + Len(b) /\ 2 <= Len(a) /\ 2 \in DOMAIN list
      BY <1>1, <1>3, <1>4, <1>5, <2>1
    <3>2. list[2] = a[2]
      BY <1>3, <3>1
    <3> QED
      BY <1>1, <1>8, <2>1, <3>1, <3>2
  <2>2. CASE a = <<>> /\ b # <<>>
    <3>1. Len(a) = 0 /\ Len(b) >= 2
      BY <1>1, <2>2
    <3>2. 2 \in 1..Len(a) + Len(b) /\ ~(2 <= Len(a)) /\ 2 - Len(a) = 2 /\ 2 \in DOMAIN list
      BY <1>3, <1>4, <1>5, <3>1
    <3>3. list[2] = b[2]
      BY <1>3, <3>2
    <3> QED
      BY <1>1, <1>8, <2>2, <3>2, <3>3
  <2>3. CASE a = <<>> /\ b = <<>>
    <3>1. list = <<>>
      BY <1>1, <1>2, <2>3, ConcatEmptySeq
    <3> QED
      BY <1>9, <3>1
  <2> QED
    BY <2>1, <2>2, <2>3
<1> QED
  BY <1>3, <1>6, <1>7, <1>9, SeqListed DEF list
-----------------------------------------------------------------------------
(* The tree *)

LEMMA RankOK ==
    ASSUME NEW V \in SUBSET Nat, IsFiniteSet(V), NEW p
    PROVE  /\ Rank(p, V) \in 0..Cardinality(V)
           /\ (\E q \in V : q <= p) => Rank(p, V) >= 1
<1> DEFINE U == {q \in V : q <= p}
<1>1. U \in SUBSET V /\ Rank(p, V) = Cardinality(U)
  BY DEF Rank
<1> HIDE DEF U
<1>2. IsFiniteSet(U) /\ Cardinality(U) \in Nat /\ Cardinality(V) \in Nat /\ Cardinality(U) <= Cardinality(V)
  BY <1>1, FS_Subset, FS_CardinalityType
<1>3. U # {} => Cardinality(U) # 0
  BY <1>2, FS_EmptySet
<1> QED
  BY <1>1, <1>2, <1>3 DEF U

LEMMA FirstRankOK ==
    ASSUME NEW V \in SUBSET Nat, IsFiniteSet(V), NEW P \in SUBSET V, NEW d
    PROVE  FirstRank(P, V, d) \in {d} \cup (1..Cardinality(V))
<1>1. CASE P = {}
  BY <1>1 DEF FirstRank
<1>2. CASE P # {}
  <2>1. IsFiniteSet(P)
    BY FS_Subset
  <2>2. P \in SUBSET Int
    OBVIOUS
  <2>3. PICK m \in P : m = Min(P)
    BY <1>2, <2>1, <2>2, MinIn
  <2>4. m \in V /\ m \in Nat /\ m <= m
    OBVIOUS
  <2>5. Rank(m, V) \in 0..Cardinality(V) /\ Rank(m, V) >= 1 /\ Cardinality(V) \in Nat
    BY <2>4, RankOK, FS_CardinalityType
  <2>6. FirstRank(P, V, d) = Rank(m, V)
    BY <1>2, <2>3 DEF FirstRank
  <2> QED
    BY <2>5, <2>6
<1> QED
  BY <1>1, <1>2

\* The tree of a snapshot in a list.
LEMMA TreeOK ==
    ASSUME events \in SnapshotLists, NEW e \in DOMAIN events
    PROVE  /\ Listed(Nodes(e)) /\ DOMAIN Nodes(e) \in SUBSET (Nat \ {0})
           /\ IsFiniteSet(DOMAIN Nodes(e))
           /\ \A p \in DOMAIN Nodes(e) : InTree(Nodes(e), p)
<1>1. Listed(Nodes(e)) /\ \A p \in DOMAIN Nodes(e) : InTree(Nodes(e), p)
  BY PickerAssumption DEF Nodes
<1>2. DOMAIN Nodes(e) = 1..Len(Nodes(e)) /\ Len(Nodes(e)) \in Nat
  BY <1>1, ListedOK
<1>3. IsFiniteSet(DOMAIN Nodes(e))
  BY <1>2, FS_Interval
<1>4. DOMAIN Nodes(e) \in SUBSET (Nat \ {0})
  BY <1>2
<1> QED
  BY <1>1, <1>3, <1>4

LEMMA ShownOK ==
    ASSUME events \in SnapshotLists, NEW e \in DOMAIN events, NEW opened
    PROVE  /\ Shown(e, opened) \in SUBSET DOMAIN Nodes(e) /\ Shown(e, opened) \in SUBSET Nat
           /\ IsFiniteSet(Shown(e, opened)) /\ Cardinality(Shown(e, opened)) \in Nat
<1> DEFINE S == Shown(e, opened)
<1>1. S \in SUBSET DOMAIN Nodes(e)
  BY DEF Shown
<1> HIDE DEF S
<1>2. DOMAIN Nodes(e) \in SUBSET Nat /\ IsFiniteSet(DOMAIN Nodes(e))
  BY TreeOK
<1>3. S \in SUBSET Nat /\ IsFiniteSet(S)
  BY <1>1, <1>2, FS_Subset
<1>4. Cardinality(S) \in Nat
  BY <1>3, FS_CardinalityType
<1> QED
  BY <1>1, <1>3, <1>4 DEF S

LEMMA FirstPaneOK ==
    ASSUME events \in SnapshotLists, NEW e \in DOMAIN events, NEW opened
    PROVE  FirstPaneIdx(e, opened) \in {1} \cup (1..Cardinality(Shown(e, opened)))
<1> DEFINE S == Shown(e, opened)
           P == OfNodeKind(e, "pane") \cap S
<1>1. FirstPaneIdx(e, opened) = FirstRank(P, S, 1)
  BY DEF FirstPaneIdx
<1>2. P \in SUBSET S
  OBVIOUS
<1> HIDE DEF S, P
<1>3. S \in SUBSET Nat /\ IsFiniteSet(S)
  BY ShownOK DEF S
<1>4. FirstRank(P, S, 1) \in {1} \cup (1..Cardinality(S))
  BY <1>2, <1>3, FirstRankOK
<1> QED
  BY <1>1, <1>4 DEF S

LEMMA FirstPaneInOK ==
    ASSUME events \in SnapshotLists, NEW e \in DOMAIN events, NEW opened, NEW p \in Shown(e, opened)
    PROVE  /\ FirstPaneIdxIn(e, p, opened) \in 1..Cardinality(Shown(e, opened))
           /\ Rank(p, Shown(e, opened)) \in 1..Cardinality(Shown(e, opened))
<1> DEFINE S == Shown(e, opened)
           P == {q \in OfNodeKind(e, "pane") \cap S : p \in Ancestors(e, q)}
           d == Rank(p, S)
<1>1. FirstPaneIdxIn(e, p, opened) = FirstRank(P, S, d)
  BY DEF FirstPaneIdxIn
<1>2. P \in SUBSET S /\ p \in S
  OBVIOUS
<1> HIDE DEF S, P
<1>3. S \in SUBSET Nat /\ IsFiniteSet(S) /\ Cardinality(S) \in Nat
  BY ShownOK DEF S
<1>4. p \in Nat /\ p <= p
  BY <1>2, <1>3
<1>5. d \in 0..Cardinality(S) /\ d >= 1
  BY <1>2, <1>3, <1>4, RankOK
<1> HIDE DEF d
<1>6. FirstRank(P, S, d) \in {d} \cup (1..Cardinality(S))
  BY <1>2, <1>3, FirstRankOK
<1>7. FirstRank(P, S, d) \in 1..Cardinality(S) /\ d \in 1..Cardinality(S)
  BY <1>3, <1>5, <1>6
<1> QED
  BY <1>1, <1>7 DEF S, d

\* A node that is folded is still on show when it or one below it was.
LEMMA FoldedShows ==
    ASSUME events \in SnapshotLists, NEW e \in DOMAIN events, NEW opened,
           NEW n \in Shown(e, opened), NEW p \in {n} \cup Ancestors(e, n)
    PROVE  p \in Shown(e, opened \ {p})
<1> DEFINE N == Nodes(e)
<1>1. \A q \in DOMAIN N : InTree(N, q)
  BY TreeOK
<1>2. 0 \notin DOMAIN N
  BY TreeOK
<1>3. n \in DOMAIN N /\ Ancestors(e, n) \subseteq opened
  BY DEF Shown
<1>4. \A q \in DOMAIN N : q # 0 /\ Parent(e, q) = N[q].up
  BY <1>2 DEF Parent
<1>5. \A q \in DOMAIN N :
        /\ N[q].kind \in {"session", "window", "pane"}
        /\ N[q].kind = "session" => N[q].up = 0
        /\ N[q].kind = "window" => N[q].up \in DOMAIN N /\ N[N[q].up].kind = "session"
        /\ N[q].kind = "pane" => N[q].up \in DOMAIN N /\ N[N[q].up].kind = "window"
  BY <1>1 DEF InTree
<1>6. Parent(e, 0) = 0
  BY DEF Parent
<1>7. \A q \in DOMAIN N :
        /\ N[q].kind = "session" => Ancestors(e, q) = {}
        /\ N[q].kind = "window" => Ancestors(e, q) = {N[q].up}
        /\ N[q].kind = "pane" => Ancestors(e, q) = {N[q].up, N[N[q].up].up}
  <2> TAKE q \in DOMAIN N
  <2>1. CASE N[q].kind = "session"
    <3>1. Parent(e, q) = 0 /\ Parent(e, Parent(e, q)) = 0
      BY <1>4, <1>5, <1>6, <2>1
    <3> QED
      BY <2>1, <3>1 DEF Ancestors
  <2>2. CASE N[q].kind = "window"
    <3>1. Parent(e, q) = N[q].up /\ N[q].up \in DOMAIN N /\ Parent(e, N[q].up) = 0 /\ N[q].up # 0
      BY <1>4, <1>5, <2>2
    <3> QED
      BY <2>2, <3>1 DEF Ancestors
  <2>3. CASE N[q].kind = "pane"
    <3>1. /\ Parent(e, q) = N[q].up /\ N[q].up \in DOMAIN N /\ N[q].up # 0
          /\ Parent(e, N[q].up) = N[N[q].up].up /\ N[N[q].up].up \in DOMAIN N
      BY <1>4, <1>5, <2>3
    <3>2. N[N[q].up].up # 0
      BY <1>4, <3>1
    <3> QED
      BY <2>3, <3>1, <3>2 DEF Ancestors
  <2> QED
    BY <1>5, <2>1, <2>2, <2>3
<1> HIDE DEF N
<1>8. p \in DOMAIN N
  BY <1>3, <1>5, <1>7
<1>9. p \notin Ancestors(e, p)
  BY <1>5, <1>7, <1>8
<1>10. Ancestors(e, p) \subseteq Ancestors(e, n)
  BY <1>3, <1>5, <1>7
<1> QED
  BY <1>3, <1>8, <1>9, <1>10 DEF Shown, N
-----------------------------------------------------------------------------
(* Enter *)

\* Every tree that was built bears the filter in force, the row under the
\* cursor was looked at, and what Enter chose was parsed.
EnterInv ==
    /\ parsed \subseteq DOMAIN events /\ DOMAIN decorated = DOMAIN events
    /\ \A e \in parsed : decorated[e] = filter
    /\ note # "manifest not loaded yet"
    /\ mode \in {"snapshot", "close"}
    /\ mode = "close" => parsed = {}
    /\ mode = "snapshot" => /\ events \in SnapshotLists /\ cursor \in Nat
                            /\ cursor \in DOMAIN events => cursor \in parsed \cup refused
                            /\ selected # 0 => selected \in parsed

\* A screen under way has no answer, and no screen has two.
CacheInv ==
    /\ loading \cap (loaded \cup broken) = {}
    /\ loaded \cap broken = {}
-----------------------------------------------------------------------------
\* The two derivations of what is restored agree: a pane is kept by its own
\* session's name and mark, planned through its window and its session.
LEMMA KeptIsPlanned ==
    ASSUME NEW f, NEW e \in DOMAIN events, events \in SnapshotLists
    PROVE  KeptPanes(e, f) = PlannedPanes(e, f)
<1> DEFINE N == Nodes(e)
<1>1. \A p \in DOMAIN N : InTree(N, p)
  BY PickerAssumption DEF Nodes
<1>4. 0 \notin DOMAIN N
  BY TreeOK
<1>2. ASSUME NEW p \in KeptPanes(e, f)
      PROVE  p \in PlannedPanes(e, f)
  <2> DEFINE w == N[p].up
             s == N[w].up
  <2>1. /\ p \in DOMAIN N /\ N[p].kind = "pane"
        /\ SkipReason(N[p].sess, f) = "" /\ ~SkipPane(N[p], f)
    BY <1>2 DEF KeptPanes, OfNodeKind, Kind
  <2>2. w \in DOMAIN N /\ N[w].kind = "window" /\ N[w].sess = N[p].sess
    BY <1>1, <2>1 DEF InTree
  <2>3. s \in DOMAIN N /\ N[s].kind = "session" /\ N[s].sess = N[p].sess
    BY <1>1, <2>2 DEF InTree
  <2>4. s \in SkippedFor(e, f, "")
    BY <2>1, <2>3 DEF SkippedFor, OfNodeKind, Kind
  <2>5. w \in Children(e, s) /\ p \in Children(e, w)
    BY <2>1, <2>2 DEF Children
  <2>6. Children(e, s) \in {Children(e, t) : t \in SkippedFor(e, f, "")}
    BY <2>4
  <2>7. w \in UNION {Children(e, t) : t \in SkippedFor(e, f, "")}
    BY <2>5, <2>6
  <2>8. p \in {q \in Children(e, w) : ~SkipPane(N[q], f)}
    BY <2>1, <2>5
  <2> QED
    BY <2>7, <2>8 DEF PlannedPanes
<1>3. ASSUME NEW p \in PlannedPanes(e, f)
      PROVE  p \in KeptPanes(e, f)
  <2>1. PICK w \in UNION {Children(e, t) : t \in SkippedFor(e, f, "")} :
           p \in Children(e, w) /\ ~SkipPane(N[p], f)
    BY <1>3 DEF PlannedPanes
  <2>2. PICK s \in SkippedFor(e, f, "") : w \in Children(e, s)
    BY <2>1
  <2>3. /\ s \in DOMAIN N /\ N[s].kind = "session" /\ SkipReason(N[s].sess, f) = ""
        /\ w \in DOMAIN N /\ N[w].up = s
        /\ p \in DOMAIN N /\ N[p].up = w
    BY <2>1, <2>2 DEF SkippedFor, OfNodeKind, Kind, Children
  <2>4. N[w].kind = "window" /\ N[w].sess = N[s].sess
    <3>1. InTree(N, w) /\ s # 0
      BY <1>1, <1>4, <2>3
    <3>2. N[w].kind # "session" /\ N[w].kind # "pane"
      BY <2>3, <3>1 DEF InTree
    <3> HIDE DEF N
    <3> QED
      BY <2>3, <3>1, <3>2 DEF InTree
  <2>5. N[p].kind = "pane" /\ N[p].sess = N[w].sess
    <3>1. InTree(N, p) /\ w # 0
      BY <1>1, <1>4, <2>3
    <3>2. N[p].kind # "session" /\ N[p].kind # "window"
      BY <2>3, <2>4, <3>1 DEF InTree
    <3> HIDE DEF N
    <3> QED
      BY <2>3, <2>4, <3>1, <3>2 DEF InTree
  <2> QED
    BY <2>1, <2>3, <2>4, <2>5 DEF KeptPanes, OfNodeKind, Kind
<1> QED
  BY <1>2, <1>3

\* The wheel lands on a row of the list.
LEMMA ClampInList ==
    ASSUME NEW i \in Int, Len(events) \in Nat \ {0}
    PROVE  Clamp(i) \in 1..Len(events)
<1> DEFINE n == Len(events)
           low == Min({i, n})
<1>1. low \in {i, n} /\ low <= n
  BY DEF Min
<1>2. Max({1, low}) \in {1, low} /\ Max({1, low}) >= 1
  BY <1>1 DEF Max
<1> QED
  BY <1>1, <1>2 DEF Clamp
-----------------------------------------------------------------------------
LEMMA InitEnter == Init => EnterInv
<1> SUFFICES ASSUME Init PROVE EnterInv
  OBVIOUS
<1>1. CASE InitSnapshot
  <2>1. /\ mode = "snapshot" /\ cursor = 1
        /\ parsed \subseteq FirstRow(1) /\ refused = FirstRow(1) \ parsed
        /\ decorated = [e \in DOMAIN events |-> IF e \in parsed THEN filter ELSE NoFilter]
    BY <1>1 DEF InitSnapshot, Parse
  <2>2. FirstRow(1) \subseteq DOMAIN events /\ (1 \in DOMAIN events => 1 \in FirstRow(1))
    BY DEF FirstRow
  <2> QED
    <3>1. events \in SnapshotLists /\ note = "" /\ selected = 0
      BY <1>1 DEF InitSnapshot, Init
    <3>2. parsed \subseteq DOMAIN events /\ cursor \in Nat
      BY <2>1, <2>2
    <3>3. cursor \in DOMAIN events => cursor \in parsed \cup refused
      BY <2>1, <2>2
    <3>4. DOMAIN decorated = DOMAIN events /\ \A e \in parsed : decorated[e] = filter
      BY <2>1, <3>2
    <3> QED
      BY <2>1, <3>1, <3>2, <3>3, <3>4 DEF EnterInv
<1>2. CASE InitClose
  BY <1>2 DEF InitClose, Init, EnterInv
<1> QED
  BY <1>1, <1>2 DEF Init

\* A step that moves neither the list's cursor nor a tree's decoration.
StaysPut == UNCHANGED <<given, cursor, filter, parsed, refused, decorated>>

LEMMA StaysPutEnter ==
    ASSUME EnterInv, StaysPut, note' \in {note, ""}, UNCHANGED selected
    PROVE  EnterInv'
BY DEF EnterInv, StaysPut, given

LEMMA RowsAreNumbers ==
    ASSUME NEW L \in SnapshotLists, NEW e \in DOMAIN L
    PROVE  e \in Nat
<1>1. e \in 1..Len(L) /\ Len(L) \in Nat
  BY PickerAssumption, ListedOK
<1> QED
  BY <1>1

\* A move to a row of the list of snapshots reads and decorates it.
LEMMA ToSnapshotEnter ==
    ASSUME EnterInv, mode = "snapshot", NEW e \in DOMAIN events, ToSnapshot(e),
           UNCHANGED <<given, selected>>, note' \in {note, ""}
    PROVE  EnterInv'
<1>1. e \in Nat
  BY RowsAreNumbers DEF EnterInv
<1>2. cursor' = e /\ UNCHANGED <<mode, events, filter>>
  BY DEF ToSnapshot, given
<1>3. CASE e \in parsed \cup refused
  BY <1>1, <1>2, <1>3 DEF EnterInv, ToSnapshot, EnsureManifest, trees
<1>4. CASE e \notin parsed \cup refused
  <2>1. /\ parsed' = parsed \cup Parse(e) /\ refused' = refused \cup ({e} \ Parse(e))
        /\ decorated' = [decorated EXCEPT ![e] = IF events[e].bad THEN NoFilter ELSE filter]
    BY <1>4 DEF ToSnapshot, EnsureManifest
  <2>2. Parse(e) = IF events[e].bad THEN {} ELSE {e}
    BY DEF Parse
  <2>3. \A d \in parsed' : d \in DOMAIN events /\ decorated'[d] = filter
    BY <1>4, <2>1, <2>2 DEF EnterInv
  <2>4. DOMAIN decorated' = DOMAIN events /\ e \in parsed' \cup refused' /\ parsed \subseteq parsed'
    BY <2>1, <2>2 DEF EnterInv
  <2> QED
    BY <1>1, <1>2, <2>3, <2>4 DEF EnterInv
<1> QED
  BY <1>3, <1>4

\* A move in the list of closes.
LEMMA ToCloseEnter ==
    ASSUME EnterInv, mode = "close", NEW i, ToClose(i),
           UNCHANGED <<given, selected>>, note' \in {note, ""}
    PROVE  EnterInv'
BY DEF EnterInv, ToClose, given, trees

LEMMA FrameEnter == EnterInv /\ Frame => EnterInv'
BY DEF EnterInv, Frame, given, outcome

LEMMA ToggleEnter ==
    ASSUME EnterInv, NEW option, ToggleKey(option)
    PROVE  EnterInv'
BY DEF EnterInv, ToggleKey, Key, Redecorate, given

LEMMA EnterEnter == EnterInv /\ EnterKey => EnterInv'
<1> SUFFICES ASSUME EnterInv, EnterKey PROVE EnterInv'
  OBVIOUS
<1>1. UNCHANGED <<given, cursor, filter, parsed, refused, decorated>>
  BY DEF EnterKey, trees
<1>2. CASE mode = "close"
  BY <1>1, <1>2 DEF EnterInv, EnterKey, Finish, Warn, given
<1>3. CASE mode = "snapshot" /\ cursor \in DOMAIN events
  BY <1>1, <1>3 DEF EnterInv, EnterKey, Finish, Warn, given
<1>4. CASE ~(mode = "close") /\ ~(mode = "snapshot" /\ cursor \in DOMAIN events)
  BY <1>1, <1>4 DEF EnterInv, EnterKey, Finish, Warn, given
<1> QED
  BY <1>2, <1>3, <1>4

LEMMA WheelListEnter ==
    ASSUME EnterInv, NEW dir \in {-1, 1}, WheelList(dir)
    PROVE  EnterInv'
<1>1. UNCHANGED <<given, selected, note>>
  BY DEF WheelList, Mouse, outcome
<1>2. CASE mode = "close" /\ ToClose(Walk(Selectable, cursor, dir, WheelRows))
  BY <1>1, <1>2, ToCloseEnter
<1>3. CASE mode = "snapshot" /\ Len(events) > 0 /\ ToSnapshot(Clamp(cursor + dir * WheelRows))
  <2>1. events \in SnapshotLists /\ cursor \in Nat
    BY <1>3 DEF EnterInv
  <2>2. DOMAIN events = 1..Len(events) /\ Len(events) \in Nat \ {0}
    BY <1>3, <2>1, PickerAssumption, ListedOK
  <2>3. cursor + dir * WheelRows \in Int
    BY <2>1, PickerAssumption
  <2>4. Clamp(cursor + dir * WheelRows) \in DOMAIN events
    BY <2>2, <2>3, ClampInList
  <2> QED
    BY <1>1, <1>3, <2>4, ToSnapshotEnter
<1> QED
  BY <1>2, <1>3 DEF WheelList

LEMMA ClickEnter ==
    ASSUME EnterInv, NEW column, NEW y, Click(column, y)
    PROVE  EnterInv'
<1>1. UNCHANGED <<given, selected, note>>
  BY DEF Click, Mouse, outcome
<1>2. PICK i \in Clicked(column, y) :
        \/ column = "list" /\ mode = "close" /\ ToClose(i)
        \/ column = "list" /\ mode = "snapshot" /\ ToSnapshot(i)
        \/ column = "tree" /\ ToNode(i) /\ focus' = "tree"
  BY DEF Click
<1>3. CASE column = "list" /\ mode = "close" /\ ToClose(i)
  BY <1>1, <1>3, ToCloseEnter
<1>4. CASE column = "list" /\ mode = "snapshot" /\ ToSnapshot(i)
  <2>1. i \in DOMAIN events
    BY <1>2, <1>4 DEF Clicked, ZoneAt, ClickedSnapshot
  <2> QED
    BY <1>1, <1>4, <2>1, ToSnapshotEnter
<1>5. CASE column = "tree" /\ ToNode(i)
  BY <1>1, <1>5, StaysPutEnter DEF StaysPut, ToNode, trees
<1> QED
  BY <1>2, <1>3, <1>4, <1>5

LEMMA ListKeyEnter ==
    ASSUME EnterInv, NEW dir, ListKey(dir)
    PROVE  EnterInv'
<1>1. UNCHANGED <<given, selected>> /\ note' = "" /\ mode = "snapshot"
  BY DEF ListKey, Key
<1>2. CASE cursor + dir \in DOMAIN events
  BY <1>1, <1>2, ToSnapshotEnter DEF ListKey
<1>3. CASE cursor + dir \notin DOMAIN events
  BY <1>1, <1>3, StaysPutEnter DEF ListKey, Stay, StaysPut, trees
<1> QED
  BY <1>2, <1>3

LEMMA CloseKeyEnter ==
    ASSUME EnterInv, NEW dir, CloseKey(dir)
    PROVE  EnterInv'
<1> DEFINE i == Walk(Selectable, cursor, dir, 1)
<1>1. UNCHANGED <<given, selected>> /\ note' = "" /\ mode = "close"
  BY DEF CloseKey, Key
<1>2. CASE ToClose(i)
  BY <1>1, <1>2, ToCloseEnter
<1>3. CASE Stay
  BY <1>1, <1>3, StaysPutEnter DEF Stay, StaysPut, trees
<1> QED
  BY <1>2, <1>3 DEF CloseKey

\* The keys of the tree and of the preview leave the list where it is.
LEMMA TreeKeysEnter ==
    ASSUME EnterInv,
           \/ \E dir \in {-1, 1} : TreeKey(dir) \/ PreviewKey(dir)
           \/ RightKey \/ LeftKey \/ TabKey
    PROVE  EnterInv'
<1>1. note' = "" /\ UNCHANGED <<given, selected>>
  BY DEF TreeKey, PreviewKey, RightKey, LeftKey, TabKey, Key
<1>2. StaysPut
  <2>1. ASSUME NEW dir \in {-1, 1}, TreeKey(dir) PROVE StaysPut
    BY <1>1, <2>1 DEF TreeKey, ToNode, Stay, StaysPut, trees
  <2>2. ASSUME NEW dir \in {-1, 1}, PreviewKey(dir) PROVE StaysPut
    BY <1>1, <2>2 DEF PreviewKey, StaysPut, trees
  <2>3. CASE RightKey
    <3>1. CASE Stay
      BY <1>1, <3>1 DEF Stay, StaysPut, trees
    <3>2. ASSUME NEW p, Expand(p) PROVE StaysPut
      BY <1>1, <3>2 DEF Expand, StaysPut
    <3> QED
      BY <2>3, <3>1, <3>2 DEF RightKey
  <2>4. CASE LeftKey
    <3>1. CASE Stay
      BY <1>1, <3>1 DEF Stay, StaysPut, trees
    <3>2. ASSUME NEW p, Collapse(p) PROVE StaysPut
      BY <1>1, <3>2 DEF Collapse, StaysPut
    <3> QED
      BY <2>4, <3>1, <3>2 DEF LeftKey
  <2>5. CASE TabKey
    BY <1>1, <2>5 DEF TabKey, StaysPut, trees
  <2> QED
    BY <2>1, <2>2, <2>3, <2>4, <2>5
<1> QED
  BY <1>1, <1>2, StaysPutEnter

LEMMA NextEnter == EnterInv /\ [Next]_vars => EnterInv'
<1> SUFFICES ASSUME EnterInv, [Next]_vars PROVE EnterInv'
  OBVIOUS
<1>1. CASE Resize
  BY <1>1, StaysPutEnter DEF Resize, StaysPut, trees, outcome
<1>2. CASE Frame
  BY <1>2, FrameEnter
<1>3. ASSUME NEW s \in loading, ScrollbackLoaded(s) PROVE EnterInv'
  BY <1>3, StaysPutEnter DEF ScrollbackLoaded, StaysPut, trees, outcome
<1>4. CASE RightKey \/ LeftKey \/ TabKey \/ \E dir \in {-1, 1} : TreeKey(dir) \/ PreviewKey(dir)
  BY <1>4, TreeKeysEnter
<1>5. CASE EnterKey
  BY <1>5, EnterEnter
<1>6. CASE QuitKey
  BY <1>6, StaysPutEnter DEF QuitKey, StaysPut, trees
<1>7. ASSUME NEW option \in {"idle", "running"}, ToggleKey(option) PROVE EnterInv'
  BY <1>7, ToggleEnter
<1>8. ASSUME NEW dir \in {-1, 1}, ListKey(dir) PROVE EnterInv'
  BY <1>8, ListKeyEnter
<1>9. ASSUME NEW dir \in {-1, 1}, CloseKey(dir) PROVE EnterInv'
  BY <1>9, CloseKeyEnter
<1>10. ASSUME NEW dir \in {-1, 1}, WheelList(dir) PROVE EnterInv'
  BY <1>10, WheelListEnter
<1>11. ASSUME NEW dir \in {-1, 1}, WheelTree(dir) PROVE EnterInv'
  BY <1>11, StaysPutEnter DEF WheelTree, Mouse, ToNode, StaysPut, trees, outcome
<1>12. ASSUME NEW dir \in {-1, 1}, WheelPreview(dir) PROVE EnterInv'
  BY <1>12, StaysPutEnter DEF WheelPreview, Mouse, StaysPut, trees, outcome
<1>13. ASSUME NEW column, NEW y, Click(column, y) PROVE EnterInv'
  BY <1>13, ClickEnter
<1>14. CASE UNCHANGED vars
  BY <1>14, StaysPutEnter DEF vars, StaysPut, trees, outcome
<1> QED
  BY <1>1, <1>2, <1>3, <1>4, <1>5, <1>6, <1>7, <1>8, <1>9, <1>10, <1>11, <1>12, <1>13, <1>14 DEF Next

LEMMA EnterFromInv == EnterInv => EnterRestoresShown
<1> SUFFICES ASSUME EnterInv PROVE EnterRestoresShown
  OBVIOUS
<1>1. ASSUME NEW e \in parsed
      PROVE  KeptPanes(e, decorated[e]) = PlannedPanes(e, filter)
  <2>1. e \in DOMAIN events /\ events \in SnapshotLists /\ decorated[e] = filter
    BY <1>1 DEF EnterInv
  <2> QED
    BY <2>1, KeptIsPlanned
<1> QED
  BY <1>1 DEF EnterInv, EnterRestoresShown

\* What the tree marks as kept is what Enter restores, for every snapshot,
\* filter and order of moves and toggles (tree.go: FilterDecorate, plan.go:
\* BuildPlan, model.go: ensureManifest, redecorate).
THEOREM EnterRestoresShownCorrect == Spec => []EnterRestoresShown
<1>1. Init => EnterInv  BY InitEnter
<1>2. EnterInv /\ [Next]_vars => EnterInv'  BY NextEnter
<1>3. EnterInv => EnterRestoresShown  BY EnterFromInv
<1> QED
  BY <1>1, <1>2, <1>3, PTL DEF Spec
-----------------------------------------------------------------------------
(* The inductive invariant *)

\* What the picker was opened on: every row stands for a close that can be
\* restored or is a header, and a list with a row has one to select.
Given ==
    /\ mode \in {"snapshot", "close"} /\ hidden \in Nat
    /\ Listed(events) /\ Listed(rows)
    /\ \A i \in DOMAIN rows : rows[i].event \in {0} \cup DOMAIN events
    /\ rows # <<>> => Selectable # {}
    /\ mode = "snapshot" => events \in SnapshotLists /\ rows = <<>>
    /\ mode = "close" => /\ events \in CloseLists
                         /\ \A i \in Selectable : events[rows[i].event].windows # <<>>

\* The cursor is on what can be selected, if anything can.
OnList ==
    /\ mode = "snapshot" => /\ cursor \in {1} \cup DOMAIN events
                            /\ events # <<>> => cursor \in DOMAIN events
    /\ mode = "close" => /\ cursor \in {1} \cup Selectable
                         /\ Selectable # {} => cursor \in Selectable

TreesOK ==
    /\ parsed \subseteq DOMAIN events /\ refused \subseteq DOMAIN events
    /\ expanded \in [DOMAIN events -> SUBSET Nat]
    /\ decorated \in [DOMAIN events -> Filters]
PointsOK ==
    /\ treeCursor \in Nat \ {0} /\ focus \in {"list", "tree"}
    /\ filter \in Filters /\ scroll \in Nat
ReadsOK == loaded \subseteq Shas /\ broken \subseteq Shas /\ loading \subseteq Shas
EndOK ==
    /\ screen \in Screens /\ open \in BOOLEAN
    /\ note \in {"", "invalid manifest", "manifest not loaded yet"}
    /\ selected \in {0} \cup DOMAIN events

PickInv == EnterInv /\ Given /\ OnList /\ TreesOK /\ PointsOK /\ ReadsOK /\ EndOK

LEMMA ListNumbers == Given => /\ DOMAIN events \in SUBSET (Nat \ {0})
                              /\ DOMAIN rows \in SUBSET (Nat \ {0})
                              /\ IsFiniteSet(DOMAIN rows)
<1> SUFFICES ASSUME Given
             PROVE  /\ DOMAIN events \in SUBSET (Nat \ {0}) /\ DOMAIN rows \in SUBSET (Nat \ {0})
                    /\ IsFiniteSet(DOMAIN rows)
  OBVIOUS
<1>1. Listed(events) /\ Listed(rows)
  BY DEF Given
<1>2. DOMAIN events = 1..Len(events) /\ Len(events) \in Nat
  BY <1>1, ListedOK
<1>3. DOMAIN rows = 1..Len(rows) /\ Len(rows) \in Nat
  BY <1>1, ListedOK
<1>4. IsFiniteSet(DOMAIN rows)
  BY <1>3, FS_Interval
<1>5. DOMAIN events \in SUBSET (Nat \ {0})
  BY <1>2
<1>6. DOMAIN rows \in SUBSET (Nat \ {0})
  BY <1>3
<1> QED
  BY <1>4, <1>5, <1>6

LEMMA SelectableOK == Given => /\ Selectable \in SUBSET DOMAIN rows /\ Selectable \in SUBSET Nat
                               /\ IsFiniteSet(Selectable)
<1> SUFFICES ASSUME Given
             PROVE  /\ Selectable \in SUBSET DOMAIN rows /\ Selectable \in SUBSET Nat
                    /\ IsFiniteSet(Selectable)
  OBVIOUS
<1> DEFINE S == Selectable
<1>1. S \in SUBSET DOMAIN rows
  BY DEF Selectable
<1>2. DOMAIN rows \in SUBSET (Nat \ {0}) /\ IsFiniteSet(DOMAIN rows)
  BY ListNumbers
<1> HIDE DEF S
<1>3. S \in SUBSET Nat /\ IsFiniteSet(S)
  BY <1>1, <1>2, FS_Subset
<1> QED
  BY <1>1, <1>3 DEF S

LEMMA PickTypes == PickInv => TypeOK
<1> SUFFICES ASSUME PickInv PROVE TypeOK
  OBVIOUS
<1>1. cursor \in Nat \ {0}
  <2>1. Given /\ OnList
    BY DEF PickInv
  <2>2. cursor \in {1} \cup DOMAIN events \cup DOMAIN rows
    BY <2>1, SelectableOK DEF OnList, Given
  <2>3. DOMAIN events \in SUBSET (Nat \ {0}) /\ DOMAIN rows \in SUBSET (Nat \ {0})
    BY <2>1, ListNumbers
  <2> QED
    BY <2>2, <2>3
<1> QED
  BY <1>1 DEF PickInv, Given, TreesOK, PointsOK, ReadsOK, EndOK, TypeOK
-----------------------------------------------------------------------------
(* Screens and offsets *)

LEMMA LayoutOK ==
    ASSUME NEW s, s.height \in Nat
    PROVE  /\ Body(s) \in Nat /\ Body(s) = IF s.height - 1 >= 5 THEN s.height - 1 ELSE 5
           /\ PanelFrame(s) \in Nat
           /\ TopHeight(s) = (IF Stacked(s) THEN Body(s) - PanelFrame(s) ELSE Body(s))
           /\ TopHeight(s) \in Nat /\ TopHeight(s) >= 2
           /\ PreviewInner(s) \in Nat
<1>1. Body(s) = (IF s.height - 1 >= 5 THEN s.height - 1 ELSE 5) /\ Body(s) \in Nat /\ Body(s) >= 5
  BY MaxOfTwo DEF Body, FooterLines
<1> DEFINE b == Body(s)
           half == b \div 2
<1> HIDE DEF b
<1>2. half \in Nat /\ half >= 2 /\ half <= b
  BY <1>1 DEF b
<1>3. PanelFrame(s) = IF Stacked(s) THEN b - half ELSE b
  BY DEF PanelFrame, b
<1> HIDE DEF half
<1>4. PanelFrame(s) \in Nat /\ b \in Nat /\ (Stacked(s) => b - PanelFrame(s) = half)
  BY <1>1, <1>2, <1>3 DEF b
<1>5. TopHeight(s) = IF Stacked(s) THEN b - PanelFrame(s) ELSE b
  BY DEF TopHeight, b
<1>6. TopHeight(s) \in Nat /\ TopHeight(s) >= 2
  BY <1>1, <1>2, <1>4, <1>5 DEF b
<1>7. PreviewInner(s) = IF PanelFrame(s) - 2 >= 1 THEN PanelFrame(s) - 2 ELSE 1
  BY <1>4, MaxOfTwo DEF PreviewInner
<1>8. PreviewInner(s) \in Nat
  BY <1>4, <1>7
<1> QED
  BY <1>1, <1>4, <1>5, <1>6, <1>8 DEF b

LEMMA ImageFinite ==
    ASSUME NEW S, IsFiniteSet(S), NEW f
    PROVE  IsFiniteSet({f[i] : i \in S})
<1> DEFINE T == {f[i] : i \in S}
           g == [i \in S |-> f[i]]
<1>1. g \in Surjection(S, T)
  BY DEF Surjection
<1> HIDE DEF g, T
<1>2. IsFiniteSet(T)
  BY <1>1, FS_Surjection
<1> QED
  BY <1>2 DEF T

LEMMA OverflowOK ==
    ASSUME NEW s \in Shas, NEW h \in Int
    PROVE  /\ Overflow(s, h) \in Nat
           /\ \A k \in Int : k <= h => Overflow(s, h) <= Overflow(s, k)
<1>1. Lines[s] \in Nat
  BY PickerAssumption
<1>2. \A k \in Int : Overflow(s, k) = IF 0 >= Lines[s] - k THEN 0 ELSE Lines[s] - k
  BY <1>1, MaxOfTwo DEF Overflow
<1> QED
  BY <1>1, <1>2

\* The panes a close shows.
LEMMA ClosePanesOK ==
    Given => Listed(ClosePanes) /\ \A i \in DOMAIN ClosePanes : ClosePanes[i] \in Shas \cup {NoSha}
<1> SUFFICES ASSUME Given
             PROVE  Listed(ClosePanes) /\ \A i \in DOMAIN ClosePanes : ClosePanes[i] \in Shas \cup {NoSha}
  OBVIOUS
<1>1. CASE CurrentClose = 0
  <2>1. ClosePanes = <<>>
    BY <1>1 DEF ClosePanes
  <2>2. Listed(<<>>)
    BY EmptySeq, SeqListed
  <2>3. DOMAIN <<>> = {}
    BY <2>2, ListedOK
  <2> QED
    BY <2>1, <2>2, <2>3
<1>2. CASE CurrentClose # 0
  <2>1. cursor \in DOMAIN rows /\ rows[cursor].event = CurrentClose
    BY <1>2 DEF CurrentClose
  <2>2. cursor \in Selectable /\ CurrentClose \in DOMAIN events
    BY <1>2, <2>1 DEF Selectable, Given
  <2>3. mode = "close"
    <3>1. rows # <<>>
      <4>1. rows = <<>> => DOMAIN rows = {}
        BY ListedOK DEF Given
      <4> QED
        BY <2>1, <4>1
    <3> QED
      BY <3>1 DEF Given
  <2>4. events \in CloseLists /\ events[CurrentClose].windows # <<>>
    BY <2>1, <2>2, <2>3 DEF Given
  <2>5. ClosePanes = events[CurrentClose].windows[1]
    BY <1>2 DEF ClosePanes
  <2> QED
    BY <2>2, <2>4, <2>5, PickerAssumption
<1> QED
  BY <1>1, <1>2

LEMMA VisibleOK ==
    Given /\ TreesOK => /\ VisibleNodes \in SUBSET Nat /\ IsFiniteSet(VisibleNodes)
                        /\ Cardinality(VisibleNodes) \in Nat
<1> SUFFICES ASSUME Given, TreesOK
             PROVE  /\ VisibleNodes \in SUBSET Nat /\ IsFiniteSet(VisibleNodes)
                    /\ Cardinality(VisibleNodes) \in Nat
  OBVIOUS
<1>1. CASE mode = "snapshot" /\ cursor \in parsed
  <2>1. events \in SnapshotLists /\ cursor \in DOMAIN events
    BY <1>1 DEF Given, TreesOK
  <2>2. VisibleNodes = Shown(cursor, expanded[cursor])
    BY <1>1 DEF VisibleNodes
  <2> QED
    BY <2>1, <2>2, ShownOK
<1>2. CASE ~(mode = "snapshot" /\ cursor \in parsed)
  <2>1. VisibleNodes = {}
    BY <1>2 DEF VisibleNodes
  <2> QED
    BY <2>1, FS_EmptySet
<1> QED
  BY <1>1, <1>2

\* What is at an index of the tree is a node of the snapshot under the cursor.
LEMMA NodeAtOK ==
    ASSUME Given, TreesOK, NEW i, NEW p \in NodeAt(i)
    PROVE  /\ mode = "snapshot" /\ cursor \in parsed /\ cursor \in DOMAIN events
           /\ events \in SnapshotLists
           /\ p \in Shown(cursor, expanded[cursor]) /\ p \in DOMAIN Nodes(cursor)
           /\ VisibleNodes = Shown(cursor, expanded[cursor])
           /\ Rank(p, VisibleNodes) = i /\ i \in 1..Cardinality(VisibleNodes)
<1>1. p \in VisibleNodes /\ Rank(p, VisibleNodes) = i
  BY DEF NodeAt
<1>2. mode = "snapshot" /\ cursor \in parsed /\ VisibleNodes = Shown(cursor, expanded[cursor])
  BY <1>1 DEF VisibleNodes
<1>3. events \in SnapshotLists /\ cursor \in DOMAIN events
  BY <1>2 DEF Given, TreesOK
<1>4. p \in DOMAIN Nodes(cursor)
  BY <1>1, <1>2 DEF Shown
<1>5. i \in 1..Cardinality(VisibleNodes)
  <2> DEFINE V == VisibleNodes
  <2>1. V \in SUBSET Nat /\ IsFiniteSet(V) /\ Cardinality(V) \in Nat
    BY VisibleOK
  <2>2. p \in V
    BY <1>1
  <2> HIDE DEF V
  <2>3. p \in Nat /\ p <= p
    BY <2>1, <2>2
  <2>4. Rank(p, V) \in 0..Cardinality(V) /\ Rank(p, V) >= 1
    BY <2>1, <2>2, <2>3, RankOK
  <2> QED
    BY <1>1, <2>1, <2>4 DEF V
<1> QED
  BY <1>1, <1>2, <1>3, <1>4, <1>5

AllKnown == PreviewSHAs \subseteq Shas

LEMMA PreviewsKnown == Given /\ TreesOK => AllKnown
<1> SUFFICES ASSUME Given, TreesOK PROVE AllKnown
  OBVIOUS
<1>1. \A i \in DOMAIN ClosePanes : ClosePanes[i] \in Shas \cup {NoSha}
  BY ClosePanesOK
<1>2. ASSUME NEW p \in NodeAt(treeCursor) PROVE Nodes(cursor)[p].sha \in Shas \cup {NoSha}
  <2>1. events \in SnapshotLists /\ cursor \in DOMAIN events /\ p \in DOMAIN Nodes(cursor)
    BY NodeAtOK
  <2>2. InTree(Nodes(cursor), p)
    BY <2>1, TreeOK
  <2> QED
    BY <2>2 DEF InTree
<1>3. PreviewSHA \subseteq Shas \cup {NoSha}
  BY <1>2 DEF PreviewSHA
<1> QED
  BY <1>1, <1>3 DEF PreviewSHAs, AllKnown
-----------------------------------------------------------------------------
(* The largest offset *)

\* The blocks and the largest offset of a close's panes, when some of their
\* screens are held.
BlocksOf(panes, held, room) ==
    CloseBlockHeights([i \in DOMAIN panes |-> panes[i] \notin held], room)
HeldBlocks(panes, held, room) == {j \in DOMAIN BlocksOf(panes, held, room) : panes[j] \in held}
Offsets(panes, held, room) ==
    {Overflow(panes[i], BlocksOf(panes, held, room)[i] - 1) : i \in HeldBlocks(panes, held, room)}
CloseMax(panes, held, room) == Max({0} \cup Offsets(panes, held, room))

LEMMA OffsetsOK ==
    ASSUME NEW panes, Listed(panes), NEW held \in SUBSET Shas, NEW room \in Int
    PROVE  /\ HeldBlocks(panes, held, room) \in SUBSET DOMAIN panes
           /\ \A i \in HeldBlocks(panes, held, room) :
                 BlocksOf(panes, held, room)[i] \in Int
           /\ Offsets(panes, held, room) \in SUBSET Nat
           /\ IsFiniteSet(Offsets(panes, held, room))
<1> DEFINE n == Len(panes)
           noted == [i \in DOMAIN panes |-> panes[i] \notin held]
           h == BlocksOf(panes, held, room)
           H == HeldBlocks(panes, held, room)
           f == [i \in H |-> Overflow(panes[i], h[i] - 1)]
<1>1. DOMAIN panes = 1..n /\ n \in Nat /\ DOMAIN noted = 1..n
  BY ListedOK
<1> HIDE DEF n, noted
<1>2. h = CloseBlockHeights(noted, room)
  BY DEF BlocksOf, noted
<1>3. DOMAIN h \in SUBSET (1..n) /\ \A i \in DOMAIN h : h[i] \in Int
  BY <1>1, <1>2, BlocksFit
<1>4. H \in SUBSET DOMAIN h /\ \A i \in H : panes[i] \in held
  BY DEF HeldBlocks
<1> HIDE DEF h
<1>5. \A i \in H : h[i] \in Int /\ h[i] - 1 \in Int /\ panes[i] \in Shas
  BY <1>3, <1>4
<1>6. \A i \in H : f[i] \in Nat
  BY <1>5, OverflowOK
<1>7. IsFiniteSet(H)
  <2>1. IsFiniteSet(1..n)
    BY <1>1, FS_Interval
  <2>2. H \in SUBSET (1..n)
    BY <1>3, <1>4
  <2> HIDE DEF H
  <2> QED
    BY <2>1, <2>2, FS_Subset
<1>8. Offsets(panes, held, room) = {f[i] : i \in H}
  BY DEF Offsets, h
<1>9. IsFiniteSet({f[i] : i \in H})
  <2> HIDE DEF f, H
  <2> QED
    BY <1>7, ImageFinite
<1>10. {f[i] : i \in H} \in SUBSET Nat
  BY <1>6
<1>11. IsFiniteSet(Offsets(panes, held, room)) /\ Offsets(panes, held, room) \in SUBSET Nat
  BY <1>8, <1>9, <1>10
<1> QED
  BY <1>1, <1>3, <1>4, <1>5, <1>11 DEF h

LEMMA MaxWithZero ==
    ASSUME NEW S \in SUBSET Nat, IsFiniteSet(S)
    PROVE  /\ Max({0} \cup S) \in Nat /\ Max({0} \cup S) \in {0} \cup S
           /\ \A x \in S : x <= Max({0} \cup S)
<1> DEFINE T == {0} \cup S
<1>1. T \in SUBSET Int /\ 0 \in T
  OBVIOUS
<1>2. IsFiniteSet(T)
  <2>1. IsFiniteSet(S \cup {0})
    BY FS_AddElement
  <2>2. T = S \cup {0}
    OBVIOUS
  <2> QED
    BY <2>1, <2>2
<1>3. Max(T) \in T /\ \A u \in T : u <= Max(T)
  <2> HIDE DEF T
  <2> QED
    BY <1>1, <1>2, MaxIn
<1> HIDE DEF T
<1>4. PICK m : m = Max(T)
  OBVIOUS
<1>5. m \in T /\ \A u \in T : u <= m
  BY <1>3, <1>4
<1>6. m \in {0} \cup S /\ \A x \in S : x <= m
  BY <1>5 DEF T
<1>7. m \in Nat
  BY <1>6
<1>8. m = Max({0} \cup S)
  BY <1>4 DEF T
<1> QED
  BY <1>6, <1>7, <1>8

\* A screen that arrives lets no other scroll less far.
LEMMA CloseMaxGrows ==
    ASSUME NEW panes, Listed(panes), NEW held \in SUBSET Shas, NEW more \in SUBSET Shas,
           held \subseteq more, NEW room \in Int
    PROVE  CloseMax(panes, held, room) <= CloseMax(panes, more, room)
<1> DEFINE n == Len(panes)
           noted(X) == [i \in DOMAIN panes |-> panes[i] \notin X]
           S == Offsets(panes, held, room)
           T == Offsets(panes, more, room)
<1>1. DOMAIN panes = 1..n /\ n \in Nat
  BY ListedOK
<1>2. /\ S \in SUBSET Nat /\ IsFiniteSet(S) /\ T \in SUBSET Nat /\ IsFiniteSet(T)
      /\ \A i \in HeldBlocks(panes, held, room) : BlocksOf(panes, held, room)[i] \in Int
      /\ \A i \in HeldBlocks(panes, more, room) : BlocksOf(panes, more, room)[i] \in Int
  BY OffsetsOK
<1>3. ASSUME NEW i \in HeldBlocks(panes, held, room)
      PROVE  /\ i \in HeldBlocks(panes, more, room) /\ panes[i] \in held
             /\ BlocksOf(panes, more, room)[i] <= BlocksOf(panes, held, room)[i]
  <2>1. i \in DOMAIN BlocksOf(panes, held, room) /\ panes[i] \in held
    BY <1>3 DEF HeldBlocks
  <2>2. PICK a : a = noted(held)
    OBVIOUS
  <2>3. PICK b : b = noted(more)
    OBVIOUS
  <2>4. /\ DOMAIN a = 1..n /\ DOMAIN b = 1..n /\ \A j \in 1..n : b[j] => a[j]
        /\ i \in 1..n => ~a[i]
    BY <1>1, <2>1, <2>2, <2>3
  <2>5. BlocksOf(panes, held, room) = CloseBlockHeights(a, room)
    BY <2>2 DEF BlocksOf
  <2>6. BlocksOf(panes, more, room) = CloseBlockHeights(b, room)
    BY <2>3 DEF BlocksOf
  <2>7. i \in ShownBlocks(a, room)
    BY <2>1, <2>5, BlockDomain
  <2>8. i \in 1..n
    <3>1. DOMAIN CloseBlockHeights(a, room) \in SUBSET (1..n)
      BY <1>1, <2>4, BlocksFit
    <3> QED
      BY <2>1, <2>5, <3>1
  <2>9. /\ i \in ShownBlocks(b, room)
        /\ CloseBlockHeights(b, room)[i] <= CloseBlockHeights(a, room)[i]
    BY <1>1, <2>4, <2>7, <2>8, BlocksShrink
  <2>10. i \in DOMAIN BlocksOf(panes, more, room)
    BY <2>6, <2>9, BlockDomain
  <2> QED
    BY <2>1, <2>5, <2>6, <2>9, <2>10 DEF HeldBlocks
<1>4. ASSUME NEW x \in S PROVE \E y \in T : x <= y
  <2>1. PICK i \in HeldBlocks(panes, held, room) :
          x = Overflow(panes[i], BlocksOf(panes, held, room)[i] - 1)
    BY <1>4 DEF Offsets
  <2>2. PICK k \in Int : k = BlocksOf(panes, held, room)[i]
    BY <1>2
  <2>3. /\ i \in HeldBlocks(panes, more, room) /\ panes[i] \in Shas
        /\ BlocksOf(panes, more, room)[i] <= k
    BY <1>3, <2>2
  <2>4. PICK m \in Int : m = BlocksOf(panes, more, room)[i]
    BY <1>2, <2>3
  <2>5. m - 1 <= k - 1 /\ m - 1 \in Int /\ k - 1 \in Int
    BY <2>3, <2>4
  <2>6. Overflow(panes[i], k - 1) <= Overflow(panes[i], m - 1)
    BY <2>3, <2>5, OverflowOK
  <2>7. Overflow(panes[i], m - 1) \in T
    BY <2>3, <2>4 DEF Offsets
  <2> QED
    BY <2>1, <2>2, <2>6, <2>7
<1> HIDE DEF S, T
<1>5. /\ Max({0} \cup S) \in Nat /\ Max({0} \cup S) \in {0} \cup S
      /\ Max({0} \cup T) \in Nat /\ \A x \in T : x <= Max({0} \cup T)
  BY <1>2, MaxWithZero
<1>6. Max({0} \cup S) <= Max({0} \cup T)
  <2>1. PICK a \in {0} \cup S : a = Max({0} \cup S)
    BY <1>5
  <2>2. PICK b \in Nat : b = Max({0} \cup T)
    BY <1>5
  <2>3. CASE a = 0
    BY <2>1, <2>2, <2>3
  <2>4. CASE a \in S
    <3>1. PICK y \in T : a <= y
      BY <1>4, <2>4
    <3>2. y <= b /\ y \in Nat /\ a \in Nat
      BY <1>2, <1>5, <2>2, <2>4
    <3> QED
      BY <2>1, <2>2, <3>1, <3>2
  <2> QED
    BY <2>3, <2>4
<1> QED
  BY <1>6 DEF CloseMax, S, T

LEMMA CloseMaxIs ==
    mode = "close" =>
      PreviewMaxScroll = CloseMax(ClosePanes, loaded, PreviewInner(screen) - CloseHeaderLines)
BY DEF PreviewMaxScroll, CloseMax, Offsets, HeldBlocks, BlocksOf, CloseBlocks

LEMMA MaxScrollOK == Given /\ TreesOK /\ ReadsOK /\ EndOK => PreviewMaxScroll \in Nat
<1> SUFFICES ASSUME Given, TreesOK, ReadsOK, EndOK PROVE PreviewMaxScroll \in Nat
  OBVIOUS
<1>1. PreviewInner(screen) \in Nat
  BY LayoutOK, PickerAssumption DEF EndOK
<1>2. CASE mode = "close"
  <2>1. PICK panes : panes = ClosePanes
    OBVIOUS
  <2>2. PICK room \in Int : room = PreviewInner(screen) - CloseHeaderLines
    BY <1>1 DEF CloseHeaderLines
  <2>3. Listed(panes) /\ loaded \in SUBSET Shas
    BY <2>1, ClosePanesOK DEF ReadsOK
  <2>4. Offsets(panes, loaded, room) \in SUBSET Nat /\ IsFiniteSet(Offsets(panes, loaded, room))
    BY <2>3, OffsetsOK
  <2>5. CloseMax(panes, loaded, room) \in Nat
    BY <2>4, MaxWithZero DEF CloseMax
  <2> QED
    BY <1>2, <2>1, <2>2, <2>5, CloseMaxIs
<1>3. CASE mode # "close"
  <2> DEFINE height == PaneScrollbackHeight
             held == PreviewSHA \cap loaded
             f == [s \in held |-> Overflow(s, height)]
             S == {f[s] : s \in held}
  <2>1. height \in Int
    <3>1. PICK k \in Int : k = PreviewInner(screen) - IF PaneHintShows THEN MapRows + 1 ELSE 0
      <4>1. MapRows \in Nat
        BY LayoutAssumption
      <4> QED
        BY <1>1, <4>1
    <3>2. height = Max({1, k})
      BY <3>1 DEF PaneScrollbackHeight
    <3> QED
      BY <3>2, MaxOfTwo
  <2>2. IsFiniteSet(held)
    <3> DEFINE at == {q \in NodeAt(treeCursor) : focus = "tree" /\ Kind(cursor, q) = "pane"}
               g == [p \in at |-> Nodes(cursor)[p].sha]
    <3>1. at \in SUBSET VisibleNodes
      BY DEF NodeAt
    <3>2. IsFiniteSet(VisibleNodes)
      BY VisibleOK
    <3>3. PreviewSHA = {g[p] : p \in at}
      BY DEF PreviewSHA
    <3> HIDE DEF at, g
    <3>4. IsFiniteSet(at)
      BY <3>1, <3>2, FS_Subset
    <3>5. IsFiniteSet({g[p] : p \in at})
      BY <3>4, ImageFinite
    <3>6. IsFiniteSet(PreviewSHA)
      BY <3>3, <3>5
    <3> QED
      BY <3>6, FS_Subset
  <2>3. PreviewMaxScroll = Max({0} \cup S)
    BY <1>3 DEF PreviewMaxScroll
  <2>4. \A s \in held : f[s] \in Nat
    <3> HIDE DEF height
    <3>1. \A s \in held : s \in Shas
      BY DEF ReadsOK
    <3> QED
      BY <2>1, <3>1, OverflowOK
  <2>5. S \in SUBSET Nat
    BY <2>4
  <2> HIDE DEF f, held
  <2>6. IsFiniteSet(S)
    BY <2>2, ImageFinite
  <2> HIDE DEF S
  <2>7. Max({0} \cup S) \in Nat
    BY <2>5, <2>6, MaxWithZero
  <2> QED
    BY <2>3, <2>7
<1> QED
  BY <1>2, <1>3
-----------------------------------------------------------------------------
(* Initial states *)

LEMMA DecorateNumbers ==
    ASSUME events \in SnapshotLists, NEW e \in DOMAIN events, NEW f, NEW g, NEW opened \in SUBSET Nat
    PROVE  Decorate(e, opened, f, g) \in SUBSET Nat
<1>1. DOMAIN Nodes(e) \in SUBSET Nat
  BY TreeOK
<1>2. \A h, r : SkippedFor(e, h, r) \subseteq DOMAIN Nodes(e)
  BY DEF SkippedFor, OfNodeKind
<1> QED
  BY <1>1, <1>2 DEF Decorate

LEMMA OpenedNumbers ==
    ASSUME events \in SnapshotLists, NEW e \in DOMAIN events
    PROVE  Opened(e) \in SUBSET Nat
<1>1. BuildTree(e) \in SUBSET Nat
  <2>1. DOMAIN Nodes(e) \in SUBSET Nat
    BY TreeOK
  <2> QED
    BY <2>1 DEF BuildTree, OfNodeKind
<1> QED
  BY <1>1, DecorateNumbers DEF Opened

LEMMA InitSnapshotOK == Init /\ InitSnapshot => Given /\ OnList /\ TreesOK
<1> SUFFICES ASSUME Init, InitSnapshot PROVE Given /\ OnList /\ TreesOK
  OBVIOUS
<1>1. mode = "snapshot" /\ events \in SnapshotLists /\ rows = <<>> /\ hidden = 0 /\ cursor = 1
  BY DEF InitSnapshot
<1>2. Listed(events)
  BY <1>1, PickerAssumption
<1>3. Listed(rows) /\ DOMAIN rows = {}
  BY <1>1, EmptySeq, SeqListed, ListedOK
<1>4. Given
  BY <1>1, <1>2, <1>3 DEF Given
<1>5. OnList
  BY <1>1, <1>2, ListedOK DEF OnList
<1>6. FirstRow(1) \subseteq DOMAIN events
  BY DEF FirstRow
<1>7. parsed \subseteq DOMAIN events /\ refused \subseteq DOMAIN events
  BY <1>6 DEF InitSnapshot, Parse
<1>8. filter \in Filters /\ NoFilter \in Filters
  BY DEF Init, Filters, NoFilter
<1>9. decorated \in [DOMAIN events -> Filters]
  BY <1>8 DEF InitSnapshot
<1>10. expanded \in [DOMAIN events -> SUBSET Nat]
  BY <1>1, OpenedNumbers DEF InitSnapshot
<1> QED
  BY <1>4, <1>5, <1>7, <1>9, <1>10 DEF TreesOK

LEMMA InitCloseOK == Init /\ InitClose => Given /\ OnList /\ TreesOK
<1> SUFFICES ASSUME Init, InitClose PROVE Given /\ OnList /\ TreesOK
  OBVIOUS
<1>1. /\ mode = "close" /\ events \in CloseLists /\ rows = BuildCloseList(events)
      /\ hidden = HiddenCount(events)
      /\ cursor = IF Selectable = {} THEN 1 ELSE Min(Selectable)
  BY DEF InitClose
<1>2. Listed(events)
  BY <1>1, PickerAssumption
<1>3. hidden \in Nat /\ Kept(events) \in SUBSET DOMAIN events /\ DOMAIN events \in SUBSET (Nat \ {0})
  BY <1>1, <1>2, KeptFinite
<1>4. /\ Listed(rows) /\ \A i \in DOMAIN rows : rows[i].event \in {0} \cup Kept(events)
      /\ rows # <<>> => \E i \in DOMAIN rows : rows[i].event # 0
  BY <1>1, <1>2, CloseRows
<1>5. \A i \in Selectable : events[rows[i].event].windows # <<>>
  BY <1>4 DEF Selectable, Kept, Unrecoverable
<1>6. rows # <<>> => Selectable # {}
  BY <1>4 DEF Selectable
<1>7. Given
  BY <1>1, <1>2, <1>3, <1>4, <1>5, <1>6 DEF Given
<1>8. OnList
  <2>1. PICK S : S = Selectable
    OBVIOUS
  <2>2. S \in SUBSET Int /\ IsFiniteSet(S)
    BY <1>7, <2>1, SelectableOK
  <2>3. S # {} => Min(S) \in S
    BY <2>2, MinIn
  <2> QED
    BY <1>1, <2>1, <2>3 DEF OnList
<1>9. NoFilter \in Filters
  BY DEF Filters, NoFilter
<1> QED
  BY <1>7, <1>8, <1>9 DEF TreesOK, InitClose

LEMMA InitPick == Init => PickInv
<1> SUFFICES ASSUME Init PROVE PickInv
  OBVIOUS
<1>1. Given /\ OnList /\ TreesOK
  BY InitSnapshotOK, InitCloseOK DEF Init
<1>2. loading \subseteq Shas
  BY <1>1, PreviewsKnown DEF Init, AllKnown
<1>3. PointsOK /\ EndOK
  <2>1. filter \in Filters
    BY DEF Init, Filters
  <2>2. treeCursor = 1 /\ scroll = 0 /\ focus = "list"
    BY DEF Init
  <2>3. PointsOK
    BY <2>1, <2>2 DEF PointsOK
  <2>4. EndOK
    BY DEF Init, EndOK
  <2> QED
    BY <2>3, <2>4
<1>4. ReadsOK
  BY <1>2 DEF Init, ReadsOK
<1> QED
  BY <1>1, <1>3, <1>4, InitEnter DEF PickInv
-----------------------------------------------------------------------------
(* Moves *)

LEMMA GivenStays == Given /\ UNCHANGED given => Given'
BY DEF Given, given, Selectable

LEMMA KnownNext == Given' /\ TreesOK' => AllKnown'
BY PreviewsKnown, PTL

\* What a key or the mouse leaves alone.
LEMMA MoveOK ==
    ASSUME PickInv, EnterInv', OnList', TreesOK', PointsOK',
           UNCHANGED <<given, screen, selected, open, cache>>, note' \in {note, ""},
           PreviewCmd \/ UNCHANGED loading
    PROVE  PickInv'
<1>1. Given'
  BY GivenStays DEF PickInv
<1>2. PreviewSHAs' \subseteq Shas
  BY <1>1, KnownNext DEF AllKnown
<1>3. ReadsOK'
  BY <1>2 DEF PickInv, ReadsOK, PreviewCmd, cache
<1>4. EndOK'
  BY DEF PickInv, EndOK, given
<1> QED
  BY <1>1, <1>3, <1>4 DEF PickInv

\* The list's cursor goes to a snapshot.
LEMMA SnapshotMove ==
    ASSUME PickInv, mode = "snapshot", NEW e \in DOMAIN events, ToSnapshot(e),
           UNCHANGED given, scroll' \in Nat
    PROVE  OnList' /\ TreesOK' /\ PointsOK'
<1>1. events \in SnapshotLists /\ UNCHANGED <<mode, events, rows, focus, filter>> /\ cursor' = e
  BY DEF PickInv, Given, ToSnapshot, given
<1>2. OnList'
  BY <1>1 DEF OnList
<1>3. TreesOK /\ PointsOK
  BY DEF PickInv
<1>4. TreesOK'
  <2>1. CASE e \in parsed \cup refused
    BY <1>1, <1>3, <2>1 DEF TreesOK, ToSnapshot, EnsureManifest, trees
  <2>2. CASE e \notin parsed \cup refused
    <3>1. PICK o : o = IF events[e].bad THEN {} ELSE Opened(e)
      OBVIOUS
    <3>2. o \in SUBSET Nat
      BY <1>1, <3>1, OpenedNumbers
    <3>3. PICK f : f = IF events[e].bad THEN NoFilter ELSE filter
      OBVIOUS
    <3>4. f \in Filters
      BY <1>3, <3>3 DEF PointsOK, Filters, NoFilter
    <3>5. /\ parsed' = parsed \cup Parse(e) /\ refused' = refused \cup ({e} \ Parse(e))
          /\ expanded' = [expanded EXCEPT ![e] = o] /\ decorated' = [decorated EXCEPT ![e] = f]
      BY <2>2, <3>1, <3>3 DEF ToSnapshot, EnsureManifest
    <3>6. Parse(e) \subseteq {e}
      BY DEF Parse
    <3>7. parsed' \subseteq DOMAIN events /\ refused' \subseteq DOMAIN events
      BY <1>3, <3>5, <3>6 DEF TreesOK
    <3>8. expanded' \in [DOMAIN events -> SUBSET Nat] /\ decorated' \in [DOMAIN events -> Filters]
      BY <1>3, <3>2, <3>4, <3>5 DEF TreesOK
    <3> QED
      BY <1>1, <3>7, <3>8 DEF TreesOK
  <2> QED
    BY <2>1, <2>2
<1>5. treeCursor' \in Nat \ {0}
  <2>1. PICK o : o = expanded'[e]
    OBVIOUS
  <2>2. FirstPaneIdx(e, o) \in {1} \cup (1..Cardinality(Shown(e, o)))
    BY <1>1, FirstPaneOK
  <2>3. Cardinality(Shown(e, o)) \in Nat
    BY <1>1, ShownOK
  <2>4. treeCursor' \in {FirstPaneIdx(e, o), 1}
    BY <2>1 DEF ToSnapshot
  <2> QED
    BY <2>2, <2>3, <2>4
<1>6. PointsOK'
  BY <1>1, <1>3, <1>5 DEF PointsOK
<1> QED
  BY <1>2, <1>4, <1>6

\* That of the closes goes to a close.
LEMMA CloseMove ==
    ASSUME PickInv, mode = "close", NEW i \in Selectable \cup {cursor}, ToClose(i),
           UNCHANGED given, scroll' \in Nat
    PROVE  OnList' /\ TreesOK' /\ PointsOK'
<1>1. UNCHANGED <<mode, events, rows>> /\ Selectable' = Selectable
  BY DEF given, Selectable
<1>2. OnList'
  BY <1>1 DEF PickInv, OnList, ToClose
<1>3. TreesOK'
  BY <1>1 DEF PickInv, TreesOK, ToClose, trees
<1>4. PointsOK'
  BY DEF PickInv, PointsOK, ToClose
<1> QED
  BY <1>2, <1>3, <1>4

\* A node opens or closes, or the tree's cursor moves.
LEMMA TreeMove ==
    ASSUME PickInv, UNCHANGED <<given, cursor, filter, parsed, refused, decorated>>,
           UNCHANGED expanded \/ expanded' \in [DOMAIN events -> SUBSET Nat],
           treeCursor' \in Nat \ {0}, focus' \in {"list", "tree"}, scroll' \in Nat
    PROVE  OnList' /\ TreesOK' /\ PointsOK'
<1>1. UNCHANGED <<mode, events, rows>> /\ Selectable' = Selectable
  BY DEF given, Selectable
<1>2. OnList'
  BY <1>1 DEF PickInv, OnList
<1>3. TreesOK'
  BY <1>1 DEF PickInv, TreesOK
<1>4. PointsOK'
  BY DEF PickInv, PointsOK
<1> QED
  BY <1>2, <1>3, <1>4

LEMMA StayMove ==
    ASSUME PickInv, UNCHANGED given, Stay
    PROVE  OnList' /\ TreesOK' /\ PointsOK'
<1>1. UNCHANGED <<given, cursor, filter, parsed, refused, decorated, expanded, treeCursor, focus, scroll>>
  BY DEF Stay, trees
<1>2. treeCursor \in Nat \ {0} /\ focus \in {"list", "tree"} /\ scroll \in Nat
  BY DEF PickInv, PointsOK
<1> QED
  BY <1>1, <1>2, TreeMove

LEMMA CloseWalk ==
    ASSUME PickInv, NEW dir \in {-1, 1}, NEW k \in Nat \ {0}
    PROVE  Walk(Selectable, cursor, dir, k) \in Selectable \cup {cursor}
<1>1. Given /\ TypeOK
  BY PickTypes DEF PickInv
<1>2. PICK S : S = Selectable
  OBVIOUS
<1>3. S \in SUBSET Int /\ IsFiniteSet(S) /\ cursor \in Int
  <2>1. S \in SUBSET Nat /\ IsFiniteSet(S)
    BY <1>1, <1>2, SelectableOK
  <2>2. cursor \in Nat
    BY <1>1 DEF TypeOK
  <2> QED
    BY <2>1, <2>2
<1> QED
  BY <1>2, <1>3, WalkOnTarget

LEMMA TreeWalk ==
    ASSUME PickInv, NEW dir \in {-1, 1}, NEW k \in Nat \ {0}
    PROVE  WalkTree(dir, k) \in {treeCursor} \cup (1..Cardinality(VisibleNodes))
<1>1. Given /\ TreesOK /\ treeCursor \in Int
  BY DEF PickInv, PointsOK
<1>2. PICK V : V = VisibleNodes
  OBVIOUS
<1>3. V \in SUBSET Nat /\ IsFiniteSet(V) /\ Cardinality(V) \in Nat
  BY <1>1, <1>2, VisibleOK
<1> DEFINE T == {q \in V : IsNavTarget(q)}
           f == [p \in T |-> Rank(p, V)]
           targets == {f[p] : p \in T}
<1>4. \A p \in T : f[p] \in 1..Cardinality(V)
  <2>1. ASSUME NEW p \in V PROVE Rank(p, V) \in 1..Cardinality(V)
    <3>1. p <= p
      BY <1>3
    <3>2. Rank(p, V) \in 0..Cardinality(V) /\ Rank(p, V) >= 1
      BY <1>3, <3>1, RankOK
    <3> QED
      BY <1>3, <3>2
  <2> QED
    BY <2>1
<1>5. T \in SUBSET V
  OBVIOUS
<1>6. targets = {Rank(p, V) : p \in {q \in V : IsNavTarget(q)}}
  OBVIOUS
<1>7. targets \in SUBSET (1..Cardinality(V))
  BY <1>4
<1> HIDE DEF T, f
<1>8. IsFiniteSet(T)
  BY <1>3, <1>5, FS_Subset
<1>9. IsFiniteSet(targets)
  BY <1>8, ImageFinite
<1> HIDE DEF targets
<1>10. targets \in SUBSET Int
  BY <1>3, <1>7
<1>11. Walk(targets, treeCursor, dir, k) \in targets \cup {treeCursor}
  BY <1>1, <1>9, <1>10, WalkOnTarget
<1>12. WalkTree(dir, k) \in {treeCursor, Walk(targets, treeCursor, dir, k)}
  BY <1>2, <1>6 DEF WalkTree
<1> QED
  BY <1>2, <1>7, <1>11, <1>12
-----------------------------------------------------------------------------
(* Keys of the tree *)

\* What a step of a key, a wheel or a click does to cursors and trees.
Moved == OnList' /\ TreesOK' /\ PointsOK'

\* What holds of a snapshot under the tree's cursor.
LEMMA NodeShown ==
    ASSUME PickInv, NEW p \in NodeAt(treeCursor)
    PROVE  /\ events \in SnapshotLists /\ cursor \in DOMAIN events
           /\ expanded[cursor] \in SUBSET Nat /\ expanded \in [DOMAIN events -> SUBSET Nat]
           /\ p \in Shown(cursor, expanded[cursor]) /\ p \in DOMAIN Nodes(cursor) /\ p \in Nat
<1>1. Given /\ TreesOK
  BY DEF PickInv
<1>2. /\ events \in SnapshotLists /\ cursor \in DOMAIN events
      /\ p \in Shown(cursor, expanded[cursor]) /\ p \in DOMAIN Nodes(cursor)
  BY <1>1, NodeAtOK
<1>3. expanded \in [DOMAIN events -> SUBSET Nat]
  BY <1>1 DEF TreesOK
<1>4. p \in Nat
  BY <1>2, TreeOK
<1> QED
  BY <1>2, <1>3, <1>4

\* A node that expands under the cursor leaves it on a row.
LEMMA ExpandOK ==
    ASSUME PickInv, NEW p \in NodeAt(treeCursor), Expand(p)
    PROVE  /\ expanded' \in [DOMAIN events -> SUBSET Nat]
           /\ treeCursor' \in 1..Cardinality(Shown(cursor, expanded'[cursor]))
<1>1. /\ events \in SnapshotLists /\ cursor \in DOMAIN events
      /\ expanded[cursor] \in SUBSET Nat /\ expanded \in [DOMAIN events -> SUBSET Nat]
      /\ p \in Shown(cursor, expanded[cursor]) /\ p \in Nat
  BY NodeShown
<1>2. PICK o : o = expanded[cursor] \cup {p}
  OBVIOUS
<1>3. expanded' = [expanded EXCEPT ![cursor] = o] /\ treeCursor' = FirstPaneIdxIn(cursor, p, expanded'[cursor])
  BY <1>2 DEF Expand
<1>4. o \in SUBSET Nat /\ expanded'[cursor] = o
  BY <1>1, <1>2, <1>3
<1>5. p \in Shown(cursor, o)
  BY <1>1, <1>2 DEF Shown
<1>6. FirstPaneIdxIn(cursor, p, o) \in 1..Cardinality(Shown(cursor, o))
  BY <1>1, <1>5, FirstPaneInOK
<1>7. expanded' \in [DOMAIN events -> SUBSET Nat]
  BY <1>1, <1>3, <1>4
<1> QED
  BY <1>3, <1>4, <1>6, <1>7

\* One that folds is still shown.
LEMMA CollapseOK ==
    ASSUME PickInv, NEW n \in NodeAt(treeCursor), NEW p \in {n} \cup Ancestors(cursor, n), Collapse(p)
    PROVE  /\ expanded' \in [DOMAIN events -> SUBSET Nat]
           /\ treeCursor' \in 1..Cardinality(Shown(cursor, expanded'[cursor]))
<1>1. /\ events \in SnapshotLists /\ cursor \in DOMAIN events
      /\ expanded[cursor] \in SUBSET Nat /\ expanded \in [DOMAIN events -> SUBSET Nat]
      /\ n \in Shown(cursor, expanded[cursor])
  BY NodeShown
<1>2. PICK o : o = expanded[cursor] \ {p}
  OBVIOUS
<1>3. expanded' = [expanded EXCEPT ![cursor] = o] /\ treeCursor' = Rank(p, Shown(cursor, expanded'[cursor]))
  BY <1>2 DEF Collapse
<1>4. o \in SUBSET Nat /\ expanded'[cursor] = o
  BY <1>1, <1>2, <1>3
<1>5. p \in Shown(cursor, o)
  BY <1>1, <1>2, FoldedShows
<1>6. Rank(p, Shown(cursor, o)) \in 1..Cardinality(Shown(cursor, o))
  BY <1>1, <1>5, FirstPaneInOK
<1>7. expanded' \in [DOMAIN events -> SUBSET Nat]
  BY <1>1, <1>3, <1>4
<1> QED
  BY <1>3, <1>4, <1>6, <1>7

\* The nodes the left key chooses from: those at and above the cursor.
LEMMA LeftChoice ==
    ASSUME PickInv, NEW parents,
           parents = {p \in UNION {{q} \cup Ancestors(cursor, q) : q \in NodeAt(treeCursor)} :
                        p \in expanded[cursor] /\ Children(cursor, p) # {}},
           parents # {}
    PROVE  \E n \in NodeAt(treeCursor) : Max(parents) \in {n} \cup Ancestors(cursor, n)
<1>1. \A p \in parents : \E n \in NodeAt(treeCursor) : p \in {n} \cup Ancestors(cursor, n)
  OBVIOUS
<1>2. ASSUME NEW p \in parents PROVE cursor \in DOMAIN events /\ events \in SnapshotLists /\ p \in DOMAIN Nodes(cursor)
  <2>1. PICK n \in NodeAt(treeCursor) : p \in {n} \cup Ancestors(cursor, n)
    BY <1>1, <1>2
  <2>2. /\ events \in SnapshotLists /\ cursor \in DOMAIN events
        /\ n \in Shown(cursor, expanded[cursor])
    BY NodeShown
  <2>3. p \in Shown(cursor, expanded[cursor] \ {p})
    BY <2>1, <2>2, FoldedShows
  <2> QED
    BY <2>2, <2>3 DEF Shown
<1>3. parents \in SUBSET DOMAIN Nodes(cursor)
  BY <1>2
<1>4. DOMAIN Nodes(cursor) \in SUBSET Nat /\ IsFiniteSet(DOMAIN Nodes(cursor))
  BY <1>2, TreeOK
<1>5. parents \in SUBSET Int /\ IsFiniteSet(parents)
  BY <1>3, <1>4, FS_Subset
<1>6. Max(parents) \in parents
  BY <1>5, MaxIn
<1> QED
  BY <1>1, <1>6

LEMMA RightKeyOK == PickInv /\ RightKey => Moved
<1> SUFFICES ASSUME PickInv, RightKey PROVE Moved
  OBVIOUS
<1>1. UNCHANGED given
  BY DEF RightKey, Key
<1>2. CASE Stay
  BY <1>1, <1>2, StayMove DEF Moved
<1>3. ASSUME NEW p \in NodeAt(treeCursor), Expand(p) PROVE Moved
  <2>1. /\ expanded' \in [DOMAIN events -> SUBSET Nat]
        /\ treeCursor' \in 1..Cardinality(Shown(cursor, expanded'[cursor]))
    BY <1>3, ExpandOK
  <2>2. treeCursor' \in Nat \ {0}
    <3>1. PICK o : o = expanded'[cursor]
      OBVIOUS
    <3>2. Cardinality(Shown(cursor, o)) \in Nat
      BY <1>3, NodeShown, ShownOK
    <3> QED
      BY <2>1, <3>1, <3>2
  <2>3. UNCHANGED <<cursor, focus, filter, parsed, refused, decorated, scroll>>
    BY <1>3 DEF Expand
  <2>4. focus \in {"list", "tree"} /\ scroll \in Nat
    BY DEF PickInv, PointsOK
  <2> QED
    BY <1>1, <2>1, <2>2, <2>3, <2>4, TreeMove DEF Moved
<1> QED
  BY <1>2, <1>3 DEF RightKey

LEMMA LeftKeyOK == PickInv /\ LeftKey => Moved
<1> SUFFICES ASSUME PickInv, LeftKey PROVE Moved
  OBVIOUS
<1>1. UNCHANGED given
  BY DEF LeftKey, Key
<1>2. CASE Stay
  BY <1>1, <1>2, StayMove DEF Moved
<1>3. ASSUME NEW n \in NodeAt(treeCursor), NEW p \in {n} \cup Ancestors(cursor, n), Collapse(p) PROVE Moved
  <2>1. /\ expanded' \in [DOMAIN events -> SUBSET Nat]
        /\ treeCursor' \in 1..Cardinality(Shown(cursor, expanded'[cursor]))
    BY <1>3, CollapseOK
  <2>2. treeCursor' \in Nat \ {0}
    <3>1. PICK o : o = expanded'[cursor]
      OBVIOUS
    <3>2. Cardinality(Shown(cursor, o)) \in Nat
      BY <1>3, NodeShown, ShownOK
    <3> QED
      BY <2>1, <3>1, <3>2
  <2>3. UNCHANGED <<cursor, focus, filter, parsed, refused, decorated, scroll>>
    BY <1>3 DEF Collapse
  <2>4. focus \in {"list", "tree"} /\ scroll \in Nat
    BY DEF PickInv, PointsOK
  <2> QED
    BY <1>1, <2>1, <2>2, <2>3, <2>4, TreeMove DEF Moved
<1>4. CASE ~Stay
  <2>1. PICK parents :
          parents = {p \in UNION {{q} \cup Ancestors(cursor, q) : q \in NodeAt(treeCursor)} :
                        p \in expanded[cursor] /\ Children(cursor, p) # {}}
    OBVIOUS
  <2>2. parents # {} /\ Collapse(Max(parents))
    BY <1>4, <2>1 DEF LeftKey
  <2>3. PICK n \in NodeAt(treeCursor) : Max(parents) \in {n} \cup Ancestors(cursor, n)
    BY <2>1, <2>2, LeftChoice
  <2> QED
    BY <1>3, <2>2, <2>3
<1> QED
  BY <1>2, <1>4

LEMMA TreeKeyOK == ASSUME PickInv, NEW dir \in {-1, 1}, TreeKey(dir) PROVE Moved
<1>1. UNCHANGED given
  BY DEF TreeKey, Key
<1>2. CASE Stay
  BY <1>1, <1>2, StayMove DEF Moved
<1>3. CASE ~Stay
  <2>1. PICK i : i = WalkTree(dir, 1)
    OBVIOUS
  <2>2. ToNode(i) /\ UNCHANGED focus /\ scroll' = 0
    BY <1>3, <2>1 DEF TreeKey
  <2>3. i \in {treeCursor} \cup (1..Cardinality(VisibleNodes))
    BY <2>1, TreeWalk
  <2>4. Cardinality(VisibleNodes) \in Nat /\ treeCursor \in Nat \ {0} /\ focus \in {"list", "tree"}
    BY VisibleOK DEF PickInv, PointsOK
  <2>5. i \in Nat \ {0}
    BY <2>3, <2>4
  <2>6. treeCursor' \in Nat \ {0} /\ UNCHANGED <<cursor, filter, parsed, refused, decorated, expanded>>
    BY <2>2, <2>5 DEF ToNode, trees
  <2>7. scroll' \in Nat /\ focus' \in {"list", "tree"}
    BY <2>2, <2>4
  <2> QED
    BY <1>1, <2>6, <2>7, TreeMove DEF Moved
<1> QED
  BY <1>2, <1>3

LEMMA TabKeyOK == PickInv /\ TabKey => Moved
<1> SUFFICES ASSUME PickInv, TabKey PROVE Moved
  OBVIOUS
<1>1. UNCHANGED given /\ mode = "snapshot"
  BY DEF TabKey, Key
<1>2. UNCHANGED <<cursor, filter, parsed, refused, decorated, expanded, scroll>> /\ focus' \in {"list", "tree"}
  BY DEF TabKey, trees
<1>3. treeCursor \in Nat \ {0} /\ scroll \in Nat
  BY DEF PickInv, PointsOK
<1>4. CASE cursor \in parsed
  <2>1. PICK o : o = expanded[cursor]
    OBVIOUS
  <2>2. events \in SnapshotLists /\ cursor \in DOMAIN events
    BY <1>1, <1>4 DEF PickInv, Given, TreesOK
  <2>3. FirstPaneIdx(cursor, o) \in {1} \cup (1..Cardinality(Shown(cursor, o)))
    BY <2>2, FirstPaneOK
  <2>4. Cardinality(Shown(cursor, o)) \in Nat
    BY <2>2, ShownOK
  <2>5. treeCursor' \in {treeCursor, FirstPaneIdx(cursor, o)}
    BY <1>4, <2>1 DEF TabKey
  <2>6. treeCursor' \in Nat \ {0}
    BY <1>3, <2>3, <2>4, <2>5
  <2> QED
    BY <1>1, <1>2, <1>3, <2>6, TreeMove DEF Moved
<1>5. CASE cursor \notin parsed
  <2>1. treeCursor' \in {treeCursor, 1}
    BY <1>5 DEF TabKey
  <2>2. treeCursor' \in Nat \ {0}
    BY <1>3, <2>1
  <2> QED
    BY <1>1, <1>2, <1>3, <2>2, TreeMove DEF Moved
<1> QED
  BY <1>4, <1>5
-----------------------------------------------------------------------------
(* Other moves *)

LEMMA ListKeyOK == ASSUME PickInv, NEW dir, ListKey(dir) PROVE Moved
<1>1. UNCHANGED given /\ mode = "snapshot"
  BY DEF ListKey, Key
<1>2. CASE cursor + dir \in DOMAIN events
  <2>1. ToSnapshot(cursor + dir) /\ scroll' \in Nat
    BY <1>2 DEF ListKey
  <2> QED
    BY <1>1, <1>2, <2>1, SnapshotMove DEF Moved
<1>3. CASE cursor + dir \notin DOMAIN events
  BY <1>1, <1>3, StayMove DEF ListKey, Moved
<1> QED
  BY <1>2, <1>3

LEMMA CloseKeyOK == ASSUME PickInv, NEW dir \in {-1, 1}, CloseKey(dir) PROVE Moved
<1>1. UNCHANGED given /\ mode = "close"
  BY DEF CloseKey, Key
<1>2. CASE Stay
  BY <1>1, <1>2, StayMove DEF Moved
<1>3. CASE ~Stay
  <2>1. PICK i : i = Walk(Selectable, cursor, dir, 1)
    OBVIOUS
  <2>2. i \in Selectable \cup {cursor}
    BY <2>1, CloseWalk
  <2>3. ToClose(i) /\ scroll' \in Nat
    BY <1>3, <2>1 DEF CloseKey
  <2> QED
    BY <1>1, <2>2, <2>3, CloseMove DEF Moved
<1> QED
  BY <1>2, <1>3

LEMMA WheelInList ==
    ASSUME PickInv, NEW dir \in {-1, 1}, Len(events) > 0
    PROVE  Clamp(cursor + dir * WheelRows) \in DOMAIN events
<1>1. DOMAIN events = 1..Len(events) /\ Len(events) \in Nat
  BY ListedOK DEF PickInv, Given
<1>2. cursor \in Nat
  BY PickTypes DEF TypeOK
<1>3. cursor + dir * WheelRows \in Int
  BY <1>2, PickerAssumption
<1> QED
  BY <1>1, <1>3, ClampInList

LEMMA WheelListOK == ASSUME PickInv, NEW dir \in {-1, 1}, WheelList(dir) PROVE Moved
<1>1. UNCHANGED given /\ scroll' \in Nat
  BY DEF WheelList, Mouse
<1>2. ASSUME mode = "close", ToClose(Walk(Selectable, cursor, dir, WheelRows)) PROVE Moved
  <2>1. Walk(Selectable, cursor, dir, WheelRows) \in Selectable \cup {cursor}
    BY PickerAssumption, CloseWalk
  <2> QED
    BY <1>1, <1>2, <2>1, CloseMove DEF Moved
<1>3. ASSUME mode = "snapshot", Len(events) > 0, ToSnapshot(Clamp(cursor + dir * WheelRows)) PROVE Moved
  BY <1>1, <1>3, WheelInList, SnapshotMove DEF Moved
<1> QED
  BY <1>2, <1>3 DEF WheelList

LEMMA WheelTreeOK == ASSUME PickInv, NEW dir \in {-1, 1}, WheelTree(dir) PROVE Moved
<1>1. UNCHANGED given /\ scroll' \in Nat /\ focus' = "tree" /\ ToNode(WalkTree(dir, WheelRows))
  BY DEF WheelTree, Mouse
<1>2. WalkTree(dir, WheelRows) \in {treeCursor} \cup (1..Cardinality(VisibleNodes))
  BY PickerAssumption, TreeWalk
<1>3. Cardinality(VisibleNodes) \in Nat /\ treeCursor \in Nat \ {0}
  BY VisibleOK DEF PickInv, PointsOK
<1>4. treeCursor' \in Nat \ {0} /\ UNCHANGED <<cursor, filter, parsed, refused, decorated, expanded>>
  BY <1>1, <1>2, <1>3 DEF ToNode, trees
<1> QED
  BY <1>1, <1>4, TreeMove DEF Moved

\* A click goes to an entry of the list, to a close, or to a row of the tree.
LEMMA ClickedOK ==
    ASSUME PickInv, NEW column, NEW y, NEW i \in Clicked(column, y)
    PROVE  /\ column = "list" /\ mode = "close" => i \in Selectable
           /\ column = "list" /\ mode = "snapshot" => i \in DOMAIN events
           /\ column = "tree" => i \in 1..Cardinality(VisibleNodes)
<1>1. CASE column = "list" /\ mode = "close"
  BY <1>1 DEF Clicked, ZoneAt, ClickedClose
<1>2. CASE column = "list" /\ mode = "snapshot"
  BY <1>2 DEF Clicked, ZoneAt, ClickedSnapshot
<1>3. CASE column = "tree"
  <2>1. PICK row : i \in ClickedNode(row)
    BY <1>3 DEF Clicked, ZoneAt
  <2>2. PICK p : p \in NodeAt(i)
    BY <2>1 DEF ClickedNode
  <2>3. Given /\ TreesOK
    BY DEF PickInv
  <2>4. i \in 1..Cardinality(VisibleNodes)
    BY <2>2, <2>3, NodeAtOK
  <2> QED
    BY <1>3, <2>4
<1> QED
  BY <1>1, <1>2, <1>3

LEMMA ClickOK == ASSUME PickInv, NEW column, NEW y, Click(column, y) PROVE Moved
<1>1. UNCHANGED given /\ scroll' \in Nat
  BY DEF Click, Mouse
<1>2. PICK i \in Clicked(column, y) :
        \/ column = "list" /\ mode = "close" /\ ToClose(i)
        \/ column = "list" /\ mode = "snapshot" /\ ToSnapshot(i)
        \/ column = "tree" /\ ToNode(i) /\ focus' = "tree"
  BY DEF Click
<1>3. CASE column = "list" /\ mode = "close" /\ ToClose(i)
  BY <1>1, <1>3, ClickedOK, CloseMove DEF Moved
<1>4. CASE column = "list" /\ mode = "snapshot" /\ ToSnapshot(i)
  BY <1>1, <1>4, ClickedOK, SnapshotMove DEF Moved
<1>5. CASE column = "tree" /\ ToNode(i) /\ focus' = "tree"
  <2>1. i \in 1..Cardinality(VisibleNodes)
    BY <1>5, ClickedOK
  <2>2. Cardinality(VisibleNodes) \in Nat
    BY VisibleOK DEF PickInv
  <2>3. i \in Nat \ {0}
    BY <2>1, <2>2
  <2>4. treeCursor' \in Nat \ {0} /\ UNCHANGED <<cursor, filter, parsed, refused, decorated, expanded>>
    BY <1>5, <2>3 DEF ToNode, trees
  <2> QED
    BY <1>1, <1>5, <2>4, TreeMove DEF Moved
<1> QED
  BY <1>2, <1>3, <1>4, <1>5

\* The preview's keys and wheel leave all but the offset alone.
LEMMA PreviewMoveOK ==
    ASSUME PickInv, NEW dir, PreviewKey(dir) \/ WheelPreview(dir)
    PROVE  Moved
<1>1. UNCHANGED <<given, cursor, treeCursor, focus, filter, parsed, refused, expanded, decorated>>
  BY DEF PreviewKey, WheelPreview, Key, Mouse, trees
<1>2. treeCursor \in Nat \ {0} /\ focus \in {"list", "tree"} /\ scroll \in Nat
  BY DEF PickInv, PointsOK
<1>3. PICK m \in Nat : m = PreviewMaxScroll
  BY MaxScrollOK DEF PickInv
<1>4. scroll' \in Nat
  <2>1. CASE PreviewKey(dir)
    BY <1>2, <2>1 DEF PreviewKey
  <2>2. CASE WheelPreview(dir)
    <3>1. WheelRows \in Nat
      BY PickerAssumption
    <3>2. scroll' = IF dir = 1 THEN Min({scroll + WheelRows, m}) ELSE Max({0, scroll - WheelRows})
      BY <1>3, <2>2 DEF WheelPreview
    <3>3. Min({scroll + WheelRows, m}) \in Nat
      BY <1>2, <1>3, <3>1, MinOfTwo
    <3>4. Max({0, scroll - WheelRows}) \in Nat
      BY <1>2, <3>1, MaxOfTwo
    <3> QED
      BY <3>2, <3>3, <3>4
  <2> QED
    BY <2>1, <2>2
<1> QED
  BY <1>1, <1>2, <1>4, TreeMove DEF Moved

LEMMA ToggleOK == ASSUME PickInv, NEW option \in {"idle", "running"}, ToggleKey(option) PROVE Moved
<1>1. UNCHANGED given /\ mode = "snapshot"
  BY DEF ToggleKey, Key
<1>2. UNCHANGED <<cursor, treeCursor, focus, parsed, refused, scroll>>
  BY DEF ToggleKey
<1>3. Given /\ OnList /\ TreesOK /\ PointsOK /\ events \in SnapshotLists
  BY <1>1 DEF PickInv, Given
<1>4. filter' \in Filters
  BY <1>3 DEF ToggleKey, PointsOK, Filters
<1>5. OnList'
  BY <1>1, <1>2, <1>3 DEF OnList, given, Selectable
<1>6. \A e \in DOMAIN events : Decorate(e, expanded[e], decorated[e], filter') \in SUBSET Nat
  BY <1>3, DecorateNumbers DEF TreesOK
<1>7. expanded' \in [DOMAIN events -> SUBSET Nat] /\ decorated' \in [DOMAIN events -> Filters]
  BY <1>3, <1>4, <1>6 DEF ToggleKey, Redecorate, TreesOK
<1>8. TreesOK'
  BY <1>1, <1>2, <1>3, <1>7 DEF TreesOK, given
<1>9. PointsOK'
  BY <1>2, <1>3, <1>4 DEF PointsOK
<1> QED
  BY <1>5, <1>8, <1>9 DEF Moved

\* The tree a frame draws was decorated with the filter in force.
LEMMA FrameStays ==
    ASSUME PickInv, Frame
    PROVE  UNCHANGED vars
<1>1. cursor \in parsed /\ decorated[cursor] = filter /\ cursor \in DOMAIN events
  BY DEF PickInv, EnterInv, Frame
<1>2. Decorate(cursor, expanded[cursor], filter, filter) = expanded[cursor]
  BY DEF Decorate
<1>3. expanded \in [DOMAIN events -> SUBSET Nat] /\ decorated \in [DOMAIN events -> Filters]
  BY DEF PickInv, TreesOK
<1>4. expanded' = expanded /\ decorated' = decorated
  BY <1>1, <1>2, <1>3 DEF Frame
<1> QED
  BY <1>4 DEF Frame, vars, trees
-----------------------------------------------------------------------------
(* Every step keeps the invariant *)

\* Steps that move and ask for what is then on show.
LEMMA MovesOK ==
    ASSUME PickInv, EnterInv', Moved,
           \/ RightKey \/ LeftKey \/ TabKey
           \/ \E option \in {"idle", "running"} : ToggleKey(option)
           \/ \E dir \in {-1, 1} :
                \/ ListKey(dir) \/ CloseKey(dir) \/ TreeKey(dir) \/ PreviewKey(dir)
                \/ WheelList(dir) \/ WheelTree(dir) \/ WheelPreview(dir)
           \/ \E column, y : Click(column, y)
    PROVE  PickInv'
<1>1. UNCHANGED <<given, screen, selected, open, cache>> /\ note' \in {note, ""}
  <2>1. Key \/ Mouse
    BY DEF RightKey, LeftKey, TabKey, ToggleKey, ListKey, CloseKey, TreeKey, PreviewKey,
           WheelList, WheelTree, WheelPreview, Click
  <2> QED
    BY <2>1 DEF Key, Mouse, outcome
<1>2. PreviewCmd \/ UNCHANGED loading
  BY DEF RightKey, LeftKey, TabKey, ToggleKey, ListKey, CloseKey, TreeKey, PreviewKey,
         WheelList, WheelTree, WheelPreview, Click
<1> QED
  BY <1>1, <1>2, MoveOK DEF Moved

\* Steps that move nothing.
LEMMA RestsOK ==
    ASSUME PickInv, EnterInv', UNCHANGED <<given, cursor, treeCursor, focus, filter, trees, scroll>>,
           ReadsOK', EndOK'
    PROVE  PickInv'
<1>1. Given' /\ Selectable' = Selectable
  BY GivenStays DEF PickInv, given, Selectable
<1>2. OnList'
  BY <1>1 DEF PickInv, OnList, given
<1>3. TreesOK'
  BY DEF PickInv, TreesOK, given, trees
<1>4. PointsOK'
  BY DEF PickInv, PointsOK
<1> QED
  BY <1>1, <1>2, <1>3, <1>4 DEF PickInv

LEMMA EnterKeyOK == PickInv /\ EnterKey => EndOK'
<1> SUFFICES ASSUME PickInv, EnterKey PROVE EndOK'
  OBVIOUS
<1>1. UNCHANGED <<given, screen>> /\ EndOK /\ Given
  BY DEF EnterKey, PickInv
<1>2. \/ \E e \in {0} \cup DOMAIN events : Finish(e)
      \/ \E text \in {"", "invalid manifest", "manifest not loaded yet"} : Warn(text)
  BY <1>1 DEF EnterKey, Given
<1> QED
  BY <1>1, <1>2 DEF EndOK, Finish, Warn, given

LEMMA NextPick == PickInv /\ [Next]_vars => PickInv'
<1> SUFFICES ASSUME PickInv, [Next]_vars PROVE PickInv'
  OBVIOUS
<1>1. EnterInv'
  BY NextEnter DEF PickInv
<1>2. ReadsOK /\ EndOK
  BY DEF PickInv
<1>3. CASE Resize
  <2>1. ReadsOK' /\ EndOK'
    BY <1>2, <1>3 DEF Resize, ReadsOK, EndOK, cache, outcome, given
  <2> QED
    BY <1>1, <1>3, <2>1, RestsOK DEF Resize
<1>4. CASE UNCHANGED vars
  <2>1. ReadsOK' /\ EndOK'
    BY <1>2, <1>4 DEF vars, ReadsOK, EndOK, cache, outcome, given
  <2> QED
    BY <1>1, <1>4, <2>1, RestsOK DEF vars
<1>5. CASE Frame
  BY <1>4, <1>5, FrameStays
<1>6. ASSUME NEW s \in loading, ScrollbackLoaded(s) PROVE PickInv'
  <2>1. ReadsOK' /\ EndOK'
    BY <1>2, <1>6 DEF ScrollbackLoaded, ReadsOK, EndOK, outcome, given
  <2> QED
    BY <1>1, <1>6, <2>1, RestsOK DEF ScrollbackLoaded
<1>7. CASE EnterKey
  <2>1. ReadsOK' /\ EndOK'
    BY <1>2, <1>7, EnterKeyOK DEF EnterKey, ReadsOK, cache
  <2> QED
    BY <1>1, <1>7, <2>1, RestsOK DEF EnterKey
<1>8. CASE QuitKey
  <2>1. ReadsOK' /\ EndOK'
    BY <1>2, <1>8 DEF QuitKey, ReadsOK, EndOK, cache, given
  <2> QED
    BY <1>1, <1>8, <2>1, RestsOK DEF QuitKey
<1>9. CASE RightKey
  BY <1>1, <1>9, RightKeyOK, MovesOK
<1>10. CASE LeftKey
  BY <1>1, <1>10, LeftKeyOK, MovesOK
<1>11. CASE TabKey
  BY <1>1, <1>11, TabKeyOK, MovesOK
<1>12. ASSUME NEW option \in {"idle", "running"}, ToggleKey(option) PROVE PickInv'
  BY <1>1, <1>12, ToggleOK, MovesOK
<1>13. ASSUME NEW dir \in {-1, 1}, ListKey(dir) PROVE PickInv'
  BY <1>1, <1>13, ListKeyOK, MovesOK
<1>14. ASSUME NEW dir \in {-1, 1}, CloseKey(dir) PROVE PickInv'
  BY <1>1, <1>14, CloseKeyOK, MovesOK
<1>15. ASSUME NEW dir \in {-1, 1}, TreeKey(dir) PROVE PickInv'
  BY <1>1, <1>15, TreeKeyOK, MovesOK
<1>16. ASSUME NEW dir \in {-1, 1}, PreviewKey(dir) \/ WheelPreview(dir) PROVE PickInv'
  BY <1>1, <1>16, PreviewMoveOK, MovesOK
<1>17. ASSUME NEW dir \in {-1, 1}, WheelList(dir) PROVE PickInv'
  BY <1>1, <1>17, WheelListOK, MovesOK
<1>18. ASSUME NEW dir \in {-1, 1}, WheelTree(dir) PROVE PickInv'
  BY <1>1, <1>18, WheelTreeOK, MovesOK
<1>19. ASSUME NEW column, NEW y, Click(column, y) PROVE PickInv'
  BY <1>1, <1>19, ClickOK, MovesOK
<1> QED
  BY <1>3, <1>4, <1>5, <1>6, <1>7, <1>8, <1>9, <1>10, <1>11, <1>12, <1>13, <1>14, <1>15, <1>16,
     <1>17, <1>18, <1>19 DEF Next

\* The types.
THEOREM TypeCorrect == Spec => []TypeOK
<1>1. PickInv /\ [Next]_vars => PickInv'
  BY NextPick
<1> QED
  BY InitPick, <1>1, PickTypes, PTL DEF Spec
-----------------------------------------------------------------------------
(* What unsettles the picker *)

TreeInReach == mode = "snapshot" => treeCursor \in {1} \cup (1..Cardinality(VisibleNodes))
Asked == Pending = {}

\* The close list's cursor is never lost: what can come unsettled is the tree
\* and the preview.
LEMMA SettledIs == PickInv => (Settled <=> TreeInReach /\ Asked)
<1> SUFFICES ASSUME PickInv PROVE Settled <=> TreeInReach /\ Asked
  OBVIOUS
<1>1. PICK n : n = Cardinality(VisibleNodes)
  OBVIOUS
<1>2. n \in Nat /\ treeCursor \in Nat \ {0}
  BY <1>1, VisibleOK DEF PickInv, PointsOK
<1>3. Max({1, n}) = IF 1 >= n THEN 1 ELSE n
  BY <1>2, MaxOfTwo
<1>4. treeCursor <= Max({1, n}) <=> treeCursor \in {1} \cup (1..n)
  BY <1>2, <1>3
<1>5. mode = "close" /\ Selectable # {} => cursor \in Selectable
  BY DEF PickInv, OnList
<1>6. TreeInReach <=> (mode = "snapshot" => treeCursor <= Max({1, Cardinality(VisibleNodes)}))
  BY <1>1, <1>4 DEF TreeInReach
<1> QED
  BY <1>5, <1>6 DEF Settled, Asked

LEMMA SettledNext == PickInv' => (Settled' <=> TreeInReach' /\ Asked')
BY SettledIs, PTL

LEMMA InitSettled == Init => Settled
<1> SUFFICES ASSUME Init PROVE Settled
  OBVIOUS
<1>1. PickInv
  BY InitPick
<1>2. TreeInReach
  BY DEF Init, TreeInReach
<1>3. Asked
  BY DEF Init, Asked, Pending
<1> QED
  BY <1>1, <1>2, <1>3, SettledIs

LEMMA VisibleNext ==
    ASSUME UNCHANGED given
    PROVE  VisibleNodes' = IF mode = "snapshot" /\ cursor' \in parsed'
                           THEN Shown(cursor', expanded'[cursor']) ELSE {}
BY DEF VisibleNodes, Shown, Nodes, Ancestors, Parent, given

\* What is on show depends on these alone.
LEMMA SameView ==
    ASSUME UNCHANGED <<given, cursor, treeCursor, focus, trees>>
    PROVE  PreviewSHAs' = PreviewSHAs /\ VisibleNodes' = VisibleNodes /\ (TreeInReach' <=> TreeInReach)
<1>1. VisibleNodes' = VisibleNodes
  BY VisibleNext DEF given, trees, VisibleNodes
<1>2. NodeAt(treeCursor)' = NodeAt(treeCursor)
  BY <1>1 DEF NodeAt, Rank
<1>3. PreviewSHA' = PreviewSHA
  BY <1>2 DEF PreviewSHA, Nodes, Kind, given
<1>4. ClosePanes' = ClosePanes
  BY DEF ClosePanes, CurrentClose, given
<1> QED
  BY <1>1, <1>3, <1>4 DEF PreviewSHAs, TreeInReach, given

LEMMA AskedThen == PreviewCmd /\ UNCHANGED cache => Asked'
BY DEF PreviewCmd, cache, Asked, Pending

LEMMA StillAsked ==
    ASSUME Settled, PreviewSHAs' = PreviewSHAs,
           loaded \cup broken \cup loading \subseteq loaded' \cup broken' \cup loading'
    PROVE  Asked'
BY DEF Settled, Asked, Pending

\* A step that leaves alone where the cursors are.
LEMMA RestsSettled ==
    ASSUME PickInv, Settled, UNCHANGED <<given, cursor, treeCursor, focus, trees>>,
           loaded \cup broken \cup loading \subseteq loaded' \cup broken' \cup loading'
    PROVE  TreeInReach' /\ Asked'
<1>1. PreviewSHAs' = PreviewSHAs /\ (TreeInReach' <=> TreeInReach)
  BY SameView
<1> QED
  BY <1>1, StillAsked, SettledIs

LEMMA SnapshotReach ==
    ASSUME PickInv, mode = "snapshot", NEW e \in DOMAIN events, ToSnapshot(e), UNCHANGED given
    PROVE  TreeInReach'
<1>1. events \in SnapshotLists /\ cursor' = e
  BY DEF PickInv, Given, ToSnapshot
<1>2. VisibleNodes' = IF e \in parsed' THEN Shown(e, expanded'[e]) ELSE {}
  BY <1>1, VisibleNext
<1>3. CASE e \in parsed'
  <2>1. PICK o : o = expanded'[e]
    OBVIOUS
  <2>2. FirstPaneIdx(e, o) \in {1} \cup (1..Cardinality(Shown(e, o)))
    BY <1>1, FirstPaneOK
  <2>3. treeCursor' = FirstPaneIdx(e, o) /\ VisibleNodes' = Shown(e, o)
    BY <1>2, <1>3, <2>1 DEF ToSnapshot
  <2> QED
    BY <2>2, <2>3 DEF TreeInReach
<1>4. CASE e \notin parsed'
  BY <1>4 DEF ToSnapshot, TreeInReach
<1> QED
  BY <1>3, <1>4

LEMMA CloseReach == mode = "close" /\ UNCHANGED given => TreeInReach'
BY DEF TreeInReach, given

LEMMA StayReach == PickInv /\ Settled /\ UNCHANGED given /\ Stay => TreeInReach'
<1> SUFFICES ASSUME PickInv, Settled, UNCHANGED given, Stay PROVE TreeInReach'
  OBVIOUS
<1>1. UNCHANGED <<given, cursor, treeCursor, focus, trees>>
  BY DEF Stay
<1> QED
  BY <1>1, SameView, SettledIs

LEMMA NodeReach ==
    ASSUME PickInv, Settled, UNCHANGED given, NEW i, ToNode(i),
           i \in {treeCursor} \cup (1..Cardinality(VisibleNodes))
    PROVE  TreeInReach'
<1>1. TreeInReach
  BY SettledIs
<1>2. UNCHANGED <<cursor, parsed, expanded, mode, events>> /\ treeCursor' = i
  BY DEF ToNode, trees, given
<1>3. VisibleNodes' = VisibleNodes
  BY <1>2, VisibleNext DEF VisibleNodes
<1> QED
  BY <1>1, <1>2, <1>3 DEF TreeInReach

LEMMA FoldReach ==
    ASSUME PickInv, UNCHANGED <<given, cursor, parsed>>, mode = "snapshot", cursor \in parsed,
           treeCursor' \in 1..Cardinality(Shown(cursor, expanded'[cursor]))
    PROVE  TreeInReach'
<1>1. VisibleNodes' = Shown(cursor, expanded'[cursor])
  BY VisibleNext
<1> QED
  BY <1>1 DEF TreeInReach

LEMMA RightReach == PickInv /\ Settled /\ RightKey => TreeInReach'
<1> SUFFICES ASSUME PickInv, Settled, RightKey PROVE TreeInReach'
  OBVIOUS
<1>1. UNCHANGED given
  BY DEF RightKey, Key
<1>2. CASE Stay
  BY <1>1, <1>2, StayReach
<1>3. ASSUME NEW p \in NodeAt(treeCursor), Expand(p) PROVE TreeInReach'
  <2>1. mode = "snapshot" /\ cursor \in parsed
    BY NodeAtOK DEF PickInv
  <2> QED
    BY <1>1, <1>3, <2>1, ExpandOK, FoldReach DEF Expand
<1> QED
  BY <1>2, <1>3 DEF RightKey

LEMMA LeftReach == PickInv /\ Settled /\ LeftKey => TreeInReach'
<1> SUFFICES ASSUME PickInv, Settled, LeftKey PROVE TreeInReach'
  OBVIOUS
<1>1. UNCHANGED given
  BY DEF LeftKey, Key
<1>2. CASE Stay
  BY <1>1, <1>2, StayReach
<1>3. CASE ~Stay
  <2>1. PICK parents :
          parents = {p \in UNION {{q} \cup Ancestors(cursor, q) : q \in NodeAt(treeCursor)} :
                        p \in expanded[cursor] /\ Children(cursor, p) # {}}
    OBVIOUS
  <2>2. parents # {} /\ Collapse(Max(parents))
    BY <1>3, <2>1 DEF LeftKey
  <2>3. PICK n \in NodeAt(treeCursor) : Max(parents) \in {n} \cup Ancestors(cursor, n)
    BY <2>1, <2>2, LeftChoice
  <2>4. mode = "snapshot" /\ cursor \in parsed
    BY <2>3, NodeAtOK DEF PickInv
  <2>5. treeCursor' \in 1..Cardinality(Shown(cursor, expanded'[cursor]))
    BY <2>2, <2>3, CollapseOK
  <2>6. UNCHANGED <<cursor, parsed>>
    BY <2>2 DEF Collapse
  <2> QED
    BY <1>1, <2>4, <2>5, <2>6, FoldReach
<1> QED
  BY <1>2, <1>3

LEMMA TabReach == PickInv /\ Settled /\ TabKey => TreeInReach'
<1> SUFFICES ASSUME PickInv, Settled, TabKey PROVE TreeInReach'
  OBVIOUS
<1>1. UNCHANGED <<given, cursor, parsed, expanded>> /\ mode = "snapshot"
  BY DEF TabKey, Key, trees
<1>2. TreeInReach
  BY SettledIs
<1>3. VisibleNodes' = VisibleNodes
  BY <1>1, VisibleNext DEF VisibleNodes
<1>4. CASE treeCursor' \in {treeCursor, 1}
  BY <1>1, <1>2, <1>3, <1>4 DEF TreeInReach, given
<1>5. CASE cursor \in parsed /\ treeCursor' = FirstPaneIdx(cursor, expanded[cursor])
  <2>1. events \in SnapshotLists /\ cursor \in DOMAIN events
    BY <1>1, <1>5 DEF PickInv, Given, TreesOK
  <2>2. VisibleNodes = Shown(cursor, expanded[cursor])
    BY <1>1, <1>5 DEF VisibleNodes
  <2> QED
    BY <1>3, <1>5, <2>1, <2>2, FirstPaneOK DEF TreeInReach
<1> QED
  BY <1>4, <1>5 DEF TabKey

LEMMA ListReach ==
    ASSUME PickInv, Settled, NEW dir \in {-1, 1},
           ListKey(dir) \/ CloseKey(dir) \/ WheelList(dir)
    PROVE  TreeInReach'
<1>1. UNCHANGED given
  BY DEF ListKey, CloseKey, WheelList, Key, Mouse
<1>2. CASE mode = "close"
  BY <1>1, <1>2, CloseReach
<1>3. CASE mode = "snapshot" /\ ListKey(dir)
  <2>1. CASE cursor + dir \in DOMAIN events
    BY <1>1, <1>3, <2>1, SnapshotReach DEF ListKey
  <2>2. CASE cursor + dir \notin DOMAIN events
    BY <1>1, <1>3, <2>2, StayReach DEF ListKey
  <2> QED
    BY <2>1, <2>2
<1>4. CASE mode = "snapshot" /\ WheelList(dir)
  <2>1. Len(events) > 0 /\ ToSnapshot(Clamp(cursor + dir * WheelRows))
    BY <1>4 DEF WheelList
  <2>2. Clamp(cursor + dir * WheelRows) \in DOMAIN events
    BY <2>1, WheelInList
  <2> QED
    BY <1>1, <1>4, <2>1, <2>2, SnapshotReach
<1> QED
  BY <1>2, <1>3, <1>4 DEF PickInv, Given, CloseKey

LEMMA NodesReach ==
    ASSUME PickInv, Settled, NEW dir \in {-1, 1}, TreeKey(dir) \/ WheelTree(dir)
    PROVE  TreeInReach'
<1>1. UNCHANGED given
  BY DEF TreeKey, WheelTree, Key, Mouse
<1>2. CASE Stay
  BY <1>1, <1>2, StayReach
<1>3. CASE \E k \in {1, WheelRows} : ToNode(WalkTree(dir, k))
  <2>1. PICK k \in {1, WheelRows} : ToNode(WalkTree(dir, k))
    BY <1>3
  <2>2. k \in Nat \ {0}
    BY PickerAssumption
  <2>3. WalkTree(dir, k) \in {treeCursor} \cup (1..Cardinality(VisibleNodes))
    BY <2>2, TreeWalk
  <2> QED
    BY <1>1, <2>1, <2>3, NodeReach
<1> QED
  BY <1>2, <1>3 DEF TreeKey, WheelTree

LEMMA ClickReach ==
    ASSUME PickInv, Settled, NEW column, NEW y, Click(column, y)
    PROVE  TreeInReach'
<1>1. UNCHANGED given
  BY DEF Click, Mouse
<1>2. PICK i \in Clicked(column, y) :
        \/ column = "list" /\ mode = "close" /\ ToClose(i)
        \/ column = "list" /\ mode = "snapshot" /\ ToSnapshot(i)
        \/ column = "tree" /\ ToNode(i) /\ focus' = "tree"
  BY DEF Click
<1>3. CASE mode = "close"
  BY <1>1, <1>3, CloseReach
<1>4. CASE column = "list" /\ mode = "snapshot" /\ ToSnapshot(i)
  BY <1>1, <1>4, ClickedOK, SnapshotReach
<1>5. CASE column = "tree" /\ ToNode(i)
  <2>1. i \in 1..Cardinality(VisibleNodes)
    BY <1>5, ClickedOK
  <2> QED
    BY <1>1, <1>5, <2>1, NodeReach
<1> QED
  BY <1>2, <1>3, <1>4, <1>5

LEMMA NextSettled ==
    ASSUME PickInv, PickInv', [Next]_vars, Settled, filter' = filter
    PROVE  Settled'
<1> SUFFICES TreeInReach' /\ Asked'
  BY SettledNext
<1>1. CASE Resize \/ EnterKey \/ QuitKey \/ UNCHANGED vars
  <2>1. UNCHANGED <<given, cursor, treeCursor, focus, trees, cache, loading>>
    BY <1>1 DEF Resize, EnterKey, QuitKey, vars
  <2> QED
    BY <2>1, RestsSettled DEF cache
<1>2. CASE Frame
  <2>1. UNCHANGED <<given, cursor, treeCursor, focus, trees, cache, loading>>
    BY <1>2, FrameStays DEF vars
  <2> QED
    BY <2>1, RestsSettled DEF cache
<1>3. ASSUME NEW s \in loading, ScrollbackLoaded(s) PROVE TreeInReach' /\ Asked'
  <2>1. UNCHANGED <<given, cursor, treeCursor, focus, trees>>
    BY <1>3 DEF ScrollbackLoaded
  <2>2. loaded \cup broken \cup loading \subseteq loaded' \cup broken' \cup loading'
    BY <1>3 DEF ScrollbackLoaded
  <2> QED
    BY <2>1, <2>2, RestsSettled
<1>4. ASSUME NEW option \in {"idle", "running"}, ToggleKey(option) PROVE FALSE
  <2>1. filter \in Filters
    BY DEF PickInv, PointsOK
  <2>2. filter[option] \in BOOLEAN /\ filter'[option] = ~filter[option]
    BY <1>4, <2>1 DEF Filters, ToggleKey
  <2> QED
    BY <2>2
<1>5. ASSUME NEW dir \in {-1, 1}, PreviewKey(dir) \/ WheelPreview(dir) PROVE TreeInReach' /\ Asked'
  <2>1. UNCHANGED <<given, cursor, treeCursor, focus, trees, cache, loading>>
    BY <1>5 DEF PreviewKey, WheelPreview, Key, Mouse
  <2> QED
    BY <2>1, RestsSettled DEF cache
<1>6. CASE RightKey
  BY <1>6, RightReach, AskedThen DEF RightKey, Key
<1>7. CASE LeftKey
  BY <1>7, LeftReach, AskedThen DEF LeftKey, Key
<1>8. CASE TabKey
  BY <1>8, TabReach, AskedThen DEF TabKey, Key
<1>9. ASSUME NEW dir \in {-1, 1}, ListKey(dir) \/ CloseKey(dir) \/ WheelList(dir)
      PROVE  TreeInReach' /\ Asked'
  BY <1>9, ListReach, AskedThen DEF ListKey, CloseKey, WheelList, Key, Mouse
<1>10. ASSUME NEW dir \in {-1, 1}, TreeKey(dir) \/ WheelTree(dir) PROVE TreeInReach' /\ Asked'
  BY <1>10, NodesReach, AskedThen DEF TreeKey, WheelTree, Key, Mouse
<1>11. ASSUME NEW column, NEW y, Click(column, y) PROVE TreeInReach' /\ Asked'
  BY <1>11, ClickReach, AskedThen DEF Click, Mouse
<1> QED
  BY <1>1, <1>2, <1>3, <1>4, <1>5, <1>6, <1>7, <1>8, <1>9, <1>10, <1>11 DEF Next

THEOREM OnlyTogglesUnsettleCorrect == Spec => OnlyTogglesUnsettle
<1>1. PickInv /\ [Next]_vars => PickInv'
  BY NextPick
<1>2. PickInv /\ PickInv' /\ [Next]_vars => [Settled /\ ~Settled' => filter' # filter]_vars
  BY NextSettled
<1> QED
  BY InitPick, InitSettled, <1>1, <1>2, PTL DEF Spec, OnlyTogglesUnsettle
-----------------------------------------------------------------------------
(* The offset of a close *)

MaxIsNat == PreviewMaxScroll \in Nat
MaxIsCloses == mode = "close" =>
    PreviewMaxScroll = CloseMax(ClosePanes, loaded, PreviewInner(screen) - CloseHeaderLines)

LEMMA MaxNow == PickInv => MaxIsNat /\ MaxIsCloses
BY MaxScrollOK, CloseMaxIs DEF MaxIsNat, MaxIsCloses, PickInv

LEMMA MaxNext == PickInv' => MaxIsNat' /\ MaxIsCloses'
BY MaxNow, PTL

LEMMA ClosePanesStay == UNCHANGED <<given, cursor>> => ClosePanes' = ClosePanes
BY DEF ClosePanes, CurrentClose, given

\* A screen that arrives takes no offset away; nothing else changes the blocks.
LEMMA MaxGrows ==
    ASSUME PickInv, PickInv', mode = "close", UNCHANGED <<given, cursor, screen>>, loaded \subseteq loaded'
    PROVE  PreviewMaxScroll <= PreviewMaxScroll'
<1>1. PICK panes : panes = ClosePanes
  OBVIOUS
<1>2. PICK room : room = PreviewInner(screen) - CloseHeaderLines
  OBVIOUS
<1>3. room \in Int
  <2>1. PreviewInner(screen) \in Nat
    BY LayoutOK, PickerAssumption DEF PickInv, EndOK
  <2> QED
    BY <1>2, <2>1 DEF CloseHeaderLines
<1>4. Listed(panes) /\ loaded \in SUBSET Shas /\ loaded' \in SUBSET Shas
  BY <1>1, ClosePanesOK DEF PickInv, ReadsOK
<1>5. CloseMax(panes, loaded, room) <= CloseMax(panes, loaded', room)
  BY <1>3, <1>4, CloseMaxGrows
<1>6. PreviewMaxScroll = CloseMax(panes, loaded, room)
  BY <1>1, <1>2, MaxNow DEF MaxIsCloses
<1>7. mode' = "close" /\ ClosePanes' = panes /\ PreviewInner(screen') - CloseHeaderLines = room
  BY <1>1, <1>2, ClosePanesStay DEF given
<1>8. PreviewMaxScroll' = CloseMax(panes, loaded', room)
  BY <1>7, MaxNext DEF MaxIsCloses
<1> QED
  BY <1>5, <1>6, <1>8

LEMMA NextOffset ==
    ASSUME PickInv, PickInv', [Next]_vars, mode = "close", scroll <= PreviewMaxScroll, screen' = screen
    PROVE  scroll' <= PreviewMaxScroll'
<1>1. PICK m \in Nat : m = PreviewMaxScroll
  BY MaxNow DEF MaxIsNat
<1>2. PICK n \in Nat : n = PreviewMaxScroll'
  BY MaxNext DEF MaxIsNat
<1>3. scroll \in Nat /\ scroll' \in Nat /\ scroll <= m
  BY <1>1 DEF PickInv, PointsOK
<1> SUFFICES scroll' <= n
  BY <1>2
<1>4. ASSUME UNCHANGED <<given, cursor>>, loaded \subseteq loaded' PROVE m <= n
  BY <1>1, <1>2, <1>4, MaxGrows
<1>5. CASE scroll' = 0
  BY <1>2, <1>5
<1>6. ASSUME UNCHANGED <<given, cursor>>, loaded \subseteq loaded', scroll' <= m PROVE scroll' <= n
  BY <1>1, <1>2, <1>3, <1>4, <1>6
<1>7. CASE Resize \/ EnterKey \/ QuitKey \/ UNCHANGED vars
  BY <1>3, <1>6, <1>7 DEF Resize, EnterKey, QuitKey, vars, cache
<1>8. CASE Frame \/ RightKey \/ LeftKey \/ TabKey
  BY <1>8 DEF Frame, RightKey, LeftKey, TabKey
<1>9. ASSUME NEW s \in loading, ScrollbackLoaded(s) PROVE scroll' <= n
  BY <1>3, <1>6, <1>9 DEF ScrollbackLoaded
<1>10. ASSUME NEW dir \in {-1, 1}, PreviewKey(dir) \/ WheelPreview(dir) PROVE scroll' <= n
  <2>1. UNCHANGED <<given, cursor, cache>>
    BY <1>10 DEF PreviewKey, WheelPreview, Key, Mouse
  <2>2. CASE PreviewKey(dir)
    <3>1. scroll' <= m
      BY <1>1, <1>3, <2>2 DEF PreviewKey
    <3> QED
      BY <1>6, <2>1, <3>1 DEF cache
  <2>3. CASE WheelPreview(dir)
    <3>1. WheelRows \in Nat
      BY PickerAssumption
    <3>2. scroll' = IF dir = 1 THEN Min({scroll + WheelRows, m}) ELSE Max({0, scroll - WheelRows})
      BY <1>1, <2>3 DEF WheelPreview
    <3>3. Min({scroll + WheelRows, m}) <= m
      BY <1>3, <3>1, MinOfTwo
    <3>4. Max({0, scroll - WheelRows}) <= m
      BY <1>3, <3>1, MaxOfTwo
    <3>5. scroll' <= m
      BY <3>2, <3>3, <3>4
    <3> QED
      BY <1>6, <2>1, <3>5 DEF cache
  <2> QED
    BY <1>10, <2>2, <2>3
<1>11. ASSUME NEW option, ToggleKey(option) PROVE FALSE
  BY <1>11 DEF ToggleKey
<1>12. ASSUME NEW dir, ListKey(dir) \/ TreeKey(dir) PROVE FALSE
  BY <1>12 DEF ListKey, TreeKey
<1>13. ASSUME NEW dir, CloseKey(dir) PROVE scroll' <= n
  <2>1. CASE Stay
    BY <1>3, <1>6, <1>13, <2>1 DEF CloseKey, Key, Stay, cache
  <2>2. CASE ~Stay
    BY <1>5, <1>13, <2>2 DEF CloseKey
  <2> QED
    BY <2>1, <2>2
<1>14. ASSUME NEW dir, WheelList(dir) \/ WheelTree(dir) PROVE scroll' <= n
  BY <1>5, <1>14 DEF WheelList, WheelTree
<1>15. ASSUME NEW column, NEW y, Click(column, y) PROVE scroll' <= n
  BY <1>5, <1>15 DEF Click
<1> QED
  BY <1>7, <1>8, <1>9, <1>10, <1>11, <1>12, <1>13, <1>14, <1>15 DEF Next

OffsetStays == mode = "close" /\ scroll <= PreviewMaxScroll /\ scroll' > PreviewMaxScroll'
                 => screen' # screen

THEOREM CloseOffsetStaysCorrect == Spec => CloseOffsetStays
<1>1. PickInv /\ [Next]_vars => PickInv'
  BY NextPick
<1>2. PickInv /\ PickInv' /\ [Next]_vars => [OffsetStays]_vars
  <2> SUFFICES ASSUME PickInv, PickInv', [Next]_vars PROVE OffsetStays
    OBVIOUS
  <2>1. scroll' \in Nat /\ PreviewMaxScroll' \in Nat
    BY MaxNext DEF PickInv, PointsOK, MaxIsNat
  <2> QED
    BY <2>1, NextOffset DEF OffsetStays
<1>3. Spec => [][OffsetStays]_vars
  BY InitPick, <1>1, <1>2, PTL DEF Spec
<1> QED
  BY <1>3 DEF CloseOffsetStays, OffsetStays
-----------------------------------------------------------------------------
(* What is drawn *)

\* What a column of a height draws: some rows before those of a window.
DrawnOf(pre, above, last, height) ==
    LET lines == pre \o [k \in 1..last - above |-> above + k]
    IN  SubSeq(lines, 1, Min({Len(lines), height - 1}))

DrawnAs(d, pre, above, last, height) ==
    LET all == Len(pre) + last - above
    IN  /\ Len(d) = (IF all <= height - 1 THEN all ELSE height - 1)
        /\ Len(d) \in Nat /\ DOMAIN d = 1..Len(d)
        /\ \A y \in 1..Len(d) : d[y] = IF y <= Len(pre) THEN pre[y] ELSE above + y - Len(pre)

LEMMA DrawnLines ==
    ASSUME NEW pre \in Seq(Nat), NEW above \in Nat, NEW last \in Nat, above <= last,
           NEW height \in Nat, height >= 2
    PROVE  DrawnAs(DrawnOf(pre, above, last, height), pre, above, last, height)
<1> DEFINE d == DrawnOf(pre, above, last, height)
           all == Len(pre) + last - above
<1> DEFINE n == last - above
           f == [k \in 1..n |-> above + k]
           lines == pre \o f
<1>1. n \in Nat /\ Len(pre) \in Nat /\ all \in Nat /\ all = Len(pre) + n
  BY LenProperties
<1> HIDE DEF all
<1>2. f \in [1..n -> Nat] /\ \A k \in 1..n : f[k] = above + k
  BY <1>1
<1> HIDE DEF f
<1>3. f \in Seq(Nat) /\ Len(f) = n
  BY <1>1, <1>2, FunIsSeq
<1>4. /\ lines \in Seq(Nat) /\ Len(lines) = all
      /\ \A i \in 1..all : lines[i] = IF i <= Len(pre) THEN pre[i] ELSE f[i - Len(pre)]
  <2>1. /\ lines \in Seq(Nat) /\ Len(lines) = Len(pre) + Len(f)
        /\ \A i \in 1..Len(pre) + Len(f) : lines[i] = IF i <= Len(pre) THEN pre[i] ELSE f[i - Len(pre)]
    BY <1>3, ConcatProperties
  <2>2. all = Len(pre) + Len(f)
    BY <1>1, <1>3
  <2> QED
    BY <2>1, <2>2
<1> HIDE DEF lines
<1>5. PICK m : m = Min({all, height - 1})
  OBVIOUS
<1>6. m = (IF all <= height - 1 THEN all ELSE height - 1) /\ m \in Nat /\ m <= all
  BY <1>1, <1>5, MinOfTwo
<1>7. d = SubSeq(lines, 1, m)
  BY <1>4, <1>5 DEF DrawnOf, lines, f
<1> HIDE DEF d
<1>8. \A i \in 1..m : lines[i] \in Nat
  BY <1>4, <1>6, ElementOfSeq
<1>9. /\ d \in Seq(Nat) /\ Len(d) = IF 1 <= m THEN m - 1 + 1 ELSE 0
      /\ \A i \in 1..m - 1 + 1 : d[i] = lines[1 + i - 1]
  BY <1>6, <1>7, <1>8, SubSeqProperties
<1>10. Len(d) = m /\ DOMAIN d = 1..m
  BY <1>6, <1>9, LenProperties
<1>11. ASSUME NEW y \in 1..m
       PROVE  d[y] = IF y <= Len(pre) THEN pre[y] ELSE above + y - Len(pre)
  <2>1. d[y] = lines[y] /\ y \in 1..all
    BY <1>6, <1>9
  <2>2. CASE y <= Len(pre)
    BY <1>4, <2>1, <2>2
  <2>3. CASE ~(y <= Len(pre))
    <3>1. y - Len(pre) \in 1..n
      BY <1>1, <2>1, <2>3
    <3>2. f[y - Len(pre)] = above + (y - Len(pre))
      BY <1>2, <3>1
    <3> QED
      BY <1>1, <1>4, <2>1, <2>3, <3>2
  <2> QED
    BY <2>2, <2>3
<1> QED
  BY <1>6, <1>10, <1>11 DEF DrawnAs, d, all

\* The window of the list that is drawn, the entries it is of, and the rows
\* above it.
DrawnWindow ==
    CloseListWindow(cursor, IF mode = "close" THEN Len(rows) ELSE Len(events),
                    IF mode = "close" THEN Headers ELSE {}, TopHeight(screen), hidden)
Entries == IF mode = "close" THEN rows ELSE events
PinRows == IF DrawnWindow.pin = 0 THEN 0 ELSE 1

LEMMA DrawnWindowOK ==
    ASSUME PickInv
    PROVE  /\ WindowOK(DrawnWindow, cursor, Len(Entries), RowBudget(TopHeight(screen), hidden) - PinRows)
           /\ DrawnWindow.pin \in {0} \cup Headers
           /\ Headers \in SUBSET (Nat \ {0}) /\ IsFiniteSet(Headers)
           /\ Len(Entries) \in Nat /\ DOMAIN Entries = 1..Len(Entries) /\ cursor \in Nat \ {0}
           /\ TopHeight(screen) \in Nat /\ TopHeight(screen) >= 2
<1>1. TypeOK /\ Given /\ screen.height \in Nat
  BY PickTypes, PickerAssumption DEF PickInv, EndOK
<1>2. TopHeight(screen) \in Nat /\ TopHeight(screen) >= 2
  BY <1>1, LayoutOK
<1>3. Len(Entries) \in Nat /\ DOMAIN Entries = 1..Len(Entries)
  BY <1>1, ListedOK DEF Given, Entries
<1>4. Headers \in SUBSET (Nat \ {0}) /\ IsFiniteSet(Headers)
  <2>1. Headers \in SUBSET DOMAIN rows
    BY DEF Headers
  <2>2. DOMAIN rows \in SUBSET (Nat \ {0}) /\ IsFiniteSet(DOMAIN rows)
    BY <1>1, ListNumbers
  <2>3. PICK H : H = Headers
    OBVIOUS
  <2>4. H \in SUBSET (Nat \ {0}) /\ IsFiniteSet(H)
    BY <2>1, <2>2, <2>3, FS_Subset
  <2> QED
    BY <2>3, <2>4
<1>5. PICK H : H = IF mode = "close" THEN Headers ELSE {}
  OBVIOUS
<1>6. H \in SUBSET Nat /\ IsFiniteSet(H) /\ H \subseteq Headers
  BY <1>4, <1>5, FS_EmptySet
<1>7. PICK w : w = DrawnWindow
  OBVIOUS
<1>8. PICK n \in Nat : n = Len(Entries)
  BY <1>3
<1>9. w = CloseListWindow(cursor, n, H, TopHeight(screen), hidden)
  BY <1>5, <1>7, <1>8 DEF DrawnWindow, Entries
<1>10. cursor \in Nat \ {0} /\ hidden \in Nat
  BY <1>1 DEF TypeOK
<1>11. /\ WindowOK(w, cursor, n, RowBudget(TopHeight(screen), hidden) - IF w.pin = 0 THEN 0 ELSE 1)
       /\ w.pin \in {0} \cup H
  BY <1>2, <1>6, <1>9, <1>10, CloseListWindowOK
<1> QED
  BY <1>2, <1>3, <1>4, <1>6, <1>7, <1>8, <1>10, <1>11 DEF PinRows

\* The rows of the list, as they are drawn: none is cut off.
LEMMA ListDrawn ==
    ASSUME PickInv, NEW d, d = Drawn("list"), NEW w, w = DrawnWindow, NEW base, base = PinRows
    PROVE  /\ Len(d) = base + w.last - w.above /\ Len(d) \in Nat /\ DOMAIN d = 1..Len(d)
           /\ \A y \in 1..Len(d) : d[y] = IF y <= base THEN w.pin ELSE w.above + y - base
           /\ Len(d) <= RowBudget(TopHeight(screen), hidden)
<1>1. /\ w.pin \in Nat /\ (w.pin = 0 => base = 0) /\ (w.pin # 0 => base = 1)
      /\ w.above \in Nat /\ w.last \in Nat /\ w.above <= w.last
      /\ w.last - w.above <= RowBudget(TopHeight(screen), hidden) - base
  BY DrawnWindowOK DEF WindowOK, PinRows
<1>2. PICK height \in Nat : height = TopHeight(screen)
  BY DrawnWindowOK
<1>3. height >= 2
  BY <1>2, DrawnWindowOK
<1>4. PICK pre : pre = IF w.pin = 0 THEN <<>> ELSE <<w.pin>>
  OBVIOUS
<1>5. pre \in Seq(Nat) /\ Len(pre) = base /\ \A y \in 1..base : pre[y] = w.pin
  <2>1. CASE w.pin = 0
    BY <1>1, <1>4, <2>1, EmptySeq
  <2>2. CASE w.pin # 0
    BY <1>1, <1>4, <2>2
  <2> QED
    BY <2>1, <2>2
<1>6. PICK all \in Nat : all = Len(pre) + w.last - w.above
  BY <1>1, <1>5
<1>7. d = DrawnOf(pre, w.above, w.last, height)
  BY <1>2, <1>4 DEF Drawn, DrawnOf, DrawnWindow
<1>8. PICK b \in Nat : b = RowBudget(TopHeight(screen), hidden)
  <2>1. hidden \in Nat
    BY DEF PickInv, Given
  <2>2. height \in Int
    BY <1>2
  <2>3. RowBudget(height, hidden) \in Nat \ {0}
    BY <2>1, <2>2, ListRowsOK
  <2> QED
    BY <1>2, <2>3
<1>9. b <= height - 1
  <2>1. hidden \in Nat
    BY DEF PickInv, Given
  <2>2. /\ ListRows(height) = IF height - 2 >= 1 THEN height - 2 ELSE 1
        /\ RowBudget(height, hidden) + (IF FooterShows(height, hidden) THEN 1 ELSE 0) = ListRows(height)
    <3>1. height \in Int
      BY <1>2
    <3> QED
      BY <2>1, <3>1, ListRowsOK
  <2>3. b = RowBudget(height, hidden)
    BY <1>2, <1>8
  <2> QED
    BY <1>2, <1>3, <1>8, <2>2, <2>3
<1>10. all <= b /\ all = base + w.last - w.above
  BY <1>1, <1>5, <1>6, <1>8
<1>11. /\ Len(d) = (IF all <= height - 1 THEN all ELSE height - 1)
       /\ Len(d) \in Nat /\ DOMAIN d = 1..Len(d)
       /\ \A y \in 1..Len(d) : d[y] = IF y <= Len(pre) THEN pre[y] ELSE w.above + y - Len(pre)
  <2>1. PICK above \in Nat : above = w.above
    BY <1>1
  <2>2. PICK last \in Nat : last = w.last
    BY <1>1
  <2>3. above <= last /\ all = Len(pre) + last - above
    BY <1>1, <1>6, <2>1, <2>2
  <2>4. d = DrawnOf(pre, above, last, height)
    BY <1>7, <2>1, <2>2
  <2>5. pre \in Seq(Nat) /\ height \in Nat /\ height >= 2 /\ all \in Nat
    BY <1>2, <1>3, <1>5, <1>6
  <2>6. DrawnAs(d, pre, above, last, height)
    BY <2>3, <2>4, <2>5, DrawnLines
  <2> QED
    BY <2>1, <2>3, <2>6 DEF DrawnAs
<1>12. Len(d) = all
  BY <1>9, <1>10, <1>11
<1>13. ASSUME NEW y \in 1..Len(d) PROVE d[y] = IF y <= base THEN w.pin ELSE w.above + y - base
  <2>1. CASE y <= base
    BY <1>5, <1>11, <2>1
  <2>2. CASE ~(y <= base)
    BY <1>5, <1>11, <2>2
  <2> QED
    BY <2>1, <2>2
<1> QED
  BY <1>8, <1>10, <1>11, <1>12, <1>13

LEMMA BlocksHold ==
    ASSUME PickInv
    PROVE  /\ \A i \in DOMAIN CloseBlocks : CloseBlocks[i] >= 2
           /\ CloseBlocks # <<>> =>
                MapThenSumSet(LAMBDA i : CloseBlocks[i], DOMAIN CloseBlocks)
                  <= PreviewInner(screen) - CloseHeaderLines
<1>1. PICK noted : noted = [i \in DOMAIN ClosePanes |-> ClosePanes[i] \notin loaded]
  OBVIOUS
<1>2. PICK n \in Nat : DOMAIN noted = 1..n
  <2>1. Listed(ClosePanes)
    BY ClosePanesOK DEF PickInv
  <2> QED
    BY <1>1, <2>1, ListedOK
<1>3. PICK room \in Int : room = PreviewInner(screen) - CloseHeaderLines
  <2>1. PreviewInner(screen) \in Nat
    BY LayoutOK, PickerAssumption DEF PickInv, EndOK
  <2> QED
    BY <2>1 DEF CloseHeaderLines
<1> DEFINE h == CloseBlockHeights(noted, room)
<1>5. h = CloseBlocks
  BY <1>1, <1>3 DEF CloseBlocks
<1>6. /\ \A i \in DOMAIN h : h[i] >= 2
      /\ DOMAIN h # {} => MapThenSumSet(LAMBDA i : h[i], DOMAIN h) <= room
  BY <1>2, BlocksFit
<1>7. h # <<>> => DOMAIN h # {}
  <2> SUFFICES ASSUME DOMAIN h = {} PROVE h = <<>>
    OBVIOUS
  <2>1. h = [i \in DOMAIN h |-> h[i]]
    BY DEF CloseBlockHeights
  <2> HIDE DEF h
  <2>2. h \in [1..0 -> {}] /\ 0 \in Nat
    BY <2>1
  <2>3. h \in Seq({}) /\ Len(h) = 0
    BY <2>2, FunIsSeq
  <2> QED
    BY <2>3, EmptySeq
<1> HIDE DEF h
<1>8. MapThenSumSet(LAMBDA i : CloseBlocks[i], DOMAIN CloseBlocks) = MapThenSumSet(LAMBDA i : h[i], DOMAIN h)
  <2>1. PICK D : D = DOMAIN h
    OBVIOUS
  <2>2. MapThenSumSet(LAMBDA i : h[i], D) = Sums(h, D)[D]
    BY SumIsSums
  <2>3. MapThenSumSet(LAMBDA i : CloseBlocks[i], D) = Sums(CloseBlocks, D)[D]
    BY DEF MapThenSumSet, MapThenFoldSet, Sums
  <2> QED
    BY <1>5, <2>1, <2>2, <2>3
<1> QED
  BY <1>3, <1>5, <1>6, <1>7, <1>8

LEMMA CursorDrawn ==
    ASSUME PickInv, Entries # <<>>
    PROVE  cursor \in Range(Drawn("list"))
<1>1. PICK d : d = Drawn("list")
  OBVIOUS
<1>2. PICK w : w = DrawnWindow
  OBVIOUS
<1>3. PICK base : base = PinRows
  OBVIOUS
<1>4. /\ Len(d) = base + w.last - w.above /\ Len(d) \in Nat /\ DOMAIN d = 1..Len(d)
      /\ \A y \in 1..Len(d) : d[y] = IF y <= base THEN w.pin ELSE w.above + y - base
  BY <1>1, <1>2, <1>3, ListDrawn
<1>5. cursor \in DOMAIN Entries
  <2>1. OnList /\ Given
    BY DEF PickInv
  <2>2. CASE mode = "close"
    BY <2>1, <2>2, SelectableOK DEF OnList, Given, Entries
  <2>3. CASE mode = "snapshot"
    BY <2>1, <2>3 DEF OnList, Entries
  <2> QED
    BY <2>1, <2>2, <2>3 DEF Given
<1>6. /\ w.above \in Nat /\ w.last \in Nat /\ w.above < cursor /\ cursor <= w.last
      /\ base \in {0, 1} /\ cursor \in Nat
  BY <1>2, <1>3, <1>5, DrawnWindowOK DEF WindowOK, PinRows
<1>7. PICK y \in Int : y = base + cursor - w.above
  BY <1>6
<1>8. y \in 1..Len(d) /\ y > base
  <2>1. y <= base + w.last - w.above /\ y > base
    BY <1>6, <1>7
  <2>2. y >= 1
    BY <1>6, <1>7
  <2> QED
    BY <1>4, <2>1, <2>2
<1>9. d[y] = w.above + y - base
  BY <1>4, <1>6, <1>8
<1>10. d[y] = cursor
  BY <1>6, <1>7, <1>9
<1> QED
  BY <1>1, <1>4, <1>8, <1>10 DEF Range

LEMMA FramesNow == PickInv => FramesHold
<1> SUFFICES ASSUME PickInv PROVE FramesHold
  OBVIOUS
<1>1. hidden \in Nat /\ TopHeight(screen) \in Nat
  BY DrawnWindowOK DEF PickInv, Given
<1>2. RowBudget(TopHeight(screen), hidden) \in Nat
      /\ RowBudget(TopHeight(screen), hidden) + (IF FooterShows(TopHeight(screen), hidden) THEN 1 ELSE 0)
           = ListRows(TopHeight(screen))
  <2>1. PICK height \in Int : height = TopHeight(screen)
    BY <1>1
  <2>2. /\ RowBudget(height, hidden) \in Nat \ {0}
        /\ RowBudget(height, hidden) + (IF FooterShows(height, hidden) THEN 1 ELSE 0) = ListRows(height)
    BY <1>1, ListRowsOK
  <2> QED
    BY <2>1, <2>2
<1>3. Len(Drawn("list")) \in Nat /\ Len(Drawn("list")) <= RowBudget(TopHeight(screen), hidden)
  BY ListDrawn
<1>4. Len(Drawn("list")) + (IF Entries # <<>> /\ FooterShows(TopHeight(screen), hidden) THEN 1 ELSE 0)
        <= ListRows(TopHeight(screen))
  <2>1. PICK a \in Nat : a = Len(Drawn("list"))
    BY <1>3
  <2>2. PICK b \in Nat : b = RowBudget(TopHeight(screen), hidden)
    BY <1>2
  <2>3. a <= b
    BY <1>3, <2>1, <2>2
  <2>4. CASE FooterShows(TopHeight(screen), hidden)
    BY <1>2, <2>1, <2>2, <2>3, <2>4
  <2>5. CASE ~FooterShows(TopHeight(screen), hidden)
    BY <1>2, <2>1, <2>2, <2>3, <2>5
  <2> QED
    BY <2>4, <2>5
<1> QED
  BY <1>4, BlocksHold, CursorDrawn DEF FramesHold, Entries

\* The frame holds the cursor's row, the rows of the list and the blocks.
THEOREM FramesHoldCorrect == Spec => []FramesHold
<1>1. PickInv /\ [Next]_vars => PickInv'
  BY NextPick
<1> QED
  BY InitPick, <1>1, FramesNow, PTL DEF Spec
-----------------------------------------------------------------------------
(* The pointer *)

\* The entry that is drawn in a row of a column and can be selected, if any.
Under(column, y) ==
    {i \in {Drawn(column)[k] : k \in {y} \cap DOMAIN Drawn(column)} : Selects(column, i)}

LEMMA UnderIs ==
    ASSUME NEW column, NEW y, NEW d, d = Drawn(column), NEW i
    PROVE  i \in Under(column, y) <=> y \in DOMAIN d /\ i = d[y] /\ Selects(column, i)
BY DEF Under

\* The part of a screen that fits which belongs to its columns.
LEMMA ZoneIs ==
    ASSUME PickInv, screen.height >= MinHeight, NEW column, NEW y \in 0..screen.height - 1
    PROVE  /\ y < TopHeight(screen) => ZoneAt(column, y) = [zone |-> column, row |-> y - 1]
           /\ ~(y < TopHeight(screen)) => ZoneAt(column, y).zone \in {"none", "preview"}
<1>1. PICK h \in Nat : h = screen.height
  BY PickerAssumption DEF PickInv, EndOK
<1>2. PICK b : b = Body(screen)
  OBVIOUS
<1>3. PICK f : f = PanelFrame(screen)
  OBVIOUS
<1>4. h >= 6
  BY <1>1 DEF MinHeight
<1>5. /\ b = (IF h - 1 >= 5 THEN h - 1 ELSE 5) /\ b \in Nat /\ f \in Nat
      /\ TopHeight(screen) = (IF Stacked(screen) THEN b - f ELSE b)
  BY <1>1, <1>2, <1>3, LayoutOK
<1>6. b = h - 1
  BY <1>1, <1>4, <1>5
<1>7. PICK t \in Int : t = TopHeight(screen)
  BY <1>5
<1>8. ZoneAt(column, y) = IF y >= h - 1 THEN [zone |-> "none", row |-> 0]
                          ELSE IF Stacked(screen) /\ y >= h - 1 - f
                                 THEN [zone |-> "preview", row |-> y - (h - 1 - f) - 1]
                          ELSE [zone |-> column, row |-> y - 1]
  BY <1>1, <1>3 DEF ZoneAt, FooterLines
<1>9. f >= 0 /\ t = IF Stacked(screen) THEN h - 1 - f ELSE h - 1
  BY <1>5, <1>6, <1>7
<1>10. CASE y < t
  <2>1. y \in Int
    OBVIOUS
  <2>2. ~(y >= h - 1) /\ ~(Stacked(screen) /\ y >= h - 1 - f)
    BY <1>1, <1>5, <1>9, <1>10, <2>1
  <2>3. ZoneAt(column, y) = [zone |-> column, row |-> y - 1]
    BY <1>8, <2>2
  <2> QED
    BY <1>7, <1>10, <2>3
<1>11. CASE ~(y < t)
  <2>1. y \in Int
    OBVIOUS
  <2>2. y >= h - 1 \/ (Stacked(screen) /\ y >= h - 1 - f)
    BY <1>1, <1>5, <1>7, <1>9, <1>11, <2>1
  <2>3. ZoneAt(column, y).zone \in {"none", "preview"}
    BY <1>8, <2>2
  <2> QED
    BY <1>7, <1>11, <2>3
<1> QED
  BY <1>10, <1>11

LEMMA CloseTruth ==
    ASSUME PickInv, mode = "close", NEW y \in Int, 0 <= y, NEW i
    PROVE  i \in ClickedClose(y - 1) <=> i \in Under("list", y)
<1>1. PICK d : d = Drawn("list")
  OBVIOUS
<1>2. PICK w : w = DrawnWindow
  OBVIOUS
<1>3. PICK base : base = PinRows
  OBVIOUS
<1>4. /\ Len(d) = base + w.last - w.above /\ Len(d) \in Nat /\ DOMAIN d = 1..Len(d)
      /\ \A k \in 1..Len(d) : d[k] = IF k <= base THEN w.pin ELSE w.above + k - base
  BY <1>1, <1>2, <1>3, ListDrawn
<1>5. /\ base = (IF w.pin = 0 THEN 0 ELSE 1) /\ w.pin \in {0} \cup Headers
      /\ w.above \in Nat /\ w.last \in Nat /\ w.above <= w.last
  BY <1>2, <1>3, DrawnWindowOK DEF WindowOK, PinRows
<1>6. i \in ClickedClose(y - 1) <=>
        i \in Selectable /\ y - 1 >= base /\ i = w.above + (y - 1) - base + 1 /\ i <= w.last
  BY <1>2, <1>5 DEF ClickedClose, DrawnWindow, ListPaneHeight, TopHeight
<1>7. i \in Under("list", y) <=> y \in DOMAIN d /\ i = d[y] /\ i \in Selectable
  BY <1>1, UnderIs DEF Selects
<1>8. w.above + (y - 1) - base + 1 = w.above + y - base
  BY <1>5
<1>9. CASE y - 1 >= base /\ y <= Len(d)
  <2>1. y \in DOMAIN d /\ d[y] = w.above + y - base /\ w.above + y - base <= w.last
    BY <1>4, <1>5, <1>9
  <2> QED
    BY <1>6, <1>7, <1>8, <1>9, <2>1
<1>10. CASE y > Len(d)
  <2>1. y \notin DOMAIN d /\ ~(w.above + y - base <= w.last)
    BY <1>4, <1>5, <1>10
  <2> QED
    BY <1>6, <1>7, <1>8, <2>1
<1>11. CASE ~(y - 1 >= base) /\ y <= Len(d)
  <2>1. y \in DOMAIN d => d[y] = w.pin /\ w.pin # 0
    BY <1>4, <1>5, <1>11
  <2>2. w.pin # 0 => w.pin \notin Selectable
    BY <1>5 DEF Headers
  <2> QED
    BY <1>6, <1>7, <1>11, <2>1, <2>2
<1> QED
  BY <1>4, <1>9, <1>10, <1>11

LEMMA SnapshotTruth ==
    ASSUME PickInv, mode = "snapshot", NEW y \in Int, 0 <= y, NEW i
    PROVE  i \in ClickedSnapshot(y - 1) <=> i \in Under("list", y)
<1>1. PICK d : d = Drawn("list")
  OBVIOUS
<1>2. PICK w : w = DrawnWindow
  OBVIOUS
<1>3. PICK height \in Nat : height = TopHeight(screen)
  BY DrawnWindowOK
<1>4. PICK n \in Nat : n = Len(events)
  BY ListedOK DEF PickInv, Given
<1>5. PICK b \in Nat : b = RowBudget(height, hidden)
  <2>1. height \in Int /\ hidden \in Nat
    BY <1>3 DEF PickInv, Given
  <2>2. RowBudget(height, hidden) \in Nat \ {0}
    BY <2>1, ListRowsOK
  <2> QED
    BY <2>2
<1>6. PICK v : v = ListWindow(cursor, n, height, hidden)
  OBVIOUS
<1>7. w.pin = 0 /\ w.above = v.above /\ w.last = v.last
  <2>1. PICK c \in Nat : c = cursor
    BY DrawnWindowOK
  <2>2. PICK hid \in Nat : hid = hidden
    BY DEF PickInv, Given
  <2>3. w = CloseListWindow(c, n, {}, height, hid)
    BY <1>2, <1>3, <1>4, <2>1, <2>2 DEF DrawnWindow
  <2>4. v = ListWindow(c, n, height, hid)
    BY <1>6, <2>1, <2>2
  <2>5. height \in Int
    BY <1>3
  <2>6. SameWindow(CloseListWindow(c, n, {}, height, hid), ListWindow(c, n, height, hid))
    BY <1>4, <2>1, <2>2, <2>5, NoHeaders
  <2> QED
    BY <2>3, <2>4, <2>6 DEF SameWindow
<1>8. PinRows = 0
  BY <1>2, <1>7 DEF PinRows
<1>9. /\ Len(d) = 0 + w.last - w.above /\ Len(d) \in Nat /\ DOMAIN d = 1..Len(d)
      /\ \A k \in 1..Len(d) : d[k] = IF k <= 0 THEN w.pin ELSE w.above + k - 0
      /\ Len(d) <= b
  BY <1>1, <1>2, <1>3, <1>5, <1>8, ListDrawn
<1>10. w.above \in Nat /\ w.last \in Nat /\ w.above <= w.last
  BY <1>2, DrawnWindowOK DEF WindowOK
<1>11. i \in ClickedSnapshot(y - 1) <=>
         /\ i \in DOMAIN events /\ y - 1 >= 0 /\ y - 1 < b
         /\ i = w.above + (y - 1) + 1 /\ i <= w.last
  <2>1. v = ListWindow(cursor, Len(events), ListPaneHeight(screen), hidden)
    BY <1>3, <1>4, <1>6 DEF ListPaneHeight, TopHeight
  <2>2. b = RowBudget(ListPaneHeight(screen), hidden)
    BY <1>3, <1>5 DEF ListPaneHeight, TopHeight
  <2> QED
    BY <1>7, <2>1, <2>2 DEF ClickedSnapshot
<1>12. i \in Under("list", y) <=> y \in DOMAIN d /\ i = d[y] /\ i \in DOMAIN events
  BY <1>1, UnderIs DEF Selects
<1>13. w.above + (y - 1) + 1 = w.above + y
  BY <1>10
<1>14. CASE y >= 1 /\ y <= Len(d)
  <2>1. y \in DOMAIN d /\ d[y] = w.above + y /\ w.above + y <= w.last /\ y - 1 < b /\ y - 1 >= 0
    BY <1>5, <1>9, <1>10, <1>14
  <2> QED
    BY <1>11, <1>12, <1>13, <2>1
<1>15. CASE ~(y >= 1)
  <2>1. y \notin DOMAIN d /\ ~(y - 1 >= 0)
    BY <1>9, <1>15
  <2> QED
    BY <1>11, <1>12, <2>1
<1>16. CASE y > Len(d)
  <2>1. y \notin DOMAIN d /\ ~(w.above + y <= w.last)
    BY <1>9, <1>10, <1>16
  <2> QED
    BY <1>11, <1>12, <1>13, <2>1
<1> QED
  BY <1>9, <1>14, <1>15, <1>16

LEMMA NoNodeAtZero == PickInv => NodeAt(0) = {}
<1> SUFFICES ASSUME PickInv, NEW p \in NodeAt(0) PROVE FALSE
  OBVIOUS
<1>1. 0 \in 1..Cardinality(VisibleNodes)
  BY NodeAtOK DEF PickInv
<1>2. Cardinality(VisibleNodes) \in Nat
  BY VisibleOK DEF PickInv
<1> QED
  BY <1>1, <1>2

LEMMA TreeWindowOK ==
    ASSUME PickInv, NEW height \in Nat, NEW w, w = TreeWindow(height)
    PROVE  w.above \in Nat /\ w.last \in Nat /\ w.above <= w.last
<1>1. PICK c : c = IF focus = "tree" THEN treeCursor ELSE 0
  OBVIOUS
<1>2. PICK n \in Nat : n = Cardinality(VisibleNodes)
  BY VisibleOK DEF PickInv
<1>3. PICK m : m = Max({height - 3, 1})
  OBVIOUS
<1>4. c \in Nat
  <2>1. treeCursor \in Nat
    BY DEF PickInv, PointsOK
  <2> QED
    BY <1>1, <2>1
<1>5. m \in Nat \ {0}
  BY <1>3, MaxOfTwo
<1>6. w = ScrollWindow(c, n, m)
  BY <1>1, <1>2, <1>3 DEF TreeWindow
<1>7. WindowOK(w, c, n, m)
  BY <1>2, <1>4, <1>5, <1>6, ScrollWindowOK
<1> QED
  BY <1>7 DEF WindowOK

LEMMA TreeDrawn ==
    ASSUME PickInv, NEW height \in Nat, height = TopHeight(screen), NEW w, w = TreeWindow(height)
    PROVE  DrawnAs(Drawn("tree"), <<0>>, w.above, w.last, height)
<1>1. PICK above \in Nat : above = w.above
  BY TreeWindowOK
<1>2. PICK last \in Nat : last = w.last
  BY TreeWindowOK
<1>3. above <= last /\ height >= 2
  BY <1>1, <1>2, TreeWindowOK, DrawnWindowOK
<1>4. PICK pre : pre = <<0>>
  OBVIOUS
<1>5. pre \in Seq(Nat)
  BY <1>4
<1>6. Drawn("tree") = DrawnOf(pre, above, last, height)
  BY <1>1, <1>2, <1>4 DEF Drawn, DrawnOf
<1>7. DrawnAs(DrawnOf(pre, above, last, height), pre, above, last, height)
  BY <1>1, <1>2, <1>3, <1>5, DrawnLines
<1> QED
  BY <1>1, <1>2, <1>4, <1>6, <1>7

\* No column is drawn past its frame.
LEMMA DrawnShort ==
    ASSUME PickInv, NEW column \in {"list", "tree"}, NEW y \in DOMAIN Drawn(column)
    PROVE  y < TopHeight(screen)
<1>1. PICK d : d = Drawn(column)
  OBVIOUS
<1>2. PICK height \in Nat : height = TopHeight(screen)
  BY DrawnWindowOK
<1>3. height >= 2
  BY <1>2, DrawnWindowOK
<1>4. CASE column = "list"
  <2>1. hidden \in Nat /\ height \in Int
    BY <1>2 DEF PickInv, Given
  <2>2. /\ ListRows(height) = IF height - 2 >= 1 THEN height - 2 ELSE 1
        /\ RowBudget(height, hidden) \in Nat \ {0}
        /\ RowBudget(height, hidden) + (IF FooterShows(height, hidden) THEN 1 ELSE 0) = ListRows(height)
    BY <2>1, ListRowsOK
  <2>3. Len(d) \in Nat /\ DOMAIN d = 1..Len(d) /\ Len(d) <= RowBudget(height, hidden)
    BY <1>1, <1>2, <1>4, ListDrawn
  <2>4. y \in 1..Len(d)
    BY <1>1, <2>3
  <2>5. PICK b \in Nat : b = RowBudget(height, hidden)
    BY <2>2
  <2>6. b <= height - 1
    BY <1>2, <1>3, <2>2, <2>5
  <2> QED
    BY <1>2, <2>3, <2>4, <2>5, <2>6
<1>5. CASE column = "tree"
  <2>1. PICK w : w = TreeWindow(height) /\ DrawnAs(d, <<0>>, w.above, w.last, height)
    BY <1>1, <1>2, <1>5, TreeDrawn
  <2>2. Len(d) \in Nat /\ DOMAIN d = 1..Len(d)
    BY <2>1 DEF DrawnAs
  <2>3. y \in 1..Len(d)
    BY <1>1, <2>2
  <2>4. PICK all \in Int : all = Len(<<0>>) + w.last - w.above
    BY <1>2, TreeWindowOK, <2>1
  <2>5. Len(d) = IF all <= height - 1 THEN all ELSE height - 1
    BY <2>1, <2>4 DEF DrawnAs
  <2> QED
    BY <1>2, <2>2, <2>3, <2>5
<1> QED
  BY <1>4, <1>5

\* The first row of the tree's column holds no node.
LEMMA TreeTruth ==
    ASSUME PickInv, mode = "snapshot", NEW y \in Int, 0 <= y, y < TopHeight(screen), NEW i
    PROVE  i \in ClickedNode(y - 1) <=> i \in Under("tree", y)
<1>1. PICK d : d = Drawn("tree")
  OBVIOUS
<1>2. PICK height \in Nat : height = TopHeight(screen)
  BY DrawnWindowOK
<1>3. height >= 2 /\ y < height
  BY <1>2, DrawnWindowOK
<1>4. PICK w : w = TreeWindow(height)
  OBVIOUS
<1>5. w.above \in Nat /\ w.last \in Nat /\ w.above <= w.last
  BY <1>4, TreeWindowOK
<1>6. PICK pre : pre = <<0>>
  OBVIOUS
<1>7. Len(pre) = 1 /\ pre[1] = 0
  BY <1>6
<1>8. DrawnAs(d, pre, w.above, w.last, height)
  BY <1>1, <1>2, <1>4, <1>6, TreeDrawn
<1>9. /\ Len(d) = (IF 1 + w.last - w.above <= height - 1 THEN 1 + w.last - w.above ELSE height - 1)
      /\ Len(d) \in Nat /\ DOMAIN d = 1..Len(d)
      /\ \A k \in 1..Len(d) : d[k] = IF k <= 1 THEN pre[k] ELSE w.above + k - 1
  BY <1>7, <1>8 DEF DrawnAs
<1>10. i \in ClickedNode(y - 1) <=>
         /\ i \in 1..w.last /\ y - 1 >= 1 /\ i = w.above + (y - 1)
         /\ \E p \in NodeAt(i) : IsNavTarget(p)
  <2>1. w = TreeWindow(ListPaneHeight(screen))
    BY <1>2, <1>4 DEF ListPaneHeight, TopHeight
  <2> QED
    BY <2>1 DEF ClickedNode
<1>11. i \in Under("tree", y) <=> y \in DOMAIN d /\ i = d[y] /\ \E p \in NodeAt(i) : IsNavTarget(p)
  <2>1. i \in Under("tree", y) <=> y \in DOMAIN d /\ i = d[y] /\ Selects("tree", i)
    BY <1>1, UnderIs
  <2>2. Selects("tree", i) <=> \E p \in NodeAt(i) : IsNavTarget(p)
    BY DEF Selects
  <2> QED
    BY <2>1, <2>2
<1>12. CASE y >= 2 /\ y <= Len(d)
  <2>1. /\ y \in DOMAIN d /\ d[y] = w.above + (y - 1) /\ y - 1 >= 1
        /\ w.above + (y - 1) \in 1..w.last
    BY <1>2, <1>5, <1>9, <1>12
  <2> QED
    BY <1>10, <1>11, <2>1
<1>13. CASE y >= 2 /\ y > Len(d)
  <2>1. y \notin DOMAIN d
    BY <1>9, <1>13
  <2>2. ~(w.above + (y - 1) \in 1..w.last)
    BY <1>2, <1>3, <1>5, <1>9, <1>13
  <2> QED
    BY <1>10, <1>11, <2>1, <2>2
<1>14. CASE y = 0
  <2>1. y \notin DOMAIN d /\ ~(y - 1 >= 1)
    BY <1>9, <1>14
  <2> QED
    BY <1>10, <1>11, <2>1
<1>15. CASE y = 1
  <2>1. y \in DOMAIN d => d[y] = 0
    BY <1>7, <1>9, <1>15
  <2>2. ~(y - 1 >= 1)
    BY <1>15
  <2> QED
    BY <1>10, <1>11, <2>1, <2>2, NoNodeAtZero
<1> QED
  BY <1>9, <1>12, <1>13, <1>14, <1>15

LEMMA TruthNow ==
    ASSUME PickInv, screen.height >= MinHeight
    PROVE  PointerTruth
<1>1. screen.height \in Nat
  BY PickerAssumption DEF PickInv, EndOK
<1>2. ASSUME NEW column \in Columns, NEW y \in 0..screen.height - 1, NEW i
      PROVE  i \in Clicked(column, y) <=> i \in Under(column, y)
  <2>1. y \in Int /\ 0 <= y /\ column \in {"list", "tree"}
    BY <1>1 DEF Columns
  <2>2. column = "tree" => mode = "snapshot"
    BY DEF Columns, PickInv, Given
  <2>3. CASE y < TopHeight(screen)
    <3>1. ZoneAt(column, y) = [zone |-> column, row |-> y - 1]
      BY <2>3, ZoneIs
    <3>2. CASE column = "list" /\ mode = "close"
      <4>1. Clicked(column, y) = ClickedClose(y - 1)
        BY <3>1, <3>2 DEF Clicked
      <4> QED
        BY <2>1, <3>2, <4>1, CloseTruth
    <3>3. CASE column = "list" /\ mode = "snapshot"
      <4>1. Clicked(column, y) = ClickedSnapshot(y - 1)
        BY <3>1, <3>3 DEF Clicked
      <4> QED
        BY <2>1, <3>3, <4>1, SnapshotTruth
    <3>4. CASE column = "tree"
      <4>1. Clicked(column, y) = ClickedNode(y - 1)
        BY <3>1, <3>4 DEF Clicked
      <4> QED
        BY <2>1, <2>2, <2>3, <3>4, <4>1, TreeTruth
    <3> QED
      BY <2>1, <3>2, <3>3, <3>4 DEF PickInv, Given
  <2>4. CASE ~(y < TopHeight(screen))
    <3>1. ZoneAt(column, y).zone \in {"none", "preview"}
      BY <2>4, ZoneIs
    <3>2. Clicked(column, y) = {}
      BY <3>1 DEF Clicked
    <3>3. y \notin DOMAIN Drawn(column)
      BY <2>1, <2>4, DrawnShort
    <3> QED
      BY <3>2, <3>3, UnderIs
  <2> QED
    BY <2>3, <2>4
<1>3. \A column \in Columns : \A y \in 0..screen.height - 1 : Clicked(column, y) = Under(column, y)
  BY <1>2
<1> QED
  BY <1>3 DEF PointerTruth, Under

\* A click selects the row under the pointer, on every screen a body fits in.
THEOREM PointerTruthCorrect ==
    ASSUME \A s \in Screens : s.height >= MinHeight
    PROVE  Spec => []PointerTruth
<1>1. PickInv /\ [Next]_vars => PickInv'
  BY NextPick
<1>2. PickInv => PointerTruth
  BY TruthNow DEF PickInv, EndOK
<1> QED
  BY InitPick, <1>1, <1>2, PTL DEF Spec
-----------------------------------------------------------------------------
(* The picker as a cache of screens *)

\* A step that only asks, and for what has no answer yet.
OnlyAsks ==
    /\ open /\ UNCHANGED <<loaded, broken, open>>
    /\ loading \subseteq loading'
    /\ (loading' \ loading) \cap (loaded \cup broken) = {}

Closes == open /\ open' = FALSE /\ UNCHANGED <<loaded, broken, loading>>

LEMMA PreviewCmdAsks ==
    ASSUME open, UNCHANGED <<cache, open>>, PreviewCmd \/ UNCHANGED loading
    PROVE  OnlyAsks
<1>1. CASE UNCHANGED loading
  BY <1>1 DEF OnlyAsks, cache
<1>2. CASE PreviewCmd
  BY <1>2 DEF PreviewCmd, OnlyAsks, cache
<1> QED
  BY <1>1, <1>2

\* Every step asks, answers or closes, or is none of the cache's.
LEMMA StepKinds ==
    ASSUME [Next]_vars
    PROVE  \/ OnlyAsks \/ Closes \/ UNCHANGED <<loaded, broken, loading, open>>
           \/ \E s \in loading : ScrollbackLoaded(s)
<1>1. CASE \/ Resize \/ Frame \/ UNCHANGED vars
  BY <1>1 DEF Resize, Frame, vars, cache, outcome
<1>2. CASE QuitKey
  BY <1>2 DEF QuitKey, Closes, cache
<1>3. CASE EnterKey
  BY <1>3 DEF EnterKey, Finish, Warn, Closes, cache
<1>4. ASSUME \/ RightKey \/ LeftKey \/ TabKey
             \/ \E option \in {"idle", "running"} : ToggleKey(option)
             \/ \E dir \in {-1, 1} : ListKey(dir) \/ CloseKey(dir) \/ TreeKey(dir) \/ PreviewKey(dir)
      PROVE  OnlyAsks
  <2>1. open /\ UNCHANGED <<cache, open>>
    BY <1>4 DEF RightKey, LeftKey, TabKey, ToggleKey, ListKey, CloseKey, TreeKey, PreviewKey, Key
  <2>2. PreviewCmd \/ UNCHANGED loading
    BY <1>4 DEF RightKey, LeftKey, TabKey, ToggleKey, ListKey, CloseKey, TreeKey, PreviewKey
  <2> QED
    BY <2>1, <2>2, PreviewCmdAsks
<1>5. ASSUME \/ \E dir \in {-1, 1} : WheelList(dir) \/ WheelTree(dir) \/ WheelPreview(dir)
             \/ \E column \in {"list", "tree"}, y \in 0..screen.height - 1 : Click(column, y)
      PROVE  OnlyAsks
  <2>1. open /\ UNCHANGED <<cache, open>>
    BY <1>5 DEF WheelList, WheelTree, WheelPreview, Click, Mouse, outcome
  <2>2. PreviewCmd \/ UNCHANGED loading
    BY <1>5 DEF WheelList, WheelTree, WheelPreview, Click
  <2> QED
    BY <2>1, <2>2, PreviewCmdAsks
<1> QED
  BY <1>1, <1>2, <1>3, <1>4, <1>5 DEF Next

LEMMA InitCache == Init => CacheInv /\ Cache!Init
<1> SUFFICES ASSUME Init PROVE CacheInv /\ Cache!Init
  OBVIOUS
<1>1. loaded = {} /\ broken = {} /\ open = TRUE
  BY DEF Init
<1> QED
  BY <1>1 DEF CacheInv, Cache!Init

LEMMA AnswerCache ==
    ASSUME CacheInv, NEW s \in loading, ScrollbackLoaded(s)
    PROVE  CacheInv' /\ [Cache!Next]_(Cache!vars)
<1>1. /\ open /\ open' = open /\ loading' = loading \ {s}
      /\ \/ loaded' = loaded \cup {s} /\ broken' = broken
         \/ broken' = broken \cup {s} /\ loaded' = loaded
  BY DEF ScrollbackLoaded, outcome
<1>2. CacheInv'
  BY <1>1 DEF CacheInv
<1>3. s \notin loaded /\ s \notin broken
  BY DEF CacheInv
<1>4. CASE s \in Shas
  <2>1. Cache!Answer(s)
    BY <1>1, <1>3, <1>4 DEF Cache!Answer
  <2> QED
    BY <1>2, <1>4, <2>1 DEF Cache!Next
<1>5. CASE s \notin Shas
  <2>1. UNCHANGED Cache!vars
    BY <1>1, <1>5 DEF Cache!vars
  <2> QED
    BY <1>2, <2>1
<1> QED
  BY <1>4, <1>5

LEMMA AskCache ==
    ASSUME CacheInv, OnlyAsks
    PROVE  CacheInv' /\ [Cache!Next]_(Cache!vars)
<1> DEFINE S == (loading' \ loading) \cap Shas
<1>1. CacheInv'
  BY DEF CacheInv, OnlyAsks
<1>2. CASE S = {}
  <2>1. UNCHANGED Cache!vars
    BY <1>2 DEF OnlyAsks, Cache!vars
  <2> QED
    BY <1>1, <2>1
<1>3. CASE S # {}
  \* Ask is of a value, not of an expression that a step may change.
  <2>1. PICK T \in (SUBSET Shas) \ {{}} : T = S
    BY <1>3
  <2>2. Cache!Ask(T)
    BY <2>1 DEF CacheInv, OnlyAsks, Cache!Ask
  <2> QED
    BY <1>1, <2>2 DEF Cache!Next
<1> QED
  BY <1>2, <1>3

LEMMA NextCache == CacheInv /\ [Next]_vars => CacheInv' /\ [Cache!Next]_(Cache!vars)
<1> SUFFICES ASSUME CacheInv, [Next]_vars PROVE CacheInv' /\ [Cache!Next]_(Cache!vars)
  OBVIOUS
<1>1. CASE OnlyAsks
  BY <1>1, AskCache
<1>2. CASE Closes
  BY <1>2 DEF Closes, CacheInv, Cache!Next, Cache!Close
<1>3. CASE UNCHANGED <<loaded, broken, loading, open>>
  BY <1>3 DEF CacheInv, Cache!vars
<1>4. ASSUME NEW s \in loading, ScrollbackLoaded(s)
      PROVE  CacheInv' /\ [Cache!Next]_(Cache!vars)
  BY <1>4, AnswerCache
<1> QED
  BY <1>1, <1>2, <1>3, <1>4, StepKinds

\* A screen is read at most once and its answer stands: the picker implements
\* the safety part of PreviewCache (model.go: PreviewCmd, Update).
THEOREM PreviewsSafe == Spec => Cache!Safe
<1>1. Init => CacheInv /\ Cache!Init  BY InitCache
<1>2. CacheInv /\ [Next]_vars => CacheInv' /\ [Cache!Next]_(Cache!vars)  BY NextCache
<1> QED
  BY <1>1, <1>2, PTL DEF Spec, Cache!Safe
=============================================================================
