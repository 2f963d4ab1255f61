--------------------------- MODULE RetentionProofs ---------------------------
(***************************************************************************)
(* Type correctness of the history and the daily floor: whatever the       *)
(* limits and however long the history, a prune never evicts the newest    *)
(* snapshot of a day it still looks back on.                               *)
(*                                                                         *)
(* The floor alone is not inductive.  It takes that no row kept is newer   *)
(* than the newest recorded on its day, that this one is of that day, and  *)
(* that the clock reading of a save under way is at or after every row.    *)
(***************************************************************************)
EXTENDS Retention, FiniteSetTheorems, TLAPS

DayOf(t) == t \div Day

FloorInv ==
    /\ TypeOK
    /\ DailyFloorHolds
    \* The bound of each row, and what the bounds are.
    /\ \A e \in snaps : e.ts <= newestTs[DayOf(e.ts)] /\ e.ts <= now
    /\ \A d \in Days : newestTs[d] >= 0 => DayOf(newestTs[d]) = d
    /\ saving # NotSaving => saving <= now /\ \A e \in snaps : e.ts <= saving
------------------------------------------------------------------------------
\* PruneSnapshots keeps the newest row of every recent day and adds none.
LEMMA SurvivorsKeepFloor ==
    ASSUME NEW E, NEW n, NEW t, NEW K \in SnapshotSurvivors(E, n, t)
    PROVE  K \subseteq E /\ NewestOfDay(E, t) \subseteq K
BY DEF SnapshotSurvivors, NewestByTs, NewestOfDay

\* The row that bears the newest time of its day is one of the floor's.
LEMMA NewestIsFloor ==
    ASSUME NEW E, NEW t \in Int, NEW bound, NEW e \in E,
           \A f \in E : f.ts \in Int /\ f.ts <= bound[DayOf(f.ts)],
           e.ts = bound[DayOf(e.ts)],
           e.ts >= t - Week
    PROVE  e \in NewestOfDay(E, t)
<1> DEFINE recent == {f \in E : f.ts >= t - Week}
<1>1. e \in recent
  OBVIOUS
<1>2. ASSUME NEW f \in recent, f.ts \div Day = e.ts \div Day
      PROVE  f.ts <= e.ts
  BY <1>2 DEF DayOf
<1> QED
  BY <1>1, <1>2 DEF NewestOfDay

\* A prune of E, whose rows obey the bounds and the floor, leaves both.
LEMMA PruneKeepsFloor ==
    ASSUME NEW E \in SUBSET Rows, NEW bound \in [Days -> Times \cup {-1}], NEW t \in Times,
           NEW K \in SnapshotSurvivors(E, SnapshotKeep, t),
           \A e \in E : e.ts <= bound[DayOf(e.ts)],
           \A d \in Days : bound[d] >= 0 => DayOf(bound[d]) = d,
           \A d \in Days : bound[d] >= 0 /\ bound[d] >= t - Week => \E e \in E : e.ts = bound[d]
    PROVE  /\ K \subseteq E
           /\ \A d \in Days : bound[d] >= 0 /\ bound[d] >= t - Week => \E e \in K : e.ts = bound[d]
<1>1. K \subseteq E /\ NewestOfDay(E, t) \subseteq K
  BY SurvivorsKeepFloor
<1>2. t \in Int /\ \A e \in E : e.ts \in Int
  BY BoundAssumption DEF Rows, Times
<1>3. ASSUME NEW d \in Days, bound[d] >= 0, bound[d] >= t - Week
      PROVE  \E e \in K : e.ts = bound[d]
  <2>1. PICK e \in E : e.ts = bound[d]  BY <1>3
  <2>2. DayOf(e.ts) = d  BY <1>3, <2>1
  <2>3. e.ts = bound[DayOf(e.ts)] /\ e.ts >= t - Week  BY <1>3, <2>1, <2>2
  <2>4. e \in NewestOfDay(E, t)  BY <1>2, <2>3, NewestIsFloor
  <2> QED  BY <1>1, <2>1, <2>4
<1> QED  BY <1>1, <1>3
------------------------------------------------------------------------------
LEMMA InitFloor == Init => FloorInv
BY BoundAssumption
DEF Init, FloorInv, TypeOK, DailyFloorHolds, Times, Days, NotSaving

\* The clock only moves on, so fewer days are looked back on.
LEMMA TickFloor == FloorInv /\ Tick => FloorInv'
<1> SUFFICES ASSUME FloorInv, Tick PROVE FloorInv'
  OBVIOUS
<1>1. TypeOK'
  BY BoundAssumption DEF FloorInv, TypeOK, Tick, Times, Rows, Days, NotSaving
<1>2. now \in Int /\ now' = now + 1 /\ Week \in Int /\ \A d \in Days : newestTs[d] \in Int
  BY BoundAssumption, ClockAssumption DEF FloorInv, TypeOK, Tick, Times
<1>3. DailyFloorHolds'
  BY <1>2 DEF FloorInv, DailyFloorHolds, Tick
<1>4. (\A e \in snaps : e.ts \in Int) /\ (saving # NotSaving => saving \in Int)
  BY BoundAssumption DEF FloorInv, TypeOK, Times, Rows
<1> QED
  BY <1>1, <1>2, <1>3, <1>4 DEF FloorInv, Tick

\* A prune with no row added.
LEMMA PruneFloor ==
    ASSUME FloorInv, NEW kept \in PrunedAt(snaps), snaps' = kept,
           UNCHANGED <<now, up, inc, started, nextId, newestTs>>,
           saving' \in {saving, NotSaving}
    PROVE  FloorInv'
<1>1. /\ snaps \in SUBSET Rows /\ newestTs \in [Days -> Times \cup {-1}] /\ now \in Times
      /\ kept \in SnapshotSurvivors(snaps, SnapshotKeep, now)
  BY DEF FloorInv, TypeOK, PrunedAt
<1>2. /\ kept \subseteq snaps
      /\ \A d \in Days : newestTs[d] >= 0 /\ newestTs[d] >= now - Week =>
            \E e \in kept : e.ts = newestTs[d]
  BY <1>1, PruneKeepsFloor DEF FloorInv, DailyFloorHolds
<1>3. TypeOK'
  BY <1>2 DEF FloorInv, TypeOK
<1>4. DailyFloorHolds'
  BY <1>2 DEF DailyFloorHolds
<1> QED
  BY <1>2, <1>3, <1>4 DEF FloorInv

\* A save: its row is the newest of its day, and the prune that follows is
\* one of the rows it found and its own.
LEMMA RecordFloor == FloorInv /\ SaveRecord => FloorInv'
<1> SUFFICES ASSUME FloorInv, SaveRecord PROVE FloorInv'
  OBVIOUS
<1> DEFINE row == [id |-> nextId, ts |-> saving, inc |-> inc]
           E == snaps \cup {row}
<1>1. PICK kept \in PrunedAt(E) : snaps' = kept
  BY DEF SaveRecord
<1>2. /\ saving \in Times /\ saving <= now /\ now \in Times /\ nextId \in 1..MaxId
      /\ newestTs' = [newestTs EXCEPT ![DayOf(saving)] = saving]
      /\ nextId' = nextId + 1 /\ saving' = NotSaving
      /\ UNCHANGED <<now, up, inc, started>>
      /\ \A e \in snaps : e.ts <= saving
  BY BoundAssumption DEF FloorInv, TypeOK, SaveRecord, DayOf
<1>3. DayOf(saving) \in Days
  BY <1>2 DEF Days, DayOf
<1>4. newestTs \in [Days -> Times \cup {-1}] /\ newestTs' \in [Days -> Times \cup {-1}]
  BY <1>2, <1>3 DEF FloorInv, TypeOK
<1>5. row \in Rows /\ row.ts = saving /\ snaps \subseteq Rows
  BY <1>2 DEF Rows, FloorInv, TypeOK
<1>6. /\ newestTs'[DayOf(saving)] = saving
      /\ \A d \in Days \ {DayOf(saving)} : newestTs'[d] = newestTs[d]
  BY <1>2, <1>3, <1>4
<1>7. \A e \in E : e.ts \in Times /\ DayOf(e.ts) \in Days
  BY <1>5 DEF Rows, Days, DayOf
<1>8. \A e \in E : e.ts <= newestTs'[DayOf(e.ts)] /\ e.ts <= now
  <2> SUFFICES ASSUME NEW e \in E PROVE e.ts <= newestTs'[DayOf(e.ts)] /\ e.ts <= now
    OBVIOUS
  <2>1. CASE DayOf(e.ts) = DayOf(saving)
    <3>1. e.ts <= saving
      BY <1>2, <1>5, BoundAssumption DEF Times
    <3>2. e.ts <= now
      BY <1>2, <1>7, <3>1, BoundAssumption DEF Times
    <3> QED  BY <1>6, <2>1, <3>1, <3>2
  <2>2. CASE DayOf(e.ts) # DayOf(saving)
    <3>1. e \in snaps  BY <1>5, <2>2
    <3> QED  BY <1>6, <1>7, <2>2, <3>1 DEF FloorInv
  <2> QED  BY <2>1, <2>2
<1>9. \A d \in Days : newestTs'[d] >= 0 => DayOf(newestTs'[d]) = d
  <2> SUFFICES ASSUME NEW d \in Days, newestTs'[d] >= 0 PROVE DayOf(newestTs'[d]) = d
    OBVIOUS
  <2>1. CASE d = DayOf(saving)  BY <1>6, <2>1
  <2>2. CASE d # DayOf(saving)  BY <1>6, <2>2 DEF FloorInv
  <2> QED  BY <2>1, <2>2
<1>10. \A d \in Days : newestTs'[d] >= 0 /\ newestTs'[d] >= now - Week => \E e \in E : e.ts = newestTs'[d]
  <2> SUFFICES ASSUME NEW d \in Days, newestTs'[d] >= 0, newestTs'[d] >= now - Week
               PROVE  \E e \in E : e.ts = newestTs'[d]
    OBVIOUS
  <2>1. CASE d = DayOf(saving)  BY <1>5, <1>6, <2>1
  <2>2. CASE d # DayOf(saving)
    <3>1. newestTs'[d] = newestTs[d]  BY <1>6, <2>2
    <3>2. \E e \in snaps : e.ts = newestTs[d]
      BY <3>1 DEF FloorInv, DailyFloorHolds
    <3> QED  BY <3>1, <3>2
  <2> QED  BY <2>1, <2>2
<1>11. /\ kept \subseteq E
       /\ \A d \in Days : newestTs'[d] >= 0 /\ newestTs'[d] >= now - Week =>
             \E e \in kept : e.ts = newestTs'[d]
  <2>1. kept \in SnapshotSurvivors(E, SnapshotKeep, now)  BY <1>1 DEF PrunedAt
  <2>2. E \in SUBSET Rows  BY <1>5
  <2>3. \A e \in E : e.ts <= newestTs'[DayOf(e.ts)]  BY <1>8
  <2>4. newestTs' \in [Days -> Times \cup {-1}] /\ now \in Times  BY <1>2, <1>4
  <2> HIDE DEF E
  <2> QED  BY <1>9, <1>10, <2>1, <2>2, <2>3, <2>4, PruneKeepsFloor
<1>12. TypeOK'
  <2>1. snaps' \subseteq Rows  BY <1>1, <1>5, <1>11
  <2>2. nextId' \in 1..MaxId + 1  BY <1>2, BoundAssumption
  <2> QED  BY <1>2, <1>4, <2>1, <2>2 DEF FloorInv, TypeOK
<1>13. DailyFloorHolds'
  BY <1>1, <1>2, <1>11 DEF DailyFloorHolds
<1> QED
  BY <1>1, <1>2, <1>8, <1>9, <1>11, <1>12, <1>13 DEF FloorInv

LEMMA NextFloor == FloorInv /\ [Next]_vars => FloorInv'
<1> SUFFICES ASSUME FloorInv, [Next]_vars PROVE FloorInv'
  OBVIOUS
<1>1. CASE Tick
  BY <1>1, TickFloor
<1>2. CASE ServerStop
  BY <1>2 DEF ServerStop, FloorInv, TypeOK, DailyFloorHolds
<1>3. CASE ServerStart
  <2>1. Latest(snaps) \subseteq Rows  BY DEF Latest, FloorInv, TypeOK
  <2>2. inc' \in 0..MaxInc
    BY <1>3, BoundAssumption DEF ServerStart, FloorInv, TypeOK
  <2> QED  BY <1>3, <2>1, <2>2 DEF ServerStart, FloorInv, TypeOK, DailyFloorHolds
<1>4. CASE SaveReadClock
  <2>1. now \in Int  BY BoundAssumption DEF FloorInv, TypeOK, Times
  <2> QED  BY <1>4, <2>1 DEF SaveReadClock, FloorInv, TypeOK, DailyFloorHolds
<1>5. CASE SaveRecord
  BY <1>5, RecordFloor
<1>6. CASE SaveSkip
  BY <1>6, PruneFloor DEF SaveSkip
<1>7. CASE PruneCmd
  BY <1>7, PruneFloor DEF PruneCmd
<1>8. CASE UNCHANGED vars
  BY <1>8 DEF vars, FloorInv, TypeOK, DailyFloorHolds
<1> QED
  BY <1>1, <1>2, <1>3, <1>4, <1>5, <1>6, <1>7, <1>8 DEF Next

\* The events table holds what the queries expect of it: typed rows, ids in
\* the order of insertion, times the clock has shown.
THEOREM TypeCorrect == Spec => []TypeOK
<1>1. FloorInv => TypeOK  BY DEF FloorInv
<1> QED  BY InitFloor, NextFloor, <1>1, PTL DEF Spec

\* The retention safety net (store.go:269-273), for every limit, every length
\* of day and week and any number of saves, prunes and restarts: the newest
\* snapshot of each day of the last week is never evicted.
THEOREM DailyFloorCorrect == Spec => []DailyFloorHolds
<1>1. FloorInv => DailyFloorHolds  BY DEF FloorInv
<1> QED  BY InitFloor, NextFloor, <1>1, PTL DEF Spec
-----------------------------------------------------------------------------
(* How many times a prune leaves *)

TimesOf(E) == {e.ts : e \in E}

LEMMA LeastNat ==
    ASSUME NEW T \in SUBSET Nat, T # {}
    PROVE  \E x \in T : \A y \in T : x <= y
<1>1. PICK x \in T : \A y \in T : ~(<<y, x>> \in OpToRel(<, Nat))
  BY NatLessThanWellFounded, WFMin
<1>2. \A y \in T : ~(y < x)
  BY <1>1 DEF OpToRel
<1> QED
  BY <1>2

\* Rows that are all dated have a newest one.
LEMMA NewestRow ==
    ASSUME NEW E, E # {}, NEW t \in Int, \A e \in E : e.ts \in Int /\ e.ts <= t
    PROVE  \E m \in E : \A e \in E : e.ts <= m.ts
<1> DEFINE ages == {t - e.ts : e \in E}
<1>1. ages \in SUBSET Nat /\ ages # {}
  OBVIOUS
<1>2. PICK a \in ages : \A b \in ages : a <= b
  BY <1>1, LeastNat
<1>3. PICK m \in E : a = t - m.ts
  OBVIOUS
<1>4. ASSUME NEW e \in E
      PROVE  e.ts <= m.ts
  <2>1. t - e.ts \in ages
    OBVIOUS
  <2>2. t - m.ts <= t - e.ts
    BY <1>2, <1>3, <2>1
  <2> QED
    BY <2>2
<1> QED
  BY <1>4

LEMMA DivFacts ==
    ASSUME NEW x \in Int, NEW d \in Nat \ {0}
    PROVE  x \div d \in Int /\ d * (x \div d) <= x /\ x < d * (x \div d) + d
OBVIOUS

LEMMA DivMonotone ==
    ASSUME NEW x \in Int, NEW y \in Int, NEW d \in Nat \ {0}, x <= y
    PROVE  x \div d <= y \div d
<1>1. ASSUME x \div d > y \div d
      PROVE  FALSE
  <2>1. x \div d >= y \div d + 1
    BY <1>1, DivFacts
  <2>2. d * (x \div d) >= d * (y \div d + 1)
    BY <2>1, DivFacts
  <2> QED
    BY <2>2, DivFacts
<1> QED
  BY <1>1, DivFacts

\* The week that ends at t touches one day more than it is long, or two.
LEMMA DaysTouched ==
    ASSUME NEW t \in Int
    PROVE  /\ DayOf(t) \in Int /\ DayOf(t - Week) \in Int /\ Week \div Day \in Int
           /\ DayOf(t - Week) <= DayOf(t)
           /\ DayOf(t) - DayOf(t - Week) <= Week \div Day + 1
<1> DEFINE a == (t - Week) \div Day
           b == t \div Day
           w == Week \div Day
<1>1. Day \in Nat \ {0} /\ Week \in Nat \ {0}
  BY ClockAssumption
<1>2. /\ a \in Int /\ b \in Int /\ w \in Int
      /\ Day * b <= t /\ t - Week < Day * a + Day /\ Week < Day * w + Day
  BY <1>1, DivFacts
<1>3. a <= b
  BY <1>1, DivMonotone
<1> HIDE DEF a, b, w
<1>4. Day * b < Day * (a + w + 2)
  BY <1>1, <1>2
<1>5. ASSUME b >= a + w + 2
      PROVE  FALSE
  <2>1. Day * b >= Day * (a + w + 2)
    BY <1>1, <1>2, <1>5
  <2> QED
    BY <1>1, <1>2, <1>4, <2>1
<1>6. b - a <= w + 1
  BY <1>2, <1>5
<1> QED
  BY <1>2, <1>3, <1>6 DEF DayOf, a, b, w

\* A prune leaves a finite history: the newest time of all is kept once, for
\* keep-N and for its day.
LEMMA SurvivorTimes ==
    ASSUME NEW E, IsFiniteSet(E), NEW t \in Int, \A e \in E : e.ts \in Int /\ e.ts <= t,
           NEW kept \in SnapshotSurvivors(E, SnapshotKeep, t)
    PROVE  /\ IsFiniteSet(kept)
           /\ Cardinality(TimesOf(kept)) <= SnapshotKeep + Week \div Day + 1
<1> DEFINE D == NewestOfDay(E, t)
           a == DayOf(t - Week)
           b == DayOf(t)
<1>1. PICK K \in NewestByTs(E, SnapshotKeep) : kept = K \cup D
  BY DEF SnapshotSurvivors
<1>2. /\ K \subseteq E /\ D \subseteq E /\ kept \subseteq E
      /\ Cardinality(K) = IF Cardinality(E) < SnapshotKeep THEN Cardinality(E) ELSE SnapshotKeep
      /\ \A e \in K, f \in E \ K : e.ts >= f.ts
  BY <1>1 DEF NewestByTs, NewestOfDay
<1>3. IsFiniteSet(kept) /\ IsFiniteSet(K)
  BY <1>2, FS_Subset
<1>4. SnapshotKeep \in Nat \ {0} /\ Cardinality(E) \in Nat /\ Cardinality(K) \in Nat
  BY <1>3, BoundAssumption, FS_CardinalityType
<1>5. Week \div Day \in Nat
  BY ClockAssumption, DivFacts, DivMonotone
<1>6. CASE E = {}
  <2>1. TimesOf(kept) = {}
    BY <1>2, <1>6 DEF TimesOf
  <2> QED
    BY <1>3, <1>4, <1>5, <2>1, FS_EmptySet
<1>7. CASE E # {}
  <2>1. PICK m \in E : \A e \in E : e.ts <= m.ts
    BY <1>7, NewestRow
  <2>2. K # {}
    BY <1>2, <1>3, <1>4, <1>7, FS_EmptySet
  <2>3. m.ts \in TimesOf(K)
    <3>1. CASE m \in K
      BY <3>1 DEF TimesOf
    <3>2. CASE m \notin K
      <4>1. PICK e \in K : TRUE
        BY <2>2
      <4>2. e.ts = m.ts
        BY <1>2, <2>1, <3>2
      <4> QED
        BY <4>2 DEF TimesOf
    <3> QED
      BY <3>1, <3>2
  <2>4. IsFiniteSet(TimesOf(K)) /\ Cardinality(TimesOf(K)) <= SnapshotKeep
    <3> DEFINE f == [e \in K |-> e.ts]
    <3>1. f \in Surjection(K, TimesOf(K))
      BY DEF Surjection, TimesOf
    <3>2. IsFiniteSet(TimesOf(K)) /\ Cardinality(TimesOf(K)) <= Cardinality(K)
      BY <1>3, <3>1, FS_Surjection
    <3>3. Cardinality(TimesOf(K)) \in Nat
      BY <3>2, FS_CardinalityType
    <3> QED
      BY <1>2, <1>4, <3>2, <3>3
  <2> DEFINE rest == TimesOf(D) \ {m.ts}
             days == (a..b) \ {DayOf(m.ts)}
  <2>5. IsFiniteSet(rest) /\ Cardinality(rest) <= Week \div Day + 1
    <3>1. CASE rest = {}
      <4> HIDE DEF rest
      <4>1. IsFiniteSet(rest) /\ Cardinality(rest) = 0
        BY <3>1, FS_EmptySet
      <4> QED
        BY <1>5, <4>1
    <3>2. CASE rest # {}
      <4>1. a \in Int /\ b \in Int /\ a <= b /\ b - a <= Week \div Day + 1
        BY DaysTouched
      <4>2. ASSUME NEW e \in E, e.ts >= t - Week
            PROVE  DayOf(e.ts) \in a..b
        <5>1. Day \in Nat \ {0} /\ t - Week \in Int /\ e.ts \in Int /\ e.ts <= t
          BY ClockAssumption
        <5>2. DayOf(t - Week) <= DayOf(e.ts) /\ DayOf(e.ts) <= DayOf(t) /\ DayOf(e.ts) \in Int
          BY <4>2, <5>1, DivMonotone, DivFacts DEF DayOf
        <5> QED
          BY <4>1, <5>2
      <4>3. \A e \in D : e.ts >= t - Week
        BY DEF NewestOfDay
      <4>4. m.ts >= t - Week
        <5>1. PICK e \in D : e.ts \in rest
          BY <3>2 DEF TimesOf
        <5> QED
          BY <1>2, <2>1, <4>3, <5>1, ClockAssumption
      <4>5. IsFiniteSet(days) /\ Cardinality(days) <= Week \div Day + 1
        <5>1. IsFiniteSet(a..b) /\ Cardinality(a..b) = b - a + 1
          BY <4>1, FS_Interval
        <5>2. DayOf(m.ts) \in a..b
          BY <4>2, <4>4
        <5>3. IsFiniteSet(days) /\ Cardinality(days) = b - a
          <6> HIDE DEF a, b
          <6>1. Cardinality((a..b) \ {DayOf(m.ts)}) = Cardinality(a..b) - 1
            BY <5>1, <5>2, FS_RemoveElement
          <6>2. IsFiniteSet((a..b) \ {DayOf(m.ts)})
            BY <5>1, FS_RemoveElement
          <6> QED
            BY <4>1, <5>1, <6>1, <6>2
        <5> QED
          BY <4>1, <5>3
      <4>6. ASSUME NEW e \in D, NEW f \in E, f.ts >= t - Week, DayOf(f.ts) = DayOf(e.ts)
            PROVE  f.ts <= e.ts
        BY <4>6 DEF NewestOfDay, DayOf
      <4>7. ASSUME NEW x \in rest
            PROVE  DayOf(x) \in days
        <5>1. PICK e \in D : e.ts = x
          BY DEF TimesOf
        <5>2. e \in E /\ DayOf(x) \in a..b
          BY <1>2, <4>2, <4>3, <5>1
        <5>3. ASSUME DayOf(x) = DayOf(m.ts)
              PROVE  FALSE
          BY <2>1, <4>4, <4>6, <5>1, <5>2, <5>3
        <5> QED
          BY <5>2, <5>3
      <4>8. ASSUME NEW x \in rest, NEW y \in rest, DayOf(x) = DayOf(y)
            PROVE  x = y
        <5>1. PICK e \in D, f \in D : e.ts = x /\ f.ts = y
          BY DEF TimesOf
        <5>2. e \in E /\ f \in E
          BY <1>2
        <5>3. x <= y /\ y <= x
          BY <4>3, <4>6, <4>8, <5>1, <5>2
        <5> QED
          BY <5>1, <5>2, <5>3
      <4> DEFINE g == [x \in rest |-> DayOf(x)]
      <4>9. g \in Injection(rest, days)
        <5>1. g \in [rest -> days]
          BY <4>7
        <5>2. IsInjective(g)
          BY <4>8 DEF IsInjective
        <5> QED
          BY <5>1, <5>2 DEF Injection
      <4>10. IsFiniteSet(rest) /\ Cardinality(rest) <= Cardinality(days)
        <5> HIDE DEF g, rest, days
        <5> QED
          BY <4>5, <4>9, FS_Injection
      <4> QED
        BY <1>5, <4>5, <4>10, FS_CardinalityType
    <3> QED
      BY <3>1, <3>2
  <2>6. TimesOf(kept) = TimesOf(K) \cup rest
    BY <1>1, <2>3 DEF TimesOf
  <2>7. Cardinality(TimesOf(kept)) =
            Cardinality(TimesOf(K)) + Cardinality(rest) - Cardinality(TimesOf(K) \cap rest)
    BY <2>4, <2>5, <2>6, FS_Union
  <2>8. /\ Cardinality(TimesOf(K)) \in Nat /\ Cardinality(rest) \in Nat
        /\ Cardinality(TimesOf(K) \cap rest) \in Nat
    BY <2>4, <2>5, FS_CardinalityType, FS_Intersection
  <2> QED
    BY <1>3, <1>4, <1>5, <2>4, <2>5, <2>7, <2>8
<1> QED
  BY <1>6, <1>7
-----------------------------------------------------------------------------
HistoryInv == FloorInv /\ IsFiniteSet(snaps) /\ HistoryBounded

LEMMA InitHistory == Init => HistoryInv
<1> SUFFICES ASSUME Init PROVE HistoryInv
  OBVIOUS
<1>1. snaps = {} /\ {e.ts : e \in snaps} = {}
  BY DEF Init
<1>2. Week \div Day \in Nat /\ SnapshotKeep \in Nat
  BY ClockAssumption, BoundAssumption, DivFacts, DivMonotone
<1>3. Cardinality({e.ts : e \in snaps}) = 0 /\ IsFiniteSet(snaps)
  BY <1>1, FS_EmptySet
<1> QED
  BY <1>2, <1>3, InitFloor DEF HistoryInv, HistoryBounded

\* Whoever changes the history has pruned it.
LEMMA NextHistory == HistoryInv /\ [Next]_vars => HistoryInv'
<1> SUFFICES ASSUME HistoryInv, [Next]_vars PROVE HistoryInv'
  OBVIOUS
<1>1. FloorInv /\ FloorInv' /\ IsFiniteSet(snaps)
  BY NextFloor DEF HistoryInv
<1>2. now \in Int /\ \A e \in snaps : e.ts \in Int /\ e.ts <= now
  BY <1>1, BoundAssumption DEF FloorInv, TypeOK, Times, Rows
<1>3. ASSUME NEW E, IsFiniteSet(E), \A e \in E : e.ts \in Int /\ e.ts <= now,
             NEW kept \in PrunedAt(E), snaps' = kept
      PROVE  HistoryInv'
  BY <1>1, <1>2, <1>3, SurvivorTimes DEF PrunedAt, HistoryInv, HistoryBounded, TimesOf
<1>4. CASE SaveRecord
  <2> DEFINE row == [id |-> nextId, ts |-> saving, inc |-> inc]
  <2>1. saving \in Int /\ saving <= now
    BY <1>1, <1>4, BoundAssumption DEF FloorInv, TypeOK, SaveRecord, Times
  <2>2. IsFiniteSet(snaps \cup {row}) /\ \A e \in snaps \cup {row} : e.ts \in Int /\ e.ts <= now
    BY <1>1, <1>2, <2>1, FS_AddElement
  <2>3. \E kept \in PrunedAt(snaps \cup {row}) : snaps' = kept
    BY <1>4 DEF SaveRecord
  <2> HIDE DEF row
  <2> QED
    BY <1>3, <2>2, <2>3
<1>5. CASE SaveSkip \/ PruneCmd
  BY <1>1, <1>2, <1>3, <1>5 DEF SaveSkip, PruneCmd
<1>6. CASE UNCHANGED snaps
  BY <1>1, <1>6 DEF HistoryInv, HistoryBounded
<1> QED
  BY <1>4, <1>5, <1>6 DEF Next, vars, Tick, ServerStop, ServerStart, SaveReadClock

\* However many saves there are, the history stays as short as its limits say,
\* for every limit and every length of day and week: no prune keeps a row that
\* neither of its two rules asks for.
THEOREM HistoryBoundedCorrect == Spec => []HistoryBounded
<1>1. HistoryInv => HistoryBounded  BY DEF HistoryInv
<1> QED  BY InitHistory, NextHistory, <1>1, PTL DEF Spec
==============================================================================
