--------------------------- MODULE BackfillProofs ---------------------------
(***************************************************************************)
(* A closed pane is not given another pane's screen: for every limit,      *)
(* span and number of restarts, unless the server is no older than the     *)
(* span.                                                                   *)
(*                                                                         *)
(* A row of another server is dated at or before the start of this one,    *)
(* although a save reads the clock before it lists the server: its reading *)
(* may be older than the server it lists, never younger.                   *)
(*                                                                         *)
(* It is given the newest screen of its own: rows are dated in the order   *)
(* of their ids, so while few saves have come after a screen, any prune    *)
(* keeps a row of its time, if not its own.                                *)
(***************************************************************************)
EXTENDS Backfill, FiniteSetTheorems, TLAPS

Dated ==
    /\ {now, started, inc} \subseteq Nat /\ started <= now
    /\ saving # NotSaving => saving \in Nat /\ saving <= now
    /\ \A e \in snaps : e.ts \in Nat /\ e.ts <= now /\ (e.inc # inc => e.ts <= started)
-----------------------------------------------------------------------------
\* A prune leaves rows that were there.
LEMMA SurvivorsAreRows ==
    ASSUME NEW E, NEW kept \in PrunedAt(E)
    PROVE  kept \subseteq E
BY DEF PrunedAt, SnapshotSurvivors, NewestByTs, NewestOfDay

LEMMA InitDated == InitB => Dated
BY DEF InitB, Init, Dated, NotSaving

LEMMA NextDated == Dated /\ [NextB]_backfillVars => Dated'
<1> SUFFICES ASSUME Dated, [NextB]_backfillVars PROVE Dated'
  OBVIOUS
<1>1. CASE Tick
  BY <1>1, BoundAssumption DEF Dated, Tick
<1>2. CASE ServerStop
  BY <1>2 DEF Dated, ServerStop
<1>3. CASE ServerStart
  BY <1>3 DEF Dated, ServerStart
<1>4. CASE SaveReadClock
  BY <1>4 DEF Dated, SaveReadClock
<1>5. CASE SaveRecord
  <2> DEFINE row == [id |-> nextId, ts |-> saving, inc |-> inc]
  <2>1. PICK kept \in PrunedAt(snaps \cup {row}) : snaps' = kept
    BY <1>5 DEF SaveRecord
  <2>2. snaps' \subseteq snaps \cup {row}
    BY <2>1, SurvivorsAreRows
  <2>3. row.ts = saving /\ row.inc = inc
    OBVIOUS
  <2>4. saving # NotSaving /\ saving' = NotSaving /\ UNCHANGED <<now, inc, started>>
    BY <1>5 DEF SaveRecord
  <2> HIDE DEF row
  <2> QED
    BY <2>2, <2>3, <2>4 DEF Dated
<1>6. CASE SaveSkip \/ PruneCmd
  <2>1. snaps' \subseteq snaps
    BY <1>6, SurvivorsAreRows DEF SaveSkip, PruneCmd
  <2> QED
    BY <1>6, <2>1 DEF Dated, SaveSkip, PruneCmd
<1>7. CASE UNCHANGED backfillVars
  BY <1>7 DEF Dated, backfillVars, vars
<1> QED
  BY <1>1, <1>2, <1>3, <1>4, <1>5, <1>6, <1>7 DEF NextB, SaveFull

LEMMA DatedIsOwn == Dated => OwnUnlessYoung
<1> SUFFICES ASSUME Dated, NEW t \in started..now, NEW prior \in Lacking(t),
                    NEW e \in FillScrollback(prior.ts), e.inc # inc
             PROVE  started >= prior.ts - Span
  BY DEF OwnUnlessYoung
<1>1. e \in snaps /\ e.ts >= prior.ts - Span
  BY DEF FillScrollback, SnapshotsBefore, Listed, Latest
<1>2. prior \in snaps
  BY DEF Lacking, PriorSnapshot, LatestSnapshotBefore, Latest
<1> QED
  BY <1>1, <1>2, LookbackAssumption DEF Dated

\* FillScrollback gives a pane of a server that has run for longer than the
\* span a screen of that server, though it never asks when the server started
\* (scrollback.go:33-53, main.go:541).
THEOREM OwnScreenCorrect == SpecB => []OwnUnlessYoung
<1> QED
  BY InitDated, NextDated, DatedIsOwn, PTL DEF SpecB
-----------------------------------------------------------------------------
(* Rows in the order of their ids *)

\* The row a is dated as its place among the others says.
InOrder(a, b) == (a.id < b.id => a.ts <= b.ts) /\ (b.id < a.id => b.ts <= a.ts) /\ (a.id = b.id => a.ts = b.ts)

Ordered(E, last) ==
    /\ IsFiniteSet(E)
    /\ \A e \in E : e.id \in Nat /\ e.ts \in Nat /\ e.id <= last
    /\ \A e, f \in E : InOrder(e, f) /\ (e.id = f.id => e = f)

\* The newest screen of the present server, and who has screens.
ScreensKept ==
    /\ nextId \in Nat \ {0} /\ Ordered(snaps, nextId - 1)
    /\ saving # NotSaving => \A e \in snaps \cup shot : e.ts <= saving
    /\ \A s \in shot :
        /\ s.id \in Nat /\ s.ts \in Nat /\ s.id < nextId /\ s.ts <= now
        /\ \A e \in snaps : InOrder(e, s)
        /\ s.id \in IdsOf(snaps) => s.id \in full
        /\ \A i \in full : i <= s.id
        /\ nextId - s.id <= SnapshotKeep => \E e \in snaps : e.ts = s.ts /\ e.id <= s.id
    /\ full \subseteq IdsOf(snaps)

\* Rows have ids of their own: there are as many as ids, or fewer.
LEMMA CountByIds ==
    ASSUME NEW E, NEW last \in Int, Ordered(E, last), NEW n \in Nat,
           NEW S \in SUBSET E, \A e \in S : e.id > n
    PROVE  IsFiniteSet(S) /\ Cardinality(S) \in Nat
           /\ (last >= n => Cardinality(S) <= last - n) /\ (last < n => S = {})
<1> DEFINE ids == (n + 1)..last
           f == [e \in S |-> e.id]
<1>1. IsFiniteSet(S) /\ Cardinality(S) \in Nat
  BY FS_Subset, FS_CardinalityType DEF Ordered
<1>2. \A e \in S : e.id \in ids
  BY DEF Ordered
<1>3. f \in Injection(S, ids)
  <2>1. f \in [S -> ids]
    BY <1>2
  <2>2. IsInjective(f)
    BY DEF IsInjective, Ordered
  <2> QED
    BY <2>1, <2>2 DEF Injection
<1>4. IsFiniteSet(ids) /\ Cardinality(ids) = IF n + 1 > last THEN 0 ELSE last - (n + 1) + 1
  BY FS_Interval
<1>5. Cardinality(S) <= Cardinality(ids)
  <2> HIDE DEF f, ids
  <2> QED
    BY <1>3, <1>4, FS_Injection
<1> QED
  BY <1>1, <1>2, <1>4, <1>5

\* The newest rows have one of the time of a screen that few came after, if
\* there was one.
LEMMA NewestKeepTime ==
    ASSUME NEW E, NEW last \in Int, Ordered(E, last), NEW s, s.id \in Nat, s.ts \in Nat,
           \A e \in E : InOrder(e, s),
           NEW n \in Nat \ {0}, last < s.id + n, s.id <= last,
           \E e \in E : e.ts = s.ts /\ e.id <= s.id,
           NEW K \in NewestByTs(E, n)
    PROVE  \E e \in K : e.ts = s.ts /\ e.id <= s.id
<1>1. PICK e \in E : e.ts = s.ts /\ e.id <= s.id
  OBVIOUS
<1>2. /\ K \subseteq E
      /\ Cardinality(K) = IF Cardinality(E) < n THEN Cardinality(E) ELSE n
      /\ \A k \in K, f \in E \ K : k.ts >= f.ts
  BY DEF NewestByTs
<1>3. CASE e \in K
  BY <1>1, <1>3
<1>4. CASE e \notin K
  <2>1. IsFiniteSet(E) /\ Cardinality(E) \in Nat
    BY FS_CardinalityType DEF Ordered
  <2>2. Cardinality(K) = n
    BY <1>2, <1>4, <2>1, FS_Subset
  <2>3. PICK k \in K : k.id <= s.id
    <3>1. ASSUME \A k \in K : k.id > s.id
          PROVE  FALSE
      <4>1. Cardinality(K) <= last - s.id
        BY <1>2, <3>1, CountByIds
      <4> QED
        BY <2>2, <4>1
    <3> QED
      BY <1>2, <3>1 DEF Ordered
  <2>4. k.ts >= s.ts
    BY <1>1, <1>2, <1>4
  <2>5. k.ts <= s.ts
    BY <1>2, <2>3 DEF Ordered, InOrder
  <2> QED
    BY <1>2, <2>3, <2>4, <2>5 DEF Ordered
<1> QED
  BY <1>3, <1>4
-----------------------------------------------------------------------------
ScreensInv == Dated /\ ScreensKept

\* What remains of ordered rows is in order.
LEMMA PruneKeepsOrder ==
    ASSUME NEW E, NEW last, Ordered(E, last), NEW kept \in PrunedAt(E)
    PROVE  Ordered(kept, last) /\ kept \subseteq E
<1>1. kept \subseteq E
  BY SurvivorsAreRows
<1> QED
  BY <1>1, FS_Subset DEF Ordered

\* A prune of the rows there are.
LEMMA PruneScreens ==
    ASSUME ScreensInv, NEW kept \in PrunedAt(snaps), snaps' = kept, Lean,
           UNCHANGED <<now, nextId>>, saving' \in {saving, NotSaving}
    PROVE  ScreensKept'
<1>1. ScreensKept /\ Ordered(snaps, nextId - 1) /\ SnapshotKeep \in Nat \ {0} /\ nextId \in Nat \ {0}
  BY BoundAssumption DEF ScreensInv, ScreensKept
<1>2. Ordered(kept, nextId - 1) /\ kept \subseteq snaps
  BY <1>1, PruneKeepsOrder
<1>3. full' = full \cap IdsOf(kept) /\ shot' = shot
  BY DEF Lean
<1>4. ASSUME NEW s \in shot, nextId - s.id <= SnapshotKeep
      PROVE  \E e \in kept : e.ts = s.ts /\ e.id <= s.id
  <2>1. PICK K \in NewestByTs(snaps, SnapshotKeep) : K \subseteq kept
    BY DEF PrunedAt, SnapshotSurvivors
  <2>2. /\ s.id \in Nat /\ s.ts \in Nat /\ s.id <= nextId - 1 /\ nextId - 1 < s.id + SnapshotKeep
        /\ \A e \in snaps : InOrder(e, s)
        /\ \E e \in snaps : e.ts = s.ts /\ e.id <= s.id
    BY <1>1, <1>4 DEF ScreensKept
  <2>3. \E e \in K : e.ts = s.ts /\ e.id <= s.id
    BY <1>1, <2>2, NewestKeepTime
  <2> QED
    BY <2>1, <2>3
<1>5. ASSUME NEW s \in shot
      PROVE  /\ s.id \in Nat /\ s.ts \in Nat /\ s.id < nextId /\ s.ts <= now
             /\ \A e \in kept : InOrder(e, s)
             /\ s.id \in IdsOf(kept) => s.id \in full'
             /\ \A i \in full' : i <= s.id
  BY <1>1, <1>2, <1>3 DEF ScreensKept, IdsOf
<1>6. saving' # NotSaving => \A e \in kept \cup shot : e.ts <= saving'
  BY <1>1, <1>2 DEF ScreensKept
<1> QED
  BY <1>1, <1>2, <1>3, <1>4, <1>5, <1>6 DEF ScreensKept

\* A save, with screens or without: its row comes last.
LEMMA RecordScreens ==
    ASSUME ScreensInv, SaveRecord,
           \/ Lean
           \/ /\ shot' = {[id |-> nextId, ts |-> saving]}
              /\ full' = (full \cup {nextId}) \cap IdsOf(snaps')
    PROVE  ScreensKept'
<1> DEFINE E == snaps \cup {[id |-> nextId, ts |-> saving, inc |-> inc]}
<1>1. PICK row : row = [id |-> nextId, ts |-> saving, inc |-> inc]
  OBVIOUS
<1>2. row.id = nextId /\ row.ts = saving /\ E = snaps \cup {row}
  BY <1>1
<1>3. PICK kept \in PrunedAt(E) : snaps' = kept
  BY DEF SaveRecord
<1>4. /\ saving \in Nat /\ saving <= now /\ nextId \in Nat \ {0} /\ SnapshotKeep \in Nat \ {0}
      /\ nextId' = nextId + 1 /\ saving' = NotSaving /\ now' = now
      /\ ScreensKept /\ Ordered(snaps, nextId - 1)
      /\ \A e \in snaps \cup shot : e.ts <= saving
  BY BoundAssumption DEF ScreensInv, ScreensKept, Dated, SaveRecord
<1>5. Ordered(E, nextId)
  <2>1. IsFiniteSet(E)
    BY <1>4, FS_AddElement DEF Ordered
  <2> HIDE DEF E
  <2>2. \A e \in E : e.id \in Nat /\ e.ts \in Nat /\ e.id <= nextId
    BY <1>2, <1>4 DEF Ordered
  <2>3. \A e, f \in E : InOrder(e, f) /\ (e.id = f.id => e = f)
    BY <1>2, <1>4 DEF Ordered, InOrder
  <2> QED
    BY <2>1, <2>2, <2>3 DEF Ordered
<1> HIDE DEF E
<1>6. Ordered(kept, nextId) /\ kept \subseteq E
  BY <1>5, PruneKeepsOrder
<1>7. PICK K \in NewestByTs(E, SnapshotKeep) : K \subseteq kept
  BY DEF PrunedAt, SnapshotSurvivors
<1>8. ASSUME NEW s, s.id \in Nat, s.ts \in Nat, s.id <= nextId, \A e \in E : InOrder(e, s),
             nextId' - s.id <= SnapshotKeep, \E e \in E : e.ts = s.ts /\ e.id <= s.id
      PROVE  \E e \in kept : e.ts = s.ts /\ e.id <= s.id
  <2>1. nextId < s.id + SnapshotKeep
    BY <1>4, <1>8
  <2>2. \E e \in K : e.ts = s.ts /\ e.id <= s.id
    BY <1>4, <1>5, <1>8, <2>1, NewestKeepTime
  <2> QED
    BY <1>7, <2>2
<1>9. ASSUME NEW s \in shot'
      PROVE  /\ s.id \in Nat /\ s.ts \in Nat /\ s.id < nextId' /\ s.ts <= now'
             /\ \A e \in E : InOrder(e, s)
             /\ s.id \in IdsOf(kept) => s.id \in full'
             /\ \A i \in full' : i <= s.id
             /\ nextId' - s.id <= SnapshotKeep => \E e \in E : e.ts = s.ts /\ e.id <= s.id
  <2>1. CASE Lean
    <3>1. s \in shot /\ full' = full \cap IdsOf(kept)
      BY <1>3, <2>1 DEF Lean
    <3>2. /\ s.id \in Nat /\ s.ts \in Nat /\ s.id < nextId /\ s.ts <= now /\ s.ts <= saving
          /\ \A e \in snaps : InOrder(e, s)
          /\ s.id \in IdsOf(snaps) => s.id \in full
          /\ \A i \in full : i <= s.id
          /\ nextId - s.id <= SnapshotKeep => \E e \in snaps : e.ts = s.ts /\ e.id <= s.id
      BY <1>4, <3>1 DEF ScreensKept
    <3>3. \A e \in E : InOrder(e, s)
      BY <1>2, <1>4, <3>2 DEF InOrder
    <3>4. s.id \in IdsOf(kept) => s.id \in IdsOf(snaps)
      BY <1>2, <1>4, <1>6, <3>2 DEF IdsOf
    <3> QED
      BY <1>2, <1>4, <3>1, <3>2, <3>3, <3>4
  <2>2. CASE /\ shot' = {[id |-> nextId, ts |-> saving]}
             /\ full' = (full \cup {nextId}) \cap IdsOf(snaps')
    <3>1. s.id = nextId /\ s.ts = saving
      BY <2>2
    <3>2. \A i \in full : i < nextId
      BY <1>4 DEF ScreensKept, IdsOf, Ordered
    <3>3. \A e \in E : InOrder(e, s)
      BY <1>2, <1>4, <3>1 DEF InOrder, Ordered
    <3>4. \A i \in full' : i <= s.id
      <4>1. nextId <= nextId
        BY <1>4
      <4> QED
        BY <1>4, <2>2, <3>1, <3>2, <4>1 DEF ScreensKept, IdsOf, Ordered
    <3> QED
      BY <1>2, <1>3, <1>4, <2>2, <3>1, <3>3, <3>4
  <2> QED
    BY <2>1, <2>2
<1>10. full' \subseteq IdsOf(kept)
  BY <1>3 DEF Lean
<1>11. nextId' - 1 = nextId /\ nextId' \in Nat \ {0}
  BY <1>4
<1>12. ASSUME NEW s \in shot'
       PROVE  /\ \A e \in kept : InOrder(e, s)
              /\ nextId' - s.id <= SnapshotKeep => \E e \in kept : e.ts = s.ts /\ e.id <= s.id
  <2>1. s.id <= nextId
    BY <1>4, <1>9
  <2> QED
    BY <1>6, <1>8, <1>9, <2>1
<1> QED
  BY <1>3, <1>4, <1>6, <1>9, <1>10, <1>11, <1>12 DEF ScreensKept

LEMMA InitScreens == InitB => ScreensInv
<1> SUFFICES ASSUME InitB PROVE ScreensInv
  OBVIOUS
<1>1. Dated
  BY InitDated
<1>2. snaps = {} /\ nextId = 1 /\ saving = NotSaving /\ full = {} /\ shot = {}
  BY DEF InitB, Init
<1> QED
  BY <1>1, <1>2, FS_EmptySet DEF ScreensInv, ScreensKept, Ordered

LEMMA NextScreens == ScreensInv /\ [NextB]_backfillVars => ScreensInv'
<1> SUFFICES ASSUME ScreensInv, [NextB]_backfillVars PROVE ScreensInv'
  OBVIOUS
<1>1. Dated /\ Dated' /\ ScreensKept
  BY NextDated DEF ScreensInv
<1>2. CASE SaveFull \/ (SaveRecord /\ Lean)
  BY <1>1, <1>2, RecordScreens DEF SaveFull, ScreensInv
<1>3. CASE (SaveSkip \/ PruneCmd) /\ Lean
  <2>1. PICK kept \in PrunedAt(snaps) : snaps' = kept
    BY <1>3 DEF SaveSkip, PruneCmd
  <2>2. UNCHANGED <<now, nextId>> /\ saving' \in {saving, NotSaving}
    BY <1>3 DEF SaveSkip, PruneCmd
  <2> QED
    BY <1>1, <1>3, <2>1, <2>2, PruneScreens DEF ScreensInv
<1>4. CASE (ServerStop /\ Lean) \/ UNCHANGED backfillVars
  <2>1. full' = full /\ UNCHANGED <<now, snaps, nextId, saving, shot>>
    BY <1>1, <1>4 DEF ServerStop, Lean, backfillVars, vars, ScreensKept
  <2> QED
    BY <1>1, <2>1 DEF ScreensInv, ScreensKept
<1>5. CASE ServerStart /\ shot' = {} /\ UNCHANGED full
  <2>1. UNCHANGED <<snaps, nextId, saving>>
    BY <1>5 DEF ServerStart
  <2> QED
    BY <1>1, <1>5, <2>1 DEF ScreensInv, ScreensKept
<1>6. CASE (Tick \/ SaveReadClock) /\ Lean
  <2>1. /\ full' = full /\ UNCHANGED <<snaps, nextId, shot>>
        /\ now \in Nat /\ now' \in Nat /\ now <= now'
        /\ saving' \in {saving, now}
    BY <1>1, <1>6 DEF Tick, SaveReadClock, Lean, ScreensKept, Dated
  <2>2. \A e \in snaps \cup shot : e.ts \in Nat /\ e.ts <= now
    BY <1>1 DEF Dated, ScreensKept
  <2>3. saving' # NotSaving => \A e \in snaps \cup shot : e.ts <= saving'
    BY <1>1, <2>1, <2>2 DEF ScreensKept
  <2>4. \A s \in shot : s.ts <= now'
    BY <2>1, <2>2
  <2> QED
    BY <1>1, <2>1, <2>3, <2>4 DEF ScreensInv, ScreensKept
<1> QED
  BY <1>2, <1>3, <1>4, <1>5, <1>6 DEF NextB

\* The walk back finds the newest screen, and finds it first.
LEMMA ScreenFound ==
    ASSUME ScreensInv, SnapshotKeep <= Lookback,
           NEW ts \in Nat, NEW s \in shot, s.ts < ts, s.ts >= ts - Span,
           nextId - s.id <= SnapshotKeep,
           \A e \in snaps : e.ts = s.ts => e.id = s.id
    PROVE  IdsOf(FillScrollback(ts)) = {s.id}
<1> DEFINE range == {e \in snaps : e.ts < ts /\ e.ts >= ts - Span}
<1>1. /\ ScreensKept /\ Ordered(snaps, nextId - 1) /\ nextId \in Nat \ {0}
      /\ SnapshotKeep \in Nat /\ Lookback \in Nat
      /\ s.id \in Nat /\ s.ts \in Nat /\ s.id < nextId
      /\ \A e \in snaps : InOrder(e, s)
      /\ \A i \in full : i <= s.id
  BY BoundAssumption, LookbackAssumption DEF ScreensInv, ScreensKept
<1>2. PICK e \in snaps : e.ts = s.ts /\ e.id = s.id /\ s.id \in full
  BY <1>1 DEF ScreensKept, IdsOf
<1>3. ASSUME NEW f \in snaps, Newer(f, e)
      PROVE  f.id > s.id
  BY <1>1, <1>2, <1>3 DEF Newer, Ordered, InOrder
<1>4. e \in SnapshotsBefore(ts, ts - Span, Lookback)
  <2> DEFINE newer == {f \in range : Newer(f, e)}
  <2>1. newer \in SUBSET snaps /\ \A f \in newer : f.id > s.id
    BY <1>3
  <2>2. Cardinality(newer) \in Nat /\ Cardinality(newer) <= nextId - 1 - s.id
    <3> HIDE DEF newer
    <3> QED
      BY <1>1, <2>1, CountByIds
  <2>3. Cardinality(newer) < Lookback
    BY <1>1, <2>2
  <2> QED
    BY <1>2, <2>3 DEF SnapshotsBefore, Listed
<1> DEFINE found == {f \in SnapshotsBefore(ts, ts - Span, Lookback) : f.id \in full}
<1>5. found \subseteq snaps /\ e \in found
  BY <1>2, <1>4 DEF SnapshotsBefore, Listed
<1>6. \A f \in found : ~Newer(f, e)
  BY <1>1, <1>3, <1>5 DEF Ordered
<1>7. ASSUME NEW g \in found, \A f \in found : ~Newer(f, g)
      PROVE  g.id = s.id
  <2>1. ~Newer(e, g) /\ ~Newer(g, e)
    BY <1>5, <1>6, <1>7
  <2>2. /\ g.ts \in Nat /\ e.ts \in Nat /\ g.id \in Nat /\ e.id \in Nat
    BY <1>1, <1>5 DEF Ordered
  <2> QED
    BY <1>2, <2>1, <2>2 DEF Newer
<1>8. Latest(found) = {g \in found : g.id = s.id}
  <2>1. ASSUME NEW g \in found, g.id = s.id
        PROVE  g = e
    BY <1>1, <1>2, <1>5, <2>1 DEF Ordered
  <2> QED
    BY <1>6, <1>7, <2>1 DEF Latest
<1> QED
  BY <1>2, <1>5, <1>8 DEF FillScrollback, IdsOf

\* A closed pane whose snapshot has no screen of it is given the newest its
\* server ever had captured, however saves, prunes and restarts fell: if the
\* look back is as long as the history a prune keeps (scrollback.go:20-26,
\* config.go:89: both are 20).
THEOREM AdoptsNewestCorrect ==
    ASSUME SnapshotKeep <= Lookback
    PROVE  SpecB => []AdoptsNewestOwnScreen
<1>1. ASSUME ScreensInv
      PROVE  AdoptsNewestOwnScreen
  <2>1. OwnUnlessYoung
    BY <1>1, DatedIsOwn DEF ScreensInv
  <2>2. ASSUME NEW t \in started..now, NEW prior \in Lacking(t)
        PROVE  prior.ts \in Nat
    BY <1>1 DEF Lacking, PriorSnapshot, LatestSnapshotBefore, Latest, ScreensInv, Dated
  <2> QED
    BY <1>1, <2>1, <2>2, ScreenFound DEF AdoptsNewestOwnScreen
<1> QED
  BY <1>1, InitScreens, NextScreens, PTL DEF SpecB
=============================================================================
