----------------------------- MODULE SaverProofs -----------------------------
(***************************************************************************)
(* What the saver keeps, for any windows, details and limits.              *)
(*                                                                         *)
(* That structure always saves: a save that returns without recording did  *)
(* find what it listed in the newest snapshot, as long as no save died or  *)
(* failed part-way.  Between saves the metadata is that of the newest      *)
(* snapshot; inside one, from the insert on, the newest snapshot is the    *)
(* manifest at hand and the fields written so far are its own.             *)
(*                                                                         *)
(* Its types: a listing is a list of the server's windows without repeats, *)
(* and joining three of them by index, or taking screens by index, makes a *)
(* manifest no longer than there are windows.                              *)
(***************************************************************************)
EXTENDS Saver, FiniteSetTheorems, SequenceTheorems, TLAPS

\* The metadata says nothing, or it is that of a newest snapshot.
MetaOfNewest ==
    \/ metaFP = {} /\ metaStructFP = {}
    \/ \E s \in newest : metaFP = FP(s.m) /\ metaStructFP = StructFP(s.m)

Inserted == {"fp", "structFP", "ts"}

Tracks ==
    /\ pc \in Labels
    /\ pc \notin Inserted => MetaOfNewest
    /\ pc \in Inserted => \E s \in newest : s.m = manifest
    /\ pc \in {"structFP", "ts"} => metaFP = FP(manifest)
    /\ pc = "ts" => metaStructFP = StructFP(manifest)

MetaFollows == crashes \in Nat /\ (crashes = 0 => Tracks)

\* What a step that returns without recording promises.
SkipsRecorded == Skip /\ crashes = 0 => FoundRecorded
------------------------------------------------------------------------------
\* Manifest.Fingerprint covers all that StructureFingerprint does.
LEMMA FingerprintCoversStructure ==
    ASSUME NEW m, NEW n, FP(m) = FP(n)
    PROVE  StructFP(m) = StructFP(n)
<1>1. ASSUME NEW a, NEW b, NEW c, NEW d, {<<a, b>>} = {<<c, d>>}
      PROVE  a = c
    <2>1. <<a, b>> = <<c, d>>  BY <1>1
    <2> QED  BY <2>1
<1> DEFINE layout(x) == [i \in DOMAIN x.entries |-> <<x.entries[i].window, x.entries[i].pane>>]
<1>2. {<<layout(m), m.detail>>} = {<<layout(n), n.detail>>}  BY DEF FP
<1> HIDE DEF layout
<1>3. layout(m) = layout(n)  BY <1>1, <1>2
<1> QED  BY <1>3 DEF StructFP, layout

\* A fingerprint is never the empty value the metadata has before any save.
LEMMA FingerprintsSay == ASSUME NEW m PROVE FP(m) # {} /\ StructFP(m) # {}
BY DEF FP, StructFP

\* Only a crash is counted as one.
LEMMA CrashesCounted == ASSUME [Next]_vars, ~Crash PROVE crashes' = crashes
BY DEF Next, vars, OpenWindow, CloseWindow, Churn, UserActs, Restart, Tick, SaveStep,
       SaveBegin, List, ListFails, Build, Skip, Decide, CapturePane, CapturesDone,
       InsertEvent, SetFingerprint, SetStructureFingerprint, SetTimestamp

\* A step that is no crash keeps the metadata up with the newest snapshot.
LEMMA TracksStep == ASSUME Tracks, [Next]_vars, ~Crash PROVE Tracks'
<1> USE DEF Tracks, Labels, Inserted
<1>1. ASSUME UNCHANGED <<pc, manifest, metaFP, metaStructFP, newest>>
      PROVE  Tracks'
  BY <1>1 DEF MetaOfNewest
\* Nothing recorded and the save does not come to record: same metadata,
\* same newest snapshot.
<1>2. ASSUME UNCHANGED <<metaFP, metaStructFP, newest>>,
             pc \notin Inserted, pc' \in Labels \ Inserted
      PROVE  Tracks'
  BY <1>2 DEF MetaOfNewest
<1>3. CASE \E w \in WindowIds : OpenWindow(w) \/ Restart(w)
  BY <1>1, <1>3 DEF OpenWindow, Restart, UserActs, saveVars, meta
<1>4. CASE \E i \in Indexes : CloseWindow(i)
  BY <1>1, <1>4 DEF CloseWindow, UserActs, saveVars, meta
<1>5. CASE \E d \in Details : Churn(d)
  BY <1>1, <1>5 DEF Churn, UserActs, saveVars, meta
<1>6. CASE Tick
  BY <1>1, <1>6 DEF Tick, meta
<1>7. CASE SaveBegin
  BY <1>2, <1>7 DEF SaveBegin, meta
<1>8. CASE \E l \in Listings : List(l)
  BY <1>2, <1>8 DEF List, meta
<1>9. CASE ListFails
  BY <1>2, <1>9 DEF ListFails, Done, meta
<1>10. CASE Build
  BY <1>2, <1>10 DEF Build, Done, meta
<1>11. CASE Skip
  BY <1>2, <1>11 DEF Skip, Done, meta
<1>12. CASE Decide
  BY <1>2, <1>12 DEF Decide, meta
<1>13. CASE \E i \in Indexes : CapturePane(i)
  BY <1>2, <1>13 DEF CapturePane, meta
<1>14. CASE CapturesDone
  BY <1>2, <1>14 DEF CapturesDone, meta
<1>15. CASE InsertEvent
  <2>1. \E s \in newest' : s.m = manifest'
    <3>1. [m |-> manifest, inc |-> inc] \in newest'  BY <1>15 DEF InsertEvent
    <3>2. [m |-> manifest, inc |-> inc].m = manifest'  BY <1>15 DEF InsertEvent
    <3> QED  BY <3>1, <3>2
  <2> QED  BY <1>15, <2>1 DEF InsertEvent
<1>16. CASE SetFingerprint
  BY <1>16 DEF SetFingerprint, FP
<1>17. CASE SetStructureFingerprint
  BY <1>17 DEF SetStructureFingerprint, FP, StructFP
<1>18. CASE SetTimestamp
  <2>1. pc = "ts" /\ pc' = "idle" /\ metaFP' = metaFP
        /\ metaStructFP' = metaStructFP /\ newest' = newest
    BY <1>18 DEF SetTimestamp, Done, meta
  <2>2. PICK s \in newest : s.m = manifest
    BY <2>1
  <2>3. metaFP = FP(s.m) /\ metaStructFP = StructFP(s.m)
    BY <2>1, <2>2
  <2>4. MetaOfNewest
    BY <2>3 DEF MetaOfNewest
  <2> QED  BY <2>1, <2>4 DEF MetaOfNewest
<1>19. CASE UNCHANGED vars
  BY <1>1, <1>19 DEF vars
<1> QED
  BY <1>3, <1>4, <1>5, <1>6, <1>7, <1>8, <1>9, <1>10, <1>11, <1>12, <1>13, <1>14,
     <1>15, <1>16, <1>17, <1>18, <1>19 DEF Next, SaveStep

LEMMA MetaFollowsInvariant == Spec => []MetaFollows
<1>1. Init => MetaFollows
  BY DEF Init, MetaFollows, Tracks, MetaOfNewest, Labels, Inserted
<1>2. ASSUME MetaFollows, [Next]_vars PROVE MetaFollows'
  <2>1. CASE Crash
    <3>1. crashes \in Nat /\ crashes' = crashes + 1
      BY <1>2, <2>1 DEF MetaFollows, Crash
    <3>2. crashes' \in Nat /\ crashes' # 0
      BY <3>1
    <3> QED  BY <3>2 DEF MetaFollows
  <2>2. CASE ~Crash
    <3>1. crashes' = crashes
      BY <1>2, <2>2, CrashesCounted
    <3> QED  BY <1>2, <2>2, <3>1, TracksStep DEF MetaFollows
  <2> QED  BY <2>1, <2>2
<1> QED  BY <1>1, <1>2, PTL DEF Spec

\* save.go:80-87, "structure always saves", for any number of windows,
\* changes and restarts, any interval and with screens or without: a save
\* that skips, when none died before, has the structure it listed in the
\* newest snapshot.
THEOREM StructureAlwaysSavesCorrect == Spec => StructureAlwaysSaves
<1>1. MetaFollows => SkipsRecorded
  <2> SUFFICES ASSUME MetaFollows, Skip, crashes = 0
               PROVE  FoundRecorded
    BY DEF SkipsRecorded
  <2>1. MetaOfNewest  BY DEF MetaFollows, Tracks, Inserted, Skip
  <2>2. FP(manifest) = metaFP \/ (Throttled /\ StructFP(manifest) = metaStructFP)
    BY DEF Skip, Skips, Unchanged
  <2>3. PICK s \in newest : metaFP = FP(s.m) /\ metaStructFP = StructFP(s.m)
    BY <2>1, <2>2, FingerprintsSay DEF MetaOfNewest
  <2>4. CASE FP(manifest) = metaFP
    <3>1. FP(s.m) = FP(manifest)  BY <2>3, <2>4
    <3>2. StructFP(s.m) = StructFP(manifest)  BY <3>1, FingerprintCoversStructure
    <3> QED  BY <3>1, <3>2 DEF SameStructure, FoundRecorded
  <2>5. CASE Throttled /\ StructFP(manifest) = metaStructFP
    BY <2>3, <2>5 DEF SameStructure, FoundRecorded
  <2> QED  BY <2>2, <2>4, <2>5
<1>2. Spec => []MetaFollows
  BY MetaFollowsInvariant
<1>3. Spec => [][SkipsRecorded]_vars
  BY <1>1, <1>2, PTL
<1> QED  BY <1>3 DEF StructureAlwaysSaves, SkipsRecorded

-----------------------------------------------------------------------------
(* Types *)

\* A list no longer than there are ids.
LEMMA ListsOf ==
    ASSUME NEW s \in Seq(WindowIds), \A i, j \in 1..Len(s) : s[i] = s[j] => i = j
    PROVE  s \in Lists
<1>1. s \in Injection(1..Len(s), WindowIds)
  BY DEF Injection, IsInjective
<1>2. Len(s) <= Cardinality(WindowIds) /\ Cardinality(WindowIds) \in Nat
  <2>1. Cardinality(1..Len(s)) = Len(s)
    <3>1. Cardinality(1..Len(s)) = IF 1 > Len(s) THEN 0 ELSE Len(s) - 1 + 1
      BY FS_Interval
    <3> QED  BY <3>1
  <2> QED  BY <1>1, <2>1, FS_Injection, FS_CardinalityType, SaverAssumption
<1>3. Len(s) \in 0..Cardinality(WindowIds) /\ s \in [1..Len(s) -> WindowIds]
  BY <1>2
<1> QED  BY <1>3 DEF Lists

\* A list is a sequence of ids.
LEMMA ListIsSeq ==
    ASSUME NEW l \in Lists
    PROVE  /\ l \in Seq(WindowIds) /\ Len(l) \in Nat /\ DOMAIN l = 1..Len(l)
           /\ DOMAIN l \subseteq Indexes
<1>1. PICK n \in 0..Cardinality(WindowIds) : l \in [1..n -> WindowIds]
  BY DEF Lists
<1>2. Cardinality(WindowIds) \in Nat
  BY FS_CardinalityType, SaverAssumption
<1> QED  BY <1>1, <1>2 DEF Indexes

Distinct(l) == \A i, j \in DOMAIN l : l[i] = l[j] => i = j

Server ==
    /\ windows \in Lists /\ detail \in Details /\ used \subseteq WindowIds
    /\ Distinct(windows)
    /\ \A i \in DOMAIN windows : windows[i] \in used

SaveTyped ==
    /\ pc \in Labels /\ reads \subseteq Listings /\ disturbed \in BOOLEAN
    /\ seen \in [sessions : BOOLEAN, windows : Lists, panes : Lists, detail : Details]
    /\ manifest \in Manifests /\ todo \subseteq Indexes /\ (todo # {} => pc = "capture")

CountsTyped ==
    /\ inc \in 0..MaxRestarts /\ changes \in 0..MaxChanges /\ crashes \in 0..MaxCrashes
    /\ began \in 0..MinSaveInterval /\ age \in 0..MinSaveInterval

NewestTyped ==
    /\ newest \in SUBSET [m : Manifests, inc : 0..MaxRestarts]
    /\ Cardinality(newest) <= 1

Typed == Server /\ CountsTyped /\ SaveTyped /\ NewestTyped

\* What a save starts from.
LEMMA BlankTyped ==
    ASSUME detail \in Details
    PROVE  /\ Unread \in [sessions : BOOLEAN, windows : Lists, panes : Lists, detail : Details]
           /\ Blank \in Manifests
<1>1. Unread.detail \in Details /\ Unread.detail = CHOOSE d \in Details : TRUE
  BY DEF Unread
<1>2. <<>> \in Lists
  <2>1. <<>> \in Seq(WindowIds) /\ Len(<<>>) = 0
    OBVIOUS
  <2>2. \A i, j \in 1..Len(<<>>) : <<>>[i] = <<>>[j] => i = j
    BY <2>1
  <2> QED  BY <2>1, <2>2, ListsOf
<1>3. <<>> \in UNION {[1..n -> Entry] : n \in 0..Cardinality(WindowIds)}
  <2>1. 0 \in 0..Cardinality(WindowIds)
    BY FS_CardinalityType, SaverAssumption
  <2>2. <<>> \in [1..0 -> Entry]
    OBVIOUS
  <2> QED  BY <2>1, <2>2
<1> QED  BY <1>1, <1>2, <1>3 DEF Unread, Blank, Manifests

LEMMA InitTyped == Init => Typed
<1> SUFFICES ASSUME Init PROVE Typed
  OBVIOUS
<1>1. Server
  <2>1. windows \in Lists /\ Distinct(windows)
    BY DEF Init, Distinct
  <2>2. \A i \in DOMAIN windows : windows[i] \in WindowIds
    BY <2>1, ListIsSeq
  <2> QED  BY <2>1, <2>2 DEF Init, Server
<1>2. SaveTyped
  BY BlankTyped DEF Init, SaveTyped, Labels
<1>3. CountsTyped
  BY SaverAssumption DEF Init, CountsTyped
<1>4. NewestTyped
  BY FS_EmptySet DEF Init, NewestTyped
<1> QED  BY <1>1, <1>2, <1>3, <1>4 DEF Typed

\* The list stays one of distinct ids of those given out, whatever users do.
LEMMA ServerMoves ==
    ASSUME Server,
           \/ \E w \in WindowIds : OpenWindow(w) \/ Restart(w)
           \/ \E i \in Indexes : CloseWindow(i)
           \/ \E d \in Details : Churn(d)
    PROVE  Server'
<1>0. windows \in Seq(WindowIds) /\ DOMAIN windows = 1..Len(windows) /\ Len(windows) \in Nat
  BY ListIsSeq DEF Server
<1> DEFINE Good(l, ids) == /\ l \in Seq(WindowIds) /\ ids \subseteq WindowIds
                           /\ \A i, j \in 1..Len(l) : l[i] = l[j] => i = j
                           /\ \A i \in 1..Len(l) : l[i] \in ids
<1>g. Good(windows, used)
  BY <1>0 DEF Server, Distinct
<1>1. ASSUME Good(windows', used'), detail' \in Details
      PROVE  Server'
  <2>1. windows' \in Lists
    BY <1>1, ListsOf
  <2>2. DOMAIN windows' = 1..Len(windows')
    BY <1>1
  <2> QED  BY <1>1, <2>1, <2>2 DEF Server, Distinct
<1>2. ASSUME NEW w \in WindowIds, OpenWindow(w)
      PROVE  Server'
  <2>1. windows' = Append(windows, w) /\ used' = used \cup {w} /\ w \notin used /\ detail' = detail
    BY <1>2 DEF OpenWindow
  <2>2. /\ windows' \in Seq(WindowIds) /\ Len(windows') = Len(windows) + 1
        /\ \A i \in 1..Len(windows) : windows'[i] = windows[i]
        /\ windows'[Len(windows) + 1] = w
    BY <1>0, <2>1
  <2>3. Good(windows', used')
    BY <1>0, <1>g, <2>1, <2>2
  <2> QED  BY <1>1, <2>1, <2>3 DEF Server
<1>3. ASSUME NEW w \in WindowIds, Restart(w)
      PROVE  Server'
  <2>1. windows' = <<w>> /\ used' = {w} /\ detail' = detail
    BY <1>3 DEF Restart
  <2>2. Good(windows', used')
    BY <2>1
  <2> QED  BY <1>1, <2>1, <2>2 DEF Server
<1>4. ASSUME NEW k \in Indexes, CloseWindow(k)
      PROVE  Server'
  <2>1. /\ k \in 1..Len(windows) /\ used' = used /\ detail' = detail
        /\ windows' = SubSeq(windows, 1, k - 1) \o SubSeq(windows, k + 1, Len(windows))
    BY <1>0, <1>4 DEF CloseWindow
  <2> DEFINE a == SubSeq(windows, 1, k - 1)
             b == SubSeq(windows, k + 1, Len(windows))
             N == Len(windows)
  <2>2. /\ a \in Seq(WindowIds) /\ Len(a) = k - 1
        /\ \A i \in 1..k - 1 : a[i] = windows[i]
    <3>1. \A i \in 1..k - 1 : windows[i] \in WindowIds
      BY <1>0, <2>1
    <3> QED  BY <1>0, <2>1, <3>1, SubSeqProperties
  <2>3. /\ b \in Seq(WindowIds) /\ Len(b) = N - k
        /\ \A i \in 1..N - k : b[i] = windows[k + i]
    <3>1. \A i \in k + 1..N : windows[i] \in WindowIds
      BY <1>0, <2>1
    <3> HIDE DEF N
    <3>2. k + 1 \in Int /\ N \in Int
      BY <1>0, <2>1 DEF N
    <3>3. /\ b \in Seq(WindowIds)
          /\ Len(b) = IF k + 1 <= N THEN N - (k + 1) + 1 ELSE 0
          /\ \A i \in 1..N - (k + 1) + 1 : b[i] = windows[k + 1 + i - 1]
      BY <3>1, <3>2, SubSeqProperties DEF N
    <3>4. k \in Int /\ k <= N /\ N \in Int
      BY <1>0, <2>1 DEF N
    <3>5. N - (k + 1) + 1 = N - k /\ (k + 1 <= N \/ N - k = 0)
      BY <3>4
    <3>6. \A i \in Int : k + 1 + i - 1 = k + i
      BY <3>4
    <3> QED  BY <3>3, <3>4, <3>5, <3>6
  <2> HIDE DEF a, b
  <2>4. /\ windows' \in Seq(WindowIds) /\ Len(windows') = N - 1
        /\ \A i \in 1..N - 1 : windows'[i] = IF i < k THEN windows[i] ELSE windows[i + 1]
    <3>1. windows' = a \o b
      BY <2>1 DEF a, b
    <3>2. /\ windows' \in Seq(WindowIds) /\ Len(windows') = Len(a) + Len(b)
          /\ \A i \in 1..Len(a) + Len(b) : windows'[i] = IF i <= Len(a) THEN a[i] ELSE b[i - Len(a)]
      BY <2>2, <2>3, <3>1, ConcatProperties
    <3>3. Len(a) + Len(b) = N - 1 /\ Len(a) = k - 1 /\ k \in 1..N /\ N \in Nat
      BY <1>0, <2>1, <2>2, <2>3
    <3> HIDE DEF N
    <3>4. ASSUME NEW i \in 1..N - 1
          PROVE  windows'[i] = IF i < k THEN windows[i] ELSE windows[i + 1]
      <4>1. windows'[i] = IF i <= k - 1 THEN a[i] ELSE b[i - (k - 1)]
        BY <3>2, <3>3
      <4>2. CASE i < k
        <5>1. i \in 1..k - 1 /\ i <= k - 1
          BY <3>3, <4>2
        <5> QED  BY <2>2, <4>1, <4>2, <5>1
      <4>3. CASE ~(i < k)
        <5>1. i - (k - 1) \in 1..N - k /\ k + (i - (k - 1)) = i + 1 /\ ~(i <= k - 1)
          BY <3>3, <4>3
        <5> QED  BY <2>3, <4>1, <4>3, <5>1
      <4> QED  BY <4>2, <4>3
    <3> QED  BY <3>2, <3>3, <3>4
  <2>5. Good(windows', used')
    <3>1. k \in 1..N /\ N \in Nat
      BY <1>0, <2>1
    <3> HIDE DEF N
    <3>2. \A i \in 1..N : windows[i] \in used
      BY <1>g DEF N
    <3>3. \A i, j \in 1..N : windows[i] = windows[j] => i = j
      BY <1>g DEF N
    <3>4. \A i \in 1..N - 1 : windows'[i] \in used'
      <4>1. \A i \in 1..N - 1 : i < k => i \in 1..N
        BY <3>1
      <4>2. \A i \in 1..N - 1 : ~(i < k) => i + 1 \in 1..N
        BY <3>1
      <4> QED  BY <2>1, <2>4, <3>2, <4>1, <4>2
    <3>5. ASSUME NEW i \in 1..N - 1, NEW j \in 1..N - 1, windows'[i] = windows'[j]
          PROVE  i = j
      <4> DEFINE at(h) == IF h < k THEN h ELSE h + 1
      <4>1. at(i) \in 1..N /\ at(j) \in 1..N
        BY <3>1
      <4>2. windows[at(i)] = windows[at(j)]
        BY <2>4, <3>5
      <4>3. at(i) = at(j)
        BY <3>3, <4>1, <4>2
      <4> QED  BY <3>1, <4>3
    <3>6. used' \subseteq WindowIds
      BY <1>g, <2>1
    <3> QED  BY <2>4, <3>4, <3>5, <3>6
  <2> QED  BY <1>1, <2>1, <2>5 DEF Server
<1>5. ASSUME NEW d \in Details, Churn(d)
      PROVE  Server'
  BY <1>1, <1>5, <1>g DEF Churn
<1> QED  BY <1>2, <1>3, <1>4, <1>5

\* What the listings say makes a manifest.
LEMMA JoinedTyped == ASSUME SaveTyped PROVE Joined \in Manifests
<1>1. seen.windows \in Lists /\ seen.panes \in Lists /\ seen.detail \in Details
  BY DEF SaveTyped
<1>2. PICK n \in 0..Cardinality(WindowIds) : seen.windows \in [1..n -> WindowIds]
  BY <1>1 DEF Lists
<1>3. DOMAIN seen.windows = 1..n
  BY <1>2
<1>4. \A i \in 1..n : seen.windows[i] \in WindowIds
  BY <1>2
<1>5. \A i \in DOMAIN seen.panes : seen.panes[i] \in WindowIds
  BY <1>1, ListIsSeq
<1>6. [i \in DOMAIN seen.windows |->
        [window |-> seen.windows[i],
         pane |-> IF i \in DOMAIN seen.panes THEN seen.panes[i] ELSE NoWindow,
         screen |-> NoWindow]] \in [1..n -> Entry]
  BY <1>3, <1>4, <1>5 DEF Entry
<1> QED  BY <1>1, <1>6 DEF Joined, Manifests

\* An entry gets a screen.
LEMMA ScreenTyped ==
    ASSUME NEW m \in Manifests, NEW i, NEW s \in WindowIds \cup {NoWindow}
    PROVE  [m EXCEPT !.entries[i].screen = s] \in Manifests
<1>1. PICK n \in 0..Cardinality(WindowIds) : m.entries \in [1..n -> Entry]
  BY DEF Manifests
<1>2. [m.entries EXCEPT ![i].screen = s] \in [1..n -> Entry]
  BY <1>1 DEF Entry
<1> QED  BY <1>1, <1>2 DEF Manifests

\* Each step of a save keeps the types.
LEMMA SaveMoves ==
    ASSUME Typed, SaveStep \/ Crash
    PROVE  SaveTyped'
<1>1. windows \in Lists /\ detail \in Details
  BY DEF Typed, Server
<1>2. SaveTyped
  BY DEF Typed
<1>3. ASSUME Done PROVE SaveTyped'
  BY <1>1, <1>3, BlankTyped DEF Done, SaveTyped, Labels
<1>4. CASE SaveBegin
  BY <1>2, <1>4 DEF SaveBegin, SaveTyped, Labels
<1>5. ASSUME NEW l \in Listings, List(l) PROVE SaveTyped'
  BY <1>1, <1>2, <1>5 DEF List, SaveTyped, Listings, Up
<1>6. CASE Build
  BY <1>2, <1>3, <1>6, JoinedTyped DEF Build, SaveTyped, Labels
<1>7. CASE Decide
  <2>1. DOMAIN manifest.entries \subseteq Indexes
    <3>1. PICK n \in 0..Cardinality(WindowIds) : manifest.entries \in [1..n -> Entry]
      BY <1>2 DEF SaveTyped, Manifests
    <3> QED  BY <3>1, FS_CardinalityType, SaverAssumption DEF Indexes
  <2> QED  BY <1>2, <1>7, <2>1 DEF Decide, SaveTyped, Labels
<1>8. ASSUME NEW i \in Indexes, CapturePane(i) PROVE SaveTyped'
  <2>1. \A j \in DOMAIN windows : windows[j] \in WindowIds
    BY <1>1, ListIsSeq
  <2>2. manifest' \in Manifests
    <3>1. PICK s \in {windows[j] : j \in {i} \cap DOMAIN windows} \cup {NoWindow} :
            manifest' = [manifest EXCEPT !.entries[i].screen = s]
      BY <1>8 DEF CapturePane
    <3>2. s \in WindowIds \cup {NoWindow}
      BY <2>1, <3>1
    <3> QED  BY <1>2, <3>1, <3>2, ScreenTyped DEF SaveTyped
  <2> QED  BY <1>2, <1>8, <2>2 DEF CapturePane, SaveTyped
<1>9. CASE CapturesDone \/ InsertEvent \/ SetFingerprint \/ SetStructureFingerprint
  BY <1>2, <1>9 DEF CapturesDone, InsertEvent, SetFingerprint, SetStructureFingerprint, SaveTyped, Labels
<1>10. CASE ListFails \/ Skip \/ SetTimestamp \/ Crash
  BY <1>3, <1>10 DEF ListFails, Skip, SetTimestamp, Crash
<1> QED  BY <1>4, <1>5, <1>6, <1>7, <1>8, <1>9, <1>10 DEF SaveStep

LEMMA NextTyped == Typed /\ [Next]_vars => Typed'
<1> SUFFICES ASSUME Typed, [Next]_vars PROVE Typed'
  OBVIOUS
<1>1. Server /\ CountsTyped /\ SaveTyped /\ NewestTyped
  BY DEF Typed
<1>2. CASE \E w \in WindowIds : OpenWindow(w) \/ Restart(w)
  <2>1. Server'
    BY <1>1, <1>2, ServerMoves
  <2>2. CountsTyped'
    <3>1. /\ \/ inc' = inc
             \/ inc < MaxRestarts /\ inc' = inc + 1
          /\ \/ changes' = changes
             \/ changes < MaxChanges /\ changes' = changes + 1
          /\ crashes' = crashes /\ began' = began /\ age' = age
      BY <1>2 DEF OpenWindow, Restart, UserActs, saveVars
    <3> QED  BY <1>1, <3>1, SaverAssumption DEF CountsTyped
  <2>3. SaveTyped' /\ NewestTyped'
    BY <1>1, <1>2 DEF SaveTyped, NewestTyped, OpenWindow, Restart, UserActs, saveVars
  <2> QED  BY <2>1, <2>2, <2>3 DEF Typed
<1>3. CASE (\E i \in Indexes : CloseWindow(i)) \/ (\E d \in Details : Churn(d))
  <2>1. Server'
    BY <1>1, <1>3, ServerMoves
  <2>2. CountsTyped'
    BY <1>1, <1>3, SaverAssumption DEF CountsTyped, CloseWindow, Churn, UserActs, saveVars
  <2>3. SaveTyped' /\ NewestTyped'
    BY <1>1, <1>3 DEF SaveTyped, NewestTyped, CloseWindow, Churn, UserActs, saveVars
  <2> QED  BY <2>1, <2>2, <2>3 DEF Typed
<1>4. CASE Tick
  <2>1. CountsTyped'
    <3>1. ASSUME NEW t \in 0..MinSaveInterval PROVE Older(t) \in 0..MinSaveInterval
      BY SaverAssumption DEF Older
    <3>2. age' = Older(age) /\ began' = Older(began) /\ UNCHANGED <<inc, changes, crashes>>
      BY <1>4 DEF Tick, server
    <3> QED  BY <1>1, <3>1, <3>2 DEF CountsTyped
  <2>2. Server' /\ SaveTyped' /\ NewestTyped'
    BY <1>1, <1>4 DEF Tick, Server, Distinct, SaveTyped, NewestTyped, server, meta
  <2> QED  BY <2>1, <2>2 DEF Typed
<1>5. CASE SaveStep \/ Crash
  <2>1. SaveTyped'
    BY <1>5, SaveMoves
  <2>2. UNCHANGED server /\ CountsTyped'
    BY <1>1, <1>5, SaverAssumption
       DEF CountsTyped, server, SaveStep, SaveBegin, List, ListFails, Build, Skip, Decide, CapturePane,
           CapturesDone, InsertEvent, SetFingerprint, SetStructureFingerprint, SetTimestamp, Crash
  <2>3. Server'
    BY <1>1, <2>2 DEF Server, Distinct, server
  <2>4. NewestTyped'
    <3>1. CASE InsertEvent
      <4>1. newest' = {[m |-> manifest, inc |-> inc]} /\ manifest \in Manifests /\ inc \in 0..MaxRestarts
        BY <1>1, <3>1 DEF InsertEvent, SaveTyped, CountsTyped
      <4>2. Cardinality(newest') = 1
        BY <4>1, FS_Singleton
      <4>3. newest' \in SUBSET [m : Manifests, inc : 0..MaxRestarts]
        BY <4>1
      <4> QED  BY <4>2, <4>3 DEF NewestTyped
    <3>2. CASE ~InsertEvent
      <4>1. newest' = newest
        BY <1>5, <3>2
           DEF SaveStep, SaveBegin, List, ListFails, Build, Skip, Decide, CapturePane,
               CapturesDone, SetFingerprint, SetStructureFingerprint, SetTimestamp, Crash
      <4> QED  BY <1>1, <4>1 DEF NewestTyped
    <3> QED  BY <3>1, <3>2
  <2> QED  BY <2>1, <2>2, <2>3, <2>4 DEF Typed
<1>6. CASE UNCHANGED vars
  BY <1>1, <1>6 DEF vars, Typed, Server, Distinct, CountsTyped, SaveTyped, NewestTyped
<1> QED  BY <1>2, <1>3, <1>4, <1>5, <1>6 DEF Next

\* The types; windows no more than ids, for none is in the list twice.
THEOREM TypeCorrect == Spec => []TypeOK
<1>1. Typed => TypeOK
  BY DEF Typed, TypeOK, Server, CountsTyped, SaveTyped, NewestTyped
<1> QED  BY <1>1, InitTyped, NextTyped, PTL DEF Spec
=============================================================================
