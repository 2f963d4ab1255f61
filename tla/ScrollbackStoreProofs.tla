------------------------ MODULE ScrollbackStoreProofs ------------------------
(***************************************************************************)
(* Theorems about ScrollbackStore, for any number of processes, servers,   *)
(* panes and digests.                                                      *)
(*                                                                         *)
(* The argument: every action changes the database by one statement of     *)
(* internal/store or not at all (the step lemmas), and every statement     *)
(* keeps the reference counts exact and the foreign keys satisfied (the    *)
(* statement lemmas).  With gc run to its end, a row's file is there       *)
(* except between the two halves of gc's own removal, and the flock keeps  *)
(* every other command out of that gap.                                    *)
(*                                                                         *)
(* The second part: what the manifest of an event names stays pinned and   *)
(* on disk unless the event is torn, whatever command fails or dies at     *)
(* whatever step, gc between a file and its row too.  A screen waits for   *)
(* its link only in the names of the one process that holds the flock,     *)
(* with its row and its file in place and no other link on its pane, so    *)
(* the link is never refused; a process that drops a waiting name tears    *)
(* its event; and what gc lists has no link as long as gc holds the flock. *)
(***************************************************************************)
EXTENDS ScrollbackStore, FiniteSetTheorems, TLAPS

\* The part of the type invariant that is about the database.
DbType ==
    /\ events \in SUBSET EventRecords
    /\ nextId \in Nat
    /\ links \in SUBSET LinkRecords
    /\ rows \in SUBSET Shas
    /\ refcount \in [Shas -> Int]

\* The counts and the keys, stated for absent rows too.
DbInv ==
    /\ IsFiniteSet(links)
    /\ \A s \in Shas : refcount[s] = Cardinality(LinksTo(s))
    /\ ReferentialIntegrity
------------------------------------------------------------------------------
\* The links of one digest are finitely many when all links are.
LEMMA LinksToFinite ==
    ASSUME IsFiniteSet(links), NEW s
    PROVE  IsFiniteSet(LinksTo(s)) /\ Cardinality(LinksTo(s)) \in Nat
  BY FS_Subset, FS_CardinalityType DEF LinksTo

\* DELETE FROM events takes with each link exactly one reference off its digest.
LEMMA DeleteEventsKeeps ==
    ASSUME DbType, DbInv, NEW ids, DeleteEvents(ids)
    PROVE  DbType' /\ DbInv'
  <1>1. IsFiniteSet(links')
    BY FS_Subset DEF DbInv, DeleteEvents
  <1>2. ASSUME NEW s \in Shas
        PROVE  refcount'[s] = Cardinality(LinksTo(s)')
    <2> DEFINE Gone == {l \in LinksTo(s) : l.event \in ids}
    <2>1. IsFiniteSet(LinksTo(s))
      BY LinksToFinite DEF DbInv
    <2>2. LinksTo(s)' = LinksTo(s) \ Gone /\ LinksTo(s) \cap Gone = Gone
      BY DEF DeleteEvents, LinksTo
    <2>3. Cardinality(LinksTo(s) \ Gone) = Cardinality(LinksTo(s)) - Cardinality(Gone)
      BY <2>1, <2>2, FS_Difference
    <2>4. refcount'[s] = refcount[s] - Cardinality(Gone)
      BY DEF DeleteEvents
    <2> QED
      BY <2>2, <2>3, <2>4 DEF DbInv
  <1>3. ReferentialIntegrity'
    BY DEF DbInv, DeleteEvents, ReferentialIntegrity
  <1>4. refcount' \in [Shas -> Int]
    <2>1. ASSUME NEW s \in Shas
          PROVE  Cardinality({l \in LinksTo(s) : l.event \in ids}) \in Int
      <3>1. IsFiniteSet(LinksTo(s))
        BY LinksToFinite DEF DbInv
      <3> QED
        BY <3>1, FS_Subset, FS_CardinalityType
    <2> QED
      BY <2>1 DEF DbType, DeleteEvents
  <1>5. DbType'
    BY <1>4 DEF DbType, DeleteEvents
  <1> QED
    BY <1>1, <1>2, <1>3, <1>5 DEF DbInv

\* A new event row disturbs neither counts nor keys.
LEMMA InsertEventKeeps ==
    ASSUME DbType, DbInv, NEW p \in Procs, NEW k \in Kinds, NEW ns \in SUBSET Pairs,
           InsertEvent(p, k, ns)
    PROVE  /\ DbType' /\ DbInv'
           /\ \E e \in events' : e.id = nextId
  <1>1. [id |-> nextId, lane |-> LaneOf[p], kind |-> k, names |-> ns] \in EventRecords
    BY LaneAssumption DEF EventRecords, DbType
  <1>2. DbType'
    BY <1>1 DEF DbType, InsertEvent
  <1>3. \A s : LinksTo(s)' = LinksTo(s)
    BY DEF InsertEvent, LinksTo
  <1>4. DbInv'
    BY <1>3 DEF DbInv, InsertEvent, ReferentialIntegrity, LinksTo
  <1> QED
    BY <1>1, <1>2, <1>4 DEF InsertEvent

\* A link and the reference it takes come in one transaction, and the primary
\* key keeps the same link from taking two.
LEMMA LinkKeeps ==
    ASSUME DbType, DbInv, NEW id \in Nat, NEW k \in Panes, NEW s \in Shas,
           \E e \in events : e.id = id,
           LinkEventScrollback(id, k, s)
    PROVE  DbType' /\ DbInv'
  <1> DEFINE new == [event |-> id, pane |-> k, sha |-> s]
  <1>1. new \notin links /\ links' = links \cup {new} /\ s \in rows
    BY DEF LinkEventScrollback, Linkable
  <1>2. IsFiniteSet(links')
    BY <1>1, FS_AddElement DEF DbInv
  <1>3. ASSUME NEW t \in Shas
        PROVE  refcount'[t] = Cardinality(LinksTo(t)')
    <2>1. CASE t = s
      <3>1. LinksTo(t)' = LinksTo(t) \cup {new} /\ new \notin LinksTo(t)
        BY <1>1, <2>1 DEF LinksTo
      <3>2. Cardinality(LinksTo(t) \cup {new}) = Cardinality(LinksTo(t)) + 1
        BY <3>1, FS_AddElement, LinksToFinite DEF DbInv
      <3>3. refcount'[t] = refcount[t] + 1
        BY <2>1 DEF LinkEventScrollback, DbType
      <3> QED
        BY <3>1, <3>2, <3>3 DEF DbInv
    <2>2. CASE t # s
      <3>1. LinksTo(t)' = LinksTo(t)
        BY <1>1, <2>2 DEF LinksTo
      <3>2. refcount'[t] = refcount[t]
        BY <2>2 DEF LinkEventScrollback, DbType
      <3> QED
        BY <3>1, <3>2 DEF DbInv
    <2> QED
      BY <2>1, <2>2
  <1>4. ReferentialIntegrity'
    BY <1>1 DEF DbInv, LinkEventScrollback, ReferentialIntegrity
  <1>5. DbType'
    BY <1>1 DEF DbType, LinkEventScrollback, LinkRecords
  <1> QED
    BY <1>2, <1>3, <1>4, <1>5 DEF DbInv

\* A fresh row starts at the zero references its digest has.
LEMMA UpsertKeeps ==
    ASSUME DbType, DbInv, NEW s \in Shas, UpsertScrollback(s)
    PROVE  DbType' /\ DbInv'
  <1>1. \A t : LinksTo(t)' = LinksTo(t)
    BY DEF UpsertScrollback, LinksTo
  <1>2. ASSUME NEW t \in Shas
        PROVE  refcount'[t] = Cardinality(LinksTo(t))
    <2>1. s \notin rows => LinksTo(s) = {}
      BY DEF DbInv, ReferentialIntegrity, LinksTo
    <2>2. refcount'[t] = IF t = s /\ s \notin rows THEN 0 ELSE refcount[t]
      BY DEF UpsertScrollback, DbType
    <2> QED
      BY <2>1, <2>2, FS_EmptySet DEF DbInv
  <1>3. ReferentialIntegrity'
    BY DEF DbInv, UpsertScrollback, ReferentialIntegrity
  <1>4. DbType'
    BY DEF DbType, UpsertScrollback
  <1> QED
    BY <1>1, <1>2, <1>3, <1>4 DEF DbInv, UpsertScrollback

\* Only a row without links goes.
LEMMA DeleteScrollbackKeeps ==
    ASSUME DbType, DbInv, NEW s \in Shas, DeleteScrollback(s)
    PROVE  DbType' /\ DbInv'
  <1>1. \A t : LinksTo(t)' = LinksTo(t)
    BY DEF DeleteScrollback, LinksTo
  <1>2. CASE LinksTo(s) = {}
    <2>1. ASSUME NEW t \in Shas
          PROVE  refcount'[t] = Cardinality(LinksTo(t))
      BY <1>2, FS_EmptySet DEF DeleteScrollback, DbInv, DbType
    <2>2. ReferentialIntegrity'
      BY <1>2 DEF DbInv, DeleteScrollback, ReferentialIntegrity, LinksTo
    <2>3. DbType'
      BY <1>2 DEF DbType, DeleteScrollback
    <2> QED
      BY <1>1, <2>1, <2>2, <2>3 DEF DbInv, DeleteScrollback
  <1>3. CASE LinksTo(s) # {}
    BY <1>1, <1>3 DEF DbInv, DbType, DeleteScrollback, ReferentialIntegrity
  <1> QED
    BY <1>2, <1>3

\* Nothing to show when the database does not change.
LEMMA UnchangedKeeps ==
    ASSUME DbType, DbInv, UNCHANGED dbVars
    PROVE  DbType' /\ DbInv'
  <1>1. \A t : LinksTo(t)' = LinksTo(t)
    BY DEF LinksTo, dbVars
  <1> QED
    BY <1>1 DEF DbType, DbInv, dbVars, ReferentialIntegrity
------------------------------------------------------------------------------
(* The processes. *)

ProcType ==
    /\ lock \in Procs \cup {NoProc}
    /\ op \in [Procs -> Ops \cup {"none"}]
    /\ pc \in [Procs -> Labels]
    /\ todo \in [Procs -> SUBSET Panes]
    /\ put \in [Procs -> SUBSET Pairs]
    /\ names \in [Procs -> SUBSET Pairs]
    /\ cur \in [Procs -> Nat]
    /\ orphans \in [Procs -> SUBSET Shas]
    /\ half \in [Procs -> Shas \cup {NoSha}]
    /\ torn \in SUBSET Nat

\* Who may be where: the flock, the event being linked, gc's labels.
CtlInv ==
    /\ \A p \in Procs : pc[p] # "idle" => lock = p
    /\ \A p \in Procs : pc[p] \in {"retract", "link"} => \E e \in events : e.id = cur[p]
    /\ \A p \in Procs : pc[p] = "row" => half[p] # NoSha
    /\ \A p \in Procs : pc[p] \in {"reap", "sweep", "row"} => op[p] = "gc"

Inv == ProcType /\ DbType /\ files \in SUBSET Shas /\ DbInv /\ CtlInv

\* The type invariant follows from the parts: that no count is below zero is
\* because each is the number of its links.
LEMMA TypeParts == Inv => TypeOK
  <1> SUFFICES ASSUME Inv
               PROVE  TypeOK
    OBVIOUS
  <1>1. \A s \in Shas : refcount[s] \in Nat
    BY LinksToFinite DEF Inv, DbInv
  <1>2. refcount \in [Shas -> Nat]
    BY <1>1 DEF Inv, DbType
  <1> QED
    BY <1>2 DEF TypeOK, Inv, ProcType, DbType

\* Releasing the flock leaves a well-typed idle process behind.
LEMMA ReleaseKeeps ==
    ASSUME ProcType, CtlInv, NEW p \in Procs, pc[p] # "idle", Release(p)
    PROVE  ProcType' /\ CtlInv'
  <1>1. ProcType'
    BY DEF ProcType, Release, Goto, Labels
  <1>2. \A q \in Procs : pc'[q] = "idle"
    BY ProcAssumption DEF ProcType, CtlInv, Release, Goto
  <1> QED
    BY <1>1, <1>2 DEF CtlInv

\* Taking it starts the command the process was launched with.
LEMMA AcquireKeeps ==
    ASSUME Inv, NEW p \in Procs, NEW o \in Ops, Acquire(p, o)
    PROVE  Inv'
  <1>1. FirstLabel(o) \in Labels /\ FirstLabel(o) \notin {"retract", "link", "row", "sweep"}
        /\ (FirstLabel(o) = "reap" => o = "gc")
    BY DEF FirstLabel, Labels, Ops
  <1>2. \A q \in Procs : pc[q] = "idle"
    BY ProcAssumption DEF Inv, CtlInv, Acquire
  <1>3. ProcType'
    BY <1>1 DEF Inv, ProcType, Acquire, Goto
  <1>4. pc' = [pc EXCEPT ![p] = FirstLabel(o)] /\ op' = [op EXCEPT ![p] = o] /\ lock' = p
    BY DEF Acquire, Goto
  <1>5. CtlInv'
    BY <1>1, <1>2, <1>4 DEF Inv, ProcType, CtlInv
  <1>6. DbType' /\ DbInv' /\ files' = files
    BY UnchangedKeeps DEF Inv, Acquire
  <1> QED
    BY <1>3, <1>5, <1>6 DEF Inv

\* Dying part-way changes nothing but the process and the flock.
LEMMA AbortKeeps ==
    ASSUME Inv, NEW p \in Procs, Abort(p)
    PROVE  Inv'
  <1>1. DbType' /\ DbInv' /\ files' = files
    BY UnchangedKeeps DEF Inv, Abort
  <1>2. ProcType' /\ CtlInv'
    BY ReleaseKeeps DEF Inv, Abort
  <1> QED
    BY <1>1, <1>2 DEF Inv

\* The steps of a save.
LEMMA SaveKeeps ==
    ASSUME Inv, NEW p \in Procs, Save(p)
    PROVE  Inv'
  <1> USE DEF Inv
  <1>1. ASSUME NEW k \in Panes, NEW s \in Shas, SavePut(p, k, s)
        PROVE  Inv'
    <2>1. DbType' /\ DbInv' /\ files' \in SUBSET Shas
      BY <1>1, UnchangedKeeps DEF SavePut
    <2>2. ProcType'
      BY <1>1 DEF SavePut, ProcType, Pairs
    <2>3. CtlInv'
      BY <1>1 DEF SavePut, CtlInv, dbVars
    <2> QED
      BY <2>1, <2>2, <2>3
  <1>2. ASSUME NEW ks \in Pairs, SaveUpsert(p, ks)
        PROVE  Inv'
    <2>1. DbType' /\ DbInv' /\ files' = files
      <3>1. ks[2] \in Shas
        BY DEF Pairs
      <3> QED
        BY <1>2, <3>1, UpsertKeeps DEF SaveUpsert, UpsertScrollback
    <2>2. ProcType'
      BY <1>2 DEF SaveUpsert, ProcType
    <2>3. CtlInv'
      BY <1>2 DEF SaveUpsert, CtlInv, UpsertScrollback
    <2> QED
      BY <2>1, <2>2, <2>3
  <1>3. ASSUME NEW ks \in Pairs, SaveLink(p, ks)
        PROVE  Inv'
    <2>1. DbType' /\ DbInv' /\ files' = files
      <3>1. ks[1] \in Panes /\ ks[2] \in Shas /\ cur[p] \in Nat
        BY DEF Pairs, ProcType
      <3>2. \E e \in events : e.id = cur[p]
        BY <1>3 DEF SaveLink, CtlInv
      <3> QED
        BY <1>3, <3>1, <3>2, LinkKeeps DEF SaveLink, LinkEventScrollback
    <2>2. ProcType'
      BY <1>3 DEF SaveLink, ProcType
    <2>3. CtlInv'
      BY <1>3 DEF SaveLink, CtlInv, LinkEventScrollback
    <2> QED
      BY <2>1, <2>2, <2>3
  <1>4. ASSUME SaveInsert(p)
        PROVE  Inv'
    <2>1. DbType' /\ DbInv' /\ files' = files /\ \E e \in events' : e.id = nextId
      <3>1. names[p] \in SUBSET Pairs /\ "snapshot" \in Kinds
        BY DEF ProcType, Kinds
      <3> QED
        BY <1>4, <3>1, InsertEventKeeps DEF SaveInsert, InsertEvent
    <2>2. ProcType'
      BY <1>4 DEF SaveInsert, InsertEvent, Goto, ProcType, DbType, Labels
    <2>3. CtlInv'
      <3>1. \A q \in Procs \ {p} : pc[q] = "idle" /\ pc'[q] = "idle"
        BY <1>4 DEF SaveInsert, Goto, CtlInv, ProcType
      <3>2. lock' = p /\ pc'[p] = "link" /\ cur'[p] = nextId
        BY <1>4 DEF SaveInsert, InsertEvent, Goto, CtlInv, ProcType
      <3> QED
        BY <2>1, <3>1, <3>2 DEF CtlInv
    <2> QED
      BY <2>1, <2>2, <2>3
  <1>5. ASSUME SaveLinked(p)
        PROVE  Inv'
    <2>1. DbType' /\ DbInv' /\ files' = files
      BY <1>5, UnchangedKeeps DEF SaveLinked
    <2>2. ProcType'
      BY <1>5 DEF SaveLinked, Goto, ProcType, Labels
    <2>3. CtlInv'
      BY <1>5 DEF SaveLinked, Goto, ProcType, CtlInv, dbVars
    <2> QED
      BY <2>1, <2>2, <2>3
  <1>6. ASSUME SaveSkips(p)
        PROVE  Inv'
    <2>1. DbType' /\ DbInv' /\ files' = files
      BY <1>6, UnchangedKeeps DEF SaveSkips
    <2>2. ProcType'
      BY <1>6 DEF SaveSkips, Goto, ProcType, Labels
    <2>3. CtlInv'
      BY <1>6 DEF SaveSkips, Goto, ProcType, CtlInv, dbVars
    <2> QED
      BY <2>1, <2>2, <2>3
  <1> QED
    BY <1>1, <1>2, <1>3, <1>4, <1>5, <1>6 DEF Save

\* The steps of a capture-event.
LEMMA CaptureKeeps ==
    ASSUME Inv, NEW p \in Procs, Capture(p)
    PROVE  Inv'
  <1> USE DEF Inv
  <1>1. ASSUME CaptureInsert(p)
        PROVE  Inv'
    <2>1. PICK ns \in Embeddable(LaneOf[p]) :
            /\ InsertEvent(p, "close", ns)
            /\ names' = [names EXCEPT ![p] = ns]
      BY <1>1 DEF CaptureInsert
    <2>2. ns \in SUBSET Pairs
      BY DEF Embeddable, Named, Snapshots, DbType, EventRecords
    <2>3. DbType' /\ DbInv' /\ files' = files /\ \E e \in events' : e.id = nextId
      <3>1. "close" \in Kinds
        BY DEF Kinds
      <3> QED
        BY <2>1, <2>2, <3>1, InsertEventKeeps DEF InsertEvent
    <2>4. ProcType'
      BY <1>1, <2>1, <2>2 DEF CaptureInsert, InsertEvent, Goto, ProcType, DbType, Labels
    <2>5. CtlInv'
      <3>1. \A q \in Procs \ {p} : pc[q] = "idle" /\ pc'[q] = "idle"
        BY <1>1 DEF CaptureInsert, Goto, CtlInv, ProcType
      <3>2. lock' = p /\ pc'[p] = "retract" /\ cur'[p] = nextId
        BY <1>1, <2>1 DEF CaptureInsert, InsertEvent, Goto, CtlInv, ProcType
      <3> QED
        BY <2>3, <3>1, <3>2 DEF CtlInv
    <2> QED
      BY <2>3, <2>4, <2>5
  <1>2. ASSUME CaptureNothing(p) \/ CaptureDone(p)
        PROVE  Inv'
    <2>1. DbType' /\ DbInv' /\ files' = files
      BY <1>2, UnchangedKeeps DEF CaptureNothing, CaptureDone
    <2>2. ProcType' /\ CtlInv'
      BY <1>2, ReleaseKeeps DEF CaptureNothing, CaptureDone
    <2> QED
      BY <2>1, <2>2
  <1>3. ASSUME CaptureRetract(p)
        PROVE  Inv'
    <2>1. PICK gone \in SUBSET {e \in CloseEvents(LaneOf[p]) : e.id # cur[p]} :
            DeleteEvents(Ids(gone))
      BY <1>3 DEF CaptureRetract
    <2>2. DbType' /\ DbInv' /\ files' = files
      BY <2>1, DeleteEventsKeeps DEF DeleteEvents
    <2>3. ProcType'
      BY <1>3 DEF CaptureRetract, Goto, ProcType, Labels
    <2>4. CtlInv'
      <3>1. \A q \in Procs \ {p} : pc[q] = "idle" /\ pc'[q] = "idle"
        BY <1>3 DEF CaptureRetract, Goto, CtlInv, ProcType
      <3>2. lock' = p /\ pc'[p] = "link" /\ cur'[p] = cur[p]
        BY <1>3 DEF CaptureRetract, Goto, CtlInv, ProcType
      <3>3. PICK e \in events : e.id = cur[p]
        BY <1>3 DEF CaptureRetract, CtlInv
      <3>4. e \in events'
        BY <2>1, <3>3 DEF DeleteEvents, Ids
      <3> QED
        BY <3>1, <3>2, <3>3, <3>4 DEF CtlInv
    <2> QED
      BY <2>2, <2>3, <2>4
  <1>4. ASSUME NEW ks \in Pairs, CaptureLink(p, ks)
        PROVE  Inv'
    <2>1. DbType' /\ DbInv' /\ files' = files /\ events' = events
      <3>1. ks[1] \in Panes /\ ks[2] \in Shas /\ cur[p] \in Nat
        BY DEF Pairs, ProcType
      <3>2. \E e \in events : e.id = cur[p]
        BY <1>4 DEF CaptureLink, CtlInv
      <3>3. CASE LinkEventScrollback(cur[p], ks[1], ks[2])
        BY <3>1, <3>2, <3>3, LinkKeeps DEF LinkEventScrollback
      <3>4. CASE UNCHANGED <<dbVars, files>>
        BY <3>4, UnchangedKeeps DEF dbVars
      <3> QED
        BY <1>4, <3>3, <3>4 DEF CaptureLink
    <2>2. ProcType'
      BY <1>4 DEF CaptureLink, ProcType
    <2>3. CtlInv'
      BY <1>4, <2>1 DEF CaptureLink, CtlInv
    <2> QED
      BY <2>1, <2>2, <2>3
  <1> QED
    BY <1>1, <1>2, <1>3, <1>4 DEF Capture

\* The prunes, and undo's delete: a process that deletes is not linking.
LEMMA PruneKeeps ==
    ASSUME Inv, NEW p \in Procs, Prune(p) \/ UndoDelete(p)
    PROVE  Inv'
  <1> USE DEF Inv
  <1>1. ASSUME NEW ids, DeleteEvents(ids)
        PROVE  DbType' /\ DbInv' /\ files' = files
    BY <1>1, DeleteEventsKeeps DEF DeleteEvents
  <1>2. ASSUME PruneSnapshots(p) \/ PruneCloses(p)
        PROVE  Inv'
    <2>1. DbType' /\ DbInv' /\ files' = files
      BY <1>1, <1>2 DEF PruneSnapshots, PruneCloses
    <2>2. ProcType'
      BY <1>2 DEF PruneSnapshots, PruneCloses, Goto, ProcType, Labels
    <2>3. CtlInv'
      <3>1. \A q \in Procs \ {p} : pc[q] = "idle" /\ pc'[q] = "idle"
        BY <1>2 DEF PruneSnapshots, PruneCloses, Goto, CtlInv, ProcType
      <3>2. lock' = p /\ pc'[p] \in {"floor", "closes"}
        BY <1>2 DEF PruneSnapshots, PruneCloses, Goto, CtlInv, ProcType
      <3> QED
        BY <3>1, <3>2 DEF CtlInv
    <2> QED
      BY <2>1, <2>2, <2>3
  <1>3. ASSUME PruneUnresolvableCloseEvents(p) \/ UndoDelete(p)
        PROVE  Inv'
    <2>1. DbType' /\ DbInv' /\ files' = files
      BY <1>1, <1>3 DEF PruneUnresolvableCloseEvents, UndoDelete
    <2>2. ProcType' /\ CtlInv'
      BY <1>3, ReleaseKeeps DEF PruneUnresolvableCloseEvents, UndoDelete
    <2> QED
      BY <2>1, <2>2
  <1> QED
    BY <1>2, <1>3 DEF Prune

\* The steps of gc.
LEMMA GcKeeps ==
    ASSUME Inv, NEW p \in Procs, Gc(p)
    PROVE  Inv'
  <1> USE DEF Inv
  <1>1. ASSUME NEW l \in Lanes, GcReapLane(p, l)
        PROVE  Inv'
    <2>1. DbType' /\ DbInv' /\ files' = files
      BY <1>1, DeleteEventsKeeps DEF GcReapLane, DeleteEvents
    <2>2. ProcType'
      BY <1>1 DEF GcReapLane, procVars, ProcType
    <2>3. CtlInv'
      <3>1. \A q \in Procs : pc[q] \notin {"retract", "link"}
        BY <1>1 DEF GcReapLane, CtlInv
      <3> QED
        BY <1>1, <3>1 DEF GcReapLane, procVars, CtlInv
    <2> QED
      BY <2>1, <2>2, <2>3
  <1>2. ASSUME NEW s \in Shas, GcDeleteFile(p, s)
        PROVE  Inv'
    <2>1. DbType' /\ DbInv' /\ files' \in SUBSET Shas
      BY <1>2, UnchangedKeeps DEF GcDeleteFile
    <2>2. ProcType'
      BY <1>2 DEF GcDeleteFile, Goto, ProcType, Labels
    <2>3. CtlInv'
      BY <1>2, ShaAssumption DEF GcDeleteFile, Goto, ProcType, CtlInv, dbVars
    <2> QED
      BY <2>1, <2>2, <2>3
  <1>3. ASSUME NEW s \in Shas, GcKeepFile(p, s)
        PROVE  Inv'
    <2>1. DbType' /\ DbInv' /\ files' = files
      BY <1>3, UnchangedKeeps DEF GcKeepFile
    <2>2. ProcType'
      BY <1>3 DEF GcKeepFile, ProcType
    <2>3. CtlInv'
      BY <1>3 DEF GcKeepFile, CtlInv, dbVars
    <2> QED
      BY <2>1, <2>2, <2>3
  <1>4. ASSUME GcList(p)
        PROVE  Inv'
    <2>1. DbType' /\ DbInv' /\ files' = files
      BY <1>4, UnchangedKeeps DEF GcList
    <2>2. ProcType'
      BY <1>4 DEF GcList, Goto, ProcType, DbType, Labels
    <2>3. CtlInv'
      BY <1>4 DEF GcList, Goto, ProcType, CtlInv, dbVars
    <2> QED
      BY <2>1, <2>2, <2>3
  <1>5. ASSUME GcDeleteRow(p)
        PROVE  Inv'
    <2>1. DbType' /\ DbInv' /\ files' = files /\ events' = events
      <3>1. half[p] \in Shas
        BY <1>5 DEF GcDeleteRow, CtlInv, ProcType
      <3>2. CASE DeleteScrollback(half[p])
        BY <3>1, <3>2, DeleteScrollbackKeeps DEF DeleteScrollback
      <3>3. CASE UNCHANGED <<dbVars, files>>
        BY <3>3, UnchangedKeeps DEF dbVars
      <3> QED
        BY <1>5, <3>2, <3>3 DEF GcDeleteRow
    <2>2. ProcType'
      BY <1>5 DEF GcDeleteRow, Goto, ProcType, Labels
    <2>3. CtlInv'
      BY <1>5, <2>1 DEF GcDeleteRow, Goto, ProcType, CtlInv
    <2> QED
      BY <2>1, <2>2, <2>3
  <1>6. ASSUME GcFinish(p)
        PROVE  Inv'
    <2>1. DbType' /\ DbInv' /\ files' = files
      BY <1>6, UnchangedKeeps DEF GcFinish
    <2>2. ProcType' /\ CtlInv'
      BY <1>6, ReleaseKeeps DEF GcFinish
    <2> QED
      BY <2>1, <2>2
  <1> QED
    BY <1>1, <1>2, <1>3, <1>4, <1>5, <1>6 DEF Gc

\* The empty store is consistent.
LEMMA InitInv == Init => Inv
  <1> SUFFICES ASSUME Init
               PROVE  Inv
    OBVIOUS
  <1>1. ProcType /\ CtlInv /\ files \in SUBSET Shas
    BY DEF Init, ProcType, CtlInv, Labels
  <1>2. DbType
    BY DEF Init, DbType
  <1>3. DbInv
    <2>1. \A s : LinksTo(s) = {}
      BY DEF Init, LinksTo
    <2> QED
      BY <2>1, FS_EmptySet DEF Init, DbInv, ReferentialIntegrity
  <1> QED
    BY <1>1, <1>2, <1>3 DEF Inv

\* Every step of every process keeps it.
LEMMA NextInv == Inv /\ [Next]_vars => Inv'
  <1> SUFFICES ASSUME Inv, [Next]_vars
               PROVE  Inv'
    OBVIOUS
  <1>1. CASE Next
    BY <1>1, AcquireKeeps, AbortKeeps, SaveKeeps, CaptureKeeps, PruneKeeps, GcKeeps DEF Next, Step
  <1>2. CASE UNCHANGED vars
    <2>1. DbType' /\ DbInv'
      BY <1>2, UnchangedKeeps DEF vars, dbVars, Inv
    <2>2. ProcType' /\ files' \in SUBSET Shas
      BY <1>2 DEF vars, Inv, ProcType
    <2>3. CtlInv'
      BY <1>2 DEF vars, Inv, CtlInv
    <2> QED
      BY <2>1, <2>2, <2>3 DEF Inv
  <1> QED
    BY <1>1, <1>2

\* The parts together are an invariant of the specification.
THEOREM Invariance == Spec => []Inv
  BY InitInv, NextInv, PTL DEF Spec

\* Type correctness of the store and of every process that works on it.
THEOREM TypeCorrect == Spec => []TypeOK
  BY TypeParts, Invariance, PTL

\* Whatever statement a save, capture, undo, prune or gc stops at, the
\* refcount column equals the number of links (migration 0001's trigger,
\* LinkEventScrollback, UpsertScrollback, DeleteScrollback).
THEOREM RefcountCorrect == Spec => []RefcountExact
  <1>1. Inv => RefcountExact
    BY DEF Inv, DbInv, DbType, RefcountExact
  <1> QED
    BY <1>1, Invariance, PTL

\* No link dangles: its event and its scrollback row are there, so no
\* statement of the code relies on the foreign key to refuse it later.
THEOREM ReferencesCorrect == Spec => []ReferentialIntegrity
  <1>1. Inv => ReferentialIntegrity
    BY DEF Inv, DbInv
  <1> QED
    BY <1>1, Invariance, PTL
------------------------------------------------------------------------------
(* Every pinned digest is on disk, as long as no gc stops half-way. *)

GcWhole == "gc" \notin FaultyOps

\* The links of torn events too.
EveryLinkOnDisk == \A l \in links : l.sha \in files

BlobInv ==
    /\ \A s \in rows : s \in files \/ \E p \in Procs : pc[p] = "row" /\ half[p] = s
    /\ \A p \in Procs : \A ks \in put[p] : ks[2] \in files
    /\ \A p \in Procs : \A s \in orphans[p] : LinksTo(s) = {}
    /\ \A p \in Procs : pc[p] = "row" => LinksTo(half[p]) = {}
    /\ \A p \in Procs : put[p] # {} => pc[p] = "capture"
    /\ \A p \in Procs : orphans[p] # {} => pc[p] \in {"sweep", "row"}

\* While one process is inside a command, all others are idle.
LEMMA OthersIdle ==
    ASSUME Inv, NEW p \in Procs, pc[p] # "idle"
    PROVE  /\ lock = p
           /\ \A q \in Procs \ {p} : pc[q] = "idle"
  BY DEF Inv, CtlInv

\* A command that ends anywhere but between gc's two halves is harmless.
LEMMA BlobRelease ==
    ASSUME Inv, BlobInv, NEW p \in Procs, pc[p] \notin {"idle", "row"}, Release(p),
           rows' = rows, files' = files, links' \subseteq links
    PROVE  BlobInv'
  <1>1. \A q \in Procs : pc'[q] = "idle" /\ pc[q] # "row"
    BY OthersIdle DEF Release, Goto, Inv, ProcType
  <1>2. \A q \in Procs : /\ put'[q] \subseteq put[q] /\ orphans'[q] \subseteq orphans[q]
                         /\ pc[q] # "capture" => put'[q] = {}
    BY DEF Release, Inv, ProcType, BlobInv
  <1>3. \A q \in Procs : put'[q] = {} /\ orphans'[q] = {}
    <2>1. put'[p] = {} /\ orphans'[p] = {}
      BY DEF Release, Inv, ProcType
    <2>2. ASSUME NEW q \in Procs \ {p}
          PROVE  put'[q] = {} /\ orphans'[q] = {}
      <3>1. pc[q] = "idle"
        BY OthersIdle
      <3> QED
        BY <1>2, <3>1 DEF BlobInv
    <2> QED
      BY <2>1, <2>2
  <1> QED
    BY <1>1, <1>3 DEF BlobInv

\* Nor is a step that adds neither row nor link and touches no file.
LEMMA BlobQuiet ==
    ASSUME Inv, BlobInv, NEW p \in Procs, pc[p] \notin {"idle", "row", "sweep", "capture"},
           pc' = [pc EXCEPT ![p] = pc'[p]], pc'[p] # "row",
           UNCHANGED <<put, orphans, half, rows, files>>, links' \subseteq links
    PROVE  BlobInv'
  <1>1. \A q \in Procs \ {p} : pc'[q] = pc[q]
    BY DEF Inv, ProcType
  <1>2. \A s : LinksTo(s)' \subseteq LinksTo(s)
    BY DEF LinksTo
  <1>3. put[p] = {} /\ orphans[p] = {}
    BY DEF BlobInv
  <1> QED
    BY <1>1, <1>2, <1>3 DEF BlobInv

\* A link is added by a process outside gc, for a digest that has its row.
LEMMA BlobLink ==
    ASSUME Inv, BlobInv, NEW p \in Procs, NEW id, NEW k, NEW s,
           pc[p] = "link", LinkEventScrollback(id, k, s),
           UNCHANGED <<pc, put, orphans, half>>
    PROVE  BlobInv'
  <1>1. \A q \in Procs : pc[q] \notin {"row", "sweep"}
    BY OthersIdle
  <1> QED
    BY <1>1 DEF BlobInv, LinkEventScrollback

\* Taking the flock changes no blob.
LEMMA BlobAcquire ==
    ASSUME Inv, BlobInv, NEW p \in Procs, NEW o \in Ops, Acquire(p, o)
    PROVE  BlobInv'
  <1>1. FirstLabel(o) # "row"
    BY DEF FirstLabel, Ops
  <1>2. \A q \in Procs : pc[q] = "idle"
    BY ProcAssumption DEF Inv, CtlInv, Acquire
  <1>3. \A q \in Procs : put[q] = {} /\ orphans[q] = {}
    BY <1>2 DEF BlobInv
  <1>4. \A q \in Procs : pc'[q] # "row"
    BY <1>1, <1>2 DEF Acquire, Goto, Inv, ProcType
  <1>5. UNCHANGED <<put, orphans, half, rows, files, links>>
    BY DEF Acquire, dbVars
  <1> QED
    BY <1>2, <1>3, <1>4, <1>5 DEF BlobInv

\* A save puts the file before the row.
LEMMA BlobSave ==
    ASSUME Inv, BlobInv, NEW p \in Procs, Save(p)
    PROVE  BlobInv'
  <1>1. ASSUME NEW k \in Panes, NEW s \in Shas, SavePut(p, k, s)
        PROVE  BlobInv'
    <2>1. UNCHANGED <<pc, orphans, half, rows, links>> /\ files' = files \cup {s}
      BY <1>1 DEF SavePut, dbVars
    <2>2. \A q \in Procs : put'[q] = IF q = p THEN put[p] \cup {<<k, s>>} ELSE put[q]
      BY <1>1 DEF SavePut, Inv, ProcType
    <2>3. pc[p] = "capture"
      BY <1>1 DEF SavePut
    <2>4. \A t : LinksTo(t)' = LinksTo(t)
      BY <2>1 DEF LinksTo
    <2> QED
      BY <2>1, <2>2, <2>3, <2>4 DEF BlobInv
  <1>2. ASSUME NEW ks \in Pairs, SaveUpsert(p, ks)
        PROVE  BlobInv'
    <2>1. UNCHANGED <<pc, orphans, half, files, links>> /\ rows' = rows \cup {ks[2]}
      BY <1>2 DEF SaveUpsert, UpsertScrollback
    <2>2. \A q \in Procs : put'[q] \subseteq put[q]
      BY <1>2 DEF SaveUpsert, Inv, ProcType
    <2>3. ks[2] \in files
      BY <1>2 DEF SaveUpsert, BlobInv
    <2>4. \A t : LinksTo(t)' = LinksTo(t)
      BY <2>1 DEF LinksTo
    <2> QED
      BY <2>1, <2>2, <2>3, <2>4 DEF BlobInv
  <1>3. ASSUME NEW ks \in Pairs, SaveLink(p, ks)
        PROVE  BlobInv'
    BY <1>3, BlobLink DEF SaveLink
  <1>4. ASSUME SaveInsert(p)
        PROVE  BlobInv'
    <2>1. UNCHANGED <<put, orphans, half, files, links, rows>> /\ put[p] = {}
      BY <1>4 DEF SaveInsert, InsertEvent
    <2>2. \A q \in Procs : pc'[q] = IF q = p THEN "link" ELSE pc[q]
      BY <1>4 DEF SaveInsert, Goto, Inv, ProcType
    <2>3. pc[p] = "capture"
      BY <1>4 DEF SaveInsert
    <2>4. \A t : LinksTo(t)' = LinksTo(t)
      BY <2>1 DEF LinksTo
    <2> QED
      BY <2>1, <2>2, <2>3, <2>4 DEF BlobInv
  <1>5. ASSUME SaveLinked(p)
        PROVE  BlobInv'
    <2>1. pc' = [pc EXCEPT ![p] = pc'[p]] /\ pc'[p] # "row"
      BY <1>5 DEF SaveLinked, Goto, Inv, ProcType
    <2> QED
      BY <1>5, <2>1, BlobQuiet DEF SaveLinked, dbVars
  <1>6. ASSUME SaveSkips(p)
        PROVE  BlobInv'
    <2>1. UNCHANGED <<put, orphans, half, files, links, rows>> /\ put[p] = {}
      BY <1>6 DEF SaveSkips, dbVars
    <2>2. \A q \in Procs : pc'[q] = IF q = p THEN "snapshots" ELSE pc[q]
      BY <1>6 DEF SaveSkips, Goto, Inv, ProcType
    <2>3. pc[p] = "capture"
      BY <1>6 DEF SaveSkips
    <2>4. \A t : LinksTo(t)' = LinksTo(t)
      BY <2>1 DEF LinksTo
    <2> QED
      BY <2>1, <2>2, <2>3, <2>4 DEF BlobInv
  <1> QED
    BY <1>1, <1>2, <1>3, <1>4, <1>5, <1>6 DEF Save

\* capture, prune and undo remove links or add one to an existing row.
LEMMA BlobOthers ==
    ASSUME Inv, BlobInv, NEW p \in Procs, Capture(p) \/ Prune(p) \/ UndoDelete(p)
    PROVE  BlobInv'
  <1>1. ASSUME NEW ids, DeleteEvents(ids)
        PROVE  rows' = rows /\ files' = files /\ links' \subseteq links
    BY <1>1 DEF DeleteEvents
  <1>2. CASE CaptureInsert(p)
    <2>1. pc' = [pc EXCEPT ![p] = pc'[p]] /\ pc'[p] # "row"
      BY <1>2 DEF CaptureInsert, Goto, Inv, ProcType
    <2> QED
      BY <1>2, <2>1, BlobQuiet DEF CaptureInsert, InsertEvent
  <1>3. CASE CaptureNothing(p) \/ CaptureDone(p)
    BY <1>3, BlobRelease DEF CaptureNothing, CaptureDone, dbVars
  <1>4. CASE CaptureRetract(p) \/ PruneSnapshots(p) \/ PruneCloses(p)
    <2>1. pc' = [pc EXCEPT ![p] = pc'[p]] /\ pc'[p] # "row"
      BY <1>4 DEF CaptureRetract, PruneSnapshots, PruneCloses, Goto, Inv, ProcType
    <2>2. rows' = rows /\ files' = files /\ links' \subseteq links
      BY <1>1, <1>4 DEF CaptureRetract, PruneSnapshots, PruneCloses
    <2> QED
      BY <1>4, <2>1, <2>2, BlobQuiet DEF CaptureRetract, PruneSnapshots, PruneCloses
  <1>5. CASE PruneUnresolvableCloseEvents(p) \/ UndoDelete(p)
    <2>1. rows' = rows /\ files' = files /\ links' \subseteq links
      BY <1>1, <1>5 DEF PruneUnresolvableCloseEvents, UndoDelete
    <2> QED
      BY <1>5, <2>1, BlobRelease DEF PruneUnresolvableCloseEvents, UndoDelete
  <1>6. ASSUME NEW ks \in Pairs, CaptureLink(p, ks)
        PROVE  BlobInv'
    <2>1. CASE LinkEventScrollback(cur[p], ks[1], ks[2])
      BY <1>6, <2>1, BlobLink DEF CaptureLink
    <2>2. CASE UNCHANGED <<dbVars, files>>
      BY <1>6, <2>2 DEF CaptureLink, BlobInv, dbVars, LinksTo
    <2> QED
      BY <1>6, <2>1, <2>2 DEF CaptureLink
  <1> QED
    BY <1>2, <1>3, <1>4, <1>5, <1>6 DEF Capture, Prune

\* gc removes the file of a digest no link names, and then its row.
LEMMA BlobGc ==
    ASSUME GcWhole, Inv, BlobInv, NEW p \in Procs, Gc(p)
    PROVE  BlobInv'
  <1>1. ASSUME NEW l \in Lanes, GcReapLane(p, l)
        PROVE  BlobInv'
    <2>1. pc' = [pc EXCEPT ![p] = pc'[p]] /\ pc'[p] # "row"
      BY <1>1 DEF GcReapLane, procVars, Inv, ProcType
    <2> QED
      BY <1>1, <2>1, BlobQuiet DEF GcReapLane, procVars, DeleteEvents
  <1>2. ASSUME NEW s \in Shas, GcDeleteFile(p, s)
        PROVE  BlobInv'
    <2>1. UNCHANGED <<put, rows, links>> /\ files' = files \ {s} /\ pc[p] = "sweep"
      BY <1>2 DEF GcDeleteFile, dbVars
    <2>2. \A q \in Procs : /\ pc'[q] = IF q = p THEN "row" ELSE pc[q]
                           /\ half'[q] = IF q = p THEN s ELSE half[q]
                           /\ orphans'[q] \subseteq orphans[q]
      BY <1>2 DEF GcDeleteFile, Goto, Inv, ProcType
    <2>3. \A q \in Procs : put[q] = {}
      BY <2>1, OthersIdle DEF BlobInv
    <2>4. \A t : LinksTo(t)' = LinksTo(t)
      BY <2>1 DEF LinksTo
    <2>5. LinksTo(s) = {}
      BY <1>2 DEF GcDeleteFile, BlobInv
    <2> QED
      BY <2>1, <2>2, <2>3, <2>4, <2>5 DEF BlobInv
  <1>3. ASSUME GcList(p)
        PROVE  BlobInv'
    <2>1. UNCHANGED <<put, half, rows, files, links>> /\ pc[p] = "reap"
      BY <1>3 DEF GcList, dbVars
    <2>2. \A q \in Procs :
            /\ pc'[q] = IF q = p THEN "sweep" ELSE pc[q]
            /\ orphans'[q] = IF q = p THEN {s \in rows : refcount[s] <= 0} ELSE orphans[q]
      BY <1>3 DEF GcList, Goto, Inv, ProcType
    <2>3. ASSUME NEW s \in rows, refcount[s] <= 0
          PROVE  LinksTo(s) = {}
      <3>1. IsFiniteSet(LinksTo(s)) /\ Cardinality(LinksTo(s)) \in Nat
        BY LinksToFinite DEF Inv, DbInv
      <3>2. Cardinality(LinksTo(s)) <= 0
        BY <2>3 DEF Inv, DbInv, DbType
      <3>3. Cardinality(LinksTo(s)) = 0
        BY <3>1, <3>2
      <3> QED
        BY <3>1, <3>3, FS_EmptySet
    <2>4. \A t : LinksTo(t)' = LinksTo(t)
      BY <2>1 DEF LinksTo
    <2>5. \A q \in Procs : \A s \in orphans'[q] : LinksTo(s) = {}
      <3>1. ASSUME NEW q \in Procs, NEW s \in orphans'[q], q = p
            PROVE  LinksTo(s) = {}
        BY <2>2, <2>3, <3>1
      <3>2. ASSUME NEW q \in Procs, NEW s \in orphans'[q], q # p
            PROVE  LinksTo(s) = {}
        BY <2>2, <3>2 DEF BlobInv
      <3> QED
        BY <3>1, <3>2
    <2>6. \A q \in Procs : /\ put[q] = {} /\ pc[q] # "row"
                           /\ q # p => orphans[q] = {}
      BY <2>1, OthersIdle DEF BlobInv
    <2>7. \A q \in Procs : /\ pc'[q] # "row"
                           /\ orphans'[q] # {} => pc'[q] = "sweep"
      BY <2>2, <2>6
    <2> QED
      BY <2>1, <2>4, <2>5, <2>6, <2>7 DEF BlobInv
  <1>4. ASSUME GcDeleteRow(p)
        PROVE  BlobInv'
    <2>1. LinksTo(half[p]) = {} /\ pc[p] = "row"
      BY <1>4 DEF GcDeleteRow, BlobInv
    <2>2. rows' = rows \ {half[p]} /\ UNCHANGED <<put, orphans, links, files>>
      BY <1>4, <2>1 DEF GcDeleteRow, GcWhole, DeleteScrollback
    <2>3. \A q \in Procs : pc'[q] = IF q = p THEN "sweep" ELSE "idle"
      BY <1>4, <2>1, OthersIdle DEF GcDeleteRow, Goto, Inv, ProcType
    <2>4. \A q \in Procs \ {p} : pc[q] = "idle"
      BY <2>1, OthersIdle
    <2>5. \A s \in rows' : s \in files
      BY <2>2, <2>4 DEF BlobInv
    <2>6. \A t : LinksTo(t)' = LinksTo(t)
      BY <2>2 DEF LinksTo
    <2>7. \A q \in Procs : put[q] = {} /\ (q # p => orphans[q] = {})
      BY <2>1, <2>4 DEF BlobInv
    <2>8. \A q \in Procs : \A s \in orphans[q] : LinksTo(s) = {}
      BY DEF BlobInv
    <2> QED
      BY <2>2, <2>3, <2>5, <2>6, <2>7, <2>8 DEF BlobInv
  <1>5. CASE GcFinish(p)
    BY <1>5, BlobRelease DEF GcFinish, dbVars
  <1> QED
    BY <1>1, <1>2, <1>3, <1>4, <1>5 DEF Gc, GcKeepFile, GcWhole

\* An abort needs a faulty command, so it never falls between gc's halves.
LEMMA BlobAbort ==
    ASSUME GcWhole, Inv, BlobInv, NEW p \in Procs, Abort(p)
    PROVE  BlobInv'
  <1>1. pc[p] \notin {"idle", "row"}
    BY DEF Abort, GcWhole, Inv, CtlInv
  <1> QED
    BY <1>1, BlobRelease DEF Abort, dbVars

\* With gc never stopped half-way, every digest any event has pinned is on
\* disk, a torn event's too: whatever else dies, and whichever server's gc runs.
THEOREM LinkedBlobCorrect ==
    ASSUME GcWhole
    PROVE  Spec => []EveryLinkOnDisk
  <1>1. Init => BlobInv
    BY DEF Init, BlobInv
  <1>2. Inv /\ BlobInv /\ [Next]_vars => BlobInv'
    <2> SUFFICES ASSUME Inv, BlobInv, [Next]_vars
                 PROVE  BlobInv'
      OBVIOUS
    <2>1. CASE Next
      BY <2>1, BlobAcquire, BlobAbort, BlobSave, BlobOthers, BlobGc DEF Next, Step
    <2>2. CASE UNCHANGED vars
      BY <2>2 DEF vars, BlobInv, LinksTo
    <2> QED
      BY <2>1, <2>2
  <1>3. Inv /\ BlobInv => EveryLinkOnDisk
    <2> SUFFICES ASSUME Inv, BlobInv, NEW l \in links
                 PROVE  l.sha \in files
      BY DEF EveryLinkOnDisk
    <2>1. l.sha \in rows /\ LinksTo(l.sha) # {}
      BY DEF Inv, DbInv, ReferentialIntegrity, LinksTo
    <2> QED
      BY <2>1 DEF BlobInv
  <1> QED
    BY <1>1, <1>2, <1>3, Invariance, PTL DEF Spec

------------------------------------------------------------------------------
(* What a manifest names *)

Writing == {"capture", "retract", "link"}

Linked(id, ks) == [event |-> id, pane |-> ks[1], sha |-> ks[2]] \in links

\* The names of an event are linked, or its process has still to link them,
\* or the event is torn.
EventsPinned ==
    /\ \A e \in events : e.id < nextId
    /\ \A e \in events : e.id \notin torn => \A ks \in e.names :
         Linked(e.id, ks) \/ \E p \in Procs : pc[p] \in {"retract", "link"} /\ cur[p] = e.id /\ ks \in names[p]
    /\ \A l \in links : l.event \notin torn => l.sha \in files

OnePerPane(S) == \A a, b \in S : a[1] = b[1] => a = b

\* What a process has gathered for its event can be linked.
Gathered(p) ==
    /\ pc[p] \in Writing => OnePerPane(names[p])
    /\ pc[p] \in Writing /\ (pc[p] = "capture" \/ cur[p] \notin torn) =>
         \A ks \in names[p] : ks[2] \in rows /\ ks[2] \in files
    /\ pc[p] = "capture" => /\ OnePerPane(names[p] \cup put[p])
                            /\ names[p] \cap put[p] = {}
                            /\ \A ks \in names[p] \cup put[p] : ks[1] \notin todo[p]
                            /\ \A ks \in put[p] : ks[2] \in files
    /\ pc[p] \in {"retract", "link"} =>
         \A ks \in names[p], l \in links : l.event = cur[p] => l.pane # ks[1]
    /\ pc[p] = "idle" => names[p] = {} /\ put[p] = {}
    /\ orphans[p] # {} => pc[p] \in {"sweep", "row"}
    /\ \A s \in orphans[p] : LinksTo(s) = {}

PinInv == EventsPinned /\ \A p \in Procs : Gathered(p)
------------------------------------------------------------------------------
(* Steps that add no event and no link. *)

\* Events go with their links; nothing else does.
Shrinks ==
    /\ events' \subseteq events /\ links' \subseteq links
    /\ \A e \in events', l \in links : l.event = e.id => l \in links'
    /\ UNCHANGED <<nextId, files>>

\* DELETE FROM events is such a step, and so is one that leaves the database.
LEMMA DeleteShrinks ==
    ASSUME NEW ids, DeleteEvents(ids)
    PROVE  Shrinks /\ rows' = rows
  BY DEF DeleteEvents, Shrinks

LEMMA UnchangedShrinks ==
    ASSUME UNCHANGED <<dbVars, files>>
    PROVE  Shrinks /\ rows' = rows
  BY DEF dbVars, Shrinks

\* It unpins nothing an event still names, if a process that drops what it has
\* to link tears its event.
LEMMA ShrinkPins ==
    ASSUME EventsPinned, Shrinks, torn \subseteq torn',
           \A p \in Procs : pc[p] \in {"retract", "link"} =>
               \/ names[p] = {} \/ cur[p] \in torn'
               \/ pc'[p] \in {"retract", "link"} /\ cur'[p] = cur[p] /\ names'[p] = names[p]
    PROVE  EventsPinned'
  <1>1. \A e \in events' : e.id < nextId'
    BY DEF EventsPinned, Shrinks
  <1>2. \A l \in links' : l.event \notin torn' => l.sha \in files'
    BY DEF EventsPinned, Shrinks
  <1>3. ASSUME NEW e \in events', NEW ks \in e.names, e.id \notin torn'
        PROVE  \/ Linked(e.id, ks)'
               \/ \E p \in Procs : pc'[p] \in {"retract", "link"} /\ cur'[p] = e.id /\ ks \in names'[p]
    <2>1. e \in events /\ e.id \notin torn
      BY <1>3 DEF Shrinks
    <2>2. CASE Linked(e.id, ks)
      BY <2>2 DEF Linked, Shrinks
    <2>3. CASE \E p \in Procs : pc[p] \in {"retract", "link"} /\ cur[p] = e.id /\ ks \in names[p]
      BY <1>3, <2>3
    <2> QED
      BY <2>1, <2>2, <2>3 DEF EventsPinned
  <1> QED
    BY <1>1, <1>2, <1>3 DEF EventsPinned

\* The processes that wait for the flock hold nothing.
LEMMA OthersGathered ==
    ASSUME Inv, PinInv, NEW p \in Procs, pc[p] # "idle",
           \A q \in Procs \ {p} : /\ pc'[q] = pc[q] /\ names'[q] = names[q]
                                  /\ put'[q] = put[q] /\ orphans'[q] = orphans[q]
    PROVE  \A q \in Procs \ {p} : Gathered(q)'
  <1> SUFFICES ASSUME NEW q \in Procs \ {p}
               PROVE  Gathered(q)'
    OBVIOUS
  <1>1. pc[q] = "idle"
    BY OthersIdle
  <1>2. names[q] = {} /\ put[q] = {} /\ orphans[q] = {}
    BY <1>1 DEF PinInv, Gathered
  <1> QED
    BY <1>1, <1>2 DEF Gathered, Writing

\* A command that ends, however it ends: what it leaves to link tears its event.
LEMMA ReleasePins ==
    ASSUME Inv, PinInv, NEW p \in Procs, pc[p] # "idle", Release(p), Shrinks
    PROVE  PinInv'
  <1>1. \A q \in Procs \ {p} : pc[q] = "idle"
    BY OthersIdle
  <1>2. EventsPinned'
    <2>1. torn \subseteq torn'
      BY DEF Release
    <2>2. pc[p] \in {"retract", "link"} => names[p] = {} \/ cur[p] \in torn'
      BY DEF Release, Unlinked
    <2>3. \A q \in Procs : pc[q] \in {"retract", "link"} => names[q] = {} \/ cur[q] \in torn'
      BY <1>1, <2>2
    <2> QED
      BY <2>1, <2>3, ShrinkPins DEF PinInv
  <1>3. \A q \in Procs \ {p} : Gathered(q)'
    <2>1. \A q \in Procs \ {p} : /\ pc'[q] = pc[q] /\ names'[q] = names[q]
                                 /\ put'[q] = put[q] /\ orphans'[q] = orphans[q]
      BY DEF Release, Goto, Inv, ProcType
    <2> QED
      BY <2>1, OthersGathered
  <1>4. Gathered(p)'
    <2>1. pc'[p] = "idle" /\ names'[p] = {} /\ put'[p] = {} /\ orphans'[p] = {}
      BY DEF Release, Goto, Inv, ProcType
    <2> QED
      BY <2>1 DEF Gathered, Writing
  <1> QED
    BY <1>2, <1>3, <1>4 DEF PinInv

\* A command that goes on and writes no event: undo, prune and gc.
LEMMA ElsewherePins ==
    ASSUME Inv, PinInv, NEW p \in Procs, pc[p] \notin Writing \cup {"idle"}, Shrinks,
           pc' = [pc EXCEPT ![p] = pc'[p]], pc'[p] \notin Writing \cup {"idle"},
           UNCHANGED <<names, put, torn>>,
           orphans' = [orphans EXCEPT ![p] = orphans'[p]],
           orphans'[p] # {} => pc'[p] \in {"sweep", "row"},
           \A s \in orphans'[p] : LinksTo(s) = {}
    PROVE  PinInv'
  <1>1. \A q \in Procs \ {p} : pc[q] = "idle"
    BY OthersIdle
  <1>2. EventsPinned'
    <2>1. \A q \in Procs : pc[q] \notin {"retract", "link"}
      BY <1>1 DEF Writing
    <2> QED
      BY <2>1, ShrinkPins DEF PinInv
  <1>3. \A q \in Procs \ {p} : Gathered(q)'
    <2>1. \A q \in Procs \ {p} : pc'[q] = pc[q] /\ orphans'[q] = orphans[q]
      BY DEF Inv, ProcType
    <2> QED
      BY <2>1, OthersGathered
  <1>4. Gathered(p)'
    <2>1. \A s : LinksTo(s)' \subseteq LinksTo(s)
      BY DEF LinksTo, Shrinks
    <2> QED
      BY <2>1 DEF Gathered, Writing
  <1> QED
    BY <1>2, <1>3, <1>4 DEF PinInv

\* Taking the flock changes nothing that is pinned or gathered.
LEMMA AcquirePins ==
    ASSUME Inv, PinInv, NEW p \in Procs, NEW o \in Ops, Acquire(p, o)
    PROVE  PinInv'
  <1>1. \A q \in Procs : pc[q] = "idle"
    BY ProcAssumption DEF Inv, CtlInv, Acquire
  <1>2. \A q \in Procs : names'[q] = {} /\ put'[q] = {} /\ orphans'[q] = {}
    BY <1>1 DEF Acquire, PinInv, Gathered
  <1>3. \A q \in Procs : pc'[q] = IF q = p THEN FirstLabel(o) ELSE "idle"
    BY <1>1 DEF Acquire, Goto, Inv, ProcType
  <1>4. op'[p] = o
    BY DEF Acquire, Inv, ProcType
  <1>5. /\ FirstLabel(o) \notin {"retract", "link"}
        /\ FirstLabel(o) = "capture" => o = "save"
    BY DEF FirstLabel, Ops
  <1>6. EventsPinned'
    <2>1. Shrinks /\ torn' = torn
      BY UnchangedShrinks DEF Acquire
    <2> QED
      BY <1>1, <2>1, ShrinkPins DEF PinInv
  <1>7. ASSUME NEW q \in Procs
        PROVE  Gathered(q)'
    <2>1. CASE q = p
      BY <1>2, <1>3, <1>4, <1>5, <2>1 DEF Gathered, Writing, OnePerPane
    <2>2. CASE q # p
      BY <1>2, <1>3, <2>2 DEF Gathered, Writing
    <2> QED
      BY <2>1, <2>2
  <1> QED
    BY <1>6, <1>7 DEF PinInv

\* Whoever fails or dies: what it has still to link tears its event.
LEMMA AbortPins ==
    ASSUME Inv, PinInv, NEW p \in Procs, Abort(p)
    PROVE  PinInv'
  <1>1. Shrinks
    BY UnchangedShrinks DEF Abort
  <1> QED
    BY <1>1, ReleasePins DEF Abort
------------------------------------------------------------------------------
(* save and capture-event: gather, insert, link. *)

\* A step of a writer that has no event yet adds files and rows.
LEMMA GatherPins ==
    ASSUME Inv, EventsPinned, NEW p \in Procs, pc[p] = "capture",
           UNCHANGED <<events, nextId, links, torn>>, files \subseteq files'
    PROVE  EventsPinned'
  <1>1. \A q \in Procs : pc[q] \notin {"retract", "link"}
    BY OthersIdle
  <1> QED
    BY <1>1 DEF EventsPinned, Linked

\* A new event's names wait for their links, and no link has its id.
LEMMA InsertPins ==
    ASSUME Inv, EventsPinned, NEW p \in Procs, NEW k, NEW ns, InsertEvent(p, k, ns),
           pc[p] \notin {"idle", "retract", "link"}, pc'[p] \in {"retract", "link"},
           names'[p] = ns, torn \subseteq torn'
    PROVE  EventsPinned' /\ \A l \in links' : l.event # cur'[p]
  <1> DEFINE new == [id |-> nextId, lane |-> LaneOf[p], kind |-> k, names |-> ns]
  <1>1. nextId \in Nat /\ nextId' = nextId + 1 /\ events' = events \cup {new} /\ cur'[p] = nextId
    BY DEF Inv, DbType, ProcType, InsertEvent
  <1>2. UNCHANGED <<links, files>>
    BY DEF InsertEvent
  <1>3. \A q \in Procs : pc[q] \notin {"retract", "link"}
    BY OthersIdle
  <1>4. ASSUME NEW e \in events', NEW ks \in e.names, e.id \notin torn'
        PROVE  \/ Linked(e.id, ks)'
               \/ \E q \in Procs : pc'[q] \in {"retract", "link"} /\ cur'[q] = e.id /\ ks \in names'[q]
    <2>1. CASE e = new
      BY <1>1, <2>1
    <2>2. CASE e \in events
      BY <1>2, <1>3, <1>4, <2>2 DEF EventsPinned, Linked
    <2> QED
      BY <1>1, <2>1, <2>2
  <1>5. \A e \in events' : e.id < nextId'
    <2>1. \A e \in events : e.id \in Nat
      BY DEF Inv, DbType, EventRecords
    <2> QED
      BY <1>1, <2>1 DEF EventsPinned
  <1>6. \A l \in links : l.event # nextId
    <2>1. ASSUME NEW l \in links
          PROVE  l.event # nextId
      <3>1. PICK e \in events : e.id = l.event
        BY DEF Inv, DbInv, ReferentialIntegrity
      <3>2. e.id < nextId
        BY DEF EventsPinned
      <3> QED
        BY <1>1, <3>1, <3>2
    <2> QED
      BY <2>1
  <1> QED
    BY <1>1, <1>2, <1>4, <1>5, <1>6 DEF EventsPinned

\* The link of a waiting name pins it for good.
LEMMA LinkPins ==
    ASSUME Inv, PinInv, NEW p \in Procs, NEW ks \in Pairs, pc[p] = "link", ks \in names[p],
           LinkEventScrollback(cur[p], ks[1], ks[2]),
           names' = [names EXCEPT ![p] = @ \ {ks}], UNCHANGED <<op, pc, put, cur, orphans, torn>>
    PROVE  PinInv'
  <1> DEFINE new == [event |-> cur[p], pane |-> ks[1], sha |-> ks[2]]
  <1>1. links' = links \cup {new} /\ UNCHANGED <<events, nextId, rows, files>>
    BY DEF LinkEventScrollback
  <1>2. names'[p] = names[p] \ {ks} /\ \A q \in Procs \ {p} : names'[q] = names[q]
    BY DEF Inv, ProcType
  <1>3. \A q \in Procs \ {p} : pc[q] = "idle"
    BY OthersIdle
  <1>4. ASSUME NEW e \in events, NEW js \in e.names, e.id \notin torn
        PROVE  \/ Linked(e.id, js)'
               \/ \E q \in Procs : pc'[q] \in {"retract", "link"} /\ cur'[q] = e.id /\ js \in names'[q]
    <2>1. CASE Linked(e.id, js)
      BY <1>1, <2>1 DEF Linked
    <2>2. CASE cur[p] = e.id /\ js \in names[p]
      <3>1. CASE js = ks
        BY <1>1, <2>2, <3>1 DEF Linked
      <3>2. CASE js # ks
        BY <1>2, <2>2, <3>2
      <3> QED
        BY <3>1, <3>2
    <2> QED
      BY <1>3, <1>4, <2>1, <2>2 DEF PinInv, EventsPinned
  <1>5. EventsPinned'
    <2>1. cur[p] \notin torn => ks[2] \in files
      BY DEF PinInv, Gathered, Writing
    <2> QED
      BY <1>1, <1>4, <2>1 DEF PinInv, EventsPinned
  <1>6. \A q \in Procs \ {p} : Gathered(q)'
    BY <1>2, OthersGathered
  <1>7. Gathered(p)'
    <2>1. /\ OnePerPane(names[p])
          /\ cur[p] \notin torn => \A js \in names[p] : js[2] \in rows /\ js[2] \in files
      BY DEF PinInv, Gathered, Writing
    <2>2. /\ OnePerPane(names'[p])
          /\ cur'[p] \notin torn' => \A js \in names'[p] : js[2] \in rows' /\ js[2] \in files'
      BY <1>1, <1>2, <2>1 DEF OnePerPane
    <2>3. \A js \in names'[p], l \in links' : l.event = cur'[p] => l.pane # js[1]
      <3>1. \A js \in names'[p] : js[1] # ks[1]
        BY <1>2, <2>1 DEF OnePerPane
      <3>2. \A js \in names[p], l \in links : l.event = cur[p] => l.pane # js[1]
        BY DEF PinInv, Gathered
      <3> QED
        BY <1>1, <1>2, <3>1, <3>2
    <2>4. orphans[p] = {}
      BY DEF PinInv, Gathered
    <2> QED
      BY <2>2, <2>3, <2>4 DEF Gathered
  <1> QED
    BY <1>5, <1>6, <1>7 DEF PinInv

\* A link that is not made tears the event and changes nothing else.
LEMMA UnlinkedPins ==
    ASSUME Inv, PinInv, NEW p \in Procs, NEW ks \in Pairs, pc[p] = "link", ks \in names[p],
           UNCHANGED <<dbVars, files>>, torn' = torn \cup {cur[p]},
           names' = [names EXCEPT ![p] = @ \ {ks}], UNCHANGED <<op, pc, put, cur, orphans>>
    PROVE  PinInv'
  <1>1. names'[p] = names[p] \ {ks} /\ \A q \in Procs \ {p} : names'[q] = names[q]
    BY DEF Inv, ProcType
  <1>2. EventsPinned'
    <2>1. Shrinks
      BY UnchangedShrinks
    <2>2. \A q \in Procs : pc[q] \in {"retract", "link"} => cur[q] \in torn'
      BY OthersIdle
    <2> QED
      BY <2>1, <2>2, ShrinkPins DEF PinInv
  <1>3. \A q \in Procs \ {p} : Gathered(q)'
    BY <1>1, OthersGathered
  <1>4. Gathered(p)'
    <2>1. OnePerPane(names'[p])
      BY <1>1 DEF PinInv, Gathered, Writing, OnePerPane
    <2>2. UNCHANGED links /\ cur'[p] \in torn' /\ pc'[p] = "link" /\ orphans[p] = {}
      BY DEF dbVars, PinInv, Gathered
    <2>3. \A js \in names'[p], l \in links : l.event = cur[p] => l.pane # js[1]
      BY <1>1 DEF PinInv, Gathered
    <2> QED
      BY <2>1, <2>2, <2>3 DEF Gathered
  <1> QED
    BY <1>2, <1>3, <1>4 DEF PinInv

\* The steps of a save.
LEMMA SavePins ==
    ASSUME Inv, PinInv, NEW p \in Procs, Save(p)
    PROVE  PinInv'
  <1>1. ASSUME NEW k \in Panes, NEW s \in Shas, SavePut(p, k, s)
        PROVE  PinInv'
    <2>1. UNCHANGED <<op, pc, names, cur, orphans, torn, dbVars>> /\ files' = files \cup {s}
      BY <1>1 DEF SavePut
    <2>2. /\ put'[p] = put[p] \cup {<<k, s>>} /\ todo'[p] = todo[p] \ {k}
          /\ \A q \in Procs \ {p} : put'[q] = put[q]
      BY <1>1 DEF SavePut, Inv, ProcType
    <2>3. EventsPinned'
      BY <1>1, <2>1, GatherPins DEF SavePut, PinInv, dbVars
    <2>4. \A q \in Procs \ {p} : Gathered(q)'
      BY <1>1, <2>1, <2>2, OthersGathered DEF SavePut
    <2>5. Gathered(p)'
      <3>1. pc[p] = "capture" /\ k \in todo[p] /\ Gathered(p)
        BY <1>1 DEF SavePut, PinInv
      <3>2. OnePerPane(names'[p] \cup put'[p])
        BY <2>1, <2>2, <3>1 DEF Gathered, OnePerPane
      <3>3. \A ks \in names'[p] \cup put'[p] : ks[1] \notin todo'[p]
        BY <2>1, <2>2, <3>1 DEF Gathered
      <3>4. names'[p] \cap put'[p] = {} /\ \A ks \in put'[p] : ks[2] \in files'
        BY <2>1, <2>2, <3>1 DEF Gathered
      <3> QED
        BY <2>1, <3>1, <3>2, <3>3, <3>4 DEF Gathered, Writing, dbVars
    <2> QED
      BY <2>3, <2>4, <2>5 DEF PinInv
  <1>2. ASSUME NEW ks \in Pairs, SaveUpsert(p, ks)
        PROVE  PinInv'
    <2>1. UNCHANGED <<op, pc, todo, cur, orphans, torn, events, nextId, links, files>>
          /\ rows' = rows \cup {ks[2]}
      BY <1>2 DEF SaveUpsert, UpsertScrollback
    <2>2. /\ put'[p] = put[p] \ {ks} /\ names'[p] = names[p] \cup {ks}
          /\ \A q \in Procs \ {p} : put'[q] = put[q] /\ names'[q] = names[q]
      BY <1>2 DEF SaveUpsert, Inv, ProcType
    <2>3. EventsPinned'
      BY <1>2, <2>1, GatherPins DEF SaveUpsert, PinInv
    <2>4. \A q \in Procs \ {p} : Gathered(q)'
      BY <1>2, <2>1, <2>2, OthersGathered DEF SaveUpsert
    <2>5. Gathered(p)'
      <3>1. pc[p] = "capture" /\ ks \in put[p] /\ Gathered(p)
        BY <1>2 DEF SaveUpsert, PinInv
      <3>2. names'[p] \cup put'[p] = names[p] \cup put[p] /\ names'[p] \subseteq names[p] \cup put[p]
        BY <2>2, <3>1
      <3>3. OnePerPane(names'[p] \cup put'[p]) /\ OnePerPane(names'[p])
        BY <3>1, <3>2 DEF Gathered, OnePerPane
      <3>4. names'[p] \cap put'[p] = {}
        BY <2>2, <3>1 DEF Gathered
      <3>5. \A js \in names'[p] : js[2] \in rows' /\ js[2] \in files'
        BY <2>1, <2>2, <3>1 DEF Gathered, Writing
      <3>6. \A s : LinksTo(s)' = LinksTo(s)
        BY <2>1 DEF LinksTo
      <3> QED
        BY <2>1, <2>2, <3>1, <3>2, <3>3, <3>4, <3>5, <3>6 DEF Gathered, Writing
    <2> QED
      BY <2>3, <2>4, <2>5 DEF PinInv
  <1>3. ASSUME NEW ks \in Pairs, SaveLink(p, ks)
        PROVE  PinInv'
    BY <1>3, LinkPins DEF SaveLink
  <1>4. CASE SaveInsert(p)
    <2>1. /\ InsertEvent(p, "snapshot", names[p])
          /\ UNCHANGED <<op, put, names, orphans, torn>> /\ pc[p] = "capture" /\ put[p] = {}
      BY <1>4 DEF SaveInsert
    <2>2. pc'[p] = "link" /\ \A q \in Procs \ {p} : pc'[q] = pc[q]
      BY <1>4 DEF SaveInsert, Goto, Inv, ProcType
    <2>3. EventsPinned' /\ \A l \in links' : l.event # cur'[p]
      BY <2>1, <2>2, InsertPins DEF PinInv
    <2>4. \A q \in Procs \ {p} : Gathered(q)'
      BY <2>1, <2>2, OthersGathered
    <2>5. Gathered(p)'
      <3>1. Gathered(p) /\ UNCHANGED <<rows, files>> /\ orphans[p] = {}
        BY <2>1 DEF InsertEvent, PinInv, Gathered
      <3> QED
        BY <2>1, <2>2, <2>3, <3>1 DEF Gathered, Writing
    <2> QED
      BY <2>3, <2>4, <2>5 DEF PinInv
  <1>5. CASE SaveLinked(p)
    <2>1. Shrinks
      BY <1>5, UnchangedShrinks DEF SaveLinked
    <2>2. /\ pc[p] = "link" /\ pc'[p] = "snapshots" /\ \A q \in Procs \ {p} : pc'[q] = pc[q]
          /\ names[p] = {} /\ UNCHANGED <<names, put, orphans, torn>>
      BY <1>5 DEF SaveLinked, Goto, Inv, ProcType
    <2>3. EventsPinned'
      <3>1. \A q \in Procs : pc[q] \in {"retract", "link"} => names[q] = {}
        BY <2>2, OthersIdle
      <3> QED
        BY <2>1, <2>2, <3>1, ShrinkPins DEF PinInv
    <2>4. \A q \in Procs \ {p} : Gathered(q)'
      BY <2>2, OthersGathered
    <2>5. Gathered(p)'
      <3>1. orphans[p] = {}
        BY <2>2 DEF PinInv, Gathered
      <3> QED
        BY <2>2, <3>1 DEF Gathered, Writing
    <2> QED
      BY <2>3, <2>4, <2>5 DEF PinInv
  <1>6. CASE SaveSkips(p)
    <2>1. Shrinks
      BY <1>6, UnchangedShrinks DEF SaveSkips
    <2>2. /\ pc[p] = "capture" /\ pc'[p] = "snapshots" /\ \A q \in Procs \ {p} : pc'[q] = pc[q]
          /\ names[p] = {} /\ put[p] = {} /\ UNCHANGED <<names, put, orphans, torn>>
      BY <1>6 DEF SaveSkips, Goto, Inv, ProcType
    <2>3. EventsPinned'
      <3>1. \A q \in Procs : pc[q] \notin {"retract", "link"}
        BY <2>2, OthersIdle
      <3> QED
        BY <2>1, <2>2, <3>1, ShrinkPins DEF PinInv
    <2>4. \A q \in Procs \ {p} : Gathered(q)'
      BY <2>2, OthersGathered
    <2>5. Gathered(p)'
      <3>1. orphans[p] = {}
        BY <2>2 DEF PinInv, Gathered
      <3> QED
        BY <2>2, <3>1 DEF Gathered, Writing
    <2> QED
      BY <2>3, <2>4, <2>5 DEF PinInv
  <1> QED
    BY <1>1, <1>2, <1>3, <1>4, <1>5, <1>6 DEF Save

\* The steps of a capture-event: what it embeds is pinned by a snapshot, so it
\* has its row and its file, and no link of it is refused; what it takes from a
\* torn snapshot, or fails to link, tears its own event.
LEMMA CapturePins ==
    ASSUME Inv, PinInv, NEW p \in Procs, Capture(p)
    PROVE  PinInv'
  <1>1. CASE CaptureInsert(p)
    <2>1. PICK ns \in Embeddable(LaneOf[p]) :
            /\ InsertEvent(p, "close", ns) /\ names' = [names EXCEPT ![p] = ns]
            /\ torn' = IF ns \subseteq Named({e \in Snapshots(LaneOf[p]) : e.id \notin torn})
                         THEN torn ELSE torn \cup {nextId}
      BY <1>1 DEF CaptureInsert
    <2>2. /\ pc[p] = "insert" /\ op[p] = "capture" /\ UNCHANGED <<op, put, orphans>>
          /\ pc'[p] = "retract" /\ names'[p] = ns
          /\ \A q \in Procs \ {p} : pc'[q] = pc[q] /\ names'[q] = names[q]
      BY <1>1, <2>1 DEF CaptureInsert, Goto, Inv, ProcType
    <2>3. EventsPinned' /\ \A l \in links' : l.event # cur'[p]
      BY <2>1, <2>2, InsertPins DEF PinInv
    <2>4. \A q \in Procs \ {p} : Gathered(q)'
      BY <2>2, OthersGathered
    <2>5. OnePerPane(ns)
      BY DEF Embeddable, OnePerPane
    <2>6. ASSUME NEW ks \in ns, cur'[p] \notin torn'
          PROVE  ks[2] \in rows /\ ks[2] \in files
      <3> cur'[p] = nextId
        BY <2>1 DEF InsertEvent, Inv, ProcType
      <3>1. PICK e \in events : ks \in e.names /\ e.id \notin torn
        BY <2>1, <2>6 DEF Named, Snapshots
      <3>2. \A q \in Procs : pc[q] \notin {"retract", "link"}
        BY <2>2, OthersIdle
      <3>3. Linked(e.id, ks)
        BY <3>1, <3>2 DEF PinInv, EventsPinned
      <3> QED
        BY <3>1, <3>3 DEF Linked, Inv, DbInv, ReferentialIntegrity, PinInv, EventsPinned
    <2>7. Gathered(p)'
      <3>1. UNCHANGED <<rows, files>> /\ orphans[p] = {}
        BY <2>1, <2>2 DEF InsertEvent, PinInv, Gathered
      <3> QED
        BY <2>2, <2>3, <2>5, <2>6, <3>1 DEF Gathered, Writing
    <2> QED
      BY <2>3, <2>4, <2>7 DEF PinInv
  <1>2. CASE CaptureNothing(p) \/ CaptureDone(p)
    <2>1. Shrinks
      BY <1>2, UnchangedShrinks DEF CaptureNothing, CaptureDone
    <2> QED
      BY <1>2, <2>1, ReleasePins DEF CaptureNothing, CaptureDone
  <1>3. CASE CaptureRetract(p)
    <2>1. Shrinks /\ rows' = rows
      BY <1>3, DeleteShrinks DEF CaptureRetract
    <2>2. /\ pc[p] = "retract" /\ pc'[p] = "link" /\ \A q \in Procs \ {p} : pc'[q] = pc[q]
          /\ UNCHANGED <<op, names, put, cur, orphans, torn>>
      BY <1>3 DEF CaptureRetract, Goto, Inv, ProcType
    <2>3. EventsPinned'
      <3>1. \A q \in Procs : pc[q] \in {"retract", "link"} =>
               pc'[q] \in {"retract", "link"} /\ cur'[q] = cur[q] /\ names'[q] = names[q]
        BY <2>2
      <3> QED
        BY <2>1, <2>2, <3>1, ShrinkPins DEF PinInv
    <2>4. \A q \in Procs \ {p} : Gathered(q)'
      BY <2>2, OthersGathered
    <2>5. Gathered(p)'
      <3>1. Gathered(p) /\ orphans[p] = {}
        BY <2>2 DEF PinInv, Gathered
      <3>2. links' \subseteq links /\ files' = files
        BY <2>1 DEF Shrinks
      <3> QED
        BY <2>1, <2>2, <3>1, <3>2 DEF Gathered, Writing
    <2> QED
      BY <2>3, <2>4, <2>5 DEF PinInv
  <1>4. ASSUME NEW ks \in Pairs, CaptureLink(p, ks)
        PROVE  PinInv'
    <2>1. pc[p] = "link" /\ ks \in names[p]
      BY <1>4 DEF CaptureLink
    <2>2. CASE LinkEventScrollback(cur[p], ks[1], ks[2]) /\ UNCHANGED torn
      BY <1>4, <2>1, <2>2, LinkPins DEF CaptureLink
    <2>3. CASE torn' = torn \cup {cur[p]} /\ UNCHANGED <<dbVars, files>>
      BY <1>4, <2>1, <2>3, UnlinkedPins DEF CaptureLink
    <2> QED
      BY <1>4, <2>2, <2>3 DEF CaptureLink
  <1> QED
    BY <1>1, <1>2, <1>3, <1>4 DEF Capture

\* Events go with the links they have.
LEMMA DeletionsPin ==
    ASSUME Inv, PinInv, NEW p \in Procs, Prune(p) \/ UndoDelete(p)
    PROVE  PinInv'
  <1>1. CASE PruneSnapshots(p) \/ PruneCloses(p)
    <2>1. Shrinks
      BY <1>1, DeleteShrinks DEF PruneSnapshots, PruneCloses
    <2>2. /\ pc[p] \in {"snapshots", "closes"} /\ UNCHANGED <<names, put, orphans, torn>>
          /\ pc' = [pc EXCEPT ![p] = pc'[p]] /\ pc'[p] \in {"floor", "closes"}
      BY <1>1 DEF PruneSnapshots, PruneCloses, Goto, Inv, ProcType
    <2>3. orphans' = [orphans EXCEPT ![p] = orphans'[p]] /\ orphans'[p] = {}
      BY <2>2 DEF Inv, ProcType, PinInv, Gathered
    <2> QED
      BY <2>1, <2>2, <2>3, ElsewherePins DEF Writing
  <1>2. CASE PruneUnresolvableCloseEvents(p) \/ UndoDelete(p)
    <2>1. Shrinks
      BY <1>2, DeleteShrinks DEF PruneUnresolvableCloseEvents, UndoDelete
    <2> QED
      BY <1>2, <2>1, ReleasePins DEF PruneUnresolvableCloseEvents, UndoDelete
  <1> QED
    BY <1>1, <1>2 DEF Prune

\* gc takes the files and rows of what has no link, and nobody waits for a
\* link while it does.
LEMMA GcPins ==
    ASSUME Inv, PinInv, NEW p \in Procs, Gc(p)
    PROVE  PinInv'
  <1>1. ASSUME NEW l \in Lanes, GcReapLane(p, l)
        PROVE  PinInv'
    <2>1. Shrinks
      BY <1>1, DeleteShrinks DEF GcReapLane
    <2>2. pc[p] = "reap" /\ UNCHANGED <<pc, names, put, orphans, torn>> /\ orphans[p] = {}
      BY <1>1 DEF GcReapLane, procVars, PinInv, Gathered
    <2>3. pc' = [pc EXCEPT ![p] = pc'[p]] /\ orphans' = [orphans EXCEPT ![p] = orphans'[p]]
      BY <2>2 DEF Inv, ProcType
    <2> QED
      BY <2>1, <2>2, <2>3, ElsewherePins DEF Writing
  <1>2. CASE GcList(p)
    <2>1. Shrinks
      BY <1>2, UnchangedShrinks DEF GcList
    <2>2. /\ pc[p] = "reap" /\ pc'[p] = "sweep" /\ pc' = [pc EXCEPT ![p] = pc'[p]]
          /\ UNCHANGED <<names, put, torn>>
          /\ orphans' = [orphans EXCEPT ![p] = orphans'[p]]
          /\ orphans'[p] = {s \in rows : refcount[s] <= 0}
      BY <1>2 DEF GcList, Goto, Inv, ProcType
    <2>3. ASSUME NEW s \in rows, refcount[s] <= 0
          PROVE  LinksTo(s) = {}
      <3>1. IsFiniteSet(LinksTo(s)) /\ Cardinality(LinksTo(s)) \in Nat
        BY LinksToFinite DEF Inv, DbInv
      <3>2. Cardinality(LinksTo(s)) <= 0
        BY <2>3 DEF Inv, DbInv, DbType
      <3>3. Cardinality(LinksTo(s)) = 0
        BY <3>1, <3>2
      <3> QED
        BY <3>1, <3>3, FS_EmptySet
    <2>4. \A s \in orphans'[p] : LinksTo(s) = {}
      BY <2>2, <2>3
    <2> QED
      BY <2>1, <2>2, <2>4, ElsewherePins DEF Writing
  <1>3. ASSUME NEW s \in Shas, GcDeleteFile(p, s) \/ GcKeepFile(p, s) \/ GcDeleteRow(p)
        PROVE  PinInv'
    <2>1. /\ pc[p] \in {"sweep", "row"} /\ UNCHANGED <<names, put, cur, torn>>
          /\ pc'[p] \in {"sweep", "row"} /\ \A q \in Procs \ {p} : pc'[q] = pc[q] /\ orphans'[q] = orphans[q]
          /\ orphans'[p] \subseteq orphans[p]
      BY <1>3 DEF GcDeleteFile, GcKeepFile, GcDeleteRow, Goto, Inv, ProcType
    <2>2. UNCHANGED <<events, nextId, links>>
      BY <1>3 DEF GcDeleteFile, GcKeepFile, GcDeleteRow, DeleteScrollback, dbVars
    <2>3. \A l \in links : l.event \notin torn => l.sha \in files'
      <3>1. CASE GcDeleteFile(p, s)
        <4>1. files' = files \ {s} /\ LinksTo(s) = {}
          BY <3>1 DEF GcDeleteFile, PinInv, Gathered
        <4> QED
          BY <4>1 DEF LinksTo, PinInv, EventsPinned
      <3>2. CASE GcKeepFile(p, s) \/ GcDeleteRow(p)
        BY <3>2 DEF GcKeepFile, GcDeleteRow, DeleteScrollback, PinInv, EventsPinned
      <3> QED
        BY <1>3, <3>1, <3>2
    <2>4. EventsPinned'
      <3>1. \A q \in Procs : pc[q] \notin {"retract", "link"}
        BY <2>1, OthersIdle
      <3> QED
        BY <2>1, <2>2, <2>3, <3>1 DEF PinInv, EventsPinned, Linked
    <2>5. \A q \in Procs \ {p} : Gathered(q)'
      BY <2>1, OthersGathered
    <2>6. Gathered(p)'
      <3>1. \A t : LinksTo(t)' = LinksTo(t)
        BY <2>2 DEF LinksTo
      <3> QED
        BY <2>1, <3>1 DEF PinInv, Gathered, Writing
    <2> QED
      BY <2>4, <2>5, <2>6 DEF PinInv
  <1>4. CASE GcFinish(p)
    <2>1. Shrinks
      BY <1>4, UnchangedShrinks DEF GcFinish
    <2> QED
      BY <1>4, <2>1, ReleasePins DEF GcFinish
  <1>5. CASE GcDeleteRow(p)
    <2>1. half[p] \in Shas
      BY <1>5 DEF GcDeleteRow, Inv, ProcType, CtlInv
    <2> QED
      BY <1>3, <1>5, <2>1
  <1> QED
    BY <1>1, <1>2, <1>3, <1>4, <1>5 DEF Gc
------------------------------------------------------------------------------
\* The invariant of this module, on top of that of ScrollbackStoreProofs.
THEOREM PinsHold == Spec => [](Inv /\ PinInv)
  <1>1. Init => PinInv
    <2> SUFFICES ASSUME Init
                 PROVE  PinInv
      OBVIOUS
    <2>1. EventsPinned
      BY DEF Init, EventsPinned
    <2>2. ASSUME NEW p \in Procs
          PROVE  Gathered(p)
      BY DEF Init, Gathered, Writing
    <2> QED
      BY <2>1, <2>2 DEF PinInv
  <1>2. Inv /\ PinInv /\ [Next]_vars => PinInv'
    <2> SUFFICES ASSUME Inv, PinInv, [Next]_vars
                 PROVE  PinInv'
      OBVIOUS
    <2>1. CASE Next
      BY <2>1, AcquirePins, AbortPins, SavePins, CapturePins, DeletionsPin, GcPins DEF Next, Step
    <2>2. CASE UNCHANGED vars
      <3>1. EventsPinned'
        BY <2>2 DEF vars, PinInv, EventsPinned, Linked
      <3>2. ASSUME NEW p \in Procs
            PROVE  Gathered(p)'
        BY <2>2 DEF vars, PinInv, Gathered, OnePerPane, LinksTo
      <3> QED
        BY <3>1, <3>2 DEF PinInv
    <2> QED
      BY <2>1, <2>2
  <1> QED
    BY <1>1, <1>2, Invariance, PTL DEF Spec

\* What an event's manifest names stays linked to it once its command has
\* linked it, whatever saves, captures, prunes, undos and gcs run or die
\* (save.go:119-131, capture.go:235-242).
THEOREM NamesPinnedCorrect == Spec => []NamesPinned
  <1>1. PinInv => NamesPinned
    BY DEF PinInv, EventsPinned, NamesPinned, Linking, Linked
  <1> QED
    BY <1>1, PinsHold, PTL

\* The digest an event has pinned is on disk although any command may die at
\* any step, gc between a file and its row too: LinkedBlobCorrect's claim
\* without its assumption, for all events that are not torn.
THEOREM PinnedOnDiskCorrect == Spec => []LinkedBlobOnDisk
  <1>1. PinInv => LinkedBlobOnDisk
    BY DEF PinInv, EventsPinned, LinkedBlobOnDisk
  <1> QED
    BY <1>1, PinsHold, PTL
==============================================================================
