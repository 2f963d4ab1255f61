--------------------------- MODULE ScrollbackStore ---------------------------
(***************************************************************************)
(* The store every tmux-remux command shares: the events table with its    *)
(* event_scrollbacks links, the scrollbacks table with its reference       *)
(* counts, and the content-addressed files beside the database.            *)
(*                                                                         *)
(* A command is a process of its own (a tmux hook, a systemd timer, a key  *)
(* binding).  It runs under one exclusive flock, but it is not one         *)
(* transaction: every statement, every file operation and every link is a  *)
(* step, and the process may stop between any two of them.                 *)
(*                                                                         *)
(* Abstracted: timestamps follow event ids; a manifest is the set of       *)
(* <<pane, sha>> pairs it names; which close rows a capture retracts or an *)
(* undo removes is any set of its lane's close rows (module CloseEvents    *)
(* has the choice itself).                                                 *)
(***************************************************************************)
EXTENDS Integers, FiniteSets

CONSTANTS
    Procs,          \* processes that run commands
    NoProc,         \* the lock is free
    Lanes,          \* server keys: one tmux socket path each
    LaneOf,         \* the server each process targets: serverKey()
    Panes,          \* pane keys "session:window:pane"
    Shas,           \* digests of pane contents
    NoSha,          \* gc is not between the two halves of a removal
    MaxEvents,      \* bound on the event ids handed out
    SnapshotKeep,   \* SnapshotHistoryLimit
    CloseKeep,      \* CloseEventLimit
    FaultyOps       \* the commands that may fail or die part-way

Ops == {"save", "capture", "undo", "prune", "gc"}

ASSUME ProcAssumption == NoProc \notin Procs
ASSUME LaneAssumption == LaneOf \in [Procs -> Lanes]
ASSUME ShaAssumption == NoSha \notin Shas
ASSUME LimitAssumption == /\ MaxEvents \in Nat
                          /\ SnapshotKeep \in Nat
                          /\ CloseKeep \in Nat
ASSUME FaultAssumption == FaultyOps \subseteq Ops

(* Implementation variables *)
VARIABLES
    lock,       \* the process that holds the flock, or NoProc
    op, pc,     \* what each process runs and where it is
    todo,       \* save: panes a worker has still to capture
    put,        \* save: pairs whose file is in place and whose row is not
    names,      \* pairs waiting to be linked to the process's event
    cur,        \* the event being linked
    orphans,    \* gc: digests listed with no reference, still to remove
    half,       \* gc: the digest whose file is gone and whose row is not
    events,     \* rows of events: [id, lane, kind, names]
    nextId,     \* AUTOINCREMENT
    links,      \* rows of event_scrollbacks: [event, pane, sha]
    rows,       \* primary keys of scrollbacks
    refcount,   \* their refcount column (0 for an absent row)
    files       \* digests with a file in the content-addressed directory

(* History, which no step reads: the events whose command did not link every
   screen of the manifest, or took one from the manifest of such an event. *)
VARIABLE torn

procVars == <<lock, op, pc, todo, put, names, cur, orphans, half, torn>>
dbVars == <<events, nextId, links, rows, refcount>>
vars == <<lock, op, pc, todo, put, names, cur, orphans, half,
          events, nextId, links, rows, refcount, files, torn>>

Labels == {"idle", "capture", "insert", "retract", "link", "delete",
           "snapshots", "closes", "floor", "reap", "sweep", "row"}
Pairs == Panes \X Shas
Kinds == {"snapshot", "close"}
EventRecords == [id : Nat, lane : Lanes, kind : Kinds, names : SUBSET Pairs]
LinkRecords == [event : Nat, pane : Panes, sha : Shas]

TypeOK ==
    /\ lock \in Procs \cup {NoProc}
    /\ op \in [Procs -> Ops \cup {"none"}]
    /\ pc \in [Procs -> Labels]
    /\ todo \in [Procs -> SUBSET Panes]
    /\ put \in [Procs -> SUBSET Pairs]
    /\ names \in [Procs -> SUBSET Pairs]
    /\ cur \in [Procs -> Nat]
    /\ orphans \in [Procs -> SUBSET Shas]
    /\ half \in [Procs -> Shas \cup {NoSha}]
    /\ events \in SUBSET EventRecords
    /\ nextId \in Nat
    /\ links \in SUBSET LinkRecords
    /\ rows \in SUBSET Shas
    /\ refcount \in [Shas -> Nat]
    /\ files \in SUBSET Shas
    /\ torn \in SUBSET Nat

Init ==
    /\ lock = NoProc
    /\ op = [p \in Procs |-> "none"]
    /\ pc = [p \in Procs |-> "idle"]
    /\ todo = [p \in Procs |-> {}]
    /\ put = [p \in Procs |-> {}]
    /\ names = [p \in Procs |-> {}]
    /\ cur = [p \in Procs |-> 0]
    /\ orphans = [p \in Procs |-> {}]
    /\ half = [p \in Procs |-> NoSha]
    /\ events = {}
    /\ nextId = 1
    /\ links = {}
    /\ rows = {}
    /\ refcount = [s \in Shas |-> 0]
    /\ files = {}
    /\ torn = {}
------------------------------------------------------------------------------
(* Queries and statements of internal/store. *)

Snapshots(l) == {e \in events : e.lane = l /\ e.kind = "snapshot"}
CloseEvents(l) == {e \in events : e.lane = l /\ e.kind = "close"}
Ids(E) == {e.id : e \in E}
LinksTo(s) == {l \in links : l.sha = s}

\* Rows of E with at least n newer ones in E: what ORDER BY ts DESC LIMIT n
\* leaves out.
Beyond(E, n) == {e \in E : Cardinality({f \in E : f.id > e.id}) >= n}

\* ts <= (SELECT MIN(ts) ... kind = 'snapshot'); NULL when there is none.
BelowFloor(l) ==
    {e \in CloseEvents(l) : Snapshots(l) # {} /\ \A f \in Snapshots(l) : e.id < f.id}

\* Mutant: migration 0001 without its trigger.
DeleteEvents_NoTrigger(ids) ==
    /\ events' = {e \in events : e.id \notin ids}
    /\ links' = {l \in links : l.event \notin ids}
    /\ UNCHANGED <<nextId, rows, refcount, files>>

\* Mutant: foreign_keys(ON) left out of the DSN, so nothing cascades.
DeleteEvents_NoCascade(ids) ==
    /\ events' = {e \in events : e.id \notin ids}
    /\ UNCHANGED <<nextId, links, rows, refcount, files>>

\* DELETE FROM events: the links cascade and the trigger takes one reference
\* off the digest of every link that goes.
DeleteEvents(ids) ==
    /\ events' = {e \in events : e.id \notin ids}
    /\ links' = {l \in links : l.event \notin ids}
    /\ refcount' = [s \in Shas |-> refcount[s] -
                        Cardinality({l \in LinksTo(s) : l.event \in ids})]
    /\ UNCHANGED <<nextId, rows, files>>

InsertEvent(p, k, ns) ==
    /\ events' = events \cup {[id |-> nextId, lane |-> LaneOf[p], kind |-> k, names |-> ns]}
    /\ nextId' = nextId + 1
    /\ cur' = [cur EXCEPT ![p] = nextId]
    /\ UNCHANGED <<links, rows, refcount, files>>

\* The foreign key wants the row of the digest, the primary key one link per
\* event and pane.
Linkable(id, k, s) == s \in rows /\ ~\E l \in links : l.event = id /\ l.pane = k

\* Mutant: the link without the count in its transaction.
LinkEventScrollback_Uncounted(id, k, s) ==
    /\ Linkable(id, k, s)
    /\ links' = links \cup {[event |-> id, pane |-> k, sha |-> s]}
    /\ UNCHANGED <<events, nextId, rows, refcount, files>>

\* One transaction: the link and the reference it takes.
LinkEventScrollback(id, k, s) ==
    /\ Linkable(id, k, s)
    /\ links' = links \cup {[event |-> id, pane |-> k, sha |-> s]}
    /\ refcount' = [refcount EXCEPT ![s] = @ + 1]
    /\ UNCHANGED <<events, nextId, rows, files>>

\* INSERT ... refcount 0 ON CONFLICT leaves the count alone.
UpsertScrollback(s) ==
    /\ rows' = rows \cup {s}
    /\ refcount' = [refcount EXCEPT ![s] = IF s \in rows THEN @ ELSE 0]
    /\ UNCHANGED <<events, nextId, links, files>>

\* The foreign key of event_scrollbacks refuses to drop a linked row.
DeleteScrollback(s) ==
    /\ IF LinksTo(s) = {}
         THEN /\ rows' = rows \ {s}
              /\ refcount' = [refcount EXCEPT ![s] = 0]
         ELSE UNCHANGED <<rows, refcount>>
    /\ UNCHANGED <<events, nextId, links, files>>
------------------------------------------------------------------------------
(* withStore: poll for the flock, run the command, release. *)

Goto(p, l) == pc' = [pc EXCEPT ![p] = l]

Unlinked(p) == pc[p] \in {"retract", "link"} /\ names[p] # {}

Release(p) ==
    /\ torn' = IF Unlinked(p) THEN torn \cup {cur[p]} ELSE torn
    /\ lock' = NoProc
    /\ Goto(p, "idle")
    /\ todo' = [todo EXCEPT ![p] = {}]
    /\ put' = [put EXCEPT ![p] = {}]
    /\ names' = [names EXCEPT ![p] = {}]
    /\ cur' = [cur EXCEPT ![p] = 0]
    /\ orphans' = [orphans EXCEPT ![p] = {}]
    /\ half' = [half EXCEPT ![p] = NoSha]
    /\ op' = [op EXCEPT ![p] = "none"]

FirstLabel(o) ==
    CASE o = "save" -> "capture" [] o = "capture" -> "insert"
      [] o = "undo" -> "delete" [] o = "prune" -> "snapshots" [] o = "gc" -> "reap"

\* lockfile.Acquire: TryAcquire is polled, so whoever polls first wins.  A
\* save also fixes here the panes whose content it will capture: none when
\* it is throttled, when scrollback is off or when every capture fails.
Acquire(p, o) ==
    /\ pc[p] = "idle" /\ lock = NoProc
    /\ o \in {"save", "capture"} => nextId <= MaxEvents
    /\ lock' = p
    /\ op' = [op EXCEPT ![p] = o]
    /\ Goto(p, FirstLabel(o))
    /\ \E ks \in (IF o = "save" THEN SUBSET Panes ELSE {{}}) : todo' = [todo EXCEPT ![p] = ks]
    /\ UNCHANGED <<put, names, cur, orphans, half, torn>>
    /\ UNCHANGED <<dbVars, files>>

\* The process is killed, or a step returns an error the command returns:
\* the kernel or the deferred Release drops the lock, what was committed stays.
Abort(p) ==
    /\ pc[p] # "idle" /\ op[p] \in FaultyOps
    /\ Release(p)
    /\ UNCHANGED <<dbVars, files>>
------------------------------------------------------------------------------
(* save: captureScrollbacks, InsertEvent, one link per pane, two prunes. *)

\* A worker's scrollback.Put: the file appears by rename, or was there.
SavePut(p, k, s) ==
    /\ pc[p] = "capture" /\ op[p] = "save" /\ k \in todo[p]
    /\ todo' = [todo EXCEPT ![p] = @ \ {k}]
    /\ put' = [put EXCEPT ![p] = @ \cup {<<k, s>>}]
    /\ files' = files \cup {s}
    /\ UNCHANGED <<lock, op, pc, names, cur, orphans, half, torn, dbVars>>

SaveUpsert(p, ks) ==
    /\ pc[p] = "capture" /\ op[p] = "save" /\ ks \in put[p]
    /\ put' = [put EXCEPT ![p] = @ \ {ks}]
    /\ names' = [names EXCEPT ![p] = @ \cup {ks}]
    /\ UpsertScrollback(ks[2])
    /\ UNCHANGED <<lock, op, pc, todo, cur, orphans, half, torn>>

SaveInsert(p) ==
    /\ pc[p] = "capture" /\ op[p] = "save" /\ todo[p] = {} /\ put[p] = {}
    /\ InsertEvent(p, "snapshot", names[p])
    /\ Goto(p, "link")
    /\ UNCHANGED <<lock, op, todo, put, names, orphans, half, torn>>

\* The save is throttled or nothing changed; SaveCmd prunes all the same.
SaveSkips(p) ==
    /\ pc[p] = "capture" /\ op[p] = "save"
    /\ todo[p] = {} /\ put[p] = {} /\ names[p] = {}
    /\ Goto(p, "snapshots")
    /\ UNCHANGED <<lock, op, todo, put, names, cur, orphans, half, torn, dbVars, files>>

\* With the flock held the schema never refuses it; any other failure fails
\* the save (Abort).
SaveLink(p, ks) ==
    /\ pc[p] = "link" /\ op[p] = "save" /\ ks \in names[p]
    /\ LinkEventScrollback(cur[p], ks[1], ks[2])
    /\ names' = [names EXCEPT ![p] = @ \ {ks}]
    /\ UNCHANGED <<lock, op, pc, todo, put, cur, orphans, half, torn>>

\* Mutant: the save goes on after the first link.
SaveLinked_Early(p) ==
    /\ pc[p] = "link" /\ op[p] = "save"
    /\ Goto(p, "snapshots")
    /\ names' = [names EXCEPT ![p] = {}]
    /\ UNCHANGED <<lock, op, todo, put, cur, orphans, half, torn, dbVars, files>>

\* The three SetMeta writes come in between: module Saver has them.
SaveLinked(p) ==
    /\ pc[p] = "link" /\ op[p] = "save" /\ names[p] = {}
    /\ Goto(p, "snapshots")
    /\ UNCHANGED <<lock, op, todo, put, names, cur, orphans, half, torn>>
    /\ UNCHANGED <<dbVars, files>>

\* PruneSnapshots: the newest SnapshotKeep stay, and of the others those that
\* are the newest of their day.
PruneSnapshots(p) ==
    /\ pc[p] = "snapshots"
    /\ \E gone \in SUBSET Beyond(Snapshots(LaneOf[p]), SnapshotKeep) : DeleteEvents(Ids(gone))
    /\ Goto(p, IF op[p] = "save" THEN "floor" ELSE "closes")
    /\ UNCHANGED <<lock, op, todo, put, names, cur, orphans, half, torn>>

\* PruneCloseEvents, first statement: the prune command only.
PruneCloses(p) ==
    /\ pc[p] = "closes"
    /\ DeleteEvents(Ids(Beyond(CloseEvents(LaneOf[p]), CloseKeep)))
    /\ Goto(p, "floor")
    /\ UNCHANGED <<lock, op, todo, put, names, cur, orphans, half, torn>>

PruneUnresolvableCloseEvents(p) ==
    /\ pc[p] = "floor"
    /\ DeleteEvents(Ids(BelowFloor(LaneOf[p])))
    /\ Release(p)
------------------------------------------------------------------------------
(* capture-event: insert, retract what it subsumes, pin the scrollback. *)

\* resolveAtCapture and FillScrollback take every digest from a snapshot of
\* the lane, one per pane.
Named(E) == UNION {e.names : e \in E}

Embeddable(l) ==
    {ns \in SUBSET Named(Snapshots(l)) : \A a, b \in ns : a[1] = b[1] => a = b}

CaptureInsert(p) ==
    /\ pc[p] = "insert" /\ op[p] = "capture"
    /\ \E ns \in Embeddable(LaneOf[p]) :
         /\ InsertEvent(p, "close", ns)
         /\ names' = [names EXCEPT ![p] = ns]
         /\ torn' = IF ns \subseteq Named({e \in Snapshots(LaneOf[p]) : e.id \notin torn})
                      THEN torn ELSE torn \cup {nextId}
    /\ Goto(p, "retract")
    /\ UNCHANGED <<lock, op, todo, put, orphans, half>>

\* Capture returns early: deduplicated, still live, or nothing resolved.
CaptureNothing(p) ==
    /\ pc[p] = "insert" /\ op[p] = "capture"
    /\ Release(p)
    /\ UNCHANGED <<dbVars, files>>

CaptureRetract(p) ==
    /\ pc[p] = "retract"
    /\ \E gone \in SUBSET {e \in CloseEvents(LaneOf[p]) : e.id # cur[p]} : DeleteEvents(Ids(gone))
    /\ Goto(p, "link")
    /\ UNCHANGED <<lock, op, todo, put, names, cur, orphans, half, torn>>

\* linkResolvedScrollback swallows every failure and goes on.
CaptureLink(p, ks) ==
    /\ pc[p] = "link" /\ op[p] = "capture" /\ ks \in names[p]
    /\ names' = [names EXCEPT ![p] = @ \ {ks}]
    /\ \/ LinkEventScrollback(cur[p], ks[1], ks[2]) /\ UNCHANGED torn
       \/ /\ ~Linkable(cur[p], ks[1], ks[2]) \/ "capture" \in FaultyOps
          /\ torn' = torn \cup {cur[p]}
          /\ UNCHANGED <<dbVars, files>>
    /\ UNCHANGED <<lock, op, pc, todo, put, cur, orphans, half>>

CaptureDone(p) ==
    /\ pc[p] = "link" /\ op[p] = "capture" /\ names[p] = {}
    /\ Release(p)
    /\ UNCHANGED <<dbVars, files>>
------------------------------------------------------------------------------
(* undo: the restored event, or a run of unresolvable ones, is deleted. *)

UndoDelete(p) ==
    /\ pc[p] = "delete"
    /\ \E gone \in SUBSET CloseEvents(LaneOf[p]) : DeleteEvents(Ids(gone))
    /\ Release(p)
------------------------------------------------------------------------------
(* gc: reap dead lanes, list the orphans, remove file then row of each. *)

\* DeleteServerLane: events and server_state of a lane other than its own go
\* in one transaction.  Which lanes are dead is the environment's choice.
GcReapLane(p, l) ==
    /\ pc[p] = "reap" /\ l # LaneOf[p] /\ \E e \in events : e.lane = l
    /\ DeleteEvents(Ids({e \in events : e.lane = l}))
    /\ UNCHANGED procVars

\* Mutant: the threshold is one too high.
GcList_Shared(p) ==
    /\ pc[p] = "reap"
    /\ orphans' = [orphans EXCEPT ![p] = {s \in rows : refcount[s] <= 1}]
    /\ Goto(p, "sweep")
    /\ UNCHANGED <<lock, op, todo, put, names, cur, half, torn, dbVars, files>>

\* ScrollbacksWithZeroRef
GcList(p) ==
    /\ pc[p] = "reap"
    /\ orphans' = [orphans EXCEPT ![p] = {s \in rows : refcount[s] <= 0}]
    /\ Goto(p, "sweep")
    /\ UNCHANGED <<lock, op, todo, put, names, cur, half, torn>>
    /\ UNCHANGED <<dbVars, files>>

GcDeleteFile(p, s) ==
    /\ pc[p] = "sweep" /\ s \in orphans[p]
    /\ orphans' = [orphans EXCEPT ![p] = @ \ {s}]
    /\ files' = files \ {s}
    /\ half' = [half EXCEPT ![p] = s]
    /\ Goto(p, "row")
    /\ UNCHANGED <<lock, op, todo, put, names, cur, torn, dbVars>>

\* The file could not be removed: continue with the next digest.
GcKeepFile(p, s) ==
    /\ pc[p] = "sweep" /\ s \in orphans[p] /\ "gc" \in FaultyOps
    /\ orphans' = [orphans EXCEPT ![p] = @ \ {s}]
    /\ UNCHANGED <<lock, op, pc, todo, put, names, cur, half, torn>>
    /\ UNCHANGED <<dbVars, files>>

\* Mutant: the row is left to the next gc even when nothing failed.
GcDeleteRow_Keeps(p) ==
    /\ pc[p] = "row"
    /\ half' = [half EXCEPT ![p] = NoSha]
    /\ Goto(p, "sweep")
    /\ UNCHANGED <<lock, op, todo, put, names, cur, orphans, torn, dbVars, files>>

\* DeleteScrollback, or its failure, which is only logged.
GcDeleteRow(p) ==
    /\ pc[p] = "row"
    /\ \/ DeleteScrollback(half[p])
       \/ "gc" \in FaultyOps /\ UNCHANGED <<dbVars, files>>
    /\ half' = [half EXCEPT ![p] = NoSha]
    /\ Goto(p, "sweep")
    /\ UNCHANGED <<lock, op, todo, put, names, cur, orphans, torn>>

GcFinish(p) ==
    /\ pc[p] = "sweep" /\ orphans[p] = {}
    /\ Release(p)
    /\ UNCHANGED <<dbVars, files>>
------------------------------------------------------------------------------
Save(p) ==
    \/ \E k \in Panes, s \in Shas : SavePut(p, k, s)
    \/ \E ks \in Pairs : SaveUpsert(p, ks) \/ SaveLink(p, ks)
    \/ SaveSkips(p) \/ SaveInsert(p) \/ SaveLinked(p)

Capture(p) ==
    \/ CaptureInsert(p) \/ CaptureNothing(p) \/ CaptureRetract(p) \/ CaptureDone(p)
    \/ \E ks \in Pairs : CaptureLink(p, ks)

Prune(p) == PruneSnapshots(p) \/ PruneCloses(p) \/ PruneUnresolvableCloseEvents(p)

Gc(p) ==
    \/ \E l \in Lanes : GcReapLane(p, l)
    \/ \E s \in Shas : GcDeleteFile(p, s) \/ GcKeepFile(p, s)
    \/ GcList(p) \/ GcDeleteRow(p) \/ GcFinish(p)

Step(p) == Save(p) \/ Capture(p) \/ Prune(p) \/ UndoDelete(p) \/ Gc(p)

Next ==
    \E p \in Procs :
        \/ \E o \in Ops : Acquire(p, o)
        \/ Step(p)
        \/ Abort(p)

Spec == Init /\ [][Next]_vars
------------------------------------------------------------------------------
(* Properties *)

\* The refcount column counts the rows of event_scrollbacks that name the
\* digest: the link transaction, the cascade and the trigger, the upsert and
\* gc's removal keep it exact, whatever statement a command stops at.
RefcountExact == \A s \in rows : refcount[s] = Cardinality(LinksTo(s))

\* The foreign keys: a link has its event and its scrollback row.
ReferentialIntegrity ==
    \A l \in links : l.sha \in rows /\ \E e \in events : e.id = l.event

\* What a restore needs: the digest an event has pinned is on disk, with gc,
\* saves and other servers' commands coming in any order and each of them
\* dying anywhere, gc between a file and its row too.  Excepted is what a torn
\* event left unpinned and a capture took up again.
LinkedBlobOnDisk == \A l \in links : l.event \notin torn => l.sha \in files

Linking(e) == \E p \in Procs : pc[p] \in {"retract", "link"} /\ cur[p] = e.id

\* A manifest's digests are pinned once the command that wrote it has linked
\* them (save.go:119-131, capture.go:235-242): pruning the snapshot a close was
\* resolved from, another server's lane, or a save, capture, undo, prune or gc
\* that dies does not unpin them, and no link is refused but after a torn save.
NamesPinned ==
    \A e \in events : ~Linking(e) /\ e.id \notin torn =>
        \A ks \in e.names : [event |-> e.id, pane |-> ks[1], sha |-> ks[2]] \in links

\* "GCCmd reaps orphan scrollback files": when a gc ends, every file left is
\* pinned by some event.
GcReapsOrphans == [][\A p \in Procs : GcFinish(p) => \A s \in files : LinksTo(s) # {}]_vars

\* A digest nothing references does not stay in the store for ever: gc
\* removes its row, or a new event pins it.
OrphanCollected == \A s \in Shas :
    (s \in rows /\ refcount[s] = 0) ~> (s \notin rows \/ refcount[s] > 0)

\* A command that holds the flock goes on (none of these waits for a user),
\* and the gc timer's process, polling for ever, gets the flock if it is free
\* again and again.
FairSpec == /\ Spec
            /\ \A p \in Procs : WF_vars(Step(p)) /\ SF_vars(Acquire(p, "gc"))
==============================================================================
