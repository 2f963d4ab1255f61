----------------------------- MODULE CloseEvents -----------------------------
(***************************************************************************)
(* capture-event, save, undo and prune on one server lane: what a close    *)
(* hook records of the entity that went, and what undo makes of it.        *)
(*                                                                         *)
(* Each command holds the flock from start to end, so here it is one step  *)
(* (module ScrollbackStore has the steps inside); the steps between hook   *)
(* and capture, save and close, capture and undo are what interleaves.     *)
(* Manifests carry ids, as every build since their introduction writes.    *)
(* Of a snapshot the model keeps the structure; scrollback is left to      *)
(* module ScrollbackStore.                                                 *)
(***************************************************************************)
EXTENDS EventQueries, TmuxServer

CONSTANTS
    DedupWindow,    \* dedupWindow, in ticks
    OuterScan,      \* the 5 newest outer rows Capture looks at
    InnerScan,      \* the 50 newest inner rows retractSuperseded looks at
    SnapshotScan,   \* snapshotScanLimit
    UndoScan,       \* undoScanLimit
    SnapshotKeep, CloseKeep,    \* retention limits
    MaxSteps,       \* bound on the events recorded, the ticks and what users do, together
    Prunes          \* whether saves and the prune command prune

ASSUME CloseAssumption ==
    /\ {DedupWindow, OuterScan, InnerScan, SnapshotScan, UndoScan, SnapshotKeep,
        CloseKeep, MaxSteps} \subseteq Nat
    /\ Prunes \in BOOLEAN

VARIABLES
    snaps,      \* snapshot rows: [id, ts, win, sess, inc]
    closes,     \* the other rows
    nextId,
    lastFP,     \* structure of the last save
    acts

Room == acts + nextId <= MaxSteps
db == <<snaps, closes, nextId, lastFP, acts>>
vars == <<now, inc, started, winOf, sessOf, used, hooks, snaps, closes, nextId, lastFP, acts>>

Structures == [win : [Panes -> Windows \cup {None}], sess : [Windows -> Sessions \cup {None}]]
Rows == [id : 1..MaxSteps, ts : 1..MaxNow]

TypeOK ==
    /\ ServerTypeOK
    /\ \A e \in snaps : [id |-> e.id, ts |-> e.ts] \in Rows /\ e.inc \in 0..MaxInc
                        /\ [win |-> e.win, sess |-> e.sess] \in Structures
    /\ \A c \in closes : [id |-> c.id, ts |-> c.ts] \in Rows /\ c.hook \in Hooks
                         /\ c.survivors \subseteq Sessions /\ Cardinality(c.resolved) <= 1
    /\ Cardinality({e.id : e \in snaps \cup closes}) = Cardinality(snaps) + Cardinality(closes)
    /\ nextId \in 1..MaxSteps + 1 /\ acts \in 0..MaxSteps
    /\ lastFP \in SUBSET Structures /\ Cardinality(lastFP) <= 1

Init ==
    /\ ServerInit
    /\ snaps = {} /\ closes = {} /\ nextId = 1
    /\ lastFP = {} /\ acts = 0

OfKind(kinds) == {c \in closes : c.hook.kind \in kinds}
IdKeyed(kind) == kind \in {"pane-died", "window-unlinked"}

\* #{start_time}, and 0 (unknown) when no server answers.
ServerStarted == IF Running THEN ServerStartTime(started) ELSE 0
------------------------------------------------------------------------------
(* Resolution: closeevent.FindClosed, Resolve; the lookups of main.go.      *)
(* An entity is the panes a restore of it would bring back, the window and  *)
(* session it is put in, and the snapshot it was read from.                 *)

Entity(e, P, w, s) == [panes |-> P, win |-> w, sess |-> s, ts |-> e.ts, inc |-> e.inc]

SnapWindows(e) == {w \in Windows : e.sess[w] # None}
SnapPanes(e) == {p \in Panes : e.win[p] # None}
SnapPanesOf(e, w) == {p \in Panes : e.win[p] = w}
SnapSessions(e) == {e.sess[w] : w \in SnapWindows(e)}

\* Mutant: the window is listed, siblings included.
FindClosedPane_Window(e, p) ==
    {Entity(e, SnapPanesOf(e, e.win[q]), e.win[q], e.sess[e.win[q]]) : q \in {p} \cap SnapPanes(e)}

\* The id branches; an id that is still in the post-close index was dropped
\* before the row was written.
FindClosedPane(e, p) ==
    {Entity(e, {q}, e.win[q], e.sess[e.win[q]]) : q \in {p} \cap SnapPanes(e)}

FindClosedWindow(e, w) ==
    {Entity(e, SnapPanesOf(e, v), v, e.sess[v]) : v \in {w} \cap SnapWindows(e)}

Holds(e, h) ==
    CASE h.kind = "pane-died" -> h.pane \in SnapPanes(e)
      [] h.kind = "window-unlinked" -> h.win \in SnapWindows(e)
      [] h.kind = "session-closed" -> h.sess \in SnapSessions(e)

\* By name when the session is missing; else the one that is, if only one is.
FindClosedSession(e, s, survivors) ==
    LET missing == SnapSessions(e) \ survivors
        found == IF s \in missing THEN {s} ELSE IF Cardinality(missing) = 1 THEN missing ELSE {}
    IN  {Entity(e, UNION {SnapPanesOf(e, w) : w \in {v \in Windows : e.sess[v] = t}}, None, t) : t \in found}

FindClosed(e, h, survivors) ==
    CASE h.kind = "pane-died" -> FindClosedPane(e, h.pane)
      [] h.kind = "window-unlinked" -> FindClosedWindow(e, h.win)
      [] h.kind = "session-closed" -> FindClosedSession(e, h.sess, survivors)

OutOfIncarnation(c) == ServerStarted > 0 /\ IdKeyed(c.hook.kind) /\ c.ts < ServerStarted

\* Mutant: ids are matched against any snapshot before the close.
PriorSnapshot_AnyServer(c) == LatestSnapshotBefore(snaps, c.ts)

PriorSnapshot(c) ==
    {e \in LatestSnapshotBefore(snaps, c.ts) :
        /\ ~OutOfIncarnation(c)
        /\ ~(ServerStarted > 0 /\ IdKeyed(c.hook.kind) /\ e.ts < ServerStarted)}

\* The snapshot diff first, the embedded copy else: none or one.
Resolve(c) ==
    LET diffed == UNION {FindClosed(e, c.hook, c.survivors) : e \in PriorSnapshot(c)}
    IN  IF diffed # {} THEN diffed ELSE c.resolved

Restores(c) == UNION {r.panes : r \in Resolve(c)}
------------------------------------------------------------------------------
(* save, and the prune command *)

Structure == [win |-> winOf, sess |-> sessOf]

\* PruneSnapshots and PruneUnresolvableCloseEvents on the snapshots S and the
\* closes C.
Pruned(S, C) ==
    /\ snaps' \in (IF Prunes THEN SnapshotSurvivors(S, SnapshotKeep, now) ELSE {S})
    /\ closes' = IF Prunes THEN C \ AtOrBelowFloor(C, snaps') ELSE C

\* A structure that differs from that of the last save is recorded, the same
\* one may be, for a change inside the panes (module Saver has the decision);
\* the prunes follow either way.
Save ==
    /\ \/ /\ Running /\ Room
          /\ LET row == [id |-> nextId, ts |-> now, win |-> winOf, sess |-> sessOf, inc |-> inc]
             IN  Pruned(snaps \cup {row}, closes)
          /\ nextId' = nextId + 1
          /\ lastFP' = {Structure}
       \/ /\ ~Running \/ lastFP = {Structure}
          /\ Pruned(snaps, closes)
          /\ UNCHANGED <<nextId, lastFP>>
    /\ UNCHANGED <<now, tmux, hooks, acts>>

PruneCmd ==
    /\ Prunes
    /\ \E kept \in NewestByTs(closes, CloseKeep) : Pruned(snaps, kept)
    /\ UNCHANGED <<now, tmux, hooks, nextId, lastFP, acts>>
------------------------------------------------------------------------------
(* capture-event *)

\* Mutant: the second of the start is taken for the earlier server's.
RecentSnapshots_After == {e \in Listed(snaps, SnapshotScan) : ServerStarted = 0 \/ e.ts > ServerStarted}

\* recentSnapshots: those of this server.
RecentSnapshots == {e \in Listed(snaps, SnapshotScan) : ServerStarted = 0 \/ e.ts >= ServerStarted}

RecordedPaneDeaths ==
    {c.hook.pane : c \in {d \in OfKind({"pane-died"}) : ServerStarted = 0 \/ d.ts >= ServerStarted}}

\* The window a pane was in when it was last seen.
LastSeenIn(p) == {e.win[p] : e \in Latest({f \in RecentSnapshots : p \in SnapPanes(f)})}

\* Mutant: the recorded deaths are not taken out.
KilledCandidates_Recorded ==
    {p \in Panes \ LivePanes : \E w \in LastSeenIn(p) : w \in LiveWindows}

\* Panes this server has snapshotted whose window is still there and that are
\* neither live nor recorded.
KilledCandidates ==
    {p \in Panes \ (LivePanes \cup RecordedPaneDeaths) : \E w \in LastSeenIn(p) : w \in LiveWindows}

\* Mutant: any candidate will do.
Identified_Guess(h) ==
    IF h.kind = "pane-died" /\ h.pane = None
      THEN {[h EXCEPT !.pane = p, !.win = w] : p \in KilledCandidates, w \in LiveWindows}
      ELSE {h}

\* The hook with the ids resolveKilledPane fills in; none when ambiguous.
Identified(h) ==
    IF h.kind = "pane-died" /\ h.pane = None
      THEN UNION {{[h EXCEPT !.pane = p, !.win = w] : w \in LastSeenIn(p)} :
                     p \in {q \in KilledCandidates : Cardinality(KilledCandidates) = 1}}
      ELSE {h}

EntityStillLive(h) ==
    \/ h.kind = "window-unlinked" /\ h.win \in LiveWindows
    \/ h.kind = "pane-died" /\ h.pane \in LivePanes

Cutoff == now - DedupWindow
Fresh(E) == {c \in E : c.ts >= Cutoff}
SameSession(c, h) == h.sess # None /\ c.hook.sess = h.sess
SameWindow(c, h) == h.win # None /\ c.hook.sess = h.sess /\ c.hook.win = h.win

\* An outer row of the same cascade is already stored.
Deduped(h) ==
    \/ /\ h.kind # "session-closed"
       /\ \E c \in Fresh(Listed(OfKind({"session-closed"}), OuterScan)) : SameSession(c, h)
    \/ /\ h.kind = "pane-died"
       /\ \E c \in Fresh(Listed(OfKind({"window-unlinked"}), OuterScan)) : SameWindow(c, h)

\* Mutant: the newest snapshot alone is looked at.
PreCloseSnapshot_Newest(h) == {e \in Latest(RecentSnapshots) : Holds(e, h)}

\* The newest snapshot of this server that still holds the entity.
PreCloseSnapshot(h) == Latest({e \in RecentSnapshots : Holds(e, h)})

ResolveAtCapture(h) ==
    IF IdKeyed(h.kind) THEN UNION {FindClosed(e, h, {}) : e \in PreCloseSnapshot(h)} ELSE {}

Inner(kind) ==
    CASE kind = "window-unlinked" -> {"pane-died"}
      [] kind = "session-closed" -> {"pane-died", "window-unlinked"}
      [] kind = "pane-died" -> {}

\* Mutant: only the closed session's own rows are looked for.
Superseded_SessionOnly(h) ==
    {c \in Fresh(Listed(OfKind(Inner(h.kind)), InnerScan)) : h.kind = "session-closed" /\ SameSession(c, h)}

\* The inner rows the new row stands for.
Superseded(h) ==
    {c \in Fresh(Listed(OfKind(Inner(h.kind)), InnerScan)) :
        IF h.kind = "session-closed" THEN SameSession(c, h) ELSE SameWindow(c, h)}

Recorded(h) == ~EntityStillLive(h) /\ ~Deduped(h)

\* The hook's process gets the flock, looks at what survived and records.
Capture(h) ==
    /\ h \in hooks
    /\ hooks' = hooks \ {h}
    /\ LET taken == {i \in Identified(h) : Recorded(i)}
       IN  /\ taken # {} => Room
           /\ closes' = (closes \ UNION {Superseded(i) : i \in taken}) \cup
                {[id |-> nextId, ts |-> now, hook |-> i, survivors |-> LiveSessions,
                  resolved |-> ResolveAtCapture(i)] : i \in taken}
           /\ nextId' = nextId + Cardinality(taken)
    /\ UNCHANGED <<now, tmux, snaps, lastFP, acts>>
------------------------------------------------------------------------------
(* undo --pop *)

\* closeevent.OwnerSession
Owner(c) ==
    IF c.hook.sess # None THEN c.hook.sess
    ELSE IF Resolve(c) # {} THEN (CHOOSE r \in Resolve(c) : TRUE).sess ELSE None

\* restorableClose: the rows of the session the user is in (None: of any).
Scanned == Listed(closes, UndoScan)
Mine(session) == {c \in Scanned : session = None \/ Owner(c) = session}
Restorable(C) == {c \in C : Resolve(c) # {}}

\* The unresolvable rows in front of the one to restore.
Discarded(session) ==
    {c \in Mine(session) :
        /\ Resolve(c) = {} /\ ~OutOfIncarnation(c)
        /\ \A d \in Latest(Restorable(Mine(session))) : Newer(c, d)}

UndoTarget(session) ==
    IF Restorable(Mine(session)) # {} THEN Latest(Restorable(Mine(session)))
                                      ELSE Latest(Restorable(Scanned))

\* A restore with a fatal failure keeps the row for a retry.
Undo(session) ==
    /\ Room
    /\ acts' = acts + 1
    /\ \/ /\ Discarded(session) # {}
          /\ closes' = closes \ Discarded(session)
       \/ /\ Discarded(session) = {}
          /\ closes' \in {closes \ UndoTarget(session), closes}
    /\ UNCHANGED <<now, tmux, hooks, snaps, nextId, lastFP>>
------------------------------------------------------------------------------
\* Time and the users of the server.
Outside ==
    /\ Room
    /\ acts' = acts + 1
    /\ Tick \/ ServerNext
    /\ UNCHANGED <<snaps, closes, nextId, lastFP>>

Next ==
    \/ Outside
    \/ Save \/ PruneCmd
    \/ \E h \in hooks : Capture(h)
    \/ \E s \in Sessions \cup {None} : Undo(s)

Spec == Init /\ [][Next]_vars
------------------------------------------------------------------------------
(* Properties *)

\* One closure, one row: in whatever order the captures of a cascade get the
\* flock, no row stays beside the row of what enclosed it (capture.go:45-50),
\* as long as they ran inside the dedup window.  A row found by elimination is
\* of one of several closures, nobody knows which, and names no session; a
\* hook of a move takes nothing with it.
OneRowPerClosure ==
    \A c, d \in closes :
        (/\ c.hook.cause = d.hook.cause /\ c.hook.inc = d.hook.inc
         /\ d.hook.kind \in Inner(c.hook.kind) /\ d.hook.took \subseteq c.hook.took
         /\ d.hook.took # {} /\ d.hook.sess # None)
        => c.ts > d.ts + DedupWindow \/ d.ts > c.ts + DedupWindow

\* No entity of another server is put back under an id it only shares,
\* whether read from a snapshot or embedded (main.go:498-508), as long as
\* tmux answers: of a row captured, or read, while no server did, the start
\* time is unknown.  A snapshot of the second of the start may slip through,
\* and what is embedded is judged by the server that was there to capture it.
OwnServersEntity ==
    Running => \A c \in closes : IdKeyed(c.hook.kind) /\ c.survivors # {} =>
        \A r \in Resolve(c) \cup c.resolved :
            (r.inc # c.hook.inc /\ (c.hook.inc = inc \/ r \notin c.resolved))
            => r.ts >= ServerStartTime(started)

\* capture.go:329-331: an after-kill-pane hook, which says no pane, is never
\* taken for the death of one that has a row already.
EliminatedOnce ==
    \A c, d \in OfKind({"pane-died"}) :
        (c.hook.pane = d.hook.pane /\ c.hook.inc = d.hook.inc /\ c.id < d.id) => d.hook.sess # None

\* README.md:181: a row shows "every pane the close took down", none that is
\* still running, unless it was joined to another window: snapshots and the
\* ids they hold do not follow it there.  A pane of an earlier server, which
\* a session may be found in by its name, is another one under the same id.
OnlyClosedPanesListed ==
    \A c \in closes : c.hook.inc = inc =>
        \A r \in Resolve(c) : r.inc = inc => \A p \in r.panes \cap LivePanes :
            IF r.win = None THEN sessOf[winOf[p]] # r.sess ELSE winOf[p] # r.win

\* The newest snapshot of the server that runs that has a pane.
LastSeen(p) == Latest({e \in snaps : e.inc = inc /\ p \in SnapPanes(e)})

\* A row is retracted for an outer one that brings back what it took
\* (capture.go:146-152), saves landing anywhere in the cascade: what closed
\* with a window always, for the row embeds it; what was closed before it, and
\* what closed with a session, while the newest snapshot still has it.  Panes
\* are those last saved where they closed, in an earlier millisecond.
RetractedStillHeld ==
    [][\A c \in closes \ closes' : \A h \in hooks : Capture(h) /\ c.hook.inc = inc =>
        \A p \in c.hook.took : \A e \in LastSeen(p) :
            /\ e.ts < now /\ e.win[p] = c.hook.win
            /\ \/ h.kind = "window-unlinked" /\ p \in h.took
               \/ e \in LatestSnapshotBefore(snaps, now) /\ e.sess[c.hook.win] = h.sess
            => p \in UNION {Restores(d) : d \in closes' \ closes}]_vars

\* The comment at capture.go:150-152, of the rows of one closure: "restoring
\* the outer one recreates what the inner one held", as far as it was saved in
\* an earlier millisecond.
RetractedRecreated ==
    [][\A c \in closes \ closes' : \A h \in hooks :
        Capture(h) /\ c.hook.inc = inc /\ c.hook.took \subseteq h.took =>
            \A r \in Resolve(c) : r.ts < now =>
                r.panes \cap c.hook.took \subseteq UNION {Restores(d) : d \in closes' \ closes}]_vars

\* discardSummary (main.go:468-483): what undo drops "never made it into a
\* snapshot" of the server it was closed on before it closed, as far as any is
\* left to tell.
DiscardsOnlyUnsaved ==
    \A s \in Sessions \cup {None} : \A c \in Discarded(s) :
        \A e \in snaps : e.inc = c.hook.inc /\ e.ts < c.ts => ~Holds(e, c.hook)

\* discardSummary (main.go:468-483) of panes and windows: what undo drops is in
\* no snapshot of its server that is left, whenever saves came and of whatever
\* time they are; what the newest lost before the capture, the row embeds
\* (capture.go:193-200).
DiscardedIdsUnsaved ==
    \A s \in Sessions \cup {None} : \A c \in Discarded(s) : IdKeyed(c.hook.kind) =>
        \A e \in snaps : e.inc = c.hook.inc => ~Holds(e, c.hook)
==============================================================================
