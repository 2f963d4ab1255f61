------------------------------ MODULE Retention ------------------------------
(***************************************************************************)
(* Which snapshots are there for a restore to find: tmux servers come and  *)
(* go, saves and prunes run beside them.                                   *)
(*                                                                         *)
(* A save reads the clock before it lists the server (save.go:59-60), so   *)
(* the server may be replaced in between; both steps are here.  The        *)
(* content of a snapshot is the incarnation of the server it describes.    *)
(***************************************************************************)
EXTENDS EventQueries

CONSTANTS
    MaxNow,         \* bound on the clock
    MaxId,          \* bound on the events recorded
    MaxInc,         \* bound on the servers started
    SnapshotKeep    \* SnapshotHistoryLimit

ASSUME BoundAssumption == {MaxNow, MaxId, MaxInc} \subseteq Nat /\ SnapshotKeep \in Nat \ {0}

VARIABLES
    now,        \* the wall clock
    up,         \* a tmux server is running
    inc,        \* its incarnation
    started,    \* when it started
    saving,     \* the clock reading of the save under way, or NotSaving
    snaps,      \* snapshot rows: [id, ts, inc]
    nextId,
    newestTs    \* history: the newest ts recorded on each day

vars == <<now, up, inc, started, saving, snaps, nextId, newestTs>>

NotSaving == -1
Times == 0..MaxNow
Days == {t \div Day : t \in Times}
Rows == [id : 1..MaxId, ts : Times, inc : 0..MaxInc]

TypeOK ==
    /\ now \in Times /\ started \in Times
    /\ up \in BOOLEAN
    /\ inc \in 0..MaxInc
    /\ saving \in Times \cup {NotSaving}
    /\ snaps \subseteq Rows
    /\ nextId \in 1..MaxId + 1
    /\ newestTs \in [Days -> Times \cup {-1}]

Init ==
    /\ now = 0 /\ up = TRUE /\ inc = 0 /\ started = 0
    /\ saving = NotSaving
    /\ snaps = {} /\ nextId = 1
    /\ newestTs = [d \in Days |-> -1]
------------------------------------------------------------------------------
Tick ==
    /\ now < MaxNow
    /\ now' = now + 1
    /\ UNCHANGED <<up, inc, started, saving, snaps, nextId, newestTs>>

\* tmux exits, or is killed.
ServerStop ==
    /\ up
    /\ up' = FALSE
    /\ UNCHANGED <<now, inc, started, saving, snaps, nextId, newestTs>>

ServerStart ==
    /\ ~up /\ inc < MaxInc
    /\ up' = TRUE /\ inc' = inc + 1 /\ started' = now
    /\ UNCHANGED <<now, saving, snaps, nextId, newestTs>>

\* SaveCmd holds the flock from here on: one save at a time, and no prune.
SaveReadClock ==
    /\ saving = NotSaving
    /\ saving' = now
    /\ UNCHANGED <<now, up, inc, started, snaps, nextId, newestTs>>

\* Mutant: keep-N alone, as before the daily floor.
PrunedAt_NoFloor(E) == NewestByTs(E, SnapshotKeep)

\* Mutant: the deletion is forgotten.
PrunedAt_Never(E) == {E}

PrunedAt(E) == SnapshotSurvivors(E, SnapshotKeep, now)

\* The listing finds a server, the row goes in, the prune follows.
SaveRecord ==
    /\ saving # NotSaving /\ up /\ nextId <= MaxId
    /\ LET row == [id |-> nextId, ts |-> saving, inc |-> inc]
       IN  \E kept \in PrunedAt(snaps \cup {row}) : snaps' = kept
    /\ newestTs' = [newestTs EXCEPT ![saving \div Day] = saving]
    /\ nextId' = nextId + 1
    /\ saving' = NotSaving
    /\ UNCHANGED <<now, up, inc, started>>

\* No server, or nothing worth recording (module Saver): only the prune.
SaveSkip ==
    /\ saving # NotSaving
    /\ \E kept \in PrunedAt(snaps) : snaps' = kept
    /\ saving' = NotSaving
    /\ UNCHANGED <<now, up, inc, started, nextId, newestTs>>

\* The prune command.
PruneCmd ==
    /\ saving = NotSaving
    /\ \E kept \in PrunedAt(snaps) : snaps' = kept
    /\ UNCHANGED <<now, up, inc, started, saving, nextId, newestTs>>

Next ==
    \/ Tick \/ ServerStop \/ ServerStart
    \/ SaveReadClock \/ SaveRecord \/ SaveSkip \/ PruneCmd

Spec == Init /\ [][Next]_vars
------------------------------------------------------------------------------
(* Properties *)

\* The retention safety net (store.go:269-273): of every day the prune still
\* looks back on, the newest snapshot ever recorded is still there, however
\* many saves, prunes and restarts came since.
DailyFloorHolds ==
    \A d \in Days : newestTs[d] >= 0 /\ newestTs[d] >= now - Week =>
        \E e \in snaps : e.ts = newestTs[d]

\* Retention is bounded: besides the SnapshotKeep newest times a prune leaves
\* at most one time for each day the week touches, so what accumulates between
\* two prunes is the one row a save adds.
HistoryBounded ==
    Cardinality({e.ts : e \in snaps}) <= SnapshotKeep + Week \div Day + 1
==============================================================================
