------------------------------ MODULE Backfill ------------------------------
(***************************************************************************)
(* Which screen a closed pane gets when the snapshot it resolves to was    *)
(* saved without screens: FillScrollback over the history of module        *)
(* Retention.  The pane is one every server has under the same id, as each *)
(* starts its ids over; a snapshot with screens has one of it.             *)
(***************************************************************************)
EXTENDS Retention

CONSTANTS
    Lookback,       \* scrollbackLookback
    Span            \* scrollbackLookbackSpan

ASSUME LookbackAssumption == {Lookback, Span} \subseteq Nat

VARIABLES
    full,       \* ids of the snapshots with screens
    shot        \* history: the newest of them of the present server, one or none

backfillVars == <<vars, full, shot>>

InitB == Init /\ full = {} /\ shot = {}

IdsOf(E) == {e.id : e \in E}

\* A save with screens, or one downgraded to structure inside the interval.
SaveFull ==
    /\ SaveRecord
    /\ shot' = {[id |-> nextId, ts |-> saving]}
    /\ full' = (full \cup {nextId}) \cap IdsOf(snaps')

Lean == full' = full \cap IdsOf(snaps') /\ UNCHANGED shot

NextB ==
    \/ SaveFull
    \/ (Tick \/ ServerStop \/ SaveReadClock \/ SaveRecord \/ SaveSkip \/ PruneCmd) /\ Lean
    \/ ServerStart /\ shot' = {} /\ UNCHANGED full

SpecB == InitB /\ [][NextB]_backfillVars
-----------------------------------------------------------------------------
\* priorSnapshot for a close of the present server that names its pane by id.
PriorSnapshot(t) == {e \in LatestSnapshotBefore(snaps, t) : e.ts >= ServerStartTime(started)}

SnapshotsBefore(before, since, limit) == Listed({e \in snaps : e.ts < before /\ e.ts >= since}, limit)

\* Mutant: the first screen found going forwards.
FillScrollback_Oldest(ts) ==
    LET found == {e \in SnapshotsBefore(ts, ts - Span, Lookback) : e.id \in full}
    IN  {e \in found : \A f \in found : ~Newer(e, f)}

\* The snapshot whose screen of the pane it adopts: one or none.
FillScrollback(ts) == Latest({e \in SnapshotsBefore(ts, ts - Span, Lookback) : e.id \in full})
-----------------------------------------------------------------------------
(* Properties *)

\* A pane that resolves to a snapshot of its own server without screens.
Lacking(t) == {e \in PriorSnapshot(t) : e.inc = inc /\ e.id \notin full}

\* It is never given the screen of the pane an earlier server had under its
\* id, unless the server is no older than the span: FillScrollback looks back
\* without the start of the server (scrollback.go:33-53).
OwnUnlessYoung ==
    \A t \in started..now : \A prior \in Lacking(t) :
        \A e \in FillScrollback(prior.ts) : e.inc = inc \/ started >= prior.ts - Span

\* And however saves, prunes and restarts fell, it is given the newest screen
\* its server ever had captured of it: if it is in the span, if fewer saves
\* than the history keeps came since, and (two rows of one time being pruned
\* in no order) if no other row has its time.
AdoptsNewestOwnScreen ==
    /\ OwnUnlessYoung
    /\ \A t \in started..now : \A prior \in Lacking(t), s \in shot :
         /\ s.ts < prior.ts /\ s.ts >= prior.ts - Span
         /\ nextId - s.id <= SnapshotKeep
         /\ \A e \in snaps : e.ts = s.ts => e.id = s.id
         => IdsOf(FillScrollback(prior.ts)) = {s.id}
=============================================================================
