----------------------------- MODULE EventQueries -----------------------------
(***************************************************************************)
(* The SELECTs of internal/store over the events of one server lane, as    *)
(* operators on sets of rows.  A row is any record with an id (the primary *)
(* key) and a ts (milliseconds; here ticks of a small clock).              *)
(***************************************************************************)
EXTENDS Integers, FiniteSets

CONSTANTS
    Second,     \* ticks in a second: the resolution of #{start_time}
    Day,        \* ticks in a UTC day
    Week        \* ticks the daily floor of PruneSnapshots looks back

ASSUME ClockAssumption == {Second, Day, Week} \subseteq Nat \ {0}

\* ORDER BY ts DESC, id DESC
Newer(f, e) == f.ts > e.ts \/ (f.ts = e.ts /\ f.id > e.id)

\* ... LIMIT 1: no row or one.
Latest(E) == {e \in E : \A f \in E : ~Newer(f, e)}

LatestSnapshotBefore(E, t) == Latest({e \in E : e.ts < t})

\* ... LIMIT n
Listed(E, n) == {e \in E : Cardinality({f \in E : Newer(f, e)}) < n}

\* ORDER BY ts DESC LIMIT n has no tiebreak: any choice among equal times.
NewestByTs(E, n) ==
    {K \in SUBSET E :
        /\ Cardinality(K) = IF Cardinality(E) < n THEN Cardinality(E) ELSE n
        /\ \A e \in K, f \in E \ K : e.ts >= f.ts}

\* ts IN (SELECT max(ts) ... WHERE ts >= weekAgo GROUP BY date(ts))
NewestOfDay(E, now) ==
    LET recent == {e \in E : e.ts >= now - Week}
    IN  {e \in recent : \A f \in recent : f.ts \div Day = e.ts \div Day => f.ts <= e.ts}

\* What PruneSnapshots may leave of the snapshots E.
SnapshotSurvivors(E, keep, now) == {K \cup NewestOfDay(E, now) : K \in NewestByTs(E, keep)}

\* PruneUnresolvableCloseEvents: ts <= MIN(ts) of the snapshots, NULL when
\* there is none.
AtOrBelowFloor(C, E) == {c \in C : E # {} /\ \A e \in E : c.ts <= e.ts}

\* tmux reports whole seconds: ServerStartTime is at or before the start.
ServerStartTime(started) == (started \div Second) * Second
==============================================================================
