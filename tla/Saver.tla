-------------------------------- MODULE Saver --------------------------------
(***************************************************************************)
(* snapshot.Saver.Save against a tmux server that keeps changing: three    *)
(* concurrent listings joined by position, the fingerprint and throttle    *)
(* decisions over the metadata of the last save, the captures of the panes *)
(* by position, the insert and the three metadata writes, each a step the  *)
(* process may stop at.                                                    *)
(*                                                                         *)
(* The server has one session: a sequence of windows, renumbered as they   *)
(* close, each with one pane that bears the window's id.  `detail` is what *)
(* a listing shows that is not structure: directory, command, layout.      *)
(* Ids start over when the server is restarted.  Other commands hold the   *)
(* flock at other times (module ScrollbackStore) and a prune keeps the     *)
(* newest snapshot (module Retention), so one save runs at a time and the  *)
(* newest snapshot is all of the history it needs.                         *)
(***************************************************************************)
EXTENDS Integers, Sequences, FiniteSets

CONSTANTS
    WindowIds,      \* ids tmux hands out within one server lifetime
    NoWindow,       \* no pane listed at this position, or no screen captured
    Details,        \* values of the non-structural part
    MinSaveInterval,    \* in ticks; 0 turns the throttle off
    Captures,       \* CaptureScrollback
    MaxChanges,     \* bound on what users do to the server
    MaxRestarts,    \* bound on server restarts
    MaxCrashes      \* bound on saves that die or fail part-way

ASSUME SaverAssumption ==
    /\ IsFiniteSet(WindowIds)
    /\ NoWindow \notin WindowIds
    /\ {MinSaveInterval, MaxChanges, MaxRestarts, MaxCrashes} \subseteq Nat
    /\ Captures \in BOOLEAN

VARIABLES
    windows, detail,    \* the server's windows by index, <<>> when it is gone
    used,               \* ids given out since the server started
    inc,                \* incarnation of the server
    changes, crashes,   \* how many so far
    pc, reads,          \* where the save is; the listings still to come
    seen,               \* what the listings returned so far
    disturbed,          \* the server changed since the save began
    manifest, todo,     \* the manifest; positions still to capture
    began,              \* ticks since the save read the clock
    age,                \* ticks since last_save_ts
    metaFP, metaStructFP,   \* last_save_fingerprint, last_save_structure_fingerprint
    newest              \* the newest snapshot, as a set of none or one

server == <<windows, detail, used, inc>>
meta == <<metaFP, metaStructFP>>
vars == <<windows, detail, used, inc, changes, crashes, pc, reads, seen, disturbed,
          manifest, todo, began, age, metaFP, metaStructFP, newest>>

Listings == {"sessions", "windows", "panes"}
Labels == {"idle", "list", "decide", "capture", "insert", "fp", "structFP", "ts"}
Indexes == 1..Cardinality(WindowIds)
Lists == UNION {[1..n -> WindowIds] : n \in 0..Cardinality(WindowIds)}
Entry == [window : WindowIds, pane : WindowIds \cup {NoWindow}, screen : WindowIds \cup {NoWindow}]
Manifests == [entries : UNION {[1..n -> Entry] : n \in 0..Cardinality(WindowIds)}, detail : Details]
Unread == [sessions |-> FALSE, windows |-> <<>>, panes |-> <<>>, detail |-> CHOOSE d \in Details : TRUE]
Blank == [entries |-> <<>>, detail |-> Unread.detail]

Up == windows # <<>>
Older(t) == IF t < MinSaveInterval THEN t + 1 ELSE t

\* Mutant: the screens count, so what is compared before the capture differs
\* from what is stored after it.
FP_Screens(m) == {<<m.entries, m.detail>>}

\* Manifest.Fingerprint, taken before any screen is captured, and
\* StructureFingerprint: which window is at which index with which pane.
FP(m) == {<<[i \in DOMAIN m.entries |-> <<m.entries[i].window, m.entries[i].pane>>], m.detail>>}
StructFP(m) == {[i \in DOMAIN m.entries |-> <<m.entries[i].window, m.entries[i].pane>>]}

\* Types; workers fill the manifest in only while captures run (wg.Wait,
\* save.go:207), so what is recorded is finished.
TypeOK ==
    /\ windows \in Lists /\ detail \in Details /\ used \subseteq WindowIds
    /\ inc \in 0..MaxRestarts /\ changes \in 0..MaxChanges /\ crashes \in 0..MaxCrashes
    /\ pc \in Labels /\ reads \subseteq Listings /\ disturbed \in BOOLEAN
    /\ seen \in [sessions : BOOLEAN, windows : Lists, panes : Lists, detail : Details]
    /\ manifest \in Manifests /\ todo \subseteq Indexes /\ (todo # {} => pc = "capture")
    /\ began \in 0..MinSaveInterval /\ age \in 0..MinSaveInterval
    /\ newest \in SUBSET [m : Manifests, inc : 0..MaxRestarts]
    /\ Cardinality(newest) <= 1

Init ==
    /\ windows \in {l \in Lists \ {<<>>} : \A i, j \in DOMAIN l : l[i] = l[j] => i = j}
    /\ used = {windows[i] : i \in DOMAIN windows}
    /\ detail \in Details
    /\ inc = 0 /\ changes = 0 /\ crashes = 0
    /\ pc = "idle" /\ reads = {} /\ seen = Unread /\ disturbed = FALSE
    /\ manifest = Blank /\ todo = {}
    /\ began = MinSaveInterval /\ age = MinSaveInterval
    /\ metaFP = {} /\ metaStructFP = {}
    /\ newest = {}
------------------------------------------------------------------------------
(* The server and the clock. *)

saveVars == <<pc, reads, seen, manifest, todo, began, age, meta, newest>>

UserActs ==
    /\ Up /\ changes < MaxChanges
    /\ changes' = changes + 1
    /\ disturbed' = TRUE
    /\ UNCHANGED <<inc, crashes, saveVars>>

OpenWindow(w) ==
    /\ UserActs
    /\ w \notin used
    /\ used' = used \cup {w}
    /\ windows' = Append(windows, w)
    /\ UNCHANGED detail

\* The last window takes the session and the server with it.
CloseWindow(i) ==
    /\ UserActs
    /\ i \in DOMAIN windows
    /\ windows' = SubSeq(windows, 1, i - 1) \o SubSeq(windows, i + 1, Len(windows))
    /\ UNCHANGED <<detail, used>>

Churn(d) ==
    /\ UserActs
    /\ d # detail
    /\ detail' = d
    /\ UNCHANGED <<windows, used>>

\* A new server: ids start over.
Restart(w) ==
    /\ ~Up /\ inc < MaxRestarts
    /\ windows' = <<w>> /\ used' = {w} /\ inc' = inc + 1
    /\ disturbed' = TRUE
    /\ UNCHANGED <<detail, changes, crashes, saveVars>>

Tick ==
    /\ <<Older(age), Older(began)>> # <<age, began>>
    /\ age' = Older(age) /\ began' = Older(began)
    /\ UNCHANGED <<server, changes, crashes, pc, reads, seen, disturbed, manifest, todo, meta, newest>>
------------------------------------------------------------------------------
(* Save *)

Done ==
    /\ pc' = "idle" /\ reads' = {} /\ seen' = Unread /\ disturbed' = FALSE
    /\ manifest' = Blank /\ todo' = {}

\* A hook or the timer starts a save, and it has the flock.
SaveBegin ==
    /\ pc = "idle"
    /\ pc' = "list" /\ reads' = Listings /\ began' = 0 /\ disturbed' = FALSE
    /\ UNCHANGED <<server, changes, crashes, seen, manifest, todo, age, meta, newest>>

\* No server is an empty list for each of the three.
List(l) ==
    /\ pc = "list" /\ l \in reads
    /\ reads' = reads \ {l}
    /\ seen' = CASE l = "sessions" -> [seen EXCEPT !.sessions = Up]
                 [] l = "windows" -> [seen EXCEPT !.windows = windows]
                 [] l = "panes" -> [seen EXCEPT !.panes = windows, !.detail = detail]
    /\ UNCHANGED <<server, changes, crashes, pc, disturbed, manifest, todo, began, age, meta, newest>>

\* list-windows and list-panes go on to ask for each entity by id, and fail
\* when it has gone since: Save returns the error.
ListFails ==
    /\ pc = "list" /\ reads # {} /\ disturbed
    /\ Done
    /\ UNCHANGED <<server, changes, crashes, began, age, meta, newest>>

\* The join: a pane belongs to the window listed at its index.
Joined ==
    [entries |-> [i \in DOMAIN seen.windows |->
        [window |-> seen.windows[i],
         pane |-> IF i \in DOMAIN seen.panes THEN seen.panes[i] ELSE NoWindow,
         screen |-> NoWindow]],
     detail |-> seen.detail]

\* Build is done: a manifest, or no session and nothing to save.
Build ==
    /\ pc = "list" /\ reads = {}
    /\ IF seen.sessions
         THEN /\ pc' = "decide" /\ manifest' = Joined
              /\ UNCHANGED <<reads, seen, disturbed, todo>>
         ELSE Done
    /\ UNCHANGED <<server, changes, crashes, began, age, meta, newest>>

Throttled == age < MinSaveInterval

Unchanged == FP(manifest) = metaFP

\* Mutant: the throttle drops structural changes too.
Skips_AnyThrottled == Unchanged \/ Throttled

\* Mutant: the throttle drops churn whatever the age of the last save.
Skips_AllChurn == Unchanged \/ StructFP(manifest) = metaStructFP

\* What Save returns without recording: nothing changed, or churn inside the
\* throttle window.
Skips == Unchanged \/ (Throttled /\ StructFP(manifest) = metaStructFP)

Skip ==
    /\ pc = "decide" /\ Skips
    /\ Done
    /\ UNCHANGED <<server, changes, crashes, began, age, meta, newest>>

\* A throttled save is downgraded: no screens.
Decide ==
    /\ pc = "decide" /\ ~Skips
    /\ IF Captures /\ ~Throttled
         THEN pc' = "capture" /\ todo' = {i \in DOMAIN manifest.entries : manifest.entries[i].pane # NoWindow}
         ELSE pc' = "insert" /\ UNCHANGED todo
    /\ UNCHANGED <<server, changes, crashes, reads, seen, disturbed, manifest, began, age, meta, newest>>

\* A worker captures the pane at session:index.pane; a failure leaves the
\* pane without a screen.
CapturePane(i) ==
    /\ pc = "capture" /\ i \in todo
    /\ todo' = todo \ {i}
    /\ \E screen \in {windows[j] : j \in {i} \cap DOMAIN windows} \cup {NoWindow} :
            manifest' = [manifest EXCEPT !.entries[i].screen = screen]
    /\ UNCHANGED <<server, changes, crashes, pc, reads, seen, disturbed, began, age, meta, newest>>

\* Mutant: the workers are not waited for.
CapturesDone_NoWait ==
    /\ pc = "capture"
    /\ pc' = "insert"
    /\ UNCHANGED <<server, changes, crashes, reads, seen, disturbed, manifest, todo, began, age, meta, newest>>

CapturesDone ==
    /\ pc = "capture" /\ todo = {}
    /\ pc' = "insert"
    /\ UNCHANGED <<server, changes, crashes, reads, seen, disturbed, manifest, todo, began, age, meta, newest>>

\* One row; the pins that follow it are in module ScrollbackStore.
InsertEvent ==
    /\ pc = "insert"
    /\ newest' = {[m |-> manifest, inc |-> inc]}
    /\ pc' = "fp"
    /\ UNCHANGED <<server, changes, crashes, reads, seen, disturbed, manifest, todo, began, age, meta>>

SetFingerprint ==
    /\ pc = "fp"
    /\ metaFP' = FP(manifest)
    /\ pc' = "structFP"
    /\ UNCHANGED <<server, changes, crashes, reads, seen, disturbed, manifest, todo, began, age, metaStructFP, newest>>

SetStructureFingerprint ==
    /\ pc = "structFP"
    /\ metaStructFP' = StructFP(manifest)
    /\ pc' = "ts"
    /\ UNCHANGED <<server, changes, crashes, reads, seen, disturbed, manifest, todo, began, age, metaFP, newest>>

\* last_save_ts is the time the save began, not the time it ends.
SetTimestamp ==
    /\ pc = "ts"
    /\ age' = began
    /\ Done
    /\ UNCHANGED <<server, changes, crashes, began, meta, newest>>

\* The process is killed or a step of it fails: what it wrote stays.
Crash ==
    /\ pc # "idle" /\ crashes < MaxCrashes
    /\ crashes' = crashes + 1
    /\ Done
    /\ UNCHANGED <<server, changes, began, age, meta, newest>>

SaveStep ==
    \/ SaveBegin \/ ListFails \/ Build \/ Skip \/ Decide \/ CapturesDone
    \/ InsertEvent \/ SetFingerprint \/ SetStructureFingerprint \/ SetTimestamp
    \/ \E l \in Listings : List(l)
    \/ \E i \in Indexes : CapturePane(i)

Next ==
    \/ \E w \in WindowIds : OpenWindow(w) \/ Restart(w)
    \/ \E i \in Indexes : CloseWindow(i)
    \/ \E d \in Details : Churn(d)
    \/ Tick \/ SaveStep \/ Crash

Spec == Init /\ [][Next]_vars
------------------------------------------------------------------------------
(* Properties *)

SameStructure(s) == StructFP(s.m) = StructFP(manifest)

FoundRecorded == \E s \in newest : SameStructure(s) /\ (Throttled \/ FP(s.m) = FP(manifest))

\* save.go:80-87, "structure always saves": a save that returns without an
\* error has recorded the structure it listed, or found it recorded in the
\* newest snapshot; and all it listed, unless it was churn and throttled.
\* As long as no save has died part-way.
StructureAlwaysSaves == [][Skip /\ crashes = 0 => FoundRecorded]_vars

\* The same, whatever saves died before.
StructureSavesAfterCrash == [][Skip => FoundRecorded]_vars

\* Once users leave the server alone, the newest snapshot comes to show it as
\* it is and stays so: a torn listing is replaced, and what the throttle drops
\* "the next save will pick up anyway" (save.go:80-82); if no save died.
Shows(s) ==
    /\ s.m.detail = detail
    /\ DOMAIN s.m.entries = DOMAIN windows
    /\ \A i \in DOMAIN windows : s.m.entries[i].window = windows[i] /\ s.m.entries[i].pane = windows[i]

EventuallyRecorded == <>[](Up /\ crashes = 0 => \E s \in newest : Shows(s))

\* Once users leave the server alone saves stop recording it, even when some
\* of them crash: the history is not filled with copies of one state, which
\* would push everything else out of the retention limit.
SavesSettle == <>[](pc # "insert")

\* The timer starts a save again and again, a save that runs goes on to its
\* end, and time passes.
FairSpec == Spec /\ WF_vars(SaveStep) /\ WF_vars(Tick)
==============================================================================
