# A verification project for tmux-remux

tmux-remux saves the state of a tmux server, records what is closed, and brings
either back. It is a set of short commands, each a process of its own, that tmux
hooks, a key binding or a systemd timer start at any time, against one SQLite
database, one directory of content-addressed screen files and a tmux server that
goes on changing meanwhile. What makes it hard is not any one command but the
order they come in: a save between a close and the capture of the close, a
process that dies between two statements, a server that is replaced and hands
out the same ids again, a snapshot that was true a moment ago.

This directory holds TLA+ models of those parts, the TLC configurations that
check them on small instances and the theorems TLAPS proves about them.
References are to files under `src/`.

## The system

| part | source | state | operations |
|---|---|---|---|
| event and scrollback store | `internal/store`, `internal/scrollback`, `internal/lockfile` | tables `events`, `event_scrollbacks`, `scrollbacks` with a reference count, `server_state`; screen files named by digest; one flock | insert, link, prune, delete, upsert, reap a lane, list and remove orphans |
| snapshot saver | `internal/snapshot` | `last_save_fingerprint`, `last_save_structure_fingerprint`, `last_save_ts` of the lane | `save`: list the server, decide, capture screens, record, prune |
| close capture | `internal/closeevent` | close rows of the lane | `capture-event`: deduplicate, retract, eliminate, resolve, embed |
| undo and restore | `cmd/tmux-remux`, `internal/restore`, `internal/filter` | the tmux server | `undo`, `undo --pop`, `restore`: choose an event, build a plan, apply it |
| retention | `store.PruneSnapshots`, `PruneCloseEvents`, `PruneUnresolvableCloseEvents` | - | after every save, and `prune` |
| gc | `GCCmd` | - | reap dead lanes, remove unreferenced screens |
| relaunch stamps | `relaunch_stamp.go`, `snapshot/owner.go` | a pane option | agents' hooks claim a pane |
| picker | `internal/picker`, `internal/panemap` | a UI model | browse, preview, restore |
| hooks, configuration, log | `internal/triggers`, `internal/config`, `internal/applog`, `internal/agenthook` | tmux options, text files | install, read |

How they interact. Every command but `status` goes through `withStore`: poll for
the flock, open the database, run, close, release. A command is therefore alone
with the database, but it is **not** a transaction: each statement commits by
itself, the files are outside of the database, and a kill at any point keeps
what is done. The *lane* (the server's socket path) partitions events and
metadata; screen files and the `scrollbacks` table are shared by all lanes. The
tmux server takes no part in the lock: users act while a command lists it.

What each part must guarantee, and what makes it hard:

- **Store.** A screen an event needs is on disk as long as the event is; nothing
  is kept for ever; counts equal links. Hard: several processes, several lanes,
  death between any two statements, files beside the rows.
- **Saver.** The newest snapshot comes to show the server; structure is never
  dropped; copies of one state do not fill the history. Hard: three listings of a
  moving server, metadata written after the event and not with it, a throttle.
- **Retention.** A restore after a crash finds the state from before. Hard: two
  rules (limit and daily floor), equal timestamps, whole-second start times, a
  clock read before the listing.
- **Close capture.** One closure leaves one row, which brings back what was
  closed and nothing else. Hard: the hooks of a cascade race for the flock, each
  looks at a server that has moved on and at a snapshot that is behind it, one
  hook does not say which pane died, ids are reused after a restart.
- **Undo.** It restores the newest closure that can be restored, and discards
  only what never can be. Hard: prunes and saves change what is resolvable.
- **Restore.** All of a plan or an account of what failed; a retry does not do
  it twice. Hard: every tmux call may fail.
- **Relaunch stamps.** The stamp of a running agent is kept, that of one that is gone
  is not replayed. Hard: hooks of several agents write two options, processes die
  and pids come back between any write and the capture that judges it.
- **Picker.** Enter restores what is shown, a click hits what is drawn, screens come
  once and stay. Hard: screens load asynchronously, filters fold trees under the
  cursor, hit-testing and drawing are computed apart, panels are small.

## The modules

| module | models | state it owns |
|---|---|---|
| `ScrollbackStore` | store, screen files, flock; save, capture, undo, prune and gc as far as they touch them | events, links, rows, counts, files |
| `ScrollbackStoreProofs` | theorems about it | |
| `EventQueries` | the SELECTs and DELETEs over one lane's events, as operators | none |
| `Retention` | prune against saves and server restarts | snapshot rows |
| `RetentionProofs` | theorems about it | |
| `Backfill` | `Retention` composed with `FillScrollback`, which lends an older snapshot's screen to a close | which snapshots have screens |
| `BackfillProofs` | theorems about it | |
| `Saver` | `Saver.Save` step by step against a server that changes | listings, manifest, metadata |
| `SaverProofs` | theorems about it | |
| `TmuxServer` | the server the close hooks watch, and the hooks it fires | panes, windows, sessions, waiting hooks |
| `CloseEvents` | capture-event, save, undo, prune on top of `TmuxServer` and `EventQueries` | snapshot and close rows |
| `CloseEventsProofs` | theorems about it | |
| `Restore` | filter, plan and `Apply` of restore, undo and pick against a server users go on with | windows, panes, plan, failures |
| `RestoreProofs` | theorems about it | |
| `RelaunchStamp` | relaunch-stamp, the owner it finds and the capture that judges it, over the processes of a pane | process table, hooks, two pane options, one capture |
| `RelaunchProofs` | theorems about it | |
| `PreviewCache` | abstract: what the picker promises of the screens it reads | status of each digest |
| `PickerLayout` | where panes go, which rows of a list are drawn, how blocks share a panel | none |
| `CloseList` | which closes are listed, grouped and hidden | none |
| `Picker` | keys, mouse, answers and sizes, and Enter, on top of both | cursors, filter, trees, screens, offset |
| `PickerProofs` | theorems about it | |

`ScrollbackStoreMC`, `CloseEventsMC`, `RestoreMC`, `RelaunchStampMC` and `PickerMC` add the symmetry sets and the values a
configuration cannot write down; `Backfill` (and with it `Retention`) and `Saver` are checked directly.

They split the system along the flock. *Inside* a command the steps are those of
`ScrollbackStore` (what is committed when a process dies) and `Saver` (what the
server does during the listing), and of `Restore` (what tmux calls do, one by
one). *Between* commands, where a command may be one
step, they are those of `CloseEvents` and `Retention`. What one module abstracts
the other has: `ScrollbackStore` lets a capture retract any rows and embed any
digests of the lane's snapshots, `CloseEvents` says which rows; `CloseEvents` lets a
save record or not when nothing it tells apart has changed, `Saver` says when.

### ScrollbackStore

A process is `idle` or holds the flock at a label `pc`; `op` says which command
it runs. One action per statement: `SavePut` (a worker's rename), `SaveUpsert`,
`SaveInsert`, `SaveLink`, `PruneSnapshots`, `PruneCloses`,
`PruneUnresolvableCloseEvents`, `CaptureInsert`, `CaptureRetract`, `CaptureLink`,
`UndoDelete`, `GcReapLane`, `GcList`, `GcDeleteFile`, `GcDeleteRow`; `SaveSkips`
is the save that records nothing and prunes all the same. `Abort` ends
a command of `FaultyOps` anywhere, by a kill or a returned error; a capture's failed
link is swallowed and it goes on (`CaptureLink`). The cascade and
the trigger of migration 0001 are in `DeleteEvents`, the foreign keys in
`Linkable` and `DeleteScrollback`. `torn` is history: the events that name a screen
their command did not link, because it died or failed, and those that took such a
name over. Abstracted: time follows ids, which rows the
daily floor spares, which lanes are dead and which rows a capture retracts are
free choices, a superset of what the code does.

What the exception for `torn` leaves out is a limit of the code: when a save dies
unlinked, then a gc between a file and its row, a capture that embeds from that
snapshot pins the row whose file is gone, and no later gc lists it
(main.go:1019-1021 counts on the next one). Without a gc that dies there it does not
happen, which `LinkedBlobCorrect` proves.

### EventQueries and Retention

Rows are records with an id and a time; `Latest`, `Listed`, `NewestByTs` are the
orders of the queries, `NewestByTs` returning every choice SQLite has among equal
times. `Retention` adds a clock, a server that stops and starts, and a save in
two steps: it reads the clock, then lists the server, in the order of
`save.go:59-60`. `newestTs` is history.

### Backfill

Every step of `Retention`, where a recorded save is now one with screens or one
without (`SaveFull`, `Lean`): a throttled structural save stores none. A close of
a pane resolves to `PriorSnapshot`; when that has no screens, `FillScrollback`
goes back from it through at most `Lookback` snapshots of at most `Span`, as the
code does without the start of the server. The pane is one that every server has
under the same id, the case in which servers can be mixed up. `shot` is history:
the newest snapshot with screens of the server that runs. `OwnUnlessYoung` has the
limit of the code in it: a server younger than the span, fifteen minutes in the
code, may see the screen of a pane of an earlier one.

### Saver

The server is one session of windows with a pane each, numbered by position and
renumbered as they close, plus a `detail` that is not structure. `List` is one of
the three listings, in any order; `Build` joins them by index; `Skips` is the
throttle decision; `CapturePane` addresses the pane by its position, as the code
does; the insert and each `SetMeta` are steps. `age` and `began` are counters
that stop at the throttle interval, so no clock has to be bounded. `Crash` stops
a save anywhere.

### TmuxServer and CloseEvents

`TmuxServer` is outside of the repository; it is what the hooks rely on. Each way
to close fires the hooks tmux fires, with the fields the fragments in
`triggers.go` pass on; `took` and `cause` are history. A restart empties the
waiting hooks: the processes a server started are assumed not to outlive it into
the next one. `ServerStarted` is 0 when no server answers, which turns the guard
on incarnations off, as in the code. `Capture` is all of capture-event: identify
a killed pane, drop what lives or is deduplicated, resolve, embed, retract.
`Undo` is all of `undo --pop`: pick, or discard the run of unresolvable rows; a
restore may fail and keep the row.

What users and time do is `Outside`, one step of the server at a time. `Room` bounds
those steps, undos and the events recorded together, by `MaxSteps`, so that a run has
many of one when it has few of the other; saves, captures, prunes and undos are
otherwise free to come anywhere, in the middle of a cascade too.

### Restore

An item is a snapshot, or the session, window or pane a close event resolves to;
a planned pane is known by its position in it, and `from` of a live window or
pane says which attempt made it as what. `Plans` is all that is computed
beforehand: `SkipSession` and `SkipPane` (the filter, off for undo and the pick of a close),
`WindowPlan` (creation, then each pane followed by its options, then the layout),
`ParentWindows` (the live window of a lost pane, by id, then by name; when tmux
does not list its windows, the pane's window is made anew, `Plans`). A pick of a
snapshot filters by the sessions that ran before the picker opened, any by now
(`RunningSets`). Each tmux
call of `Apply` is an action; new-session and move-window are two. `Fault` lets a
call fail that could have succeeded; what cannot succeed (an index in use, a
session that has gone) fails by itself. An answer without a pane id leaves the
window or pane there and reports it. Users open sessions and windows, select and
close panes between any two calls; `Die` ends the command anywhere. `touched` and
`closed` are history.

### RelaunchStamp

`procs` is the process table of one pane: shells, agents, other programs and
hooks, with zombies, orphans that go to init, and pids that come back. A hook of
`hooks` is at the walk up to the pane (`WalkUp`, `PickOwner`), at the second
lookup of the owner (`OwnerStart`), at the first or the second `set-option`
(`SetOwner`, `SetStamp`); a clear starts at the writes. A capture is `ListPane`,
which reads both options and the foreground command at once, `CountChildren`,
and `Judge` (`Bound`, `Stale`); `Replayed` is what a restore of it would do. Each
call may fail. A walk is one step, because pids are assumed not to come back
within a walk, and what else may happen during one only cuts it off: parents
change to init and never back. `agent`, `plain`, `lost` and `rival` are history:
for which agent the options were written, whether only shells stood above it,
whether tmux refused the record, whether another agent's hook wrote one since.

Two limits of the code show in the properties. `GoneDropped` speaks of agents
with only shells above them, for a launcher that lives on keeps the stamp, as
README.md:206 says. `LiveStampKept` leaves out a `rival`: the record of a hook
that outlives its agent can hit an agent that resumed the same session since.

### Picker

One instance is opened on a list of snapshots or of closes and runs until Enter
or a quit. `Key` and `Mouse` are what every key and every click leave alone; an
action is one key, one wheel notch, one click, a new size (`Resize`), an answer
(`ScrollbackLoaded`) or a drawn frame, which decorates the tree under the cursor
(`Frame`). A tree is the nodes of a manifest in preorder with the set of expanded
ones; `decorated` is the filter its marks are from, so that `KeptPanes` is what
the tree shows. `PlannedPanes` is what `BuildPlan` takes, with the filter of the
picker. A failed or a late read is an answer like another; `PreviewCmd` runs after
every move and asks for what is then on show.

`PickerLayout` has the numbers View and the mouse both need; where the code
computes one twice it is defined twice (`TopHeight` and `ListPaneHeight`), and
`Drawn` and `Clicked` are each translated from its own file, so that
`PointerTruth` compares them on every cell. `CloseList` is `partitionRecoverable`
and the sections and groups of `closelist.go`.

`PreviewsAnswered` is the refinement: under the mapping of `Cache`, the picker
implements `PreviewCache!Spec`, its liveness included.

Limits of the code the model shows, none of which a text of the repository
contradicts: a filter toggle may leave the tree's cursor past its last row and a
screen nobody asks for until the next move; left, right, Tab, a toggle and a
smaller terminal may leave the offset of a snapshot's preview past its end; a
screen whose read failed is never tried again; the note of Enter stays through
mouse events. Not in the model: the sessions that run are those of the moment it
opened (main.go:646), and a close is resolved again after Enter (main.go:695), so
that the tmux server may have moved on; what a restore then meets is in `Restore`.

## The runs

Passing runs:

| run | properties | what it shows |
|---|---|---|
| `store_whole` | `TypeOK`, `RefcountExact`, `ReferentialIntegrity`, `NamesPinned`, `LinkedBlobOnDisk` | Two processes of two servers run every command, and every command fails or dies at any step, gc between a file and its row too: counts are exact, foreign keys hold, what a manifest names is pinned and stays so, and what is pinned has its file, but for what a command left unlinked. |
| `store_gc_progress` | `OrphanCollected` | Saves, captures, undos and prunes die anywhere, gc does not: with a gc timer that comes again and again every unreferenced row is collected or pinned anew. |
| `retention_floor` | `DailyFloorHolds`, `HistoryBounded`, `AdoptsNewestOwnScreen` | Saves, prunes and server restarts in any order: the newest snapshot of each recent day is never evicted, no more history than the limit and the days allow is kept, and a closed pane that resolves to a snapshot without screens gets the newest one its own server had captured. |
| `saver_whole` | `TypeOK`, `StructureAlwaysSaves`, `EventuallyRecorded`, `SavesSettle` | A save torn by users' changes and a restart, with throttle, captures and a death at any step: a save that skips has its structure in the newest snapshot unless one died before, the newest snapshot comes to show the server once users leave it alone, and saves then stop recording. |
| `closes_whole` | `TypeOK`, `OneRowPerClosure`, `OnlyClosedPanesListed`, `EliminatedOnce`, `OwnServersEntity`, `DiscardedIdsUnsaved`, `RetractedStillHeld` | Panes exit or are killed without a name, are split, joined and moved, windows and sessions are killed, the server restarts and reuses every id, while captures of each cascade get the flock in any order and saves, undos and prunes come anywhere: one row stays per closure, none lists a pane that still runs or one of another server, elimination names no pane that has a row, what closed with a window is brought back by the row that stays, and what undo discards of panes and windows is in no snapshot. |
| `restore_apply` | `LandsInOwnWindow`, `OptionsOnOwnPane`, `Accounted`, `PoppedOnlyIfRestored`, `NotTwice` | restore, undo and pick, the latter with the sessions that ran when its list was opened, bring back a snapshot, a session, a window or a pane while calls fail, the command dies and users open, close and select: panes land in their own window with their own options, each is accounted for, an undone event is deleted only when all of it is back, and a second restore brings nothing back twice. |
| `pick` | `TypeOK`, `EnterRestoresShown`, `PointerTruth`, `FramesHold`, `OnlyTogglesUnsettle`, `CloseOffsetStays`, `PreviewsAnswered` | Keys, wheel, clicks, sizes of the terminal and screens that arrive late, in any order, on lists of snapshots and of closes: a click selects what is drawn under it, the row under the cursor is drawn, Enter restores what the tree shows, a screen is read once and answered, and only a filter toggle leaves a cursor or a preview behind. |
| `relaunch_owner` | `TypeOK`, `OwnerCoversAgent`, `LiveStampKept`, `GoneDropped`, `HandKept` | Agents, helpers, launchers and nested shells start and end in a pane while hooks stamp and clear it, pids come back and a capture looks on: the stamp of an agent that runs is kept, that of one that is gone is dropped, and nothing is judged by a record made for another stamp. |

Runs that find a statement of the repository violated:

| run | properties | what it shows |
|---|---|---|
| `store_stray_file` | `GcReapsOrphans` | A save that dies between writing a scrollback file and its row leaves a file no gc ever reaps, for gc starts from the rows. |
| `saver_crash` | `StructureSavesAfterCrash` | A save dies after its insert and before the metadata, the structure goes back: the next save takes the stale fingerprint for the newest snapshot and skips. |
| `closes_discards` | `DiscardsOnlyUnsaved` | A save lands between a session's end and its capture: the newest snapshot before the row no longer holds the session, and undo discards the row though an older snapshot does. |
| `closes_retracts` | `RetractedRecreated` | A save lands between the end of a session and the captures: the row of the session resolves to nothing, and the row of its pane, which embeds what it held, is retracted for it. |

Each property of a passing run has a mutant in `PROJECT.json`: a definition that
stands before the one it mutates and under which the property fails. The type
invariants of `Retention` and `Restore` are proved and not run: TLC would only
repeat what the theorems say.

### Bounds

- Store: two processes of two lanes, two panes, two digests, three events, both
  limits 1. Two of each suffice for what the store compares: own lane and other
  lane, same digest and another, kept and evicted; three events are a snapshot, a
  close that embeds it and the snapshot that evicts the first. `store_gc_progress`
  has one pane, for liveness is checked without symmetry.
- Retention and backfill: six ticks, three to a day, a week of one day, five rows,
  limit 2, one restart, a lookback of two rows and two ticks: days in and out of
  the week, more rows in a day than the limit, a row without screens behind one
  with, a row past the span and one past the lookback.
- Saver: two windows, two details, throttle 1, two changes from any first list of
  windows, one restart, one death: a window closes before another, an index is
  taken over, ids start over, and each may fall between any two steps of a save.
- Close events: `closes_whole` has all that users do, three panes, two windows, two
  sessions, a restart that gives every id out again, undo, prunes with a limit of
  one snapshot, two ticks, and eight steps: five acts of users or of the clock with three
  rows, or four with four, and so on. Three panes are a cascade of a pane in a window beside one in
  another, three rows a snapshot, an inner and an outer close or two snapshots
  around one. A dedup window of one tick; the scan limits
  (`OuterScan` 5, `InnerScan` 50, `SnapshotScan` 100, `UndoScan` 50) are the
  code's and not reached. `Acts` and `LaterActs` select what users do on
  the first server and on the next. What it checks on these is proved for all
  values. `closes_discards` and `closes_retracts` need only sessions that open and end.
- Restore: one snapshot of four sessions (two kept, a mirror, a stale one; an idle
  window first, so that the window that makes the session must be moved; idle,
  plain and decorated panes, panes with a startup command), a close of each kind;
  four servers (none, one with another window at the recorded index, with the
  window itself, with its name); two attempts, one fault or death, two user acts:
  enough for a window in the way, one taken away and a retry after either.

- Relaunch stamps: a pane of any kind and three processes in it on three pids, two
  deaths, one failed call: an agent, its hook and one process more, which is a
  helper, a launcher, a second agent of the same session, or takes the pid. One
  session id is enough, for a stamp set by hand is the one of other text.

- Picker: two screens, one of one line and one of four; three lists of snapshots (none;
  two, one of them broken; three) with idle panes, a session that runs and panes that
  share a screen; two of closes, with repeats, a split, a session of two windows,
  one of an unknown session and three that are hidden. One size of each layout, the
  smallest heights at which lists scroll, headers are pinned and blocks do not all
  fit: 7 rows narrow, 12 stacked, 9 wide. Every layout constant is the code's but
  the rows of the strip above a screen (`MapRows`) and of a wheel notch.

`CHECK_DEADLOCK FALSE` stands where the clock, the ids or the attempts run out, a bound of the
model and not of the system, and in `pick`, where the picker closes.

### Fairness

- `store_gc_progress`: weak fairness of a command's steps, for none waits for a
  user, and strong fairness of gc's `Acquire`: its timer comes again and again
  and it polls the flock while it waits. Nothing is assumed of other commands.
- `saver_whole`: weak fairness of the save's steps, the timer
  included, and of the clock. Users are free to act or not.
- `pick`: weak fairness of each screen's answer, for Bubble Tea runs each command
  in a goroutine of its own and delivers what it returns. Nothing is assumed of
  the user; the picker may close before an answer.

## The proofs

TLAPS checks them for every value of the constants that satisfies the named
assumptions of the modules. A theorem with a hypothesis says so, and the
hypothesis is one the code's defaults meet.

**ScrollbackStoreProofs.** `TypeCorrect`, `RefcountCorrect`, `ReferencesCorrect`,
`LinkedBlobCorrect`. Counts need more than themselves: that a row that is
absent has count 0 and no link, that the links are finite (for cardinalities),
that the event a process is linking is there, that a process that is not idle
holds the lock. `LinkedBlobCorrect` assumes that gc does not die between file and
row, and says it of every link, of torn events too; it needs that every row has its
file unless gc stands between the two, and
that gc's list has count 0 while it holds the lock. `NamesPinnedCorrect` and
`PinnedOnDiskCorrect` have no assumption: every command may die anywhere. `PinInv`
says that a name of an event that is not torn is
linked or waits in the `names` of its process (`EventsPinned`), that what waits
has its row, its file and no link on its pane, so that no link is refused
(`Gathered`), and that what gc has listed has no link. A torn event drops out of
the claim when its process lets go of the lock, and what takes a name from one drops
out with it.

**RetentionProofs.** `TypeCorrect`, `DailyFloorCorrect`, `HistoryBoundedCorrect`.
`FloorInv` adds to the floor that no row is younger than the history says, that a
save's clock reading is at or before now and at or after every row, so that a new
row is its day's newest. The bound is a cardinality: what a prune leaves is the
limit's rows and at most one time a day of those it looks back on.

**BackfillProofs.** `OwnScreenCorrect`: `Dated` says that no row is younger than
now and those of earlier servers no younger than the start of the one that runs.
`AdoptsNewestCorrect`: rows are dated in the order of their ids, and as long as
fewer rows than the limit have come after the newest screen a row of its time is
kept (`ScreensKept`). Its hypothesis is `SnapshotKeep <= Lookback`; both are 20
(config.go:89, scrollback.go:20). With a longer history than it looks back on,
the newest screen may be out of reach, and the claim is false.

**SaverProofs.** `StructureAlwaysSavesCorrect`, with no assumption: the property
itself ends at the first save that dies. `Tracks` says at each label which of the
two fingerprints already belong to the newest snapshot, and `MetaFollows` that
this is so while no save has died. After a death the claim fails, see
`saver_crash`. `TypeCorrect`: a listing has no window twice, so that it, and a
manifest joined from three of them, is no longer than there are windows.

**CloseEventsProofs.** Everything rests on what tmux promises of ids:
what went on a server that still runs does not come back on it (`ServerInv`, and
`Stays` for a step). `TypeCorrect` and `Base` add the rows (`RowInv`) and the
snapshots (`SnapInv`): those of the present server hold only ids it gave out.

- `EliminatedOnceCorrect`: a pane that has a row is not among the candidates.
- `OnlyClosedPanesListedCorrect`: `ClosedInv` says that what a row embeds is what
  its hook named (`Embedded`) and, if it is of the server that runs, is gone or
  is out of reach of every snapshot (`Buried`): a pane found in the same second a server
  started in may be one of the server before.
- `OwnServersEntityCorrect` follows from both and the comparison of start times.
- `OneRowPerClosureCorrect`, under `[]ScansReach`: the rows a capture looks at
  are all there are inside the window (the code looks at 5 and 50, capture.go:86
  and 167). `Cascades` says that of two hooks of one closure the inner names no
  more than the outer, waiting or recorded, so the order they run in is
  irrelevant.
- `DiscardedIdsUnsavedCorrect`, under `[]SnapshotsReach` (100 rows, capture.go:276):
  of a pane or window undo discards no snapshot is left, whenever saves come: what
  the newest snapshot lost before the capture, the row embeds. Of sessions the claim
  is false (`closes_discards`).
- `RetractedStillHeldCorrect`, under `[]SnapshotsReach`, with saves anywhere. `SavedInv`
  says that later snapshots are of the same server or a later one, and that a
  snapshot of this server that has a pane which lives is followed by such only
  (`KeptPane`); one that has a pane whose window's hook waits is followed by such as
  have the pane too or not the window (`KeptWith`). So
  the newest snapshot that has the window also has the panes that closed with it
  (`LastSeenLast`), and the new row embeds them (`WindowRowFinds`); what it does
  not embed it finds in the newest snapshot (`NewRowFinds`). A session's row
  embeds nothing, so a save between its end and its capture empties it; that is
  the finding of `closes_retracts`.

**RelaunchProofs.** `TypeCorrect`, `OwnerCoversAgentCorrect`, `LiveStampKeptCorrect`,
`GoneDroppedCorrect`, `HandKeptCorrect`. The process table is a forest of living
parents older than their children (`Forest`), so the processes above one are
finitely many and no process comes to stand below another later than it was
started. `HookOK` says at each label of a hook what it has found and that it is
still so, `RecordOK` and `StampOK` the same of the two options, `CapOK` of what a
capture has seen: a start number names one process for good, so neither a
pid that came back nor a process that went to init can be taken for another.

**PickerProofs.** `PickInv` is the conjunction of `EnterInv` (every tree that was
built is decorated with the filter in force and the manifest under the cursor was
parsed or refused), `Given` (the rows stand for closes that can be restored),
`OnList`, `TreesOK`, `PointsOK`, `ReadsOK` and `EndOK` (types, and where cursors may
be).

- `TypeCorrect` and `EnterRestoresShownCorrect`; that tree and plan decide alike is
  a lemma about `KeptPanes` and `PlannedPanes` (windows lie in sessions, panes in
  windows).
- `FramesHoldCorrect` and `PointerTruthCorrect` rest on lemmas about the layout for
  any numbers: a window of a list holds the cursor's row and no more rows than it
  may, headers and the count included; blocks share a panel without exceeding it;
  what `Drawn` and `Clicked` compute apart is the same row. `PointerTruthCorrect`
  assumes screens of at least `MinHeight` rows, six, the least the code lays out
  for: on a smaller one what it draws is taller than the screen.
- `OnlyTogglesUnsettleCorrect` and `CloseOffsetStaysCorrect` are about steps; a screen that
  arrives changes no frame (`FrameStays`), which is why the offset survives it.
- `PreviewsSafe`: `CacheInv` says that what was read, what failed and what is being
  read are disjoint, so that each step is one of `PreviewCache` or a stutter. Its
  fairness half is checked by `pick`.

**RestoreProofs.** Three parts.

*The plan.* From `RestoreAssumption` (names and indexes of a manifest differ) and the
definition of `BuildPlan`, for any item: each pane is made once, its options follow
at once, the layout of its window comes later (`Sound`), a split has its window
before it (`Rooted`), and each step is about the window its target names
(`About`), or, for a lost pane, every step is aimed at one id (`Into`). Joining
pieces keeps this (`SoundJoined`, `FlattenIs`).

*The server.* `Basics` is `ProgressOK` (types of the plan's progress), `PlacingOK`
(the window new-session made is at hand only before its move) and `ServerOK`: ids
are below the next, every active pane is of its window, and no two windows of a
session share an index. The last is the one that takes work: an insertion moves a
run of windows up to the first gap, a close may renumber, a free index is found
by counting. `TypeCorrect` follows.

*One invariant a property*, each on top of `Basics`:

- `NotTwiceCorrect`, for `SkipRunning`, the default (config.go:98): a pane of an
  attempt is from a step behind `pos` (`FromPlan`), and of an earlier one its session
  ran when the next was planned (`Once`). Without the filter a second restore does
  double what is there.
- `LandsInOwnWindowCorrect`: while nobody closes a pane, every window the plan has
  made so far is where it was put (`MadeAll`), so that what a split's target finds is
  that window, and its pane is in place (`InPlaceAll`). Nothing moves such a window: users
  open windows at free indexes, an index is taken over only with `InsertBefore`, in
  plans of one window, and no two windows of a plan have one target.
- `OptionsOnOwnPaneCorrect`: while `Calm`, the pane that was made last is the active one
  of its window until its options are set (`FreshLast`, `FreshPlaced`), which is
  why they directly follow it in the plan.
- `AccountedCorrect`: `Books` is `QueueOK` (a pane waits once, has not run, and the
  layout it waits for is ahead), `AtHand` (what new-session made waits for
  nothing yet), `FailedOK` (a failed window was reported) and `SettledAll`: every step behind
  `pos` has its pane as it should be, or a report, or a user closed it, or its
  pane waits (`Due`). At the end no layout is ahead, so none waits.
- `PoppedOnlyIfRestoredCorrect`: the row goes only with `Fatal` empty (`Through`),
  and then `Accounted` leaves no excuse but a close.

The attempts at these proofs changed the models where these said less than the
code: manifests and servers are now typed in the assumptions (`RestoreAssumption`,
`PickerAssumption`), ids are finitely many (`SaverAssumption`, `ServerAssumption`), `None` is
no process (`NoneAssumption`); and the hypotheses above were found by the step at
which an attempt without them failed.

Left to TLC: liveness (`OrphanCollected`, `EventuallyRecorded`, `SavesSettle`, that
of `PreviewsAnswered`), for TLAPS 1.4.5 has neither fairness nor ENABLED.

## What disagrees with the code's own words

- `store_stray_file` (cmd/tmux-remux/main.go:1011): gc lists orphans from the scrollbacks table only, so a file whose save died before its row stays for ever; docs/specs/2026-04-26-tmux-state-design.md:294 says "Errors at step 7 leave orphan scrollback files (uploaded but not referenced); a periodic `gc` subcommand reaps these", and cmd/tmux-remux/main.go:965 "GCCmd reaps orphan scrollback files".
- `saver_crash` (internal/snapshot/save.go:133): The fingerprint is written after the event and not with it: a save that dies in between leaves the fingerprint of the snapshot before, and when the server goes back to that state it is skipped though the newest snapshot shows another; internal/snapshot/save.go:80-87 says "So structure always saves".
- `closes_discards` (cmd/tmux-remux/main.go:481): A session close is resolved only against the newest snapshot before its row, so a save between the close and its capture makes undo discard a close an older snapshot still holds; the message at cmd/tmux-remux/main.go:481 says it "never made it into a snapshot — discarded".
- `closes_retracts` (internal/closeevent/capture.go:156): A save between the end of a session and the captures: in the newest snapshot before its row the session is gone, so its row resolves to nothing (main.go:517), while the row of its window or pane embeds what it held (capture.go:193-233); the row of the session retracts it all the same. internal/closeevent/capture.go:150-152 says "restoring the outer one recreates what the inner one held".

## Not modelled

- Close capture and resolution (partly): Dedup, retraction, elimination, embedding and resolution for manifests with ids. Not modelled: the positional fallback for manifests without ids, bridged sessions, renamed sessions.
- tmux hooks (partly): What each close hook passes on. The rendering of the fragment and the version switch are text.
- Lanes and migrations (partly): Lanes partition events and gc reaps any other lane; which lanes lanesToReap picks (it probes sockets) and the schema upgrade are left out.
- Restore (partly): Filter, plan, the choice of a lost pane's window, and Apply call by call with failures, deaths and users. Left out: window options, sizes and automatic-rename, the text of startup commands, the focus afterwards.
- Picker (partly): Lists, tree, filters, cursors, preview loads and their scrolling, keys, wheel, clicks and the geometry they share with the drawing. Left out: the help overlay, the horizontal offset of the preview, the column a pointer is in, and all that is only drawn.
- Pane map and layouts (not modelled): Pure functions of one layout, with no state: drawing the map of a window, and normalising a layout string before select-layout, character by character.
- tmux client and parsing (partly): The resolution of the start time and how a listing fails. The parsing of tmux output is text.
- Configuration, logging, agent hook installer (not modelled): Reads options and edits text files; no state the other parts race on.

## What could come next

- An undo that is tried again, with the history of rows undo and prunes removed; a
  restart inside the dedup window; the anchor of restore beside the saves of
  `Retention`.
- The choice of dead lanes; layout normalisation against a reference definition;
  the positional fallback for manifests without ids; bridged sessions.
- A log of closures as the abstract specification of `CloseEvents`, and a set of
  pinned blobs as that of `ScrollbackStore`.
- Proofs of the two abstract specifications above once they are there, and of what
  the throttle says with a clock that is set back (save.go:90).
