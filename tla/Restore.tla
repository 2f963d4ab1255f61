------------------------------ MODULE Restore ------------------------------
(***************************************************************************)
(* Bringing back what a snapshot or a close event holds: BuildPlan turns   *)
(* the item into a sequence of tmux calls, Apply runs them one by one      *)
(* while any of them may fail and users go on opening and closing things.  *)
(*                                                                         *)
(* A plan addresses windows by session and index, or by id when a pane     *)
(* goes back into a window that is still there; panes that wait for their  *)
(* startup command are addressed by id.  Sessions exist as long as they    *)
(* have a window, windows as long as they have a pane.                     *)
(*                                                                         *)
(* Left out: window options (set like pane options, and addressed by the   *)
(* same target), sizes and automatic-rename (best effort, no later step    *)
(* reads them), and Apply's last sweep over panes that are still pending:  *)
(* every window of a plan ends with its SetLayout, which takes them.       *)
(***************************************************************************)
EXTENDS Naturals, FiniteSets, SequencesExt, Functions

CONSTANTS
    Items,          \* what may be restored, see RestoreAssumption
    LiveSets,       \* the sets of windows a server may have beforehand
    Mirrors,        \* sessions that are live mirrors of a remote
    BaseIndex,      \* tmux base-index
    Renumber,       \* tmux renumber-windows
    HasInsert,      \* this tmux knows new-window -b
    SkipIdle,       \* config or picker: drop idle plain shells
    SkipRunning,    \* config or picker: drop sessions that run
    MaxFaults, MaxUserActs, MaxTries    \* bounds

\* What a manifest records, 0 where it has no id of a window; and a window of a
\* server, whose ids count from 1.
PaneRecord == [idle : BOOLEAN, startup : BOOLEAN, deco : BOOLEAN]
WindowRecord == [id : Nat, idx : Nat, name : STRING, panes : Seq(PaneRecord)]
SessionRecord == [name : STRING, stale : BOOLEAN, bridge : BOOLEAN, windows : Seq(WindowRecord)]
ItemRecord == [cmd : {"restore", "undo", "pick"}, kind : {"snapshot", "session", "window", "pane"},
               sessions : Seq(SessionRecord), lost : Nat]
LiveWindow == [id : Nat \ {0}, sess : STRING, idx : Nat, name : STRING]

ASSUME RestoreAssumption ==
    /\ BaseIndex \in Nat /\ {Renumber, HasInsert, SkipIdle, SkipRunning} \subseteq BOOLEAN
    /\ {MaxFaults, MaxUserActs, MaxTries} \subseteq Nat
    /\ Items \subseteq ItemRecord
    /\ \A it \in Items :
         /\ \A s, t \in DOMAIN it.sessions : it.sessions[s].name = it.sessions[t].name => s = t
         /\ \A s \in DOMAIN it.sessions : \A v, w \in DOMAIN it.sessions[s].windows :
              it.sessions[s].windows[v].idx = it.sessions[s].windows[w].idx => v = w
         /\ it.cmd = "restore" => it.kind = "snapshot"
         /\ it.cmd = "undo" => it.kind # "snapshot"
         /\ it.kind # "snapshot" => Len(it.sessions) = 1
         /\ it.kind \in {"window", "pane"} => Len(it.sessions[1].windows) = 1
         /\ it.kind = "pane" => it.lost \in DOMAIN it.sessions[1].windows[1].panes
    /\ \A lives \in LiveSets :
         /\ IsFiniteSet(lives) /\ lives \subseteq LiveWindow
         /\ \A v, w \in lives : v.id = w.id \/ (v.sess = w.sess /\ v.idx = w.idx) => v = w

VARIABLES
    windows,        \* live windows: id -> [sess, idx, name, from, active]
    panes,          \* live panes: id -> [win, from, runs, opts]
    next,           \* the next id of a window or pane
    item, row,      \* what is restored; whether its event is still there
    phase, try,     \* "idle", "apply", "done" or "died"; how many attempts so far
    plan, pos,      \* the steps and the one that is next
    placing,        \* the window new-session made, until it is moved; else 0
    pending,        \* panes that wait for their window to settle
    batch,          \* panes of the settled window, waiting for respawn-pane
    failed, failedWindows, created,     \* as in Apply
    closed, touched,    \* history: panes users closed; what users did since Start
    faults, userActs    \* counters for the bounds

live == <<windows, panes, next>>
progress == <<plan, pos, placing, pending, batch, failed, failedWindows, created>>
vars == <<live, item, row, phase, try, progress, closed, touched, faults, userActs>>

Nobody == <<0, 0, 0, 0>>    \* the origin of what users made

LiveSessions == {windows[i].sess : i \in DOMAIN windows}
At(target) == IF target.id # 0
              THEN {target.id} \cap DOMAIN windows
              ELSE {i \in DOMAIN windows :
                      windows[i].sess = target.sess /\ windows[i].idx = target.idx}
PanesOf(w) == {p \in DOMAIN panes : panes[p].win = w}

-----------------------------------------------------------------------------
(* The plan *)

\* The k-th of a set of positions, the set as a sequence, and what a sequence
\* has at these positions.
Nth(S, k) == CHOOSE i \in S : Cardinality({j \in S : j <= i}) = k
InOrder(S) == [k \in 1 .. Cardinality(S) |-> Nth(S, k)]
Picked(s, S) == [k \in 1 .. Cardinality(S) |-> s[Nth(S, k)]]

WinOf(from) == item.sessions[from[1]].windows[from[2]]
PaneOf(from) == WinOf(from).panes[from[3]]
IndexTarget(s, w) == [sess |-> item.sessions[s].name,
                      idx |-> item.sessions[s].windows[w].idx, id |-> 0]
IdTarget(i) == [sess |-> "", idx |-> 0, id |-> i]
PlanStep(op, target, from, new) == [op |-> op, target |-> target, from |-> from, new |-> new]

SkipSession_Running(s, running) ==
    item.kind = "snapshot" /\ (s.name \in Mirrors \/ s.stale)

\* Undo and the picker's close list filter nothing.
SkipSession(s, running) ==
    /\ item.kind = "snapshot"
    /\ \/ s.name \in Mirrors
       \/ SkipRunning /\ s.name \in running
       \/ s.stale

\* idle: a plain shell with no child, no relaunch stamp and no user option.
SkipPane(p) == item.kind = "snapshot" /\ SkipIdle /\ p.idle

KeptPanes(w) == InOrder({p \in DOMAIN w.panes : ~ SkipPane(w.panes[p])})
KeptWindows(s) == InOrder({w \in DOMAIN s.windows : KeptPanes(s.windows[w]) # <<>>})

Options(target, from) ==
    IF PaneOf(from).deco THEN <<PlanStep("option", target, from, FALSE)>> ELSE <<>>

WindowPlan_Late(s, w, new) ==
    LET kept == KeptPanes(item.sessions[s].windows[w])
        target == IndexTarget(s, w)
    IN  FlattenSeq([k \in DOMAIN kept |->
            <<PlanStep(IF k = 1 THEN "window" ELSE "split", target, <<s, w, kept[k]>>, new /\ k = 1)>>])
        \o FlattenSeq([k \in DOMAIN kept |-> Options(target, <<s, w, kept[k]>>)])
        \o <<PlanStep("layout", target, <<s, w, kept[1]>>, FALSE)>>

\* The options of a pane follow its creation, while it is the active one.
WindowPlan(s, w, new) ==
    LET kept == KeptPanes(item.sessions[s].windows[w])
        target == IndexTarget(s, w)
        Piece(k) == <<PlanStep(IF k = 1 THEN "window" ELSE "split", target,
                               <<s, w, kept[k]>>, new /\ k = 1)>>
                    \o Options(target, <<s, w, kept[k]>>)
    IN  FlattenSeq([k \in DOMAIN kept |-> Piece(k)])
        \o <<PlanStep("layout", target, <<s, w, kept[1]>>, FALSE)>>

SessionPlan(s) ==
    LET kept == KeptWindows(item.sessions[s])
        bridge == PlanStep("bridge", IndexTarget(s, 1), <<s, 1, 1>>, FALSE)
    IN  FlattenSeq([k \in DOMAIN kept |-> WindowPlan(s, kept[k], k = 1)])
        \o (IF kept # <<>> /\ item.sessions[s].bridge THEN <<bridge>> ELSE <<>>)

BuildPlan(running) ==
    FlattenSeq([s \in DOMAIN item.sessions |->
        IF SkipSession(item.sessions[s], running) THEN <<>> ELSE SessionPlan(s)])

\* The live windows a lost pane's window is taken to be: by id, else by name.
ParentWindows ==
    LET w == item.sessions[1].windows[1]
        named == {i \in DOMAIN windows :
                    windows[i].sess = item.sessions[1].name /\ windows[i].name = w.name}
    IN  IF w.id \in DOMAIN windows THEN {w.id}
        ELSE IF w.name = "" THEN {} ELSE named

BuildPaneRestore(i) ==
    LET from == <<1, 1, item.lost>>
    IN  <<PlanStep("split", IdTarget(i), from, FALSE)>> \o Options(IdTarget(i), from)
        \o <<PlanStep("layout", IdTarget(i), from, FALSE)>>

ItemNames == {item.sessions[s].name : s \in DOMAIN item.sessions}

\* The sessions taken to run.  A pick of a snapshot read them before the picker
\* opened; while it was open any may have come or gone.
RunningSets == IF item.cmd = "pick" /\ item.kind = "snapshot" THEN SUBSET ItemNames
                                                             ELSE {LiveSessions}

\* What Start may compute.  A lost pane goes back into a live window, any of
\* several of one name; when there is none, or the windows cannot be listed,
\* its window is made anew.
Plans ==
    {BuildPaneRestore(i) : i \in {j \in ParentWindows : item.kind = "pane"}}
    \union {BuildPlan(R) : R \in RunningSets}

InsertBefore == HasInsert /\ item.kind \in {"window", "pane"}

-----------------------------------------------------------------------------
(* tmux *)

\* The function f with one more argument.
With(f, x, v) == [y \in DOMAIN f \union {x} |-> IF y = x THEN v ELSE f[y]]

\* A window with one pane, both under the next id.
AddWindow(shifted, sess, idx, name, from) ==
    /\ windows' = With(shifted, next, [sess |-> sess, idx |-> idx, name |-> name,
                                       from |-> from, active |-> next])
    /\ panes' = With(panes, next, [win |-> next, from |-> from, runs |-> 0, opts |-> Nobody])
    /\ next' = next + 1

\* new-window -b at an index that is taken: the windows from there on, up to
\* the first gap, move up by one.
Shifted(target) ==
    LET Taken(k) == \E i \in DOMAIN windows : windows[i].sess = target.sess /\ windows[i].idx = k
        moves(i) == /\ windows[i].sess = target.sess
                    /\ windows[i].idx >= target.idx
                    /\ \A k \in target.idx .. windows[i].idx : Taken(k)
    IN  [i \in DOMAIN windows |->
            IF moves(i) THEN [windows[i] EXCEPT !.idx = @ + 1] ELSE windows[i]]

\* The lowest free index of a session.
FreeIndex(sess) ==
    CHOOSE k \in BaseIndex .. BaseIndex + Cardinality(DOMAIN windows) :
        /\ At([sess |-> sess, idx |-> k, id |-> 0]) = {}
        /\ \A j \in BaseIndex .. k - 1 : At([sess |-> sess, idx |-> j, id |-> 0]) # {}

Renumbered(ws, sess) ==
    [i \in DOMAIN ws |->
        IF Renumber /\ ws[i].sess = sess
        THEN [ws[i] EXCEPT !.idx = BaseIndex + Cardinality(
                {j \in DOMAIN ws : ws[j].sess = sess /\ ws[j].idx < ws[i].idx})]
        ELSE ws[i]]

-----------------------------------------------------------------------------
(* Apply *)

Now == plan[pos]
Applying(op) ==
    phase = "apply" /\ batch = <<>> /\ pos <= Len(plan) /\ Now.op = op
Origin == <<try>> \o Now.from
NowStarts == PaneOf(Now.from).startup

Advance == pos' = pos + 1
Fault == faults < MaxFaults /\ faults' = faults + 1
Fails(op) == failed' = failed \union {[op |-> op, from |-> Origin]}
Queue(p) == pending' = IF NowStarts
                       THEN Append(pending, [target |-> Now.target, pane |-> p]) ELSE pending

WindowFails ==
    /\ Fails("window") /\ failedWindows' = failedWindows \union {Now.target}
    /\ placing' = 0 /\ Advance
    /\ UNCHANGED <<pending, created>>
WindowMade(p) ==
    /\ created' = created \union {Now.target.sess} /\ Queue(p)
    /\ placing' = 0 /\ Advance
    /\ UNCHANGED <<failed, failedWindows>>

\* Step over what is aimed at a window that was not created.
Skipped == /\ Now.target \in failedWindows /\ Advance
           /\ UNCHANGED <<live, placing, pending, batch, failed, failedWindows, created, faults>>

applying == <<item, row, phase, try, plan, closed, touched, userActs>>

NewName == WinOf(Now.from).name

\* A NewSession window of a session that does not run: new-session, which puts
\* its window at base-index and may fail, or answer what cannot be parsed.
CreateSession ==
    /\ Applying("window") /\ placing = 0
    /\ Now.new /\ Now.target.sess \notin LiveSessions
    /\ \/ Fault /\ WindowFails /\ UNCHANGED live
       \/ /\ AddWindow(windows, Now.target.sess, BaseIndex, NewName, Origin)
          /\ \/ Fault /\ WindowFails
             \/ /\ UNCHANGED faults
                /\ IF BaseIndex = Now.target.idx
                   THEN WindowMade(next)
                   ELSE /\ placing' = next
                        /\ UNCHANGED <<pos, pending, failed, failedWindows, created>>
    /\ UNCHANGED <<applying, batch>>

\* move-window of the new session's window to its recorded index.
MoveWindow ==
    /\ Applying("window") /\ placing # 0
    /\ IF placing \in DOMAIN windows /\ At(Now.target) = {}
       THEN \/ /\ windows' = [windows EXCEPT ![placing].idx = Now.target.idx]
               /\ WindowMade(placing) /\ UNCHANGED <<panes, next, faults>>
            \/ Fault /\ WindowFails /\ UNCHANGED live
       ELSE WindowFails /\ UNCHANGED <<live, faults>>
    /\ UNCHANGED <<applying, batch>>

\* new-window for any other window, and when new-session says that the session
\* exists.  Without the pane's id its startup command cannot be run.
NewWindow ==
    /\ Applying("window") /\ placing = 0
    /\ Now.new => Now.target.sess \in LiveSessions
    /\ IF Now.target.sess \in LiveSessions /\ (InsertBefore \/ At(Now.target) = {})
       THEN \/ /\ AddWindow(Shifted(Now.target), Now.target.sess, Now.target.idx, NewName, Origin)
               /\ \/ WindowMade(next) /\ UNCHANGED faults
                  \/ /\ Fault /\ NowStarts /\ Fails("window")
                     /\ created' = created \union {Now.target.sess} /\ Advance
                     /\ UNCHANGED <<placing, pending, failedWindows>>
            \/ Fault /\ WindowFails /\ UNCHANGED live
       ELSE WindowFails /\ UNCHANGED <<live, faults>>
    /\ UNCHANGED <<applying, batch>>

\* split-window, which leaves the new pane active.
SplitInto(w) ==
    /\ windows' = [windows EXCEPT ![w].active = next]
    /\ panes' = With(panes, next, [win |-> w, from |-> Origin, runs |-> 0, opts |-> Nobody])
    /\ next' = next + 1
    /\ \/ Queue(next) /\ UNCHANGED <<failed, faults>>
       \/ Fault /\ NowStarts /\ Fails("split") /\ UNCHANGED pending

SplitNow ==
    /\ \/ \E w \in At(Now.target) : SplitInto(w)
       \/ /\ IF At(Now.target) = {} THEN UNCHANGED faults ELSE Fault
          /\ Fails("split") /\ UNCHANGED <<live, pending>>
    /\ Advance /\ UNCHANGED <<placing, batch, failedWindows, created>>

SplitPane_Anyway == Applying("split") /\ SplitNow /\ UNCHANGED applying

SplitPane ==
    /\ Applying("split")
    /\ \/ Skipped
       \/ Now.target \notin failedWindows /\ SplitNow
    /\ UNCHANGED applying

\* set-option -p on a window's target sets it on the window's active pane.
SetOption ==
    /\ Applying("option")
    /\ \/ Skipped
       \/ /\ Now.target \notin failedWindows
          /\ \/ /\ \E w \in At(Now.target) :
                      panes' = [panes EXCEPT ![windows[w].active].opts = Origin]
                /\ UNCHANGED <<failed, faults>>
             \/ /\ IF At(Now.target) = {} THEN UNCHANGED faults ELSE Fault
                /\ Fails("option") /\ UNCHANGED panes
          /\ Advance
          /\ UNCHANGED <<windows, next, placing, pending, batch, failedWindows, created>>
    /\ UNCHANGED applying

HandOver ==
    LET settled == {i \in DOMAIN pending : pending[i].target = Now.target}
    IN  /\ batch' = Picked(pending, settled)
        /\ pending' = Picked(pending, DOMAIN pending \ settled)

LayoutSet == At(Now.target) # {} /\ UNCHANGED <<failed, faults>>
LayoutFails == /\ IF At(Now.target) = {} THEN UNCHANGED faults ELSE Fault
               /\ Fails("layout")

SettleWindow_Return ==
    \/ LayoutSet /\ HandOver
    \/ LayoutFails /\ batch' = <<>> /\ UNCHANGED pending

\* select-layout, then the panes that wait for it are handed to Respawn, whether
\* it succeeded or not.
SettleWindow ==
    \/ LayoutSet /\ HandOver
    \/ LayoutFails /\ HandOver

SetLayout ==
    /\ Applying("layout")
    /\ \/ Skipped
       \/ /\ Now.target \notin failedWindows
          /\ SettleWindow
          /\ Advance /\ UNCHANGED <<live, placing, failedWindows, created>>
    /\ UNCHANGED applying

\* A session this plan did not create gets no mirror.  The launcher is external.
ReopenBridge ==
    /\ Applying("bridge")
    /\ \/ UNCHANGED <<failed, faults>>
       \/ Now.target.sess \in created /\ Fault /\ Fails("bridge")
    /\ Advance
    /\ UNCHANGED <<live, applying, placing, pending, batch, failedWindows, created>>

\* respawn-pane, by the pane's id; a failure is reported as one of a SplitPane.
\* (Which pane it was is kept here, though the report names the window only.)
Respawn ==
    /\ phase = "apply" /\ batch # <<>>
    /\ LET p == Head(batch).pane
           report == [op |-> "respawn", from |-> IF p \in DOMAIN panes THEN panes[p].from ELSE Nobody]
       IN  \/ /\ p \in DOMAIN panes
              /\ panes' = [panes EXCEPT ![p].runs = @ + 1] /\ UNCHANGED <<failed, faults>>
           \/ /\ IF p \in DOMAIN panes THEN Fault ELSE UNCHANGED faults
              /\ failed' = failed \union {report} /\ UNCHANGED panes
    /\ batch' = Tail(batch)
    /\ UNCHANGED <<applying, windows, next, pos, placing, pending, failedWindows, created>>

-----------------------------------------------------------------------------
(* The commands, and users *)

\* Read what runs, build the plan and begin to apply it.  An undo or a pick of
\* a close needs its event.
Start ==
    /\ phase # "apply" /\ row /\ try < MaxTries
    /\ try' = try + 1 /\ phase' = "apply"
    /\ plan' \in Plans
    /\ pos' = 1 /\ placing' = 0 /\ pending' = <<>> /\ batch' = <<>>
    /\ failed' = {} /\ failedWindows' = {} /\ created' = {} /\ touched' = {}
    /\ UNCHANGED <<live, item, row, closed, faults, userActs>>

Fatal_Splits == {f \in failed : f.op \notin {"layout", "split", "respawn"}}
Fatal == {f \in failed : f.op # "layout"}

\* Undo deletes the event of what it restored, ignoring layouts; a pick keeps it.
Finish ==
    /\ phase = "apply" /\ batch = <<>> /\ pos > Len(plan)
    /\ phase' = "done"
    /\ row' = (row /\ ~ (item.cmd = "undo" /\ Fatal = {}))
    /\ UNCHANGED <<live, item, try, progress, closed, touched, faults, userActs>>

\* The command is killed.
Die ==
    /\ phase = "apply" /\ Fault /\ phase' = "died"
    /\ UNCHANGED <<live, item, row, try, progress, closed, touched, userActs>>

UserAct(what) ==
    /\ userActs < MaxUserActs /\ userActs' = userActs + 1
    /\ touched' = touched \union {what}
    /\ UNCHANGED <<item, row, phase, try, progress, faults>>

UserSession == \E n \in ItemNames \ LiveSessions :
    /\ AddWindow(windows, n, BaseIndex, "", Nobody)
    /\ UserAct("open") /\ UNCHANGED closed

UserWindow == \E n \in LiveSessions :
    /\ AddWindow(windows, n, FreeIndex(n), "", Nobody)
    /\ UserAct("open") /\ UNCHANGED closed

SelectPane == \E p \in DOMAIN panes :
    /\ windows[panes[p].win].active # p
    /\ windows' = [windows EXCEPT ![panes[p].win].active = p]
    /\ UserAct("select") /\ UNCHANGED <<panes, next, closed>>

\* The last pane takes its window with it, the last window its session.
ClosePane == \E p \in DOMAIN panes :
    LET w == panes[p].win
        rest == PanesOf(w) \ {p}
    IN  /\ panes' = Restrict(panes, DOMAIN panes \ {p})
        /\ IF rest = {}
           THEN windows' = Renumbered(Restrict(windows, DOMAIN windows \ {w}), windows[w].sess)
           ELSE \E q \in rest :
                  windows' = [windows EXCEPT ![w].active = IF @ = p THEN q ELSE @]
        /\ closed' = closed \union {panes[p].from}
        /\ UserAct("close") /\ UNCHANGED next

\* Within one server's life tmux gives no id out twice.
RecordedIds == UNION {{item.sessions[s].windows[w].id : w \in DOMAIN item.sessions[s].windows} :
                        s \in DOMAIN item.sessions}

Init ==
    /\ item \in Items
    /\ \E s \in LiveSets :
         LET ids == {w.id : w \in s}
             W(i) == CHOOSE w \in s : w.id = i
         IN  /\ windows = [i \in ids |-> [sess |-> W(i).sess, idx |-> W(i).idx, name |-> W(i).name,
                                          from |-> Nobody, active |-> i]]
             /\ panes = [i \in ids |-> [win |-> i, from |-> Nobody, runs |-> 0, opts |-> Nobody]]
             /\ next = 1 + Max({0} \union ids \union RecordedIds)
    /\ row = TRUE /\ phase = "idle" /\ try = 0
    /\ plan = <<>> /\ pos = 1 /\ placing = 0 /\ pending = <<>> /\ batch = <<>>
    /\ failed = {} /\ failedWindows = {} /\ created = {}
    /\ closed = {} /\ touched = {} /\ faults = 0 /\ userActs = 0

ApplyStep == \/ CreateSession \/ MoveWindow \/ NewWindow \/ SplitPane \/ SetOption
             \/ SetLayout \/ ReopenBridge \/ Respawn
UserStep == UserSession \/ UserWindow \/ SelectPane \/ ClosePane

Next == Start \/ ApplyStep \/ Finish \/ Die \/ UserStep

Spec == Init /\ [][Next]_vars

-----------------------------------------------------------------------------
(* Correctness *)

\* Types, and what every state of a tmux server is like: panes and active panes
\* belong to live windows, and no two windows of a session have one index.
TypeOK ==
    /\ phase \in {"idle", "apply", "done", "died"} /\ row \in BOOLEAN
    /\ pos \in 1 .. Len(plan) + 1 /\ next \in Nat
    /\ \A i \in DOMAIN windows : i < next /\ windows[i].active \in PanesOf(i)
    /\ \A p \in DOMAIN panes : panes[p].win \in DOMAIN windows
    /\ \A i, j \in DOMAIN windows :
         i # j => <<windows[i].sess, windows[i].idx>> # <<windows[j].sess, windows[j].idx>>
    /\ \A q \in ToSet(pending) \union ToSet(batch) : q.pane < next

Current == {p \in DOMAIN panes : panes[p].from[1] = try /\ try > 0}

\* A restored pane is in the window the plan put it in, and in none that merely
\* has the index, though window creations fail and users open windows where the
\* plan goes on.  Plans address windows by index, so nobody may have closed one.
LandsInOwnWindow ==
    "close" \notin touched =>
        \A p \in Current :
            \/ SubSeq(windows[panes[p].win].from, 1, 3) = SubSeq(panes[p].from, 1, 3)
            \/ \E i \in DOMAIN plan : plan[i].target.id = panes[p].win

\* The options a pane has been given are its own: Apply aims them at whatever
\* pane of the window is active.  Where a split failed it is known that they go
\* to the pane before.
OptionsOnOwnPane ==
    touched \subseteq {"open"} /\ (\A f \in failed : f.op # "split") =>
        \A p \in DOMAIN panes :
            panes[p].opts[1] = try /\ try > 0 => panes[p].opts = panes[p].from

RestoredAs(from, startup) ==
    \E p \in DOMAIN panes : panes[p].from = from /\ panes[p].runs = IF startup THEN 1 ELSE 0

\* When Apply is through, every pane of its plan runs, its startup command
\* started exactly once, or a failure names it or its window, or a user closed it.
Accounted ==
    phase = "done" =>
        \A i \in DOMAIN plan :
            plan[i].op \in {"window", "split"} =>
                LET from == <<try>> \o plan[i].from
                IN  \/ RestoredAs(from, PaneOf(plan[i].from).startup)
                    \/ from \in closed
                    \/ \E f \in failed : f.from = from /\ f.op # "layout"
                    \/ \E f \in failed : f.op = "window" /\ SubSeq(f.from, 1, 3) = SubSeq(from, 1, 3)

\* The event of a close is deleted only when all of it is back.
PoppedOnlyIfRestored ==
    ~ row /\ phase = "done" =>
        \A i \in DOMAIN plan :
            plan[i].op \in {"window", "split"} =>
                LET from == <<try>> \o plan[i].from
                IN  RestoredAs(from, PaneOf(plan[i].from).startup) \/ from \in closed

\* Running restore again, after one that failed part-way or was killed, brings
\* no pane back a second time: its session runs, whatever of it is there.
NotTwice ==
    item.cmd = "restore" =>
        \A p, q \in DOMAIN panes :
            /\ p # q /\ panes[p].from # Nobody /\ panes[q].from # Nobody
            => SubSeq(panes[p].from, 2, 4) # SubSeq(panes[q].from, 2, 4)
=============================================================================
