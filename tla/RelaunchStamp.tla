---------------------------- MODULE RelaunchStamp ----------------------------
(***************************************************************************)
(* Who owns the relaunch stamp of a pane: agents run in it, their hooks    *)
(* run relaunch-stamp, which looks up its owner and writes two pane        *)
(* options, one after the other, while processes die, shells exec, and     *)
(* pids are given out again.  A capture lists the options and judges the   *)
(* stamp later by the processes it finds then.                             *)
(*                                                                         *)
(* A stamp's text is the session it resumes; a process starts at the       *)
(* number of processes started before it.  A walk up the process table is  *)
(* one step: pids are too many for one to come back within a walk, and     *)
(* then parents only change to init, so a walk that succeeds would have    *)
(* done so at its first lookup, and one that fails at its last.  No walk   *)
(* here is as long as the 64 lookups the code stops at.                    *)
(***************************************************************************)
EXTENDS Integers

CONSTANTS
    Pids,       \* pids given out in the pane
    PanePid,    \* the pane's process
    InitPid,    \* pid 1, where orphans go
    Ids,        \* agent session ids
    Hand,       \* a stamp set by hand: tmux set -p @remux_relaunch
    None,
    MaxStart,   \* bound on the processes started
    MaxDeaths,  \* bound on those that end, a relaunch-stamp that is done aside
    MaxFaults   \* bound on the calls that fail

ASSUME StampAssumption ==
    /\ None \notin Pids \cup {PanePid, InitPid, Hand} \cup Ids
    /\ PanePid \notin Pids /\ InitPid \notin Pids \cup {PanePid}
    /\ Hand \notin Ids
    /\ MaxStart \in Nat \ {0} /\ {MaxDeaths, MaxFaults} \subseteq Nat

VARIABLES
    procs,      \* the process table
    starts,     \* processes started so far
    hooks,      \* the relaunch-stamp running as a pid
    relaunch,   \* @remux_relaunch, with who wrote it (history)
    owner,      \* @remux_relaunch_owner, with who wrote it (history)
    cap,        \* the capture under way
    deaths, faults

vars == <<procs, starts, hooks, relaunch, owner, cap, deaths, faults>>
options == <<relaunch, owner>>
counts == <<deaths, faults>>

All == Pids \cup {PanePid}
Texts == Ids \cup {Hand, None}
Starts == 0..MaxStart

\* agent: when the agent the writer ran for started, 0 for none.
Proc == [ppid : All \cup {InitPid}, start : 1..MaxStart,
         comm : {"sh", "agent", "other", "hook"}, sid : Ids \cup {None}, alive : BOOLEAN]
Hook == [clear : BOOLEAN, text : Ids \cup {None}, agent : Starts, plain : BOOLEAN,
         pc : {"walk", "start", "owner", "stamp"},
         owner : All \cup {None}, start : Starts,
         lost : BOOLEAN, rival : BOOLEAN]
Stamp == [text : Texts, agent : Starts, lost : BOOLEAN, rival : BOOLEAN]
Record == [pid : All \cup {None}, start : Starts, text : Texts, agent : Starts, plain : BOOLEAN]

ASSUME NoneAssumption == None \notin Proc \cup Hook

NoStamp == [text |-> None, agent |-> 0, lost |-> FALSE, rival |-> FALSE]
NoRecord == [pid |-> None, start |-> 0, text |-> None, agent |-> 0, plain |-> FALSE]
NoCap == [pc |-> "done", keep |-> FALSE, busy |-> FALSE, shell |-> FALSE, stamp |-> NoStamp,
          rec |-> NoRecord, up |-> FALSE, failed |-> FALSE]

TypeOK ==
    /\ procs \in [All -> Proc \cup {None}]
    /\ starts \in Starts
    /\ hooks \in [Pids -> Hook \cup {None}]
    /\ \A p \in Pids : hooks[p] # None => procs[p] # None /\ procs[p].comm = "hook"
    /\ relaunch \in Stamp
    /\ owner \in Record /\ (owner.pid = None <=> owner.start = 0)
    /\ cap \in [pc : {"count", "walk", "done"}, keep : BOOLEAN, busy : BOOLEAN, shell : BOOLEAN,
                stamp : Stamp, rec : Record, up : BOOLEAN, failed : BOOLEAN]
    /\ deaths \in 0..MaxDeaths /\ faults \in 0..MaxFaults
------------------------------------------------------------------------------
(* Processes *)

\* ProcInfo finds a process; a zombie counts as none.
Alive(p) == p \in All /\ procs[p] # None /\ procs[p].alive
IsShell(p) == procs[p].comm = "sh"
Children(p) == {q \in All : procs[q] # None /\ procs[q].ppid = p}

\* p and what is above it: the least set with p and the parent of each process
\* in it.
Upward(table, S) == \A q \in S : table[q] # None /\ table[q].ppid \in All => table[q].ppid \in S
Above(table, p) ==
    LET up == {S \in SUBSET All : p \in S /\ Upward(table, S)}
    IN  {q \in All : \A S \in up : q \in S}
Lineage(p) == Above(procs, p)

\* The processes under the pane, and those its shells may have in the
\* foreground.
Tree == {p \in All : Alive(p) /\ PanePid \in Lineage(p)}
Jobs == {p \in Tree : \A q \in Lineage(p) \ {p} : IsShell(q)}

\* Parents start before their children: the one next to the pane, or to p.
Oldest(S) == {p \in S : \A q \in S : procs[p].start <= procs[q].start}
Youngest(S) == {p \in S : \A q \in S : procs[p].start >= procs[q].start}

\* The agent that runs p, the nearest one, if there is one.
AgentOf(p) == Youngest({q \in Lineage(p) : procs[q].comm = "agent"})
UpAgents == {procs[p].start : p \in {q \in Tree : procs[q].comm = "agent"}}

\* The owner a walk has found and looks up next.
Held == {hooks[p].owner : p \in {q \in Pids : hooks[q] # None}}

Init ==
    /\ \E c \in {"sh", "agent", "other"}, i \in Ids :
        procs = [p \in All |->
            IF p = PanePid
            THEN [ppid |-> InitPid, start |-> 1, comm |-> c,
                  sid |-> IF c = "agent" THEN i ELSE None, alive |-> TRUE]
            ELSE None]
    /\ starts = 1
    /\ hooks = [p \in Pids |-> None]
    /\ relaunch = NoStamp /\ owner = NoRecord
    /\ cap = NoCap
    /\ deaths = 0 /\ faults = 0

MayFail == faults < MaxFaults /\ faults' = faults + 1

Start(p, parent, comm, sid) ==
    /\ starts < MaxStart
    /\ procs[p] = None /\ p \notin Held
    /\ procs[parent].comm # "hook"
    /\ starts' = starts + 1
    /\ procs' = [procs EXCEPT ![p] =
        [ppid |-> parent, start |-> starts + 1, comm |-> comm, sid |-> sid, alive |-> TRUE]]

Spawn(p, parent, comm, sid) ==
    /\ comm = "agent" <=> sid # None
    /\ Start(p, parent, comm, sid)
    /\ UNCHANGED <<hooks, options, cap, counts>>

\* exec at a prompt: the process stays, its program changes.  History: a walk
\* under way may take it for a launcher.
Exec(p, comm, sid) ==
    /\ Alive(p) /\ IsShell(p) /\ Children(p) = {}
    /\ comm = "agent" <=> sid # None
    /\ procs' = [procs EXCEPT ![p].comm = comm, ![p].sid = sid]
    /\ hooks' = [q \in Pids |-> IF hooks[q] = None THEN None ELSE [hooks[q] EXCEPT !.plain = FALSE]]
    /\ UNCHANGED <<starts, options, cap, counts>>

\* A process ends or is killed, a relaunch-stamp before its next call too; it
\* may stay as a zombie, and orphans go to init.  The pane's options go with it.
Gone(p, zombie) ==
    procs' = [q \in All |->
        CASE q = p -> IF zombie THEN [procs[p] EXCEPT !.alive = FALSE] ELSE None
          [] q # p /\ q \in Children(p) ->
                IF procs[q].alive THEN [procs[q] EXCEPT !.ppid = InitPid] ELSE None
          [] OTHER -> procs[q]]

Die(p) ==
    /\ Alive(p) /\ deaths < MaxDeaths
    /\ \E zombie \in IF procs[p].ppid = InitPid THEN {FALSE} ELSE BOOLEAN : Gone(p, zombie)
    /\ hooks' = IF p \in Pids THEN [hooks EXCEPT ![p] = None] ELSE hooks
    /\ relaunch' = IF p = PanePid THEN NoStamp ELSE relaunch
    /\ owner' = IF p = PanePid THEN NoRecord ELSE owner
    /\ deaths' = deaths + 1
    /\ UNCHANGED <<starts, cap, faults>>

Reap(p) ==
    /\ procs[p] # None /\ ~procs[p].alive
    /\ procs' = [procs EXCEPT ![p] = None]
    /\ UNCHANGED <<starts, hooks, options, cap, counts>>
------------------------------------------------------------------------------
(* relaunch-stamp *)

\* An agent runs its hook, itself or through helpers and shells; someone runs
\* it at a prompt.  A clear looks nothing up.
RunHook(p, parent, clear, sid) ==
    /\ Start(p, parent, "hook", None)
    /\ LET as == AgentOf(parent) IN
        /\ IF clear THEN sid = None
           ELSE sid \in {procs[a].sid : a \in as} \/ (as = {} /\ sid \in Ids)
        /\ hooks' = [hooks EXCEPT ![p] =
            [clear |-> clear, text |-> sid,
             agent |-> IF as = {} THEN 0 ELSE procs[CHOOSE a \in as : TRUE].start,
             plain |-> as # {} /\ as \subseteq Jobs,
             pc |-> IF clear THEN "owner" ELSE "walk",
             owner |-> None, start |-> 0, lost |-> FALSE, rival |-> FALSE]]
    /\ UNCHANGED <<options, cap, counts>>

At(p, pc) == hooks[p] # None /\ hooks[p].pc = pc

\* No owner: the walk or a lookup fails, PaneProcess too.
Ownerless(p) ==
    hooks' = [hooks EXCEPT ![p].pc = "owner", ![p].owner = None, ![p].start = 0]

HookFails(p) ==
    /\ \E pc \in {"walk", "start"} : At(p, pc)
    /\ Ownerless(p) /\ MayFail
    /\ UNCHANGED <<procs, starts, options, cap, deaths>>

\* Mutant: the non-shell nearest the hook, a helper of the agent.
PickOwner_Nearest(p, chain) ==
    IF IsShell(PanePid) THEN Youngest({q \in chain \ {p} : ~IsShell(q)}) ELSE {PanePid}

\* The pane's process owns the stamp; if it is a shell, the first non-shell on
\* the way down to the hook.
PickOwner(p, chain) ==
    IF IsShell(PanePid) THEN Oldest({q \in chain \ {p} : ~IsShell(q)}) ELSE {PanePid}

\* PaneProcess and the walk up from the hook, which must come to the pane.
WalkUp(p) ==
    LET found == IF p \in Tree THEN PickOwner(p, Lineage(p) \ {PanePid}) ELSE {} IN
    /\ At(p, "walk")
    /\ IF found = {} THEN Ownerless(p)
       ELSE \E o \in found : hooks' = [hooks EXCEPT ![p].pc = "start", ![p].owner = o]
    /\ UNCHANGED <<procs, starts, options, cap, counts>>

\* Mutant: the lookup's error is not looked at.
OwnerStart_Unchecked(p) ==
    LET o == hooks[p].owner IN
    /\ At(p, "start")
    /\ hooks' = [hooks EXCEPT ![p].pc = "owner", ![p].start = IF Alive(o) THEN procs[o].start ELSE 0]
    /\ UNCHANGED <<procs, starts, options, cap, counts>>

\* The owner is looked up once more for its start.
OwnerStart(p) ==
    LET o == hooks[p].owner IN
    /\ At(p, "start")
    /\ IF ~Alive(o) THEN Ownerless(p)
       ELSE hooks' = [hooks EXCEPT ![p].pc = "owner", ![p].start = procs[o].start]
    /\ UNCHANGED <<procs, starts, options, cap, counts>>

\* The record h writes; who wrote it is kept when it is empty, too.
RecordOf(h) == [pid |-> h.owner, start |-> h.start,
                text |-> h.text, agent |-> h.agent, plain |-> h.plain]

\* tmux set-option for the owner, its error swallowed.  History: whoever wrote
\* a record before for another agent has a rival from now on.
SetOwner(p) ==
    LET h == hooks[p] IN
    /\ At(p, "owner")
    /\ \/ /\ Alive(PanePid)
          /\ owner' = RecordOf(h)
          /\ relaunch' = [relaunch EXCEPT !.rival = @ \/ relaunch.agent \notin {0, h.agent}]
          /\ hooks' = [q \in Pids |->
                IF q = p THEN [h EXCEPT !.pc = "stamp", !.owner = None, !.start = 0]
                ELSE IF At(q, "stamp") /\ hooks[q].agent # h.agent
                     THEN [hooks[q] EXCEPT !.rival = TRUE] ELSE hooks[q]]
          /\ UNCHANGED faults
       \/ /\ hooks' = [hooks EXCEPT ![p].pc = "stamp", ![p].lost = TRUE,
                                    ![p].owner = None, ![p].start = 0]
          /\ MayFail
          /\ UNCHANGED options
    /\ UNCHANGED <<procs, starts, cap, deaths>>

\* tmux set-option for the stamp; the process ends.
SetStamp(p) ==
    LET h == hooks[p] IN
    /\ At(p, "stamp")
    /\ \/ /\ Alive(PanePid)
          /\ relaunch' = [text |-> h.text, agent |-> h.agent, lost |-> h.lost, rival |-> h.rival]
          /\ UNCHANGED faults
       \/ MayFail /\ UNCHANGED relaunch
    /\ Gone(p, FALSE)
    /\ hooks' = [hooks EXCEPT ![p] = None]
    /\ UNCHANGED <<starts, owner, cap, deaths>>

\* Another writer of the pane's option, where a record might judge its stamp.
SetByHand ==
    /\ Alive(PanePid) /\ owner.pid # None /\ relaunch.text # Hand
    /\ relaunch' = [NoStamp EXCEPT !.text = Hand]
    /\ UNCHANGED <<procs, starts, hooks, owner, cap, counts>>
------------------------------------------------------------------------------
(* Build and, for the snapshot it makes, the rule of restore *)

\* list-panes: both options and the foreground command at once.
ListPane ==
    /\ cap.pc = "done" /\ Alive(PanePid) /\ relaunch.text # None
    /\ \E job \in Jobs :
        cap' = [NoCap EXCEPT !.pc = "count", !.shell = IsShell(job), !.stamp = relaunch,
                             !.rec = owner, !.up = owner.agent \in UpAgents]
    /\ UNCHANGED <<procs, starts, hooks, options, counts>>

\* Mutant: the record's copy of the stamp is not compared.
Bound_Any(rec, stamp) == rec.pid # None

\* The record names an owner for this very stamp.
Bound(rec, stamp) == rec.pid # None /\ rec.text = stamp.text

\* Mutant: the command's name alone decides.
Replayed_ByName(keep) == keep /\ ~cap.shell

\* What a restore replays: a stamp that was kept, unless the pane was listed at
\* a shell and no child was counted.
Replayed(keep) == keep /\ (cap.busy \/ ~cap.shell)
Verdict(keep) == cap' = [NoCap EXCEPT !.keep = keep]

\* ChildCount, -1 when it cannot be read; zombies are children.
CountChildren ==
    /\ cap.pc = "count"
    /\ \/ /\ cap' = [cap EXCEPT !.pc = "walk", !.busy = Children(PanePid) # {}]
          /\ UNCHANGED faults
       \/ /\ cap' = [cap EXCEPT !.pc = "walk", !.busy = TRUE]
          /\ MayFail
    /\ UNCHANGED <<procs, starts, hooks, options, deaths>>

\* Mutant: a pid that was given out again passes for the owner.
Stale_Pid(rec) == rec.pid \notin Tree

\* Gone, not the process it was, or no longer under the pane.
Stale(rec) == rec.pid \notin Tree \/ procs[rec.pid].start # rec.start

\* relaunchStale.
Judge ==
    /\ cap.pc = "walk"
    /\ Verdict(~Bound(cap.rec, cap.stamp) \/ ~Stale(cap.rec))
    /\ UNCHANGED <<procs, starts, hooks, options, counts>>

\* A lookup that cannot tell is not an answer: the stamp stays.
JudgeFails ==
    /\ cap.pc = "walk" /\ Bound(cap.rec, cap.stamp)
    /\ cap' = [NoCap EXCEPT !.keep = TRUE, !.failed = TRUE]
    /\ MayFail
    /\ UNCHANGED <<procs, starts, hooks, options, deaths>>

Next ==
    \/ \E parent \in Tree, p \in Pids :
        \/ \E comm \in {"sh", "agent", "other"}, sid \in Ids \cup {None} : Spawn(p, parent, comm, sid)
        \/ \E clear \in BOOLEAN, sid \in Ids \cup {None} : RunHook(p, parent, clear, sid)
    \/ \E p \in All, comm \in {"agent", "other"}, sid \in Ids \cup {None} : Exec(p, comm, sid)
    \/ \E p \in All : Die(p) \/ Reap(p)
    \/ \E p \in Pids : \/ HookFails(p) \/ WalkUp(p) \/ OwnerStart(p)
                       \/ SetOwner(p) \/ SetStamp(p)
    \/ SetByHand \/ ListPane \/ CountChildren \/ Judge \/ JudgeFails

Spec == Init /\ [][Next]_vars
------------------------------------------------------------------------------
(* Properties *)

Decided == cap.pc = "walk" /\ cap'.pc = "done"

\* relaunch_stamp.go:75-89: whichever process a record names, it is there and
\* under the pane as long as the agent it was written for is: neither a hook
\* nor a helper that ends before its agent is ever taken for the owner.
OwnerCoversAgent ==
    owner.pid # None /\ owner.agent \in UpAgents =>
        owner.pid \in Tree /\ procs[owner.pid].start = owner.start

\* A capture never drops the stamp of an agent that runs in the pane, nor takes
\* the pane for an idle shell, wherever between the two writes of which hook it
\* lists the options and whatever dies under its walk; unless tmux refused the
\* record or, since it was written, a hook of another agent wrote its own.
LiveStampKept ==
    [][Decided /\ cap.stamp.agent \in UpAgents /\ ~cap.stamp.lost /\ ~cap.stamp.rival
        => Replayed(cap'.keep)]_vars

\* README.md:206: a capture drops the stamp once its owner is gone, was replaced
\* by a reused pid, or left the pane: for every agent that only shells stood
\* above when its hook ran, dead or orphaned before the listing, a zombie too.
GoneDropped ==
    [][Decided /\ Bound(cap.rec, cap.stamp) /\ cap.rec.plain /\ ~cap.up /\ ~cap'.failed
        => ~cap'.keep]_vars

\* README.md:206: "a value set later by another writer isn't judged by a stale
\* owner", whatever hooks wrote before, after or around it.
HandKept == [][Decided /\ cap.stamp.text = Hand => cap'.keep]_vars
==============================================================================
