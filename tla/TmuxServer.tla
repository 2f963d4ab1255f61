------------------------------ MODULE TmuxServer ------------------------------
(***************************************************************************)
(* The tmux server the close hooks watch: panes in windows in sessions,    *)
(* what users and programs do to them, and the capture-event processes the *)
(* hooks of triggers.go start.  tmux is not part of the repository; this   *)
(* is what the code relies on: ids are never reused while a server lives   *)
(* and start over with the next one, a window goes with its last pane, a   *)
(* session with its last window, the server with its last session.         *)
(*                                                                         *)
(* A session's name stands for its id too: names are not changed here.     *)
(***************************************************************************)
EXTENDS Integers, FiniteSets

CONSTANTS
    Panes, Windows, Sessions,   \* the ids one server may give out
    None,                       \* no id
    MaxNow,                     \* bound on the clock
    MaxInc,                     \* bound on the restarts
    Acts, LaterActs             \* what users do on the first server, and on the next

ActNames == {"split", "open", "exit", "kill", "killw", "kills", "move", "join"}

ASSUME ServerAssumption ==
    /\ None \notin Panes \cup Windows \cup Sessions
    /\ IsFiniteSet(Panes)
    /\ MaxNow \in Nat \ {0} /\ MaxInc \in Nat
    /\ Acts \cup LaterActs \subseteq ActNames

VARIABLES
    now,        \* the wall clock, in ticks
    inc,        \* the server's incarnation
    started,    \* when it started
    winOf,      \* the window of each live pane
    sessOf,     \* the session of each live window
    used,       \* ids given out since the server started
    hooks       \* capture-event processes that wait for the flock

tmux == <<inc, started, winOf, sessOf, used>>

LivePanes == {p \in Panes : winOf[p] # None}
LiveWindows == {w \in Windows : sessOf[w] # None}
LiveSessions == {sessOf[w] : w \in LiveWindows}
PanesOf(w) == {p \in Panes : winOf[p] = w}
WindowsOf(s) == {w \in Windows : sessOf[w] = s}
Running == LivePanes # {}

\* What a hook passes to capture-event; `took` and `cause` are history: the
\* panes that went with this entity, and with the whole closure it is part of.
Hooks == [kind : {"pane-died", "window-unlinked", "session-closed"},
          sess : Sessions \cup {None}, win : Windows \cup {None}, pane : Panes \cup {None},
          took : SUBSET Panes, cause : SUBSET Panes, inc : 0..MaxInc]

ServerTypeOK ==
    /\ now \in 1..MaxNow /\ started \in 1..MaxNow /\ inc \in 0..MaxInc
    /\ winOf \in [Panes -> Windows \cup {None}]
    /\ sessOf \in [Windows -> Sessions \cup {None}]
    /\ used \subseteq Panes \cup Windows \cup Sessions
    /\ hooks \subseteq Hooks
    /\ \A p \in LivePanes : winOf[p] \in LiveWindows
    /\ \A w \in LiveWindows : PanesOf(w) # {}

ServerInit ==
    /\ now = 1 /\ inc = 0 /\ started = 1
    /\ winOf = [p \in Panes |-> None]
    /\ sessOf = [w \in Windows |-> None]
    /\ used = {}
    /\ hooks = {}
Doing(act) == act \in (IF inc = 0 THEN Acts ELSE LaterActs)

------------------------------------------------------------------------------
Tick ==
    /\ now < MaxNow
    /\ now' = now + 1
    /\ UNCHANGED <<tmux, hooks>>

Split(p, w) ==
    /\ Doing("split") /\ w \in LiveWindows /\ p \notin used
    /\ winOf' = [winOf EXCEPT ![p] = w]
    /\ used' = used \cup {p}
    /\ UNCHANGED <<now, inc, started, sessOf, hooks>>

\* new-window in a live session, or new-session, which may start the server.
Open(p, w, s) ==
    /\ Doing("open") \/ ~Running
    /\ winOf' = [winOf EXCEPT ![p] = w]
    /\ sessOf' = [sessOf EXCEPT ![w] = s]
    /\ \/ /\ Running
          /\ {p, w} \cap used = {} /\ (s \in used => s \in LiveSessions)
          /\ used' = used \cup {p, w, s}
          /\ UNCHANGED <<inc, started, hooks>>
       \/ /\ ~Running /\ used = {}
          /\ used' = {p, w, s} /\ started' = now
          /\ UNCHANGED <<inc, hooks>>
       \/ /\ ~Running /\ used # {} /\ inc < MaxInc
          /\ used' = {p, w, s} /\ started' = now /\ inc' = inc + 1
          /\ hooks' = {}    \* the old server took its run-shell jobs with it
    /\ UNCHANGED now
------------------------------------------------------------------------------
(* What goes with a set of panes, and the hooks it fires. *)

Hook(k, s, w, p, took, cause) ==
    [kind |-> k, sess |-> s, win |-> w, pane |-> p, took |-> took, cause |-> cause, inc |-> inc]

\* Windows that are left without a pane and sessions without a window.
GoneWindows(P) == {w \in LiveWindows : PanesOf(w) \subseteq P}
GoneSessions(W) == {s \in LiveSessions : WindowsOf(s) \subseteq W}
PanesIn(W) == UNION {PanesOf(w) : w \in W}

\* window-unlinked and session-closed for what P takes with it.
OuterHooks(P) ==
    LET W == GoneWindows(P)
    IN  {Hook("window-unlinked", sessOf[w], w, None, PanesOf(w), P) : w \in W}
        \cup {Hook("session-closed", s, None, None, PanesIn(WindowsOf(s)), P) : s \in GoneSessions(W)}

Close(P, inner) ==
    LET W == GoneWindows(P)
    IN  /\ P \subseteq LivePanes
        /\ winOf' = [p \in Panes |-> IF p \in P THEN None ELSE winOf[p]]
        /\ sessOf' = [w \in Windows |-> IF w \in W THEN None ELSE sessOf[w]]
        /\ hooks' = hooks \cup inner \cup OuterHooks(P)
        /\ UNCHANGED <<now, inc, started, used>>

\* The pane's program exits: pane-exited carries the pane and its window; the
\* session is read from the hook's target.
ExitPane(p) ==
    /\ Doing("exit") /\ p \in LivePanes
    /\ Close({p}, {Hook("pane-died", sessOf[winOf[p]], winOf[p], p, {p}, {p})})

\* kill-pane: after-kill-pane says neither which pane nor where.
KillPane(p) ==
    /\ Doing("kill")
    /\ Close({p}, {Hook("pane-died", None, None, None, {p}, {p})})

KillWindow(w) ==
    /\ Doing("killw") /\ w \in LiveWindows
    /\ Close(PanesOf(w), {})

KillSession(s) ==
    /\ Doing("kills") /\ s \in LiveSessions
    /\ Close(PanesIn(WindowsOf(s)), {})

\* move-window to another session: window-unlinked fires, nothing is lost.
MoveWindow(w, s) ==
    /\ Doing("move") /\ w \in LiveWindows /\ s \in LiveSessions \ {sessOf[w]}
    /\ sessOf' = [sessOf EXCEPT ![w] = s]
    /\ hooks' = hooks \cup {Hook("window-unlinked", sessOf[w], w, None, {}, {})}
                      \cup {Hook("session-closed", t, None, None, {}, {}) : t \in GoneSessions({w})}
    /\ UNCHANGED <<now, inc, started, winOf, used>>

\* join-pane to another window, of which the pane is not the last.
JoinPane(p, w) ==
    /\ Doing("join") /\ p \in LivePanes /\ w \in LiveWindows \ {winOf[p]}
    /\ PanesOf(winOf[p]) # {p}
    /\ winOf' = [winOf EXCEPT ![p] = w]
    /\ UNCHANGED <<now, inc, started, sessOf, used, hooks>>

ServerNext ==
    \/ \E p \in Panes : ExitPane(p) \/ KillPane(p)
    \/ \E p \in Panes, w \in Windows : Split(p, w) \/ JoinPane(p, w)
    \/ \E p \in Panes, w \in Windows, s \in Sessions : Open(p, w, s)
    \/ \E w \in Windows : KillWindow(w)
    \/ \E s \in Sessions : KillSession(s)
    \/ \E w \in Windows, s \in Sessions : MoveWindow(w, s)
==============================================================================
