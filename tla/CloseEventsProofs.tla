-------------------------- MODULE CloseEventsProofs --------------------------
(***************************************************************************)
(* What the rows of closed entities say, for any number of panes, servers  *)
(* and events and every order of closes, captures, saves, prunes and undo. *)
(*                                                                         *)
(* Everything rests on what tmux promises of ids: what went on a server    *)
(* that still runs does not come back on it (ServerInv, Stays).  A row     *)
(* keeps that of what its hook told (RowInv), and the snapshots of this    *)
(* server hold only what it gave out (SnapInv).                            *)
(***************************************************************************)
EXTENDS CloseEvents, FiniteSetTheorems, TLAPS

\* Given out by this server, and gone.
DeadPane(p) == p \in used /\ p \notin LivePanes
DeadWindow(w) == w \in used /\ w \notin LiveWindows
DeadSession(s) == s \in used /\ s \notin LiveSessions

\* A closure is of panes that went.
Spent(h) == h.took \subseteq h.cause /\ \A p \in h.cause : DeadPane(p)

\* A hook that waits is of this server: a pane's says where it was or nothing,
\* a window's may be of one that was moved, a session's is of one that went.
HookInv(h) ==
    /\ h \in Hooks /\ h.inc = inc
    /\ Spent(h)
    /\ h.kind = "pane-died" => \/ h.pane = None /\ h.sess = None
                               \/ DeadPane(h.pane) /\ h.sess # None
    /\ h.kind = "window-unlinked" => h.win \in used /\ h.win # None
    /\ h.kind = "window-unlinked" /\ h.took # {} => DeadWindow(h.win)
    /\ h.kind = "session-closed" => DeadSession(h.sess) /\ h.sess # None

ServerInv ==
    /\ ServerTypeOK
    /\ LivePanes \cup LiveWindows \cup LiveSessions \subseteq used
    /\ started <= now
    /\ \A h \in hooks : HookInv(h)
    /\ used = {} => hooks = {}
------------------------------------------------------------------------------
(* tmux *)

\* What is dead stays dead, and what was given out was.
Stays ==
    /\ inc' = inc /\ used \subseteq used'
    /\ started' = started \/ used = {}
    /\ \A p \in used : p \notin LivePanes => p \notin LivePanes'
    /\ \A w \in used : w \notin LiveWindows => w \notin LiveWindows'
    /\ \A s \in used : s \notin LiveSessions => s \notin LiveSessions'

\* Or it is another server, that starts now and has no hooks yet.
Anew == inc' = inc + 1 /\ started' = now /\ hooks' = {}

LEMMA HookStays ==
    ASSUME NEW h, HookInv(h), Stays
    PROVE  HookInv(h)'
BY DEF HookInv, Stays, Spent, DeadPane, DeadWindow, DeadSession

LEMMA SpentStays ==
    ASSUME NEW h, Spent(h), Stays
    PROVE  Spent(h)'
BY DEF Stays, Spent, DeadPane

\* The panes P go, and the windows and sessions left empty go with them.
LEMMA CloseServer ==
    ASSUME ServerInv, NEW P, P # {}, NEW inner, Close(P, inner),
           \A h \in inner : /\ h \in Hooks /\ h.inc = inc /\ h.kind = "pane-died"
                            /\ h.took \subseteq h.cause /\ h.cause \subseteq P
                            /\ \/ h.pane = None /\ h.sess = None
                               \/ h.pane \in P /\ h.sess # None
    PROVE  ServerInv' /\ Stays
<1> DEFINE W == GoneWindows(P)
<1> USE DEF ServerInv
<1>1. /\ P \subseteq LivePanes /\ W \subseteq LiveWindows
      /\ winOf' = [p \in Panes |-> IF p \in P THEN None ELSE winOf[p]]
      /\ sessOf' = [w \in Windows |-> IF w \in W THEN None ELSE sessOf[w]]
      /\ hooks' = hooks \cup inner \cup OuterHooks(P)
      /\ UNCHANGED <<now, inc, started, used>>
  BY DEF Close, GoneWindows
<1>2. /\ winOf \in [Panes -> Windows \cup {None}] /\ sessOf \in [Windows -> Sessions \cup {None}]
      /\ None \notin Panes \cup Windows \cup Sessions
  BY ServerAssumption DEF ServerTypeOK
<1>3. /\ winOf' \in [Panes -> Windows \cup {None}] /\ sessOf' \in [Windows -> Sessions \cup {None}]
  BY <1>1, <1>2
<1>4. LivePanes' = LivePanes \ P
  BY <1>1, <1>2 DEF LivePanes
<1>5. LiveWindows' = LiveWindows \ W
  BY <1>1, <1>2 DEF LiveWindows
<1>6. \A w \in LiveWindows' : sessOf'[w] = sessOf[w]
  BY <1>1, <1>5 DEF LiveWindows
<1>7. LiveSessions' \subseteq LiveSessions
  BY <1>5, <1>6 DEF LiveSessions
<1>8. Stays
  BY <1>1, <1>4, <1>5, <1>7 DEF Stays
<1>9. \A p \in LivePanes' : winOf'[p] \in LiveWindows'
  <2> SUFFICES ASSUME NEW p \in LivePanes' PROVE winOf'[p] \in LiveWindows'
    OBVIOUS
  <2>1. p \in LivePanes /\ p \notin P /\ p \in Panes /\ winOf'[p] = winOf[p]
    BY <1>1, <1>4 DEF LivePanes
  <2>2. winOf[p] \in LiveWindows
    BY <2>1 DEF ServerTypeOK
  <2>3. winOf[p] \notin W
    BY <2>1 DEF GoneWindows, PanesOf
  <2> QED
    BY <1>5, <2>1, <2>2, <2>3
<1>10. \A w \in LiveWindows' : PanesOf(w)' # {}
  <2> SUFFICES ASSUME NEW w \in LiveWindows' PROVE \E p \in Panes : winOf'[p] = w
    BY DEF PanesOf
  <2>1. w \in LiveWindows /\ w \notin W
    BY <1>5
  <2>2. PICK p \in PanesOf(w) : p \notin P
    BY <2>1 DEF GoneWindows
  <2> QED
    BY <1>1, <2>2 DEF PanesOf
<1>11. \A h \in OuterHooks(P) : HookInv(h)'
  <2> SUFFICES ASSUME NEW h \in OuterHooks(P) PROVE HookInv(h)'
    OBVIOUS
  <2>1. CASE \E w \in W : h = Hook("window-unlinked", sessOf[w], w, None, PanesOf(w), P)
    <3>1. PICK w \in W : h = Hook("window-unlinked", sessOf[w], w, None, PanesOf(w), P)
      BY <2>1
    <3>2. w \in Windows /\ w \in used /\ PanesOf(w) \subseteq P /\ w # None
      BY <1>1, <1>2, <3>1 DEF GoneWindows, LiveWindows
    <3>3. sessOf[w] \in Sessions \cup {None} /\ P \subseteq Panes /\ inc \in 0..MaxInc
      BY <1>1, <1>2, <3>2 DEF LivePanes, ServerTypeOK
    <3>4. h \in Hooks
      BY <3>1, <3>2, <3>3 DEF Hook, Hooks
    <3>5. /\ h.kind = "window-unlinked" /\ h.win = w /\ h.inc = inc
          /\ h.took = PanesOf(w) /\ h.cause = P
      BY <3>1 DEF Hook
    <3> QED
      BY <1>1, <1>4, <1>5, <3>1, <3>2, <3>4, <3>5 DEF HookInv, Spent, DeadPane, DeadWindow
  <2>2. CASE \E s \in GoneSessions(W) :
               h = Hook("session-closed", s, None, None, PanesIn(WindowsOf(s)), P)
    <3>1. PICK s \in GoneSessions(W) :
               h = Hook("session-closed", s, None, None, PanesIn(WindowsOf(s)), P)
      BY <2>2
    <3>2. s \in LiveSessions /\ s \in used /\ WindowsOf(s) \subseteq W
      BY <3>1 DEF GoneSessions
    <3>3. s \in Sessions /\ s # None
      BY <1>2, <3>2 DEF LiveSessions, LiveWindows
    <3>4. s \notin LiveSessions'
      <4> SUFFICES ASSUME s \in LiveSessions' PROVE FALSE
        OBVIOUS
      <4>1. PICK w \in LiveWindows' : s = sessOf'[w]
        BY DEF LiveSessions
      <4>2. w \in WindowsOf(s) /\ w \notin W
        BY <1>5, <1>6, <4>1 DEF WindowsOf, LiveWindows
      <4> QED
        BY <3>2, <4>2
    <3>5. PanesIn(WindowsOf(s)) \subseteq P
      BY <3>2 DEF PanesIn, GoneWindows
    <3>6. P \subseteq Panes /\ inc \in 0..MaxInc
      BY <1>1 DEF LivePanes, ServerTypeOK
    <3>7. h \in Hooks
      BY <3>1, <3>3, <3>5, <3>6 DEF Hook, Hooks
    <3>8. /\ h.kind = "session-closed" /\ h.sess = s /\ h.inc = inc
          /\ h.took = PanesIn(WindowsOf(s)) /\ h.cause = P
      BY <3>1 DEF Hook
    <3> QED
      BY <1>1, <1>4, <3>2, <3>3, <3>4, <3>5, <3>7, <3>8 DEF HookInv, Spent, DeadPane, DeadSession
  <2> QED
    BY <2>1, <2>2 DEF OuterHooks
<1>12. \A h \in inner : HookInv(h)'
  BY <1>1, <1>4 DEF HookInv, Spent, DeadPane
<1>13. \A h \in hooks : HookInv(h)'
  BY <1>8, HookStays
<1>14. \A h \in hooks' : HookInv(h)'
  BY <1>1, <1>11, <1>12, <1>13
<1>15. ServerTypeOK'
  <2>1. hooks' \subseteq Hooks
    BY <1>14 DEF HookInv
  <2> QED
    BY <1>1, <1>3, <1>9, <1>10, <2>1 DEF ServerTypeOK
<1>16. (LivePanes \cup LiveWindows \cup LiveSessions \subseteq used)'
  BY <1>1, <1>4, <1>5, <1>7
<1>17. used' # {}
  BY <1>1
<1> QED
  BY <1>1, <1>8, <1>14, <1>15, <1>16, <1>17

LEMMA ExitServer ==
    ASSUME ServerInv, NEW p \in Panes, ExitPane(p)
    PROVE  ServerInv' /\ Stays
<1> DEFINE h == Hook("pane-died", sessOf[winOf[p]], winOf[p], p, {p}, {p})
<1>1. p \in LivePanes /\ Close({p}, {h})
  BY DEF ExitPane
<1>2. winOf[p] \in LiveWindows /\ winOf[p] \in Windows /\ inc \in 0..MaxInc
      /\ sessOf \in [Windows -> Sessions \cup {None}]
  BY <1>1 DEF ServerInv, ServerTypeOK, LiveWindows
<1>3. sessOf[winOf[p]] \in Sessions /\ sessOf[winOf[p]] # None
  BY <1>2 DEF LiveWindows
<1>4. h \in Hooks
  BY <1>2, <1>3 DEF Hook, Hooks
<1>5. /\ h.inc = inc /\ h.kind = "pane-died" /\ h.took = {p} /\ h.cause = {p}
      /\ h.pane = p /\ h.sess = sessOf[winOf[p]]
  BY DEF Hook
<1> HIDE DEF h
<1> QED
  BY <1>1, <1>3, <1>4, <1>5, CloseServer

LEMMA KillServer ==
    ASSUME ServerInv, NEW p \in Panes, KillPane(p)
    PROVE  ServerInv' /\ Stays
<1> DEFINE h == Hook("pane-died", None, None, None, {p}, {p})
<1>1. Close({p}, {h})
  BY DEF KillPane
<1>2. inc \in 0..MaxInc
  BY DEF ServerInv, ServerTypeOK
<1>3. h \in Hooks
  BY <1>2 DEF Hook, Hooks
<1>4. /\ h.inc = inc /\ h.kind = "pane-died" /\ h.took = {p} /\ h.cause = {p}
      /\ h.pane = None /\ h.sess = None
  BY DEF Hook
<1> HIDE DEF h
<1> QED
  BY <1>1, <1>3, <1>4, CloseServer

LEMMA KillsServer ==
    ASSUME ServerInv, \/ \E w \in Windows : KillWindow(w)
                      \/ \E s \in Sessions : KillSession(s)
    PROVE  ServerInv' /\ Stays
<1>1. \A w \in LiveWindows : PanesOf(w) # {}
  BY DEF ServerInv, ServerTypeOK
<1>2. ASSUME NEW w \in Windows, KillWindow(w) PROVE ServerInv' /\ Stays
  BY <1>1, <1>2, CloseServer DEF KillWindow
<1>3. ASSUME NEW s \in Sessions, KillSession(s) PROVE ServerInv' /\ Stays
  <2>1. PICK w \in LiveWindows : s = sessOf[w]
    BY <1>3 DEF KillSession, LiveSessions
  <2>2. w \in WindowsOf(s) /\ PanesOf(w) # {}
    BY <1>1, <2>1 DEF WindowsOf, LiveWindows
  <2>3. PanesIn(WindowsOf(s)) # {}
    BY <2>2 DEF PanesIn
  <2> QED
    BY <1>3, <2>3, CloseServer DEF KillSession
<1> QED
  BY <1>2, <1>3

LEMMA SplitServer ==
    ASSUME ServerInv, NEW p \in Panes, NEW w \in Windows, Split(p, w) \/ JoinPane(p, w)
    PROVE  ServerInv' /\ Stays
<1> USE DEF ServerInv
<1>1. /\ winOf' = [winOf EXCEPT ![p] = w] /\ used \subseteq used' /\ used' \subseteq used \cup {p}
      /\ w \in LiveWindows /\ UNCHANGED <<now, inc, started, sessOf, hooks>>
      /\ (p \in LivePanes /\ PanesOf(winOf[p]) # {p}) \/ (p \notin used /\ p \in used')
  BY DEF Split, JoinPane
<1>2. /\ winOf \in [Panes -> Windows \cup {None}] /\ sessOf \in [Windows -> Sessions \cup {None}]
      /\ None \notin Panes \cup Windows \cup Sessions
  BY ServerAssumption DEF ServerTypeOK
<1>3. LivePanes' = LivePanes \cup {p} /\ LiveWindows' = LiveWindows /\ LiveSessions' = LiveSessions
  BY <1>1, <1>2 DEF LivePanes, LiveWindows, LiveSessions
<1>4. used # {}
  BY <1>1
<1>5. Stays
  BY <1>1, <1>3 DEF Stays
<1>6. \A h \in hooks : HookInv(h)'
  BY <1>5, HookStays
<1>7. \A q \in LivePanes' : winOf'[q] \in LiveWindows'
  BY <1>1, <1>2, <1>3 DEF ServerTypeOK, LivePanes
<1>8. \A v \in LiveWindows' : PanesOf(v)' # {}
  <2> SUFFICES ASSUME NEW v \in LiveWindows' PROVE \E q \in Panes : winOf'[q] = v
    BY DEF PanesOf
  <2>1. PanesOf(v) # {} /\ v \in Windows
    BY <1>3 DEF ServerTypeOK, LiveWindows
  <2>2. CASE \E q \in PanesOf(v) : q # p
    BY <1>1, <1>2, <2>2 DEF PanesOf
  <2>3. CASE PanesOf(v) = {p}
    <3>1. p \in LivePanes /\ winOf[p] = v
      BY <1>2, <2>1, <2>3 DEF PanesOf, LivePanes
    <3>2. p \in used
      BY <3>1
    <3> QED
      BY <1>1, <2>3, <3>1, <3>2
  <2> QED
    BY <2>1, <2>2, <2>3
<1>9. ServerTypeOK'
  <2>1. winOf' \in [Panes -> Windows \cup {None}]
    BY <1>1, <1>2
  <2>2. used' \subseteq Panes \cup Windows \cup Sessions
    BY <1>1 DEF ServerTypeOK
  <2> QED
    BY <1>1, <1>7, <1>8, <2>1, <2>2 DEF ServerTypeOK
<1> QED
  BY <1>1, <1>3, <1>4, <1>5, <1>6, <1>9

LEMMA MoveServer ==
    ASSUME ServerInv, NEW w \in Windows, NEW s \in Sessions, MoveWindow(w, s)
    PROVE  ServerInv' /\ Stays
<1> USE DEF ServerInv
<1> DEFINE T == GoneSessions({w})
           moved == Hook("window-unlinked", sessOf[w], w, None, {}, {})
           gone(t) == Hook("session-closed", t, None, None, {}, {})
<1>1. /\ w \in LiveWindows /\ s \in LiveSessions /\ s # sessOf[w]
      /\ sessOf' = [sessOf EXCEPT ![w] = s]
      /\ hooks' = hooks \cup {moved} \cup {gone(t) : t \in T}
      /\ UNCHANGED <<now, inc, started, winOf, used>>
  BY DEF MoveWindow
<1>2. /\ winOf \in [Panes -> Windows \cup {None}] /\ sessOf \in [Windows -> Sessions \cup {None}]
      /\ None \notin Panes \cup Windows \cup Sessions /\ inc \in 0..MaxInc
  BY ServerAssumption DEF ServerTypeOK
<1>3. LivePanes' = LivePanes /\ LiveWindows' = LiveWindows
  BY <1>1, <1>2 DEF LivePanes, LiveWindows
<1>4. \A v \in LiveWindows' : sessOf'[v] = IF v = w THEN s ELSE sessOf[v]
  BY <1>1, <1>2, <1>3 DEF LiveWindows
<1>5. LiveSessions' \subseteq LiveSessions
  BY <1>1, <1>3, <1>4 DEF LiveSessions
<1>6. Stays
  BY <1>1, <1>3, <1>5 DEF Stays
<1>7. ASSUME NEW h, h = moved PROVE HookInv(h)'
  <2>1. sessOf[w] \in Sessions
    BY <1>1, <1>2 DEF LiveWindows
  <2>2. h \in Hooks
    BY <1>2, <1>7, <2>1 DEF Hook, Hooks
  <2>3. h.kind = "window-unlinked" /\ h.win = w /\ h.inc = inc /\ h.took = {} /\ h.cause = {}
    BY <1>7 DEF Hook
  <2> HIDE DEF moved
  <2> QED
    BY <1>1, <1>2, <2>2, <2>3 DEF HookInv, Spent
<1>8. ASSUME NEW h, NEW t \in T, h = gone(t) PROVE HookInv(h)'
  <2>1. t \in LiveSessions /\ WindowsOf(t) \subseteq {w} /\ t \in Sessions /\ t # None
    BY <1>2 DEF GoneSessions, LiveSessions, LiveWindows
  <2>2. t # s
    <3>1. PICK v \in LiveWindows : s = sessOf[v]
      BY <1>1 DEF LiveSessions
    <3> QED
      BY <1>1, <2>1, <3>1 DEF WindowsOf, LiveWindows
  <2>3. t \notin LiveSessions'
    <3> SUFFICES ASSUME NEW v \in LiveWindows', t = sessOf'[v] PROVE FALSE
      BY DEF LiveSessions
    <3>1. v # w /\ t = sessOf[v]
      BY <1>4, <2>2
    <3> QED
      BY <1>3, <2>1, <3>1 DEF WindowsOf, LiveWindows
  <2>4. h \in Hooks
    BY <1>2, <1>8, <2>1 DEF Hook, Hooks
  <2>5. h.kind = "session-closed" /\ h.sess = t /\ h.inc = inc /\ h.took = {} /\ h.cause = {}
    BY <1>8 DEF Hook
  <2> HIDE DEF gone
  <2> QED
    BY <1>1, <2>1, <2>3, <2>4, <2>5 DEF HookInv, Spent, DeadSession
<1>9. \A h \in hooks' : HookInv(h)'
  <2> HIDE DEF moved, gone, T
  <2> QED
    BY <1>1, <1>6, <1>7, <1>8, HookStays
<1>10. ServerTypeOK'
  <2>1. hooks' \subseteq Hooks
    BY <1>9 DEF HookInv
  <2>2. sessOf' \in [Windows -> Sessions \cup {None}]
    BY <1>1, <1>2
  <2>3. \A v \in LiveWindows' : PanesOf(v)' # {}
    BY <1>1, <1>3 DEF ServerTypeOK, PanesOf
  <2>4. \A p \in LivePanes' : winOf'[p] \in LiveWindows'
    BY <1>1, <1>3 DEF ServerTypeOK
  <2> QED
    BY <1>1, <2>1, <2>2, <2>3, <2>4 DEF ServerTypeOK
<1>11. used' # {}
  BY <1>1
<1> QED
  BY <1>1, <1>3, <1>5, <1>6, <1>9, <1>10, <1>11

LEMMA OpenServer ==
    ASSUME ServerInv, NEW p \in Panes, NEW w \in Windows, NEW s \in Sessions, Open(p, w, s)
    PROVE  ServerInv' /\ (Stays \/ Anew)
<1> USE DEF ServerInv
<1>1. /\ winOf \in [Panes -> Windows \cup {None}] /\ sessOf \in [Windows -> Sessions \cup {None}]
      /\ None \notin Panes \cup Windows \cup Sessions
      /\ now \in 1..MaxNow /\ inc \in 0..MaxInc /\ {MaxNow, MaxInc} \subseteq Nat
  BY ServerAssumption DEF ServerTypeOK
<1>2. winOf' = [winOf EXCEPT ![p] = w] /\ sessOf' = [sessOf EXCEPT ![w] = s] /\ now' = now
  BY DEF Open
<1>3. p \notin LivePanes /\ w \notin LiveWindows /\ (~Running => LivePanes = {} /\ LiveWindows = {})
  <2>1. ASSUME ~Running PROVE LivePanes = {} /\ LiveWindows = {}
    <3>1. \A v \in LiveWindows : v \in Windows /\ v # None /\ PanesOf(v) # {}
      BY <1>1 DEF ServerTypeOK, LiveWindows
    <3>2. \A v \in LiveWindows : PanesOf(v) \subseteq LivePanes
      BY <3>1 DEF PanesOf, LivePanes
    <3> QED
      BY <2>1, <3>1, <3>2 DEF Running
  <2>2. Running => {p, w} \cap used = {}
    BY DEF Open
  <2> QED
    BY <2>1, <2>2
<1>4. LivePanes' = LivePanes \cup {p} /\ LiveWindows' = LiveWindows \cup {w}
  BY <1>1, <1>2 DEF LivePanes, LiveWindows
<1>5. LiveSessions' = LiveSessions \cup {s}
  <2>1. \A v \in LiveWindows : sessOf'[v] = sessOf[v]
    BY <1>1, <1>2, <1>3 DEF LiveWindows
  <2>2. sessOf'[w] = s
    BY <1>1, <1>2
  <2> QED
    BY <1>4, <2>1, <2>2 DEF LiveSessions
<1>6. ~Running => LiveSessions = {}
  BY <1>3 DEF LiveSessions
<1>7. \A q \in LivePanes' : winOf'[q] \in LiveWindows'
  BY <1>1, <1>2, <1>4 DEF ServerTypeOK, LivePanes
<1>8. \A v \in LiveWindows' : PanesOf(v)' # {}
  <2> SUFFICES ASSUME NEW v \in LiveWindows' PROVE \E q \in Panes : winOf'[q] = v
    BY DEF PanesOf
  <2>1. CASE v = w
    BY <1>1, <1>2, <2>1
  <2>2. CASE v # w
    <3>1. v \in LiveWindows /\ v \in Windows
      BY <1>4, <2>2 DEF LiveWindows
    <3>2. PICK q \in Panes : winOf[q] = v
      BY <3>1 DEF ServerTypeOK, PanesOf
    <3>3. q \in LivePanes
      BY <1>1, <3>1, <3>2 DEF LivePanes
    <3> QED
      BY <1>1, <1>2, <1>3, <3>2, <3>3
  <2> QED
    BY <2>1, <2>2
<1>9. winOf' \in [Panes -> Windows \cup {None}] /\ sessOf' \in [Windows -> Sessions \cup {None}]
  BY <1>1, <1>2
<1>10. CASE Running /\ UNCHANGED <<inc, started, hooks>> /\ used' = used \cup {p, w, s}
            /\ {p, w} \cap used = {} /\ (s \in used => s \in LiveSessions)
  <2>1. Stays
    BY <1>4, <1>5, <1>10 DEF Stays
  <2>2. \A h \in hooks : HookInv(h)'
    BY <2>1, HookStays
  <2>3. ServerTypeOK'
    BY <1>2, <1>7, <1>8, <1>9, <1>10 DEF ServerTypeOK
  <2> QED
    BY <1>2, <1>4, <1>5, <1>10, <2>1, <2>2, <2>3
<1>11. CASE ~Running /\ used = {} /\ used' = {p, w, s} /\ started' = now /\ UNCHANGED <<inc, hooks>>
  <2>1. Stays
    BY <1>11 DEF Stays
  <2>2. \A h \in hooks : HookInv(h)'
    BY <1>11
  <2>3. ServerTypeOK'
    BY <1>1, <1>2, <1>7, <1>8, <1>9, <1>11 DEF ServerTypeOK
  <2> QED
    BY <1>1, <1>2, <1>3, <1>4, <1>5, <1>6, <1>11, <2>1, <2>2, <2>3
<1>12. CASE ~Running /\ used' = {p, w, s} /\ started' = now /\ inc' = inc + 1 /\ hooks' = {} /\ inc < MaxInc
  <2>1. Anew
    BY <1>12 DEF Anew
  <2>2. ServerTypeOK'
    BY <1>1, <1>2, <1>7, <1>8, <1>9, <1>12 DEF ServerTypeOK
  <2> QED
    BY <1>1, <1>2, <1>3, <1>4, <1>5, <1>6, <1>12, <2>1, <2>2
<1> QED
  BY <1>10, <1>11, <1>12 DEF Open

LEMMA TickServer ==
    ASSUME ServerInv, Tick
    PROVE  ServerInv' /\ Stays
<1>1. Stays /\ UNCHANGED hooks
  BY DEF Tick, tmux, Stays, LivePanes, LiveWindows, LiveSessions
<1>2. \A h \in hooks : HookInv(h)'
  BY <1>1, HookStays DEF ServerInv
<1>3. ServerTypeOK'
  BY ServerAssumption
     DEF ServerInv, ServerTypeOK, Tick, tmux, LivePanes, LiveWindows, PanesOf
<1>4. LivePanes' = LivePanes /\ LiveWindows' = LiveWindows /\ LiveSessions' = LiveSessions
  BY DEF Tick, tmux, LivePanes, LiveWindows, LiveSessions
<1>5. now' = now + 1 /\ now \in Nat /\ started \in Nat
  BY ServerAssumption DEF Tick, ServerInv, ServerTypeOK
<1> QED
  BY <1>1, <1>2, <1>3, <1>4, <1>5 DEF ServerInv, Tick, tmux

\* Each step of the server leaves it sound, and what was gone is gone for
\* good as long as it is the same server.
LEMMA ServerSteps ==
    ASSUME ServerInv, Tick \/ ServerNext
    PROVE  ServerInv' /\ (Stays \/ Anew)
BY TickServer, ExitServer, KillServer, KillsServer, SplitServer, MoveServer, OpenServer
   DEF ServerNext

\* No command touches the server; a capture takes its hook.
LEMMA CommandServer ==
    ASSUME ServerInv, hooks' \subseteq hooks, UNCHANGED <<now, tmux>>
    PROVE  ServerInv' /\ Stays
<1>1. UNCHANGED <<now, inc, started, winOf, sessOf, used>>
  BY DEF tmux
<1>2. Stays
  BY <1>1 DEF Stays, LivePanes, LiveWindows, LiveSessions
<1>3. \A h \in hooks : HookInv(h)'
  BY <1>2, HookStays DEF ServerInv
<1>4. ServerTypeOK'
  BY <1>1 DEF ServerInv, ServerTypeOK, LivePanes, LiveWindows, PanesOf
<1>5. LivePanes' = LivePanes /\ LiveWindows' = LiveWindows /\ LiveSessions' = LiveSessions
  BY <1>1 DEF LivePanes, LiveWindows, LiveSessions
<1> QED
  BY <1>1, <1>2, <1>3, <1>4, <1>5 DEF ServerInv

LEMMA InitServer == Init => ServerInv
<1> SUFFICES ASSUME Init PROVE ServerInv
  OBVIOUS
<1>1. /\ now = 1 /\ inc = 0 /\ started = 1 /\ used = {} /\ hooks = {}
      /\ winOf = [p \in Panes |-> None] /\ sessOf = [w \in Windows |-> None]
  BY DEF Init, ServerInit
<1>2. LivePanes = {} /\ LiveWindows = {} /\ LiveSessions = {}
  BY <1>1 DEF LivePanes, LiveWindows, LiveSessions
<1>3. 1 \in 1..MaxNow /\ 0 \in 0..MaxInc
  BY ServerAssumption
<1> QED
  BY <1>1, <1>2, <1>3 DEF ServerInv, ServerTypeOK
------------------------------------------------------------------------------
(* Rows *)

\* The rows have ids and times of their own, in the order they came.
RowsInv ==
    /\ IsFiniteSet(snaps) /\ IsFiniteSet(closes) /\ snaps \cap closes = {}
    /\ nextId \in 1..MaxSteps + 1
    /\ \A a \in snaps \cup closes : a.id \in Nat /\ 0 < a.id /\ a.id < nextId
                                    /\ a.ts \in Nat /\ 0 < a.ts /\ a.ts <= now
    /\ \A a, b \in snaps \cup closes : a.id = b.id => a = b
    /\ used = {} => snaps = {} /\ closes = {}

\* A snapshot of this server was taken since it started, of what it gave out.
SnapInv(e) ==
    /\ [win |-> e.win, sess |-> e.sess] \in Structures
    /\ e.inc \in 0..MaxInc /\ e.inc <= inc
    /\ e.inc = inc => /\ e.ts >= started
                      /\ SnapPanes(e) \cup SnapWindows(e) \cup SnapSessions(e) \subseteq used

\* A close names what closed; if it was on this server, it came since the
\* start, and its panes are gone.
RowInv(c) ==
    /\ c.hook \in Hooks /\ c.hook.inc <= inc
    /\ c.survivors \subseteq Sessions /\ Cardinality(c.resolved) <= 1
    /\ c.hook.kind = "pane-died" => c.hook.pane # None
    /\ c.hook.kind = "window-unlinked" => c.hook.win # None
    /\ c.hook.inc = inc => c.ts >= started /\ Spent(c.hook)

Base ==
    /\ ServerInv /\ RowsInv
    /\ \A e \in snaps : SnapInv(e)
    /\ \A c \in closes : RowInv(c)
    /\ lastFP \in SUBSET Structures /\ Cardinality(lastFP) <= 1
    /\ acts \in 0..MaxSteps

LEMMA AtMostOne ==
    ASSUME NEW S, \A r, q \in S : r = q
    PROVE  IsFiniteSet(S) /\ Cardinality(S) \in {0, 1} /\ Cardinality(S) <= 1
           /\ (Cardinality(S) = 0 <=> S = {})
<1>1. CASE S = {}
  BY <1>1, FS_EmptySet
<1>2. CASE S # {}
  <2>1. PICK r : S = {r}
    BY <1>2
  <2> QED
    BY <2>1, FS_Singleton
<1> QED
  BY <1>1, <1>2

\* There are as many ids as rows.
LEMMA CountIds ==
    ASSUME NEW A, NEW B, IsFiniteSet(A), IsFiniteSet(B), A \cap B = {},
           \A a, b \in A \cup B : a.id = b.id => a = b
    PROVE  Cardinality({a.id : a \in A \cup B}) = Cardinality(A) + Cardinality(B)
<1> DEFINE E == A \cup B
           ids == {a.id : a \in E}
           f == [a \in E |-> a.id]
<1>1. IsFiniteSet(E) /\ Cardinality(E) = Cardinality(A) + Cardinality(B) - Cardinality(A \cap B)
  BY FS_Union
<1>2. Cardinality(A \cap B) = 0 /\ Cardinality(A) \in Nat /\ Cardinality(B) \in Nat
  BY FS_EmptySet, FS_CardinalityType
<1>3. f \in Bijection(E, ids)
  <2>1. f \in [E -> ids]
    OBVIOUS
  <2>2. \A a, b \in E : f[a] = f[b] => a = b
    OBVIOUS
  <2>3. \A t \in ids : \E a \in E : f[a] = t
    OBVIOUS
  <2> HIDE DEF f, ids, E
  <2> QED
    BY <2>1, <2>2, <2>3 DEF Bijection, Injection, Surjection, IsInjective
<1>4. ExistsBijection(E, ids)
  <2> HIDE DEF f, ids, E
  <2> QED
    BY <1>3 DEF ExistsBijection
<1>5. Cardinality(ids) = Cardinality(E)
  <2> HIDE DEF f, ids, E
  <2> QED
    BY <1>1, <1>4, FS_Bijection
<1> QED
  BY <1>1, <1>2, <1>5

LEMMA BaseTypes == Base => TypeOK
<1> SUFFICES ASSUME Base PROVE TypeOK
  OBVIOUS
<1> USE DEF Base, RowsInv
<1>1. ServerTypeOK /\ now \in 1..MaxNow
  BY DEF ServerInv, ServerTypeOK
<1>2. MaxSteps \in Nat /\ MaxNow \in Nat
  BY CloseAssumption, ServerAssumption
<1>3. \A a \in snaps \cup closes : [id |-> a.id, ts |-> a.ts] \in Rows
  BY <1>1, <1>2 DEF Rows
<1>4. Cardinality({e.id : e \in snaps \cup closes}) = Cardinality(snaps) + Cardinality(closes)
  BY CountIds
<1>5. \A e \in snaps : e.inc \in 0..MaxInc /\ [win |-> e.win, sess |-> e.sess] \in Structures
  BY DEF SnapInv
<1>6. \A c \in closes : c.hook \in Hooks /\ c.survivors \subseteq Sessions /\ Cardinality(c.resolved) <= 1
  BY DEF RowInv
<1> QED
  BY <1>1, <1>3, <1>4, <1>5, <1>6 DEF TypeOK

\* The newest row is one, if it is any.
LEMMA LatestOne ==
    ASSUME NEW E, \A a \in E : a.id \in Nat /\ a.ts \in Nat,
           \A a, b \in E : a.id = b.id => a = b,
           NEW a \in Latest(E), NEW b \in Latest(E)
    PROVE  a = b
BY DEF Latest, Newer

LEMMA LeastNat ==
    ASSUME NEW T \in SUBSET Nat, T # {}
    PROVE  \E x \in T : \A y \in T : x <= y
<1>1. PICK x \in T : \A y \in T : ~(<<y, x>> \in OpToRel(<, Nat))
  BY NatLessThanWellFounded, WFMin
<1>2. \A y \in T : ~(y < x)
  BY <1>1 DEF OpToRel
<1> QED
  BY <1>2

\* Of rows some is the newest: the one of the largest id of the latest time.
LEMMA LatestSome ==
    ASSUME NEW E, E # {}, NEW t \in Nat, NEW n \in Nat,
           \A e \in E : e.ts \in Nat /\ e.ts <= t /\ e.id \in Nat /\ e.id <= n
    PROVE  Latest(E) # {}
<1> DEFINE ages == {t - e.ts : e \in E}
<1>1. ages \in SUBSET Nat /\ ages # {}
  OBVIOUS
<1>2. PICK a \in ages : \A b \in ages : a <= b
  BY <1>1, LeastNat
<1>3. PICK m \in E : a = t - m.ts
  OBVIOUS
<1>4. \A e \in E : e.ts <= m.ts
  <2> SUFFICES ASSUME NEW e \in E PROVE e.ts <= m.ts
    OBVIOUS
  <2>1. t - e.ts \in ages
    OBVIOUS
  <2>2. t - m.ts <= t - e.ts
    BY <1>2, <1>3, <2>1
  <2> QED
    BY <2>2
<1> HIDE DEF ages
<1> DEFINE F == {e \in E : e.ts = m.ts}
           back == {n - e.id : e \in F}
<1>5. back \in SUBSET Nat /\ back # {}
  OBVIOUS
<1>6. PICK x \in back : \A y \in back : x <= y
  BY <1>5, LeastNat
<1>7. PICK k \in F : x = n - k.id
  OBVIOUS
<1>8. \A e \in F : e.id <= k.id
  <2> SUFFICES ASSUME NEW e \in F PROVE e.id <= k.id
    OBVIOUS
  <2>1. n - e.id \in back
    OBVIOUS
  <2>2. n - k.id <= n - e.id
    BY <1>6, <1>7, <2>1
  <2> QED
    BY <2>2
<1> HIDE DEF back
<1>9. k \in E /\ k.ts = m.ts
  OBVIOUS
<1>10. ASSUME NEW f \in E PROVE ~Newer(f, k)
  <2>1. CASE f.ts = m.ts
    BY <1>8, <1>9, <2>1 DEF Newer
  <2>2. CASE f.ts # m.ts
    BY <1>4, <1>9, <2>2 DEF Newer
  <2> QED
    BY <2>1, <2>2
<1> QED
  BY <1>9, <1>10 DEF Latest

\* What the server does leaves each row what it said.
LEMMA RowsStay ==
    ASSUME Base, Stays \/ Anew, now' >= now
    PROVE  /\ \A e \in snaps : SnapInv(e)'
           /\ \A c \in closes : RowInv(c)'
<1> USE DEF Base
<1>1. inc \in Nat
  BY ServerAssumption DEF ServerInv, ServerTypeOK
<1>2. ASSUME NEW e \in snaps PROVE SnapInv(e)'
  <2>1. SnapInv(e) /\ used # {}
    BY DEF RowsInv
  <2>2. CASE Stays
    BY <1>1, <2>1, <2>2 DEF SnapInv, Stays, SnapPanes, SnapWindows, SnapSessions
  <2>3. CASE Anew
    BY <1>1, <2>1, <2>3 DEF SnapInv, Anew
  <2> QED
    BY <2>2, <2>3
<1>3. ASSUME NEW c \in closes PROVE RowInv(c)'
  <2>1. RowInv(c) /\ used # {}
    BY DEF RowsInv
  <2>2. CASE Stays
    BY <1>1, <2>1, <2>2, SpentStays DEF RowInv, Stays
  <2>3. CASE Anew
    <3>1. c.hook.inc \in Nat
      BY <2>1, ServerAssumption DEF RowInv, Hooks
    <3> QED
      BY <1>1, <2>1, <2>3, <3>1 DEF RowInv, Anew
  <2> QED
    BY <2>2, <2>3
<1> QED
  BY <1>2, <1>3

\* The clock does not go back, and what the server gave out is not undone.
LEMMA ServerClock ==
    ASSUME ServerInv, Tick \/ ServerNext
    PROVE  now' \in Nat /\ now' >= now /\ (used' = {} => used = {})
<1>1. now \in Nat
  BY ServerAssumption DEF ServerInv, ServerTypeOK
<1>2. CASE Tick
  BY <1>1, <1>2 DEF Tick, tmux
<1>3. CASE ServerNext
  <2>1. now' = now
    BY <1>3 DEF ServerNext, Split, JoinPane, Open, ExitPane, KillPane, KillWindow, KillSession,
                MoveWindow, Close
  <2>2. used' = used \/ used' # {}
    BY <1>3 DEF ServerNext, Split, JoinPane, Open, ExitPane, KillPane, KillWindow, KillSession,
                MoveWindow, Close
  <2> QED
    BY <1>1, <2>1, <2>2
<1> QED
  BY <1>2, <1>3

LEMMA ServerBase ==
    ASSUME Base, Outside
    PROVE  Base'
<1>1. ServerInv' /\ (Stays \/ Anew) /\ now' >= now /\ now' \in Nat /\ (used' = {} => used = {})
  BY ServerSteps, ServerClock DEF Base, Outside
<1>2. UNCHANGED <<snaps, closes, nextId, lastFP>>
  BY DEF Outside
<1>4. acts' \in 0..MaxSteps
  BY CloseAssumption DEF Outside, Room, Base, RowsInv
<1>3. RowsInv'
  <2>1. now \in Nat
    BY ServerAssumption DEF Base, ServerInv, ServerTypeOK
  <2> QED
    BY <1>1, <1>2, <2>1 DEF Base, RowsInv
<1> QED
  BY <1>1, <1>2, <1>3, <1>4, RowsStay DEF Base

\* A prune leaves rows that were there.
LEMMA PrunedRows ==
    ASSUME NEW S, NEW C, Pruned(S, C)
    PROVE  snaps' \subseteq S /\ closes' \subseteq C
BY DEF Pruned, SnapshotSurvivors, NewestByTs, NewestOfDay, AtOrBelowFloor

\* Commands that add no row.
LEMMA DropBase ==
    ASSUME Base, hooks' \subseteq hooks, UNCHANGED <<now, tmux, nextId, lastFP>>,
           snaps' \subseteq snaps, closes' \subseteq closes, acts' \in 0..MaxSteps
    PROVE  Base'
<1>1. ServerInv' /\ Stays
  BY CommandServer DEF Base
<1>2. now \in Nat /\ now' = now /\ used' = used
  BY ServerAssumption DEF Base, ServerInv, ServerTypeOK, tmux
<1>3. IsFiniteSet(snaps') /\ IsFiniteSet(closes')
  BY FS_Subset DEF Base, RowsInv
<1>4. RowsInv'
  BY <1>2, <1>3 DEF Base, RowsInv
<1>5. (\A e \in snaps : SnapInv(e)') /\ (\A c \in closes : RowInv(c)')
  BY <1>1, <1>2, RowsStay
<1> QED
  BY <1>1, <1>4, <1>5 DEF Base

\* The row a save adds.
SavedRow == [id |-> nextId, ts |-> now, win |-> winOf, sess |-> sessOf, inc |-> inc]

\* What a save comes to: rows go, and one may be added while a server runs.
LEMMA SaveRows ==
    ASSUME Base, Save
    PROVE  /\ closes' \subseteq closes /\ UNCHANGED <<now, tmux, hooks, acts>>
           /\ \/ snaps' \subseteq snaps /\ UNCHANGED <<nextId, lastFP>>
              \/ /\ Running /\ Room /\ snaps' \subseteq snaps \cup {SavedRow}
                 /\ nextId' = nextId + 1 /\ lastFP' = {Structure}
<1>1. UNCHANGED <<now, tmux, hooks, acts>>
  BY DEF Save
<1>2. CASE /\ Running /\ Room /\ Pruned(snaps \cup {SavedRow}, closes)
           /\ nextId' = nextId + 1 /\ lastFP' = {Structure}
  BY <1>1, <1>2, PrunedRows
<1>3. CASE Pruned(snaps, closes) /\ UNCHANGED <<nextId, lastFP>>
  BY <1>1, <1>3, PrunedRows
<1> QED
  BY <1>2, <1>3 DEF Save, SavedRow

LEMMA SavedRowInv ==
    ASSUME Base, Running, NEW r, r = SavedRow
    PROVE  SnapInv(r) /\ r.id = nextId /\ r.ts = now /\ r.inc = inc /\ used # {}
<1>1. /\ ServerTypeOK /\ LivePanes \cup LiveWindows \cup LiveSessions \subseteq used /\ started <= now
  BY DEF Base, ServerInv
<1>2. r.win = winOf /\ r.sess = sessOf /\ r.id = nextId /\ r.ts = now /\ r.inc = inc
  BY DEF SavedRow
<1>3. SnapPanes(r) = LivePanes /\ SnapWindows(r) = LiveWindows /\ SnapSessions(r) = LiveSessions
  BY <1>2 DEF SnapPanes, SnapWindows, SnapSessions, LivePanes, LiveWindows, LiveSessions
<1>4. [win |-> r.win, sess |-> r.sess] \in Structures
  BY <1>1, <1>2 DEF Structures, ServerTypeOK
<1>5. r.inc \in 0..MaxInc /\ r.inc <= inc
  BY <1>1, <1>2, ServerAssumption DEF ServerTypeOK
<1> QED
  BY <1>1, <1>2, <1>3, <1>4, <1>5 DEF SnapInv, Running

LEMMA SaveBase ==
    ASSUME Base, Save
    PROVE  Base'
<1>1. CASE snaps' \subseteq snaps /\ UNCHANGED <<nextId, lastFP>>
  BY <1>1, SaveRows, DropBase DEF Base
<1>2. CASE /\ Running /\ Room /\ snaps' \subseteq snaps \cup {SavedRow}
           /\ nextId' = nextId + 1 /\ lastFP' = {Structure}
  <2>1. closes' \subseteq closes /\ UNCHANGED <<now, tmux, hooks, acts>>
    BY SaveRows
  <2>2. ServerInv' /\ Stays
    BY <2>1, CommandServer DEF Base
  <2>3. /\ now \in Nat /\ 0 < now /\ now' = now /\ used' = used
        /\ inc' = inc /\ started' = started
    BY <2>1, ServerAssumption DEF Base, ServerInv, ServerTypeOK, tmux
  <2>4. (\A e \in snaps : SnapInv(e)') /\ (\A c \in closes : RowInv(c)')
    BY <2>2, <2>3, RowsStay
  <2>5. PICK r : r = SavedRow
    OBVIOUS
  <2>6. SnapInv(r) /\ r.id = nextId /\ r.ts = now /\ r.inc = inc /\ used # {}
    BY <1>2, <2>5, SavedRowInv
  <2>7. \A e \in snaps' : SnapInv(e)'
    BY <1>2, <2>3, <2>4, <2>5, <2>6 DEF SnapInv
  <2>8. RowsInv'
    <3>1. IsFiniteSet(snaps \cup {r}) /\ IsFiniteSet(closes)
      BY FS_AddElement DEF Base, RowsInv
    <3>2. IsFiniteSet(snaps') /\ IsFiniteSet(closes')
      BY <1>2, <2>1, <2>5, <3>1, FS_Subset
    <3>3. nextId' \in 1..MaxSteps + 1 /\ nextId \in Nat /\ 0 < nextId
      BY <1>2, CloseAssumption DEF Base, RowsInv, Room
    <3>4. \A a \in snaps' \cup closes' : a = r \/ a \in snaps \cup closes
      BY <1>2, <2>1, <2>5
    <3>5. \A a \in snaps \cup closes : a.id # nextId
      BY <3>3 DEF Base, RowsInv
    <3>6. r \notin closes
      BY <2>6, <3>5
    <3> QED
      BY <1>2, <2>1, <2>3, <2>5, <2>6, <3>2, <3>3, <3>4, <3>5, <3>6 DEF Base, RowsInv
  <2>9. lastFP' \in SUBSET Structures /\ Cardinality(lastFP') <= 1
    <3>1. Structure \in Structures
      BY DEF Structure, Structures, Base, ServerInv, ServerTypeOK
    <3>2. Cardinality(lastFP') = 1
      BY <1>2, FS_Singleton
    <3> QED
      BY <1>2, <3>1, <3>2
  <2> QED
    BY <2>1, <2>2, <2>4, <2>7, <2>8, <2>9 DEF Base
<1> QED
  BY <1>1, <1>2, SaveRows
------------------------------------------------------------------------------
(* capture-event *)

\* The row a capture adds for a hook that was identified.
NewRow(i) ==
    [id |-> nextId, ts |-> now, hook |-> i, survivors |-> LiveSessions,
     resolved |-> ResolveAtCapture(i)]

\* The hook, with what it does not say.
Completed(h, p, w) == [h EXCEPT !.pane = p, !.win = w]

\* A hook that names no pane is taken for one of the candidates, seen last in
\* one window; else it is what it was.
LEMMA IdentifiedKinds ==
    ASSUME Base, NEW h \in hooks, NEW i \in Identified(h)
    PROVE  \/ i = h /\ ~(h.kind = "pane-died" /\ h.pane = None)
           \/ /\ h.kind = "pane-died" /\ h.pane = None
              /\ \E p \in KilledCandidates, w \in LiveWindows :
                    i = Completed(h, p, w) /\ KilledCandidates = {p} /\ LastSeenIn(p) = {w}
<1>0. Identified(h) =
        IF h.kind = "pane-died" /\ h.pane = None
          THEN UNION {{Completed(h, p, w) : w \in LastSeenIn(p)} :
                         p \in {q \in KilledCandidates : Cardinality(KilledCandidates) = 1}}
          ELSE {h}
  BY DEF Identified, Completed
<1>1. CASE ~(h.kind = "pane-died" /\ h.pane = None)
  BY <1>0, <1>1
<1>2. CASE h.kind = "pane-died" /\ h.pane = None
  <2>0. PICK p \in KilledCandidates :
            (\E w \in LastSeenIn(p) : i = Completed(h, p, w)) /\ Cardinality(KilledCandidates) = 1
    BY <1>0, <1>2
  <2>1. PICK w \in LastSeenIn(p) : i = Completed(h, p, w)
    BY <2>0
  <2>2. KilledCandidates = {p}
    <3>1. IsFiniteSet(KilledCandidates)
      BY ServerAssumption, FS_Subset DEF KilledCandidates
    <3> QED
      BY <2>0, <3>1, FS_Singleton
  <2>3. PICK v \in LastSeenIn(p) : v \in LiveWindows
    BY <2>2 DEF KilledCandidates
  <2>4. \A u, x \in LastSeenIn(p) : u = x
    <3> DEFINE F == {f \in RecentSnapshots : p \in SnapPanes(f)}
    <3>1. F \subseteq snaps
      BY DEF RecentSnapshots, Listed
    <3>2. \A a, b \in Latest(F) : a = b
      <4>1. \A a \in F : a.id \in Nat /\ a.ts \in Nat
        BY <3>1 DEF Base, RowsInv
      <4>2. \A a, b \in F : a.id = b.id => a = b
        BY <3>1 DEF Base, RowsInv
      <4> HIDE DEF F
      <4> QED
        BY <4>1, <4>2, LatestOne
    <3> HIDE DEF F
    <3>3. LastSeenIn(p) = {e.win[p] : e \in Latest(F)}
      BY DEF LastSeenIn, F
    <3> QED
      BY <3>2, <3>3
  <2>5. LastSeenIn(p) = {v} /\ w = v
    BY <2>1, <2>2, <2>3, <2>4
  <2> QED
    BY <1>2, <2>1, <2>2, <2>3, <2>5
<1> QED
  BY <1>1, <1>2

LEMMA IdentifiedOne ==
    ASSUME Base, NEW h \in hooks, NEW i \in Identified(h), NEW j \in Identified(h)
    PROVE  i = j
<1>1. CASE i = h /\ ~(h.kind = "pane-died" /\ h.pane = None)
  BY <1>1, IdentifiedKinds
<1>2. CASE h.kind = "pane-died" /\ h.pane = None
  <2>1. PICK p \in KilledCandidates, w \in LiveWindows :
          i = Completed(h, p, w) /\ KilledCandidates = {p} /\ LastSeenIn(p) = {w}
    BY <1>2, IdentifiedKinds
  <2>2. PICK q \in KilledCandidates, v \in LiveWindows :
          j = Completed(h, q, v) /\ KilledCandidates = {q} /\ LastSeenIn(q) = {v}
    BY <1>2, IdentifiedKinds
  <2>3. p = q /\ w = v
    BY <2>1, <2>2
  <2> QED
    BY <2>1, <2>2, <2>3
<1>3. \/ i = h /\ ~(h.kind = "pane-died" /\ h.pane = None)
      \/ h.kind = "pane-died" /\ h.pane = None
  BY IdentifiedKinds
<1> QED
  BY <1>1, <1>2, <1>3

\* What is known of the hook that is recorded.
LEMMA IdentifiedHook ==
    ASSUME Base, NEW h \in hooks, NEW i \in Identified(h)
    PROVE  /\ i \in Hooks /\ i.inc = inc /\ Spent(i)
           /\ i.kind = h.kind /\ i.took = h.took /\ i.cause = h.cause /\ i.sess = h.sess
           /\ i.kind = "pane-died" =>
                /\ i.pane \in Panes
                /\ i.pane # None
                /\ \/ i = h /\ DeadPane(i.pane) /\ i.sess # None
                   \/ i.pane \in KilledCandidates /\ i.sess = None
           /\ i.kind = "window-unlinked" => i = h /\ i.win \in used /\ i.win # None
           /\ i.kind = "session-closed" => i = h /\ DeadSession(i.sess) /\ i.sess # None
<1>1. HookInv(h) /\ h \in Hooks
  BY DEF Base, ServerInv, HookInv
<1>2. CASE ~(h.kind = "pane-died" /\ h.pane = None)
  <2>1. h.pane \in Panes \cup {None}
    BY <1>1 DEF Hooks
  <2>2. i = h
    BY <1>2, IdentifiedKinds
  <2>3. /\ h.inc = inc /\ Spent(h)
        /\ h.kind = "window-unlinked" => h.win \in used /\ h.win # None
        /\ h.kind = "session-closed" => DeadSession(h.sess) /\ h.sess # None
    BY <1>1 DEF HookInv
  <2>4. h.kind = "pane-died" =>
          h.pane \in Panes /\ h.pane # None /\ DeadPane(h.pane) /\ h.sess # None
    BY <1>1, <1>2, <2>1 DEF HookInv
  <2> QED
    BY <1>1, <2>2, <2>3, <2>4
<1>3. CASE h.kind = "pane-died" /\ h.pane = None
  <2>1. PICK p \in KilledCandidates, w \in LiveWindows : i = Completed(h, p, w)
    BY <1>3, IdentifiedKinds
  <2>2. p \in Panes /\ w \in Windows /\ p # None
    BY ServerAssumption DEF KilledCandidates, LiveWindows
  <2>3. /\ i \in Hooks /\ i.pane = p /\ i.inc = h.inc /\ i.kind = h.kind /\ i.took = h.took
        /\ i.cause = h.cause /\ i.sess = h.sess
    BY <1>1, <2>1, <2>2 DEF Hooks, Completed
  <2>4. h.sess = None
    <3>1. ~DeadPane(None)
      BY ServerAssumption DEF DeadPane, Base, ServerInv, ServerTypeOK
    <3> QED
      BY <1>1, <1>3, <3>1 DEF HookInv
  <2>5. i.inc = inc /\ Spent(i)
    BY <1>1, <2>3 DEF HookInv, Spent
  <2> QED
    BY <1>3, <2>1, <2>2, <2>3, <2>4, <2>5
<1> QED
  BY <1>2, <1>3

\* It is the hook itself, or that of a killed pane, which says no session.
LEMMA IdentifiedTold ==
    ASSUME Base, NEW h \in hooks, NEW i \in Identified(h)
    PROVE  i = h \/ (i.kind = "pane-died" /\ i.sess = None)
<1>1. CASE i = h /\ ~(h.kind = "pane-died" /\ h.pane = None)
  BY <1>1
<1>2. CASE h.kind = "pane-died" /\ h.pane = None
  <2>1. i.kind = h.kind /\ i.sess = h.sess /\ HookInv(h)
    BY IdentifiedHook DEF Base, ServerInv
  <2>2. ~DeadPane(None)
    BY ServerAssumption DEF DeadPane, Base, ServerInv, ServerTypeOK
  <2>3. h.sess = None
    BY <1>2, <2>1, <2>2 DEF HookInv
  <2> QED
    BY <1>2, <2>1, <2>3
<1>3. \/ i = h /\ ~(h.kind = "pane-died" /\ h.pane = None)
      \/ h.kind = "pane-died" /\ h.pane = None
  BY IdentifiedKinds
<1> QED
  BY <1>1, <1>2, <1>3

\* One capture adds one row or none.
LEMMA CaptureRows ==
    ASSUME Base, NEW h \in hooks, Capture(h)
    PROVE  /\ hooks' \subseteq hooks /\ UNCHANGED <<now, tmux, snaps, lastFP, acts>>
           /\ \/ closes' = closes /\ UNCHANGED nextId
              \/ \E i \in Identified(h) :
                    /\ Recorded(i) /\ Room /\ nextId' = nextId + 1
                    /\ closes' = (closes \ Superseded(i)) \cup {NewRow(i)}
<1> DEFINE taken == {i \in Identified(h) : Recorded(i)}
<1>1. /\ hooks' \subseteq hooks /\ UNCHANGED <<now, tmux, snaps, lastFP, acts>>
      /\ taken # {} => Room
      /\ closes' = (closes \ UNION {Superseded(i) : i \in taken}) \cup {NewRow(i) : i \in taken}
      /\ nextId' = nextId + Cardinality(taken)
  BY DEF Capture, NewRow
<1>2. CASE taken = {}
  <2>1. Cardinality(taken) = 0
    BY <1>2, FS_EmptySet
  <2>2. nextId' = nextId
    BY <1>1, <2>1 DEF Base, RowsInv
  <2>3. closes' = closes
    BY <1>1, <1>2
  <2> QED
    BY <1>1, <2>2, <2>3
<1>3. CASE taken # {}
  <2>1. PICK i \in taken : TRUE
    BY <1>3
  <2>2. taken = {i}
    BY <2>1, IdentifiedOne
  <2>3. Cardinality(taken) = 1
    BY <2>2, FS_Singleton
  <2>4. closes' = (closes \ Superseded(i)) \cup {NewRow(i)}
    BY <1>1, <2>2
  <2> QED
    BY <1>1, <1>3, <2>1, <2>3, <2>4
<1> QED
  BY <1>2, <1>3

\* What a capture embeds is read from one snapshot of this server, if it is
\* of any, and is the one entity the hook names.
LEMMA ResolvedKinds ==
    ASSUME NEW i, NEW r \in ResolveAtCapture(i)
    PROVE  /\ IdKeyed(i.kind)
           /\ \E e \in PreCloseSnapshot(i) : r \in FindClosed(e, i, {})
BY DEF ResolveAtCapture

LEMMA FindPane ==
    ASSUME NEW e, NEW h, NEW S, h.kind = "pane-died", NEW r \in FindClosed(e, h, S)
    PROVE  /\ h.pane \in SnapPanes(e)
           /\ r = Entity(e, {h.pane}, e.win[h.pane], e.sess[e.win[h.pane]])
<1>1. r \in FindClosedPane(e, h.pane)
  BY DEF FindClosed
<1> QED
  BY <1>1 DEF FindClosedPane

LEMMA FindWindow ==
    ASSUME NEW e, NEW h, NEW S, h.kind = "window-unlinked", NEW r \in FindClosed(e, h, S)
    PROVE  /\ h.win \in SnapWindows(e)
           /\ r = Entity(e, SnapPanesOf(e, h.win), h.win, e.sess[h.win])
<1>1. r \in FindClosedWindow(e, h.win)
  BY DEF FindClosed
<1> QED
  BY <1>1 DEF FindClosedWindow

LEMMA FindFrom ==
    ASSUME NEW e, NEW h, NEW S, IdKeyed(h.kind), NEW r \in FindClosed(e, h, S)
    PROVE  r.ts = e.ts /\ r.inc = e.inc
<1>1. CASE h.kind = "pane-died"
  <2>1. r = Entity(e, {h.pane}, e.win[h.pane], e.sess[e.win[h.pane]])
    BY <1>1, FindPane
  <2> QED
    BY <2>1 DEF Entity
<1>2. CASE h.kind = "window-unlinked"
  <2>1. r = Entity(e, SnapPanesOf(e, h.win), h.win, e.sess[h.win])
    BY <1>2, FindWindow
  <2> QED
    BY <2>1 DEF Entity
<1> QED
  BY <1>1, <1>2 DEF IdKeyed

LEMMA ResolvedOne ==
    ASSUME Base, NEW i
    PROVE  Cardinality(ResolveAtCapture(i)) <= 1
<1> SUFFICES ASSUME NEW r \in ResolveAtCapture(i), NEW q \in ResolveAtCapture(i)
             PROVE  r = q
  BY AtMostOne
<1> DEFINE F == {e \in RecentSnapshots : Holds(e, i)}
<1>1. PICK e \in PreCloseSnapshot(i) : r \in FindClosed(e, i, {})
  BY ResolvedKinds
<1>2. PICK f \in PreCloseSnapshot(i) : q \in FindClosed(f, i, {})
  BY ResolvedKinds
<1>3. e = f
  <2>1. F \subseteq snaps
    BY DEF RecentSnapshots, Listed
  <2>2. (\A a \in F : a.id \in Nat /\ a.ts \in Nat) /\ (\A a, b \in F : a.id = b.id => a = b)
    BY <2>1 DEF Base, RowsInv
  <2>3. e \in Latest(F) /\ f \in Latest(F)
    BY DEF PreCloseSnapshot
  <2> HIDE DEF F
  <2> QED
    BY <2>2, <2>3, LatestOne
<1>4. IdKeyed(i.kind) /\ r \in FindClosed(e, i, {}) /\ q \in FindClosed(e, i, {})
  BY <1>1, <1>2, <1>3, ResolvedKinds
<1>5. CASE i.kind = "pane-died"
  <2> DEFINE x == Entity(e, {i.pane}, e.win[i.pane], e.sess[e.win[i.pane]])
  <2>1. r = x
    BY <1>4, <1>5, FindPane
  <2>2. q = x
    BY <1>4, <1>5, FindPane
  <2> QED
    BY <2>1, <2>2
<1>6. CASE i.kind = "window-unlinked"
  <2> DEFINE x == Entity(e, SnapPanesOf(e, i.win), i.win, e.sess[i.win])
  <2>1. r = x
    BY <1>4, <1>6, FindWindow
  <2>2. q = x
    BY <1>4, <1>6, FindWindow
  <2> QED
    BY <2>1, <2>2
<1> QED
  BY <1>4, <1>5, <1>6 DEF IdKeyed

\* It embeds something when a snapshot of this server holds the entity.
LEMMA ResolvedSome ==
    ASSUME Base, NEW i, IdKeyed(i.kind), NEW f \in RecentSnapshots, Holds(f, i)
    PROVE  ResolveAtCapture(i) # {}
<1> DEFINE F == {e \in RecentSnapshots : Holds(e, i)}
<1>1. F \subseteq snaps /\ F # {}
  BY DEF RecentSnapshots, Listed
<1>2. \A e \in F : e.ts \in Nat /\ e.ts <= now /\ e.id \in Nat /\ e.id <= nextId
  BY <1>1 DEF Base, RowsInv
<1>3. now \in Nat /\ nextId \in Nat
  BY ServerAssumption, CloseAssumption DEF Base, ServerInv, ServerTypeOK, RowsInv
<1>4. Latest(F) # {}
  <2> HIDE DEF F
  <2> QED
    BY <1>1, <1>2, <1>3, LatestSome
<1>5. PICK e \in PreCloseSnapshot(i) : Holds(e, i)
  BY <1>4 DEF PreCloseSnapshot, Latest
<1>6. FindClosed(e, i, {}) # {}
  <2>1. CASE i.kind = "pane-died"
    BY <1>5, <2>1 DEF FindClosed, FindClosedPane, Holds
  <2>2. CASE i.kind = "window-unlinked"
    BY <1>5, <2>2 DEF FindClosed, FindClosedWindow, Holds
  <2> QED
    BY <2>1, <2>2 DEF IdKeyed
<1> QED
  BY <1>6 DEF ResolveAtCapture

LEMMA CaptureBase ==
    ASSUME Base, NEW h \in hooks, Capture(h)
    PROVE  Base'
<1>1. hooks' \subseteq hooks /\ UNCHANGED <<now, tmux, snaps, lastFP, acts>>
  BY CaptureRows
<1>2. CASE closes' = closes /\ UNCHANGED nextId
  BY <1>1, <1>2, DropBase DEF Base
<1>3. CASE \E i \in Identified(h) :
              /\ Recorded(i) /\ Room /\ nextId' = nextId + 1
              /\ closes' = (closes \ Superseded(i)) \cup {NewRow(i)}
  <2>1. PICK i \in Identified(h) :
              /\ Recorded(i) /\ Room /\ nextId' = nextId + 1
              /\ closes' = (closes \ Superseded(i)) \cup {NewRow(i)}
    BY <1>3
  <2>2. PICK n : n = NewRow(i)
    OBVIOUS
  <2>3. /\ n.id = nextId /\ n.ts = now /\ n.hook = i /\ n.survivors = LiveSessions
        /\ n.resolved = ResolveAtCapture(i)
    BY <2>2 DEF NewRow
  <2>4. ServerInv' /\ Stays
    BY <1>1, CommandServer DEF Base
  <2>5. /\ now \in Nat /\ 0 < now /\ now' = now /\ used' = used
        /\ inc' = inc /\ started' = started /\ started <= now /\ inc \in Nat
    BY <1>1, ServerAssumption DEF Base, ServerInv, ServerTypeOK, tmux
  <2>6. (\A e \in snaps : SnapInv(e)') /\ (\A c \in closes : RowInv(c)')
    BY <2>4, <2>5, RowsStay
  <2>7. RowInv(n)'
    <3>1. LiveSessions \subseteq Sessions
      BY DEF LiveSessions, LiveWindows, Base, ServerInv, ServerTypeOK
    <3>2. Spent(i)'
      BY <2>4, IdentifiedHook, SpentStays
    <3>3. Cardinality(n.resolved) <= 1
      BY <2>3, ResolvedOne
    <3> QED
      BY <2>3, <2>5, <3>1, <3>2, <3>3, IdentifiedHook DEF RowInv
  <2>8. RowsInv'
    <3>1. IsFiniteSet(closes \cup {n}) /\ IsFiniteSet(snaps)
      BY FS_AddElement DEF Base, RowsInv
    <3>2. IsFiniteSet(closes') /\ IsFiniteSet(snaps')
      BY <1>1, <2>1, <2>2, <3>1, FS_Subset
    <3>3. nextId' \in 1..MaxSteps + 1 /\ nextId \in Nat /\ 0 < nextId
      BY <2>1, CloseAssumption DEF Base, RowsInv, Room
    <3>4. \A a \in snaps' \cup closes' : a = n \/ a \in snaps \cup closes
      BY <1>1, <2>1, <2>2
    <3>5. \A a \in snaps \cup closes : a.id # nextId
      BY <3>3 DEF Base, RowsInv
    <3>6. n \notin snaps
      BY <2>3, <3>5
    <3>7. used # {}
      BY DEF Base, ServerInv
    <3> QED
      BY <1>1, <2>1, <2>2, <2>3, <2>5, <3>2, <3>3, <3>4, <3>5, <3>6, <3>7 DEF Base, RowsInv
  <2>9. \A c \in closes' : RowInv(c)'
    BY <2>1, <2>2, <2>6, <2>7
  <2> QED
    BY <1>1, <2>4, <2>6, <2>8, <2>9 DEF Base
<1> QED
  BY <1>2, <1>3, CaptureRows

\* What undo and the prune command come to: rows of closes go, and snapshots
\* with a prune.
LEMMA OtherRows ==
    ASSUME Base, PruneCmd \/ (\E s \in Sessions \cup {None} : Undo(s)) \/ UNCHANGED vars
    PROVE  /\ snaps' \subseteq snaps /\ closes' \subseteq closes /\ acts' \in 0..MaxSteps
           /\ UNCHANGED <<now, tmux, hooks, nextId, lastFP>>
<1>1. CASE PruneCmd
  <2>1. PICK kept \in NewestByTs(closes, CloseKeep) : Pruned(snaps, kept)
    BY <1>1 DEF PruneCmd
  <2>2. kept \subseteq closes
    BY DEF NewestByTs
  <2> QED
    BY <1>1, <2>1, <2>2, PrunedRows DEF PruneCmd, Base
<1>2. CASE \E s \in Sessions \cup {None} : Undo(s)
  BY <1>2, CloseAssumption DEF Undo, Room, Base, RowsInv
<1>3. CASE UNCHANGED vars
  BY <1>3 DEF vars, Base, tmux
<1> QED
  BY <1>1, <1>2, <1>3

LEMMA NextBase == Base /\ [Next]_vars => Base'
<1> SUFFICES ASSUME Base, [Next]_vars PROVE Base'
  OBVIOUS
<1>1. CASE PruneCmd \/ (\E s \in Sessions \cup {None} : Undo(s)) \/ UNCHANGED vars
  BY <1>1, OtherRows, DropBase
<1> QED
  BY <1>1, ServerBase, SaveBase, CaptureBase DEF Next

LEMMA BaseHolds == Spec => []Base
<1>1. Init => Base
  <2> SUFFICES ASSUME Init PROVE Base
    OBVIOUS
  <2>1. snaps = {} /\ closes = {} /\ nextId = 1 /\ lastFP = {} /\ acts = 0 /\ used = {}
    BY DEF Init, ServerInit
  <2> QED
    BY <2>1, InitServer, FS_EmptySet, CloseAssumption DEF Base, RowsInv
<1> QED
  BY <1>1, NextBase, PTL DEF Spec

\* Ids, times and structures stay in their ranges, no two rows have one id and
\* no close embeds two entities, in whatever order closes, captures, saves,
\* prunes and undo come.
THEOREM TypeCorrect == Spec => []TypeOK
<1> QED
  BY BaseHolds, BaseTypes, PTL
------------------------------------------------------------------------------
(* A pane's death is found by elimination once *)

LEMMA StartTimeBefore ==
    ASSUME Base
    PROVE  ServerStarted <= started
<1>1. Second \in Nat \ {0} /\ started \in Nat
  BY ClockAssumption, ServerAssumption DEF Base, ServerInv, ServerTypeOK
<1>2. (started \div Second) * Second <= started
  <2>1. started \div Second \in Int /\ Second * (started \div Second) <= started
    BY <1>1
  <2>2. (started \div Second) * Second = Second * (started \div Second)
    BY <1>1, <2>1
  <2> QED
    BY <1>1, <2>1, <2>2
<1> QED
  BY <1>1, <1>2 DEF ServerStarted, ServerStartTime

LEMMA EliminatedStep ==
    ASSUME Base, EliminatedOnce, [Next]_vars
    PROVE  EliminatedOnce'
<1>1. ASSUME closes' \subseteq closes PROVE EliminatedOnce'
  BY <1>1 DEF EliminatedOnce, OfKind
<1>2. ASSUME NEW h \in hooks, Capture(h) PROVE EliminatedOnce'
  <2>1. CASE closes' = closes
    BY <1>1, <2>1
  <2>2. CASE \E i \in Identified(h) : closes' = (closes \ Superseded(i)) \cup {NewRow(i)}
    <3>1. PICK i \in Identified(h) : closes' = (closes \ Superseded(i)) \cup {NewRow(i)}
      BY <2>2
    <3>2. PICK n : n = NewRow(i)
      OBVIOUS
    <3>3. n.id = nextId /\ n.hook = i /\ nextId \in Int
      BY <3>2 DEF NewRow, Base, RowsInv
    <3>4. ASSUME NEW c \in OfKind({"pane-died"}), i.kind = "pane-died",
                 c.hook.pane = i.pane, c.hook.inc = i.inc
          PROVE  i.sess # None
      <4>1. i.inc = inc /\ c \in closes /\ c.hook.kind = "pane-died"
        BY <3>4, IdentifiedHook DEF OfKind
      <4>2. c.ts >= started /\ c.ts \in Int /\ started \in Int
        BY <3>4, <4>1, ServerAssumption DEF Base, RowInv, RowsInv, ServerInv, ServerTypeOK
      <4>3. ServerStarted \in Int
        BY <4>2, ClockAssumption DEF ServerStarted, ServerStartTime
      <4>4. c.ts >= ServerStarted
        BY <4>2, <4>3, StartTimeBefore
      <4>5. c.hook.pane \in RecordedPaneDeaths
        BY <3>4, <4>4 DEF RecordedPaneDeaths
      <4>6. i.pane \notin KilledCandidates
        BY <3>4, <4>5 DEF KilledCandidates
      <4> QED
        BY <3>4, <4>6, IdentifiedHook
    <3>5. \A c \in closes : c.id < nextId
      BY DEF Base, RowsInv
    <3> SUFFICES ASSUME NEW c \in closes', NEW d \in closes',
                        c.hook.kind = "pane-died", d.hook.kind = "pane-died",
                        c.hook.pane = d.hook.pane, c.hook.inc = d.hook.inc, c.id < d.id
                 PROVE  d.hook.sess # None
      BY DEF EliminatedOnce, OfKind
    <3>6. c # n
      <4>1. d = n \/ d \in closes
        BY <3>1, <3>2
      <4>2. d.id <= nextId /\ d.id \in Int
        BY <3>3, <4>1 DEF Base, RowsInv
      <4> QED
        BY <3>3, <4>2
    <3>7. c \in closes /\ c \in OfKind({"pane-died"})
      BY <3>1, <3>2, <3>6 DEF OfKind
    <3>8. CASE d = n
      BY <3>3, <3>4, <3>7, <3>8
    <3>9. CASE d # n
      BY <3>1, <3>2, <3>7, <3>9 DEF EliminatedOnce, OfKind
    <3> QED
      BY <3>8, <3>9
  <2> QED
    BY <1>2, <2>1, <2>2, CaptureRows
<1>3. CASE Outside
  BY <1>1, <1>3 DEF Outside
<1>4. CASE Save
  BY <1>1, <1>4, SaveRows
<1>5. CASE PruneCmd \/ (\E s \in Sessions \cup {None} : Undo(s)) \/ UNCHANGED vars
  BY <1>1, <1>5, OtherRows
<1> QED
  BY <1>2, <1>3, <1>4, <1>5 DEF Next

\* capture.go:329-331: the death of a pane that has a row is never found again
\* by elimination, on any server and whatever the resolution of its start time.
THEOREM EliminatedOnceCorrect == Spec => []EliminatedOnce
<1>1. Init => EliminatedOnce
  BY DEF Init, EliminatedOnce, OfKind
<1> QED
  BY <1>1, EliminatedStep, BaseHolds, PTL DEF Spec
------------------------------------------------------------------------------
(* What a row lists is closed *)

\* The entity a row names is gone for good, or it is a pane that this server
\* has not given out when the row was written: found by elimination in a
\* snapshot of the second this server started, taken of the one before.
Buried(c) ==
    /\ c.hook.kind = "pane-died" =>
         \/ DeadPane(c.hook.pane)
         \/ /\ \A e \in snaps : e.inc = inc /\ e.ts < c.ts => c.hook.pane \notin SnapPanes(e)
            /\ \A r \in c.resolved : r.inc # inc
            /\ c.resolved # {}
    /\ c.hook.kind = "window-unlinked" => DeadWindow(c.hook.win)
    /\ c.hook.kind = "session-closed" => DeadSession(c.hook.sess)
    /\ c.hook.kind = "session-closed" =>
         \A e \in snaps : e.inc = inc /\ e.ts < c.ts =>
            \A t \in SnapSessions(e) \ c.survivors : DeadSession(t)

\* What is embedded is the entity the hook names, and was there for it.
Embedded(c) ==
    \A r \in c.resolved :
        /\ IdKeyed(c.hook.kind)
        /\ c.hook.kind = "pane-died" => r.panes = {c.hook.pane}
        /\ c.hook.kind = "window-unlinked" => r.win = c.hook.win
        /\ c.survivors # {} /\ c.hook.inc = inc => r.ts >= ServerStartTime(started)

ClosedInv == \A c \in closes : Embedded(c) /\ (c.hook.inc = inc => Buried(c))

\* A row stays so while no snapshot is added from before it.
LEMMA BuriedStays ==
    ASSUME Base, NEW c \in closes, c.hook.inc = inc => Buried(c), Embedded(c), Stays \/ Anew,
           \A e \in snaps' \ snaps : e.ts >= c.ts /\ e.ts \in Int
    PROVE  Embedded(c)' /\ (c.hook.inc = inc' => Buried(c)')
<1>1. /\ c.hook.inc \in Nat /\ inc \in Nat /\ c.hook.inc <= inc /\ used # {} /\ c.ts \in Int
  BY ServerAssumption DEF Base, RowInv, Hooks, RowsInv, ServerInv, ServerTypeOK
<1>2. CASE Anew
  <2>1. c.hook.inc # inc'
    BY <1>1, <1>2 DEF Anew
  <2> QED
    BY <2>1, ClockAssumption DEF Embedded
<1>3. CASE Stays
  <2>1. inc' = inc /\ started' = started
    BY <1>1, <1>3 DEF Stays
  <2>2. Embedded(c)'
    BY <2>1 DEF Embedded
  <2>3. ASSUME c.hook.inc = inc PROVE Buried(c)'
    <3>1. Buried(c)
      BY <2>3
    <3>2. \A e \in snaps' : e.ts < c.ts => e \in snaps
      BY <1>1
    <3>3. c.hook.kind = "pane-died" =>
            (\/ DeadPane(c.hook.pane)
             \/ /\ \A e \in snaps : e.inc = inc /\ e.ts < c.ts => c.hook.pane \notin SnapPanes(e)
                /\ \A r \in c.resolved : r.inc # inc
                /\ c.resolved # {})'
      BY <1>3, <2>1, <3>1, <3>2 DEF Buried, Stays, DeadPane, SnapPanes
    <3>4. /\ c.hook.kind = "window-unlinked" => DeadWindow(c.hook.win)'
          /\ c.hook.kind = "session-closed" => DeadSession(c.hook.sess)'
      BY <1>3, <3>1 DEF Buried, Stays, DeadWindow, DeadSession
    <3>5. c.hook.kind = "session-closed" =>
            (\A e \in snaps : e.inc = inc /\ e.ts < c.ts =>
                \A t \in SnapSessions(e) \ c.survivors : DeadSession(t))'
      BY <1>3, <2>1, <3>1, <3>2 DEF Buried, Stays, DeadSession, SnapSessions, SnapWindows
    <3> QED
      BY <3>3, <3>4, <3>5 DEF Buried
  <2> QED
    BY <2>1, <2>2, <2>3
<1> QED
  BY <1>2, <1>3

\* A session survives a capture only while a server runs.
LEMMA SurvivorsRun == ASSUME Base, LiveSessions # {} PROVE Running
<1>1. PICK w \in LiveWindows : TRUE
  BY DEF LiveSessions
<1>2. PanesOf(w) # {} /\ w # None
  BY ServerAssumption DEF LiveWindows, Base, ServerInv, ServerTypeOK
<1> QED
  BY <1>2 DEF PanesOf, LivePanes, Running

LEMMA NewBuried ==
    ASSUME Base, NEW h \in hooks, NEW i \in Identified(h), Recorded(i),
           NEW n, n = NewRow(i)
    PROVE  Embedded(n) /\ Buried(n)
<1>1. n.hook = i /\ n.ts = now /\ n.survivors = LiveSessions /\ n.resolved = ResolveAtCapture(i)
  BY DEF NewRow
<1>2. ASSUME NEW r \in n.resolved
      PROVE  \E e \in snaps : /\ IdKeyed(i.kind) /\ r \in FindClosed(e, i, {}) /\ r.ts = e.ts /\ r.inc = e.inc
                              /\ ServerStarted = 0 \/ e.ts >= ServerStarted
  <2>1. PICK e \in PreCloseSnapshot(i) : r \in FindClosed(e, i, {})
    BY <1>1, <1>2, ResolvedKinds
  <2>2. IdKeyed(i.kind)
    BY <1>1, <1>2, ResolvedKinds
  <2>3. e \in RecentSnapshots
    BY DEF PreCloseSnapshot, Latest
  <2>4. r.ts = e.ts /\ r.inc = e.inc
    BY <2>1, <2>2, FindFrom
  <2>5. e \in snaps /\ (ServerStarted = 0 \/ e.ts >= ServerStarted)
    BY <2>3 DEF RecentSnapshots, Listed
  <2> QED
    BY <2>1, <2>2, <2>4, <2>5
<1>3. Embedded(n)
  <2> SUFFICES ASSUME NEW r \in n.resolved
               PROVE  /\ IdKeyed(i.kind)
                      /\ i.kind = "pane-died" => r.panes = {i.pane}
                      /\ i.kind = "window-unlinked" => r.win = i.win
                      /\ n.survivors # {} => r.ts >= ServerStartTime(started)
    BY <1>1 DEF Embedded
  <2>1. PICK e \in snaps : /\ IdKeyed(i.kind) /\ r \in FindClosed(e, i, {}) /\ r.ts = e.ts
                           /\ ServerStarted = 0 \/ e.ts >= ServerStarted
    BY <1>2
  <2>2. e.ts \in Nat
    BY DEF Base, RowsInv
  <2>3. n.survivors # {} => ServerStarted = ServerStartTime(started)
    BY <1>1, SurvivorsRun DEF ServerStarted
  <2>4. i.kind = "pane-died" => r.panes = {i.pane}
    BY <2>1, FindPane DEF Entity
  <2>5. i.kind = "window-unlinked" => r.win = i.win
    BY <2>1, FindWindow DEF Entity
  <2>6. ServerStarted = 0 => e.ts >= ServerStarted
    BY <2>2
  <2> QED
    BY <2>1, <2>3, <2>4, <2>5, <2>6
<1>4. \A e \in snaps : e.inc = inc => SnapPanes(e) \subseteq used /\ SnapSessions(e) \subseteq used
  BY DEF Base, SnapInv
<1>5. i.kind = "pane-died" =>
        \/ DeadPane(i.pane)
        \/ /\ \A e \in snaps : e.inc = inc /\ e.ts < n.ts => i.pane \notin SnapPanes(e)
           /\ \A r \in n.resolved : r.inc # inc
           /\ n.resolved # {}
  <2> SUFFICES ASSUME i.kind = "pane-died", ~DeadPane(i.pane)
               PROVE  /\ \A e \in snaps : e.inc = inc => i.pane \notin SnapPanes(e)
                      /\ \A r \in n.resolved : r.inc # inc
                      /\ n.resolved # {}
    OBVIOUS
  <2>1. i.pane \notin LivePanes
    BY DEF Recorded, EntityStillLive
  <2>2. i.pane \notin used
    BY <2>1 DEF DeadPane
  <2>3. \A e \in snaps : e.inc = inc => i.pane \notin SnapPanes(e)
    BY <1>4, <2>2
  <2>4. \A r \in n.resolved : r.inc # inc
    BY <1>2, <2>3, FindPane, FindFrom
  <2>5. PICK f \in RecentSnapshots : i.pane \in SnapPanes(f)
    <3>1. i.pane \in KilledCandidates
      BY IdentifiedHook
    <3>2. LastSeenIn(i.pane) # {}
      BY <3>1 DEF KilledCandidates
    <3> QED
      BY <3>2 DEF LastSeenIn, Latest
  <2>6. n.resolved # {}
    <3>1. Holds(f, i)
      BY <2>5 DEF Holds
    <3>2. IdKeyed(i.kind)
      BY DEF IdKeyed
    <3> QED
      BY <1>1, <3>1, <3>2, ResolvedSome
  <2> QED
    BY <2>3, <2>4, <2>6
<1>6. /\ i.kind = "window-unlinked" => DeadWindow(i.win)
      /\ i.kind = "session-closed" => DeadSession(i.sess)
  BY IdentifiedHook DEF Recorded, EntityStillLive, DeadWindow
<1>7. \A e \in snaps : e.inc = inc => \A t \in SnapSessions(e) \ n.survivors : DeadSession(t)
  BY <1>1, <1>4 DEF DeadSession
<1>8. Buried(n)
  BY <1>1, <1>5, <1>6, <1>7 DEF Buried
<1> QED
  BY <1>3, <1>8

LEMMA ClosedStep ==
    ASSUME Base, ClosedInv, [Next]_vars
    PROVE  ClosedInv'
<1>0. \A c \in closes : c.ts \in Int /\ c.ts <= now
  BY DEF Base, RowsInv
<1>1. ASSUME closes' \subseteq closes, Stays \/ Anew, \A e \in snaps' \ snaps : e.ts = now /\ now \in Int
      PROVE  ClosedInv'
  <2> SUFFICES ASSUME NEW c \in closes PROVE Embedded(c)' /\ (c.hook.inc = inc' => Buried(c)')
    BY <1>1 DEF ClosedInv
  <2> QED
    BY <1>0, <1>1, BuriedStays DEF ClosedInv
<1>2. CASE Outside
  BY <1>1, <1>2, ServerSteps DEF Base, Outside
<1>3. CASE Save
  <2>1. closes' \subseteq closes /\ Stays
    BY <1>3, SaveRows, CommandServer DEF Base
  <2>2. \A e \in snaps' \ snaps : e.ts = now
    BY <1>3, SaveRows DEF SavedRow
  <2>3. now \in Int
    BY ServerAssumption DEF Base, ServerInv, ServerTypeOK
  <2> QED
    BY <1>1, <2>1, <2>2, <2>3
<1>4. CASE PruneCmd \/ (\E s \in Sessions \cup {None} : Undo(s)) \/ UNCHANGED vars
  BY <1>1, <1>4, OtherRows, CommandServer DEF Base
<1>5. ASSUME NEW h \in hooks, Capture(h) PROVE ClosedInv'
  <2>1. Stays /\ UNCHANGED <<snaps, inc, started, now, winOf, sessOf, used>>
    BY <1>5, CaptureRows, CommandServer DEF Base, tmux
  <2>2. CASE closes' = closes
    BY <1>1, <2>1, <2>2
  <2>3. CASE \E i \in Identified(h) : Recorded(i) /\ closes' = (closes \ Superseded(i)) \cup {NewRow(i)}
    <3>1. PICK i \in Identified(h) : Recorded(i) /\ closes' = (closes \ Superseded(i)) \cup {NewRow(i)}
      BY <2>3
    <3>2. PICK n : n = NewRow(i)
      OBVIOUS
    <3>3. Embedded(n) /\ Buried(n)
      BY <3>1, <3>2, NewBuried
    <3>4. Embedded(n)' /\ Buried(n)'
      BY <2>1, <3>3
         DEF Embedded, Buried, DeadPane, DeadWindow, DeadSession, LivePanes, LiveWindows, LiveSessions
    <3>5. \A c \in closes : Embedded(c)' /\ (c.hook.inc = inc' => Buried(c)')
      BY <1>0, <2>1, BuriedStays DEF ClosedInv
    <3> QED
      BY <3>1, <3>2, <3>4, <3>5 DEF ClosedInv
  <2> QED
    BY <1>5, <2>2, <2>3, CaptureRows
<1> QED
  BY <1>2, <1>3, <1>4, <1>5 DEF Next

LEMMA ClosedHolds == Spec => []ClosedInv
<1>1. Init => ClosedInv
  BY DEF Init, ClosedInv
<1> QED
  BY <1>1, ClosedStep, BaseHolds, PTL DEF Spec

\* What a row resolves to is what it embeds, or was read in a snapshot from
\* before it.
LEMMA ResolveKinds ==
    ASSUME NEW c, NEW r \in Resolve(c)
    PROVE  \/ r \in c.resolved
           \/ \E e \in snaps : /\ e.ts < c.ts /\ r \in FindClosed(e, c.hook, c.survivors)
                               /\ ~(ServerStarted > 0 /\ IdKeyed(c.hook.kind) /\ e.ts < ServerStarted)
<1>1. CASE r \in c.resolved
  BY <1>1
<1>2. CASE r \notin c.resolved
  <2>1. PICK e \in PriorSnapshot(c) : r \in FindClosed(e, c.hook, c.survivors)
    BY <1>2 DEF Resolve
  <2>2. e \in snaps /\ e.ts < c.ts
        /\ ~(ServerStarted > 0 /\ IdKeyed(c.hook.kind) /\ e.ts < ServerStarted)
    BY DEF PriorSnapshot, LatestSnapshotBefore, Latest
  <2> QED
    BY <2>1, <2>2
<1> QED
  BY <1>1, <1>2

\* A session is found by its name or as the only one that went.
LEMMA FindSession ==
    ASSUME NEW e, NEW h, NEW S, h.kind = "session-closed", NEW r \in FindClosed(e, h, S)
    PROVE  /\ r.win = None /\ r.ts = e.ts /\ r.inc = e.inc
           /\ r.sess \in SnapSessions(e) \ S
<1> DEFINE missing == SnapSessions(e) \ S
           found == IF h.sess \in missing THEN {h.sess} ELSE IF Cardinality(missing) = 1 THEN missing ELSE {}
           all(t) == UNION {SnapPanesOf(e, w) : w \in {v \in Windows : e.sess[v] = t}}
<1>1. r \in FindClosedSession(e, h.sess, S)
  BY DEF FindClosed
<1>2. r \in {Entity(e, all(t), None, t) : t \in found}
  BY <1>1 DEF FindClosedSession
<1>3. found \subseteq missing
  OBVIOUS
<1> HIDE DEF missing, found, all
<1>4. PICK t \in missing : r = Entity(e, all(t), None, t)
  BY <1>2, <1>3
<1> QED
  BY <1>4 DEF Entity, missing

LEMMA ListedFromInv ==
    ASSUME Base, ClosedInv
    PROVE  OnlyClosedPanesListed
<1> SUFFICES ASSUME NEW c \in closes, c.hook.inc = inc, NEW r \in Resolve(c), r.inc = inc,
                    NEW p \in r.panes \cap LivePanes
             PROVE  IF r.win = None THEN sessOf[winOf[p]] # r.sess ELSE winOf[p] # r.win
  BY DEF OnlyClosedPanesListed
<1>1. Embedded(c) /\ Buried(c) /\ c.hook \in Hooks
  BY DEF ClosedInv, Base, RowInv
<1>2. winOf[p] \in LiveWindows /\ sessOf[winOf[p]] \in LiveSessions
  BY DEF Base, ServerInv, ServerTypeOK, LiveSessions
<1>3. c.hook.kind \in {"pane-died", "window-unlinked", "session-closed"} /\ c.hook.win \in Windows \cup {None}
  BY <1>1 DEF Hooks
<1>4. CASE c.hook.kind = "pane-died"
  <2>1. r.panes = {c.hook.pane}
    <3>1. CASE r \in c.resolved
      BY <1>1, <1>4, <3>1 DEF Embedded
    <3>2. CASE r \notin c.resolved
      <4>1. PICK e \in snaps : r \in FindClosed(e, c.hook, c.survivors)
        BY <3>2, ResolveKinds
      <4> QED
        BY <1>4, <4>1, FindPane DEF Entity
    <3> QED
      BY <3>1, <3>2
  <2>2. ~DeadPane(c.hook.pane)
    BY <2>1 DEF DeadPane
  <2>3. r \notin c.resolved /\ \A e \in snaps : e.inc = inc /\ e.ts < c.ts => c.hook.pane \notin SnapPanes(e)
    BY <1>1, <1>4, <2>2 DEF Buried
  <2>4. PICK e \in snaps : e.ts < c.ts /\ r \in FindClosed(e, c.hook, c.survivors)
    BY <2>3, ResolveKinds
  <2>5. IdKeyed(c.hook.kind)
    BY <1>4 DEF IdKeyed
  <2>6. e.inc = inc
    BY <2>4, <2>5, FindFrom
  <2>7. c.hook.pane \in SnapPanes(e)
    BY <1>4, <2>4, FindPane
  <2> QED
    BY <2>3, <2>4, <2>6, <2>7
<1>5. CASE c.hook.kind = "window-unlinked"
  <2>1. r.win = c.hook.win
    <3>1. CASE r \in c.resolved
      BY <1>1, <1>5, <3>1 DEF Embedded
    <3>2. CASE r \notin c.resolved
      <4>1. PICK e \in snaps : r \in FindClosed(e, c.hook, c.survivors)
        BY <3>2, ResolveKinds
      <4> QED
        BY <1>5, <4>1, FindWindow DEF Entity
    <3> QED
      BY <3>1, <3>2
  <2>2. c.hook.win \notin LiveWindows /\ c.hook.win # None
    BY <1>1, <1>5 DEF Buried, DeadWindow, Base, RowInv
  <2> QED
    BY <1>2, <2>1, <2>2
<1>6. CASE c.hook.kind = "session-closed"
  <2>1. r \notin c.resolved
    BY <1>1, <1>6 DEF Embedded, IdKeyed
  <2>2. PICK e \in snaps : e.ts < c.ts /\ r \in FindClosed(e, c.hook, c.survivors)
    BY <2>1, ResolveKinds
  <2>3. r.win = None /\ e.inc = inc /\ r.sess \in SnapSessions(e) \ c.survivors
    BY <1>6, <2>2, FindSession
  <2>4. r.sess \notin LiveSessions
    BY <1>1, <1>6, <2>2, <2>3 DEF Buried, DeadSession
  <2> QED
    BY <1>2, <2>3, <2>4
<1> QED
  BY <1>3, <1>4, <1>5, <1>6

\* README.md:181: what a row of this server lists is closed and stays so, for
\* every order of closes, captures and saves, after undo and prunes.
THEOREM OnlyClosedPanesListedCorrect == Spec => []OnlyClosedPanesListed
<1> QED
  BY BaseHolds, ClosedHolds, ListedFromInv, PTL

\* main.go:498-508: an entity found by id is from the server that ran, however
\* often it was restarted, to the second tmux reports its start in.
THEOREM OwnServersEntityCorrect == Spec => []OwnServersEntity
<1>1. ASSUME Base, ClosedInv
      PROVE  OwnServersEntity
  <2> SUFFICES ASSUME Running, NEW c \in closes, IdKeyed(c.hook.kind), c.survivors # {},
                      NEW r \in Resolve(c) \cup c.resolved, c.hook.inc = inc \/ r \notin c.resolved
               PROVE  r.ts >= ServerStartTime(started)
    BY DEF OwnServersEntity
  <2>1. CASE r \in c.resolved
    BY <1>1, <2>1 DEF ClosedInv, Embedded
  <2>2. CASE r \notin c.resolved
    <3>1. PICK e \in snaps : /\ r \in FindClosed(e, c.hook, c.survivors)
                             /\ ~(ServerStarted > 0 /\ e.ts < ServerStarted)
      BY <2>2, ResolveKinds
    <3>2. r.ts = e.ts /\ e.ts \in Nat
      <4>1. r.ts = e.ts
        BY <3>1, FindFrom
      <4>2. e.ts \in Nat
        BY <1>1 DEF Base, RowsInv
      <4> QED
        BY <4>1, <4>2
    <3>3. ServerStarted = ServerStartTime(started)
      BY DEF ServerStarted
    <3>4. ServerStarted \in Int
      BY <1>1, <3>3, ClockAssumption, ServerAssumption DEF ServerStartTime, Base, ServerInv, ServerTypeOK
    <3> QED
      BY <3>1, <3>2, <3>3, <3>4
  <2> QED
    BY <2>1, <2>2
<1> QED
  BY <1>1, BaseHolds, ClosedHolds, PTL
------------------------------------------------------------------------------
(* One closure, one row *)

\* The scans of a capture reach what is inside the dedup window: at most 5
\* outer rows of a kind, and 50 inner ones, are that young (capture.go:86,
\* 167).  With more, older ones of the same cascade are not looked at.
ScansReach ==
    /\ \A kind \in {"session-closed", "window-unlinked"} :
          /\ Fresh(OfKind({kind})) \subseteq Listed(OfKind({kind}), OuterScan)
          /\ Fresh(OfKind(Inner(kind))) \subseteq Listed(OfKind(Inner(kind)), InnerScan)

\* Two hooks of one closure, the one inside the other.
Within(h, g) ==
    /\ g.cause = h.cause /\ g.inc = h.inc
    /\ h.kind \in Inner(g.kind) /\ h.took \subseteq g.took /\ h.took # {} /\ h.sess # None

\* Both name the session, and a window and what was in it name the window.
Told(h, g) ==
    /\ g.sess = h.sess
    /\ g.kind = "window-unlinked" => g.win = h.win /\ h.win # None

HooksTold == hooks \cup {c.hook : c \in closes}
Cascades == \A g, h \in HooksTold : Within(h, g) => Told(h, g)

\* A hook that is new says what there was, and where the panes were that it
\* takes.
NewHook(h) ==
    /\ h.inc = inc /\ h.took \subseteq h.cause /\ h.cause \subseteq LivePanes
    /\ h.kind # "pane-died" => h.sess # None
    /\ h.kind = "session-closed" => h.sess \in LiveSessions
    /\ h.kind = "pane-died" /\ h.sess # None => h.pane \in LivePanes
    /\ h.kind = "window-unlinked" => h.win \in LiveWindows
    /\ \A p \in h.took :
         /\ h.sess # None => h.sess = sessOf[winOf[p]]
         /\ h.kind = "window-unlinked" \/ (h.kind = "pane-died" /\ h.sess # None) => h.win = winOf[p]

LEMMA OuterNew ==
    ASSUME ServerInv, NEW P \in SUBSET LivePanes, NEW h \in OuterHooks(P)
    PROVE  NewHook(h)
<1>1. CASE \E w \in GoneWindows(P) : h = Hook("window-unlinked", sessOf[w], w, None, PanesOf(w), P)
  <2>1. PICK w \in GoneWindows(P) : h = Hook("window-unlinked", sessOf[w], w, None, PanesOf(w), P)
    BY <1>1
  <2>2. /\ h.kind = "window-unlinked" /\ h.sess = sessOf[w] /\ h.win = w /\ h.inc = inc
        /\ h.took = PanesOf(w) /\ h.cause = P
    BY <2>1 DEF Hook
  <2>3. PanesOf(w) \subseteq P
    BY DEF GoneWindows
  <2>4. sessOf[w] # None /\ w \in LiveWindows
    BY DEF GoneWindows, LiveWindows
  <2> QED
    BY <2>2, <2>3, <2>4 DEF NewHook, PanesOf
<1>2. CASE \E s \in GoneSessions(GoneWindows(P)) :
             h = Hook("session-closed", s, None, None, PanesIn(WindowsOf(s)), P)
  <2>1. PICK s \in GoneSessions(GoneWindows(P)) :
             h = Hook("session-closed", s, None, None, PanesIn(WindowsOf(s)), P)
    BY <1>2
  <2>2. /\ h.kind = "session-closed" /\ h.sess = s /\ h.inc = inc
        /\ h.took = PanesIn(WindowsOf(s)) /\ h.cause = P
    BY <2>1 DEF Hook
  <2>3. WindowsOf(s) \subseteq GoneWindows(P)
    BY DEF GoneSessions
  <2>4. PanesIn(WindowsOf(s)) \subseteq P
    BY <2>3 DEF PanesIn, GoneWindows
  <2>5. \A p \in PanesIn(WindowsOf(s)) : sessOf[winOf[p]] = s
    BY DEF PanesIn, PanesOf, WindowsOf
  <2>6. s \in LiveSessions /\ s # None
    BY DEF GoneSessions, LiveSessions, LiveWindows
  <2> QED
    BY <2>2, <2>4, <2>5, <2>6 DEF NewHook
<1> QED
  BY <1>1, <1>2 DEF OuterHooks

\* Whatever the server does, its new hooks are so.
LEMMA HooksNew ==
    ASSUME ServerInv, ServerNext, NEW h \in hooks', h \notin hooks
    PROVE  NewHook(h)
<1>1. ASSUME NEW p \in Panes, ExitPane(p) PROVE NewHook(h)
  <2> DEFINE g == Hook("pane-died", sessOf[winOf[p]], winOf[p], p, {p}, {p})
  <2>1. {p} \in SUBSET LivePanes /\ hooks' = hooks \cup {g} \cup OuterHooks({p})
    BY <1>1 DEF ExitPane, Close
  <2>2. NewHook(g)
    BY <2>1 DEF NewHook, Hook
  <2> HIDE DEF g
  <2> QED
    BY <2>1, <2>2, OuterNew
<1>2. ASSUME NEW p \in Panes, KillPane(p) PROVE NewHook(h)
  <2> DEFINE g == Hook("pane-died", None, None, None, {p}, {p})
  <2>1. {p} \in SUBSET LivePanes /\ hooks' = hooks \cup {g} \cup OuterHooks({p})
    BY <1>2 DEF KillPane, Close
  <2>2. NewHook(g)
    BY <2>1 DEF NewHook, Hook
  <2> HIDE DEF g
  <2> QED
    BY <2>1, <2>2, OuterNew
<1>3. ASSUME NEW w \in Windows, KillWindow(w) PROVE NewHook(h)
  <2>1. PanesOf(w) \in SUBSET LivePanes /\ hooks' = hooks \cup OuterHooks(PanesOf(w))
    BY <1>3 DEF KillWindow, Close
  <2> QED
    BY <2>1, OuterNew
<1>4. ASSUME NEW s \in Sessions, KillSession(s) PROVE NewHook(h)
  <2>1. PanesIn(WindowsOf(s)) \in SUBSET LivePanes
        /\ hooks' = hooks \cup OuterHooks(PanesIn(WindowsOf(s)))
    BY <1>4 DEF KillSession, Close
  <2> QED
    BY <2>1, OuterNew
<1>5. ASSUME NEW w \in Windows, NEW s \in Sessions, MoveWindow(w, s) PROVE NewHook(h)
  <2>1. \A t \in LiveSessions : t # None
    BY DEF LiveSessions, LiveWindows
  <2> QED
    BY <1>5, <2>1 DEF MoveWindow, Hook, NewHook, GoneSessions, LiveWindows
<1>6. CASE \E p \in Panes, w \in Windows : Split(p, w) \/ JoinPane(p, w)
  BY <1>6 DEF Split, JoinPane
<1>7. CASE \E p \in Panes, w \in Windows, s \in Sessions : Open(p, w, s)
  BY <1>7 DEF Open
<1> QED
  BY <1>1, <1>2, <1>3, <1>4, <1>5, <1>6, <1>7 DEF ServerNext

\* What an earlier hook took is gone, and what a new one takes was there.
LEMMA ApartInTime ==
    ASSUME NEW g, NEW h, NewHook(g), Spent(h)
    PROVE  ~Within(h, g) /\ ~Within(g, h)
BY DEF Within, NewHook, Spent, DeadPane

LEMMA TogetherTold ==
    ASSUME ServerInv, NEW g, NEW h, NewHook(g), NewHook(h), h \in Hooks, g \in Hooks, Within(h, g)
    PROVE  Told(h, g)
<1>1. PICK p \in h.took : p \in g.took /\ p \in LivePanes
  BY DEF Within, NewHook
<1>2. winOf[p] \in LiveWindows /\ winOf[p] # None
  BY <1>1 DEF ServerInv, ServerTypeOK, LivePanes
<1>3. sessOf[winOf[p]] # None
  BY <1>2 DEF LiveWindows
<1>4. h.sess = sessOf[winOf[p]]
  BY <1>1 DEF NewHook, Within
<1>5. CASE g.kind = "window-unlinked"
  <2>1. h.kind = "pane-died" /\ g.win = winOf[p] /\ h.win = winOf[p]
    BY <1>1, <1>5 DEF Within, Inner, NewHook
  <2>2. g.sess = sessOf[winOf[p]]
    BY <1>1, <1>5 DEF NewHook
  <2> QED
    BY <1>2, <1>4, <2>1, <2>2 DEF Told
<1>6. CASE g.kind = "session-closed"
  BY <1>1, <1>3, <1>4, <1>6 DEF NewHook, Told
<1>7. CASE g.kind = "pane-died"
  BY <1>7 DEF Within, Inner
<1> QED
  BY <1>5, <1>6, <1>7 DEF Hooks

LEMMA CascadesStep ==
    ASSUME Base, Cascades, [Next]_vars
    PROVE  Cascades'
<1>1. ASSUME HooksTold' \subseteq HooksTold PROVE Cascades'
  BY <1>1 DEF Cascades
<1>2. \A h \in HooksTold : h \in Hooks /\ h.inc \in Nat /\ h.inc <= inc
  BY ServerAssumption DEF HooksTold, Base, ServerInv, HookInv, RowInv, Hooks, ServerTypeOK
<1>3. \A h \in HooksTold : h.inc = inc => Spent(h)
  BY DEF HooksTold, Base, ServerInv, HookInv, RowInv
<1>4. CASE Outside /\ ServerNext
  <2> SUFFICES ASSUME NEW g \in HooksTold', NEW h \in HooksTold', Within(h, g)
               PROVE  Told(h, g)
    BY DEF Cascades
  <2>1. closes' = closes
    BY <1>4 DEF Outside
  <2>2. \A k \in HooksTold' : k \in HooksTold \/ (NewHook(k) /\ k \in Hooks)
    <3>1. \A k \in hooks' : k \in hooks \/ NewHook(k)
      BY <1>4, HooksNew DEF Base, Outside
    <3>2. hooks' \subseteq Hooks
      BY <1>4, ServerSteps DEF Outside, Base, ServerInv, ServerTypeOK
    <3> QED
      BY <2>1, <3>1, <3>2 DEF HooksTold
  <2>3. CASE g \in HooksTold /\ h \in HooksTold
    BY <2>3 DEF Cascades
  <2>4. CASE NewHook(g) /\ g \in Hooks /\ h \in HooksTold
    BY <1>3, <2>4, ApartInTime DEF Within, NewHook
  <2>5. CASE g \in HooksTold /\ NewHook(h) /\ h \in Hooks
    BY <1>3, <2>5, ApartInTime DEF Within, NewHook
  <2>6. CASE NewHook(g) /\ g \in Hooks /\ NewHook(h) /\ h \in Hooks
    BY <2>6, TogetherTold DEF Base
  <2> QED
    BY <2>2, <2>3, <2>4, <2>5, <2>6
<1>5. CASE Outside /\ Tick
  BY <1>1, <1>5 DEF HooksTold, Outside, Tick
<1>6. CASE Save
  BY <1>1, <1>6, SaveRows DEF HooksTold
<1>7. CASE PruneCmd \/ (\E s \in Sessions \cup {None} : Undo(s)) \/ UNCHANGED vars
  BY <1>1, <1>7, OtherRows DEF HooksTold
<1>8. ASSUME NEW k \in hooks, Capture(k) PROVE Cascades'
  <2>1. CASE closes' = closes
    BY <1>1, <1>8, <2>1, CaptureRows DEF HooksTold
  <2>2. CASE \E i \in Identified(k) : closes' = (closes \ Superseded(i)) \cup {NewRow(i)}
    <3>1. PICK i \in Identified(k) : closes' = (closes \ Superseded(i)) \cup {NewRow(i)}
      BY <2>2
    <3>2. PICK n : n = NewRow(i)
      OBVIOUS
    <3>3. n.hook = i
      BY <3>2 DEF NewRow
    <3>4. i \in HooksTold \/ (i.kind = "pane-died" /\ i.sess = None)
      BY IdentifiedTold DEF HooksTold
    <3>5. HooksTold' \subseteq HooksTold \cup {i}
      BY <1>8, <3>1, <3>2, <3>3, CaptureRows DEF HooksTold
    <3> QED
      BY <3>4, <3>5 DEF Cascades, Within, Inner
  <2> QED
    BY <1>8, <2>1, <2>2, CaptureRows
<1> QED
  BY <1>4, <1>5, <1>6, <1>7, <1>8 DEF Next, Outside

LEMMA CascadesHold == Spec => []Cascades
<1>1. Init => Cascades
  BY DEF Init, ServerInit, Cascades, HooksTold
<1> QED
  BY <1>1, CascadesStep, BaseHolds, PTL DEF Spec

\* Whichever of the two is captured last finds the other.
LEMMA OneRowStep ==
    ASSUME Base, Cascades, ScansReach, OneRowPerClosure, [Next]_vars
    PROVE  OneRowPerClosure'
<1>1. ASSUME closes' \subseteq closes PROVE OneRowPerClosure'
  BY <1>1 DEF OneRowPerClosure
<1>2. ASSUME NEW k \in hooks, Capture(k) PROVE OneRowPerClosure'
  <2>1. CASE closes' = closes
    BY <1>1, <2>1
  <2>2. CASE \E i \in Identified(k) :
               Recorded(i) /\ closes' = (closes \ Superseded(i)) \cup {NewRow(i)}
    <3>1. PICK i \in Identified(k) :
               Recorded(i) /\ closes' = (closes \ Superseded(i)) \cup {NewRow(i)}
      BY <2>2
    <3>2. PICK n : n = NewRow(i)
      OBVIOUS
    <3>3. n.hook = i /\ n.ts = now /\ now \in Int /\ DedupWindow \in Int
      BY <3>2, CloseAssumption, ServerAssumption DEF NewRow, Base, ServerInv, ServerTypeOK
    <3>4. i \in HooksTold \/ (i.kind = "pane-died" /\ i.sess = None)
      BY IdentifiedTold DEF HooksTold
    <3>5. \A c \in closes : c.hook \in HooksTold /\ c.hook \in Hooks /\ c.ts \in Int
      BY DEF HooksTold, Base, RowInv, RowsInv
    <3>6. ASSUME NEW d \in closes, d \notin Superseded(i), Within(d.hook, i)
          PROVE  n.ts > d.ts + DedupWindow
      <4>1. Told(d.hook, i) /\ i.kind \in {"session-closed", "window-unlinked"}
        BY <3>4, <3>5, <3>6, IdentifiedHook DEF Cascades, Within, Inner, Hooks
      <4>2. d \in OfKind(Inner(i.kind))
        BY <3>6 DEF Within, OfKind
      <4>3. IF i.kind = "session-closed" THEN SameSession(d, i) ELSE SameWindow(d, i)
        BY <3>6, <4>1 DEF Told, Within, SameSession, SameWindow
      <4>4. d \notin Fresh(OfKind(Inner(i.kind)))
        BY <3>6, <4>1, <4>3 DEF ScansReach, Fresh, Superseded
      <4>5. ~(d.ts >= now - DedupWindow)
        BY <4>2, <4>4 DEF Fresh, Cutoff
      <4> QED
        BY <3>3, <3>5, <4>5
    <3>7. ASSUME NEW c \in closes, Within(i, c.hook)
          PROVE  n.ts > c.ts + DedupWindow
      <4>1. Told(i, c.hook) /\ i.sess # None
        BY <3>4, <3>5, <3>7 DEF Cascades, Within
      <4>2. CASE c.hook.kind = "session-closed"
        <5>1. i.kind # "session-closed" /\ SameSession(c, i)
          BY <3>7, <4>1, <4>2 DEF Within, Inner, Told, SameSession
        <5>2. c \notin Fresh(OfKind({"session-closed"}))
          BY <3>1, <5>1 DEF Recorded, Deduped, ScansReach, Fresh
        <5>3. ~(c.ts >= now - DedupWindow)
          BY <4>2, <5>2 DEF Fresh, Cutoff, OfKind
        <5> QED
          BY <3>3, <3>5, <5>3
      <4>3. CASE c.hook.kind = "window-unlinked"
        <5>1. i.kind = "pane-died" /\ SameWindow(c, i)
          BY <3>7, <4>1, <4>3 DEF Within, Inner, Told, SameWindow
        <5>2. c \notin Fresh(OfKind({"window-unlinked"}))
          BY <3>1, <5>1 DEF Recorded, Deduped, ScansReach, Fresh
        <5>3. ~(c.ts >= now - DedupWindow)
          BY <4>3, <5>2 DEF Fresh, Cutoff, OfKind
        <5> QED
          BY <3>3, <3>5, <5>3
      <4>4. CASE c.hook.kind = "pane-died"
        BY <3>7, <4>4 DEF Within, Inner
      <4> QED
        BY <3>5, <4>2, <4>3, <4>4 DEF Hooks
    <3> SUFFICES ASSUME NEW c \in closes', NEW d \in closes', Within(d.hook, c.hook)
                 PROVE  c.ts > d.ts + DedupWindow \/ d.ts > c.ts + DedupWindow
      BY DEF OneRowPerClosure, Within
    <3>8. CASE c = n /\ d = n
      <4>1. i.kind \notin Inner(i.kind)
        BY IdentifiedHook DEF Inner, Hooks
      <4> QED
        BY <3>3, <3>8, <4>1 DEF Within
    <3>9. CASE c = n /\ d # n
      BY <3>1, <3>2, <3>3, <3>6, <3>9
    <3>10. CASE c # n /\ d = n
      BY <3>1, <3>2, <3>3, <3>7, <3>10
    <3>11. CASE c # n /\ d # n
      BY <3>1, <3>2, <3>11 DEF OneRowPerClosure, Within
    <3> QED
      BY <3>8, <3>9, <3>10, <3>11
  <2> QED
    BY <1>2, <2>1, <2>2, CaptureRows
<1>3. CASE Outside
  BY <1>1, <1>3 DEF Outside
<1>4. CASE Save
  BY <1>1, <1>4, SaveRows
<1>5. CASE PruneCmd \/ (\E s \in Sessions \cup {None} : Undo(s)) \/ UNCHANGED vars
  BY <1>1, <1>5, OtherRows
<1> QED
  BY <1>2, <1>3, <1>4, <1>5 DEF Next

\* capture.go:45-50: in whatever order the captures of a cascade get the flock,
\* and whatever is closed, saved, pruned or undone between them, one row is
\* left of it, while its rows are among those the captures look at.
THEOREM OneRowPerClosureCorrect == Spec /\ []ScansReach => []OneRowPerClosure
<1>1. Init => OneRowPerClosure
  BY DEF Init, OneRowPerClosure
<1> QED
  BY <1>1, OneRowStep, BaseHolds, CascadesHold, PTL DEF Spec
------------------------------------------------------------------------------
(* What a retracted row held *)

\* A scan for snapshots reaches all of them: 100 rows (capture.go:276), when
\* 20 and one for each day of a week survive every save (HistoryBounded of
\* module Retention).
SnapshotsReach == snaps \subseteq Listed(snaps, SnapshotScan)

\* A snapshot of this server that has the pane is followed by such only.
KeptPane(p) ==
    \A e, f \in snaps : e.inc = inc /\ Newer(f, e) /\ p \in SnapPanes(e) => p \in SnapPanes(f)

\* Or by such as do not have the window either.
KeptWith(p, w) ==
    \A e, f \in snaps :
        e.inc = inc /\ Newer(f, e) /\ p \in SnapPanes(e) /\ w \in SnapWindows(f) => p \in SnapPanes(f)

\* So it is of a pane that lives, and of one that went with its window: what
\* is saved after that has neither.
SavedInv ==
    /\ \A e \in snaps : \A p \in SnapPanes(e) : e.win[p] \in SnapWindows(e)
    /\ \A e, f \in snaps : Newer(f, e) => e.inc <= f.inc
    /\ \A p \in LivePanes : KeptPane(p)
    /\ \A h \in hooks : h.kind = "window-unlinked" => \A p \in h.took : KeptWith(p, h.win)

LEMMA SavedFewer ==
    ASSUME SavedInv, snaps' \subseteq snaps, hooks' \subseteq hooks, UNCHANGED <<inc, winOf>>
    PROVE  SavedInv'
<1>1. LivePanes' = LivePanes
  BY DEF LivePanes
<1>2. \A e : SnapPanes(e)' = SnapPanes(e) /\ SnapWindows(e)' = SnapWindows(e)
  BY DEF SnapPanes, SnapWindows
<1>3. \A p : KeptPane(p) => KeptPane(p)'
  BY <1>2 DEF KeptPane
<1>4. \A p, w : KeptWith(p, w) => KeptWith(p, w)'
  BY <1>2 DEF KeptWith
<1> QED
  BY <1>1, <1>2, <1>3, <1>4 DEF SavedInv

\* What the server gives out is in no snapshot of it, and what it closes was
\* in all since it was in one.
LEMMA SavedServer ==
    ASSUME Base, SavedInv, Outside, ServerNext
    PROVE  SavedInv'
<1>1. ServerNext /\ snaps' = snaps
  BY DEF Outside
<1>2. \A e \in snaps : e.inc \in Nat /\ e.inc <= inc /\ (e.inc = inc => SnapPanes(e) \subseteq used)
  <2> SUFFICES ASSUME NEW e \in snaps
               PROVE  e.inc \in Nat /\ e.inc <= inc /\ (e.inc = inc => SnapPanes(e) \subseteq used)
    OBVIOUS
  <2>1. SnapInv(e)
    BY DEF Base
  <2> QED
    BY <2>1, ServerAssumption DEF SnapInv
<1>3. inc \in Nat
  BY ServerAssumption DEF Base, ServerInv, ServerTypeOK
<1>4. \A e : SnapPanes(e)' = SnapPanes(e) /\ SnapWindows(e)' = SnapWindows(e)
  BY DEF SnapPanes, SnapWindows
<1>5. CASE Stays
  <2>1. ASSUME NEW p \in LivePanes' PROVE KeptPane(p)
    <3>1. CASE p \in LivePanes
      BY <3>1 DEF SavedInv
    <3>2. CASE p \notin used
      BY <1>2, <3>2 DEF KeptPane
    <3> QED
      BY <1>5, <3>1, <3>2 DEF Stays
  <2>2. ASSUME NEW h \in hooks', h.kind = "window-unlinked", NEW p \in h.took
        PROVE  KeptWith(p, h.win)
    <3>1. CASE h \in hooks
      BY <2>2, <3>1 DEF SavedInv
    <3>2. CASE h \notin hooks
      <4>1. p \in LivePanes
        BY <1>1, <2>2, <3>2, HooksNew DEF Base, NewHook
      <4> QED
        BY <4>1 DEF SavedInv, KeptPane, KeptWith
    <3> QED
      BY <3>1, <3>2
  <2>3. inc' = inc
    BY <1>5 DEF Stays
  <2>4. /\ \A p : KeptPane(p) => KeptPane(p)'
        /\ \A p, w : KeptWith(p, w) => KeptWith(p, w)'
    BY <1>1, <1>4, <2>3 DEF KeptPane, KeptWith
  <2> QED
    BY <1>1, <1>4, <2>1, <2>2, <2>4 DEF SavedInv
<1>6. CASE Anew
  <2>1. \A e \in snaps : e.inc # inc'
    BY <1>2, <1>3, <1>6 DEF Anew
  <2>2. \A p : KeptPane(p)'
    BY <1>1, <2>1 DEF KeptPane
  <2> QED
    BY <1>1, <1>4, <1>6, <2>2 DEF SavedInv, Anew
<1> QED
  BY <1>1, <1>5, <1>6, ServerSteps DEF Base

\* The row a save adds is the newest, and has what lives and nothing else.
LEMMA SavedSave ==
    ASSUME Base, SavedInv, Save
    PROVE  SavedInv'
<1>1. UNCHANGED <<inc, winOf, sessOf, hooks>>
  BY SaveRows DEF tmux
<1>2. CASE snaps' \subseteq snaps
  BY <1>1, <1>2, SavedFewer
<1>3. CASE snaps' \subseteq snaps \cup {SavedRow}
  <2>1. PICK r : r = SavedRow
    OBVIOUS
  <2>2. /\ r.id = nextId /\ r.ts = now /\ r.inc = inc /\ r.win = winOf
        /\ SnapPanes(r) = LivePanes /\ SnapWindows(r) = LiveWindows
    BY <2>1 DEF SavedRow, SnapPanes, SnapWindows, LivePanes, LiveWindows
  <2>3. \A e \in snaps \cup {r} : ~Newer(e, r)
    <3>1. now \in Nat /\ nextId \in Nat
      BY ServerAssumption, CloseAssumption DEF Base, ServerInv, ServerTypeOK, RowsInv
    <3> QED
      BY <2>2, <3>1 DEF Base, RowsInv, Newer
  <2>4. \A e : SnapPanes(e)' = SnapPanes(e) /\ SnapWindows(e)' = SnapWindows(e)
    BY DEF SnapPanes, SnapWindows
  <2>5. \A e \in snaps' : \A p \in SnapPanes(e) : e.win[p] \in SnapWindows(e)
    <3>1. \A p \in LivePanes : winOf[p] \in LiveWindows
      BY DEF Base, ServerInv, ServerTypeOK
    <3> QED
      BY <1>3, <2>1, <2>2, <3>1 DEF SavedInv
  <2>6. \A e, f \in snaps' : Newer(f, e) => e.inc <= f.inc
    <3>1. \A e \in snaps : e.inc <= inc
      BY DEF Base, SnapInv
    <3> QED
      BY <1>3, <2>1, <2>2, <2>3, <3>1 DEF SavedInv
  <2>7. ASSUME NEW p \in LivePanes PROVE KeptPane(p)'
    <3>1. KeptPane(p)
      BY DEF SavedInv
    <3>2. \A e, f \in snaps' : e.inc = inc /\ Newer(f, e) /\ p \in SnapPanes(e) => p \in SnapPanes(f)
      BY <1>3, <2>1, <2>2, <2>3, <3>1 DEF KeptPane
    <3> QED
      BY <1>1, <2>4, <3>2 DEF KeptPane
  <2>8. ASSUME NEW h \in hooks, h.kind = "window-unlinked", NEW p \in h.took
        PROVE  KeptWith(p, h.win)'
    <3>1. KeptWith(p, h.win)
      BY <2>8 DEF SavedInv
    <3>2. h.win \notin SnapWindows(r)
      BY <2>2, <2>8 DEF Base, ServerInv, HookInv, DeadWindow
    <3>3. \A e, f \in snaps' : e.inc = inc /\ Newer(f, e) /\ p \in SnapPanes(e) /\ h.win \in SnapWindows(f)
                                => p \in SnapPanes(f)
      BY <1>3, <2>1, <2>3, <3>1, <3>2 DEF KeptWith
    <3> QED
      BY <1>1, <2>4, <3>3 DEF KeptWith
  <2>9. LivePanes' = LivePanes
    BY <1>1 DEF LivePanes
  <2> QED
    BY <1>1, <2>4, <2>5, <2>6, <2>7, <2>8, <2>9 DEF SavedInv
<1> QED
  BY <1>2, <1>3, SaveRows

LEMMA SavedStep ==
    ASSUME Base, SavedInv, [Next]_vars
    PROVE  SavedInv'
<1>1. CASE Outside /\ Tick
  BY <1>1, SavedFewer DEF Outside, Tick, tmux
<1>2. CASE PruneCmd \/ (\E s \in Sessions \cup {None} : Undo(s)) \/ UNCHANGED vars
  BY <1>2, OtherRows, SavedFewer DEF tmux
<1>3. ASSUME NEW h \in hooks, Capture(h) PROVE SavedInv'
  BY <1>3, CaptureRows, SavedFewer DEF tmux
<1> QED
  BY <1>1, <1>2, <1>3, SavedServer, SavedSave DEF Next, Outside

\* Of the snapshots that have a window none is newer than the last one with a
\* pane that went with it.
LEMMA LastSeenLast ==
    ASSUME Base, SavedInv, NEW h \in hooks, h.kind = "window-unlinked", NEW p \in h.took,
           NEW e \in LastSeen(p), NEW f \in snaps, h.win \in SnapWindows(f)
    PROVE  ~Newer(f, e)
<1> SUFFICES ASSUME Newer(f, e) PROVE FALSE
  OBVIOUS
<1>1. /\ e \in snaps /\ e.inc = inc /\ p \in SnapPanes(e)
      /\ \A g \in snaps : g.inc = inc /\ p \in SnapPanes(g) => ~Newer(g, e)
  BY DEF LastSeen, Latest
<1>2. f.inc = inc
  <2>1. e.inc <= f.inc
    BY <1>1 DEF SavedInv
  <2>2. f.inc <= inc /\ f.inc \in 0..MaxInc /\ inc \in 0..MaxInc
    BY DEF Base, SnapInv, ServerInv, ServerTypeOK
  <2> QED
    BY <1>1, <2>1, <2>2, ServerAssumption
<1>3. p \in SnapPanes(f)
  BY <1>1 DEF SavedInv, KeptWith
<1> QED
  BY <1>1, <1>2, <1>3

\* A snapshot of this server passes for one, however coarse the start time.
LEMMA OfThisServer ==
    ASSUME Base, NEW e \in snaps, e.inc = inc
    PROVE  e.ts \in Nat /\ e.ts >= ServerStarted /\ ServerStarted \in Int /\ ServerStarted <= now
<1>1. e.ts >= started /\ e.ts \in Nat /\ started \in Nat /\ started <= now /\ now \in Nat
  <2>1. SnapInv(e) /\ e.ts \in Nat
    BY DEF Base, RowsInv
  <2> QED
    BY <2>1, ServerAssumption DEF SnapInv, Base, ServerInv, ServerTypeOK
<1>2. ServerStarted \in Int
  BY <1>1, ClockAssumption DEF ServerStarted, ServerStartTime
<1> QED
  BY <1>1, <1>2, StartTimeBefore

\* The new row resolves in the newest snapshot from before it, if that is of
\* this server and has the window where it closed.
LEMMA NewRowFinds ==
    ASSUME Base, SavedInv, NEW i, NEW n, n = NewRow(i), NEW w \in Windows,
           NEW e \in LatestSnapshotBefore(snaps, now), e.inc = inc, NEW p \in SnapPanesOf(e, w),
           \/ i.kind = "window-unlinked" /\ i.win = w
           \/ i.kind = "session-closed" /\ i.sess = e.sess[w] /\ i.sess \notin LiveSessions
    PROVE  p \in Restores(n)
<1>1. n.hook = i /\ n.ts = now /\ n.survivors = LiveSessions
  BY DEF NewRow
<1>2. e \in snaps /\ w \in SnapWindows(e)
  <2>1. e \in snaps /\ p \in Panes /\ e.win[p] = w
    BY DEF LatestSnapshotBefore, Latest, SnapPanesOf
  <2>2. p \in SnapPanes(e)
    BY <2>1, ServerAssumption DEF SnapPanes
  <2> QED
    BY <2>1, <2>2 DEF SavedInv
<1>3. e \in PriorSnapshot(n)
  <2>1. /\ e.ts \in Nat /\ e.ts >= ServerStarted /\ ServerStarted \in Int /\ ServerStarted <= now
        /\ now \in Nat
    BY <1>2, OfThisServer, ServerAssumption DEF Base, ServerInv, ServerTypeOK
  <2> QED
    BY <1>1, <2>1 DEF PriorSnapshot, OutOfIncarnation
<1>4. PICK q \in FindClosed(e, i, LiveSessions) : p \in q.panes
  <2>1. CASE i.kind = "window-unlinked" /\ i.win = w
    <3>1. Entity(e, SnapPanesOf(e, w), w, e.sess[w]) \in FindClosed(e, i, LiveSessions)
      BY <1>2, <2>1 DEF FindClosed, FindClosedWindow
    <3> QED
      BY <3>1 DEF Entity
  <2>2. CASE i.kind = "session-closed" /\ i.sess = e.sess[w] /\ i.sess \notin LiveSessions
    <3> DEFINE s == i.sess
               P == UNION {SnapPanesOf(e, v) : v \in {u \in Windows : e.sess[u] = s}}
    <3>1. s \in SnapSessions(e) \ LiveSessions
      BY <1>2, <2>2 DEF SnapSessions
    <3>2. Entity(e, P, None, s) \in FindClosedSession(e, s, LiveSessions)
      BY <3>1 DEF FindClosedSession
    <3>3. FindClosed(e, i, LiveSessions) = FindClosedSession(e, s, LiveSessions)
      BY <2>2 DEF FindClosed
    <3>4. p \in P
      BY <2>2
    <3>5. Entity(e, P, None, s).panes = P
      BY DEF Entity
    <3> QED
      BY <3>2, <3>3, <3>4, <3>5
  <2> QED
    BY <2>1, <2>2
<1>5. q \in Resolve(n)
  BY <1>1, <1>3, <1>4 DEF Resolve
<1> QED
  BY <1>4, <1>5 DEF Restores

\* The row of a window restores what closed with it, as it was last saved:
\* what it resolves to before the close and what it embeds are of that one
\* snapshot, wherever saves came.
LEMMA WindowRowFinds ==
    ASSUME Base, SavedInv, SnapshotsReach, NEW h \in hooks, h.kind = "window-unlinked",
           NEW n, n = NewRow(h), NEW p \in h.took, NEW e \in LastSeen(p),
           e.ts < now, e.win[p] = h.win
    PROVE  p \in Restores(n)
<1>1. n.hook = h /\ n.ts = now /\ n.resolved = ResolveAtCapture(h)
  BY DEF NewRow
<1>2. e \in snaps /\ e.inc = inc /\ p \in SnapPanesOf(e, h.win) /\ h.win \in SnapWindows(e)
  <2>1. e \in snaps /\ e.inc = inc /\ p \in SnapPanes(e)
    BY DEF LastSeen, Latest
  <2> QED
    BY <2>1 DEF SavedInv, SnapPanes, SnapPanesOf
<1>3. ASSUME NEW f \in snaps, ~Newer(e, f), h.win \in SnapWindows(f) PROVE f = e
  <2>1. ~Newer(f, e)
    BY <1>3, LastSeenLast
  <2>2. e.id \in Nat /\ f.id \in Nat /\ e.ts \in Nat /\ f.ts \in Nat /\ (e.id = f.id => e = f)
    BY <1>2 DEF Base, RowsInv
  <2> QED
    BY <1>3, <2>1, <2>2 DEF Newer
<1>4. ASSUME NEW f, NEW S, NEW r \in FindClosed(f, h, S), f = e PROVE p \in r.panes
  <2>1. r = Entity(e, SnapPanesOf(e, h.win), h.win, e.sess[h.win])
    BY <1>4, FindWindow
  <2> QED
    BY <1>2, <2>1 DEF Entity
<1>5. ASSUME NEW f \in PriorSnapshot(n), NEW r \in FindClosed(f, h, n.survivors) PROVE p \in r.panes
  <2>1. f \in snaps /\ ~Newer(e, f)
    BY <1>1, <1>2 DEF PriorSnapshot, LatestSnapshotBefore, Latest
  <2>2. h.win \in SnapWindows(f)
    BY FindWindow
  <2> QED
    BY <1>3, <1>4, <2>1, <2>2
<1>6. ASSUME NEW r \in n.resolved PROVE p \in r.panes
  <2>1. PICK f \in PreCloseSnapshot(h) : r \in FindClosed(f, h, {})
    BY <1>1, <1>6, ResolvedKinds
  <2>2. e \in RecentSnapshots /\ Holds(e, h)
    BY <1>2, OfThisServer DEF SnapshotsReach, RecentSnapshots, Holds
  <2>3. f \in snaps /\ ~Newer(e, f)
    BY <2>2 DEF PreCloseSnapshot, Latest, RecentSnapshots, Listed
  <2>4. h.win \in SnapWindows(f)
    BY <2>1, FindWindow
  <2> QED
    BY <1>3, <1>4, <2>1, <2>3, <2>4
<1>7. n.resolved # {}
  <2>1. e \in RecentSnapshots /\ Holds(e, h)
    BY <1>2, OfThisServer DEF SnapshotsReach, RecentSnapshots, Holds
  <2> QED
    BY <1>1, <2>1, ResolvedSome DEF IdKeyed
<1>8. \A r \in Resolve(n) : p \in r.panes
  BY <1>1, <1>5, <1>6 DEF Resolve
<1>9. Resolve(n) # {}
  BY <1>7 DEF Resolve
<1> QED
  BY <1>8, <1>9 DEF Restores

LEMMA RetractsHeld ==
    ASSUME Base, SavedInv, SnapshotsReach, NEW c \in closes \ closes', NEW h \in hooks, Capture(h),
           c.hook.inc = inc, NEW p \in c.hook.took, NEW e \in LastSeen(p),
           e.ts < now, e.win[p] = c.hook.win,
           \/ h.kind = "window-unlinked" /\ p \in h.took
           \/ e \in LatestSnapshotBefore(snaps, now) /\ e.sess[c.hook.win] = h.sess
    PROVE  p \in UNION {Restores(d) : d \in closes' \ closes}
<1>1. PICK i \in Identified(h) : closes' = (closes \ Superseded(i)) \cup {NewRow(i)}
  BY CaptureRows
<1>2. PICK n : n = NewRow(i)
  OBVIOUS
<1>3. n \in closes' \ closes
  <2>1. n.id = nextId
    BY <1>2 DEF NewRow
  <2>2. \A a \in closes : a.id # nextId
    BY DEF Base, RowsInv
  <2> QED
    BY <1>1, <1>2, <2>1, <2>2
<1>4. /\ c.hook.kind \in Inner(i.kind)
      /\ i.kind # "session-closed" => SameWindow(c, i)
  <2>1. c \in Superseded(i)
    BY <1>1
  <2> QED
    BY <2>1 DEF Superseded, Fresh, Listed, OfKind
<1>5. /\ i = h
      /\ \/ h.kind = "window-unlinked" /\ c.hook.win = h.win
         \/ h.kind = "session-closed" /\ h.sess \notin LiveSessions
  <2>1. h \in Hooks /\ (h.kind = "session-closed" => h.sess \notin LiveSessions)
    BY DEF Base, ServerInv, HookInv, DeadSession
  <2>2. i.kind # "pane-died"
    BY <1>4 DEF Inner
  <2>3. i = h
    BY <2>2, IdentifiedTold
  <2> QED
    BY <1>4, <2>1, <2>2, <2>3 DEF Hooks, SameWindow
<1>6. e.inc = inc /\ c.hook.win \in Windows /\ p \in SnapPanesOf(e, c.hook.win)
  <2>1. e \in snaps /\ e.inc = inc /\ p \in SnapPanes(e)
    BY DEF LastSeen, Latest
  <2>2. e.win[p] \in SnapWindows(e)
    BY <2>1 DEF SavedInv
  <2> QED
    BY <2>1, <2>2 DEF SnapPanes, SnapPanesOf, SnapWindows
<1>7. p \in Restores(n)
  <2>1. CASE h.kind = "window-unlinked" /\ p \in h.took
    BY <1>2, <1>5, <2>1, WindowRowFinds
  <2>2. CASE e \in LatestSnapshotBefore(snaps, now) /\ e.sess[c.hook.win] = h.sess
    BY <1>2, <1>5, <1>6, <2>2, NewRowFinds
  <2> QED
    BY <2>1, <2>2
<1> QED
  BY <1>3, <1>7

\* capture.go:146-152: whatever hooks get the flock in whatever order and
\* wherever saves, prunes and undo come between them, a row goes only for one
\* that brings back what it took: what closed with a window always, the rest
\* while the newest snapshot still has it.  (The run closes_retracts shows
\* that a session's row may lose the rest.)
THEOREM RetractedStillHeldCorrect == Spec /\ []SnapshotsReach => RetractedStillHeld
<1>1. Init => SavedInv
  BY DEF Init, ServerInit, SavedInv, LivePanes
<1>2. ASSUME Base, SavedInv, SnapshotsReach
      PROVE  \A c \in closes \ closes' : \A h \in hooks : Capture(h) /\ c.hook.inc = inc =>
        \A p \in c.hook.took : \A e \in LastSeen(p) :
            /\ e.ts < now /\ e.win[p] = c.hook.win
            /\ \/ h.kind = "window-unlinked" /\ p \in h.took
               \/ e \in LatestSnapshotBefore(snaps, now) /\ e.sess[c.hook.win] = h.sess
            => p \in UNION {Restores(d) : d \in closes' \ closes}
  BY <1>2, RetractsHeld
<1> QED
  BY <1>1, <1>2, SavedStep, BaseHolds, PTL DEF Spec, RetractedStillHeld
------------------------------------------------------------------------------
(* Undo discards what was never saved *)

\* A close by id that embeds nothing is of what no snapshot of its server has.
Unsaved(c) ==
    IdKeyed(c.hook.kind) /\ c.resolved = {} =>
        \A e \in snaps : e.inc = c.hook.inc => ~Holds(e, c.hook)

IdsUnsaved == \A c \in closes : Unsaved(c)

LEMMA UnsavedNew ==
    ASSUME Base, SnapshotsReach, NEW h \in hooks, NEW i \in Identified(h), NEW n, n = NewRow(i)
    PROVE  Unsaved(n)
<1>1. n.hook = i /\ n.resolved = ResolveAtCapture(i)
  BY DEF NewRow
<1>2. i.inc = inc
  BY IdentifiedHook
<1> SUFFICES ASSUME IdKeyed(i.kind), NEW e \in snaps, e.inc = inc, Holds(e, i)
             PROVE  n.resolved # {}
  BY <1>1, <1>2 DEF Unsaved
<1>3. e.ts >= started /\ e.ts \in Int /\ started \in Int
  <2>1. SnapInv(e) /\ e.ts \in Nat
    BY DEF Base, RowsInv
  <2>2. started \in Nat
    BY ServerAssumption DEF Base, ServerInv, ServerTypeOK
  <2> QED
    BY <2>1, <2>2 DEF SnapInv
<1>4. e.ts >= ServerStarted
  <2>1. ServerStarted \in Int
    BY <1>3, ClockAssumption DEF ServerStarted, ServerStartTime
  <2> QED
    BY <1>3, <2>1, StartTimeBefore
<1>5. e \in RecentSnapshots
  BY <1>4 DEF SnapshotsReach, RecentSnapshots
<1> QED
  BY <1>1, <1>5, ResolvedSome

LEMMA UnsavedStep ==
    ASSUME Base, ClosedInv, SnapshotsReach, IdsUnsaved, [Next]_vars
    PROVE  IdsUnsaved'
<1> USE DEF IdsUnsaved
<1>1. ASSUME snaps' \subseteq snaps, NEW c, Unsaved(c) PROVE Unsaved(c)'
  BY <1>1 DEF Unsaved
<1>2. CASE Outside
  BY <1>1, <1>2 DEF Outside
<1>3. CASE Save
  <2>1. closes' \subseteq closes
    BY <1>3, SaveRows
  <2>2. CASE snaps' \subseteq snaps
    BY <1>1, <2>1, <2>2
  <2>3. CASE Running /\ snaps' \subseteq snaps \cup {SavedRow}
    <3>1. PICK r : r = SavedRow
      OBVIOUS
    <3>2. /\ r.inc = inc /\ SnapPanes(r) = LivePanes /\ SnapWindows(r) = LiveWindows
      BY <3>1 DEF SavedRow, SnapPanes, SnapWindows, LivePanes, LiveWindows
    <3>3. ASSUME NEW c \in closes, IdKeyed(c.hook.kind), c.resolved = {}, c.hook.inc = inc
          PROVE  ~Holds(r, c.hook)
      <4>1. Buried(c)
        BY <3>3 DEF ClosedInv
      <4>2. CASE c.hook.kind = "pane-died"
        BY <3>2, <3>3, <4>1, <4>2 DEF Buried, DeadPane, Holds
      <4>3. CASE c.hook.kind = "window-unlinked"
        BY <3>2, <4>1, <4>3 DEF Buried, DeadWindow, Holds
      <4> QED
        BY <3>3, <4>2, <4>3 DEF IdKeyed
    <3> QED
      BY <2>1, <2>3, <3>1, <3>2, <3>3 DEF Unsaved
  <2> QED
    BY <1>3, <2>2, <2>3, SaveRows
<1>4. CASE PruneCmd \/ (\E s \in Sessions \cup {None} : Undo(s)) \/ UNCHANGED vars
  BY <1>1, <1>4, OtherRows
<1>5. ASSUME NEW h \in hooks, Capture(h) PROVE IdsUnsaved'
  <2>1. snaps' = snaps
    BY <1>5, CaptureRows
  <2>2. CASE closes' = closes
    BY <1>1, <2>1, <2>2
  <2>3. CASE \E i \in Identified(h) : closes' = (closes \ Superseded(i)) \cup {NewRow(i)}
    <3>1. PICK i \in Identified(h) : closes' = (closes \ Superseded(i)) \cup {NewRow(i)}
      BY <2>3
    <3>2. PICK n : n = NewRow(i)
      OBVIOUS
    <3>3. Unsaved(n)
      BY <3>2, UnsavedNew
    <3> QED
      BY <1>1, <2>1, <3>1, <3>2, <3>3
  <2> QED
    BY <1>5, <2>2, <2>3, CaptureRows
<1> QED
  BY <1>2, <1>3, <1>4, <1>5 DEF Next

LEMMA ResolvedFallsBack == ASSUME NEW c, Resolve(c) = {} PROVE c.resolved = {}
BY DEF Resolve

\* discardSummary (main.go:468-483): of a pane or a window undo discards, no
\* snapshot of its server is left, whenever saves come.
THEOREM DiscardedIdsUnsavedCorrect == Spec /\ []SnapshotsReach => []DiscardedIdsUnsaved
<1>1. Init => IdsUnsaved
  BY DEF Init, IdsUnsaved
<1>2. ASSUME IdsUnsaved PROVE DiscardedIdsUnsaved
  BY <1>2, ResolvedFallsBack
     DEF IdsUnsaved, DiscardedIdsUnsaved, Discarded, Mine, Scanned, Listed, Unsaved
<1> QED
  BY <1>1, <1>2, UnsavedStep, BaseHolds, ClosedHolds, PTL DEF Spec
==============================================================================
