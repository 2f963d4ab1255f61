----------------------------- MODULE RestoreMC -----------------------------
(* Restore for TLC: what is restored, and the servers it is restored into. *)
EXTENDS Restore

P(idle, startup, deco) == [idle |-> idle, startup |-> startup, deco |-> deco]
W(id, idx, name, ps) == [id |-> id, idx |-> idx, name |-> name, panes |-> ps]
S(name, stale, bridge, ws) == [name |-> name, stale |-> stale, bridge |-> bridge, windows |-> ws]
Item(cmd, kind, ss, lost) == [cmd |-> cmd, kind |-> kind, sessions |-> ss, lost |-> lost]

Idle == P(TRUE, FALSE, FALSE)
Plain == P(FALSE, FALSE, FALSE)
Agent == P(FALSE, TRUE, TRUE)
Two == W(2, 1, "two", <<P(FALSE, TRUE, TRUE), P(FALSE, TRUE, TRUE)>>)

\* Sessions that are dropped; one whose first window is dropped, so that the
\* one that makes it is not at base-index.
MCSnapshots ==
    {Item("restore", "snapshot",
        <<S("a", FALSE, TRUE, <<W(2, 1, "", <<Idle>>), W(3, 2, "", <<Agent, Idle, Agent>>),
                                W(4, 3, "", <<Plain>>)>>),
          S("b", FALSE, FALSE, <<W(7, 1, "", <<Plain, Agent>>)>>),
          S("m", FALSE, FALSE, <<W(5, 1, "", <<Plain>>)>>),
          S("o", TRUE, FALSE, <<W(6, 1, "", <<Plain>>)>>)>>, 0)}

MCCloses ==
    {Item("undo", "session", <<S("a", FALSE, FALSE, <<Two, W(3, 2, "", <<Plain>>)>>)>>, 0),
     Item("undo", "window", <<S("a", FALSE, FALSE, <<Two>>)>>, 0),
     Item("undo", "pane", <<S("a", FALSE, FALSE, <<Two>>)>>, 2),
     Item("pick", "pane", <<S("a", FALSE, FALSE, <<Two>>)>>, 1)}

\* Picked: the session may have come or gone since its picker was opened.
MCPicked ==
    {Item("pick", "snapshot", <<S("a", FALSE, FALSE, <<Two, W(3, 2, "", <<Plain>>)>>)>>, 0)}

MCItems == MCSnapshots \union MCPicked \union MCCloses

\* An empty server; one where the session still runs, with another window at
\* the recorded index; with the window itself; with one of its name.
Live(id, idx, name) == [id |-> id, sess |-> "a", idx |-> idx, name |-> name]
MCLiveSets ==
    {{}, {Live(1, 1, "")}, {Live(1, 1, ""), Live(2, 2, "two")},
     {Live(1, 1, "two"), Live(3, 2, "two")}}
=============================================================================
