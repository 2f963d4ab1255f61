------------------------------ MODULE PickerMC ------------------------------
EXTENDS Picker

Node(kind, up, sess, idle, sha) == [kind |-> kind, up |-> up, sess |-> sess, idle |-> idle, sha |-> sha]
Session(s) == Node("session", 0, s, FALSE, "none")
Window(up, s) == Node("window", up, s, FALSE, "none")
Pane(up, s, idle, sha) == Node("pane", up, s, idle, sha)

\* Session a runs when the picker opens and is idle; in b one of two panes is,
\* and a pane of each shows the same screen.
Two == [bad |-> FALSE,
        nodes |-> <<Session("a"), Window(1, "a"), Pane(2, "a", TRUE, "s1"),
                    Session("b"), Window(4, "b"), Pane(5, "b", TRUE, "none"), Pane(5, "b", FALSE, "s1")>>]
One == [bad |-> FALSE, nodes |-> <<Session("b"), Window(1, "b"), Pane(2, "b", TRUE, "s2")>>]
Bad == [bad |-> TRUE, nodes |-> <<>>]

MCSnapshotLists == {<<>>, <<Two, Bad>>, <<One, Bad, One>>}

Close(scope, sess, idx, name, what, windows) ==
    [scope |-> scope, sess |-> sess, idx |-> idx, name |-> name, what |-> what, windows |-> windows]
Closed(scope, sess, idx, what, windows) == Close(scope, sess, idx, "w", what, windows)

\* Of session a: two closes that repeat, one of another window and its own.
\* One of a window whose session is not known.  Hidden: one in a mirror, one
\* of an ignored window and one nothing can restore.
MCCloseLists ==
    {<<>>,
     <<Closed("pane", "a", 1, "x", <<<<"s1">>>>), Closed("pane", "a", 2, "x", <<<<"s1", "s2">>>>),
       Closed("pane", "a", 1, "x", <<<<"none">>>>), Close("session", "a", 0, "", "", <<<<"s2">>, <<"s1">>>>),
       Closed("window", "", 1, "y", <<<<"s1", "s2">>>>), Closed("window", "m", 1, "y", <<<<"s1">>>>),
       Close("window", "b", 1, "skip", "y", <<<<"s1">>>>), Closed("window", "b", 2, "z", <<>>)>>}

MCLines == [s \in Shas |-> IF s = "s1" THEN 4 ELSE 1]
MCScreens == {[width |-> "narrow", height |-> 7], [width |-> "stacked", height |-> 12],
              [width |-> "wide", height |-> 9]}
=============================================================================
