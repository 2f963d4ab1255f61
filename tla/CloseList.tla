------------------------------ MODULE CloseList ------------------------------
(***************************************************************************)
(* What the picker lists of the close events it was opened on.  A close is *)
(*   [scope, sess, idx, name, what, windows]                               *)
(* with what standing for the command and directory of the closed pane,    *)
(* and windows for what can be restored, each the sequence of its panes'   *)
(* screens; none when neither a snapshot nor the row itself has it.        *)
(* Closes come newest first, as ListEvents returns them, so a position     *)
(* stands for a time.                                                      *)
(***************************************************************************)
EXTENDS Integers, Sequences, FiniteSetsExt

CONSTANTS
    Mirrors,        \* sessions that are live mirrors of a remote
    IgnoredNames,   \* window names @remux_ignore_windows matches
    Current         \* the session the user is in

UnknownSession == "?"

\* main.go: partitionRecoverable.
Unrecoverable(c) == c.windows = <<>> \/ c.sess \in Mirrors
Ignored(c) == c.name \in IgnoredNames
Kept(closes) == {i \in DOMAIN closes : ~Unrecoverable(closes[i]) /\ ~Ignored(closes[i])}
HiddenCount(closes) == Cardinality(DOMAIN closes \ Kept(closes))

SessionName(c) == IF c.sess = "" THEN UnknownSession ELSE c.sess

\* A session close is of a session the user is no longer in.
Mine(c) == Current # "" /\ SessionName(c) = Current /\ c.scope # "session"

\* Closes a user reads as one repeated event.  A session close has window 0
\* and no pane that stands for it.
CollapseKey(c) ==
    <<c.scope, SessionName(c), c.idx, IF c.scope = "session" THEN "" ELSE c.what>>

Group(closes, i) ==
    {j \in Kept(closes) : /\ Mine(closes[j]) = Mine(closes[i])
                          /\ CollapseKey(closes[j]) = CollapseKey(closes[i])}

Header == [event |-> 0, count |-> 0]
Row(closes, i) == [event |-> i, count |-> Cardinality(Group(closes, i))]

\* The close that stands for each group of a section: the newest.
Newest(closes, mine) ==
    {i \in Kept(closes) : Mine(closes[i]) = mine /\ \A j \in Group(closes, i) : i <= j}

\* The k-th of a set of positions.
Nth(S, k) == CHOOSE i \in S : Cardinality({j \in S : j <= i}) = k

\* One row for each group, newest first.
Section(closes, mine) ==
    LET newest == Newest(closes, mine)
    IN  IF newest = {} THEN <<>>
        ELSE <<Header>> \o [k \in 1..Cardinality(newest) |-> Row(closes, Nth(newest, k))]

BuildCloseList(closes) == Section(closes, TRUE) \o Section(closes, FALSE)
==============================================================================
