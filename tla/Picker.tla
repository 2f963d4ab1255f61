------------------------------- MODULE Picker -------------------------------
(***************************************************************************)
(* The interactive picker: keys, mouse, screens read in the background and *)
(* changes of the terminal's size, in any order.  One instance either      *)
(* lists snapshots, with the tree of the one under the cursor, or closes.  *)
(*                                                                         *)
(* A snapshot is [bad, nodes]: whether its manifest fails to parse, and    *)
(* the tree in preorder.  A node is [kind, up, sess, idle, sha] with up    *)
(* the position of its parent, 0 for a session.  A close is a record of    *)
(* module CloseList.  Indexes start at 1 where the code's start at 0.      *)
(*                                                                         *)
(* Left out: what is only drawn (dimming by age, the help overlay, the     *)
(* last key shown, the horizontal offset of the preview, which has no      *)
(* upper bound and no reader but the drawing).                             *)
(***************************************************************************)
EXTENDS CloseList, PickerLayout

CONSTANTS
    SnapshotLists,  \* the lists of snapshots it may be opened on
    CloseLists,     \* the lists of closes
    Running,        \* sessions that ran when it was opened
    Shas, NoSha,
    Lines,          \* the lines of each screen
    Screens,        \* the sizes the terminal may take
    WheelRows       \* rows of a wheel notch

\* BuildTree nests every window in its session and every pane in its window.
InTree(N, p) ==
    /\ N[p].kind \in {"session", "window", "pane"} /\ N[p].sha \in Shas \cup {NoSha}
    /\ N[p].kind = "session" => N[p].up = 0
    /\ N[p].kind # "session" => N[p].up \in DOMAIN N /\ N[N[p].up].sess = N[p].sess
    /\ N[p].kind = "window" => N[N[p].up].kind = "session"
    /\ N[p].kind = "pane" => N[N[p].up].kind = "window"

\* A list, as a sequence of the module is one: its positions start at 1.
Listed(L) == Len(L) \in Nat /\ L = [i \in 1..Len(L) |-> L[i]]

ASSUME PickerAssumption ==
    /\ WheelRows \in Nat \ {0} /\ Lines \in [Shas -> Nat] /\ NoSha \notin Shas
    /\ \A s \in Screens : s.height \in Nat
    /\ \A L \in SnapshotLists :
         /\ Listed(L)
         /\ \A e \in DOMAIN L : Listed(L[e].nodes)
                                /\ \A p \in DOMAIN L[e].nodes : InTree(L[e].nodes, p)
    /\ \A L \in CloseLists :
         /\ Listed(L)
         /\ \A e \in DOMAIN L : L[e].windows # <<>> =>
              LET panes == L[e].windows[1]
              IN  Listed(panes) /\ \A i \in DOMAIN panes : panes[i] \in Shas \cup {NoSha}

VARIABLES
    mode, events, rows, hidden,     \* what it was opened on
    cursor, treeCursor, focus,
    filter,                         \* [idle, running]
    parsed, refused,                \* manifests, manifestErrors: positions in events
    expanded,                       \* the expanded nodes of each tree
    decorated,                      \* the filter each tree was last decorated with
    loaded, broken, loading,        \* scrollbacks, scrollbackErrors, loadingSHAs
    scroll, screen,
    note, selected, open

given == <<mode, events, rows, hidden>>
trees == <<parsed, refused, expanded, decorated>>
cache == <<loaded, broken>>
outcome == <<note, selected, open>>
vars == <<given, cursor, treeCursor, focus, filter, trees, cache, loading, scroll, screen, outcome>>

NoFilter == [idle |-> FALSE, running |-> FALSE]
Filters == [idle : BOOLEAN, running : BOOLEAN]
-----------------------------------------------------------------------------
(* The tree of a snapshot *)

Nodes(e) == events[e].nodes
Kind(e, p) == Nodes(e)[p].kind
OfNodeKind(e, k) == {p \in DOMAIN Nodes(e) : Kind(e, p) = k}
Children(e, p) == {q \in DOMAIN Nodes(e) : Nodes(e)[q].up = p}
Parent(e, p) == IF p = 0 THEN 0 ELSE Nodes(e)[p].up
Ancestors(e, p) == {Parent(e, p), Parent(e, Parent(e, p))} \ {0}

\* filter.SessionSkipReason; the picker sets no age limit.
SkipReason(s, f) ==
    IF s \in Mirrors THEN "bridged" ELSE IF f.running /\ s \in Running THEN "running" ELSE ""

SkippedFor(e, f, reason) ==
    {p \in OfNodeKind(e, "session") : SkipReason(Nodes(e)[p].sess, f) = reason}

\* filter.SkipPane, and SkipWindow with SkipIdleWindows off as it is here.
SkipPane(n, f) == f.idle /\ n.idle

\* FilterDecorate: the expanded nodes of a tree that was decorated with one
\* filter, after another.
Decorate(e, opened, old, new) ==
    (opened \ (SkippedFor(e, new, "running") \ SkippedFor(e, old, "running")))
        \cup (SkippedFor(e, old, "running") \ SkippedFor(e, new, "running"))

BuildTree(e) == OfNodeKind(e, "session") \cup OfNodeKind(e, "window")

\* The panes a tree marks as kept, and those BuildPlan has actions for.
KeptPanes(e, f) ==
    {p \in OfNodeKind(e, "pane") :
        SkipReason(Nodes(e)[p].sess, f) = "" /\ ~SkipPane(Nodes(e)[p], f)}
PlannedPanes(e, f) ==
    UNION {{p \in Children(e, w) : ~SkipPane(Nodes(e)[p], f)} :
              w \in UNION {Children(e, s) : s \in SkippedFor(e, f, "")}}

Shown(e, opened) == {p \in DOMAIN Nodes(e) : Ancestors(e, p) \subseteq opened}
VisibleNodes == IF mode = "snapshot" /\ cursor \in parsed THEN Shown(cursor, expanded[cursor]) ELSE {}

Rank(p, V) == Cardinality({q \in V : q <= p})
NodeAt(i) == LET shown == VisibleNodes IN {p \in shown : Rank(p, shown) = i}

FirstRank(P, V, default) == IF P = {} THEN default ELSE Rank(Min(P), V)
FirstPaneIdx(e, opened) ==
    LET shown == Shown(e, opened)
    IN  FirstRank(OfNodeKind(e, "pane") \cap shown, shown, 1)
FirstPaneIdxIn(e, p, opened) ==
    LET shown == Shown(e, opened)
    IN  FirstRank({q \in OfNodeKind(e, "pane") \cap shown : p \in Ancestors(e, q)}, shown, Rank(p, shown))

IsNavTarget(p) ==
    \/ Kind(cursor, p) \in {"window", "pane"}
    \/ p \notin expanded[cursor] /\ Children(cursor, p) # {}

\* The index k steps from one, at most as far as the targets go.
Walk(targets, from, dir, k) ==
    LET ahead == {t \in targets : dir * (t - from) > 0}
    IN  IF ahead = {} THEN from
        ELSE CHOOSE t \in ahead :
                Cardinality({u \in ahead : dir * (u - t) <= 0}) = Min({k, Cardinality(ahead)})

\* nextPaneIdx; it finds nothing going up from further than one row past the
\* end, where a filter toggle may have left the cursor.
WalkTree(dir, k) ==
    LET shown == VisibleNodes
        targets == {Rank(p, shown) : p \in {q \in shown : IsNavTarget(q)}}
    IN  IF treeCursor > Cardinality(shown) + 1 THEN treeCursor
        ELSE Walk(targets, treeCursor, dir, k)
-----------------------------------------------------------------------------
(* The close list *)

Selectable == {i \in DOMAIN rows : rows[i].event # 0}
Headers == DOMAIN rows \ Selectable
CurrentClose == IF cursor \in DOMAIN rows THEN rows[cursor].event ELSE 0

\* closePreviewWindow: for a session its first window stands for the rest.
ClosePanes == IF CurrentClose = 0 THEN <<>> ELSE events[CurrentClose].windows[1]
-----------------------------------------------------------------------------
(* The preview *)

PreviewSHA == {Nodes(cursor)[p].sha : p \in {q \in NodeAt(treeCursor) :
                                                focus = "tree" /\ Kind(cursor, q) = "pane"}}

\* previewSHAs: all a frame shows, and for a close those it has no room for.
PreviewSHAs ==
    (IF mode = "close" THEN {ClosePanes[i] : i \in DOMAIN ClosePanes} ELSE PreviewSHA) \ {NoSha}

\* What is on show that no one has asked for: "(scrollback pending)".
Pending == PreviewSHAs \ (loaded \cup broken \cup loading)

\* Mutant: a read that failed is tried again.
PreviewCmd_Retry == loading' = loading \cup (PreviewSHAs' \ loaded)

\* Asks for what is on show after the step.
PreviewCmd == loading' = loading \cup (PreviewSHAs' \ (loaded \cup broken))

PaneHintShows ==
    /\ mode = "snapshot" /\ PreviewInner(screen) >= MapRows + 1 + TextRows
    /\ \E p \in NodeAt(treeCursor) : Kind(cursor, p) = "pane"
PaneScrollbackHeight ==
    Max({1, PreviewInner(screen) - IF PaneHintShows THEN MapRows + 1 ELSE 0})

CloseBlocks ==
    CloseBlockHeights([i \in DOMAIN ClosePanes |-> ClosePanes[i] \notin loaded],
                      PreviewInner(screen) - CloseHeaderLines)

Overflow(sha, height) == Max({0, Lines[sha] - height})
PreviewMaxScroll ==
    IF mode = "close"
      THEN Max({0} \cup {Overflow(ClosePanes[i], CloseBlocks[i] - 1) :
                            i \in {j \in DOMAIN CloseBlocks : ClosePanes[j] \in loaded}})
      ELSE Max({0} \cup {Overflow(s, PaneScrollbackHeight) : s \in PreviewSHA \cap loaded})
-----------------------------------------------------------------------------
(* Opening it: PickCmd.Run, SetCloseRows, Bootstrap, Init *)

Parse(e) == IF events[e].bad THEN {} ELSE {e}
Opened(e) == Decorate(e, BuildTree(e), NoFilter, filter)
FirstRow(i) == IF i \in DOMAIN events THEN {i} ELSE {}

InitSnapshot ==
    /\ mode = "snapshot" /\ events \in SnapshotLists
    /\ rows = <<>> /\ hidden = 0
    /\ cursor = 1
    /\ parsed = UNION {Parse(e) : e \in FirstRow(1)}
    /\ refused = FirstRow(1) \ parsed
    /\ expanded = [e \in DOMAIN events |-> IF e \in parsed THEN Opened(e) ELSE {}]
    /\ decorated = [e \in DOMAIN events |-> IF e \in parsed THEN filter ELSE NoFilter]

InitClose ==
    /\ mode = "close" /\ events \in CloseLists
    /\ rows = BuildCloseList(events) /\ hidden = HiddenCount(events)
    /\ cursor = IF Selectable = {} THEN 1 ELSE Min(Selectable)
    /\ parsed = {} /\ refused = {}
    /\ expanded = [e \in DOMAIN events |-> {}]
    /\ decorated = [e \in DOMAIN events |-> NoFilter]

Init ==
    /\ filter = [idle |-> FALSE, running |-> TRUE]
    /\ focus = "list" /\ treeCursor = 1 /\ scroll = 0
    /\ screen \in Screens
    /\ note = "" /\ selected = 0 /\ open = TRUE
    /\ loaded = {} /\ broken = {}
    /\ InitSnapshot \/ InitClose
    /\ loading = PreviewSHAs
-----------------------------------------------------------------------------
(* Messages from outside *)

\* tea.WindowSizeMsg
Resize ==
    /\ open /\ screen' \in Screens
    /\ UNCHANGED <<given, cursor, treeCursor, focus, filter, trees, cache, loading, scroll, outcome>>

\* scrollbackLoadedMsg, wherever the cursor has gone since.
ScrollbackLoaded(s) ==
    /\ open /\ s \in loading
    /\ loading' = loading \ {s}
    /\ \/ loaded' = loaded \cup {s} /\ UNCHANGED broken
       \/ broken' = broken \cup {s} /\ UNCHANGED loaded
    /\ UNCHANGED <<given, cursor, treeCursor, focus, filter, trees, scroll, screen, outcome>>

\* Drawing a frame decorates the tree under the cursor: CurrentCounts.
Frame ==
    /\ open /\ mode = "snapshot" /\ cursor \in parsed
    /\ expanded' = [expanded EXCEPT ![cursor] = Decorate(cursor, @, decorated[cursor], filter)]
    /\ decorated' = [decorated EXCEPT ![cursor] = filter]
    /\ UNCHANGED <<given, cursor, treeCursor, focus, filter, parsed, refused, cache, loading,
                   scroll, screen, outcome>>
-----------------------------------------------------------------------------
(* Cursors *)

\* A key clears the note of the one before.
Key == open /\ note' = "" /\ UNCHANGED <<given, screen, selected, open, cache>>
Mouse == open /\ UNCHANGED <<given, screen, outcome, cache>>

EnsureManifest(e) ==
    IF e \in parsed \cup refused THEN UNCHANGED trees
    ELSE /\ parsed' = parsed \cup Parse(e)
         /\ refused' = refused \cup ({e} \ Parse(e))
         /\ expanded' = [expanded EXCEPT ![e] = IF events[e].bad THEN {} ELSE Opened(e)]
         /\ decorated' = [decorated EXCEPT ![e] = IF events[e].bad THEN NoFilter ELSE filter]

ToSnapshot(e) ==
    /\ cursor' = e
    /\ EnsureManifest(e)
    /\ treeCursor' = IF e \in parsed' THEN FirstPaneIdx(e, expanded'[e]) ELSE 1
    /\ UNCHANGED <<focus, filter>>

ToClose(i) == cursor' = i /\ UNCHANGED <<treeCursor, focus, filter, trees>>

ToNode(i) == treeCursor' = i /\ UNCHANGED <<cursor, filter, trees>>

Stay == UNCHANGED <<cursor, treeCursor, focus, filter, trees, scroll>>

ListKey(dir) ==
    /\ Key /\ mode = "snapshot" /\ focus = "list"
    /\ IF cursor + dir \in DOMAIN events THEN ToSnapshot(cursor + dir) /\ scroll' = 0 ELSE Stay
    /\ PreviewCmd

CloseKey(dir) ==
    /\ Key /\ mode = "close"
    /\ LET i == Walk(Selectable, cursor, dir, 1)
       IN  IF i # cursor THEN ToClose(i) /\ scroll' = 0 ELSE Stay
    /\ PreviewCmd

TreeKey(dir) ==
    /\ Key /\ mode = "snapshot" /\ focus = "tree"
    /\ LET i == WalkTree(dir, 1)
       IN  IF i # treeCursor THEN ToNode(i) /\ UNCHANGED focus /\ scroll' = 0 ELSE Stay
    /\ PreviewCmd

Expand(p) ==
    /\ expanded' = [expanded EXCEPT ![cursor] = @ \cup {p}]
    /\ treeCursor' = FirstPaneIdxIn(cursor, p, expanded'[cursor])
    /\ UNCHANGED <<cursor, focus, filter, parsed, refused, decorated, scroll>>

\* Expands what is collapsed; either way dives to the first pane below.
RightKey ==
    /\ Key /\ mode = "snapshot" /\ focus = "tree"
    /\ LET parents == {p \in NodeAt(treeCursor) : Children(cursor, p) # {}}
       IN  IF parents = {} THEN Stay ELSE \E p \in parents : Expand(p)
    /\ PreviewCmd

\* Mutant: the cursor stays at its index.
Collapse_Stay(p) ==
    /\ expanded' = [expanded EXCEPT ![cursor] = @ \ {p}]
    /\ UNCHANGED <<cursor, treeCursor, focus, filter, parsed, refused, decorated, scroll>>

Collapse(p) ==
    /\ expanded' = [expanded EXCEPT ![cursor] = @ \ {p}]
    /\ treeCursor' = Rank(p, Shown(cursor, expanded'[cursor]))
    /\ UNCHANGED <<cursor, focus, filter, parsed, refused, decorated, scroll>>

\* Collapses the nearest expanded node at or above the cursor.
LeftKey ==
    /\ Key /\ mode = "snapshot" /\ focus = "tree"
    /\ LET open_ == UNION {{p} \cup Ancestors(cursor, p) : p \in NodeAt(treeCursor)}
           parents == {p \in open_ : p \in expanded[cursor] /\ Children(cursor, p) # {}}
       IN  IF parents = {} THEN Stay ELSE Collapse(Max(parents))
    /\ PreviewCmd

TabKey ==
    /\ Key /\ mode = "snapshot"
    /\ focus' = IF focus = "list" THEN "tree" ELSE "list"
    /\ treeCursor' =
         IF focus = "tree" \/ \E p \in NodeAt(treeCursor) : Kind(cursor, p) = "pane" THEN treeCursor
         ELSE IF cursor \in parsed THEN FirstPaneIdx(cursor, expanded[cursor]) ELSE 1
    /\ UNCHANGED <<cursor, filter, trees, scroll>>
    /\ PreviewCmd
-----------------------------------------------------------------------------
(* Filters, preview and outcome *)

\* Mutant: only the tree on show is decorated anew.
Redecorate_Shown(f) ==
    /\ expanded' = [e \in DOMAIN events |->
                      IF e \in parsed /\ e = cursor THEN Decorate(e, expanded[e], decorated[e], f) ELSE expanded[e]]
    /\ decorated' = [e \in DOMAIN events |-> IF e \in parsed /\ e = cursor THEN f ELSE decorated[e]]

\* Every tree that has been built.
Redecorate(f) ==
    /\ expanded' = [e \in DOMAIN events |->
                      IF e \in parsed THEN Decorate(e, expanded[e], decorated[e], f) ELSE expanded[e]]
    /\ decorated' = [e \in DOMAIN events |-> IF e \in parsed THEN f ELSE decorated[e]]

\* Neither the tree's cursor nor the preview is looked after.
ToggleKey(option) ==
    /\ Key /\ mode = "snapshot"
    /\ filter' = [filter EXCEPT ![option] = ~@]
    /\ Redecorate(filter')
    /\ UNCHANGED <<cursor, treeCursor, focus, parsed, refused, loading, scroll>>

\* Mutant: scrolling back has no floor.
PreviewKey_Below(dir) ==
    /\ Key
    /\ scroll' = IF dir = 1 /\ scroll < PreviewMaxScroll THEN scroll + 1
                 ELSE IF dir = -1 THEN scroll - 1 ELSE scroll
    /\ UNCHANGED <<cursor, treeCursor, focus, filter, trees, loading>>

PreviewKey(dir) ==
    /\ Key
    /\ scroll' = IF dir = 1 /\ scroll < PreviewMaxScroll THEN scroll + 1
                 ELSE IF dir = -1 /\ scroll > 0 THEN scroll - 1 ELSE scroll
    /\ UNCHANGED <<cursor, treeCursor, focus, filter, trees, loading>>

Finish(e) == selected' = e /\ open' = FALSE /\ note' = ""
Warn(text) == note' = text /\ UNCHANGED <<selected, open>>

EnterKey ==
    /\ open
    /\ IF mode = "close"
         THEN IF cursor \in DOMAIN rows THEN Finish(rows[cursor].event) ELSE Warn("")
       ELSE IF cursor \notin DOMAIN events THEN Warn("")
       ELSE IF cursor \in refused THEN Warn("invalid manifest")
       ELSE IF cursor \notin parsed THEN Warn("manifest not loaded yet")
       ELSE Finish(cursor)
    /\ UNCHANGED <<given, cursor, treeCursor, focus, filter, trees, cache, loading, scroll, screen>>

QuitKey ==
    /\ open /\ open' = FALSE /\ note' = ""
    /\ UNCHANGED <<given, cursor, treeCursor, focus, filter, trees, cache, loading, scroll, screen, selected>>
-----------------------------------------------------------------------------
(* The mouse *)

Zones ==
    IF screen.width = "narrow" THEN {"list"}
    ELSE {"list", "preview"} \cup IF mode = "snapshot" THEN {"tree"} ELSE {}

Clamp(i) == Max({1, Min({i, Len(events)})})

WheelList(dir) ==
    /\ Mouse
    /\ \/ /\ mode = "close"
          /\ ToClose(Walk(Selectable, cursor, dir, WheelRows))
       \/ /\ mode = "snapshot" /\ Len(events) > 0
          /\ ToSnapshot(Clamp(cursor + dir * WheelRows))
    /\ scroll' = 0
    /\ PreviewCmd

WheelTree(dir) ==
    /\ Mouse /\ "tree" \in Zones
    /\ ToNode(WalkTree(dir, WheelRows)) /\ focus' = "tree"
    /\ scroll' = 0
    /\ PreviewCmd

\* Mutant: scrolling up stops at the last line, not at the last screenful.
WheelPreview_Far(dir) ==
    /\ Mouse /\ "preview" \in Zones
    /\ scroll' = IF dir = 1 THEN Min({scroll + WheelRows, PreviewMaxScroll + WheelRows})
                            ELSE Max({0, scroll - WheelRows})
    /\ UNCHANGED <<cursor, treeCursor, focus, filter, trees, loading>>

\* Up is into the past, and takes back an offset that has become too large.
WheelPreview(dir) ==
    /\ Mouse /\ "preview" \in Zones
    /\ scroll' = IF dir = 1 THEN Min({scroll + WheelRows, PreviewMaxScroll})
                            ELSE Max({0, scroll - WheelRows})
    /\ UNCHANGED <<cursor, treeCursor, focus, filter, trees, loading>>

\* The zone of a cell and its row there; the column it is in, left to right,
\* is what the widths of the panes make of x.
ZoneAt(column, y) ==
    LET bodyH == screen.height - FooterLines
        topH == bodyH - PanelFrame(screen)
    IN  IF y >= bodyH THEN [zone |-> "none", row |-> 0]
        ELSE IF Stacked(screen) /\ y >= topH THEN [zone |-> "preview", row |-> y - topH - 1]
        ELSE [zone |-> column, row |-> y - 1]

\* The columns a click may select in, at the top of the screen.
Columns == IF screen.width = "narrow" \/ mode = "close" THEN {"list"} ELSE {"list", "tree"}

\* The index a click on a row of the list or of the tree selects: none or one.
\* Row 0 is the first below the border.
ClickedClose(row) ==
    LET w == CloseListWindow(cursor, Len(rows), Headers, ListPaneHeight(screen), hidden)
        base == IF w.pin = 0 THEN 0 ELSE 1
    IN  {i \in Selectable : row >= base /\ i = w.above + row - base + 1 /\ i <= w.last}
ClickedSnapshot(row) ==
    LET w == ListWindow(cursor, Len(events), ListPaneHeight(screen), hidden)
    IN  {i \in DOMAIN events : row >= 0 /\ row < RowBudget(ListPaneHeight(screen), hidden)
                               /\ i = w.above + row + 1 /\ i <= w.last}
TreeWindow(height) ==
    ScrollWindow(IF focus = "tree" THEN treeCursor ELSE 0, Cardinality(VisibleNodes), Max({height - 3, 1}))
ClickedNode(row) ==
    LET w == TreeWindow(ListPaneHeight(screen))
    IN  {i \in 1..w.last : row >= 1 /\ i = w.above + row /\ \E p \in NodeAt(i) : IsNavTarget(p)}

Clicked(column, y) ==
    LET at == ZoneAt(column, y)
    IN  CASE at.zone = "list" /\ mode = "close" -> ClickedClose(at.row)
          [] at.zone = "list" /\ mode = "snapshot" -> ClickedSnapshot(at.row)
          [] at.zone = "tree" -> ClickedNode(at.row)
          [] OTHER -> {}

Click(column, y) ==
    /\ Mouse /\ column \in Columns
    /\ \E i \in Clicked(column, y) :
         \/ column = "list" /\ mode = "close" /\ ToClose(i)
         \/ column = "list" /\ mode = "snapshot" /\ ToSnapshot(i)
         \/ column = "tree" /\ ToNode(i) /\ focus' = "tree"
    /\ scroll' = 0
    /\ PreviewCmd
-----------------------------------------------------------------------------
Next ==
    \/ Resize \/ Frame \/ \E s \in loading : ScrollbackLoaded(s)
    \/ RightKey \/ LeftKey \/ TabKey \/ EnterKey \/ QuitKey
    \/ \E option \in {"idle", "running"} : ToggleKey(option)
    \/ \E dir \in {-1, 1} :
         \/ ListKey(dir) \/ CloseKey(dir) \/ TreeKey(dir) \/ PreviewKey(dir)
         \/ WheelList(dir) \/ WheelTree(dir) \/ WheelPreview(dir)
    \/ \E column \in {"list", "tree"}, y \in 0..screen.height - 1 : Click(column, y)

Spec == Init /\ [][Next]_vars

\* Bubble Tea runs each read in a goroutine of its own and delivers its answer.
FairSpec == Spec /\ \A s \in Shas : WF_vars(ScrollbackLoaded(s))
-----------------------------------------------------------------------------
(* Properties *)

TypeOK ==
    /\ mode \in {"snapshot", "close"} /\ hidden \in Nat
    /\ cursor \in Nat \ {0} /\ treeCursor \in Nat \ {0}
    /\ focus \in {"list", "tree"} /\ filter \in Filters
    /\ parsed \subseteq DOMAIN events /\ refused \subseteq DOMAIN events
    /\ expanded \in [DOMAIN events -> SUBSET Nat]
    /\ decorated \in [DOMAIN events -> Filters]
    /\ loaded \subseteq Shas /\ broken \subseteq Shas /\ loading \subseteq Shas
    /\ scroll \in Nat /\ screen \in Screens
    /\ note \in {"", "invalid manifest", "manifest not loaded yet"}
    /\ selected \in {0} \cup DOMAIN events /\ open \in BOOLEAN

\* What the tree shows as kept is what Enter restores, for every tree that was
\* ever looked at and under any order of moves and filter toggles; and Enter
\* never finds a manifest nobody has parsed.  FilterDecorate (tree.go) and
\* BuildPlan (restore/plan.go) decide this each on their own.
EnterRestoresShown ==
    /\ \A e \in parsed : KeptPanes(e, decorated[e]) = PlannedPanes(e, filter)
    /\ note # "manifest not loaded yet"
    /\ mode = "snapshot" /\ selected # 0 => selected \in parsed

\* The cursor of the tree is on a row of it, that of the close list on a close
\* if there is one, and every screen on show has been asked for.
Settled ==
    /\ mode = "snapshot" => treeCursor <= Max({1, Cardinality(VisibleNodes)})
    /\ mode = "close" /\ Selectable # {} => cursor \in Selectable
    /\ Pending = {}

\* Of all keys, clicks, late answers and sizes only a filter toggle, which
\* folds the tree under the cursor, leaves a cursor on no row or a preview
\* that nobody loads (model.go: redecorate returns no command, PreviewCmd asks
\* for all the panes a close stacks).
OnlyTogglesUnsettle == Settled /\ [][Settled /\ ~Settled' => filter' # filter]_vars

\* Where View draws: the rows of each column below its border, 0 for a row
\* that is no entry, and what lies past the frame cut off.
Drawn(column) ==
    LET height == TopHeight(screen)
        list == IF mode = "close" THEN CloseListWindow(cursor, Len(rows), Headers, height, hidden)
                ELSE CloseListWindow(cursor, Len(events), {}, height, hidden)
        tree == TreeWindow(height)
        Lines_(w) == [k \in 1..w.last - w.above |-> w.above + k]
        lines == IF column = "tree" THEN <<0>> \o Lines_(tree)
                 ELSE (IF list.pin = 0 THEN <<>> ELSE <<list.pin>>) \o Lines_(list)
    IN  SubSeq(lines, 1, Min({Len(lines), height - 1}))

Selects(column, i) ==
    CASE column = "tree" -> \E p \in NodeAt(i) : IsNavTarget(p)
      [] mode = "close" -> i \in Selectable
      [] OTHER -> i \in DOMAIN events

\* A click selects the row that is drawn under the pointer, on every cell of
\* every layout, scrolled or not, with or without a pinned section header and
\* the count of hidden closes (mouse.go and view.go compute this apart).
PointerTruth ==
    \A column \in Columns :
        LET drawn == Drawn(column)
        IN  \A y \in 0..screen.height - 1 :
                Clicked(column, y) = {i \in {drawn[k] : k \in {y} \cap DOMAIN drawn} : Selects(column, i)}

\* The row under the cursor is always drawn, the list leaves its frame the row
\* of the hidden count, and the stacked blocks of a close have a row of screen
\* each and together no more rows than the panel (view.go, preview.go).
FramesHold ==
    LET height == TopHeight(screen)
        entries == IF mode = "close" THEN rows ELSE events
        footer == IF entries # <<>> /\ FooterShows(height, hidden) THEN 1 ELSE 0
        inner == PreviewInner(screen) - CloseHeaderLines
    IN  /\ entries # <<>> => cursor \in Range(Drawn("list"))
        /\ Len(Drawn("list")) + footer <= ListRows(height)
        /\ \A i \in DOMAIN CloseBlocks : CloseBlocks[i] >= 2
        /\ CloseBlocks # <<>> => MapThenSumSet(LAMBDA i : CloseBlocks[i], DOMAIN CloseBlocks) <= inner

\* In the close list only a smaller terminal can put the offset past the end
\* of the longest screen: not a move, nor a screen that arrives late and
\* shrinks the blocks of the others (preview.go: closeMaxScroll).
CloseOffsetStays ==
    [][mode = "close" /\ scroll <= PreviewMaxScroll /\ scroll' > PreviewMaxScroll'
         => screen' # screen]_vars

\* A screen is read at most once and its read answered: what module
\* PreviewCache promises (model.go: PreviewCmd, Update).
Cache == INSTANCE PreviewCache WITH
    status <- [s \in Shas |-> IF s \in loaded THEN "held" ELSE IF s \in broken THEN "failed"
                              ELSE IF s \in loading THEN "asked" ELSE "unasked"]
PreviewsAnswered == Cache!Spec
=============================================================================
