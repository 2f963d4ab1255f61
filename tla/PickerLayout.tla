---------------------------- MODULE PickerLayout ----------------------------
(***************************************************************************)
(* Where the picker puts its panes and which rows of a list it draws.      *)
(* A screen is [width, height]: "narrow" is below 80 columns, "stacked" up *)
(* to 119 (155 for the close list), "wide" beyond.  Rows and indexes start *)
(* at 1; a window is the number of rows above it and its last row.         *)
(***************************************************************************)
EXTENDS Integers, FiniteSetsExt

CONSTANTS
    MapRows,    \* paneMapHintHeight: the strip above a pane's screen
    TextRows    \* the rows of the screen that must be left for the strip to show

ASSUME LayoutAssumption == {MapRows, TextRows} \subseteq Nat

CloseHeaderLines == 2
FooterLines == 1

\* Screens of fewer rows than this get a body that does not fit.
MinHeight == 6

Body(screen) == Max({screen.height - FooterLines, 5})

Stacked(screen) == screen.width = "stacked"

PanelFrame(screen) ==
    IF Stacked(screen) THEN Body(screen) - Body(screen) \div 2 ELSE Body(screen)

\* The height View draws the list and the tree with, and the one a click
\* is looked up with.
TopHeight(screen) ==
    IF Stacked(screen) THEN Body(screen) - PanelFrame(screen) ELSE Body(screen)

\* Mutant: the list is taken to have the whole body when stacked.
ListPaneHeight_Whole(screen) == Body(screen)

ListPaneHeight(screen) ==
    IF Stacked(screen) THEN Body(screen) - PanelFrame(screen) ELSE Body(screen)

PreviewInner(screen) == Max({PanelFrame(screen) - 2, 1})

\* Rows of total around the cursor (0: none), at most so many.
ScrollWindow(cursor, total, rows) ==
    LET centered == Max({cursor - 1 - rows \div 2, 0})
    IN  IF total <= rows THEN [above |-> 0, last |-> total]
        ELSE IF centered + rows > total THEN [above |-> total - rows, last |-> total]
        ELSE [above |-> centered, last |-> centered + rows]

\* The rows a list of a height has: the bottom one goes to the count of
\* hidden closes.
ListRows(height) == Max({height - 2, 1})
FooterShows(height, hidden) == hidden > 0 /\ ListRows(height) > 1
RowBudget(height, hidden) ==
    IF FooterShows(height, hidden) THEN ListRows(height) - 1 ELSE ListRows(height)

ListWindow(cursor, total, height, hidden) ==
    ScrollWindow(cursor, total, RowBudget(height, hidden))

\* Mutant: the pinned header takes no row of the budget.
CloseListWindow_NoRoom(cursor, total, headers, height, hidden) ==
    LET budget == RowBudget(height, hidden)
        whole == ScrollWindow(cursor, total, budget)
        header == Max({0} \cup {h \in headers : h <= cursor})
        pin == IF header > whole.above \/ budget < 2 THEN 0 ELSE header
    IN  [pin |-> pin, above |-> whole.above, last |-> whole.last]

\* The header of the cursor's section is pinned (0: none is) once it has
\* scrolled off, and takes a row of the budget.
CloseListWindow(cursor, total, headers, height, hidden) ==
    LET budget == RowBudget(height, hidden)
        whole == ScrollWindow(cursor, total, budget)
        header == Max({0} \cup {h \in headers : h <= cursor})
        pin == IF header > whole.above \/ budget < 2 THEN 0 ELSE header
        rest == IF pin = 0 THEN whole ELSE ScrollWindow(cursor, total, budget - 1)
    IN  [pin |-> pin, above |-> rest.above, last |-> rest.last]

\* The rows of each pane's block, its label among them, when the panel has so
\* many: two for a pane that shows a note, an even share of the rest for the
\* others, none for the panes past what fits.
CloseBlockHeights(noted, rows) ==
    LET shown == 1..Min({Cardinality(DOMAIN noted), rows \div 2})
        flexible == {i \in shown : ~noted[i]}
        rest == rows - 2 * Cardinality(shown \ flexible)
        base == rest \div Cardinality(flexible)
        Extra(i) == IF Cardinality({j \in flexible : j < i}) < rest % Cardinality(flexible)
                    THEN 1 ELSE 0
    IN  [i \in shown |-> IF noted[i] THEN 2 ELSE base + Extra(i)]
=============================================================================
