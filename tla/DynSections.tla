----------------------------- MODULE DynSections -----------------------------
(* The table of files.html and the scripts that fold it: dynsections.js.        *)
EXTENDS FolderTree

VARIABLES
  shown,  \* rows that are drawn
  open,   \* rows with the icon and the arrow of an open folder, drawn or not
  even    \* rows with the class "even"

vars == <<shown, open, even>>

\* The order of the rows in the table.
Before(x, y) ==
  \/ y \in Below(x)
  \/ \E i \in DOMAIN x \cap DOMAIN y : x[i] < y[i] /\ \A j \in 1..i - 1 : x[j] = y[j]

updateStripes(rows) == {r \in rows : Cardinality({x \in rows : Before(x, r)}) % 2 = 0}

Init ==
  /\ shown = Row
  /\ open = Folder
  /\ even = updateStripes(Row)

\* The branch that hides: the rows that go keep their icons.
Hide(f) ==
  /\ open' = open \ {f}
  /\ shown' = shown \ Below(f)

ShowKeepsIcons(f) ==
  /\ open' = open \cup {f}
  /\ shown' = shown \cup Children(f)

\* The branch that shows: folders among the rows that come are closed.
Show(f) ==
  /\ open' = (open \cup {f}) \ Children(f)
  /\ shown' = shown \cup Children(f)

\* What toggleFolder would be without its last line.
toggleFolderKeepsStripes(f) ==
  /\ f \in Folder \cap shown
  /\ IF Append(f, 0) \in shown THEN Hide(f) ELSE Show(f)
  /\ UNCHANGED even

\* The reader clicks the arrow or the icon of a folder that is drawn.  Whether
\* it hides or shows depends on its first row, not on the icon.
toggleFolder(f) ==
  /\ f \in Folder \cap shown
  /\ IF Append(f, 0) \in shown THEN Hide(f) ELSE Show(f)
  /\ even' = updateStripes(shown')

toggleLevelKeepsIcons(level) ==
  /\ shown' = {r \in Row : Len(r) <= level}
  /\ open' = open \cup {f \in Folder : Len(f) < level}
  /\ even' = updateStripes(shown')

\* Rows below the level are hidden and keep their icons.
toggleLevel(level) ==
  /\ shown' = {r \in Row : Len(r) <= level}
  /\ open' = {f \in Folder : Len(f) < level \/ (Len(f) > level /\ f \in open)}
  /\ even' = updateStripes(shown')

Next ==
  \/ \E f \in Row : toggleFolder(f)
  \/ \E level \in Levels : toggleLevel(level)

Spec == Init /\ [][Next]_vars

-------------------------------------------------------------------------------
\* Rows and icons are those of the table.
TypeOK == shown \subseteq Row /\ open \subseteq Folder /\ even \subseteq shown

\* A row is drawn exactly if it is at the top or in a folder that is drawn and has
\* the open icon, whatever icons the hidden rows were left with.
RowsFollowIcons ==
  /\ \A r \in Row : Len(r) = 1 => r \in shown
  /\ \A f \in Row : \A r \in Children(f) : r \in shown <=> (f \in shown /\ f \in open)

\* Of two rows drawn one after the other exactly one is striped.
StripesAlternate ==
  \A x, y \in shown :
    (Before(x, y) /\ ~\E z \in shown : Before(x, z) /\ Before(z, y)) => (x \in even <=> y \notin even)

Tree == INSTANCE Outline WITH expanded <- shown \cap open

\* The table is a tree of folders that the reader expands and collapses.
IsOutline == Tree!Spec

=============================================================================
