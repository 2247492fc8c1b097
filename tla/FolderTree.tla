------------------------------ MODULE FolderTree ------------------------------
(* The rows of files.html: folders and the files in them.                       *)
EXTENDS Naturals, Sequences, FiniteSets

CONSTANTS
  Row,    \* ids of the rows: "row_1_0_" is <<1, 0>>
  Levels  \* the levels of detail offered above the table

\* Rows whose id begins with that of f, and those with one number more.
Below(f) == {r \in Row : Len(f) < Len(r) /\ \A i \in 1..Len(f) : r[i] = f[i]}
Children(f) == {r \in Below(f) : Len(r) = Len(f) + 1}
Folder == {f \in Row : Children(f) # {}}

\* A page has finitely many rows.  Every row is at the top or in a folder; a folder's
\* rows count from zero.
ASSUME RowAssumption ==
  /\ IsFiniteSet(Row) /\ Row \subseteq Seq(Nat)
  /\ \A r \in Row : Len(r) = 1 \/ (Len(r) > 1 /\ \E f \in Row : r \in Children(f))
  /\ \A f \in Folder : Append(f, 0) \in Row

ASSUME LevelsAssumption == Levels \subseteq Nat \ {0}

=============================================================================
