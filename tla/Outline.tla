------------------------------- MODULE Outline -------------------------------
(* What the reader of a list of files works with: a tree whose folders are      *)
(* expanded or not.                                                             *)
EXTENDS FolderTree

VARIABLE expanded

Expandable(f) == f \in Folder /\ (Len(f) = 1 \/ \E g \in expanded : f \in Children(g))

Init == expanded = Folder

Expand(f) == Expandable(f) /\ f \notin expanded /\ expanded' = expanded \cup {f}

\* What is in a folder that is expanded again is not.
Collapse(f) == Expandable(f) /\ f \in expanded /\ expanded' = expanded \ ({f} \cup Below(f))

ShowLevel(level) == expanded' = {f \in Folder : Len(f) < level}

Next ==
  \/ \E f \in Folder : Expand(f) \/ Collapse(f)
  \/ \E level \in Levels : ShowLevel(level)

Spec == Init /\ [][Next]_expanded

=============================================================================
