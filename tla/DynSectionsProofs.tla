--------------------------- MODULE DynSectionsProofs ---------------------------
(* Why the table of files.html is a tree of folders, for every tree and choice  *)
(* of levels.                                                                   *)
EXTENDS DynSections, FiniteSetTheorems, WellFoundedInduction, TLAPS

\* Rows are sequences, folders are rows, and what is below a row is a row.
LEMMA RowFacts ==
  /\ \A r \in Row : r \in Seq(Nat) /\ Len(r) \in Nat \ {0}
  /\ Folder \subseteq Row
  /\ \A f \in Row : Children(f) \subseteq Below(f) /\ Below(f) \subseteq Row
<1>1. \A f \in Row : Children(f) \subseteq Below(f) /\ Below(f) \subseteq Row
  BY DEF Children, Below
<1>2. ASSUME NEW r \in Row PROVE r \in Seq(Nat) /\ Len(r) \in Nat \ {0}
  <2>1. r \in Seq(Nat) /\ (Len(r) = 1 \/ Len(r) > 1)
    BY RowAssumption
  <2>2. Len(r) \in Nat
    BY <2>1
  <2> QED BY <2>1, <2>2
<1> QED BY <1>1, <1>2 DEF Folder

\* A row is in one folder only.
LEMMA OneFolder ==
  ASSUME NEW f \in Row, NEW g \in Row, NEW r \in Children(f), r \in Children(g)
  PROVE  f = g
<1>1. Len(f) = Len(g) /\ \A i \in 1..Len(f) : f[i] = g[i]
  BY RowFacts DEF Children, Below
<1>2. f \in Seq(Nat) /\ g \in Seq(Nat)
  BY RowFacts
<1> QED BY <1>1, <1>2

\* What is below a folder is below one of the rows on the way to it.
LEMMA BelowThroughFolder ==
  ASSUME NEW f \in Row, NEW p \in Row, NEW r \in Children(p)
  PROVE  r \in Below(f) <=> (p = f \/ p \in Below(f))
<1>1. /\ r \in Row /\ Len(r) = Len(p) + 1 /\ \A i \in 1..Len(p) : r[i] = p[i]
      /\ f \in Seq(Nat) /\ p \in Seq(Nat) /\ Len(f) \in Nat /\ Len(p) \in Nat
  BY RowFacts DEF Children, Below
<1>2. ASSUME r \in Below(f), Len(f) = Len(p) PROVE p = f
  BY <1>1, <1>2 DEF Below
<1>3. ASSUME r \in Below(f), Len(f) # Len(p) PROVE p \in Below(f)
  BY <1>1, <1>3 DEF Below
<1>4. ASSUME p \in Below(f) PROVE r \in Below(f)
  BY <1>1, <1>4 DEF Below
<1>5. ASSUME p = f PROVE r \in Below(f)
  BY <1>1, <1>5 DEF Below
<1> QED BY <1>2, <1>3, <1>4, <1>5

\* The first row of a folder is one of its children.
LEMMA FirstChild ==
  ASSUME NEW f \in Folder
  PROVE  Append(f, 0) \in Children(f)
<1>1. f \in Seq(Nat) /\ Len(f) \in Nat /\ Append(f, 0) \in Row
  BY RowFacts, RowAssumption
<1>2. Len(Append(f, 0)) = Len(f) + 1 /\ \A i \in 1..Len(f) : Append(f, 0)[i] = f[i]
  BY <1>1
<1>3. \A r \in Row : (Len(r) = Len(f) + 1 /\ \A i \in 1..Len(f) : r[i] = f[i]) => r \in Children(f)
  BY <1>1 DEF Children, Below
<1> QED BY <1>1, <1>2, <1>3

-------------------------------------------------------------------------------
\* Rows and icons in their types; the stripes, which decide nothing, are left out.
TypeInv == shown \subseteq Row /\ open \subseteq Folder

IInv == TypeInv /\ RowsFollowIcons

LEMMA InitInv == Init => IInv
<1> SUFFICES ASSUME Init PROVE IInv
  OBVIOUS
<1>1. \A f \in Row : Children(f) \subseteq Row /\ (Children(f) # {} => f \in Folder)
  BY RowFacts DEF Folder
<1> QED BY <1>1 DEF Init, IInv, TypeInv, RowsFollowIcons

\* A folder that is drawn is open exactly if its first row is drawn.
LEMMA FirstRowTells ==
  ASSUME IInv, NEW f \in Folder \cap shown
  PROVE  Append(f, 0) \in shown <=> f \in open
BY FirstChild, RowFacts DEF IInv, RowsFollowIcons

LEMMA HideKeeps ==
  ASSUME IInv, NEW f \in Folder \cap shown, Hide(f)
  PROVE  IInv'
<1>1. TypeInv'
  BY DEF IInv, TypeInv, Hide
<1>2. ASSUME NEW r \in Row, Len(r) = 1 PROVE r \in shown'
  <2>1. r \notin Below(f)
    BY <1>2, RowFacts DEF Below
  <2> QED BY <2>1, <1>2 DEF IInv, RowsFollowIcons, Hide
<1>3. ASSUME NEW p \in Row, NEW r \in Children(p)
      PROVE  r \in shown' <=> (p \in shown' /\ p \in open')
  <2>1. r \in shown <=> (p \in shown /\ p \in open)
    BY DEF IInv, RowsFollowIcons
  <2>2. r \in Below(f) <=> (p = f \/ p \in Below(f))
    BY BelowThroughFolder, RowFacts
  <2>3. f \notin Below(f)
    BY RowFacts DEF Below
  <2> QED BY <2>1, <2>2, <2>3 DEF Hide
<1> QED BY <1>1, <1>2, <1>3 DEF IInv, RowsFollowIcons

LEMMA ShowKeeps ==
  ASSUME IInv, NEW f \in Folder \cap shown, f \notin open, Show(f)
  PROVE  IInv'
<1>1. TypeInv'
  BY RowFacts DEF IInv, TypeInv, Show
<1>2. ASSUME NEW r \in Row, Len(r) = 1 PROVE r \in shown'
  BY <1>2 DEF IInv, RowsFollowIcons, Show
<1>3. ASSUME NEW p \in Row, NEW r \in Children(p)
      PROVE  r \in shown' <=> (p \in shown' /\ p \in open')
  <2>1. /\ r \in shown <=> (p \in shown /\ p \in open)
        /\ p \in Children(f) => p \notin shown
    BY RowFacts DEF IInv, RowsFollowIcons
  <2>2. r \in Children(f) <=> p = f
    BY OneFolder, RowFacts
  <2>3. f \notin Children(f)
    BY RowFacts DEF Children
  <2> QED BY <2>1, <2>2, <2>3 DEF Show
<1> QED BY <1>1, <1>2, <1>3 DEF IInv, RowsFollowIcons

LEMMA LevelKeeps ==
  ASSUME IInv, NEW level \in Levels, toggleLevel(level)
  PROVE  IInv'
<1>0. level \in Nat \ {0}
  BY LevelsAssumption
<1>1. TypeInv'
  BY DEF TypeInv, toggleLevel
<1>2. ASSUME NEW r \in Row, Len(r) = 1 PROVE r \in shown'
  BY <1>0, <1>2 DEF toggleLevel
<1>3. ASSUME NEW p \in Row, NEW r \in Children(p)
      PROVE  r \in shown' <=> (p \in shown' /\ p \in open')
  <2>1. r \in Row /\ p \in Folder /\ Len(r) = Len(p) + 1 /\ Len(p) \in Nat
    BY RowFacts DEF Folder, Children
  <2> QED BY <1>0, <2>1 DEF toggleLevel
<1> QED BY <1>1, <1>2, <1>3 DEF IInv, RowsFollowIcons

LEMMA StepInv == IInv /\ [Next]_vars => IInv'
<1> SUFFICES ASSUME IInv, [Next]_vars PROVE IInv'
  OBVIOUS
<1>1. ASSUME NEW f \in Row, toggleFolder(f) PROVE IInv'
  BY <1>1, FirstRowTells, HideKeeps, ShowKeeps DEF toggleFolder
<1>2. ASSUME NEW level \in Levels, toggleLevel(level) PROVE IInv'
  BY <1>2, LevelKeeps
<1>3. CASE UNCHANGED vars
  BY <1>3 DEF vars, IInv, TypeInv, RowsFollowIcons
<1> QED BY <1>1, <1>2, <1>3 DEF Next

\* A row of the list of files is drawn exactly if it is at the top or in a folder
\* that is drawn and open (toggleFolder, toggleLevel), for every tree of rows.
THEOREM RowsFollow == Spec => []RowsFollowIcons
<1>1. IInv => RowsFollowIcons
  BY DEF IInv
<1> QED BY InitInv, StepInv, <1>1, PTL DEF Spec

-------------------------------------------------------------------------------
\* The refinement: a folder is expanded if it is drawn and open.

LEMMA InitRefines == Init => Tree!Init
BY RowFacts DEF Init, Tree!Init, Tree!Folder, Folder, Tree!Children, Children, Tree!Below, Below

\* A folder that is drawn can be reached in the tree.
LEMMA DrawnIsExpandable ==
  ASSUME IInv, NEW f \in Folder \cap shown
  PROVE  Tree!Expandable(f)
<1>1. CASE Len(f) = 1
  BY <1>1 DEF Tree!Expandable, Tree!Folder, Folder, Tree!Children, Children, Tree!Below, Below
<1>2. CASE Len(f) # 1
  <2>1. PICK g \in Row : f \in Children(g)
    BY <1>2, RowAssumption, RowFacts
  <2>2. g \in shown \cap open
    BY <2>1 DEF IInv, RowsFollowIcons
  <2> QED BY <2>1, <2>2 DEF Tree!Expandable, Tree!Folder, Folder, Tree!Children, Children, Tree!Below, Below
<1> QED BY <1>1, <1>2

LEMMA FolderRefines ==
  ASSUME IInv, NEW f \in Row, toggleFolder(f)
  PROVE  Tree!Expand(f) \/ Tree!Collapse(f)
<1>1. f \in Folder \cap shown /\ Tree!Expandable(f)
  BY DrawnIsExpandable DEF toggleFolder
<1>2. CASE f \in open
  <2>1. Hide(f)
    BY <1>1, <1>2, FirstRowTells DEF toggleFolder
  <2>2. (shown \cap open)' = (shown \cap open) \ ({f} \cup Below(f))
    BY <2>1 DEF Hide
  <2> QED BY <1>1, <1>2, <2>2 DEF Tree!Collapse, Tree!Below, Below
<1>3. CASE f \notin open
  <2>1. Show(f)
    BY <1>1, <1>3, FirstRowTells DEF toggleFolder
  <2>2. \A r \in Children(f) : r \notin shown
    BY <1>1, <1>3, RowFacts DEF IInv, RowsFollowIcons
  <2>3. f \notin Children(f)
    BY <1>1, RowFacts DEF Children
  <2>4. (shown \cap open)' = (shown \cap open) \cup {f}
    BY <1>1, <2>1, <2>2, <2>3 DEF Show
  <2> QED BY <1>1, <1>3, <2>4 DEF Tree!Expand
<1> QED BY <1>2, <1>3

LEMMA LevelRefines ==
  ASSUME NEW level \in Levels, toggleLevel(level)
  PROVE  Tree!ShowLevel(level)
<1>1. (shown \cap open)' = {f \in Folder : Len(f) < level}
  BY RowFacts, LevelsAssumption DEF toggleLevel
<1> QED BY <1>1 DEF Tree!ShowLevel, Tree!Folder, Folder, Tree!Children, Children, Tree!Below, Below

LEMMA StepRefines == IInv /\ [Next]_vars => [Tree!Next]_(shown \cap open)
<1> SUFFICES ASSUME IInv, [Next]_vars PROVE [Tree!Next]_(shown \cap open)
  OBVIOUS
<1>1. ASSUME NEW f \in Row, toggleFolder(f) PROVE Tree!Next
  <2>1. f \in Tree!Folder
    BY <1>1 DEF toggleFolder, Tree!Folder, Folder, Tree!Children, Children, Tree!Below, Below
  <2> QED BY <1>1, <2>1, FolderRefines DEF Tree!Next
<1>2. ASSUME NEW level \in Levels, toggleLevel(level) PROVE Tree!Next
  BY <1>2, LevelRefines DEF Tree!Next
<1>3. CASE UNCHANGED vars
  BY <1>3 DEF vars
<1> QED BY <1>1, <1>2, <1>3 DEF Next

\* toggleFolder and toggleLevel work the table as a tree of folders that are
\* expanded and collapsed, a collapsed folder forgetting what was open in it.
THEOREM TableIsOutline == Spec => IsOutline
BY InitInv, StepInv, InitRefines, StepRefines, PTL DEF Spec, IsOutline, Tree!Spec

-------------------------------------------------------------------------------
(* The stripes *)

LEMMA Least ==
  ASSUME NEW T \in SUBSET Nat, T # {}
  PROVE  \E x \in T : \A y \in T : x <= y
<1> DEFINE R == OpToRel(<, Nat)
<1>1. IsWellFoundedOn(R, Nat)
  BY NatLessThanWellFounded
<1> HIDE DEF R
<1>2. \E x \in T : \A y \in T : ~(<<y, x>> \in R)
  BY <1>1, WFMin
<1>3. \A x, y \in Nat : <<y, x>> \in R <=> y < x
  BY DEF OpToRel, R
<1>4. \E x \in T : \A y \in T : ~(y < x)
  BY <1>2, <1>3, Zenon
<1> QED BY <1>4

\* The two ways in which a row comes before another, without Row.
Begins(x, y) == Len(x) < Len(y) /\ \A i \in 1..Len(x) : y[i] = x[i]
Differs(x, y, i) ==
  i \in 1..Len(x) /\ i \in 1..Len(y) /\ x[i] < y[i] /\ \A j \in 1..i - 1 : x[j] = y[j]

LEMMA BeforeMeans ==
  ASSUME NEW x \in Row, NEW y \in Row
  PROVE  Before(x, y) <=> (Begins(x, y) \/ \E i \in Nat : Differs(x, y, i))
<1>1. x \in Seq(Nat) /\ y \in Seq(Nat)
  BY RowFacts
<1>2. DOMAIN x = 1..Len(x) /\ DOMAIN y = 1..Len(y) /\ Len(x) \in Nat /\ Len(y) \in Nat
  BY <1>1
<1>3. y \in Below(x) <=> Begins(x, y)
  BY DEF Below, Begins
<1>4. (\E i \in DOMAIN x \cap DOMAIN y : x[i] < y[i] /\ \A j \in 1..i - 1 : x[j] = y[j])
        <=> \E i \in Nat : Differs(x, y, i)
  BY <1>2 DEF Differs
<1> QED BY <1>3, <1>4 DEF Before

LEMMA NeverBeforeItself ==
  ASSUME NEW x \in Row
  PROVE  ~Before(x, x)
<1>1. x \in Seq(Nat)
  BY RowFacts
<1>2. ~Begins(x, x)
  BY <1>1 DEF Begins
<1>3. \A i \in Nat : ~Differs(x, x, i)
  BY <1>1 DEF Differs
<1> QED BY <1>2, <1>3, BeforeMeans

LEMMA BeforeTransitive ==
  ASSUME NEW x \in Row, NEW y \in Row, NEW z \in Row, Before(x, y), Before(y, z)
  PROVE  Before(x, z)
<1>1. /\ Len(x) \in Nat /\ Len(y) \in Nat /\ Len(z) \in Nat
      /\ \A i \in 1..Len(x) : x[i] \in Nat
      /\ \A i \in 1..Len(y) : y[i] \in Nat
      /\ \A i \in 1..Len(z) : z[i] \in Nat
  BY RowFacts
<1>2. /\ Begins(x, y) \/ \E i \in Nat : Differs(x, y, i)
      /\ Begins(y, z) \/ \E i \in Nat : Differs(y, z, i)
  BY BeforeMeans
<1>3. CASE Begins(x, y) /\ Begins(y, z)
  <2>1. Begins(x, z)
    BY <1>1, <1>3 DEF Begins
  <2> QED BY <2>1, BeforeMeans
<1>4. ASSUME Begins(x, y), NEW k \in Nat, Differs(y, z, k) PROVE Before(x, z)
  <2>1. CASE k <= Len(x)
    <3>1. Differs(x, z, k)
      BY <1>1, <1>4, <2>1 DEF Begins, Differs
    <3> QED BY <3>1, BeforeMeans
  <2>2. CASE Len(x) < k
    <3>1. Begins(x, z)
      BY <1>1, <1>4, <2>2 DEF Begins, Differs
    <3> QED BY <3>1, BeforeMeans
  <2> QED BY <1>1, <2>1, <2>2
<1>5. ASSUME NEW i \in Nat, Differs(x, y, i), Begins(y, z) PROVE Before(x, z)
  <2>1. Differs(x, z, i)
    BY <1>1, <1>5 DEF Begins, Differs
  <2> QED BY <2>1, BeforeMeans
<1>6. ASSUME NEW i \in Nat, Differs(x, y, i), NEW k \in Nat, Differs(y, z, k) PROVE Before(x, z)
  <2>1. CASE i <= k
    <3>1. Differs(x, z, i)
      BY <1>1, <1>6, <2>1 DEF Differs
    <3> QED BY <3>1, BeforeMeans
  <2>2. CASE k < i
    <3>1. Differs(x, z, k)
      BY <1>1, <1>6, <2>2 DEF Differs
    <3> QED BY <3>1, BeforeMeans
  <2> QED BY <2>1, <2>2
<1> QED BY <1>2, <1>3, <1>4, <1>5, <1>6

LEMMA BeforeTotal ==
  ASSUME NEW x \in Row, NEW y \in Row, x # y
  PROVE  Before(x, y) \/ Before(y, x)
<1>1. x \in Seq(Nat) /\ y \in Seq(Nat)
  BY RowFacts
<1>2. /\ Len(x) \in Nat /\ Len(y) \in Nat
      /\ \A i \in 1..Len(x) : x[i] \in Nat
      /\ \A i \in 1..Len(y) : y[i] \in Nat
  BY <1>1
<1> DEFINE T == {i \in Nat : i \in 1..Len(x) /\ i \in 1..Len(y) /\ x[i] # y[i]}
<1>3. CASE T = {}
  <2>1. \A i \in Nat : i \in 1..Len(x) /\ i \in 1..Len(y) => x[i] = y[i]
    BY <1>3
  <2>2. CASE Len(x) < Len(y)
    <3>1. Begins(x, y)
      BY <1>2, <2>1, <2>2 DEF Begins
    <3> QED BY <3>1, BeforeMeans
  <2>3. CASE Len(y) < Len(x)
    <3>1. Begins(y, x)
      BY <1>2, <2>1, <2>3 DEF Begins
    <3> QED BY <3>1, BeforeMeans
  <2>4. Len(x) # Len(y)
    BY <1>1, <1>2, <2>1
  <2> QED BY <1>2, <2>2, <2>3, <2>4
<1>4. CASE T # {}
  <2>1. PICK i \in T : \A j \in T : i <= j
    <3> HIDE DEF T
    <3>1. T \in SUBSET Nat
      BY DEF T
    <3> QED BY <1>4, <3>1, Least
  <2>2. /\ i \in Nat /\ i \in 1..Len(x) /\ i \in 1..Len(y) /\ x[i] # y[i]
        /\ \A j \in 1..i - 1 : x[j] = y[j]
    BY <1>2, <2>1
  <2>3. x[i] < y[i] \/ y[i] < x[i]
    BY <1>2, <2>2
  <2>4. Differs(x, y, i) \/ Differs(y, x, i)
    BY <2>2, <2>3 DEF Differs
  <2> QED BY <2>2, <2>4, BeforeMeans
<1> QED BY <1>3, <1>4

\* The rows before the next one are those before this one, and this one.
LEMMA NextHasOneMore ==
  ASSUME NEW rows \in SUBSET Row, NEW x \in rows, NEW y \in rows, Before(x, y),
         ~\E z \in rows : Before(x, z) /\ Before(z, y)
  PROVE  /\ Cardinality({z \in rows : Before(z, x)}) \in Nat
         /\ Cardinality({z \in rows : Before(z, y)}) = Cardinality({z \in rows : Before(z, x)}) + 1
<1> DEFINE P == {z \in rows : Before(z, x)}
<1>1. {z \in rows : Before(z, y)} = P \cup {x}
  <2>1. \A z \in rows : Before(z, x) => Before(z, y)
    BY BeforeTransitive
  <2>2. \A z \in rows : z # x /\ ~Before(z, x) => ~Before(z, y)
    BY BeforeTotal
  <2> QED BY <2>1, <2>2
<1>2. x \notin P
  BY NeverBeforeItself
<1>3. IsFiniteSet(P)
  <2>1. IsFiniteSet(Row) /\ P \subseteq Row
    BY RowAssumption
  <2> HIDE DEF P
  <2> QED BY <2>1, FS_Subset
<1> HIDE DEF P
<1>4. Cardinality(P) \in Nat /\ Cardinality(P \cup {x}) = Cardinality(P) + 1
  BY <1>2, <1>3, FS_CardinalityType, FS_AddElement
<1> QED BY <1>1, <1>4 DEF P

LEMMA StripesOfRowsAlternate ==
  ASSUME NEW rows \in SUBSET Row, NEW x \in rows, NEW y \in rows, Before(x, y),
         ~\E z \in rows : Before(x, z) /\ Before(z, y)
  PROVE  x \in updateStripes(rows) <=> y \notin updateStripes(rows)
<1> DEFINE n == Cardinality({z \in rows : Before(z, x)})
           m == Cardinality({z \in rows : Before(z, y)})
<1>1. n \in Nat /\ m = n + 1
  BY NextHasOneMore
<1>2. /\ x \in updateStripes(rows) <=> n % 2 = 0
      /\ y \in updateStripes(rows) <=> m % 2 = 0
  BY DEF updateStripes
<1> HIDE DEF n, m
<1> QED BY <1>1, <1>2

\* Every handler ends by striping the rows that it leaves.
Striped == shown \subseteq Row /\ even = updateStripes(shown)

LEMMA InitStriped == Init => Striped
BY DEF Init, Striped

LEMMA StepStriped == Striped /\ [Next]_vars => Striped'
<1> SUFFICES ASSUME Striped, [Next]_vars PROVE Striped'
  OBVIOUS
<1>1. ASSUME NEW f \in Row, toggleFolder(f) PROVE Striped'
  <2>1. even' = updateStripes(shown')
    BY <1>1 DEF toggleFolder
  <2>2. shown' \subseteq Row
    BY <1>1, RowFacts DEF toggleFolder, Hide, Show, Striped
  <2> QED BY <2>1, <2>2 DEF Striped
<1>2. ASSUME NEW level \in Levels, toggleLevel(level) PROVE Striped'
  BY <1>2 DEF toggleLevel, Striped
<1>3. CASE UNCHANGED vars
  BY <1>3 DEF vars, Striped
<1> QED BY <1>1, <1>2, <1>3 DEF Next

\* Rows, icons and stripes are those of rows of the table, and only rows that are
\* drawn are striped (toggleFolder, toggleLevel, updateStripes).
THEOREM TypeCorrect == Spec => []TypeOK
<1>1. IInv /\ Striped => TypeOK
  BY DEF IInv, TypeInv, Striped, TypeOK, updateStripes
<1> QED BY InitInv, StepInv, InitStriped, StepStriped, <1>1, PTL DEF Spec

\* Of two rows drawn one after the other exactly one is striped, whatever was folded
\* and unfolded (updateStripes), for every finite tree.
THEOREM RowsAlternate == Spec => []StripesAlternate
<1>1. Striped => StripesAlternate
  BY StripesOfRowsAlternate DEF Striped, StripesAlternate
<1> QED BY InitStriped, StepStriped, <1>1, PTL DEF Spec

=============================================================================
