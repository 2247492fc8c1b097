---------------------------- MODULE SearchResults ----------------------------
(* A page of results in the frame of the search panel: createResults and class *)
(* SearchResults of search.js.  The page is a record; its rows follow from the  *)
(* page's name, which are shown from the text it is asked for.                  *)
EXTENDS SearchBox, SequencesExt

CONSTANT
  SearchData  \* for each filter and each of its first characters, the rows of
              \* that page: the id of each and how many results it unfolds to

\* Every page has its rows, and rows whose ids begin alike stand together.
ASSUME RowsAssumption ==
  /\ DOMAIN SearchData = DOMAIN Index
  /\ \A f \in DOMAIN Index :
       /\ DOMAIN SearchData[f] = DOMAIN Index[f]
       /\ \A idx \in DOMAIN Index[f] :
            LET rows == SearchData[f][idx] IN
            /\ rows \in Seq([id : Seq(Int), children : Nat])
            /\ \A i, k \in DOMAIN rows : \A j \in i..k : \A n \in 0..Len(rows[i].id) :
                 LET start == SubSeq(rows[i].id, 1, n)
                 IN  IsPrefix(start, rows[k].id) => IsPrefix(start, rows[j].id)

Underscore == 95
HexDigit(n) == IF n < 10 THEN 48 + n ELSE 87 + n

IsPlain(c) == c \in 97..122 \/ c \in 48..57 \/ c >= 128

convertToId(text) ==
  LET IdOf(c) == IF IsPlain(c) THEN <<c>> ELSE <<Underscore, HexDigit(c \div 16), HexDigit(c % 16)>>
      id[n \in 0..Len(text)] == IF n = 0 THEN <<>> ELSE id[n - 1] \o IdOf(text[n])
  IN  id[Len(text)]

Lowered(text) == [i \in DOMAIN text |-> Lower(text[i])]

Trimmed(text) ==
  LET kept == {i \in DOMAIN text : text[i] # Space}
  IN  IF kept = {} THEN <<>> ELSE SubSeq(text, Min(kept), Max(kept))

\* A row is shown if its id begins with that of the text.
Matches(rows, query) ==
  LET id == convertToId(Lowered(Trimmed(query)))
  IN  {i \in 0..Len(rows) - 1 : IsPrefix(id, rows[i + 1].id)}

Rows(location) ==
  IF location.filter = -1 THEN <<>> ELSE SearchData[location.filter + 1][location.idx]

\* A page as it is when its scripts have run.
Loaded(location) ==
  [location |-> location, visible |-> Matches(Rows(location), location.query), open |-> {},
   at |-> <<>>, lastKey |-> "none", repeatOn |-> FALSE]

Children(p, i) == Rows(p.location)[i + 1].children

\* A row with one result has no block of children to find.
Unfolds(p, i) == Children(p, i) > 0

Toggle(p, i) ==
  IF ~Unfolds(p, i) THEN p
  ELSE [p EXCEPT !.open = IF i \in @ THEN @ \ {i} ELSE @ \cup {i}]

\* Items are <<row>> and <<row, child>>.
Items(p) ==
  LET rows == 0..Len(Rows(p.location)) - 1
  IN  {<<i>> : i \in rows} \cup UNION {{<<i, c>> : c \in 0..Children(p, i) - 1} : i \in rows}

Drawn(p, item) ==
  item \in Items(p) /\ item[1] \in p.visible /\ (Len(item) = 2 => item[1] \in p.open)

Nowhere == <<>>

NavNext(p, index) ==
  LET found == {j \in p.visible : j >= index} IN IF found = {} THEN Nowhere ELSE <<Min(found)>>

NavPrev(p, index) ==
  LET found == {j \in p.visible : j <= index} IN IF found = {} THEN Nowhere ELSE <<Max(found)>>

-------------------------------------------------------------------------------
\* What the events of a key leave behind.
ProcessKeys(p, type, key) ==
  CASE type = "keydown" -> [p EXCEPT !.repeatOn = FALSE, !.lastKey = key]
    [] type = "keypress" -> [p EXCEPT !.repeatOn = @ \/ p.lastKey # "none"]
    [] OTHER -> [p EXCEPT !.repeatOn = FALSE, !.lastKey = "none"]

IsHandledAlways(p, type) ==
  \/ type = "keydown"
  \/ type = "keypress" /\ p.lastKey # "none"

\* Whether the key is then handled: a "keypress" only if it is not the first
\* after a "keydown".
IsHandled(p, type) ==
  \/ type = "keydown"
  \/ type = "keypress" /\ p.repeatOn /\ p.lastKey # "none"

\* Where Up leads from a row: to the row above or its last child.  The child is
\* looked up under the row just above, shown or not.
NavUp(p, i) ==
  LET above == NavPrev(p, i - 1)
  IN  IF above # Nowhere /\ above[1] \in p.open /\ Children(p, i - 1) > 0
      THEN <<i - 1, Children(p, i - 1) - 1>> ELSE above

NavDown(p, i) == IF i \in p.open THEN <<i, 0>> ELSE NavNext(p, i + 1)

NavChildUp(p, i, c) == IF c > 0 THEN <<i, c - 1>> ELSE <<i>>

NavChildDown(p, i, c) == IF c + 1 < Children(p, i) THEN <<i, c + 1>> ELSE NavNext(p, i + 1)

Up(p) == IF Len(p.at) = 1 THEN NavUp(p, p.at[1]) ELSE NavChildUp(p, p.at[1], p.at[2])

Down(p) == IF Len(p.at) = 1 THEN NavDown(p, p.at[1]) ELSE NavChildDown(p, p.at[1], p.at[2])

FocusItem(p, item) == IF Drawn(p, item) THEN [p EXCEPT !.at = item] ELSE p

\* Right and Left unfold and fold a row that has the focus.
Fold(p, key) ==
  IF Len(p.at) = 2 \/ ~Unfolds(p, p.at[1]) THEN p
  ELSE IF key = "right" THEN [p EXCEPT !.open = @ \cup {p.at[1]}]
  ELSE [p EXCEPT !.open = @ \ {p.at[1]}]

=============================================================================
