--------------------------- MODULE DocSearchProofs ---------------------------
(* The search of the documentation site, for any filters, pages of results and  *)
(* bounds: its parts keep their types, a text is remembered as searched for     *)
(* only while its results are open, the list of filters stays under the         *)
(* pointer, and the arrow keys follow the list of results.  Each handler of the *)
(* panel is shown to keep what the panel remembers (Keeps); a step of the       *)
(* session is a few handlers after each other.                                  *)
EXTENDS DocSearch, PiecesProofs

LEMMA MinIsMember ==
  ASSUME NEW T \in SUBSET Nat, T # {}
  PROVE  Min(T) \in T /\ \A y \in T : Min(T) <= y
  BY Least DEF Min

LEMMA MaxIsMember ==
  ASSUME NEW n \in Nat, NEW T \in SUBSET (0 .. n), T # {}
  PROVE  Max(T) \in T /\ \A y \in T : y <= Max(T)
  <1>1. PICK x \in T : \A y \in T : x >= y
    BY Greatest
  <1> QED
    BY <1>1 DEF Max

-----------------------------------------------------------------------------
(* The panel *)

\* What the frame may show: the page of an existing place, or one without rows.
NoRows == [filter : {-1}, idx : Int, query : Seq(Int)]

Page ==
  NoRows \cup {place \in [filter : Nat, idx : Nat, query : Seq(Int)] :
                 place.filter + 1 \in DOMAIN Index /\ place.idx \in DOMAIN Index[place.filter + 1]}

Panel ==
  [value : Seq(Int), active : BOOLEAN, searchActive : BOOLEAN, lastSearchValue : Seq(Int),
   searchIndex : 0 .. SelectItemCount, marked : -1 .. SelectItemCount - 1,
   keyTimeout : BOOLEAN, keyTimers : Nat, hideTimer : BOOLEAN,
   selectShown : BOOLEAN, resultsShown : BOOLEAN, closeShown : BOOLEAN,
   location : Page, loading : BOOLEAN, posted : Nat, focus : Focus]

\* What is remembered of searches.
RemembersSearch(b) ==
  /\ b.lastSearchValue # <<>> =>
       /\ b.resultsShown
       /\ \E f \in 0 .. SelectItemCount - 1 : b.location = ResultsPage(f, b.lastSearchValue)
  /\ b.closeShown = b.resultsShown

\* What is remembered of searches and of the timer for the next one.
Remembers(b) == RemembersSearch(b) /\ (b.keyTimeout => b.keyTimers > 0)

Sound(b) == b \in Panel /\ Remembers(b)

LEMMA Counts == SelectItemCount \in Nat \ {0}
  BY PanelAssumption DEF SelectItemCount

LEMMA NoLeadingSpacesType ==
  ASSUME NEW text \in Seq(Int)
  PROVE  NoLeadingSpaces(text) \in Seq(Int)
  <1> DEFINE kept == {i \in DOMAIN text : text[i] # Space}
  <1>1. kept \in SUBSET Nat /\ kept \subseteq 1 .. Len(text)
    OBVIOUS
  <1>2. CASE kept = {}
    BY <1>2 DEF NoLeadingSpaces
  <1>3. CASE kept # {}
    <2>1. NoLeadingSpaces(text) = SubSeq(text, Min(kept), Len(text))
      BY <1>3 DEF NoLeadingSpaces
    <2> HIDE DEF kept
    <2>2. Min(kept) \in 1 .. Len(text)
      BY <1>1, <1>3, MinIsMember
    <2> QED
      BY <2>1, <2>2
  <1> QED
    BY <1>2, <1>3

LEMMA ResultsPageType ==
  ASSUME NEW f \in 0 .. SelectItemCount - 1, NEW text \in Seq(Int)
  PROVE  ResultsPage(f, text) \in Page
  <1>1. Index[f + 1] \in Seq(Int)
    <2>1. f + 1 \in 1 .. Len(Index)
      BY PanelAssumption DEF SelectItemCount
    <2> QED
      BY <2>1, PanelAssumption
  <1> DEFINE chars == Index[f + 1]
             found == {i \in DOMAIN chars : text = <<>> \/ chars[i] = Lower(Head(text))}
  <1>2. found \in SUBSET Nat
    BY <1>1
  <1>3. CASE found = {}
    BY <1>3 DEF ResultsPage, NoMatches, Page, NoRows
  <1>4. CASE found # {}
    <2>1. ResultsPage(f, text) =
            [filter |-> f, idx |-> CHOOSE i \in found : \A j \in found : i <= j, query |-> text]
      BY <1>4 DEF ResultsPage
    <2>2. found \subseteq DOMAIN Index[f + 1] /\ f \in Nat /\ f + 1 \in DOMAIN Index
      BY PanelAssumption DEF SelectItemCount
    <2> HIDE DEF found
    <2>3. (CHOOSE i \in found : \A j \in found : i <= j) \in found
      BY <1>2, <1>4, Least
    <2>4. PICK i \in found : ResultsPage(f, text) = [filter |-> f, idx |-> i, query |-> text]
      BY <2>1, <2>3
    <2>5. i \in Nat /\ i \in DOMAIN Index[f + 1]
      BY <1>2, <2>2
    <2> QED
      BY <2>2, <2>4, <2>5 DEF Page
  <1> QED
    BY <1>3, <1>4

\* A handler that leaves b as c keeps what is remembered, starts no timer that hides,
\* and does not move the focus into the results.
Keeps(b, c) ==
  /\ Sound(c)
  /\ c.hideTimer => b.hideTimer
  /\ c.focus = "results" => b.focus = "results"

LEMMA KeepsOn ==
  ASSUME NEW b, NEW c, NEW d, Keeps(b, c), Keeps(c, d)
  PROVE  Keeps(b, d)
  BY DEF Keeps

LEMMA ActivateKeeps ==
  ASSUME NEW b, Sound(b), NEW isActive \in BOOLEAN
  PROVE  Keeps(b, Activate(b, isActive))
  <1> DEFINE dropped == [b EXCEPT !.active = FALSE, !.value = Label, !.searchActive = FALSE, !.lastSearchValue = <<>>]
             cleared == [b EXCEPT !.active = TRUE, !.value = <<>>, !.searchActive = TRUE]
             entered == [b EXCEPT !.active = TRUE]
  <1>0. b \in Panel /\ Label \in Seq(Int) /\ <<>> \in Seq(Int)
    BY PanelAssumption DEF Sound
  <1>1. dropped \in Panel /\ cleared \in Panel /\ entered \in Panel
    BY <1>0 DEF Panel
  <1>2. Remembers(dropped) /\ dropped.hideTimer = b.hideTimer /\ dropped.focus = b.focus
    BY <1>0 DEF Panel, Remembers, RemembersSearch, Sound
  <1>3. Remembers(cleared) /\ cleared.hideTimer = b.hideTimer /\ cleared.focus = b.focus
    BY <1>0 DEF Panel, Remembers, RemembersSearch, Sound
  <1>4. Remembers(entered) /\ entered.hideTimer = b.hideTimer /\ entered.focus = b.focus
    BY <1>0 DEF Panel, Remembers, RemembersSearch, Sound
  <1> QED
    BY <1>1, <1>2, <1>3, <1>4 DEF Keeps, Sound, Activate

LEMMA FocusSound ==
  ASSUME NEW b, Sound(b), NEW to \in Focus
  PROVE  LET c == [b EXCEPT !.focus = to] IN
         Sound(c) /\ c.hideTimer = b.hideTimer /\ c.focus = to
  BY DEF Sound, Panel, Remembers, RemembersSearch, Keeps

LEMMA MoveFocusSound ==
  ASSUME NEW b, Sound(b), NEW to \in Focus
  PROVE  /\ Sound(MoveFocus(b, to)) /\ (MoveFocus(b, to).hideTimer => b.hideTimer)
         /\ MoveFocus(b, to).focus = to
  <1> DEFINE left == IF b.focus = "field" /\ to # "field" THEN Activate(b, FALSE) ELSE b
             entered == IF b.focus # "field" /\ to = "field" THEN Activate(left, TRUE) ELSE left
  <1>1. Keeps(b, b)
    BY DEF Keeps
  <1>2. Keeps(b, left)
    BY <1>1, ActivateKeeps
  <1> HIDE DEF left
  <1>3. Keeps(b, entered)
    <2>1. Sound(left)
      BY <1>2 DEF Keeps
    <2>2. Keeps(left, Activate(left, TRUE))
      BY <2>1, ActivateKeeps
    <2> QED
      BY <1>2, <2>2, KeepsOn
  <1>4. MoveFocus(b, to) = [entered EXCEPT !.focus = to]
    BY DEF MoveFocus, left
  <1> HIDE DEF entered
  <1>5. Sound(entered) /\ (entered.hideTimer => b.hideTimer)
    BY <1>3 DEF Keeps
  <1> QED
    BY <1>4, <1>5, FocusSound

LEMMA MoveFocusKeeps ==
  ASSUME NEW b, Sound(b), NEW to \in Focus \ {"results"}
  PROVE  Keeps(b, MoveFocus(b, to))
  BY MoveFocusSound DEF Keeps

\* Hidden results leave nothing to close, and nothing that may be remembered.
LEMMA HideResultsPanel ==
  ASSUME NEW b \in Panel
  PROVE  /\ HideResults(b) \in Panel
         /\ ~HideResults(b).resultsShown /\ ~HideResults(b).closeShown
         /\ HideResults(b).keyTimeout = b.keyTimeout /\ HideResults(b).keyTimers = b.keyTimers
         /\ HideResults(b).hideTimer = b.hideTimer /\ HideResults(b).focus # "results"
  BY DEF HideResults, Panel, Focus

LEMMA ForgetKeeps ==
  ASSUME NEW b, Sound(b)
  PROVE  Keeps(b, [HideResults(b) EXCEPT !.lastSearchValue = <<>>])
  <1>1. PICK c \in Panel : c = HideResults(b)
    BY HideResultsPanel DEF Sound
  <1>2. /\ ~c.resultsShown /\ ~c.closeShown
        /\ c.keyTimeout = b.keyTimeout /\ c.keyTimers = b.keyTimers /\ c.hideTimer = b.hideTimer
        /\ c.focus # "results"
    BY <1>1, HideResultsPanel DEF Sound
  <1>3. <<>> \in Seq(Int)
    OBVIOUS
  <1>4. [c EXCEPT !.lastSearchValue = <<>>] \in Panel
    BY <1>3 DEF Panel
  <1>5. Remembers([c EXCEPT !.lastSearchValue = <<>>])
    BY <1>2 DEF Panel, Remembers, RemembersSearch, Sound
  <1>6. /\ [c EXCEPT !.lastSearchValue = <<>>].hideTimer = b.hideTimer
        /\ [c EXCEPT !.lastSearchValue = <<>>].focus # "results"
    BY <1>2 DEF Panel
  <1> QED
    BY <1>1, <1>4, <1>5, <1>6 DEF Keeps, Sound

LEMMA ShowHideKeeps ==
  ASSUME NEW b, Sound(b)
  PROVE  /\ Keeps(b, OnSearchSelectShow(b)) /\ ~OnSearchSelectShow(b).hideTimer
         /\ Sound(OnSearchSelectHide(b))
         /\ Keeps(b, CloseSelectionWindow(b))
  <1>1. Keeps(b, OnSearchSelectShow(b)) /\ ~OnSearchSelectShow(b).hideTimer
    BY DEF Sound, Panel, Remembers, RemembersSearch, Keeps, OnSearchSelectShow
  <1>2. Sound(OnSearchSelectHide(b))
    BY DEF Sound, Panel, Remembers, RemembersSearch, Keeps, OnSearchSelectHide
  <1>3. Keeps(b, CloseSelectionWindow(b))
    BY DEF Sound, Panel, Remembers, RemembersSearch, Keeps, CloseSelectionWindow, Focus
  <1> QED
    BY <1>1, <1>2, <1>3

LEMMA CloseResultsKeeps ==
  ASSUME NEW b, Sound(b)
  PROVE  Keeps(b, CloseResultsWindow(b))
  <1>1. PICK c \in Panel : c = HideResults(b)
    BY HideResultsPanel DEF Sound
  <1>2. /\ ~c.resultsShown /\ ~c.closeShown
        /\ c.keyTimeout = b.keyTimeout /\ c.keyTimers = b.keyTimers /\ c.hideTimer = b.hideTimer
        /\ c.focus # "results"
    BY <1>1, HideResultsPanel DEF Sound
  <1> DEFINE d == [c EXCEPT !.active = FALSE, !.value = Label, !.searchActive = FALSE, !.lastSearchValue = <<>>]
  <1>3. CloseResultsWindow(b) = d
    BY <1>1, <1>2 DEF CloseResultsWindow, Activate
  <1>4. <<>> \in Seq(Int) /\ Label \in Seq(Int)
    BY PanelAssumption
  <1>5. d \in Panel
    BY <1>4 DEF Panel
  <1>6. Remembers(d) /\ d.hideTimer = b.hideTimer /\ d.focus # "results"
    BY <1>2 DEF Panel, Remembers, RemembersSearch, Sound
  <1> QED
    BY <1>3, <1>5, <1>6 DEF Keeps, Sound

-----------------------------------------------------------------------------
(* Searching *)

\* A search forgets the timer that may have started it.
LEMMA SearchKeeps ==
  ASSUME NEW b \in Panel, RemembersSearch(b)
  PROVE  Keeps(b, Search(b))
  <1> DEFINE started == [b EXCEPT !.keyTimeout = FALSE]
  <1>0. b \in Panel /\ RemembersSearch(b)
    OBVIOUS
  <1>1. PICK text \in Seq(Int) : text = NoLeadingSpaces(b.value)
    BY <1>0, NoLeadingSpacesType DEF Panel
  <1>2. CASE BeyondLast(b)
    <2>1. Search(b) = started
      BY <1>2 DEF Search
    <2>2. started \in Panel /\ Remembers(started) /\ started.hideTimer = b.hideTimer /\ started.focus = b.focus
      BY <1>0 DEF Panel, Remembers, RemembersSearch
    <2> QED
      BY <2>1, <2>2 DEF Keeps, Sound
  <1>3. CASE ~BeyondLast(b)
    <2>1. b.searchIndex \in 0 .. SelectItemCount - 1
      BY <1>0, <1>3, Counts DEF Panel, BeyondLast
    <2>2. PICK pg \in Page : pg = ResultsPage(b.searchIndex, text)
      BY <2>1, ResultsPageType
    <2> DEFINE c == [started EXCEPT !.location = pg, !.loading = TRUE, !.resultsShown = TRUE,
                                    !.closeShown = IF b.resultsShown THEN @ ELSE TRUE,
                                    !.lastSearchValue = text]
    <2>3. Search(b) = c
      BY <1>1, <1>3, <2>2 DEF Search
    <2>4. c \in Panel
      BY <1>0 DEF Panel
    <2>5. ~c.keyTimeout /\ c.hideTimer = b.hideTimer /\ c.focus = b.focus /\ c.closeShown /\ c.resultsShown
      BY <1>0 DEF Panel, Remembers, RemembersSearch
    <2>6. c.location = pg /\ c.lastSearchValue = text
      BY <1>0 DEF Panel
    <2> HIDE DEF c
    <2>7. Remembers(c)
      BY <2>1, <2>2, <2>5, <2>6 DEF Remembers, RemembersSearch
    <2> QED
      BY <2>3, <2>4, <2>5, <2>7 DEF Keeps, Sound
  <1> QED
    BY <1>2, <1>3

LEMMA KillTimerKeeps ==
  ASSUME NEW b, Sound(b)
  PROVE  Keeps(b, KillTimer(b))
  <1> DEFINE c == [b EXCEPT !.keyTimeout = FALSE, !.keyTimers = @ - 1]
  <1>1. CASE b.keyTimeout
    <2>1. b.keyTimers \in Nat /\ b.keyTimers > 0
      BY <1>1 DEF Sound, Panel, Remembers, RemembersSearch
    <2>2. c \in Panel
      <3>1. PICK n \in Nat : n = b.keyTimers - 1
        BY <2>1
      <3>2. [b EXCEPT !.keyTimeout = FALSE, !.keyTimers = n] \in Panel
        BY DEF Sound, Panel
      <3> QED
        BY <3>1, <3>2
    <2>3. Remembers(c) /\ c.hideTimer = b.hideTimer /\ c.focus = b.focus
      BY DEF Sound, Panel, Remembers, RemembersSearch
    <2> QED
      BY <1>1, <2>2, <2>3 DEF KillTimer, Keeps, Sound
  <1>2. CASE ~b.keyTimeout
    BY <1>2 DEF KillTimer, Keeps
  <1> QED
    BY <1>1, <1>2

LEMMA CompareValueKeeps ==
  ASSUME NEW b, Sound(b)
  PROVE  Keeps(b, CompareValue(b))
  <1> DEFINE c == [b EXCEPT !.keyTimeout = TRUE, !.keyTimers = @ + 1]
  <1>1. Keeps(b, c)
    <2>1. c \in Panel
      <3>1. PICK n \in Nat : n = b.keyTimers + 1
        BY DEF Sound, Panel
      <3>2. [b EXCEPT !.keyTimeout = TRUE, !.keyTimers = n] \in Panel
        BY DEF Sound, Panel
      <3> QED
        BY <3>1, <3>2
    <2>2. Remembers(c) /\ c.hideTimer = b.hideTimer /\ c.focus = b.focus
      BY DEF Sound, Panel, Remembers, RemembersSearch
    <2> QED
      BY <2>1, <2>2 DEF Keeps, Sound
  <1>2. Keeps(b, b)
    BY DEF Keeps
  <1> QED
    BY <1>1, <1>2, ForgetKeeps DEF CompareValue

LEMMA EscapeFieldKeeps ==
  ASSUME NEW b, Sound(b)
  PROVE  Keeps(b, EscapeField(b))
  <1>1. PICK c : c = MoveFocus(b, "none") /\ Keeps(b, c)
    BY MoveFocusKeeps DEF Focus
  <1>2. PICK d : d = [HideResults(c) EXCEPT !.lastSearchValue = <<>>] /\ Keeps(c, d)
    BY <1>1, ForgetKeeps DEF Keeps
  <1>3. Keeps(d, Activate(d, FALSE))
    BY <1>2, ActivateKeeps DEF Keeps
  <1>4. EscapeField(b) = Activate(d, FALSE)
    BY <1>1, <1>2 DEF EscapeField
  <1> QED
    BY <1>1, <1>2, <1>3, <1>4, KeepsOn

LEMMA FieldChangeKeeps ==
  ASSUME NEW b, Sound(b), NEW key
  PROVE  Keeps(b, OnSearchFieldChange(b, key))
  <1>1. PICK c : c = KillTimer(b) /\ Keeps(b, c) /\ Sound(c)
    BY KillTimerKeeps DEF Keeps
  <1>2. Keeps(c, MoveFocus(OnSearchSelectShow(c), "filter"))
    <2>1. PICK d : d = OnSearchSelectShow(c) /\ Keeps(c, d) /\ Sound(d)
      BY <1>1, ShowHideKeeps DEF Keeps
    <2>2. Keeps(d, MoveFocus(d, "filter"))
      BY <2>1, MoveFocusKeeps DEF Focus
    <2> QED
      BY <2>1, <2>2, KeepsOn
  <1>3. Keeps(c, CompareValue([c EXCEPT !.posted = @ + 1]))
    <2> DEFINE d == [c EXCEPT !.posted = @ + 1]
    <2>1. d \in Panel
      <3>1. PICK n \in Nat : n = c.posted + 1
        BY <1>1 DEF Sound, Panel
      <3>2. [c EXCEPT !.posted = n] \in Panel
        BY <1>1 DEF Sound, Panel
      <3> QED
        BY <3>1, <3>2
    <2>2. Remembers(d) /\ d.hideTimer = c.hideTimer /\ d.focus = c.focus
      BY <1>1 DEF Sound, Panel, Remembers, RemembersSearch
    <2>3. Keeps(c, d) /\ Sound(d)
      BY <2>1, <2>2 DEF Keeps, Sound
    <2> HIDE DEF d
    <2>4. Keeps(d, CompareValue(d))
      BY <2>3, CompareValueKeeps
    <2> QED
      BY <2>3, <2>4, KeepsOn DEF d
  <1>4. Keeps(c, EscapeField(c)) /\ Keeps(c, CompareValue(c))
    BY <1>1, EscapeFieldKeeps, CompareValueKeeps
  <1>5. Keeps(c, OnSearchFieldChange(b, key))
    <2>1. OnSearchFieldChange(b, key) \in
            {MoveFocus(OnSearchSelectShow(c), "filter"), CompareValue([c EXCEPT !.posted = @ + 1]),
             EscapeField(c), CompareValue(c)}
      BY <1>1, Zenon DEF OnSearchFieldChange
    <2> QED
      BY <1>2, <1>3, <1>4, <2>1
  <1> QED
    BY <1>1, <1>5, KeepsOn

-----------------------------------------------------------------------------
(* Filters *)

LEMMA OnSelectItemKeeps ==
  ASSUME NEW b, Sound(b), NEW id \in 0 .. SelectItemCount
  PROVE  Keeps(b, OnSelectItem(b, id))
  <1> DEFINE c == [b EXCEPT !.searchIndex = id]
             d == [c EXCEPT !.marked = IF id < SelectItemCount THEN id ELSE -1]
  <1>1. d \in Panel
    <2>1. PICK m \in -1 .. SelectItemCount - 1 : m = IF id < SelectItemCount THEN id ELSE -1
      BY Counts
    <2>2. [c EXCEPT !.marked = m] \in Panel
      BY DEF Sound, Panel
    <2> QED
      BY <2>1, <2>2
  <1>2. Remembers(d) /\ d.hideTimer = b.hideTimer /\ d.focus = b.focus
    BY DEF Sound, Panel, Remembers, RemembersSearch
  <1>3. SelectItemSet(c, id) = d
    BY DEF SelectItemSet
  <1>4. OnSelectItem(b, id) = IF Searches(b) THEN Search(d) ELSE d
    BY <1>3 DEF OnSelectItem
  <1> HIDE DEF d
  <1>5. Keeps(b, d) /\ Sound(d)
    BY <1>1, <1>2 DEF Keeps, Sound
  <1>6. Keeps(d, Search(d))
    BY <1>5, SearchKeeps DEF Sound, Remembers
  <1> QED
    BY <1>4, <1>5, <1>6, KeepsOn

LEMMA SelectKeyKeeps ==
  ASSUME NEW b, Sound(b), NEW key
  PROVE  Keeps(b, OnSearchSelectKey(b, key))
  <1>1. b.searchIndex \in 0 .. SelectItemCount /\ SelectItemCount \in Nat
    BY Counts DEF Sound, Panel
  <1>2. Keeps(b, b)
    BY DEF Keeps
  <1>3. PICK c : c = OnSelectItem(b, b.searchIndex) /\ Keeps(b, c) /\ Sound(c)
    BY <1>1, OnSelectItemKeeps DEF Keeps
  <1>4. Keeps(b, MoveFocus(CloseSelectionWindow(c), "field"))
    <2>1. PICK d : d = CloseSelectionWindow(c) /\ Keeps(c, d) /\ Sound(d)
      BY <1>3, ShowHideKeeps DEF Keeps
    <2>2. Keeps(d, MoveFocus(d, "field"))
      BY <2>1, MoveFocusKeeps DEF Focus
    <2> QED
      BY <1>3, <2>1, <2>2, KeepsOn
  <1>5. b.searchIndex < SelectItemCount => Keeps(b, OnSelectItem(b, b.searchIndex + 1))
    BY <1>1, OnSelectItemKeeps
  <1>6. b.searchIndex > 0 => Keeps(b, OnSelectItem(b, b.searchIndex - 1))
    BY <1>1, OnSelectItemKeeps
  <1>7. \/ b.searchIndex < SelectItemCount /\ OnSearchSelectKey(b, key) = OnSelectItem(b, b.searchIndex + 1)
        \/ b.searchIndex > 0 /\ OnSearchSelectKey(b, key) = OnSelectItem(b, b.searchIndex - 1)
        \/ OnSearchSelectKey(b, key) = c
        \/ OnSearchSelectKey(b, key) = MoveFocus(CloseSelectionWindow(c), "field")
        \/ OnSearchSelectKey(b, key) = b
    BY <1>3, Zenon DEF OnSearchSelectKey
  <1> QED
    BY <1>2, <1>3, <1>4, <1>5, <1>6, <1>7

-----------------------------------------------------------------------------
(* The rows that match a text *)

IdOf(c) == IF IsPlain(c) THEN <<c>> ELSE <<Underscore, HexDigit(c \div 16), HexDigit(c % 16)>>

\* id[n] is the id of the first n characters, of which g are the ids.
IdSoFar(id, g, length) ==
  id = [n \in 0 .. length |-> IF n = 0 THEN <<>> ELSE id[n - 1] \o g[n]]

LEMMA IdExists ==
  ASSUME NEW S, NEW length \in Nat, NEW g \in [1 .. length -> Seq(S)]
  PROVE  \E id \in [0 .. length -> Seq(S)] : IdSoFar(id, g, length)
  <1> DEFINE N == {n \in Nat : n <= length => \E id \in [0 .. n -> Seq(S)] : IdSoFar(id, g, n)}
  <1>1. 0 \in N
    <2> DEFINE id == [n \in 0 .. 0 |-> <<>>]
    <2>1. id \in [0 .. 0 -> Seq(S)] /\ IdSoFar(id, g, 0)
      BY DEF IdSoFar
    <2> QED
      BY <2>1
  <1>2. ASSUME NEW n \in N
        PROVE  n + 1 \in N
    <2> SUFFICES ASSUME n + 1 <= length
                 PROVE  \E id \in [0 .. n + 1 -> Seq(S)] : IdSoFar(id, g, n + 1)
      OBVIOUS
    <2>1. PICK f \in [0 .. n -> Seq(S)] : IdSoFar(f, g, n)
      OBVIOUS
    <2> DEFINE last == f[n] \o g[n + 1]
               id == [i \in 0 .. n + 1 |-> IF i = n + 1 THEN last ELSE f[i]]
    <2>2. last \in Seq(S)
      <3>1. g[n + 1] \in Seq(S) /\ f[n] \in Seq(S)
        OBVIOUS
      <3> QED
        BY <3>1
    <2> HIDE DEF last
    <2>3. id \in [0 .. n + 1 -> Seq(S)]
      BY <2>2
    <2>4. ASSUME NEW i \in 0 .. n + 1
          PROVE  id[i] = IF i = 0 THEN <<>> ELSE id[i - 1] \o g[i]
      <3>1. i # 0 => i - 1 \in 0 .. n /\ id[i - 1] = f[i - 1]
        OBVIOUS
      <3>2. CASE i \in 0 .. n
        <4>1. f[i] = IF i = 0 THEN <<>> ELSE f[i - 1] \o g[i]
          <5>1. \A j \in 0 .. n : f[j] = IF j = 0 THEN <<>> ELSE f[j - 1] \o g[j]
            BY <2>1 DEF IdSoFar
          <5> QED
            BY <3>2, <5>1
        <4>2. id[i] = f[i]
          BY <3>2
        <4> HIDE DEF id
        <4> QED
          BY <3>1, <4>1, <4>2
      <3>3. CASE i = n + 1
        <4>1. id[i] = last /\ i # 0 /\ i - 1 = n
          BY <3>3
        <4> HIDE DEF id
        <4> QED
          BY <3>1, <3>3, <4>1 DEF last
      <3> QED
        BY <3>2, <3>3
    <2>5. IdSoFar(id, g, n + 1)
      BY <2>4 DEF IdSoFar
    <2> QED
      BY <2>3, <2>5
  <1> HIDE DEF N
  <1>3. N = Nat
    <2>1. N \in SUBSET Nat
      BY DEF N
    <2> QED
      BY <1>1, <1>2, <2>1, Induction
  <1>4. \A n \in Nat : n <= length => \E id \in [0 .. n -> Seq(S)] : IdSoFar(id, g, n)
    BY <1>3, Zenon DEF N
  <1> QED
    BY <1>4

LEMMA IdSoFarType ==
  ASSUME NEW S, NEW length \in Nat, NEW g \in [1 .. length -> Seq(S)], NEW id, IdSoFar(id, g, length)
  PROVE  \A n \in 0 .. length : id[n] \in Seq(S)
  <1> DEFINE N == {n \in Nat : n <= length => id[n] \in Seq(S)}
  <1>1. /\ id[0] = <<>>
        /\ \A n \in 0 .. length : n # 0 => id[n] = id[n - 1] \o g[n]
    BY DEF IdSoFar
  <1>2. 0 \in N
    <2>1. <<>> \in Seq(S)
      OBVIOUS
    <2>2. id[0] \in Seq(S)
      BY <1>1, <2>1, Zenon
    <2> QED
      BY <2>2
  <1>3. ASSUME NEW n \in N
        PROVE  n + 1 \in N
    <2> SUFFICES ASSUME n + 1 <= length PROVE id[n + 1] \in Seq(S)
      OBVIOUS
    <2>1. id[n] \in Seq(S) /\ n + 1 \in 1 .. length /\ n + 1 \in 0 .. length /\ (n + 1) - 1 = n /\ n + 1 # 0
      OBVIOUS
    <2>2. g[n + 1] \in Seq(S)
      BY <2>1
    <2>3. id[n + 1] = id[(n + 1) - 1] \o g[n + 1]
      BY <1>1, <2>1, Zenon
    <2> QED
      BY <2>1, <2>2, <2>3
  <1> HIDE DEF N
  <1>4. N = Nat
    <2>1. N \in SUBSET Nat
      BY DEF N
    <2> QED
      BY <1>2, <1>3, <2>1, Induction
  <1>5. \A n \in Nat : n <= length => id[n] \in Seq(S)
    BY <1>4, Zenon DEF N
  <1> QED
    BY <1>5

LEMMA IdOfType ==
  ASSUME NEW c \in Int
  PROVE  IdOf(c) \in Seq(Int)
  <1>1. <<c>> \in Seq(Int)
    OBVIOUS
  <1>2. HexDigit(c \div 16) \in Int /\ HexDigit(c % 16) \in Int /\ Underscore \in Int
    BY DEF HexDigit, Underscore
  <1>3. <<Underscore, HexDigit(c \div 16), HexDigit(c % 16)>> \in Seq(Int)
    BY <1>2
  <1> QED
    BY <1>1, <1>3, Zenon DEF IdOf

\* Texts have sequences of characters as ids.
LEMMA IdType ==
  ASSUME NEW text \in Seq(Int)
  PROVE  convertToId(text) \in Seq(Int)
  <1> DEFINE first == CHOOSE id : id = [n \in 0 .. Len(text) |->
                        IF n = 0 THEN <<>> ELSE id[n - 1] \o IdOf(text[n])]
  <1>1. PICK g : g = [i \in 1 .. Len(text) |-> IdOf(text[i])]
    OBVIOUS
  <1>2. g \in [1 .. Len(text) -> Seq(Int)]
    <2>1. \A i \in 1 .. Len(text) : IdOf(text[i]) \in Seq(Int)
      BY IdOfType
    <2> QED
      BY <1>1, <2>1
  <1>3. \A id : IdSoFar(id, g, Len(text)) <=>
                id = [n \in 0 .. Len(text) |-> IF n = 0 THEN <<>> ELSE id[n - 1] \o IdOf(text[n])]
    <2>1. \A n \in 0 .. Len(text) : n # 0 => g[n] = IdOf(text[n])
      BY <1>1
    <2> QED
      BY <2>1 DEF IdSoFar
  <1>4. \E id : IdSoFar(id, g, Len(text))
    <2>1. Len(text) \in Nat
      OBVIOUS
    <2> QED
      BY <1>2, <2>1, IdExists
  <1>5. IdSoFar(first, g, Len(text))
    BY <1>3, <1>4
  <1>6. convertToId(text) = first[Len(text)]
    BY DEF convertToId, IdOf
  <1> HIDE DEF first
  <1>7. Len(text) \in Nat
    OBVIOUS
  <1>8. \A n \in 0 .. Len(text) : first[n] \in Seq(Int)
    BY <1>2, <1>5, <1>7, IdSoFarType
  <1> QED
    BY <1>6, <1>7, <1>8

LEMMA TrimmedType ==
  ASSUME NEW text \in Seq(Int)
  PROVE  Lowered(Trimmed(text)) \in Seq(Int)
  <1>1. PICK kept, n, t : kept = {i \in DOMAIN text : text[i] # Space} /\ n = Len(text) /\ t = Trimmed(text)
    OBVIOUS
  <1>2. n \in Nat /\ kept \in SUBSET Nat /\ kept \subseteq 1 .. n /\ kept \in SUBSET (0 .. n)
    BY <1>1
  <1>3. t = IF kept = {} THEN <<>> ELSE SubSeq(text, Min(kept), Max(kept))
    BY <1>1 DEF Trimmed
  <1>4. kept # {} => Min(kept) \in kept /\ Max(kept) \in kept
    BY <1>2, MinIsMember, MaxIsMember
  <1>5. kept # {} => Min(kept) \in 1 .. Len(text) /\ Max(kept) \in 1 .. Len(text)
    BY <1>1, <1>2, <1>4
  <1>6. t \in Seq(Int)
    <2>1. CASE kept = {}
      BY <1>3, <2>1
    <2>2. CASE kept # {}
      BY <1>3, <1>5, <2>2
    <2> QED
      BY <2>1, <2>2
  <1>7. \A c \in Int : Lower(c) \in Int
    BY DEF Lower
  <1>8. \A i \in DOMAIN t : Lower(t[i]) \in Int
    BY <1>6, <1>7
  <1>9. [i \in DOMAIN t |-> Lower(t[i])] \in Seq(Int)
    BY <1>6, <1>8
  <1> QED
    BY <1>1, <1>9 DEF Lowered

\* What is assumed of the rows of a page.
WellKept(rows) ==
  /\ rows \in Seq([id : Seq(Int), children : Nat])
  /\ \A i, k \in DOMAIN rows : \A j \in i .. k : \A n \in 0 .. Len(rows[i].id) :
       IsPrefix(SubSeq(rows[i].id, 1, n), rows[k].id) => IsPrefix(SubSeq(rows[i].id, 1, n), rows[j].id)

LEMMA PageRows ==
  ASSUME NEW place \in Page
  PROVE  (place.filter = -1 /\ Rows(place) = <<>>) \/ (place.filter # -1 /\ WellKept(Rows(place)))
  <1>1. CASE place.filter = -1
    <2>1. Rows(place) = <<>>
      BY <1>1, Zenon DEF Rows
    <2> QED
      BY <1>1, <2>1, Zenon
  <1>2. CASE place.filter # -1
    <2>1. PICK f : f = place.filter + 1 /\ f \in DOMAIN Index /\ place.idx \in DOMAIN Index[f]
      BY <1>2 DEF Page, NoRows
    <2>2. Rows(place) = SearchData[f][place.idx]
      BY <1>2, <2>1 DEF Rows
    <2>3. WellKept(SearchData[f][place.idx])
      BY <2>1, RowsAssumption, Zenon DEF WellKept
    <2> QED
      BY <1>2, <2>2, <2>3
  <1> QED
    BY <1>1, <1>2

\* A row between two rows that are shown is shown.
LEMMA MatchesTogether ==
  ASSUME NEW place \in Page, NEW i \in Matches(Rows(place), place.query),
         NEW k \in Matches(Rows(place), place.query), NEW j \in i .. k
  PROVE  j \in Matches(Rows(place), place.query)
  <1>1. PICK rows, id : rows = Rows(place) /\ id = convertToId(Lowered(Trimmed(place.query)))
    OBVIOUS
  <1>2. id \in Seq(Int)
    BY <1>1, TrimmedType, IdType DEF Page, NoRows
  <1>3. \A l : l \in Matches(rows, place.query) <=> l \in 0 .. Len(rows) - 1 /\ IsPrefix(id, rows[l + 1].id)
    BY <1>1 DEF Matches
  <1>4. CASE rows = <<>>
    BY <1>1, <1>3, <1>4
  <1>5. CASE WellKept(rows)
    <2>3. PICK S : S = [id : Seq(Int), children : Nat] /\ rows \in Seq(S)
      BY <1>5 DEF WellKept
    <2>4. /\ i + 1 \in DOMAIN rows /\ k + 1 \in DOMAIN rows /\ j + 1 \in (i + 1) .. (k + 1)
          /\ j \in 0 .. Len(rows) - 1
          /\ IsPrefix(id, rows[i + 1].id) /\ IsPrefix(id, rows[k + 1].id)
      <3>1. /\ i \in 0 .. Len(rows) - 1 /\ k \in 0 .. Len(rows) - 1
            /\ IsPrefix(id, rows[i + 1].id) /\ IsPrefix(id, rows[k + 1].id)
        BY <1>1, <1>3
      <3>2. DOMAIN rows = 1 .. Len(rows) /\ Len(rows) \in Nat
        BY <2>3
      <3>3. j \in 0 .. Len(rows) - 1 /\ j + 1 \in (i + 1) .. (k + 1)
        BY <3>1, <3>2
      <3> QED
        BY <3>1, <3>2, <3>3
    <2>5. Len(id) \in 0 .. Len(rows[i + 1].id) /\ id = SubSeq(rows[i + 1].id, 1, Len(id))
      <3>1. rows[i + 1].id \in Seq(Int)
        <4>1. i + 1 \in 1 .. Len(rows) /\ rows \in Seq(S)
          BY <2>3, <2>4
        <4>2. PICK row \in S : row = rows[i + 1]
          BY <4>1
        <4> QED
          BY <2>3, <4>2
      <3>2. Len(id) <= Len(rows[i + 1].id) /\ SubSeq(id, 1, Len(id)) = SubSeq(rows[i + 1].id, 1, Len(id))
        BY <2>4, Zenon DEF IsPrefix
      <3>3. SubSeq(id, 1, Len(id)) = id
        BY <1>2
      <3> QED
        BY <1>2, <3>1, <3>2, <3>3
    <2>6. IsPrefix(id, rows[j + 1].id)
      BY <1>5, <2>4, <2>5, Zenon DEF WellKept
    <2> QED
      BY <1>1, <1>3, <2>4, <2>6
  <1> QED
    BY <1>1, <1>4, <1>5, PageRows

-----------------------------------------------------------------------------
(* The page of results *)

KeyCode == {"none", "other", "up", "down", "left", "right", "enter", "escape"}

RowsOf(p) == 0 .. Len(Rows(p.location)) - 1

Frame ==
  [location : Page, visible : SUBSET Nat, open : SUBSET Nat, at : Seq(Nat), lastKey : KeyCode,
   repeatOn : BOOLEAN]

\* The rows that are shown are those of the text; the item with the focus is drawn.
Listed(p) ==
  /\ p.visible = Matches(Rows(p.location), p.location.query)
  /\ p.open \subseteq {i \in RowsOf(p) : Unfolds(p, i)}
  /\ p.at # Nowhere => Drawn(p, p.at)

Proper(p) == p \in Frame /\ Listed(p)

\* The rows and their children follow from the page's name.
LEMMA SamePage ==
  ASSUME NEW p, NEW q, p.location = q.location
  PROVE  RowsOf(p) = RowsOf(q) /\ Items(p) = Items(q) /\ \A i : Unfolds(p, i) <=> Unfolds(q, i)
  <1>1. \A i : Children(p, i) = Children(q, i)
    BY DEF Children
  <1> QED
    BY <1>1 DEF RowsOf, Items, Unfolds

LEMMA ItemsAre ==
  ASSUME NEW p, NEW item \in Items(p)
  PROVE  /\ item \in Seq(Nat) /\ item # Nowhere
         /\ Len(item) = 1 => item[1] \in RowsOf(p) /\ item = <<item[1]>>
         /\ Len(item) = 1 \/ Len(item) = 2
         /\ Len(item) = 2 => /\ item[1] \in RowsOf(p) /\ item[2] \in 0 .. Children(p, item[1]) - 1
                            /\ item = <<item[1], item[2]>>
  <1>1. RowsOf(p) \subseteq Nat /\ \A i : 0 .. Children(p, i) - 1 \subseteq Nat
    BY DEF RowsOf
  <1>2. ASSUME NEW i \in RowsOf(p), item = <<i>>
        PROVE  item \in Seq(Nat) /\ Len(item) = 1 /\ item[1] = i /\ item # Nowhere
    BY <1>1, <1>2 DEF Nowhere
  <1>3. ASSUME NEW i \in RowsOf(p), NEW c \in 0 .. Children(p, i) - 1, item = <<i, c>>
        PROVE  /\ item \in Seq(Nat) /\ Len(item) = 2 /\ item # Nowhere
               /\ item[1] = i /\ item[2] = c
    <2>1. i \in Nat /\ c \in Nat
      BY <1>1
    <2> QED
      BY <1>3, <2>1 DEF Nowhere
  <1>4. \/ \E i \in RowsOf(p) : item = <<i>>
        \/ \E i \in RowsOf(p) : \E c \in 0 .. Children(p, i) - 1 : item = <<i, c>>
    BY DEF Items, RowsOf
  <1>5. CASE \E i \in RowsOf(p) : item = <<i>>
    BY <1>2, <1>5
  <1>6. CASE \E i \in RowsOf(p) : \E c \in 0 .. Children(p, i) - 1 : item = <<i, c>>
    BY <1>3, <1>6
  <1> QED
    BY <1>4, <1>5, <1>6

LEMMA RowIsItem ==
  ASSUME NEW p, NEW i \in RowsOf(p)
  PROVE  <<i>> \in Items(p)
  BY DEF RowsOf, Items

LEMMA VisibleRows ==
  ASSUME NEW p, Proper(p)
  PROVE  p.visible \subseteq RowsOf(p) /\ RowsOf(p) \subseteq Nat /\ p.visible \in SUBSET Nat
  <1>1. p.visible = Matches(Rows(p.location), p.location.query)
    BY DEF Proper, Listed
  <1>2. RowsOf(p) = 0 .. Len(Rows(p.location)) - 1
    BY DEF RowsOf
  <1>3. p.visible \subseteq RowsOf(p)
    BY <1>1, <1>2, Zenon DEF Matches
  <1> QED
    BY <1>2, <1>3

\* What is drawn follows from the rows shown and the rows unfolded.
LEMMA SameDrawn ==
  ASSUME NEW p, NEW q, NEW item, p.location = q.location, p.visible = q.visible,
         Len(item) = 2 => (item[1] \in p.open <=> item[1] \in q.open)
  PROVE  Drawn(p, item) <=> Drawn(q, item)
  <1>1. Items(p) = Items(q)
    BY SamePage
  <1> QED
    BY <1>1 DEF Drawn

LEMMA LoadedProper ==
  ASSUME NEW place \in Page
  PROVE  Proper(Loaded(place)) /\ Loaded(place).at = Nowhere
  <1>1. PICK p : p = Loaded(place)
    OBVIOUS
  <1>2. PICK shown : shown = Matches(Rows(place), place.query)
    OBVIOUS
  <1>3. p = [location |-> place, visible |-> shown, open |-> {}, at |-> <<>>, lastKey |-> "none", repeatOn |-> FALSE]
    BY <1>1, <1>2 DEF Loaded
  <1>4. p.location = place /\ p.visible = shown /\ p.open = {} /\ p.at = <<>>
    BY <1>3
  <1>5. shown \subseteq 0 .. Len(Rows(place)) - 1
    BY <1>2 DEF Matches
  <1>7. shown \in SUBSET Nat /\ <<>> \in Seq(Nat) /\ "none" \in KeyCode
    BY <1>5 DEF KeyCode
  <1>8. p \in Frame
    BY <1>3, <1>7 DEF Frame
  <1> QED
    BY <1>1, <1>2, <1>4, <1>8 DEF Proper, Listed, Nowhere

LEMMA AtProper ==
  ASSUME NEW p, Proper(p), NEW item, item # Nowhere => Drawn(p, item)
  PROVE  Proper([p EXCEPT !.at = item]) /\ [p EXCEPT !.at = item].at = item
  <1>1. PICK q : q = [p EXCEPT !.at = item]
    OBVIOUS
  <1>2. item \in Seq(Nat)
    <2>1. Nowhere \in Seq(Nat)
      BY DEF Nowhere
    <2> QED
      BY <2>1, ItemsAre DEF Drawn
  <1>3. q \in Frame
    BY <1>1, <1>2 DEF Proper, Frame
  <1>4. q.location = p.location /\ q.visible = p.visible /\ q.open = p.open /\ q.at = item
    BY <1>1 DEF Proper, Frame
  <1>5. Drawn(q, item) <=> Drawn(p, item)
    BY <1>4, SameDrawn
  <1> QED
    BY <1>1, <1>3, <1>4, <1>5, SamePage DEF Proper, Listed

LEMMA OpenProper ==
  ASSUME NEW p, Proper(p), NEW folded \in SUBSET {i \in RowsOf(p) : Unfolds(p, i)},
         p.at = Nowhere \/ Len(p.at) = 1
  PROVE  Proper([p EXCEPT !.open = folded]) /\ [p EXCEPT !.open = folded].at = p.at
  <1>1. PICK q : q = [p EXCEPT !.open = folded]
    OBVIOUS
  <1>2. folded \in SUBSET Nat
    BY DEF RowsOf
  <1>3. q \in Frame
    BY <1>1, <1>2 DEF Proper, Frame
  <1>4. q.location = p.location /\ q.visible = p.visible /\ q.open = folded /\ q.at = p.at
    BY <1>1 DEF Proper, Frame
  <1>5. Len(p.at) = 1 => (Drawn(q, p.at) <=> Drawn(p, p.at))
    BY <1>4, SameDrawn
  <1> QED
    BY <1>1, <1>3, <1>4, <1>5, SamePage DEF Proper, Listed

LEMMA ToggleProper ==
  ASSUME NEW p, Proper(p), NEW i \in RowsOf(p), Len(p.at) = 1
  PROVE  Proper(Toggle(p, i)) /\ Toggle(p, i).at = p.at
  <1>1. PICK folded : folded = IF i \in p.open THEN p.open \ {i} ELSE p.open \cup {i}
    OBVIOUS
  <1>2. Toggle(p, i) = IF ~Unfolds(p, i) THEN p ELSE [p EXCEPT !.open = folded]
    BY <1>1 DEF Toggle
  <1>3. Unfolds(p, i) => folded \in SUBSET {j \in RowsOf(p) : Unfolds(p, j)}
    BY <1>1 DEF Proper, Listed
  <1> QED
    BY <1>2, <1>3, OpenProper

LEMMA FoldProper ==
  ASSUME NEW p, Proper(p), p.at # Nowhere, NEW key
  PROVE  Proper(Fold(p, key)) /\ Fold(p, key).at = p.at
  <1>1. CASE Len(p.at) = 2 \/ ~Unfolds(p, p.at[1])
    BY <1>1 DEF Fold
  <1>2. CASE ~(Len(p.at) = 2 \/ ~Unfolds(p, p.at[1]))
    <2>1. p.at[1] \in RowsOf(p) /\ Len(p.at) = 1
      BY <1>2, ItemsAre DEF Proper, Listed, Drawn
    <2>2. /\ p.open \cup {p.at[1]} \in SUBSET {i \in RowsOf(p) : Unfolds(p, i)}
          /\ p.open \ {p.at[1]} \in SUBSET {i \in RowsOf(p) : Unfolds(p, i)}
      BY <1>2, <2>1 DEF Proper, Listed
    <2>3. \/ Fold(p, key) = [p EXCEPT !.open = p.open \cup {p.at[1]}]
          \/ Fold(p, key) = [p EXCEPT !.open = p.open \ {p.at[1]}]
      BY <1>2 DEF Fold
    <2> QED
      BY <2>1, <2>2, <2>3, OpenProper
  <1> QED
    BY <1>1, <1>2

LEMMA KeysProper ==
  ASSUME NEW p, Proper(p), NEW type, NEW code \in KeyCode
  PROVE  Proper(ProcessKeys(p, type, code)) /\ ProcessKeys(p, type, code).at = p.at
  <1>1. PICK q : q = ProcessKeys(p, type, code)
    OBVIOUS
  <1>2. \/ q = [p EXCEPT !.repeatOn = FALSE, !.lastKey = code]
        \/ q = [p EXCEPT !.repeatOn = @ \/ p.lastKey # "none"]
        \/ q = [p EXCEPT !.repeatOn = FALSE, !.lastKey = "none"]
    BY <1>1, Zenon DEF ProcessKeys
  <1>3. ASSUME NEW on \in BOOLEAN, NEW last \in KeyCode,
               q = [p EXCEPT !.repeatOn = on, !.lastKey = last]
        PROVE  Proper(q) /\ q.at = p.at
    <2>1. q \in Frame
      BY <1>3 DEF Proper, Frame
    <2>2. q.location = p.location /\ q.visible = p.visible /\ q.open = p.open /\ q.at = p.at
      BY <1>3 DEF Proper, Frame
    <2>3. Drawn(q, p.at) <=> Drawn(p, p.at)
      BY <2>2, SameDrawn
    <2> QED
      BY <2>1, <2>2, <2>3, SamePage DEF Proper, Listed
  <1>4. ASSUME NEW on \in BOOLEAN, q = [p EXCEPT !.repeatOn = on]
        PROVE  Proper(q) /\ q.at = p.at
    <2>1. q \in Frame
      BY <1>4 DEF Proper, Frame
    <2>2. q.location = p.location /\ q.visible = p.visible /\ q.open = p.open /\ q.at = p.at
      BY <1>4 DEF Proper, Frame
    <2>3. Drawn(q, p.at) <=> Drawn(p, p.at)
      BY <2>2, SameDrawn
    <2> QED
      BY <2>1, <2>2, <2>3, SamePage DEF Proper, Listed
  <1>5. "none" \in KeyCode /\ (p.repeatOn \/ p.lastKey # "none") \in BOOLEAN
    BY DEF KeyCode
  <1> QED
    BY <1>1, <1>2, <1>3, <1>4, <1>5

LEMMA FocusItemProper ==
  ASSUME NEW p, Proper(p), NEW item
  PROVE  /\ Proper(FocusItem(p, item))
         /\ FocusItem(p, item).at = Nowhere => p.at = Nowhere
  <1>1. CASE Drawn(p, item)
    <2>1. item \in Items(p) /\ item # Nowhere
      BY <1>1, ItemsAre DEF Drawn
    <2> QED
      BY <1>1, <2>1, AtProper DEF FocusItem
  <1>2. CASE ~Drawn(p, item)
    BY <1>2 DEF FocusItem
  <1> QED
    BY <1>1, <1>2

LEMMA RowDrawn ==
  ASSUME NEW p, Proper(p), NEW i \in p.visible
  PROVE  Drawn(p, <<i>>) /\ <<i>> # Nowhere
  BY VisibleRows, RowIsItem DEF Drawn, Nowhere

\* The first row shown from a place on.
LEMMA NextRow ==
  ASSUME NEW p, Proper(p), NEW k \in Nat
  PROVE  \/ NavNext(p, k) = Nowhere /\ \A j \in p.visible : j < k
         \/ \E i \in p.visible : /\ NavNext(p, k) = <<i>> /\ k <= i
                                 /\ \A j \in p.visible : k <= j => i <= j
  <1> DEFINE found == {j \in p.visible : j >= k}
  <1>1. p.visible \in SUBSET Nat
    BY VisibleRows
  <1>2. NavNext(p, k) = IF found = {} THEN Nowhere ELSE <<Min(found)>>
    BY DEF NavNext
  <1>3. \A j : j \in found <=> (j \in p.visible /\ k <= j)
    BY <1>1
  <1> HIDE DEF found
  <1>4. found # {} => Min(found) \in found /\ \A y \in found : Min(found) <= y
    BY <1>1, <1>3, MinIsMember
  <1>5. CASE found = {}
    BY <1>1, <1>2, <1>3, <1>5
  <1>6. CASE found # {}
    BY <1>2, <1>3, <1>4, <1>6
  <1> QED
    BY <1>5, <1>6

LEMMA FirstRow ==
  ASSUME NEW p, Proper(p), NavNext(p, 0) # Nowhere
  PROVE  Drawn(p, NavNext(p, 0))
  BY NextRow, RowDrawn

-----------------------------------------------------------------------------
(* The lines of the list *)

LEMMA ChildrenType ==
  ASSUME NEW p, Proper(p), NEW i \in RowsOf(p)
  PROVE  Children(p, i) \in Nat
  <1>1. PICK rows : rows = Rows(p.location)
    OBVIOUS
  <1>2. i \in 0 .. Len(rows) - 1
    BY <1>1 DEF RowsOf
  <1>3. rows = <<>> \/ WellKept(rows)
    BY <1>1, PageRows DEF Proper, Frame
  <1>4. WellKept(rows)
    BY <1>2, <1>3
  <1>5. PICK S : S = [id : Seq(Int), children : Nat] /\ rows \in Seq(S)
    BY <1>4 DEF WellKept
  <1>6. i + 1 \in 1 .. Len(rows) /\ rows \in Seq(S)
    BY <1>2, <1>5
  <1>7. PICK row \in S : row = rows[i + 1]
    BY <1>6
  <1>8. row.children \in Nat
    BY <1>5, <1>7
  <1> QED
    BY <1>1, <1>7, <1>8, Zenon DEF Children

\* What a line is made of.
LEMMA DrawnIs ==
  ASSUME NEW p, Proper(p), NEW x, Drawn(p, x)
  PROVE  /\ x \in Items(p) /\ x # Nowhere /\ x[1] \in p.visible /\ x[1] \in Nat
         /\ Len(x) = 1 \/ Len(x) = 2
         /\ Len(x) = 2 => /\ x[1] \in p.open /\ x[2] \in Nat
                          /\ Children(p, x[1]) \in Nat /\ x[2] < Children(p, x[1])
  <1>1. x \in Items(p) /\ x[1] \in p.visible /\ (Len(x) = 2 => x[1] \in p.open)
    BY DEF Drawn
  <1>2. x[1] \in RowsOf(p) /\ x[1] \in Nat
    BY <1>1, VisibleRows
  <1>3. Children(p, x[1]) \in Nat
    BY <1>2, ChildrenType
  <1>4. /\ x # Nowhere
        /\ Len(x) = 1 \/ Len(x) = 2
        /\ Len(x) = 2 => x[2] \in 0 .. Children(p, x[1]) - 1
    BY <1>1, ItemsAre
  <1> QED
    BY <1>1, <1>2, <1>3, <1>4

LEMMA SameItem ==
  ASSUME NEW p, NEW x \in Items(p), NEW y \in Items(p), Len(x) = Len(y), x[1] = y[1],
         Len(x) = 2 => x[2] = y[2]
  PROVE  x = y
  <1>1. CASE Len(x) = 1
    <2>1. x = <<x[1]>> /\ y = <<y[1]>>
      BY <1>1, ItemsAre
    <2> QED
      BY <2>1, Zenon
  <1>2. CASE Len(x) = 2
    <2>1. x = <<x[1], x[2]>> /\ y = <<y[1], y[2]>>
      BY <1>2, ItemsAre
    <2> QED
      BY <1>2, <2>1, Zenon
  <1> QED
    BY <1>1, <1>2, ItemsAre

LEMMA RowLine ==
  ASSUME NEW p, Proper(p), NEW i \in p.visible
  PROVE  \E x : x = <<i>> /\ Drawn(p, x) /\ Len(x) = 1 /\ x[1] = i
  <1>1. Drawn(p, <<i>>)
    BY RowDrawn
  <1>2. Len(<<i>>) = 1 /\ <<i>>[1] = i
    OBVIOUS
  <1> QED
    BY <1>1, <1>2, Zenon

LEMMA ChildLine ==
  ASSUME NEW p, Proper(p), NEW i \in p.visible, i \in p.open, NEW c \in Nat, c < Children(p, i)
  PROVE  \E x : x = <<i, c>> /\ Drawn(p, x) /\ Len(x) = 2 /\ x[1] = i /\ x[2] = c
  <1>1. i \in RowsOf(p)
    BY VisibleRows
  <1>2. c \in 0 .. Children(p, i) - 1
    BY <1>1, ChildrenType
  <1>3. <<i, c>> \in Items(p)
    BY <1>1, <1>2 DEF Items, RowsOf
  <1>4. Len(<<i, c>>) = 2 /\ <<i, c>>[1] = i /\ <<i, c>>[2] = c
    OBVIOUS
  <1>5. Drawn(p, <<i, c>>)
    BY <1>3, <1>4, Zenon DEF Drawn
  <1> QED
    BY <1>4, <1>5, Zenon

\* The order of lines, by rows and then by children.
LEMMA OrderIs ==
  ASSUME NEW x, NEW y, Len(x) = 1 \/ Len(x) = 2, Len(y) = 1 \/ Len(y) = 2
  PROVE  Above(x, y) <=> \/ x[1] < y[1]
                         \/ x[1] = y[1] /\ Len(x) = 1 /\ Len(y) = 2
                         \/ x[1] = y[1] /\ Len(x) = 2 /\ Len(y) = 2 /\ x[2] < y[2]
  BY DEF Above

LEMMA OneOrder ==
  ASSUME NEW p, Proper(p), NEW x, Drawn(p, x), NEW y, Drawn(p, y)
  PROVE  ~(Above(x, y) /\ Above(y, x))
  <1>1. x[1] \in Nat /\ y[1] \in Nat /\ (Len(x) = 1 \/ Len(x) = 2) /\ (Len(y) = 1 \/ Len(y) = 2)
    BY DrawnIs
  <1>2. (Len(x) = 2 => x[2] \in Nat) /\ (Len(y) = 2 => y[2] \in Nat)
    BY DrawnIs
  <1> QED
    BY <1>1, <1>2, OrderIs

LEMMA LinesAre ==
  ASSUME NEW p, NEW x
  PROVE  x \in Lines(p) <=> Drawn(p, x)
  BY DEF Lines, Drawn

\* x is the first line after the one with the focus.
IsNextLine(p, x) ==
  /\ Drawn(p, x) /\ Above(p.at, x)
  /\ \A y : Drawn(p, y) /\ Above(p.at, y) => x = y \/ Above(x, y)

IsLineBefore(p, x) ==
  /\ Drawn(p, x) /\ Above(x, p.at)
  /\ \A y : Drawn(p, y) /\ Above(y, p.at) => x = y \/ Above(y, x)

LEMMA LineBelowIs ==
  ASSUME NEW p, Proper(p), NEW x, IsNextLine(p, x)
  PROVE  LineBelow(p) = x
  <1> DEFINE later == {z \in Lines(p) : Above(p.at, z)}
  <1>1. LineBelow(p) = IF later = {} THEN Nowhere ELSE CHOOSE z \in later : \A y \in later : z = y \/ Above(z, y)
    BY Zenon DEF LineBelow
  <1>2. \A y : y \in later <=> Drawn(p, y) /\ Above(p.at, y)
    BY LinesAre
  <1> HIDE DEF later
  <1>3. x \in later /\ \A y \in later : x = y \/ Above(x, y)
    BY <1>2 DEF IsNextLine
  <1>4. PICK z : z = CHOOSE first \in later : \A y \in later : first = y \/ Above(first, y)
    OBVIOUS
  <1>5. z \in later /\ \A y \in later : z = y \/ Above(z, y)
    BY <1>3, <1>4, Zenon
  <1>6. z = x
    BY <1>2, <1>3, <1>5, OneOrder, Zenon
  <1> QED
    BY <1>1, <1>3, <1>4, <1>6

LEMMA NoLineBelow ==
  ASSUME NEW p, \A y : Drawn(p, y) => ~Above(p.at, y)
  PROVE  LineBelow(p) = Nowhere
  <1>1. {z \in Lines(p) : Above(p.at, z)} = {}
    BY LinesAre
  <1> QED
    BY <1>1, Zenon DEF LineBelow

LEMMA LineAboveIs ==
  ASSUME NEW p, Proper(p), NEW x, IsLineBefore(p, x)
  PROVE  LineAbove(p) = x
  <1> DEFINE earlier == {z \in Lines(p) : Above(z, p.at)}
  <1>1. LineAbove(p) = IF earlier = {} THEN Nowhere ELSE CHOOSE z \in earlier : \A y \in earlier : z = y \/ Above(y, z)
    BY Zenon DEF LineAbove
  <1>2. \A y : y \in earlier <=> Drawn(p, y) /\ Above(y, p.at)
    BY LinesAre
  <1> HIDE DEF earlier
  <1>3. x \in earlier /\ \A y \in earlier : x = y \/ Above(y, x)
    BY <1>2 DEF IsLineBefore
  <1>4. PICK z : z = CHOOSE first \in earlier : \A y \in earlier : first = y \/ Above(y, first)
    OBVIOUS
  <1>5. z \in earlier /\ \A y \in earlier : z = y \/ Above(y, z)
    BY <1>3, <1>4, Zenon
  <1>6. z = x
    BY <1>2, <1>3, <1>5, OneOrder, Zenon
  <1> QED
    BY <1>1, <1>3, <1>4, <1>6

LEMMA NoLineAbove ==
  ASSUME NEW p, \A y : Drawn(p, y) => ~Above(y, p.at)
  PROVE  LineAbove(p) = Nowhere
  <1>1. {z \in Lines(p) : Above(z, p.at)} = {}
    BY LinesAre
  <1> QED
    BY <1>1, Zenon DEF LineAbove

-----------------------------------------------------------------------------
(* Down and Up *)

\* What Down and Up lead to, compared with the lines as they are drawn.
LeadsDown(p, item) ==
  item = LineBelow(p) /\ (item # Nowhere => Drawn(p, item))

LeadsUp(p, item) ==
  item = LineAbove(p) /\ (item # Nowhere => Drawn(p, item))

LEMMA NextLine ==
  ASSUME NEW p, Proper(p), NEW x, IsNextLine(p, x)
  PROVE  LeadsDown(p, x)
  BY LineBelowIs DEF LeadsDown, IsNextLine

LEMMA LineBefore ==
  ASSUME NEW p, Proper(p), NEW x, IsLineBefore(p, x)
  PROVE  LeadsUp(p, x)
  BY LineAboveIs DEF LeadsUp, IsLineBefore

\* From the last line of a row, to the next row that is shown.
LEMMA NavNextIsBelow ==
  ASSUME NEW p, Proper(p), p.at[1] \in Nat, Drawn(p, p.at),
         \A y : Drawn(p, y) => (Above(p.at, y) <=> p.at[1] < y[1])
  PROVE  LeadsDown(p, NavNext(p, p.at[1] + 1))
  <1>1. PICK k \in Nat : k = p.at[1] + 1
    OBVIOUS
  <1>2. \A j \in p.visible : j \in Nat
    BY VisibleRows
  <1>3. \A y : Drawn(p, y) => y[1] \in p.visible /\ (Above(p.at, y) <=> k <= y[1])
    BY <1>1, <1>2, DrawnIs
  <1>4. CASE NavNext(p, k) = Nowhere /\ \A j \in p.visible : j < k
    <2>1. \A y : Drawn(p, y) => ~Above(p.at, y)
      BY <1>2, <1>3, <1>4
    <2> QED
      BY <1>1, <1>4, <2>1, NoLineBelow DEF LeadsDown
  <1>5. ASSUME NEW i \in p.visible, NavNext(p, k) = <<i>>, k <= i,
               \A j \in p.visible : k <= j => i <= j
        PROVE  LeadsDown(p, NavNext(p, k))
    <2>1. PICK x : x = <<i>> /\ Drawn(p, x) /\ Len(x) = 1 /\ x[1] = i
      BY RowLine
    <2>2. ASSUME NEW y, Drawn(p, y), Above(p.at, y)
          PROVE  x = y \/ Above(x, y)
      <3>1. y[1] \in Nat /\ i \in Nat /\ i <= y[1] /\ (Len(y) = 1 \/ Len(y) = 2)
        BY <1>2, <1>3, <1>5, <2>2, DrawnIs
      <3>2. CASE i < y[1] \/ (i = y[1] /\ Len(y) = 2)
        BY <2>1, <3>1, <3>2, OrderIs
      <3>3. CASE i = y[1] /\ Len(y) = 1
        <4>1. x \in Items(p) /\ y \in Items(p)
          BY <2>1, <2>2 DEF Drawn
        <4> QED
          BY <2>1, <3>3, <4>1, SameItem
      <3> QED
        BY <3>1, <3>2, <3>3
    <2>3. Above(p.at, x)
      BY <1>3, <1>5, <2>1
    <2>4. IsNextLine(p, x)
      BY <2>1, <2>2, <2>3 DEF IsNextLine
    <2> QED
      BY <1>5, <2>1, <2>4, NextLine, Zenon
  <1> QED
    BY <1>1, <1>4, <1>5, NextRow

LEMMA DownIsBelow ==
  ASSUME NEW p, Proper(p), p.at # Nowhere
  PROVE  LeadsDown(p, Down(p))
  <1>1. Drawn(p, p.at)
    BY DEF Proper, Listed
  <1>2. PICK i, c : i = p.at[1] /\ c = p.at[2]
    OBVIOUS
  <1>3. /\ i \in p.visible /\ i \in Nat
        /\ Len(p.at) = 1 \/ Len(p.at) = 2
        /\ Len(p.at) = 2 => i \in p.open /\ c \in Nat /\ Children(p, i) \in Nat /\ c < Children(p, i)
    BY <1>1, <1>2, DrawnIs
  <1>4. CASE Len(p.at) = 1 /\ i \in p.open
    <2>1. Children(p, i) > 0
      BY <1>4 DEF Proper, Listed, Unfolds
    <2>2. PICK x : x = <<i, 0>> /\ Drawn(p, x) /\ Len(x) = 2 /\ x[1] = i /\ x[2] = 0
      <3>1. Children(p, i) \in Nat
        BY <1>3, VisibleRows, ChildrenType
      <3> QED
        BY <1>3, <1>4, <2>1, <3>1, ChildLine
    <2>3. Above(p.at, x)
      BY <1>2, <1>4, <2>2, OrderIs
    <2>4. ASSUME NEW y, Drawn(p, y), Above(p.at, y)
          PROVE  x = y \/ Above(x, y)
      <3>0. Len(y) = 1 \/ Len(y) = 2
        BY <2>4, DrawnIs
      <3>1. (i < y[1] \/ (i = y[1] /\ Len(y) = 2))
        BY <1>2, <1>4, <2>4, <3>0, OrderIs
      <3>2. CASE i < y[1]
        BY <2>2, <3>0, <3>2, OrderIs
      <3>3. CASE i = y[1] /\ Len(y) = 2
        <4>1. y[2] \in Nat
          BY <2>4, <3>3, DrawnIs
        <4>2. CASE y[2] = 0
          <5>1. x \in Items(p) /\ y \in Items(p)
            BY <2>2, <2>4 DEF Drawn
          <5> QED
            BY <2>2, <3>3, <4>2, <5>1, SameItem
        <4>3. CASE y[2] > 0
          BY <2>2, <3>3, <4>3, OrderIs
        <4> QED
          BY <4>1, <4>2, <4>3
      <3> QED
        BY <3>1, <3>2, <3>3
    <2>5. IsNextLine(p, x)
      BY <2>2, <2>3, <2>4 DEF IsNextLine
    <2>6. Down(p) = x
      BY <1>2, <1>4, <2>2, Zenon DEF Down, NavDown
    <2> QED
      BY <2>5, <2>6, NextLine
  <1>5. CASE Len(p.at) = 1 /\ i \notin p.open
    <2>1. ASSUME NEW y, Drawn(p, y)
          PROVE  Above(p.at, y) <=> i < y[1]
      <3>1. y[1] \in Nat /\ (Len(y) = 1 \/ Len(y) = 2) /\ (Len(y) = 2 => y[1] \in p.open)
        BY <2>1, DrawnIs
      <3> QED
        BY <1>2, <1>3, <1>5, <3>1, OrderIs
    <2>2. LeadsDown(p, NavNext(p, i + 1))
      BY <1>1, <1>2, <1>3, <2>1, NavNextIsBelow
    <2>3. Down(p) = NavNext(p, i + 1)
      BY <1>2, <1>5, Zenon DEF Down, NavDown
    <2> QED
      BY <2>2, <2>3
  <1>6. CASE Len(p.at) = 2 /\ c + 1 < Children(p, i)
    <2>1. PICK d \in Nat : d = c + 1
      BY <1>3, <1>6
    <2>2. PICK x : x = <<i, d>> /\ Drawn(p, x) /\ Len(x) = 2 /\ x[1] = i /\ x[2] = d
      BY <1>3, <1>6, <2>1, ChildLine
    <2>3. Above(p.at, x)
      BY <1>2, <1>3, <1>6, <2>1, <2>2, OrderIs
    <2>4. ASSUME NEW y, Drawn(p, y), Above(p.at, y)
          PROVE  x = y \/ Above(x, y)
      <3>0. Len(y) = 1 \/ Len(y) = 2
        BY <2>4, DrawnIs
      <3>1. (i < y[1] \/ (i = y[1] /\ Len(y) = 2 /\ c < y[2]))
        BY <1>2, <1>6, <2>4, <3>0, OrderIs
      <3>2. CASE i < y[1]
        BY <2>2, <3>0, <3>2, OrderIs
      <3>3. CASE i = y[1] /\ Len(y) = 2 /\ c < y[2]
        <4>1. y[2] \in Nat
          BY <2>4, <3>3, DrawnIs
        <4>2. CASE y[2] = d
          <5>1. x \in Items(p) /\ y \in Items(p)
            BY <2>2, <2>4 DEF Drawn
          <5> QED
            BY <2>2, <3>3, <4>2, <5>1, SameItem
        <4>3. CASE d < y[2]
          BY <2>2, <3>3, <4>3, OrderIs
        <4>4. y[2] = d \/ d < y[2]
          BY <1>3, <1>6, <2>1, <3>3, <4>1
        <4> QED
          BY <4>2, <4>3, <4>4
      <3> QED
        BY <3>1, <3>2, <3>3
    <2>5. IsNextLine(p, x)
      BY <2>2, <2>3, <2>4 DEF IsNextLine
    <2>6. Down(p) = x
      <3>1. Len(p.at) # 1
        BY <1>6
      <3> QED
        BY <1>2, <1>6, <2>1, <2>2, <3>1, Zenon DEF Down, NavChildDown
    <2> QED
      BY <2>5, <2>6, NextLine
  <1>7. CASE Len(p.at) = 2 /\ ~(c + 1 < Children(p, i))
    <2>1. ASSUME NEW y, Drawn(p, y)
          PROVE  Above(p.at, y) <=> i < y[1]
      <3>1. /\ y[1] \in Nat /\ (Len(y) = 1 \/ Len(y) = 2)
            /\ Len(y) = 2 => y[2] \in Nat /\ y[2] < Children(p, y[1])
        BY <2>1, DrawnIs
      <3>2. Len(y) = 2 /\ y[1] = i => ~(c < y[2])
        BY <1>3, <1>7, <3>1
      <3> QED
        BY <1>2, <1>3, <1>7, <3>1, <3>2, OrderIs
    <2>2. LeadsDown(p, NavNext(p, i + 1))
      BY <1>1, <1>2, <1>3, <2>1, NavNextIsBelow
    <2>3. Down(p) = NavNext(p, i + 1)
      <3>1. Len(p.at) # 1
        BY <1>7
      <3> QED
        BY <1>2, <1>7, <3>1, Zenon DEF Down, NavChildDown
    <2> QED
      BY <2>2, <2>3
  <1> QED
    BY <1>3, <1>4, <1>5, <1>6, <1>7

\* The last row shown before a place.
LEMMA PreviousRow ==
  ASSUME NEW p, Proper(p), NEW k \in Nat
  PROVE  \/ NavPrev(p, k - 1) = Nowhere /\ \A j \in p.visible : k <= j
         \/ \E i \in p.visible : /\ NavPrev(p, k - 1) = <<i>> /\ i < k
                                 /\ \A j \in p.visible : j < k => j <= i
  <1> DEFINE found == {j \in p.visible : j <= k - 1}
  <1>1. p.visible \in SUBSET Nat
    BY VisibleRows
  <1>2. NavPrev(p, k - 1) = IF found = {} THEN Nowhere ELSE <<Max(found)>>
    BY DEF NavPrev
  <1>3. \A j : j \in found <=> (j \in p.visible /\ j < k)
    BY <1>1
  <1> HIDE DEF found
  <1>4. found \in SUBSET (0 .. k)
    BY <1>1, <1>3
  <1>5. found # {} => Max(found) \in found /\ \A y \in found : y <= Max(found)
    BY <1>4, MaxIsMember
  <1>6. CASE found = {}
    BY <1>1, <1>2, <1>3, <1>6
  <1>7. CASE found # {}
    BY <1>2, <1>3, <1>5, <1>7
  <1> QED
    BY <1>6, <1>7

\* The rows shown stand together: the last one before a row shown is the row above.
LEMMA RowAbove ==
  ASSUME NEW p, Proper(p), NEW i \in p.visible, NEW m \in p.visible, m < i
  PROVE  i - 1 \in p.visible
  <1>1. p.visible = Matches(Rows(p.location), p.location.query) /\ p.location \in Page
    BY DEF Proper, Listed, Frame
  <1>2. i \in Nat /\ m \in Nat
    BY VisibleRows
  <1>3. i - 1 \in m .. i
    BY <1>2
  <1> QED
    BY <1>1, <1>3, MatchesTogether

LEMMA UpFromRow ==
  ASSUME NEW p, Proper(p), Drawn(p, p.at), Len(p.at) = 1
  PROVE  LeadsUp(p, Up(p))
  <1>1. PICK i : i = p.at[1]
    OBVIOUS
  <1>2. i \in p.visible /\ i \in Nat
    BY <1>1, DrawnIs
  <1>3. Up(p) = NavUp(p, i)
    BY <1>1, Zenon DEF Up
  <1>4. \A j \in p.visible : j \in Nat
    BY VisibleRows
  <1>5. ASSUME NEW y, Drawn(p, y)
        PROVE  y[1] \in p.visible /\ y[1] \in Nat /\ (Above(y, p.at) <=> y[1] < i)
    <2>1. y[1] \in p.visible /\ y[1] \in Nat /\ (Len(y) = 1 \/ Len(y) = 2)
      BY <1>5, DrawnIs
    <2> QED
      BY <1>1, <1>2, <2>1, OrderIs
  <1>6. CASE NavPrev(p, i - 1) = Nowhere /\ \A j \in p.visible : i <= j
    <2>1. \A y : Drawn(p, y) => ~Above(y, p.at)
      BY <1>2, <1>5, <1>6
    <2>2. Up(p) = Nowhere
      BY <1>3, <1>6, Zenon DEF NavUp
    <2> QED
      BY <2>1, <2>2, NoLineAbove DEF LeadsUp
  <1>7. ASSUME NEW m \in p.visible, NavPrev(p, i - 1) = <<m>>, m < i,
               \A j \in p.visible : j < i => j <= m
        PROVE  LeadsUp(p, Up(p))
    <2>1. PICK k : k = i - 1
      OBVIOUS
    <2>2. k \in p.visible /\ k \in Nat /\ k < i
      BY <1>2, <1>4, <1>7, <2>1, RowAbove
    <2>3. m = k
      BY <1>2, <1>4, <1>7, <2>1, <2>2
    <2>4. ASSUME NEW y, Drawn(p, y), Above(y, p.at)
          PROVE  y[1] < k \/ y[1] = k
      BY <1>2, <1>5, <2>1, <2>2, <2>4
    <2>5. PICK above : above = <<k>> /\ Drawn(p, above) /\ Len(above) = 1 /\ above[1] = k
      BY <2>2, RowLine
    <2>6. NavUp(p, i) = IF above # Nowhere /\ above[1] \in p.open /\ Children(p, k) > 0
                        THEN <<k, Children(p, k) - 1>> ELSE above
      BY <1>7, <2>1, <2>3, <2>5, Zenon DEF NavUp
    <2>7. above # Nowhere /\ Children(p, k) \in Nat
      BY <2>2, <2>5, DrawnIs, VisibleRows, ChildrenType
    <2>8. CASE k \in p.open
      <3>1. Children(p, k) > 0
        BY <2>8 DEF Proper, Listed, Unfolds
      <3>2. PICK c \in Nat : c = Children(p, k) - 1
        BY <2>7, <3>1
      <3>3. PICK x : x = <<k, c>> /\ Drawn(p, x) /\ Len(x) = 2 /\ x[1] = k /\ x[2] = c
        BY <2>2, <2>7, <2>8, <3>2, ChildLine
      <3>4. Up(p) = x
        BY <1>3, <2>5, <2>6, <2>7, <2>8, <3>1, <3>2, <3>3, Zenon
      <3>5. Above(x, p.at)
        BY <1>5, <2>2, <3>3
      <3>6. ASSUME NEW y, Drawn(p, y), Above(y, p.at)
            PROVE  x = y \/ Above(y, x)
        <4>1. Len(y) = 1 \/ (Len(y) = 2 /\ y[2] \in Nat /\ y[2] < Children(p, y[1]))
          BY <3>6, DrawnIs
        <4>2. CASE y[1] < k \/ Len(y) = 1
          BY <2>4, <3>3, <3>6, <4>1, <4>2, OrderIs
        <4>3. CASE y[1] = k /\ Len(y) = 2
          <5>1. y[2] < c \/ y[2] = c
            BY <2>7, <3>2, <4>1, <4>3
          <5>2. CASE y[2] < c
            BY <3>3, <4>3, <5>2, OrderIs
          <5>3. CASE y[2] = c
            <6>1. x \in Items(p) /\ y \in Items(p)
              BY <3>3, <3>6 DEF Drawn
            <6> QED
              BY <3>3, <4>3, <5>3, <6>1, SameItem
          <5> QED
            BY <5>1, <5>2, <5>3
        <4> QED
          BY <2>4, <3>6, <4>1, <4>2, <4>3
      <3> QED
        BY <3>3, <3>4, <3>5, <3>6, LineBefore DEF IsLineBefore
    <2>9. CASE k \notin p.open
      <3>1. Up(p) = above
        BY <1>3, <2>5, <2>6, <2>9, Zenon
      <3>2. Above(above, p.at)
        BY <1>5, <2>2, <2>5
      <3>3. ASSUME NEW y, Drawn(p, y), Above(y, p.at)
            PROVE  above = y \/ Above(y, above)
        <4>1. Len(y) = 1 \/ (Len(y) = 2 /\ y[1] \in p.open)
          BY <3>3, DrawnIs
        <4>2. CASE y[1] < k
          BY <2>5, <4>1, <4>2, OrderIs
        <4>3. CASE y[1] = k
          <5>1. above \in Items(p) /\ y \in Items(p)
            BY <2>5, <3>3 DEF Drawn
          <5>2. Len(y) = 1
            BY <2>9, <4>1, <4>3
          <5> QED
            BY <2>5, <4>3, <5>1, <5>2, SameItem
        <4> QED
          BY <2>4, <3>3, <4>2, <4>3
      <3> QED
        BY <2>5, <3>1, <3>2, <3>3, LineBefore DEF IsLineBefore
    <2> QED
      BY <2>8, <2>9
  <1> QED
    BY <1>2, <1>6, <1>7, PreviousRow

LEMMA UpFromChild ==
  ASSUME NEW p, Proper(p), Drawn(p, p.at), Len(p.at) = 2
  PROVE  LeadsUp(p, Up(p))
  <1>1. PICK i, c : i = p.at[1] /\ c = p.at[2]
    OBVIOUS
  <1>2. /\ i \in p.visible /\ i \in Nat /\ i \in p.open
        /\ c \in Nat /\ Children(p, i) \in Nat /\ c < Children(p, i)
    BY <1>1, DrawnIs
  <1>3. Up(p) = NavChildUp(p, i, c)
    <2>1. Len(p.at) # 1
      OBVIOUS
    <2> QED
      BY <1>1, <2>1, Zenon DEF Up
  <1>4. ASSUME NEW y, Drawn(p, y), Above(y, p.at)
        PROVE  /\ Len(y) = 1 \/ (Len(y) = 2 /\ y[2] \in Nat)
               /\ y[1] < i \/ (y[1] = i /\ Len(y) = 1) \/ (y[1] = i /\ Len(y) = 2 /\ y[2] < c)
    <2>1. Len(y) = 1 \/ (Len(y) = 2 /\ y[2] \in Nat)
      BY <1>4, DrawnIs
    <2> QED
      BY <1>1, <1>4, <2>1, OrderIs
  <1>5. CASE c > 0
    <2>1. PICK d \in Nat : d = c - 1
      BY <1>2, <1>5
    <2>2. PICK x : x = <<i, d>> /\ Drawn(p, x) /\ Len(x) = 2 /\ x[1] = i /\ x[2] = d
      BY <1>2, <2>1, ChildLine
    <2>3. Up(p) = x
      BY <1>3, <1>5, <2>1, <2>2, Zenon DEF NavChildUp
    <2>4. Above(x, p.at)
      BY <1>1, <1>2, <2>1, <2>2, OrderIs
    <2>5. ASSUME NEW y, Drawn(p, y), Above(y, p.at)
          PROVE  x = y \/ Above(y, x)
      <3>1. CASE y[1] < i \/ (y[1] = i /\ Len(y) = 1)
        BY <1>4, <2>2, <2>5, <3>1, OrderIs
      <3>2. CASE y[1] = i /\ Len(y) = 2 /\ y[2] < c
        <4>1. y[2] < d \/ y[2] = d
          BY <1>2, <1>4, <2>1, <2>5, <3>2
        <4>2. CASE y[2] < d
          BY <2>2, <3>2, <4>2, OrderIs
        <4>3. CASE y[2] = d
          <5>1. x \in Items(p) /\ y \in Items(p)
            BY <2>2, <2>5 DEF Drawn
          <5> QED
            BY <2>2, <3>2, <4>3, <5>1, SameItem
        <4> QED
          BY <4>1, <4>2, <4>3
      <3> QED
        BY <1>4, <2>5, <3>1, <3>2
    <2> QED
      BY <2>2, <2>3, <2>4, <2>5, LineBefore DEF IsLineBefore
  <1>6. CASE c = 0
    <2>1. PICK x : x = <<i>> /\ Drawn(p, x) /\ Len(x) = 1 /\ x[1] = i
      BY <1>2, RowLine
    <2>2. Up(p) = x
      <3>1. ~(c > 0)
        BY <1>6
      <3> QED
        BY <1>3, <2>1, <3>1, Zenon DEF NavChildUp
    <2>3. Above(x, p.at)
      BY <1>1, <2>1, OrderIs
    <2>4. ASSUME NEW y, Drawn(p, y), Above(y, p.at)
          PROVE  x = y \/ Above(y, x)
      <3>1. CASE y[1] < i
        BY <1>4, <2>1, <2>4, <3>1, OrderIs
      <3>2. CASE y[1] = i /\ Len(y) = 1
        <4>1. x \in Items(p) /\ y \in Items(p)
          BY <2>1, <2>4 DEF Drawn
        <4> QED
          BY <2>1, <3>2, <4>1, SameItem
      <3> QED
        BY <1>4, <1>6, <2>4, <3>1, <3>2
    <2> QED
      BY <2>1, <2>2, <2>3, <2>4, LineBefore DEF IsLineBefore
  <1> QED
    BY <1>2, <1>5, <1>6

LEMMA UpIsAbove ==
  ASSUME NEW p, Proper(p), p.at # Nowhere
  PROVE  LeadsUp(p, Up(p))
  <1>1. Drawn(p, p.at)
    BY DEF Proper, Listed
  <1> QED
    BY <1>1, DrawnIs, UpFromRow, UpFromChild

-----------------------------------------------------------------------------
(* The panel and the page together *)

\* An item has the focus while the frame has it, and no timer hides the list of
\* filters while the pointer is over it.
Together(b, p) == Sound(b) /\ Proper(p) /\ (b.focus = "results" => p.at # Nowhere)

\* No item has the focus while the frame has not; a key that was pressed in the
\* results repeats only after its first "keypress".
Quiet ==
  /\ box.focus # "results" => page.at = Nowhere
  /\ held.stage = "down" /\ held.key # "enter" => ~page.repeatOn

IInv ==
  /\ Together(box, page) /\ Quiet
  /\ over \in BOOLEAN /\ (over => ~box.hideTimer)
  /\ held \in [key : Key \cup {"none"}, stage : {"elsewhere", "down", "pressed"}]

LEMMA BecomesTogether ==
  ASSUME NEW b, NEW p, Together(b, p), Becomes(b, p)
  PROVE  /\ Together(box', page') /\ box'.hideTimer = b.hideTimer
         /\ box'.focus # "results" => page'.at = Nowhere
  <1>1. Proper([p EXCEPT !.at = Nowhere]) /\ [p EXCEPT !.at = Nowhere].at = Nowhere
    BY AtProper DEF Together
  <1> QED
    BY <1>1 DEF Together, Becomes

StepKeeps ==
  /\ Together(box', page') /\ (box'.hideTimer => box.hideTimer)
  /\ box'.focus # "results" => page'.at = Nowhere

LEMMA BecomesKeeps ==
  ASSUME Together(box, page), NEW b, Keeps(box, b), NEW p, Proper(p),
         p.at = Nowhere => page.at = Nowhere, Becomes(b, p)
  PROVE  StepKeeps
  <1>1. Together(b, p) /\ (b.hideTimer => box.hideTimer)
    BY DEF Together, Keeps
  <1> QED
    BY <1>1, BecomesTogether DEF StepKeeps

-----------------------------------------------------------------------------
(* Keys *)

LEMMA CodeType ==
  ASSUME NEW key \in Key \cup {"none"}
  PROVE  Code(key) \in KeyCode
  <1>1. \/ key = "shift-down" /\ Code(key) = "down"
        \/ key \in {"char", "backspace"} /\ Code(key) = "other"
        \/ key # "shift-down" /\ key \notin {"char", "backspace"} /\ Code(key) = key
    BY Zenon DEF Code
  <1> QED
    BY <1>1 DEF Key, KeyCode

LEMMA NavKeeps ==
  ASSUME Together(box, page), NEW p, Proper(p), p.at # Nowhere, Nav(p)
  PROVE  StepKeeps
  <1>1. Sound(box) /\ Keeps(box, box)
    BY DEF Together, Keeps
  <1>2. ASSUME NEW q, Proper(q), q.at # Nowhere, Becomes(box, q)
        PROVE  StepKeeps
    BY <1>1, <1>2, BecomesKeeps
  <1>3. ASSUME NEW item, MoveTo(p, item)
        PROVE  StepKeeps
    BY <1>2, <1>3, FocusItemProper DEF MoveTo
  <1>4. ASSUME Becomes(MoveFocus(box, "field"), p)
        PROVE  StepKeeps
    <2>1. Keeps(box, MoveFocus(box, "field"))
      BY <1>1, MoveFocusKeeps DEF Focus
    <2> QED
      BY <1>4, <2>1, BecomesKeeps
  <1>5. ASSUME Becomes(MoveFocus(CloseResultsWindow(box), "field"), p)
        PROVE  StepKeeps
    <2>1. PICK c : c = CloseResultsWindow(box) /\ Keeps(box, c) /\ Sound(c)
      BY <1>1, CloseResultsKeeps DEF Keeps
    <2>2. Keeps(c, MoveFocus(c, "field"))
      BY <2>1, MoveFocusKeeps DEF Focus
    <2>3. Keeps(box, MoveFocus(c, "field"))
      BY <2>1, <2>2, KeepsOn
    <2> QED
      BY <1>5, <2>1, <2>3, BecomesKeeps
  <1>6. ASSUME NEW key, Becomes(box, Fold(p, key))
        PROVE  StepKeeps
    BY <1>2, <1>6, FoldProper
  <1>7. \/ Becomes(MoveFocus(box, "field"), p)
        \/ MoveTo(p, Up(p))
        \/ MoveTo(p, Down(p))
        \/ Becomes(box, Fold(p, p.lastKey))
        \/ Becomes(MoveFocus(CloseResultsWindow(box), "field"), p)
        \/ Becomes(box, p)
    BY Zenon DEF Nav
  <1> QED
    BY <1>2, <1>3, <1>4, <1>5, <1>6, <1>7

LEMMA ItemKeyKeeps ==
  ASSUME Together(box, page), box.focus = "results", NEW type, NEW key \in Key \cup {"none"},
         ItemKey(type, key)
  PROVE  StepKeeps
  <1>1. Sound(box) /\ Keeps(box, box) /\ Proper(page) /\ page.at # Nowhere
    BY DEF Together, Keeps
  <1>2. PICK p : /\ p = ProcessKeys(page, type, Code(key))
                 /\ Proper(p) /\ p.at # Nowhere
    BY <1>1, CodeType, KeysProper
  <1>3. ASSUME NEW q, Proper(q), q.at # Nowhere, Becomes(box, q)
        PROVE  StepKeeps
    BY <1>1, <1>3, BecomesKeeps
  <1>4. ASSUME Len(page.at) = 1, Becomes(box, Toggle(page, page.at[1]))
        PROVE  StepKeeps
    <2>1. page.at[1] \in RowsOf(page)
      BY <1>1, <1>4, ItemsAre DEF Proper, Listed, Drawn
    <2> QED
      BY <1>1, <1>3, <1>4, <2>1, ToggleProper
  <1>5. \/ Becomes(box, page)
        \/ Len(page.at) = 1 /\ Becomes(box, Toggle(page, page.at[1]))
        \/ Nav(p)
        \/ Becomes(box, p)
    BY <1>2, Zenon DEF ItemKey
  <1> QED
    BY <1>1, <1>2, <1>3, <1>4, <1>5, NavKeeps

LEMMA FieldKeyKeeps ==
  ASSUME Together(box, page), NEW key, FieldKey(key)
  PROVE  StepKeeps
  <1>1. Sound(box) /\ Keeps(box, box) /\ Proper(page)
    BY DEF Together, Keeps
  <1>2. ASSUME NEW text \in Seq(Int), Becomes([box EXCEPT !.value = text], page)
        PROVE  StepKeeps
    <2>1. Keeps(box, [box EXCEPT !.value = text])
      BY <1>1 DEF Sound, Panel, Remembers, RemembersSearch, Keeps
    <2> QED
      BY <1>1, <1>2, <2>1, BecomesKeeps
  <1>3. box.value \in Seq(Int)
    BY <1>1 DEF Sound, Panel
  <1>4. ASSUME NEW c \in Char, Becomes([box EXCEPT !.value = Append(@, c)], page)
        PROVE  StepKeeps
    <2>1. PICK text \in Seq(Int) : text = Append(box.value, c)
      <3>1. PICK old \in Seq(Int) : old = box.value
        BY <1>3
      <3>2. c \in Int
        BY ReaderAssumption
      <3>3. Append(old, c) \in Seq(Int)
        BY <3>2
      <3> QED
        BY <3>1, <3>3
    <2> QED
      BY <1>2, <1>4, <2>1
  <1>5. ASSUME box.value # <<>>, Becomes([box EXCEPT !.value = Front(@)], page)
        PROVE  StepKeeps
    <2>1. PICK text \in Seq(Int) : text = Front(box.value)
      <3>1. PICK old \in Seq(Int) \ {<<>>} : old = box.value
        BY <1>3, <1>5
      <3>2. Front(old) \in Seq(Int)
        BY DEF Front
      <3> QED
        BY <3>1, <3>2
    <2> QED
      BY <1>2, <1>5, <2>1
  <1>6. \/ \E c \in Char : Becomes([box EXCEPT !.value = Append(@, c)], page)
        \/ box.value # <<>> /\ Becomes([box EXCEPT !.value = Front(@)], page)
        \/ Becomes(box, page)
    BY Zenon DEF FieldKey
  <1> QED
    BY <1>1, <1>4, <1>5, <1>6, BecomesKeeps

LEMMA KeyIsDownKeeps ==
  ASSUME Together(box, page), NEW key \in Key \cup {"none"}, KeyIsDown(key)
  PROVE  StepKeeps
  <1>1. Sound(box) /\ Keeps(box, box) /\ Proper(page)
    BY DEF Together, Keeps
  <1>2. \/ FieldKey(key)
        \/ Becomes(OnSearchSelectKey(box, key), page)
        \/ box.focus = "results" /\ ItemKey("keydown", key)
        \/ Becomes(box, page)
    BY Zenon DEF KeyIsDown
  <1>3. CASE Becomes(OnSearchSelectKey(box, key), page)
    BY <1>1, <1>3, SelectKeyKeeps, BecomesKeeps
  <1>4. CASE Becomes(box, page)
    BY <1>1, <1>4, BecomesKeeps
  <1> QED
    BY <1>2, <1>3, <1>4, FieldKeyKeeps, ItemKeyKeeps

LEMMA KeyUpKeeps ==
  ASSUME Together(box, page), held.key \in Key \cup {"none"}, KeyUp
  PROVE  StepKeeps
  <1>1. Sound(box) /\ Keeps(box, box) /\ Proper(page)
    BY DEF Together, Keeps
  <1>2. \/ Becomes(OnSearchFieldChange(box, held.key), page)
        \/ box.focus = "results" /\ ItemKey("keyup", held.key)
        \/ Becomes(box, page)
    BY Zenon DEF KeyUp
  <1>3. CASE Becomes(OnSearchFieldChange(box, held.key), page)
    BY <1>1, <1>3, FieldChangeKeeps, BecomesKeeps
  <1>4. CASE Becomes(box, page)
    BY <1>1, <1>4, BecomesKeeps
  <1> QED
    BY <1>2, <1>3, <1>4, ItemKeyKeeps

-----------------------------------------------------------------------------
(* Whether a key repeats *)

LEMMA BecomesRepeat ==
  ASSUME NEW b, NEW p, Proper(p), Becomes(b, p)
  PROVE  /\ page'.repeatOn = p.repeatOn
         /\ b.focus = "results" => page' = p
         /\ b.focus # "results" => page'.at = Nowhere
  <1>1. p \in Frame
    BY DEF Proper
  <1>2. [p EXCEPT !.at = Nowhere].repeatOn = p.repeatOn /\ [p EXCEPT !.at = Nowhere].at = Nowhere
    BY <1>1 DEF Frame
  <1> QED
    BY <1>2, Zenon DEF Becomes

LEMMA ItemRepeat ==
  ASSUME NEW p, Proper(p), NEW i, NEW key, NEW item
  PROVE  /\ Toggle(p, i).repeatOn = p.repeatOn /\ Fold(p, key).repeatOn = p.repeatOn
         /\ FocusItem(p, item).repeatOn = p.repeatOn
  <1>1. p \in Frame
    BY DEF Proper
  <1>2. \A folded : [p EXCEPT !.open = folded].repeatOn = p.repeatOn
    BY <1>1 DEF Frame
  <1>3. [p EXCEPT !.at = item].repeatOn = p.repeatOn
    BY <1>1 DEF Frame
  <1>4. Toggle(p, i).repeatOn = p.repeatOn
    <2>1. Toggle(p, i) = p \/ \E folded : Toggle(p, i) = [p EXCEPT !.open = folded]
      BY Zenon DEF Toggle
    <2> QED
      BY <1>2, <2>1, Zenon
  <1>5. Fold(p, key).repeatOn = p.repeatOn
    <2>1. Fold(p, key) = p \/ \E folded : Fold(p, key) = [p EXCEPT !.open = folded]
      BY Zenon DEF Fold
    <2> QED
      BY <1>2, <2>1, Zenon
  <1>6. FocusItem(p, item).repeatOn = p.repeatOn
    BY <1>3, Zenon DEF FocusItem
  <1> QED
    BY <1>4, <1>5, <1>6

\* After a "keydown" nothing repeats yet.
LEMMA DownProcessed ==
  ASSUME NEW p, Proper(p), NEW code \in KeyCode
  PROVE  LET q == ProcessKeys(p, "keydown", code) IN
         /\ Proper(q) /\ q.at = p.at /\ ~q.repeatOn /\ q.lastKey = code
         /\ q.location = p.location /\ q.visible = p.visible /\ q.open = p.open
  <1>1. PICK q : q = ProcessKeys(p, "keydown", code)
    OBVIOUS
  <1>2. q = [p EXCEPT !.repeatOn = FALSE, !.lastKey = code]
    BY <1>1, Zenon DEF ProcessKeys
  <1>3. /\ ~q.repeatOn /\ q.lastKey = code
        /\ q.location = p.location /\ q.visible = p.visible /\ q.open = p.open
    BY <1>2 DEF Proper, Frame
  <1> QED
    BY <1>1, <1>3, KeysProper

LEMMA NavRepeat ==
  ASSUME NEW p, Proper(p), p.at # Nowhere, ~p.repeatOn, Nav(p)
  PROVE  ~page'.repeatOn
  <1>1. ASSUME NEW b, NEW q, Proper(q), ~q.repeatOn, Becomes(b, q)
        PROVE  ~page'.repeatOn
    BY <1>1, BecomesRepeat
  <1>2. ASSUME NEW item, MoveTo(p, item)
        PROVE  ~page'.repeatOn
    <2>1. Proper(FocusItem(p, item)) /\ ~FocusItem(p, item).repeatOn
      BY FocusItemProper, ItemRepeat
    <2> QED
      BY <1>1, <1>2, <2>1 DEF MoveTo
  <1>3. ASSUME NEW key, Becomes(box, Fold(p, key))
        PROVE  ~page'.repeatOn
    BY <1>1, <1>3, ItemRepeat, FoldProper
  <1>4. \/ \E b : Becomes(b, p)
        \/ \E item : MoveTo(p, item)
        \/ \E key : Becomes(box, Fold(p, key))
    BY Zenon DEF Nav
  <1> QED
    BY <1>1, <1>2, <1>3, <1>4

LEMMA ItemKeyRepeat ==
  ASSUME Together(box, page), box.focus = "results", NEW key \in Key \cup {"none"},
         ItemKey("keydown", key)
  PROVE  (page'.repeatOn => page.repeatOn) /\ (key # "enter" => ~page'.repeatOn)
  <1>1. Proper(page) /\ page.at # Nowhere
    BY DEF Together
  <1>2. Code(key) \in KeyCode /\ (Code(key) = "enter" => key = "enter")
    <2>1. \/ key = "shift-down" /\ Code(key) = "down"
          \/ key \in {"char", "backspace"} /\ Code(key) = "other"
          \/ Code(key) = key
      BY Zenon DEF Code
    <2> QED
      BY <2>1, CodeType
  <1>3. PICK p : /\ p = ProcessKeys(page, "keydown", Code(key))
                 /\ Proper(p) /\ p.at # Nowhere /\ ~p.repeatOn
    BY <1>1, <1>2, DownProcessed
  <1>4. CASE Code(key) = "enter"
    <2>1. Len(page.at) = 1 /\ Becomes(box, Toggle(page, page.at[1]))
      BY <1>4, Zenon DEF ItemKey
    <2>2. page.at[1] \in RowsOf(page)
      BY <1>1, <2>1, ItemsAre DEF Proper, Listed, Drawn
    <2>3. Proper(Toggle(page, page.at[1])) /\ Toggle(page, page.at[1]).repeatOn = page.repeatOn
      BY <1>1, <2>1, <2>2, ToggleProper, ItemRepeat
    <2> QED
      BY <1>2, <1>4, <2>1, <2>3, BecomesRepeat
  <1>5. CASE Code(key) # "enter"
    <2>1. Nav(p)
      BY <1>3, <1>5, Zenon DEF ItemKey, IsHandled
    <2> QED
      BY <1>3, <2>1, NavRepeat
  <1> QED
    BY <1>4, <1>5

LEMMA KeyIsDownRepeat ==
  ASSUME Together(box, page), NEW key \in Key \cup {"none"}, KeyIsDown(key)
  PROVE  /\ page'.repeatOn => page.repeatOn
         /\ box.focus = "results" /\ key # "enter" => ~page'.repeatOn
  <1>1. Proper(page)
    BY DEF Together
  <1>2. CASE box.focus = "results"
    <2>1. ItemKey("keydown", key)
      <3>1. box.focus # "field" /\ box.focus # "filter"
        BY <1>2
      <3> QED
        BY <1>2, <3>1, Zenon DEF KeyIsDown
    <2> QED
      BY <1>2, <2>1, ItemKeyRepeat
  <1>3. CASE box.focus # "results"
    <2>1. \E b : Becomes(b, page)
      <3>1. FieldKey(key) \/ \E b : Becomes(b, page)
        BY <1>3, Zenon DEF KeyIsDown
      <3>2. FieldKey(key) => \E b : Becomes(b, page)
        BY Zenon DEF FieldKey
      <3> QED
        BY <3>1, <3>2
    <2> QED
      BY <1>1, <1>3, <2>1, BecomesRepeat
  <1> QED
    BY <1>2, <1>3

-----------------------------------------------------------------------------
(* The pointer and the browser *)

LEMMA RowClicked ==
  ASSUME NEW p, Proper(p), NEW i \in p.visible
  PROVE  LET q == Toggle([p EXCEPT !.at = <<i>>], i)
         IN  Proper(q) /\ q.at # Nowhere /\ q.repeatOn = p.repeatOn
  <1>1. i \in RowsOf(p) /\ Drawn(p, <<i>>) /\ <<i>> # Nowhere
    BY RowDrawn, VisibleRows
  <1>2. PICK q : q = [p EXCEPT !.at = <<i>>] /\ Proper(q) /\ q.at = <<i>>
    BY <1>1, AtProper
  <1>3. q.location = p.location /\ q.repeatOn = p.repeatOn
    BY <1>2 DEF Proper, Frame
  <1>4. i \in RowsOf(q)
    BY <1>1, <1>3, SamePage
  <1> QED
    BY <1>1, <1>2, <1>3, <1>4, ToggleProper, ItemRepeat

LEMMA FocusTaken ==
  ASSUME NEW p, Proper(p), NavNext(p, 0) # Nowhere
  PROVE  LET q == [p EXCEPT !.at = NavNext(p, 0)]
         IN  Proper(q) /\ q.at # Nowhere /\ q.repeatOn = p.repeatOn
  <1>1. Drawn(p, NavNext(p, 0))
    BY FirstRow
  <1>2. PICK q : q = [p EXCEPT !.at = NavNext(p, 0)] /\ Proper(q) /\ q.at # Nowhere
    BY <1>1, AtProper
  <1>3. q.repeatOn = p.repeatOn
    BY <1>2 DEF Proper, Frame
  <1> QED
    BY <1>2, <1>3

LEMMA ClickKeeps ==
  ASSUME Together(box, page), ClickField \/ ClickElsewhere \/ ClickClose \/ ClickFilter \/ ClickRow
  PROVE  StepKeeps
  <1>1. Sound(box) /\ Proper(page)
    BY DEF Together
  <1>2. ASSUME NEW to \in Focus \ {"results"}
        PROVE  Keeps(box, MoveFocus(box, to)) /\ Sound(MoveFocus(box, to))
    BY <1>1, MoveFocusKeeps DEF Keeps
  <1>3. CASE ClickField \/ ClickElsewhere
    <2>1. \E to \in Focus \ {"results"} : Becomes(MoveFocus(box, to), page)
      BY <1>3 DEF ClickField, ClickElsewhere, Focus
    <2> QED
      BY <1>1, <1>2, <2>1, BecomesKeeps
  <1>4. CASE ClickClose
    <2>1. PICK c : c = MoveFocus(box, "none") /\ Keeps(box, c) /\ Sound(c)
      BY <1>2 DEF Focus
    <2>2. Keeps(box, CloseResultsWindow(c))
      BY <2>1, CloseResultsKeeps, KeepsOn
    <2> QED
      BY <1>1, <1>4, <2>1, <2>2, BecomesKeeps DEF ClickClose
  <1>5. CASE ClickFilter
    <2>1. PICK c : c = MoveFocus(box, "filter") /\ Keeps(box, c) /\ Sound(c)
      BY <1>2 DEF Focus
    <2>2. PICK id \in 0 .. SelectItemCount - 1 : Becomes(OnSelectItem(c, id), page)
      BY <1>5, <2>1 DEF ClickFilter
    <2>3. id \in 0 .. SelectItemCount
      BY Counts
    <2>4. Keeps(box, OnSelectItem(c, id))
      BY <2>1, <2>3, OnSelectItemKeeps, KeepsOn
    <2> QED
      BY <1>1, <2>2, <2>4, BecomesKeeps
  <1>6. CASE ClickRow
    <2>1. PICK i \in page.visible :
            Becomes(MoveFocus(box, "results"), Toggle([page EXCEPT !.at = <<i>>], i))
      BY <1>6 DEF ClickRow
    <2>2. PICK p : p = Toggle([page EXCEPT !.at = <<i>>], i) /\ Proper(p) /\ p.at # Nowhere
      BY <1>1, RowClicked
    <2>3. /\ Sound(MoveFocus(box, "results"))
          /\ MoveFocus(box, "results").hideTimer => box.hideTimer
      BY <1>1, MoveFocusSound DEF Focus
    <2>4. Together(MoveFocus(box, "results"), p)
      BY <2>2, <2>3 DEF Together
    <2> QED
      BY <2>1, <2>2, <2>3, <2>4, BecomesTogether DEF StepKeeps
  <1> QED
    BY <1>3, <1>4, <1>5, <1>6

LEMMA KeyTimerKeeps ==
  ASSUME Together(box, page), KeyTimerFires
  PROVE  StepKeeps
  <1>1. Sound(box) /\ Proper(page)
    BY DEF Together
  <1>2. PICK n \in Nat : n = box.keyTimers - 1
    BY <1>1 DEF KeyTimerFires, Sound, Panel
  <1>3. PICK c : c = [box EXCEPT !.keyTimers = n]
    OBVIOUS
  <1>4. /\ c \in Panel /\ RemembersSearch(c) /\ c.hideTimer = box.hideTimer /\ c.focus = box.focus
    <2>1. c \in Panel
      BY <1>1, <1>3 DEF Sound, Panel
    <2> QED
      BY <1>1, <1>3, <2>1 DEF Sound, Panel, Remembers, RemembersSearch
  <1>5. Keeps(box, Search(c))
    BY <1>4, SearchKeeps DEF Keeps
  <1>6. Becomes(Search(c), page)
    BY <1>2, <1>3 DEF KeyTimerFires
  <1> QED
    BY <1>1, <1>5, <1>6, BecomesKeeps

LEMMA HideTimerKeeps ==
  ASSUME Together(box, page), HideTimerFires
  PROVE  StepKeeps
  <1>1. Sound(box) /\ Proper(page)
    BY DEF Together
  <1>2. PICK c : c = [box EXCEPT !.hideTimer = FALSE]
    OBVIOUS
  <1>3. Keeps(box, c) /\ Sound(c)
    BY <1>1, <1>2 DEF Sound, Panel, Remembers, RemembersSearch, Keeps
  <1>4. Keeps(box, CloseSelectionWindow(c))
    BY <1>3, ShowHideKeeps, KeepsOn
  <1> QED
    BY <1>1, <1>2, <1>4, BecomesKeeps DEF HideTimerFires

LEMMA LoadKeeps ==
  ASSUME Together(box, page), Load
  PROVE  StepKeeps
  <1>1. box \in Panel /\ Remembers(box)
    BY DEF Together, Sound
  <1> DEFINE c == [box EXCEPT !.loading = FALSE, !.posted = 0, !.focus = IF @ = "results" THEN "none" ELSE @]
  <1>2. c \in Panel
    BY <1>1 DEF Panel, Focus
  <1>3. Remembers(c) /\ c.hideTimer = box.hideTimer /\ c.focus # "results"
    BY <1>1 DEF Panel, Remembers, RemembersSearch
  <1>4. Becomes(c, Loaded(box.location))
    BY DEF Load
  <1> HIDE DEF c
  <1>5. Proper(Loaded(box.location))
    BY <1>1, LoadedProper DEF Panel
  <1>6. Together(c, Loaded(box.location))
    BY <1>2, <1>3, <1>5 DEF Together, Sound
  <1> QED
    BY <1>3, <1>4, <1>6, BecomesTogether DEF StepKeeps

LEMMA TakeFocusKeeps ==
  ASSUME Together(box, page), TakeFocus
  PROVE  StepKeeps
  <1>1. Sound(box) /\ Proper(page)
    BY DEF Together
  <1>2. PICK n \in Nat : n = box.posted - 1
    BY <1>1 DEF TakeFocus, Sound, Panel
  <1>3. PICK c : c = [box EXCEPT !.posted = n]
    OBVIOUS
  <1>4. Keeps(box, c) /\ Sound(c)
    BY <1>1, <1>3 DEF Sound, Panel, Remembers, RemembersSearch, Keeps
  <1>5. PICK first : first = NavNext(page, 0)
    OBVIOUS
  <1>6. CASE Becomes(c, page)
    BY <1>1, <1>4, <1>6, BecomesKeeps
  <1>7. CASE first # Nowhere /\ Becomes(MoveFocus(c, "results"), [page EXCEPT !.at = first])
    <2>1. PICK p : p = [page EXCEPT !.at = first] /\ Proper(p) /\ p.at # Nowhere
      BY <1>1, <1>5, <1>7, FocusTaken
    <2>2. /\ Sound(MoveFocus(c, "results"))
          /\ MoveFocus(c, "results").hideTimer => c.hideTimer
      BY <1>4, MoveFocusSound DEF Focus
    <2>3. Together(MoveFocus(c, "results"), p)
      BY <2>1, <2>2 DEF Together
    <2>4. MoveFocus(c, "results").hideTimer => box.hideTimer
      BY <1>4, <2>2 DEF Keeps
    <2> QED
      BY <1>7, <2>1, <2>3, <2>4, BecomesTogether DEF StepKeeps
  <1> QED
    BY <1>2, <1>3, <1>5, <1>6, <1>7 DEF TakeFocus

-----------------------------------------------------------------------------
(* The session *)

LEMMA InitInv == Init => IInv
  <1> SUFFICES ASSUME Init PROVE IInv
    OBVIOUS
  <1>1. Blank \in Page
    BY DEF Blank, Page, NoRows
  <1>2. SearchBoxInit \in Panel
    BY <1>1, PanelAssumption, Counts DEF SearchBoxInit, Panel, Focus
  <1>3. /\ Remembers(SearchBoxInit) /\ ~SearchBoxInit.hideTimer /\ SearchBoxInit.focus = "none"
    BY DEF SearchBoxInit, Remembers, RemembersSearch
  <1>4. Keeps(SearchBoxInit, box)
    BY <1>2, <1>3, OnSelectItemKeeps, Counts DEF Init, Sound
  <1>5. Proper(page)
    BY <1>1, LoadedProper DEF Init
  <1>6. held \in [key : Key \cup {"none"}, stage : {"elsewhere", "down", "pressed"}]
    BY DEF Init, NoKey
  <1>7. Together(box, page)
    BY <1>3, <1>4, <1>5 DEF Together, Keeps
  <1>8. page.at = Nowhere /\ held.stage # "down"
    BY <1>1, LoadedProper DEF Init, NoKey
  <1> QED
    BY <1>3, <1>4, <1>6, <1>7, <1>8 DEF IInv, Quiet, Init, Keeps

LEMMA HeldStep ==
  ASSUME IInv, [Next]_vars
  PROVE  held' \in [key : Key \cup {"none"}, stage : {"elsewhere", "down", "pressed"}]
  <1>1. CASE held' = held \/ held' = NoKey
    BY <1>1 DEF IInv, NoKey
  <1>2. ASSUME NEW key \in Key, KeyDown(key)
        PROVE  held' \in [key : Key \cup {"none"}, stage : {"elsewhere", "down", "pressed"}]
    BY <1>2 DEF KeyDown
  <1>3. CASE KeyPress
    BY <1>3 DEF KeyPress, IInv
  <1>4. CASE RepeatKeyDown \/ KeyUp
    BY <1>1, <1>4 DEF RepeatKeyDown, KeyUp
  <1>5. CASE ClickField \/ ClickElsewhere \/ ClickClose \/ ClickFilter \/ ClickRow
    BY <1>1, <1>5 DEF ClickField, ClickElsewhere, ClickClose, ClickFilter, ClickRow
  <1>6. CASE PointerOver \/ PointerOut \/ PointerForgotten
    BY <1>1, <1>6 DEF PointerOver, PointerOut, PointerForgotten
  <1>7. CASE Browser
    BY <1>1, <1>7 DEF Browser, KeyTimerFires, HideTimerFires, Load, TakeFocus
  <1>8. CASE UNCHANGED vars
    BY <1>1, <1>8 DEF vars
  <1> QED
    BY <1>2, <1>3, <1>4, <1>5, <1>6, <1>7, <1>8 DEF Next, Reader

\* The first "keypress" is the one before which a key is "down".
LEMMA RepeatStep ==
  ASSUME IInv, [Next]_vars
  PROVE  held'.stage = "down" /\ held'.key # "enter" => ~page'.repeatOn
  <1>0. Together(box, page) /\ Proper(page) /\ Quiet /\ held.key \in Key \cup {"none"}
    BY DEF IInv, Together
  <1>1. CASE held' = held /\ (page'.repeatOn => page.repeatOn)
    BY <1>0, <1>1 DEF Quiet
  <1>2. ASSUME NEW b, NEW p, Proper(p), p.repeatOn => page.repeatOn, Becomes(b, p)
        PROVE  page'.repeatOn => page.repeatOn
    BY <1>2, BecomesRepeat
  <1>3. ASSUME NEW key \in Key, KeyDown(key)
        PROVE  held'.stage = "down" /\ held'.key # "enter" => ~page'.repeatOn
    <2>1. box.focus = "results" /\ key # "enter" => ~page'.repeatOn
      BY <1>0, <1>3, KeyIsDownRepeat DEF KeyDown
    <2>2. held'.key = key /\ (held'.stage = "down" => box.focus = "results")
      BY <1>3 DEF KeyDown
    <2> QED
      BY <2>1, <2>2
  <1>4. CASE RepeatKeyDown
    BY <1>0, <1>1, <1>4, KeyIsDownRepeat DEF RepeatKeyDown
  <1>5. CASE KeyPress \/ KeyUp
    <2>1. held'.stage # "down"
      BY <1>5 DEF KeyPress, KeyUp, NoKey, IInv
    <2> QED
      BY <2>1
  <1>6. CASE ClickField \/ ClickElsewhere \/ ClickClose \/ ClickFilter \/ PointerOver \/ PointerOut \/ KeyTimerFires \/ HideTimerFires
    <2>1. held' = held /\ \E b : Becomes(b, page)
      BY <1>6, Zenon DEF ClickField, ClickElsewhere, ClickClose, ClickFilter, PointerOver, PointerOut, KeyTimerFires, HideTimerFires
    <2> QED
      BY <1>0, <1>1, <1>2, <2>1
  <1>7. CASE ClickRow
    <2>1. PICK i \in page.visible :
            held' = held /\ Becomes(MoveFocus(box, "results"), Toggle([page EXCEPT !.at = <<i>>], i))
      BY <1>7 DEF ClickRow
    <2> QED
      BY <1>0, <1>1, <1>2, <2>1, RowClicked
  <1>8. CASE Load
    <2>1. held' = held /\ \E b : Becomes(b, Loaded(box.location))
      BY <1>8, Zenon DEF Load
    <2>2. Proper(Loaded(box.location))
      BY <1>0, LoadedProper DEF Together, Sound, Panel
    <2>3. ~Loaded(box.location).repeatOn
      BY DEF Loaded
    <2> QED
      BY <1>1, <1>2, <2>1, <2>2, <2>3
  <1>9. CASE TakeFocus
    <2>1. /\ held' = held
          /\ \/ \E b : Becomes(b, page)
             \/ NavNext(page, 0) # Nowhere /\ \E b : Becomes(b, [page EXCEPT !.at = NavNext(page, 0)])
      BY <1>9, Zenon DEF TakeFocus
    <2> QED
      BY <1>0, <1>1, <1>2, <2>1, FocusTaken
  <1>10. CASE PointerForgotten \/ UNCHANGED vars
    BY <1>1, <1>10 DEF PointerForgotten, vars
  <1> QED
    BY <1>3, <1>4, <1>5, <1>6, <1>7, <1>8, <1>9, <1>10 DEF Next, Reader, Browser

LEMMA StepInv == IInv /\ [Next]_vars => IInv'
  <1> SUFFICES ASSUME IInv, [Next]_vars PROVE IInv'
    OBVIOUS
  <1>0. /\ Together(box, page) /\ held.key \in Key \cup {"none"} /\ Keeps(box, box)
        /\ Sound(box) /\ Proper(page)
    BY DEF IInv, Together, Keeps
  <1>1. ASSUME StepKeeps, over' = over
        PROVE  IInv'
    BY <1>1, HeldStep, RepeatStep DEF IInv, Quiet, StepKeeps
  <1>2. ASSUME NEW key \in Key, KeyDown(key)
        PROVE  IInv'
    BY <1>0, <1>1, <1>2, KeyIsDownKeeps DEF KeyDown
  <1>3. CASE RepeatKeyDown
    BY <1>0, <1>1, <1>3, KeyIsDownKeeps DEF RepeatKeyDown
  <1>4. CASE KeyPress
    <2>1. CASE box.focus = "results"
      BY <1>0, <1>1, <1>4, <2>1, ItemKeyKeeps DEF KeyPress
    <2>2. CASE box.focus # "results"
      BY <1>0, <1>1, <1>4, <2>2, BecomesKeeps DEF KeyPress
    <2> QED
      BY <2>1, <2>2
  <1>5. CASE KeyUp
    BY <1>0, <1>1, <1>5, KeyUpKeeps DEF KeyUp
  <1>6. CASE ClickField \/ ClickElsewhere \/ ClickClose \/ ClickFilter \/ ClickRow
    <2>1. over' = over
      BY <1>6 DEF ClickField, ClickElsewhere, ClickClose, ClickFilter, ClickRow
    <2> QED
      BY <1>0, <1>1, <1>6, <2>1, ClickKeeps
  <1>7. CASE Browser
    <2>1. over' = over
      BY <1>7 DEF Browser, KeyTimerFires, HideTimerFires, Load, TakeFocus
    <2> QED
      BY <1>0, <1>1, <1>7, <2>1, KeyTimerKeeps, HideTimerKeeps, LoadKeeps, TakeFocusKeeps DEF Browser
  <1>8. CASE PointerOver
    <2>1. Keeps(box, OnSearchSelectShow(box)) /\ ~OnSearchSelectShow(box).hideTimer
      BY <1>0, ShowHideKeeps
    <2>2. Together(OnSearchSelectShow(box), page)
      BY <1>0, <2>1 DEF Together, Keeps
    <2>3. /\ Together(box', page') /\ ~box'.hideTimer
          /\ box'.focus # "results" => page'.at = Nowhere
      BY <1>8, <2>1, <2>2, BecomesTogether DEF PointerOver
    <2> QED
      BY <1>8, <2>3, HeldStep, RepeatStep DEF PointerOver, IInv, Quiet
  <1>9. CASE PointerOut
    <2>1. OnSearchSelectHide(box).focus = box.focus
      BY <1>0 DEF OnSearchSelectHide, Sound, Panel
    <2>2. Together(OnSearchSelectHide(box), page)
      BY <1>0, <2>1, ShowHideKeeps DEF Together
    <2>3. Together(box', page') /\ (box'.focus # "results" => page'.at = Nowhere)
      BY <1>9, <2>2, BecomesTogether DEF PointerOut
    <2> QED
      BY <1>9, <2>3, HeldStep, RepeatStep DEF PointerOut, IInv, Quiet
  <1>10. CASE PointerForgotten
    BY <1>10, HeldStep DEF PointerForgotten, IInv, Quiet
  <1>11. CASE UNCHANGED vars
    BY <1>11, HeldStep DEF vars, IInv, Quiet
  <1> QED
    BY <1>2, <1>3, <1>4, <1>5, <1>6, <1>7, <1>8, <1>9, <1>10, <1>11 DEF Next, Reader

\* Filters, items and timers stay in range, whatever the reader does and whenever the
\* browser runs timers and loads (search.js: SearchBox and SearchResults).
THEOREM TypeCorrect == Spec => []TypeOK
  <1>1. IInv => TypeOK
    <2> SUFFICES ASSUME IInv PROVE TypeOK
      OBVIOUS
    <2>1. page.at \in Items(page) \cup {Nowhere}
      BY DEF IInv, Together, Proper, Listed, Drawn
    <2> QED
      BY <2>1 DEF IInv, Together, Sound, Proper, Panel, Remembers, Listed, RowsOf, TypeOK
  <1> QED
    BY <1>1, InitInv, StepInv, PTL DEF Spec

\* The panel remembers a text as searched for only while its results are open
\* (search.js: lastSearchValue), whichever way the results were closed.
THEOREM OpenSearchIsRemembered == Spec => []RemembersOpenSearch
  <1>1. IInv => RemembersOpenSearch
    BY DEF IInv, Together, Sound, Remembers, RemembersSearch, RemembersOpenSearch
  <1> QED
    BY <1>1, InitInv, StepInv, PTL DEF Spec

\* The timer that closes the list of filters never fires under the pointer
\* (search.js: OnSearchSelectShow cancels what OnSearchSelectHide starts).
THEOREM PopupStays == Spec => PopupStaysUnderPointer
  <1>1. IInv /\ [Next]_vars => [HideTimerFires => ~over]_vars
    BY DEF IInv, HideTimerFires
  <1> QED
    BY <1>1, InitInv, StepInv, PTL DEF Spec, PopupStaysUnderPointer

-----------------------------------------------------------------------------
(* Keys follow the list *)

LineAfter(lines, at) ==
  LET later == {x \in lines : Above(at, x)}
  IN  IF later = {} THEN Nowhere ELSE CHOOSE x \in later : \A y \in later : x = y \/ Above(x, y)

LineUntil(lines, at) ==
  LET earlier == {x \in lines : Above(x, at)}
  IN  IF earlier = {} THEN Nowhere ELSE CHOOSE x \in earlier : \A y \in earlier : x = y \/ Above(y, x)

LEMMA SameLines ==
  ASSUME NEW p, NEW q, p.location = q.location, p.visible = q.visible, p.open = q.open, p.at = q.at
  PROVE  LineBelow(p) = LineBelow(q) /\ LineAbove(p) = LineAbove(q)
  <1>1. Lines(p) = Lines(q)
    <2>1. Items(p) = Items(q)
      BY SamePage
    <2>2. \A x : Drawn(p, x) <=> Drawn(q, x)
      BY SameDrawn
    <2> QED
      BY <2>1, <2>2 DEF Lines
  <1>2. \A r : LineBelow(r) = LineAfter(Lines(r), r.at) /\ LineAbove(r) = LineUntil(Lines(r), r.at)
    BY Zenon DEF LineBelow, LineAbove, LineAfter, LineUntil
  <1> QED
    BY <1>1, <1>2, Zenon

\* A press of an arrow is a "keydown" for the item that has the focus.
LEMMA PressIsNav ==
  ASSUME IInv, Next, NEW key \in {"down", "up"}, PressedInResults(key)
  PROVE  \E p : /\ Proper(p) /\ p.at = page.at /\ p.at # Nowhere /\ p.lastKey = key
                /\ LineBelow(p) = LineBelow(page) /\ LineAbove(p) = LineAbove(page)
                /\ Nav(p)
  <1>1. box.focus = "results" /\ held = NoKey /\ held'.key = key /\ key # "none" /\ key # "enter"
    BY DEF PressedInResults
  <1>2. held' # held
    BY <1>1 DEF NoKey
  <1>3. PICK k \in Key : KeyDown(k)
    BY <1>1, <1>2 DEF Next, Browser, Reader, KeyTimerFires, HideTimerFires, Load, TakeFocus,
       RepeatKeyDown, KeyPress, KeyUp, ClickField, ClickElsewhere, ClickClose, ClickFilter, ClickRow,
       PointerOver, PointerOut, PointerForgotten
  <1>4. k = key
    BY <1>1, <1>3 DEF KeyDown
  <1>5. KeyIsDown(key)
    BY <1>3, <1>4 DEF KeyDown
  <1>6. ItemKey("keydown", key)
    <2>1. box.focus # "field" /\ box.focus # "filter"
      BY <1>1
    <2> QED
      BY <1>1, <1>5, <2>1, Zenon DEF KeyIsDown
  <1>7. Code(key) = key /\ key \in KeyCode
    <2>1. key # "shift-down" /\ key \notin {"char", "backspace"} /\ key \in KeyCode
      BY DEF KeyCode
    <2> QED
      BY <2>1, Zenon DEF Code
  <1>8. PICK p : p = ProcessKeys(page, "keydown", key)
    OBVIOUS
  <1>9. Proper(page) /\ page.at # Nowhere
    BY <1>1 DEF IInv, Together
  <1>10. /\ Proper(p) /\ p.at = page.at /\ p.lastKey = key
         /\ p.location = page.location /\ p.visible = page.visible /\ p.open = page.open
    BY <1>7, <1>8, <1>9, DownProcessed
  <1>11. Nav(p)
    BY <1>1, <1>6, <1>7, <1>8, Zenon DEF ItemKey, IsHandled
  <1> QED
    BY <1>9, <1>10, <1>11, SameLines

LEMMA MovedTo ==
  ASSUME NEW p, Proper(p), box.focus = "results", NEW item, item # Nowhere => Drawn(p, item),
         MoveTo(p, item)
  PROVE  box'.focus = "results" /\ page'.at = IF item = Nowhere THEN p.at ELSE item
  <1>1. CASE item = Nowhere
    <2>1. Becomes(box, p)
      BY <1>1, Zenon DEF MoveTo
    <2> QED
      BY <1>1, <2>1, BecomesRepeat DEF Becomes
  <1>2. CASE item # Nowhere
    <2>1. PICK q : q = [p EXCEPT !.at = item] /\ Proper(q) /\ q.at = item
      BY <1>2, AtProper
    <2>2. Becomes(box, q)
      BY <1>2, <2>1, Zenon DEF MoveTo, FocusItem
    <2> QED
      BY <1>2, <2>1, <2>2, BecomesRepeat DEF Becomes
  <1> QED
    BY <1>1, <1>2

LEMMA DownFollows ==
  ASSUME IInv, Next, PressedInResults("down")
  PROVE  page'.at = IF LineBelow(page) = Nowhere THEN page.at ELSE LineBelow(page)
  <1>1. PICK p : /\ Proper(p) /\ p.at = page.at /\ p.at # Nowhere /\ p.lastKey = "down"
                 /\ LineBelow(p) = LineBelow(page) /\ Nav(p)
    BY PressIsNav
  <1>2. MoveTo(p, Down(p))
    <2>1. p.lastKey # "up" /\ p.lastKey # "escape" /\ p.lastKey \notin {"left", "right"}
      BY <1>1
    <2> QED
      BY <1>1, <2>1, Zenon DEF Nav
  <1>3. box.focus = "results"
    BY DEF PressedInResults
  <1>4. Down(p) = LineBelow(p) /\ (Down(p) # Nowhere => Drawn(p, Down(p)))
    BY <1>1, DownIsBelow DEF LeadsDown
  <1> QED
    BY <1>1, <1>2, <1>3, <1>4, MovedTo

LEMMA UpFollows ==
  ASSUME IInv, Next, PressedInResults("up")
  PROVE  /\ page'.at = LineAbove(page)
         /\ box'.focus = IF LineAbove(page) = Nowhere THEN "field" ELSE "results"
  <1>1. PICK p : /\ Proper(p) /\ p.at = page.at /\ p.at # Nowhere /\ p.lastKey = "up"
                 /\ LineAbove(p) = LineAbove(page) /\ Nav(p)
    BY PressIsNav
  <1>2. IF Up(p) = Nowhere THEN Becomes(MoveFocus(box, "field"), p) ELSE MoveTo(p, Up(p))
    <2>1. p.lastKey # "down" /\ p.lastKey # "escape" /\ p.lastKey \notin {"left", "right"}
      BY <1>1
    <2> QED
      BY <1>1, <2>1, Zenon DEF Nav
  <1>3. box.focus = "results" /\ Sound(box)
    BY DEF PressedInResults, IInv, Together
  <1>4. Up(p) = LineAbove(p) /\ (Up(p) # Nowhere => Drawn(p, Up(p)))
    BY <1>1, UpIsAbove DEF LeadsUp
  <1>5. CASE Up(p) = Nowhere
    <2>1. MoveFocus(box, "field").focus = "field"
      BY <1>3, MoveFocusSound DEF Focus
    <2>2. page'.at = Nowhere
      BY <1>1, <1>2, <1>5, <2>1, BecomesRepeat
    <2>3. box' = MoveFocus(box, "field")
      BY <1>2, <1>5 DEF Becomes
    <2> QED
      BY <1>1, <1>4, <1>5, <2>1, <2>2, <2>3
  <1>6. CASE Up(p) # Nowhere
    BY <1>1, <1>2, <1>3, <1>4, <1>6, MovedTo
  <1> QED
    BY <1>5, <1>6

LEMMA FirstPressStays ==
  ASSUME IInv, Next, FirstKeyPress
  PROVE  page'.at = page.at
  <1>0. Proper(page) /\ Quiet /\ held.key \in Key \cup {"none"}
    BY DEF IInv, Together
  <1>1. held.stage = "down" /\ held'.stage = "pressed" /\ held' # held
    BY DEF FirstKeyPress
  <1>2. KeyPress
    BY <1>1 DEF Next, Browser, Reader, KeyTimerFires, HideTimerFires, Load, TakeFocus,
       KeyDown, RepeatKeyDown, KeyUp, ClickField, ClickElsewhere, ClickClose, ClickFilter, ClickRow,
       PointerOver, PointerOut, PointerForgotten, NoKey
  <1>3. CASE box.focus # "results"
    <2>1. Becomes(box, page)
      BY <1>2, <1>3 DEF KeyPress
    <2> QED
      BY <1>0, <1>3, <2>1, BecomesRepeat DEF Quiet
  <1>4. CASE box.focus = "results"
    <2>1. ItemKey("keypress", held.key)
      BY <1>2, <1>4 DEF KeyPress
    <2>2. ASSUME NEW p, Proper(p), p.at = page.at, Becomes(box, p)
          PROVE  page'.at = page.at
      BY <1>4, <2>2, BecomesRepeat
    <2>3. CASE Code(held.key) = "enter"
      <3>1. Becomes(box, page)
        <4>1. "keypress" # "keydown"
          OBVIOUS
        <4> QED
          BY <2>1, <2>3, <4>1, Zenon DEF ItemKey
      <3> QED
        BY <1>0, <2>2, <3>1
    <2>4. CASE Code(held.key) # "enter"
      <3>1. held.key # "enter"
        <4>1. Code("enter") = "enter"
          <5>1. "enter" # "shift-down" /\ "enter" \notin {"char", "backspace"}
            OBVIOUS
          <5> QED
            BY <5>1, Zenon DEF Code
        <4> QED
          BY <2>4, <4>1
      <3>2. ~page.repeatOn
        BY <1>0, <1>1, <3>1 DEF Quiet
      <3>3. ~IsHandled(page, "keypress")
        BY <3>2 DEF IsHandled
      <3>4. Becomes(box, ProcessKeys(page, "keypress", Code(held.key)))
        BY <2>1, <2>4, <3>3, Zenon DEF ItemKey
      <3> QED
        BY <1>0, <2>2, <3>4, CodeType, KeysProper
    <2> QED
      BY <2>3, <2>4
  <1> QED
    BY <1>3, <1>4

\* Down and Up move from line to line of the list as it is drawn, and once for each
\* press (search.js: Nav, NavChild and ProcessKeys): rows that begin alike stand
\* together, so the row above one that is shown has its children drawn right above it.
THEOREM KeysFollow == Spec => KeysFollowTheList
  <1>1. IInv /\ [Next]_vars =>
          [/\ PressedInResults("down") =>
                page'.at = IF LineBelow(page) = Nowhere THEN page.at ELSE LineBelow(page)
           /\ PressedInResults("up") =>
                /\ page'.at = LineAbove(page)
                /\ box'.focus = IF LineAbove(page) = Nowhere THEN "field" ELSE "results"
           /\ FirstKeyPress => page'.at = page.at]_vars
    BY DownFollows, UpFollows, FirstPressStays
  <1> QED
    BY <1>1, InitInv, StepInv, PTL DEF Spec, KeysFollowTheList

=============================================================================
