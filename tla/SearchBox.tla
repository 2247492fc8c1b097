------------------------------ MODULE SearchBox ------------------------------
(* The search panel at the top of every page of the documentation site: class  *)
(* SearchBox of search.js and the elements it drives.  The panel is a record,   *)
(* a handler an operator from the panel before it to the panel after it.  Text   *)
(* is a sequence of character codes.  Where elements are drawn is left out.      *)
EXTENDS Integers, Sequences, FiniteSetsExt

CONSTANTS
  Label,  \* the text in the field while the panel is inactive
  Index   \* for each filter, the first characters that have a page of results

ASSUME PanelAssumption ==
  /\ Label \in Seq(Int) \ {<<>>}
  /\ Index \in Seq(Seq(Int) \ {<<>>}) \ {<<>>}

Space == 32

NoSpaces(text) == SelectSeq(text, LAMBDA c : c # Space)

NoLeadingSpaces(text) ==
  LET kept == {i \in DOMAIN text : text[i] # Space}
  IN  IF kept = {} THEN <<>> ELSE SubSeq(text, Min(kept), Len(text))

Lower(c) == IF c \in 65..90 THEN c + 32 ELSE c

SelectItemCount == Len(Index)

\* What the frame of results is told to show: no page yet, "nomatches", or the
\* page of one first character of a filter with the text to look for.
Blank == [filter |-> -1, idx |-> 0, query |-> <<>>]
NoMatches == [filter |-> -1, idx |-> 1, query |-> <<>>]

\* indexOf finds the empty string at the first place.
ResultsPage(filter, text) ==
  LET chars == Index[filter + 1]
      at == {i \in DOMAIN chars : text = <<>> \/ chars[i] = Lower(Head(text))}
  IN  IF at = {} THEN NoMatches
      ELSE [filter |-> filter, idx |-> CHOOSE i \in at : \A j \in at : i <= j, query |-> text]

-------------------------------------------------------------------------------
Focus == {"field", "filter", "results", "none"}

SearchBoxInit ==
  [value |-> Label, active |-> FALSE, searchActive |-> FALSE, lastSearchValue |-> <<>>,
   searchIndex |-> 0, marked |-> 0, keyTimeout |-> FALSE, keyTimers |-> 0, hideTimer |-> FALSE,
   selectShown |-> FALSE, resultsShown |-> FALSE, closeShown |-> FALSE,
   location |-> Blank, loading |-> FALSE, posted |-> 0, focus |-> "none"]

Activate(b, isActive) ==
  IF ~isActive /\ ~b.resultsShown
  THEN [b EXCEPT !.active = FALSE, !.value = Label, !.searchActive = FALSE, !.lastSearchValue = <<>>]
  ELSE IF b.value = Label
  THEN [b EXCEPT !.active = TRUE, !.value = <<>>, !.searchActive = TRUE]
  ELSE [b EXCEPT !.active = TRUE]

\* Focus moves: the field hears of losing it and of getting it.
MoveFocus(b, to) ==
  LET left == IF b.focus = "field" /\ to # "field" THEN Activate(b, FALSE) ELSE b
      entered == IF b.focus # "field" /\ to = "field" THEN Activate(left, TRUE) ELSE left
  IN  [entered EXCEPT !.focus = to]

\* An element that is no longer drawn loses the focus.
HideResults(b) ==
  [b EXCEPT !.resultsShown = FALSE, !.closeShown = FALSE,
            !.focus = IF @ = "results" THEN "none" ELSE @]

OnSearchSelectShowKeepsTimer(b) == [b EXCEPT !.selectShown = TRUE]

OnSearchSelectShow(b) == [b EXCEPT !.selectShown = TRUE, !.hideTimer = FALSE]

OnSearchSelectHide(b) == [b EXCEPT !.hideTimer = TRUE]

CloseSelectionWindow(b) ==
  [b EXCEPT !.selectShown = FALSE, !.focus = IF @ = "filter" THEN "none" ELSE @]

CloseResultsWindowQuiet(b) == HideResults(b)

CloseResultsWindow(b) == Activate(HideResults(b), FALSE)

-------------------------------------------------------------------------------
\* A filter beyond the last one has no index: reading it throws, and nothing
\* after that line runs.
BeyondLast(b) == b.searchIndex = SelectItemCount

Search(b) ==
  LET text == NoLeadingSpaces(b.value)
      started == [b EXCEPT !.keyTimeout = FALSE]
  IN  IF BeyondLast(b) THEN started
      ELSE [started EXCEPT !.location = ResultsPage(b.searchIndex, text), !.loading = TRUE,
                           !.resultsShown = TRUE,
                           !.closeShown = IF b.resultsShown THEN @ ELSE TRUE,
                           !.lastSearchValue = text]

KillTimerKeepsHandle(b) == IF b.keyTimeout THEN [b EXCEPT !.keyTimers = @ - 1] ELSE b

\* The known timer is cancelled; one that Search has forgotten is not.
KillTimer(b) ==
  IF b.keyTimeout THEN [b EXCEPT !.keyTimeout = FALSE, !.keyTimers = @ - 1] ELSE b

CompareValueOnce(b) ==
  IF NoSpaces(b.value) = <<>> THEN [HideResults(b) EXCEPT !.lastSearchValue = <<>>]
  ELSE IF b.resultsShown THEN b
  ELSE [b EXCEPT !.keyTimeout = TRUE, !.keyTimers = @ + 1]

\* A changed text is searched for later; an empty one closes the results.
CompareValue(b) ==
  IF NoSpaces(b.value) = b.lastSearchValue THEN b
  ELSE IF NoSpaces(b.value) # <<>> THEN [b EXCEPT !.keyTimeout = TRUE, !.keyTimers = @ + 1]
  ELSE [HideResults(b) EXCEPT !.lastSearchValue = <<>>]

EscapeField(b) ==
  Activate([HideResults(MoveFocus(b, "none")) EXCEPT !.lastSearchValue = <<>>], FALSE)

\* A key is released in the field.
OnSearchFieldChange(b, key) ==
  LET killed == KillTimer(b) IN
  CASE key = "shift-down" -> MoveFocus(OnSearchSelectShow(killed), "filter")
    [] key \in {"down", "enter"} -> CompareValue([killed EXCEPT !.posted = @ + 1])
    [] key = "escape" -> EscapeField(killed)
    [] OTHER -> CompareValue(killed)

-------------------------------------------------------------------------------
SelectItemSet(b, id) == [b EXCEPT !.marked = IF id < SelectItemCount THEN id ELSE -1]

Searches(b) == NoSpaces(b.value) # <<>> /\ b.searchActive

OnSelectItem(b, id) ==
  LET chosen == SelectItemSet([b EXCEPT !.searchIndex = id], id)
  IN  IF Searches(b) THEN Search(chosen) ELSE chosen

\* A key is pressed in the list of filters.
OnSearchSelectKey(b, key) ==
  CASE key \in {"down", "shift-down"} /\ b.searchIndex < SelectItemCount ->
         OnSelectItem(b, b.searchIndex + 1)
    [] key = "up" /\ b.searchIndex > 0 -> OnSelectItem(b, b.searchIndex - 1)
    [] key \in {"enter", "escape"} ->
         LET chosen == OnSelectItem(b, b.searchIndex)
         IN  IF Searches(b) /\ BeyondLast(b) THEN chosen
             ELSE MoveFocus(CloseSelectionWindow(chosen), "field")
    [] OTHER -> b

=============================================================================
