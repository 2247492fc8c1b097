------------------------------ MODULE DocSearch ------------------------------
(* The search of the documentation site as its reader works it: the panel       *)
(* (SearchBox) in the page, the results (SearchResults) in a frame, the browser *)
(* that hands events, timers, messages and loads to them.                       *)
EXTENDS SearchResults

CONSTANTS
  Char,       \* the characters that are typed
  MaxText,    \* bound: characters in the field
  MaxTimers,  \* bound: key timers that run at once
  MaxPosted   \* bound: messages on their way to the frame

ASSUME ReaderAssumption == Char \subseteq Int

VARIABLES
  box,   \* the panel
  page,  \* the page in the frame; `at' is the item that has the focus
  held,  \* the key that is down; if it was pressed in the results, whether its
         \* first "keypress" has come
  over   \* the pointer is over the filter icon or the list of filters

vars == <<box, page, held, over>>

Key == {"char", "backspace", "up", "down", "shift-down", "left", "right", "enter", "escape"}
NoKey == [key |-> "none", stage |-> "elsewhere"]

Init ==
  /\ box = OnSelectItem(SearchBoxInit, 0)
  /\ page = Loaded(Blank)
  /\ held = NoKey
  /\ over = FALSE

\* The next state; an item has the focus only while the frame has it.
Becomes(b, p) ==
  /\ box' = b
  /\ page' = IF b.focus = "results" THEN p ELSE [p EXCEPT !.at = Nowhere]

InBounds == box'.keyTimers <= MaxTimers /\ box'.posted <= MaxPosted

-------------------------------------------------------------------------------
\* Keys.  A handler may move the focus between two events of one key, which
\* then go to different elements.

MoveTo(p, item) ==
  IF item = Nowhere THEN Becomes(box, p) ELSE Becomes(box, FocusItem(p, item))

\* A key handled by an item: Nav of a row, NavChild of a child.
Nav(p) ==
  CASE p.lastKey = "up" ->
         IF Up(p) = Nowhere THEN Becomes(MoveFocus(box, "field"), p) ELSE MoveTo(p, Up(p))
    [] p.lastKey = "down" -> MoveTo(p, Down(p))
    [] p.lastKey \in {"left", "right"} -> Becomes(box, Fold(p, p.lastKey))
    [] p.lastKey = "escape" -> Becomes(MoveFocus(CloseResultsWindow(box), "field"), p)
    [] OTHER -> Becomes(box, p)

\* A key code; those that no item looks for are alike.
Code(key) ==
  CASE key = "shift-down" -> "down"
    [] key \in {"char", "backspace"} -> "other"
    [] OTHER -> key

\* Enter goes to the browser, which follows the link: that of a row with
\* several results folds it, any other leaves the page and ends the session.
ItemKey(type, key) ==
  LET code == Code(key)
      processed == ProcessKeys(page, type, code)
  IN  CASE code = "enter" /\ type # "keydown" -> Becomes(box, page)
        [] code = "enter" /\ type = "keydown" ->
             Len(page.at) = 1 /\ Unfolds(page, page.at[1]) /\ Becomes(box, Toggle(page, page.at[1]))
        [] code # "enter" /\ IsHandled(page, type) -> Nav(processed)
        [] OTHER -> Becomes(box, processed)

\* The browser edits the field.
FieldKey(key) ==
  CASE key = "char" -> /\ Len(box.value) < MaxText
                       /\ \E c \in Char : Becomes([box EXCEPT !.value = Append(@, c)], page)
    [] key = "backspace" /\ box.value # <<>> -> Becomes([box EXCEPT !.value = Front(@)], page)
    [] OTHER -> Becomes(box, page)

KeyIsDown(key) ==
  CASE box.focus = "field" -> FieldKey(key)
    [] box.focus = "filter" -> Becomes(OnSearchSelectKey(box, key), page)
    [] box.focus = "results" -> ItemKey("keydown", key)
    [] OTHER -> Becomes(box, page)

KeyDown(key) ==
  /\ held = NoKey
  /\ KeyIsDown(key)
  /\ held' = [key |-> key, stage |-> IF box.focus = "results" THEN "down" ELSE "elsewhere"]
  /\ UNCHANGED over

RepeatKeyDown ==
  /\ held # NoKey
  /\ KeyIsDown(held.key)
  /\ UNCHANGED <<held, over>>

KeyPress ==
  /\ held # NoKey
  /\ IF box.focus = "results" THEN ItemKey("keypress", held.key) ELSE Becomes(box, page)
  /\ held' = [held EXCEPT !.stage = IF @ = "down" THEN "pressed" ELSE @]
  /\ UNCHANGED over

KeyUp ==
  /\ held # NoKey
  /\ CASE box.focus = "field" -> Becomes(OnSearchFieldChange(box, held.key), page)
       [] box.focus = "results" -> ItemKey("keyup", held.key)
       [] OTHER -> Becomes(box, page)
  /\ held' = NoKey
  /\ UNCHANGED over

-------------------------------------------------------------------------------
\* The pointer.

ClickField == Becomes(MoveFocus(box, "field"), page) /\ UNCHANGED <<held, over>>

ClickElsewhere == Becomes(MoveFocus(box, "none"), page) /\ UNCHANGED <<held, over>>

ClickClose ==
  /\ box.closeShown
  /\ Becomes(CloseResultsWindow(MoveFocus(box, "none")), page)
  /\ UNCHANGED <<held, over>>

ClickFilter ==
  /\ box.selectShown
  /\ \E id \in 0..SelectItemCount - 1 :
       Becomes(OnSelectItem(MoveFocus(box, "filter"), id), page)
  /\ UNCHANGED <<held, over>>

ClickRow ==
  /\ box.resultsShown
  /\ \E i \in page.visible :
       /\ Unfolds(page, i)
       /\ Becomes(MoveFocus(box, "results"), Toggle([page EXCEPT !.at = <<i>>], i))
  /\ UNCHANGED <<held, over>>

PointerOver ==
  /\ ~over
  /\ Becomes(OnSearchSelectShow(box), page)
  /\ over' = TRUE
  /\ UNCHANGED held

PointerOut ==
  /\ over
  /\ Becomes(OnSearchSelectHide(box), page)
  /\ over' = FALSE
  /\ UNCHANGED held

\* The list of filters was closed under the pointer: no event tells.
PointerForgotten ==
  /\ over /\ ~box.selectShown
  /\ over' = FALSE
  /\ UNCHANGED <<box, page, held>>

-------------------------------------------------------------------------------
\* The browser.

KeyTimerFires ==
  /\ box.keyTimers > 0
  /\ Becomes(Search([box EXCEPT !.keyTimers = @ - 1]), page)
  /\ UNCHANGED <<held, over>>

HideTimerFires ==
  /\ box.hideTimer
  /\ Becomes(CloseSelectionWindow([box EXCEPT !.hideTimer = FALSE]), page)
  /\ UNCHANGED <<held, over>>

\* The frame shows the page it was last sent to; what was posted to the one
\* before is lost with it.
Load ==
  /\ box.loading
  /\ Becomes([box EXCEPT !.loading = FALSE, !.posted = 0, !.focus = IF @ = "results" THEN "none" ELSE @],
             Loaded(box.location))
  /\ UNCHANGED <<held, over>>

\* A message "take_focus" comes; pages without rows have nothing to focus.
TakeFocus ==
  /\ box.posted > 0
  /\ LET first == NavNext(page, 0)
         taken == [box EXCEPT !.posted = @ - 1]
     IN  IF first # Nowhere /\ box.resultsShown
         THEN Becomes(MoveFocus(taken, "results"), [page EXCEPT !.at = first])
         ELSE Becomes(taken, page)
  /\ UNCHANGED <<held, over>>

Browser == KeyTimerFires \/ HideTimerFires \/ Load \/ TakeFocus

Reader ==
  \/ \E key \in Key : KeyDown(key)
  \/ RepeatKeyDown \/ KeyPress \/ KeyUp
  \/ ClickField \/ ClickElsewhere \/ ClickClose \/ ClickFilter \/ ClickRow
  \/ PointerOver \/ PointerOut \/ PointerForgotten

Next == (Browser \/ Reader) /\ InBounds

Spec == Init /\ [][Next]_vars

\* Timers fire, frames load and messages arrive; the reader owes nothing.
FairSpec == Spec /\ WF_vars(Browser)

-------------------------------------------------------------------------------
\* Each part of the state has its type: filters, items and timers stay in range.
TypeOK ==
  /\ box.searchIndex \in 0..SelectItemCount /\ box.marked \in -1..SelectItemCount - 1
  /\ box.focus \in Focus
  /\ box.keyTimers \in Nat /\ (box.keyTimeout => box.keyTimers > 0)
  /\ page.open \subseteq {i \in 0..Len(Rows(page.location)) - 1 : Unfolds(page, i)}
  /\ page.at \in Items(page) \cup {Nowhere}
  /\ held \in [key : Key \cup {"none"}, stage : {"elsewhere", "down", "pressed"}]
  /\ over \in BOOLEAN

\* A text is remembered as searched for only while the results are open and the
\* frame was sent to them: else the next search for it would be left out.  The
\* close icon is there exactly when there is something to close.
RemembersOpenSearch ==
  /\ box.lastSearchValue # <<>> =>
       /\ box.resultsShown
       /\ \E f \in 0..SelectItemCount - 1 : box.location = ResultsPage(f, box.lastSearchValue)
  /\ box.closeShown = box.resultsShown

\* The list of filters is never closed by its timer while the pointer is over it,
\* however often it came and went and whichever keys opened it meanwhile.
PopupStaysUnderPointer == [][HideTimerFires => ~over]_vars

\* The items in the order in which they are drawn.
Above(x, y) ==
  \/ x[1] < y[1]
  \/ x[1] = y[1] /\ Len(x) < Len(y)
  \/ x[1] = y[1] /\ Len(x) = 2 /\ Len(y) = 2 /\ x[2] < y[2]

Lines(p) == {item \in Items(p) : Drawn(p, item)}

\* The line that follows the one with the focus, and the one before it.
LineBelow(p) ==
  LET later == {x \in Lines(p) : Above(p.at, x)}
  IN  IF later = {} THEN Nowhere ELSE CHOOSE x \in later : \A y \in later : x = y \/ Above(x, y)

LineAbove(p) ==
  LET earlier == {x \in Lines(p) : Above(x, p.at)}
  IN  IF earlier = {} THEN Nowhere ELSE CHOOSE x \in earlier : \A y \in earlier : x = y \/ Above(y, x)

PressedInResults(key) == box.focus = "results" /\ held = NoKey /\ held'.key = key

FirstKeyPress == held.stage = "down" /\ held'.stage = "pressed"

\* A press of Down or Up moves one line in the list as it is drawn, over folded
\* and hidden rows, by the last line not at all and from the first line to the
\* field; the "keypress" that follows a "keydown" does not move again.
KeysFollowTheList ==
  [][/\ PressedInResults("down") =>
          page'.at = IF LineBelow(page) = Nowhere THEN page.at ELSE LineBelow(page)
     /\ PressedInResults("up") =>
          /\ page'.at = LineAbove(page)
          /\ box'.focus = IF LineAbove(page) = Nowhere THEN "field" ELSE "results"
     /\ FirstKeyPress => page'.at = page.at]_vars

=============================================================================
