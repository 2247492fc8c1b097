----------------------------- MODULE MCDocSearch -----------------------------
(* Two filters: the first has a page for "a", the second one for "b".  The      *)
(* label stands for "Search".                                                   *)
EXTENDS DocSearch

A == 97
B == 98
MCLabel == <<83>>
MCIndex == << <<A>>, <<B>> >>

\* The id of a row is that of its name, with a number.
Row(id, children) == [id |-> id \o <<Underscore, 49>>, children |-> children]

MCSearchData == << << <<Row(<<A>>, 2), Row(<<A, A>>, 0)>> >>, << <<Row(<<B>>, 0)>> >> >>

VARIABLES
  seen,    \* the panel has heard of the text in the field, and has not dropped it
           \* to show the filters
  missed,  \* a key was released elsewhere before the panel heard of the text, and
           \* it still remembers another
  session  \* bound: what the reader does

\* In one session the reader works the list of results: rows unfold, Up and Down
\* repeat while they are held, filters stay closed.  In the others he opens and chooses filters, in
\* one by keys and clicks and with results that he enters and leaves, in one with
\* the pointer over them too.
InSession ==
  \/ /\ session = "list"
     /\ ~over' /\ ~box'.selectShown /\ page'.lastKey # "other"
     /\ held'.key \notin {"backspace", "shift-down"}
     /\ page'.repeatOn => held'.key \in {"none", "up", "down"}
     /\ page'.open = {} \/ box'.posted = 0
  \/ /\ session = "filters"
     /\ ~over' /\ Len(box'.value) <= 1 /\ page'.open = {} /\ ~page'.repeatOn
     /\ page'.lastKey \in {"none", "up"} /\ held'.key \notin {"left", "right"}
  \/ /\ session = "pointer"
     /\ Len(box'.value) <= 1 /\ box'.focus # "results" /\ box'.posted = 0
     /\ held'.key \notin {"left", "right", "up", "backspace"}

SeenStep ==
  /\ seen' = IF box'.value # box.value THEN FALSE
             ELSE IF box.focus = "field" /\ held # NoKey /\ held' = NoKey THEN held.key # "shift-down"
             ELSE seen
  /\ missed' = /\ box'.lastSearchValue = box.lastSearchValue
               /\ missed \/ (held # NoKey /\ held' = NoKey /\ box.focus # "field" /\ ~seen)

MCInit == Init /\ seen = FALSE /\ missed = FALSE /\ session \in {"list", "filters", "pointer"}

MCNext == Next /\ InSession /\ SeenStep /\ UNCHANGED session

mcVars == <<vars, seen, missed, session>>

\* As FairSpec.
MCSpec == MCInit /\ [][MCNext]_mcVars /\ WF_vars(Browser)

Settled ==
  LET asked == ResultsPage(box.searchIndex, NoLeadingSpaces(box.value)) IN
  /\ seen /\ ~missed /\ Searches(box) /\ ~BeyondLast(box) /\ held = NoKey
  /\ NoSpaces(box.value) = Trimmed(box.value)
  => /\ box.resultsShown
     /\ [page.location EXCEPT !.query = Trimmed(@)] = [asked EXCEPT !.query = Trimmed(@)]

\* When the reader rests, the results of the text in the field come to be shown,
\* for the filter chosen: whatever timers, loads and messages were under way.
ResultsArrive == <>[][Browser]_vars => <>[]Settled

=============================================================================
