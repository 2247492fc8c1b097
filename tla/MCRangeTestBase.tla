--------------------------- MODULE MCRangeTestBase ---------------------------
(* Two settings stand for the four; one has two values.  One button is watched *)
(* as its user sees it, from its press to its release.                         *)
EXTENDS RangeTestBase

MCOrder == <<"S", "P">>
MCFirst == [S |-> 0, P |-> 2]
MCLast == [S |-> 1, P |-> 2]
MCDefault == [S |-> 1, P |-> 2]

VARIABLES
  watched,   \* the button
  quiet,     \* scans in a row without it, up to two: it is released
  scans,     \* scans since it was pressed, up to the limit of its count
  alone,     \* no other button was pressed meanwhile
  acts       \* how often it has acted meanwhile, up to two

history == <<watched, quiet, scans, alone, acts>>

MCInit ==
  /\ Init
  /\ watched \in Button
  /\ quiet = 2 /\ scans = 0 /\ alone = TRUE /\ acts = 0

Released(pressed) == watched \notin pressed /\ quiet >= 1

HistoryStep(pressed) ==
  /\ quiet' = IF watched \in pressed THEN 0 ELSE IF quiet = 2 THEN 2 ELSE quiet + 1
  /\ scans' = IF Released(pressed) THEN 0 ELSE IF scans = CountLimit THEN CountLimit ELSE scans + 1
  /\ alone' = (Released(pressed) \/ (alone /\ pressed \subseteq {watched}))
  /\ acts' = IF Released(pressed) THEN 0
             ELSE IF acting' = watched /\ acts < 2 THEN acts + 1 ELSE acts
  /\ UNCHANGED watched

MCNext ==
  \/ \E pressed \in SUBSET Button : ScanButtons(pressed) /\ HistoryStep(pressed)
  \/ ChangeLink /\ UNCHANGED history
  \/ WriteRow /\ UNCHANGED history

MCSpec == MCInit /\ [][MCNext]_<<vars, history>>

ActsOnce == alone /\ scans < CountLimit => acts <= 1

\* A press acts at most once, though the contact chatters and the button is held,
\* until the count overflows or another button is pressed too.
PressesActOnce == watched \in {"B", "C"} => ActsOnce

\* The same of button A.
SettingPressActsOnce == watched = "A" => ActsOnce

=============================================================================
