---------------------------- MODULE RangeTestBase ----------------------------
(***************************************************************************)
(* The settings of LoRaRangeTest_Base: those of the radio, those selected   *)
(* with the buttons and shown on the display, and those written to the SD   *)
(* card with each message.                                                  *)
(*                                                                         *)
(* The radio's change when the endpoint acknowledges a request, when a      *)
(* command is typed, and when the protocol's timer goes back; each setter   *)
(* calls linkChangeInd, which copies them over the selected ones.  When the *)
(* timer runs is the subject of LinkChange; here it may fire at any time    *)
(* after a request.                                                         *)
(***************************************************************************)
EXTENDS Buttons, Sequences

CONSTANTS
  Order,         \* the settings in the order of button A
  First, Last,   \* First[p] and Last[p]: the lowest and the highest value of p
  Default        \* Default[p]: the value that setupRadio sets

Setting == {Order[i] : i \in DOMAIN Order}
Value(p) == First[p] .. Last[p]

ASSUME SettingsAssumption ==
  /\ Order \in Seq(Setting) /\ Order # <<>>
  /\ \A p \in Setting : First[p] \in Nat /\ Last[p] \in Nat
  /\ Default \in [Setting -> Nat] /\ \A p \in Setting : Default[p] \in Value(p)

VARIABLES
  setting,             \* index of the selected setting, from 0
  selected,            \* spreadingFactor, signalBandwidth, frequencyChannel, txPower
  valueChanged,        \* the display shows a '*'
  current, previous,   \* the members of point2point
  requested,           \* a request has been sent (history)
  refused,             \* the selected values have been refused (history)
  row                  \* settings in the last row written, and the radio's then

settings == <<setting, selected, valueChanged, current, previous, requested, refused, row>>
vars == <<buttons, settings>>

Values == {v \in [Setting -> UNION {Value(p) : p \in Setting}] : \A p \in Setting : v[p] \in Value(p)}

TypeOK ==
  /\ ButtonsTypeOK
  /\ setting \in 0 .. Len(Order) - 1
  /\ {selected, current, previous} \subseteq Values
  /\ {valueChanged, requested, refused} \subseteq BOOLEAN
  /\ row.settings \in Values /\ row.radio \in Values

Init ==
  /\ ButtonsInit
  /\ setting = 0
  /\ selected = Default /\ current = Default /\ previous = Default
  /\ valueChanged = FALSE
  /\ requested = FALSE /\ refused = FALSE
  /\ row = [settings |-> Default, radio |-> Default]

\* Mutant: no wrap after the highest value.
SuccessorBeyond(p, v) == v + 1

\* The operators ++ of the enums, and the range of txPower.
Successor(p, v) == IF v = Last[p] THEN First[p] ELSE v + 1

\* The four setters, each with its indication.
SetLink(new) ==
  /\ previous' = current
  /\ current' = new
  /\ selected' = new

-----------------------------------------------------------------------------
NothingActs(pressed) ==
  /\ Scan(pressed)
  /\ acting' = "none"
  /\ UNCHANGED settings

SelectSetting(pressed) ==
  /\ Scan(pressed)
  /\ acting' = "A"
  /\ setting' = (setting + 1) % Len(Order)
  /\ UNCHANGED <<selected, valueChanged, current, previous, requested, refused, row>>

SelectValue(pressed) ==
  /\ Scan(pressed)
  /\ acting' = "B"
  /\ selected' = [selected EXCEPT ![Order[setting + 1]] = Successor(Order[setting + 1], @)]
  /\ valueChanged' = TRUE
  /\ refused' = FALSE
  /\ UNCHANGED <<setting, current, previous, requested, row>>

\* linkChangeReq with the selected values, acknowledged or not.
Enter(pressed) ==
  /\ Scan(pressed)
  /\ acting' = "C"
  /\ requested' = TRUE
  /\ valueChanged' = FALSE
  /\ \/ SetLink(selected) /\ refused' = FALSE
     \/ UNCHANGED <<selected, current, previous>> /\ refused' = TRUE
  /\ UNCHANGED <<setting, row>>

\* Mutant: the setter does not call linkChangeInd.
CommandSilent(p, v) ==
  /\ current' = [current EXCEPT ![p] = v]
  /\ previous' = [previous EXCEPT ![p] = current[p]]
  /\ refused' = FALSE
  /\ UNCHANGED <<buttons, selected, setting, valueChanged, requested, row>>

\* A command from the terminal: one setter.
Command(p, v) ==
  /\ current' = [current EXCEPT ![p] = v]
  /\ previous' = [previous EXCEPT ![p] = current[p]]
  /\ selected' = current'
  /\ refused' = FALSE
  /\ UNCHANGED <<buttons, setting, valueChanged, requested, row>>

\* linkChangeReqTimeout.
LinkChangeTimeout ==
  /\ requested
  /\ SetLink(previous)
  /\ refused' = FALSE
  /\ UNCHANGED <<buttons, setting, valueChanged, requested, row>>

\* txInd or rxInd writes a row.
WriteRow ==
  /\ row' = [settings |-> selected, radio |-> current]
  /\ UNCHANGED <<buttons, setting, selected, valueChanged, current, previous, requested, refused>>

\* One scan of the buttons, and what the one that acts does.
ScanButtons(pressed) ==
  \/ NothingActs(pressed)
  \/ SelectSetting(pressed)
  \/ SelectValue(pressed)
  \/ Enter(pressed)

ChangeLink ==
  \/ \E p \in Setting : \E v \in Value(p) : Command(p, v)
  \/ LinkChangeTimeout

Next ==
  \/ \E pressed \in SUBSET Button : ScanButtons(pressed)
  \/ ChangeLink
  \/ WriteRow

Spec == Init /\ [][Next]_vars

-----------------------------------------------------------------------------
\* What the display selects differs from the radio's settings only while it shows
\* the '*', or while the values selected are those of a refused request.
SelectionIsMarked == selected # current => valueChanged \/ refused

\* LoRaRangeTest_Base.ino:47: a row has the settings of the message.
RowsHaveRadioSettings == row.settings = row.radio

=============================================================================
