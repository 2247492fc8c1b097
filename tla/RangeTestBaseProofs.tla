------------------------ MODULE RangeTestBaseProofs ------------------------
(***************************************************************************)
(* The base's settings stay in their ranges, those selected are marked when *)
(* they are not the radio's, and a press of B or C acts once: for any       *)
(* settings, ranges and widths of the buttons' counts.                      *)
(***************************************************************************)
EXTENDS MCRangeTestBase, TLAPS

\* SelectionIsMarked is inductive: each setter's linkChangeInd makes the selected
\* settings those of the radio, and only button B and a refused request part them.
THEOREM SelectionMarked == Spec => []SelectionIsMarked
<1>1. Init => SelectionIsMarked
  BY DEF Init, SelectionIsMarked
<1>2. SelectionIsMarked /\ [Next]_vars => SelectionIsMarked'
  <2> SUFFICES ASSUME SelectionIsMarked, [Next]_vars
               PROVE  SelectionIsMarked'
    OBVIOUS
  <2> USE DEF SelectionIsMarked
  <2>1. ASSUME NEW pressed, NothingActs(pressed)
        PROVE  SelectionIsMarked'
    BY <2>1 DEF NothingActs, settings
  <2>2. ASSUME NEW pressed, SelectSetting(pressed)
        PROVE  SelectionIsMarked'
    BY <2>2 DEF SelectSetting
  <2>3. ASSUME NEW pressed, SelectValue(pressed)
        PROVE  SelectionIsMarked'
    BY <2>3 DEF SelectValue
  <2>4. ASSUME NEW pressed, Enter(pressed)
        PROVE  SelectionIsMarked'
    BY <2>4 DEF Enter, SetLink
  <2>5. ASSUME NEW p \in Setting, NEW v \in Value(p), Command(p, v)
        PROVE  SelectionIsMarked'
    BY <2>5 DEF Command
  <2>6. CASE LinkChangeTimeout
    BY <2>6 DEF LinkChangeTimeout, SetLink
  <2>7. CASE WriteRow
    BY <2>7 DEF WriteRow
  <2>8. CASE UNCHANGED vars
    BY <2>8 DEF vars, settings
  <2>9. QED
    BY <2>1, <2>2, <2>3, <2>4, <2>5, <2>6, <2>7, <2>8 DEF Next, ScanButtons, ChangeLink
<1>3. QED
  BY <1>1, <1>2, PTL DEF Spec

-----------------------------------------------------------------------------
(* The buttons *)

LEMMA QuietType ==
  ASSUME ButtonsTypeOK, NEW pressed
  PROVE  /\ Quiet(pressed) \in 0 .. 2
         /\ Quiet(pressed) = 2 => pressed = {} /\ noPressCount = 1
         /\ Quiet(pressed) = 1 => pressed = {} \/ ~SeenPressed(pressed)
  BY DEF ButtonsTypeOK, Quiet

LEMMA CountedType ==
  ASSUME ButtonsTypeOK, NEW pressed
  PROVE  Counted(pressed) \in [Button -> 0 .. CountLimit - 1]
  <1>1. \A c \in Nat : c % CountLimit \in 0 .. CountLimit - 1
    BY CountAssumption
  <1>2. \A b \in Button : count[b] + (IF b \in pressed THEN 1 ELSE 0) \in Nat
    BY CountAssumption DEF ButtonsTypeOK
  <1> QED
    BY <1>1, <1>2, CountAssumption DEF Counted

LEMMA ScanType ==
  ASSUME ButtonsTypeOK, NEW pressed, Scan(pressed)
  PROVE  ButtonsTypeOK'
  <1>1. \A b \in Button : AfterActing(b) \in [Button -> 0 .. CountLimit - 1]
    BY CountAssumption DEF AfterActing
  <1> QED
    BY <1>1, QuietType, CountedType DEF Scan, ButtonsTypeOK

\* A count of two does not survive the scan that reaches it: the button acts, or
\* one before it acts and clears the count.
Handled == \A b \in Button : count[b] # 2

LEMMA ScanHandles ==
  ASSUME ButtonsTypeOK, NEW pressed, Scan(pressed)
  PROVE  Handled'
  <1>1. CASE \E b \in Button : count' = AfterActing(b)
    BY <1>1 DEF AfterActing, Handled
  <1>2. CASE count' = Counted(pressed) /\ \A b \in Button : ~Acts(b, Counted(pressed))
    BY <1>2 DEF Acts, Handled, Button
  <1> QED
    BY <1>1, <1>2 DEF Scan

-----------------------------------------------------------------------------
(* Each part of the state has its type *)

LEMMA SuccessorType ==
  ASSUME NEW p \in Setting, NEW v \in Value(p)
  PROVE  Successor(p, v) \in Value(p)
  BY SettingsAssumption DEF Successor, Value

\* A setting changed to one of its values leaves the others in their ranges.
LEMMA ValuesExcept ==
  ASSUME NEW s \in Values, NEW p \in Setting, NEW v \in Value(p)
  PROVE  [s EXCEPT ![p] = v] \in Values
  BY DEF Values

LEMMA DefaultType == Default \in Values
  BY SettingsAssumption DEF Values

LEMMA OrderType == Len(Order) \in Nat \ {0} /\ \A i \in 1 .. Len(Order) : Order[i] \in Setting
  BY SettingsAssumption

LEMMA TypeInit == Init => TypeOK
  <1> SUFFICES ASSUME Init PROVE TypeOK
    OBVIOUS
  <1>1. ButtonsTypeOK
    BY CountAssumption DEF Init, ButtonsInit, ButtonsTypeOK, Button
  <1>2. setting \in 0 .. Len(Order) - 1
    BY OrderType DEF Init
  <1>3. row.settings = Default /\ row.radio = Default
    BY DEF Init
  <1> QED
    BY <1>1, <1>2, <1>3, DefaultType DEF Init, TypeOK

LEMMA TypeScan ==
  ASSUME TypeOK, NEW pressed, ScanButtons(pressed)
  PROVE  TypeOK'
  <1>1. ButtonsTypeOK'
    BY ScanType DEF TypeOK, ScanButtons, NothingActs, SelectSetting, SelectValue, Enter
  <1>2. CASE NothingActs(pressed)
    BY <1>1, <1>2 DEF TypeOK, NothingActs, settings
  <1>3. CASE SelectSetting(pressed)
    <2>1. (setting + 1) % Len(Order) \in 0 .. Len(Order) - 1
      BY OrderType DEF TypeOK
    <2> QED
      BY <1>1, <1>3, <2>1 DEF TypeOK, SelectSetting
  <1>4. CASE SelectValue(pressed)
    <2>1. Order[setting + 1] \in Setting
      BY OrderType DEF TypeOK
    <2>2. selected[Order[setting + 1]] \in Value(Order[setting + 1])
      BY <2>1 DEF TypeOK, Values
    <2>3. selected' \in Values
      BY <1>4, <2>1, <2>2, SuccessorType, ValuesExcept DEF TypeOK, SelectValue
    <2> QED
      BY <1>1, <1>4, <2>3 DEF TypeOK, SelectValue
  <1>5. CASE Enter(pressed)
    BY <1>1, <1>5 DEF TypeOK, Enter, SetLink
  <1> QED
    BY <1>2, <1>3, <1>4, <1>5 DEF ScanButtons

LEMMA TypeStep == TypeOK /\ [Next]_vars => TypeOK'
  <1> SUFFICES ASSUME TypeOK, [Next]_vars PROVE TypeOK'
    OBVIOUS
  <1>1. ASSUME NEW p \in Setting, NEW v \in Value(p), Command(p, v)
        PROVE  TypeOK'
    <2>1. current[p] \in Value(p)
      BY DEF TypeOK, Values
    <2>2. current' \in Values /\ previous' \in Values /\ selected' \in Values
      BY <1>1, <2>1, ValuesExcept DEF TypeOK, Command
    <2> QED
      BY <1>1, <2>2 DEF TypeOK, Command, buttons, ButtonsTypeOK
  <1>2. CASE LinkChangeTimeout
    BY <1>2 DEF TypeOK, LinkChangeTimeout, SetLink, buttons, ButtonsTypeOK
  <1>3. CASE WriteRow
    BY <1>3 DEF TypeOK, WriteRow, buttons, ButtonsTypeOK
  <1>4. CASE UNCHANGED vars
    BY <1>4 DEF TypeOK, vars, settings, buttons, ButtonsTypeOK
  <1> QED
    BY <1>1, <1>2, <1>3, <1>4, TypeScan DEF Next, ChangeLink

\* The settings of the radio, those selected and those in a row stay in the ranges of
\* the setters, and the counts in their bytes, whatever is pressed and typed.
THEOREM TypeCorrect == Spec => []TypeOK
  BY TypeInit, TypeStep, PTL DEF Spec

-----------------------------------------------------------------------------
(* A press acts once *)

\* A first scan without B and C is also one without the button that is watched.
QuietWatched == noPressCount = 1 => quiet >= 1

HistoryTypeOK ==
  /\ watched \in {"B", "C"}
  /\ quiet \in 0 .. 2 /\ scans \in 0 .. CountLimit
  /\ alone \in BOOLEAN /\ acts \in 0 .. 2

\* Once the button has acted its count, set to three, goes up by one in a scan at most,
\* and needs all the scans up to the limit to come to two again.
CountRunsOn ==
  alone /\ acts >= 1 /\ scans < CountLimit =>
    /\ acts = 1
    /\ \/ 3 <= count[watched] /\ count[watched] <= scans + 2
       \/ count[watched] + CountLimit <= scans + 2

PressInv == ButtonsTypeOK /\ Handled /\ HistoryTypeOK /\ QuietWatched /\ CountRunsOn

LEMMA PressInit == MCInit /\ watched \in {"B", "C"} => PressInv
  BY CountAssumption
  DEF MCInit, Init, ButtonsInit, ButtonsTypeOK, PressInv, Handled, HistoryTypeOK, QuietWatched,
      CountRunsOn, Button

LEMMA QuietKept ==
  ASSUME PressInv, NEW pressed \in SUBSET Button, Scan(pressed), HistoryStep(pressed)
  PROVE  QuietWatched'
  <1>1. noPressCount' = 1 => Quiet(pressed) = 1
    BY DEF Scan
  <1>2. Quiet(pressed) = 1 => watched \notin pressed
    BY QuietType DEF PressInv, HistoryTypeOK, SeenPressed
  <1>3. watched \notin pressed => quiet' >= 1
    BY DEF HistoryStep, PressInv, HistoryTypeOK
  <1> QED
    BY <1>1, <1>2, <1>3 DEF QuietWatched

\* While the press lasts nothing clears the counts, and only the button itself acts.
LEMMA CountGoesOn ==
  ASSUME PressInv, NEW pressed \in SUBSET Button, Scan(pressed),
         ~Released(pressed), alone, pressed \subseteq {watched}
  PROVE  \/ /\ acting' = watched /\ count'[watched] = 3
            /\ count[watched] = 1
         \/ /\ acting' = "none"
            /\ \/ count'[watched] = count[watched]
               \/ count[watched] + 1 < CountLimit /\ count'[watched] = count[watched] + 1
               \/ count[watched] + 1 = CountLimit /\ count'[watched] = 0
  <1>1. watched \in Button /\ count \in [Button -> 0 .. CountLimit - 1]
    BY DEF PressInv, HistoryTypeOK, ButtonsTypeOK, Button
  <1>2. Quiet(pressed) # 2
    <2>1. Quiet(pressed) = 2 => pressed = {} /\ noPressCount = 1
      BY QuietType DEF PressInv
    <2>2. noPressCount = 1 => watched \in pressed
      BY DEF PressInv, QuietWatched, Released
    <2> QED
      BY <2>1, <2>2
  <1>3. \A c \in 0 .. CountLimit - 1 :
          /\ (c + 0) % CountLimit = c
          /\ (c + 1) % CountLimit = IF c + 1 = CountLimit THEN 0 ELSE c + 1
    BY CountAssumption
  <1>4. \A b \in Button : Counted(pressed)[b] =
          (count[b] + (IF b \in pressed THEN 1 ELSE 0)) % CountLimit
    BY <1>2 DEF Counted
  <1>5. \A b \in Button : b # watched => Counted(pressed)[b] = count[b]
    BY <1>1, <1>3, <1>4
  <1>6. \/ Counted(pressed)[watched] = count[watched]
        \/ /\ count[watched] + 1 < CountLimit
           /\ Counted(pressed)[watched] = count[watched] + 1
        \/ count[watched] + 1 = CountLimit /\ Counted(pressed)[watched] = 0
    <2>1. count[watched] \in 0 .. CountLimit - 1
      BY <1>1
    <2>2. CASE watched \in pressed
      <3>1. Counted(pressed)[watched] = (count[watched] + 1) % CountLimit
        BY <1>1, <1>4, <2>2
      <3> QED
        BY <1>3, <2>1, <3>1, CountAssumption
    <2>3. CASE watched \notin pressed
      BY <1>1, <1>3, <1>4, <2>1, <2>3
    <2> QED
      BY <2>2, <2>3
  <1>7. CASE acting' = "none" /\ count' = Counted(pressed)
    BY <1>6, <1>7
  <1>8. ASSUME NEW b \in Button, Acts(b, Counted(pressed)), acting' = b, count' = AfterActing(b)
        PROVE  acting' = watched /\ count'[watched] = 3 /\ count[watched] = 1
    <2>1. Counted(pressed)[b] = 2
      BY <1>8 DEF Acts
    <2>2. count[b] # 2
      BY DEF PressInv, Handled
    <2>3. b = watched
      BY <1>5, <2>1, <2>2
    <2>4. count[watched] = 1
      BY <1>1, <1>6, <2>1, <2>2, <2>3
    <2> QED
      BY <1>8, <2>3, <2>4 DEF AfterActing
  <1> QED
    BY <1>7, <1>8 DEF Scan

LEMMA CountRunsOnKept ==
  ASSUME PressInv, NEW pressed \in SUBSET Button, Scan(pressed), HistoryStep(pressed)
  PROVE  CountRunsOn'
  <1> SUFFICES ASSUME alone', acts' >= 1, scans' < CountLimit
               PROVE  /\ acts' = 1
                      /\ \/ 3 <= count'[watched] /\ count'[watched] <= scans' + 2
                         \/ count'[watched] + CountLimit <= scans' + 2
    BY DEF CountRunsOn, HistoryStep
  <1>1. /\ watched \in Button /\ count[watched] \in 0 .. CountLimit - 1
        /\ scans \in 0 .. CountLimit /\ acts \in 0 .. 2 /\ CountLimit \in Nat /\ CountLimit >= 4
    BY CountAssumption DEF PressInv, HistoryTypeOK, ButtonsTypeOK, Button
  <1>2. ~Released(pressed) /\ alone /\ pressed \subseteq {watched} /\ scans' = scans + 1
    <2>1. ~Released(pressed)
      <3> SUFFICES ASSUME Released(pressed) PROVE FALSE
        OBVIOUS
      <3>1. acts' = 0
        BY DEF HistoryStep
      <3> QED
        BY <3>1
    <2>2. alone /\ pressed \subseteq {watched}
      BY <2>1 DEF HistoryStep
    <2>3. scans' = scans + 1
      BY <1>1, <2>1 DEF HistoryStep
    <2> QED
      BY <2>1, <2>2, <2>3
  <1>3. acts' = IF acting' = watched /\ acts < 2 THEN acts + 1 ELSE acts
    BY <1>2 DEF HistoryStep
  <1>4. acts >= 1 => /\ acts = 1
                     /\ \/ 3 <= count[watched] /\ count[watched] <= scans + 2
                        \/ count[watched] + CountLimit <= scans + 2
    BY <1>1, <1>2 DEF PressInv, CountRunsOn
  <1>5. CASE acting' = watched /\ count'[watched] = 3 /\ count[watched] = 1
    BY <1>1, <1>2, <1>3, <1>4, <1>5
  <1>6. CASE acting' = "none" /\
             \/ count'[watched] = count[watched]
             \/ count[watched] + 1 < CountLimit /\ count'[watched] = count[watched] + 1
             \/ count[watched] + 1 = CountLimit /\ count'[watched] = 0
    <2>1. acting' # watched
      BY <1>1, <1>6 DEF Button
    <2> QED
      BY <1>1, <1>2, <1>3, <1>4, <1>6, <2>1
  <1> QED
    BY <1>2, <1>5, <1>6, CountGoesOn

LEMMA PressStep == PressInv /\ [MCNext]_<<vars, history>> => PressInv'
  <1> SUFFICES ASSUME PressInv, [MCNext]_<<vars, history>> PROVE PressInv'
    OBVIOUS
  <1>1. ASSUME NEW pressed \in SUBSET Button, ScanButtons(pressed), HistoryStep(pressed)
        PROVE  PressInv'
    <2>1. Scan(pressed)
      BY <1>1 DEF ScanButtons, NothingActs, SelectSetting, SelectValue, Enter
    <2>2. HistoryTypeOK'
      BY <1>1, CountAssumption DEF PressInv, HistoryTypeOK, HistoryStep, Released
    <2> QED
      BY <1>1, <2>1, <2>2, ScanType, ScanHandles, QuietKept, CountRunsOnKept DEF PressInv
  <1>2. CASE UNCHANGED <<buttons, history>>
    BY <1>2 DEF PressInv, buttons, history, ButtonsTypeOK, Handled, HistoryTypeOK,
                QuietWatched, CountRunsOn
  <1>3. CASE (ChangeLink \/ WriteRow) /\ UNCHANGED history
    BY <1>2, <1>3 DEF ChangeLink, WriteRow, Command, LinkChangeTimeout
  <1> QED
    BY <1>1, <1>2, <1>3 DEF MCNext, vars

\* A press of B or of C acts at most once, though its contact chatters and it is held,
\* until its count overflows (LoRaRangeTest_Base.ino): whatever the width of the counts.
THEOREM PressActsOnce == MCSpec => []PressesActOnce
  <1>1. MCInit => (watched \in {"B", "C"} => PressInv)
    BY PressInit
  <1>2. (watched \in {"B", "C"} => PressInv) /\ [MCNext]_<<vars, history>>
          => (watched \in {"B", "C"} => PressInv)'
    <2>1. [MCNext]_<<vars, history>> => watched' = watched
      BY DEF MCNext, HistoryStep, history
    <2> QED
      BY <2>1, PressStep
  <1>3. (watched \in {"B", "C"} => PressInv) => PressesActOnce
    BY DEF PressInv, HistoryTypeOK, CountRunsOn, PressesActOnce, ActsOnce
  <1> QED
    BY <1>1, <1>2, <1>3, PTL DEF MCSpec

=============================================================================
