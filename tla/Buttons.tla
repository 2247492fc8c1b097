------------------------------- MODULE Buttons -------------------------------
(***************************************************************************)
(* How LoRaRangeTest_Base reads its three buttons: every ten milliseconds   *)
(* loop() looks at the pins and counts, and a button acts when its count    *)
(* reaches two.  A selects the setting, B selects its value, C is enter.    *)
(***************************************************************************)
EXTENDS Naturals

CONSTANT CountLimit    \* where a count wraps to zero: 2^8 in the code

ASSUME CountAssumption == CountLimit \in Nat /\ CountLimit >= 4

Button == {"A", "B", "C"}

VARIABLES
  count,           \* settingSelectCount, valueSelectCount and enterCount
  noPressCount,
  acting           \* the button that acted in the last scan, or "none"

buttons == <<count, noPressCount, acting>>

ButtonsTypeOK ==
  /\ count \in [Button -> 0 .. CountLimit - 1]
  /\ noPressCount \in 0 .. 1
  /\ acting \in Button \cup {"none"}

ButtonsInit ==
  /\ count = [b \in Button |-> 0]
  /\ noPressCount = 0
  /\ acting = "none"

\* The condition is !(enter || valueSelect || enter): button A does not count.
SeenPressed(pressed) == pressed \cap {"B", "C"} # {}

\* noPressCount, counted in this scan.
Quiet(pressed) ==
  (IF pressed = {} THEN noPressCount ELSE 0) + (IF SeenPressed(pressed) THEN 0 ELSE 1)

\* Mutant: the counts do not overflow.
CountedWide(pressed) ==
  [b \in Button |-> IF Quiet(pressed) = 2 THEN 0 ELSE count[b] + (IF b \in pressed THEN 1 ELSE 0)]

\* The counts before any button acts: two scans without a press clear them.
Counted(pressed) ==
  [b \in Button |-> IF Quiet(pressed) = 2 THEN 0
                    ELSE (count[b] + (IF b \in pressed THEN 1 ELSE 0)) % CountLimit]

\* Button A is looked at first, then B, then C; acting clears the other counts.
Acts(b, counts) ==
  /\ counts[b] = 2
  /\ b \in {"B", "C"} => counts["A"] # 2
  /\ b = "C" => counts["B"] # 2

\* Mutant: the count stays at two.
AfterActingStays(b) == [other \in Button |-> IF other = b THEN 2 ELSE 0]

\* The counts after b has acted; its own goes on, so that it acts once.
AfterActing(b) == [other \in Button |-> IF other = b THEN 3 ELSE 0]

Scan(pressed) ==
  LET counts == Counted(pressed) IN
  \/ \E b \in Button :
       /\ Acts(b, counts)
       /\ acting' = b
       /\ count' = AfterActing(b)
       /\ noPressCount' = 0
  \/ /\ \A b \in Button : ~Acts(b, counts)
     /\ acting' = "none"
     /\ count' = counts
     /\ noPressCount' = IF Quiet(pressed) = 2 THEN 0 ELSE Quiet(pressed)

=============================================================================
