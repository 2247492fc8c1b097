SPECIFICATION MCSpec
CONSTANTS
  CountLimit = 8
  Order <- MCOrder
  First <- MCFirst
  Last <- MCLast
  Default <- MCDefault
INVARIANTS TypeOK SelectionIsMarked PressesActOnce
