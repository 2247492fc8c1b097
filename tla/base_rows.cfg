SPECIFICATION MCSpec
CONSTANTS
  CountLimit = 4
  Order <- MCOrder
  First <- MCFirst
  Last <- MCLast
  Default <- MCDefault
INVARIANT RowsHaveRadioSettings
