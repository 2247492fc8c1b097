SPECIFICATION Spec
CONSTANTS
  Row <- MCRow
  Levels = {1, 2, 3}
INVARIANTS TypeOK RowsFollowIcons StripesAlternate
PROPERTY IsOutline
