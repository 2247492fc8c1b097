SPECIFICATION MCSpec
CONSTANTS
  Char = {10, 33, 38, 49, 83}
  MaxLen = 2
  IsBase = TRUE
  PortSize = 4
  MaxChars = 9
  MaxPeriods = 1
INVARIANTS TypeOK TextKept SettingsFollowCommands TextNeverReordered TestMessagesSent
