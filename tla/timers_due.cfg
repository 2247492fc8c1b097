SPECIFICATION Spec
CONSTANTS
  M = 8
  ChangeTimeout = 3
  TrustTimeout = 5
  HeartbeatTimeout = 4
  MaxStall = 2
  MaxNow = 18
INVARIANT TypeOK
PROPERTIES FiresWhenDue StartsAfresh ResetPostpones
