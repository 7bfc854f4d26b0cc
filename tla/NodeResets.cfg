SPECIFICATION Spec
CONSTANTS
  Email = {a, b}
  Refusing = {b}
  None = None
  Limit = 2
  MaxUse = 2
  MaxResets = 2
  MaxFaults = 1
INVARIANTS
  TypeOK
  NoResetLost
  NoOldUsage
  OffByNewUsage
PROPERTIES
  Delivered
