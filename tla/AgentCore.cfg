SPECIFICATION Spec
CONSTANTS
  Config = {a, b, x, r}
  Rejected = {r}
  Broken = {x}
  None = None
  Mixed = Mixed
  SaveMayFailLate = FALSE
  MaxFaults = 3
INVARIANTS
  TypeOK
  SavedHasServed
  AckIsDurable
  ReportedIsServed
  OneCore
  RefusedPushRestores
PROPERTIES
  OnlyPushesChangeConfig
  Recovers
  KeepsPromise
