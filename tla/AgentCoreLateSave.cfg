SPECIFICATION Spec
CONSTANTS
  Config = {a, b}
  Rejected = {}
  Broken = {}
  None = None
  Mixed = Mixed
  SaveMayFailLate = TRUE
  MaxFaults = 1
INVARIANT AckIsDurable
