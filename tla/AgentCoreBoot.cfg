SPECIFICATION Spec
CONSTANTS
  Config = {a}
  Rejected = {}
  Broken = {}
  None = None
  Mixed = Mixed
  SaveMayFailLate = FALSE
  MaxFaults = 1
PROPERTY StoredConfigIsServed
