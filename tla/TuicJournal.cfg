SPECIFICATION Spec
CONSTANTS
  Unit = {u1, u2, u3}
  Batch = {f1, f2}
  NoBatch = NoBatch
  MaxFaults = 4
INVARIANTS
  TypeOK
  CountedOnce
  NothingVanishes
PROPERTIES
  StoredIsCounted
