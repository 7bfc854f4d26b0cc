SPECIFICATION Spec
CONSTANTS
  Counter = {u}
  MaxCores = 2
  MaxBytes = 2
  MaxLost = 0
  ReadsOverlapStart = TRUE
INVARIANTS
  ExactAccounting
