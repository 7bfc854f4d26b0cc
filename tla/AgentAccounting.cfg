SPECIFICATION Spec
CONSTANTS
  Counter = {u, v}
  MaxCores = 3
  MaxBytes = 2
  MaxLost = 1
  ReadsOverlapStart = FALSE
INVARIANTS
  TypeOK
  ExactAccounting
PROPERTY EventuallyAccounted
