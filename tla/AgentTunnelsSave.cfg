SPECIFICATION Spec
CONSTANTS
  MaxConns = 1
  MaxEdits = 2
  MaxFaults = 0
  SavesOverlapPairing = TRUE
INVARIANT SecretIsLastPairings
