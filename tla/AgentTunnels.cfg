SPECIFICATION Spec
CONSTANTS
  MaxConns = 2
  MaxEdits = 2
  MaxFaults = 2
  SavesOverlapPairing = FALSE
INVARIANTS
  TypeOK
  OnlyTheWelcome
  OneConnection
PROPERTY Reconnects
