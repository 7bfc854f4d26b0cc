SPECIFICATION Spec
CONSTANTS
  Config = {a, g, x}
  Bad = {x}
  NeedsGeo = {g}
  None = None
  MaxEdits = 3
  MaxFaults = 2
INVARIANTS
  TypeOK
  ClearedIsConfirmed
  GeoGoesFirst
PROPERTY Converges
