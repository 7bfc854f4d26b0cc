SPECIFICATION Spec
CONSTANTS
  Client = {c1}
  Base = {good, other, clash}
  FirstBase = good
  Refused = {clash}
  NoBase = NoBase
  Template = Template
  MaxEdits = 3
  MaxFaults = 2
INVARIANTS
  TypeOK
  CoreIsCurrent
  KnownSessionsEnd
PROPERTIES
  StoppedStaysDown
  WorkingCoreIsKept
  Converges
