SPECIFICATION Spec
CONSTANTS
  Thread = {t1, t2, t3}
  None = None
  QueueSize = 1
INVARIANTS
  TypeOK
  AnswersAreTrue
  AdminGoesFirst
PROPERTIES
  EverybodyReturns
  ServesWrites
