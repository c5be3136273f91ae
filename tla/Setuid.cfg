SYMMETRY Symmetry
SPECIFICATION Spec
CONSTANTS
  Ids = {t1, t2, t3}
  Users = {1, 2}
  MaxEntries = 2
  RingRoom = 1
  MaxCalls = 4
INVARIANTS
  TypeOK
  FreshEntriesAreTrue
  StaleEntriesMisleadOnce
PROPERTIES
  ReportsAreRight
  EscalationsAreReported
