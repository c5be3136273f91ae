SPECIFICATION FairSpec
CONSTANTS
  Containers = {c1, c2, c3}
  NoContainer = NoContainer
  Tasks = {t1, t2}
  MaxDecoys = 2
  MinInterval = 1
  MaxTriggers = 3
  MaxTime = 2
  MaxRestarts = 1
ACTION_CONSTRAINT FirstOnesFirst
INVARIANTS
  ReservationIsOwned
  DecoysAreAccountedFor
  WithinPolicy
  StormIsLimited
PROPERTIES
  CloseRemovesConfirmed
  ReservationResolves
CHECK_DEADLOCK FALSE
