SPECIFICATION FairSpec
CONSTANTS
  Cpus = {u1, u2}
  Pids = {p1}
  Containers = {c1}
  Host = Host
  Gone = Gone
  ContainersOnly = TRUE
  RingRoom = 2
  QueueLen = 1
  BatchSize = 2
  MaxEvents = 3
INVARIANTS
  NothingVanishes
  StoredOnceInOrder
  FateIsTrue
  StopSendsTheQueue
PROPERTIES
  NamedWhereItRan
  SubmittedIsRead
  QueuedIsSent
CHECK_DEADLOCK FALSE
