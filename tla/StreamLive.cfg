CONSTANTS
  MaxEvents = 2
  MaxBatch = 2
  MaxIngested = 2
  Ingesters = {g1}
  Subscribers = {s1, s2}
  IncomingBuffer = 1
  SubscriberBuffer = 1
SPECIFICATION FairSpec
PROPERTIES
  StalledClientsHoldUpNobody
  FailedClientIsReleased
  QueuedIsDelivered
\* The model stops when it has ingested MaxIngested events.
CHECK_DEADLOCK FALSE
