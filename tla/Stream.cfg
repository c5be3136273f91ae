CONSTANTS
  MaxEvents = 2
  MaxBatch = 2
  MaxIngested = 4
  Ingesters = {g1, g2}
  Subscribers = {s1, s2}
  IncomingBuffer = 2
  SubscriberBuffer = 1
SPECIFICATION Spec
INVARIANTS
  HandlerOwnsItsChannel
  StreamIsExact
  StreamedOnceAndStored
\* The model stops when it has ingested MaxIngested events.
CHECK_DEADLOCK FALSE
SYMMETRY Symmetry
