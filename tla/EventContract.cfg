SPECIFICATION Spec
CONSTANTS
  Records <- MCRecords
  Comms <- MCComms
  Containers <- MCContainers
  NodeNames = {1, 253}
  BatchSizes = {1, 256, 257, 1000}
  Runs = {1, 255, 256, 744}
  MaxRuns = 2
INVARIANTS
  EveryBatchIsStored
