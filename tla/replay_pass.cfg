\* A backlog of two rows and batches of one.
SPECIFICATION Spec
CONSTANTS
  MaxSize = 2
  BatchSize = 1
  MaxEvents = 2
  MaxFaults = 2
  MaxRejected = 0
  MaxEnds = 0
INVARIANT
  ReplayPassIsBounded
