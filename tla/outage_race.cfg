\* An outage injected while a reconnect is under way.
SPECIFICATION Spec
CONSTANTS
  MaxSize = 2
  BatchSize = 2
  MaxEvents = 2
  MaxFaults = 2
  MaxRejected = 0
  MaxEnds = 0
INVARIANT
  OutageKeepsPublisherDown
