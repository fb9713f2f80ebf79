\* A process that dies inside a batch of two.
SPECIFICATION Spec
CONSTANTS
  MaxSize = 2
  BatchSize = 2
  MaxEvents = 2
  MaxFaults = 2
  MaxRejected = 0
  MaxEnds = 1
INVARIANT
  CrashRepeatsOneEvent
