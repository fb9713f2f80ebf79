SPECIFICATION ScenarioSpec
CONSTANTS
  MaxSize = 4
  BatchSize = 2
  MaxEvents = 4
  MaxFaults = 2
  MaxRejected = 1
  MaxEnds = 0
  NormalEvents = 1
  OutageEvents = 1
  RecoveryEvents = 1
  Topics = 2
INVARIANT PassIsEarned
INVARIANT QuietRunPasses
\* The scenario ends.
CHECK_DEADLOCK FALSE
