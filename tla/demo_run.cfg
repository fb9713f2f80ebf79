\* Attempts that last longer than the first backoff, iterations longer than
\* the join waits.
SPECIFICATION Spec
CONSTANTS
  InitialBackoff = 1
  MaxBackoff = 2
  AttemptTime = 2
  IterationTime = 1
  MaxSize = 1
  JoinTimeout = 1
  MaxEvents = 2
INVARIANTS
  RecoversInTime
  LosesAtMostOne
  SummaryIsExact
\* The process exits.
CHECK_DEADLOCK FALSE
