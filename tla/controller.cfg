\* Two gateway runs, two buffered rows, replayed in one batch.
SPECIFICATION FairSpec
CONSTANTS
  MaxRuns = 2
  MaxDepth = 2
  BatchSize = 2
INVARIANTS
  OneGatewayRun
  NoRunLeaks
  ClosedOnlyAfterJoin
  OutageAgrees
  EndedWorkIsReported
  NormalIsUntroubled
PROPERTIES
  LockIsReleased
  StoppedRunsEnd
CHECK_DEADLOCK FALSE
