SPECIFICATION FairSpec
CONSTANTS
  Script <- MCScript
  Threshold <- MCThreshold
  MaxSessions = 2
INVARIANTS
  EventPerTransaction
  CompletedIsWhole
PROPERTY
  SessionsEnd
\* The user may start no further session.
CHECK_DEADLOCK FALSE
