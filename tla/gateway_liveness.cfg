\* Two events, two faults and one end of the process, under fairness.
SPECIFICATION FairSpec
CONSTANTS
  MaxSize = 2
  BatchSize = 1
  MaxEvents = 2
  MaxFaults = 2
  MaxRejected = 0
  MaxEnds = 1
PROPERTIES
  OutageEventsArrive
  ReplayCompletes
  ConnectionRecovers
