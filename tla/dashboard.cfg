\* Every limit is small enough to be passed.
SPECIFICATION Spec
CONSTANTS
  Events = {1, 2, 3}
  Vehicles = 2
  MaxSeen = 1
  MaxReplayed = 2
  MaxRecent = 2
  MaxVehicles = 1
  MaxActivity = 3
  Lookback = 2
  MaxCallbacks = 4
INVARIANTS
  DuplicatesAreReal
  ReplayedIsShown
  FeedIsCoalesced
\* A dashboard that has stopped stays so.
CHECK_DEADLOCK FALSE
