\* Four events of two ECUs at three times, in every order.
SPECIFICATION FairSpec
CONSTANTS
  powertrain = powertrain
  battery = battery
  ECU <- ECUs
  Responses <- MCResponses
  Threshold <- MCThreshold
  Window <- MCWindow
  MaxEvents = 4
  MaxTime = 2
INVARIANTS
  ReportsAreBursts
  EventsReportedOnce
  ReportsAreMaximal
  NoBurstGoesUnnoticed
PROPERTY
  AnalysisEnds
CHECK_DEADLOCK FALSE
