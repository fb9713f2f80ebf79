SPECIFICATION Spec
CONSTANTS
  Begin <- MCBegin
  Draws <- MCDraws
  MaxTicks = 2
  MaxForeign = 1
  MaxQueue = 3
INVARIANTS
  EveryReadingIsAccepted
  ReadingsArrive
\* The ECUs end when they are told to.
CHECK_DEADLOCK FALSE
