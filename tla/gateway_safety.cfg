\* Three events, a table of two rows, batches of two, two faults and one end
\* of the process.
SPECIFICATION Spec
CONSTANTS
  MaxSize = 2
  BatchSize = 2
  MaxEvents = 3
  MaxFaults = 2
  MaxRejected = 1
  MaxEnds = 1
INVARIANTS
  NoEventDisappears
  RowsInAcceptanceOrder
  BufferBounded
  BacklogIsOwed
  CountersAddUp
  ConfirmedRowsLeave
PROPERTIES
  RowsLeaveForAReason
  ReplayInOrder
  DeliversAsPromised
