SPECIFICATION Spec
CONSTANTS
  Count = 3
  MaxPolls = 3
  MaxFaults = 3
INVARIANTS RowsAreTrue FaultFreeRunSucceeds
PROPERTIES IssuingEnds
