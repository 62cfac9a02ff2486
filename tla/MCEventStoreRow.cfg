CONSTANTS
  MaxDays = 2
  Window = 3
  Threshold = 2
  MaxEvents = 4
  MaxFaults = 3
  MaxStarts = 2
SPECIFICATION Spec
INVARIANT JournalHoldsRows
CHECK_DEADLOCK FALSE
