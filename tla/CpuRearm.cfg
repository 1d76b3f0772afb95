SPECIFICATION CpuSpec
CONSTANTS
  TripAfter = 2
  RepeatAfter = 1
  MaxTime = 4
INVARIANTS
  AlreadyArmedIsArmed
