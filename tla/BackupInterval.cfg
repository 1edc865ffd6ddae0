SPECIFICATION Spec
CONSTANTS
  Requests = {r1, r2}
  Ticker = ticker
  Mode = "interval"
  Restore = TRUE
  DiskFails = TRUE
  MaxOpen = 2
  MaxBoots = 3
INVARIANTS
  TypeOK
  NoCountersWithoutGauges
PROPERTIES
  
  RestoreIsAllOrNothing
SYMMETRY Symmetry
