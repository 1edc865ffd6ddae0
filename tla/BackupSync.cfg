SPECIFICATION Spec
CONSTANTS
  Requests = {r1, r2, r3}
  Ticker = ticker
  Mode = "sync"
  Restore = TRUE
  DiskFails = FALSE
  MaxOpen = 1
  MaxBoots = 2
INVARIANT SyncFileIsStore
SYMMETRY Symmetry
