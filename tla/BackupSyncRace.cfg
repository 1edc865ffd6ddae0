SPECIFICATION Spec
CONSTANTS
  Requests = {r1, r2}
  Ticker = ticker
  Mode = "sync"
  Restore = TRUE
  DiskFails = FALSE
  MaxOpen = 2
  MaxBoots = 1
INVARIANT SyncFileIsStore
