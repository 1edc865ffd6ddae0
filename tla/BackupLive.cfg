SPECIFICATION FairSpec
CONSTANTS
  Requests = {r1, r2}
  Ticker = ticker
  Mode = "interval"
  Restore = TRUE
  DiskFails = FALSE
  MaxOpen = 2
  MaxBoots = 1
INVARIANT CleanExitSavesUntilSignal
PROPERTY UpdatesAreSaved
