SPECIFICATION FairSpec
CONSTANTS
  Workers = {w1}
  Delays = 1
  MaxPolls = 1
  MaxSystem = 1
  MaxBatches = 2
  SigBuffer = 1
PROPERTIES
  BatchesSettle
  SignalEndsProcess

