SPECIFICATION Spec
CONSTANTS
  Workers = {w1, w2}
  Delays = 1
  MaxPolls = 2
  MaxSystem = 0
  MaxBatches = 3
  SigBuffer = 1
INVARIANTS
  TypeOK
  JobsClosedAfterSender
  PollsAreInOnePlace
  BatchesAreInOnePlace
  CountedBeforeShown
  GracefulExitDrains
PROPERTIES
  SettledStaysSettled
  ImplementsLedger
SYMMETRY Symmetry
