SPECIFICATION DeliverySpec
CONSTANTS
  Workers = {w1, w2}
  Delays = 1
  MaxPolls = 2
  MaxSystem = 0
  MaxBatches = 2
  SigBuffer = 1
INVARIANTS
  SentIsApplied
  RepeatsFollowLostAnswers
  ServerCountsPolls
PROPERTY OldGaugesNeedOverlap
SYMMETRY Symmetry
