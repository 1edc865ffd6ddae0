SPECIFICATION Spec
CONSTANTS
  Handlers = {h1}
  NumObservers = 2
  Files = {1}
  QueueSize = 1
INVARIANT PublishNeverPanics
