SPECIFICATION FairSpec
CONSTANTS
  Handlers = {h1, h2}
  NumObservers = 2
  Files = {1}
  QueueSize = 1
INVARIANTS
  TypeOK
  LanesAreFifo
  FileClosedAfterWrites
  PanicNeedsOverrun
PROPERTIES
  ImplementsLog
  PublishReturns
  CloseEnds
  EventsAreHandled
