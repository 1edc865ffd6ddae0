SPECIFICATION FairSpec
CONSTANTS
  g1 = g1
  g2 = g2
  c1 = c1
  Gauges = {g1, g2}
  Counters = {c1}
  NoName = NoName
  NoType = NoType
  Missing = Missing
  Absent = Absent
  NoKey = NoKey
  Half = 4
  Bodies <- MCBodies
  Requests = {r1, r2, r3}
  r1 = r1
  r2 = r2
  r3 = r3
  Offers <- MCOffers
  Backends = {"memory", "postgres"}
  PoolSize = 2
INVARIANTS TypeOK CountersAreSums PagesAreInOrder
PROPERTIES ImplementsMap RequestsEnd SignalEndsProcess
