SPECIFICATION Spec
CONSTANTS
  None = None
  Junk = Junk
  k1 = k1
  k2 = k2
  p1 = p1
  p2 = p2
  Keys = {k1, k2, p1, p2}
  Configs <- MCConfigs
  Foreign <- MCForeign
  Requests = {r1, r2}
  AgentWriters = {a1, a2}
  Writers = {w1, w2}
  Readers = {z1, z2}
SYMMETRY Symmetry
INVARIANTS
  TypeOK
  ObjectsAreAccounted
  HandledIsSent
  MatchingIsHandled
  AnswersAreWhole
