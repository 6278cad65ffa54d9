SPECIFICATION FairSpec
CONSTANTS
  Reqs = {r1}
  g1 = g1
  g2 = g2
  g3 = g3
  s1 = s1
  s2 = s2
  Gurus = {g1, g2}
  Students = {s1}
  Admin = admin
  Procs = {p1, p2}
  N = 2
  Chains <- ShortChains
  Ops = {"decide", "cancel"}
  OverlappingDecides = FALSE
  Free = free
  Nil = nil
INVARIANTS
  PointsAtTheTurn
PROPERTIES
  EveryCallIsAnswered
