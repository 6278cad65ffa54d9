SPECIFICATION Spec
CONSTANTS
  Reqs = {r1}
  g1 = g1
  g2 = g2
  g3 = g3
  s1 = s1
  s2 = s2
  Gurus = {g1, g2, g3}
  Students = {s1}
  Admin = admin
  Procs = {p1, p2}
  N = 3
  Chains <- OneChain
  Ops = {"decide", "cancel"}
  OverlappingDecides = TRUE
  Free = free
  Nil = nil
SYMMETRY Symmetry
INVARIANTS
  PointsAtTheTurn
