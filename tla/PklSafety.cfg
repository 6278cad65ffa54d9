SPECIFICATION Spec
CONSTANTS
  Reqs = {r1}
  g1 = g1
  g2 = g2
  g3 = g3
  s1 = s1
  s2 = s2
  Gurus = {g1, g2, g3}
  Students = {s1, s2}
  Admin = admin
  Procs = {p1, p2}
  N = 3
  Chains <- OneChain
  Ops = {"decide", "cancel", "get"}
  OverlappingDecides = TRUE
  Free = free
  Nil = nil
SYMMETRY Symmetry
INVARIANTS
  GetIsNotTorn
  TypeOK
  DecidedInOrder
  StatusMatchesSteps
  PointerNotAhead
PROPERTIES
  DecisionsAreFinal
  LostDecideIs409
  OnlyItsApproverDecides
  ImplementsChain
