SPECIFICATION Spec
CONSTANTS
  Sessions = {s1, s2, s3}
  Turns = {t1, t2, t3, t4, t5}
  maxMsg = 5
  ttl = 2
  maxSessions = 2
  None = none
SYMMETRY Symmetry
INVARIANTS
  TypeOK
PROPERTIES
  ImplementsTranscripts
