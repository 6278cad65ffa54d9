SPECIFICATION Spec
CONSTANTS
  Arts = {a1}
  Authors = {u1, u2}
  Procs = {p1, p2}
  MaxUploads = 1
  MaxRefs = 1
  Forms = {"key", "signed"}
  Faults = 1
  None = none
SYMMETRY Symmetry
INVARIANTS
  TypeOK
PROPERTIES
  OnlyAuthorEdits
  OnlyAuthorKeepsImages
