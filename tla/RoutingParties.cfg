SPECIFICATION Spec
CONSTANTS
  Ids = {i1, i2, i3}
  Emails = {}
  ValidRoles = {"user", "guru"}
  ValidPositions = {"wali_kelas", "kaprog"}
  Classes = {c1, c2}
  Majors = {m1, m2}
  None = none
  Reqs = {r1}
  Procs = {p1}
  ApprovalOrder <- Ends
  Asked <- EndsProfiles
SYMMETRY Symmetry
INVARIANTS
  TypeOK
  PartiesExist
PROPERTIES
  RightApprovers
