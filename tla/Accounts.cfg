SPECIFICATION Spec
CONSTANTS
  Ids = {i0, i1, i2}
  Emails = {e1, e2}
  ValidRoles = {"user", "guru", "admin"}
  ValidPositions = {"bk"}
  Classes = {}
  Majors = {}
  None = none
  Tokens = {t1, t2}
  Procs = {p1, p2}
  Admin = i0
  Domains = {"register", "login", "logout", "create", "update", "updateRole", "delete"}
  Profiles1 <- Seats
  Roles1 = {"guru"}
  Faults = TRUE
SYMMETRY Symmetry
INVARIANTS
  TypeOK
  UniqueAccounts
  SessionsHaveUsers
PROPERTIES
  EndedSessionsStayEnded
  RolesSurviveEdits
