SPECIFICATION Spec
CONSTANTS
  c1 = c1
  c2 = c2
  user = user
  longname = longname
  right = right
  wrong = wrong
  Clients = {c1, c2}
  Names = {user, longname}
  LongNames = {longname}
  Passwords = {right, wrong}
  Accepted <- OneUser
  Unknown = Unknown
  Folders = {"a", "b"}
  MaxPath = 4
  RootPath = "r"
  RootLength = 1
  Outside = Outside
  Garbage = Garbage
SYMMETRY Symmetry
INVARIANTS
  TypeOK
  LoggedOutAtRoot
  NamedAsAccepted
  PathsBounded
  PwdExists
  GetFollowsCd
CHECK_DEADLOCK FALSE
