SPECIFICATION Spec
CONSTANTS
  Logins = {l1, l2, l3}
  None = None
CHECK_DEADLOCK FALSE
INVARIANTS
  TypeOK
  OwnCode
PROPERTIES
  LoginEnds
