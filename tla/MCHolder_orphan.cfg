SPECIFICATION Spec
CONSTANTS
  Runner = {r1, r2}
  Nobody = Nobody
  CanFail = TRUE
  CanKill = TRUE
INVARIANT GuardSerialises
CHECK_DEADLOCK FALSE
