SPECIFICATION FairSpec
CONSTANTS
  Runner = {r1, r2, r3}
  Nobody = Nobody
  CanFail = TRUE
  CanKill = TRUE
INVARIANTS
  TypeOK
  AppKept
  HolderThere
  Joinable
  LastRemoves
PROPERTIES
  SharedSpec
  GuardAnswered
CHECK_DEADLOCK FALSE
