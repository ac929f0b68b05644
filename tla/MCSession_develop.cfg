SPECIFICATION FairSpec
CONSTANTS
  Shell = {s1, s2}
  MaxIdx = 2
  Watchdog = Watchdog
  Nobody = Nobody
  CanDie = TRUE
  SlowSetup = FALSE
INVARIANTS
  TypeOK
  JoinerSafe
  FreshSession
  Attended
  DistinctMarkers
PROPERTIES
  ProjectKept
  GateSpec
  InnerEnds
  JoinAnswered
CHECK_DEADLOCK FALSE
