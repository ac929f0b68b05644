SPECIFICATION Spec
CONSTANTS
  Shell = {s1, s2}
  MaxIdx = 2
  Watchdog = Watchdog
  Nobody = Nobody
  CanDie = FALSE
  SlowSetup = FALSE
INVARIANT SetupFindsProject
CHECK_DEADLOCK FALSE
