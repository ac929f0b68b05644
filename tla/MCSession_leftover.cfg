SPECIFICATION FairSpec
CONSTANTS
  Shell = {s1, s2}
  MaxIdx = 2
  Watchdog = Watchdog
  Nobody = Nobody
  CanDie = FALSE
  SlowSetup = FALSE
PROPERTY LastShellRemoves
CHECK_DEADLOCK FALSE
