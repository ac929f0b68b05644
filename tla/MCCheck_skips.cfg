SPECIFICATION LiveSpec
CONSTANTS
  Service = {s1}
  View = {v1, v2}
  ViewsOf <- MCViewsOf
  MaxSkips = 3
  HostFails = TRUE
  SlowCheck = TRUE
  MaxCount = 5
  LastFile = 3
INVARIANTS TypeOK RunsOnItsStore NotForgotten SkipsInARow
PROPERTIES StopIsNoFailure LooksAgain
