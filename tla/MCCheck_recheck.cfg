SPECIFICATION Spec
CONSTANTS
  Service = {s1}
  View = {v1, v2}
  ViewsOf <- MCViewsOf
  MaxSkips = 3
  HostFails = FALSE
  SlowCheck = FALSE
  MaxCount = 5
  LastFile = 3
INVARIANT EverySkipRechecked
