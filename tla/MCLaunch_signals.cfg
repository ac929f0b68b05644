SPECIFICATION LiveSpec
CONSTANTS
  Path = {1, 2, 3, 4}
  Unsafe = {3}
  Plan <- MCPlan
  MaxBinds = 2
  MaxSent = 2
INVARIANTS TypeOK MountedOnce NotTwice BusIsOwn ClaimCovers
PROPERTY Relayed
CHECK_DEADLOCK FALSE
