CONSTANTS
  Callers = {t, u}
  Keys = {11, 12}
  Clients = {1, 2, 3, 4, 5}
  MaxProcs = 2
  Reloads = 0
SPECIFICATION PoolSpec
INVARIANT RightServer
CHECK_DEADLOCK FALSE
