CONSTANTS
  None = None
  Sessions = {s1}
  Requests = {r1, r2}
  Savers = {r1, r2}
  Slots = 5
  QueueCap = 1
  PendingCap = 1
  MaxTasks = 1
  MaxStarts = 3
SPECIFICATION Spec
PROPERTIES SaveEnds
CHECK_DEADLOCK FALSE
