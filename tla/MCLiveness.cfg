CONSTANTS
  None = None
  Sessions = {s1, s2}
  Requests = {r1, r2}
  Savers = {r1}
  Slots = 5
  QueueCap = 1
  PendingCap = 1
  MaxTasks = 2
  MaxStarts = 2
  MaxDays = 2
SPECIFICATION LiveSpec
INVARIANTS TypeOK SlotHeld OneTaskUntilWrap
PROPERTIES TaskEnds SaveEnds StopReturns RunEnds SummaryOrder
