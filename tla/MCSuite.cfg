CONSTANTS
  Verifiers = {w1, w2}
  Nonces = {n1, n2}
  RingSize = 1
  Ttl = 1
  Grace = 1
  GcEvery = 1
  MaxTime = 3
  MaxUndone = 1
  Plans = {"plan"}
  Schedules <- WeeklyAndMonthly
  LastDay = 2
  Confirmers = {w1, w2}
  MaxTrades = 2
  Users = {n1, n2}
  Requests = {w1, w2}
  CacheTtl = 1
  CacheSlots = 1
  MaxVersion = 1
  MaxNow = 2
  Threads = {w1, w2}
  People = {n1, n2}
  Ledgers = {1, 2}
  Nobody = Nobody
  Askers = {n1, n2}
  Savers = {w1, w2}
  MaxRequests = 4
  Callers = {w1, w2}
  Keys = {11, 12}
  Clients = {1, 2, 3, 4, 5}
  MaxProcs = 2
  Reloads = 1
  ToolCalls = {"search", "buy"}
  Parallel = {"search"}
  MaxBatch = 2
  MaxPieces = 1
  MaxTurns = 2
  TokenBudget = 2
  ToolBudget = 2
  DupSlots = 1
  MaxFrequency = 1
  MaxWrites = 3
  MaxFailures = 2
  NodeCount = 3
  MaxCalls = 4
  Lengths = {2, 4}
  Block = 3
  MaxFrame = 2
  MaxUnasked = 1
  MaxRetries = 1
  Handlers = {w1, w2}
  Sources = {n1, n2}
  Limit = 2
  Window = 2
  RateRing = 3
  MaxDelay = 1
  LastSecond = 5
  bank = bank
  card = card
  stock = stock
  cny = cny
  usd = usd
  None = None
  Cash = {bank}
  Liability = {card}
  Invest = {stock}
  Currency = {cny}
  CurOf <- CNY_Only
  Base = cny
  Rates = {1}
  Opening <- Open10
  Logged = {bank}
  Orders <- PlainOrders
  Patches <- PlainPatches
  EditPairs = FALSE
  Moves <- PlainMoves
  Bills <- PlainBills
  Incomes = {}
  Workers = {teller}
  MaxTx = 4
  MaxExp = 1
  MaxOps = 3
SPECIFICATION SuiteSpec
SYMMETRY Symmetric
INVARIANTS
  Reconciled
  PairsIntact
  FeeRowsMatch
  SingleUse
  SoundUntilMoved
  OfferedIsAlive
  ConfirmedHasBuy
  BuysAccounted
  EveryCallAnswered
  NoDoubleRun
  BudgetsHold
  OneVerdict
  SagaComplete
  RevokedWithinTtl
  NothingLost
  NamesKept
  RolesSound
  LimitHolds
  SnapshotsSound
  SavesSound
PROPERTIES AnswersInStep
CHECK_DEADLOCK FALSE
