CONSTANTS
  bank = bank
  card = card
  stock = stock
  cny = cny
  usd = usd
  None = None
  Cash = {bank}
  Liability = {card}
  Invest = {stock}
  Currency = {cny, usd}
  CurOf <- UsdBank
  Base = cny
  Rates = {1, 2}
  Opening <- Open10
  Logged = {bank}
  Orders <- OddOrders
  Patches <- OddPatches
  EditPairs = TRUE
  Moves <- PlainMoves
  Bills <- OneBill
  Incomes <- CashIncome
  Workers = {w1, w2}
  Tellers = {w1, w2}
  Purses = {p1, p2}
  Initial = 1
  Deltas = {1}
  MaxLegs = 1
  MaxTasks = 3
  MaxTx = 3
  MaxExp = 1
  MaxOps = 3
  FirstChats = 1
  Asked <- Twice
  MaxChats = 2
  PageSize = 2
  MaxStreams = 2
  MaxLoads = 2
  MaxClicks = 3
  Absent = Absent
  Methods = {"average", "fifo"}
  FirstBook <- NoPosition
  TradeForms <- FewTrades
  Clients <- BothClients
  Quotes = {40000}
  PriceUnit = 100
  RatioUnit = 100000
  MaxRows = 5
SPECIFICATION EngineSpec
SYMMETRY Symmetric
INVARIANTS TypeOK AuditChain RebuildKeepsBalances
  LotsCovered OrderlyOldestFirst OrderlyRebuildAgrees
  ArithmeticRight OneChatShown PageAgrees
  PostingsAddUp
PROPERTIES ImplementsAudit
CHECK_DEADLOCK FALSE
