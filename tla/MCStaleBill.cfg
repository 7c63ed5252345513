CONSTANTS
  bank = bank
  card = card
  stock = stock
  cny = cny
  usd = usd
  None = None
  Cash = {bank}
  Liability = {card}
  Invest = {stock}
  Currency = {cny, usd}
  CurOf <- CNY_Only
  Base = cny
  Rates = {1}
  Opening <- Open10
  Logged = {bank}
  Orders = {}
  Patches = {}
  EditPairs = FALSE
  Moves = {}
  Bills <- PlainBills
  Incomes = {}
  Workers = {w1, w2}
  MaxTx = 4
  MaxExp = 1
  MaxOps = 4
SPECIFICATION Spec
INVARIANTS NothingLeftBehind
CHECK_DEADLOCK FALSE
