CONSTANTS
  Absent = Absent
  Methods = {"average"}
  FirstBook <- NoPosition
  TradeForms <- FewTrades
  Clients <- OneDeleting
  Quotes = {}
  PriceUnit = 100
  RatioUnit = 100000
  MaxRows = 5
SPECIFICATION PositionSpec
INVARIANTS RebuildAgrees
CHECK_DEADLOCK FALSE
