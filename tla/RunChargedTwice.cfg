SPECIFICATION Spec
CONSTANTS
  standard = standard
  deep = deep
  NoRun = NoRun
  NoQuote = NoQuote
  Standard = standard
  Runs = {k1}
  Quotes = {}
  Requests = {r1}
  Procs = {p1}
  Depths <- OneDepth
  PriceAt <- OnePrice
  Costs = {1}
  Funds = 5
  MaxDeaths = 0
INVARIANTS NeverOverbilled
CHECK_DEADLOCK FALSE
