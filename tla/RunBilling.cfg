SPECIFICATION MCSpec
CONSTANTS
  standard = standard
  deep = deep
  NoRun = NoRun
  NoQuote = NoQuote
  Standard = standard
  Runs = {k1, k2}
  Quotes = {q1}
  Requests = {r1, r2}
  Procs = {p1, p2}
  Depths <- TwoDepths
  PriceAt <- TwoPrices
  Costs = {1, 3}
  Funds = 4
  MaxDeaths = 1
  AgentCounts = {5, 30, 100}
  RoundCounts = {1, 3, 12}
  VariantCounts = {1, 2, 8}
  Balances = {0, 700, 1300, 2000}
  Processes = {n1, n2}
  People = {"ann", "bob"}
  MostOrgs = 1
  MostTries = 1
  MostHits = 2
  MostWaved = 1
  MostPaid = 1
  Threshold = 2
  Cap = 4
  Retries = 2
  MostCalls = 9
  Attempts = 2
  Ceiling = 2
  PerAxis = 1
  Queries = 2
  NamesFound = {"f1", "f2"}
  Fresh = 1
  MostTicks = 1
  MostMatches = 1
  MaxRows = 3
  MaxObjections = 2
  MaxArchetypes = 1
  MaxRounds = 2
  Target = 75
  MostFall = 20
  MostUnread = 1
SYMMETRY Alike
INVARIANTS QuoteFundsOneStart StartsHold SettledIsCovered MoreCostsMore LimitHolds
  RowsAccountedFor ArtifactHolds ShortlistHolds RoomSetsNoPrice DeletionIsGivenUp
  NoRoundWasBetter
PROPERTY OnlyOwnSessionEnds
CHECK_DEADLOCK FALSE
