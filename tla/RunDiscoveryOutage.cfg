SPECIFICATION MCSpec
CONSTANTS
  Discoveries = {d1}
  Queries = {q1, q2}
  Clients = {c1}
  Procs = {p1}
  CostOf <- Rising
  Funds = 5
  Outages = TRUE
  MaxDeaths = 0
  Topups = {t1}
  Accounts = {live}
  Rates = {3}
  MaxDeploys = 0
  NoAccount = NoAccount
INVARIANTS SettledForDelivery
CHECK_DEADLOCK FALSE
