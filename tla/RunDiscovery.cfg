SPECIFICATION MCSpec
CONSTANTS
  Discoveries = {d1, d2}
  Queries = {q1, q2}
  Clients = {c1}
  Procs = {p1, p2}
  CostOf <- Rising
  Funds = 5
  Outages = TRUE
  MaxDeaths = 1
  Topups = {t1, t2}
  Accounts = {sandbox, live}
  Rates = {3, 5}
  MaxDeploys = 1
  NoAccount = NoAccount
INVARIANTS RowMatchesBalance PaidForDelivery AckedIsCredited CreditedAsOffered
PROPERTIES RunningCloses PaidIsCredited
CHECK_DEADLOCK FALSE
