\* Every operation that moves money out of escrow, with the hourly release, on a
\* database that is up; no webhooks and receipts.
SPECIFICATION FairSpec
CONSTANTS
  f1 = f1  f2 = f2
  Payments = {p1}
  Confirms = {}
  Escrows = {e1}
  Releases = {l1}
  Crons = {k1}
  Refunds = {f1}
  Receipts = {}
  Admins = {a1}
  Hooks = {}
  Outcomes = {"charged", "action"}
  Whole = 2
  MaxInFlight = 9
  MayFail = FALSE
PROPERTIES EscrowIsSettled
CHECK_DEADLOCK FALSE
