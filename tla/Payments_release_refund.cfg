\* A release that races a refund.
SPECIFICATION Spec
CONSTANTS
  f1 = f1  f2 = f2
  Payments = {p1}
  Confirms = {}
  Escrows = {}
  Releases = {l1}
  Crons = {}
  Refunds = {f1}
  Receipts = {}
  Admins = {}
  Hooks = {}
  Outcomes = {"charged", "action"}
  Whole = 2
  MaxInFlight = 9
  MayFail = FALSE
INVARIANTS MoneyMovesOnce
CHECK_DEADLOCK FALSE
