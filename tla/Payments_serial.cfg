\* Every handler, one at a time, with the database up: no webhook, no administrator.
SPECIFICATION Spec
CONSTANTS
  f1 = f1  f2 = f2
  Payments = {p1}
  Confirms = {c1, c2}
  Escrows = {e1}
  Releases = {l1}
  Crons = {k1}
  Refunds = {f1, f2}
  Receipts = {g1}
  Admins = {}
  Hooks = {}
  Outcomes = {"charged", "action"}
  Whole = 2
  MaxInFlight = 1
  MayFail = FALSE
SYMMETRY RefundSymmetry
INVARIANTS StatusIsLogged MoneyMovesOnce
PROPERTIES FollowsMachine
CHECK_DEADLOCK FALSE
