\* A payment, its confirmation, refund, receipt and webhook, interleaved, with failures.
SPECIFICATION Spec
CONSTANTS
  f1 = f1  f2 = f2
  Payments = {p1}
  Confirms = {c1}
  Escrows = {}
  Releases = {}
  Crons = {}
  Refunds = {f1}
  Receipts = {g1}
  Admins = {}
  Hooks = {w1}
  Outcomes = {"charged", "action"}
  Whole = 2
  MaxInFlight = 2
  MayFail = TRUE
INVARIANTS TypeOK EscrowHoldsMoney RefundIsReal
CHECK_DEADLOCK FALSE
