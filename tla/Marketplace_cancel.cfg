\* One booking, its payment and a cancellation, with the hourly release.
SPECIFICATION FairSpec
CONSTANTS
  Creators = {c1}
  Cancellers = {x1}
  Slots = {s1}
  NoKey = NoKey
  None = None
  Payments = {p1}
  Crons = {k1}
  Refunds = {f1}
  Hooks = {w1}
PROPERTIES CancelledIsRefunded
CHECK_DEADLOCK FALSE
