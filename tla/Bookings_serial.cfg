\* Every handler, one at a time, and a guide who edits the calendar.
SPECIFICATION Spec
CONSTANTS
  c1 = c1  c2 = c2  c3 = c3
  Slots = {s1}
  Creators = {c1, c2}
  Cancellers = {x1, x2}
  Completers = {y1}
  Keys = {}
  NoKey = NoKey
  None = None
  Capacities = {2}
  Offers = {1}
  MaxParty = 2
  MaxInFlight = 1
  HasRedis = TRUE
SYMMETRY CreatorSymmetry
INVARIANTS SoldOutMeansFull
PROPERTIES ImplementsLedger FinalStatusStays
CHECK_DEADLOCK FALSE
