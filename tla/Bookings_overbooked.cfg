\* A cancellation that races a creation.
SPECIFICATION Spec
CONSTANTS
  c1 = c1  c2 = c2  c3 = c3
  Slots = {s1}
  Creators = {c1, c2, c3}
  Cancellers = {x1}
  Completers = {}
  Keys = {}
  NoKey = NoKey
  None = None
  Capacities = {2}
  Offers = {}
  MaxParty = 2
  MaxInFlight = 9
  HasRedis = TRUE
SYMMETRY CreatorSymmetry
INVARIANTS NoOverbooking
CHECK_DEADLOCK FALSE
