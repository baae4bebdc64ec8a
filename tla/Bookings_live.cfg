\* Two creations and two cancellations that share a slot, all at once.
SPECIFICATION FairSpec
CONSTANTS
  c1 = c1  c2 = c2  c3 = c3
  Slots = {s1}
  Creators = {c1, c2}
  Cancellers = {x1, x2}
  Completers = {}
  Keys = {}
  NoKey = NoKey
  None = None
  Capacities = {1}
  Offers = {}
  MaxParty = 1
  MaxInFlight = 9
  HasRedis = TRUE
INVARIANTS TypeOK OversellingIsBounded
PROPERTIES EveryHandlerEnds DeadHolderIsFreed
CHECK_DEADLOCK FALSE
