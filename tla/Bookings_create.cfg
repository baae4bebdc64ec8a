\* Concurrent createBooking requests with Redis and calendar edits that raise the
\* capacity; locks and cached answers expire, handlers fail and servers die.
SPECIFICATION Spec
CONSTANTS
  c1 = c1  c2 = c2  c3 = c3
  Slots = {s1}
  Creators = {c1, c2, c3}
  Cancellers = {}
  Completers = {}
  Keys = {k1}
  NoKey = NoKey
  None = None
  Capacities = {2}
  Offers = {3}
  MaxParty = 2
  MaxInFlight = 3
  HasRedis = TRUE
SYMMETRY CreatorSymmetry
INVARIANTS SeatsAccounted NoOverbooking AnswersAreTrue
PROPERTIES ImplementsLedger CapacityIsTheGuides
CHECK_DEADLOCK FALSE
