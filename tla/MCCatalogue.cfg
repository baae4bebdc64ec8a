\* One listing and one itinerary, one request at a time and overlapping ones.
SPECIFICATION MCSpec
CONSTANTS
  Stays = {b1, b2}
  Images = {i1, i2, i3}
  Slots = {s1}
  Texts = {t1, t2}
  Workers = {w1, w2}
  None = None
  Scopes <- MCScopes
  MaxImages = 2
  MaxTasks = 2
  Experiences = {10, 20, 21, 30}
  Planners = {r1, r2}
  NoTrip = NoTrip
SYMMETRY Symmetric
INVARIANTS TypeOK BookedStays ImagesWithinLimit PublishedCounts ItineraryIsWhole StopsWithinBudget
PROPERTIES RatingIsAverage
CHECK_DEADLOCK FALSE
