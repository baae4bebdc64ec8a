\* The pages of the web client and the services that stand by themselves.
SPECIFICATION FairSpec
CONSTANTS
  Actors = {1, 2}
  None = None
  Users = {u1, u2}
  Notes = {n1, n2}
  Toggles = {t1, t2}
  Bookings = {b1}
  Experiences = {e1, e2}
  Requests = {r1}
  Flagged = {v1}
  Logs = {l1}
  Texts = {"", "drum"}
  MaxReviews = 4
  PerPage = 1
  Days = {1, 2}
  Capacity = 1
  MaxPages = 4
  MaxHurries = 1
  MaxLate = 1
  LateHurries = 0
  Zones <- MCZones
  Last = 2
  Channels = {"email", "push"}
  Reaches = {{"email", "push"}}
  MaxAttempts = 2
  MaxRestarts = 1
  Items = {1, 2, 3}
  Meanings = {1, 2, 3}
  CacheKey <- MCCacheKey
  MaxChanges = 2
  MaxUpdates = 2
  TravelerScenes <- MCTravelerScenes
  GuideScenes <- MCGuideScenes
  AdminScenes <- MCAdminScenes
  Criteria = {"none", "rating", "category"}
  NoFilter = "none"
  Refusals = {"category"}
  Totals = {0, 9}
  MaxMarks = 2
  MaxItineraries = 2
  MaxVersions = 3
  MaxPeople = 2
  MaxPayments = 2
  Found = {1, 2, 3}
  Ranks = {1, 2, 3}
  PageSize = 2
  MaxShifts = 1
  WINDOW = 3
  UNAUTH_LIMIT = 1
  AUTH_LIMIT = 2
  BASE_BACKOFF = 1
  MAX_BACKOFF = 3
  MaxTime = 12
  MaxBurst = 5
  maxRetries = 3
  retries = 2
  MaxCalls = 4
  MaxFlips = 2
  threshold = 1
  feedLimit = 1
  TTL = 1
  MaxUsers = 1
  MaxTicks = 1
  Starts = {0, 9, 23}
  MaxLeft = 360
  MinLeft <- MCMinLeft
INVARIANTS TypeOK ListsFitControls ChangesAreShown NothingIsLost NumbersAddUp SessionIsHeld RecordsAreTrue
PROPERTIES EverythingSettles
CHECK_DEADLOCK FALSE
