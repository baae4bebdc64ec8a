------------------------------- MODULE MCParts ------------------------------
(***************************************************************************)
(* The pages of the web client and the services that stand by themselves:  *)
(* "part", chosen in Init, is the one a behaviour follows. A state belongs *)
(* to one part, so the parts share TLC's variables x1 .. x18: each names   *)
(* the first of them as its own, in the order it declares them, and leaves *)
(* the others unused.                                                      *)
(***************************************************************************)
EXTENDS Integers, FiniteSets, Sequences

CONSTANTS
  Actors,     \* requests, calls and parties that overlap
  None, Users, Notes, Toggles, Bookings, Experiences, Requests, Flagged, Logs,
  Texts, MaxReviews, PerPage, Days, Capacity, MaxPages, MaxHurries, MaxLate,
  Zones,                                              \* of ListingPage
  Last, Channels, Reaches, MaxAttempts, MaxRestarts,  \* of Notifications
  Items, Meanings, CacheKey, MaxChanges,              \* of Recommendations
  MaxUpdates,                                         \* of AuditTrail
  TravelerScenes, GuideScenes, AdminScenes, LateHurries, \* of the dashboards
  Criteria, NoFilter, Refusals, Totals,               \* of Storefront
  MaxMarks,                                           \* of Bell
  MaxItineraries, MaxVersions,                        \* of Planner
  MaxPeople, MaxPayments,                             \* of Checkout
  Found, Ranks, PageSize, MaxShifts,                  \* of Search
  WINDOW, UNAUTH_LIMIT, AUTH_LIMIT, BASE_BACKOFF, MAX_BACKOFF, MaxTime, MaxBurst,  \* of RateLimit
  maxRetries, retries, MaxCalls, MaxFlips,            \* of DatabaseHealth
  threshold, feedLimit,                               \* of Recommendations
  TTL, MaxUsers, MaxTicks,                            \* of Metrics
  Starts, MaxLeft, MinLeft                            \* of RefundPolicy

VARIABLES x1, x2, x3, x4, x5, x6, x7, x8, x9, x10, x11, x12, x13, x14, x15, x16, x17, x18, part

vars == <<x1, x2, x3, x4, x5, x6, x7, x8, x9, x10, x11, x12, x13, x14, x15, x16, x17, x18, part>>

\* Searching without a filter is one way to search.
ASSUME StorefrontAssumption == NoFilter \in Criteria /\ Totals \subseteq Nat

\* Something passes a limit, and a back-off does not outlast a window (the guard takes
\* an hour for both).
ASSUME LimitAssumption ==
  /\ {WINDOW, UNAUTH_LIMIT, AUTH_LIMIT, BASE_BACKOFF, MAX_BACKOFF} \subseteq Nat \ {0}
  /\ MAX_BACKOFF <= WINDOW

\* A page of results has room; finitely many are found, and their ranks and ids
\* are compared.
ASSUME SearchAssumption ==
  IsFiniteSet(Found) /\ Found \subseteq Int /\ Ranks \subseteq Int /\ PageSize \in Nat \ {0}

\* Experiences start at an hour of the day.
ASSUME RefundAssumption ==
  Starts \subseteq 0..23 /\ {MinLeft, MaxLeft} \subseteq Int /\ MinLeft <= MaxLeft

\* Clocks are up to twelve hours behind UTC and fourteen ahead.
ASSUME ZonesAssumption == Zones \subseteq -12..14

\* Attempts, sizes, times and the bounds of the model are numbers.
ASSUME NumbersAssumption ==
  /\ maxRetries \in Nat /\ retries \in Nat /\ MaxCalls \in Nat /\ MaxFlips \in Nat
  /\ threshold \in Nat /\ feedLimit \in Nat
  /\ TTL \in Nat /\ MaxUsers \in Nat \ {0} /\ MaxTicks \in Nat
  /\ MaxTime \in Nat \ {0} /\ MaxShifts \in Nat
  /\ MaxMarks \in Nat /\ MaxItineraries \in Nat \ {0} /\ MaxVersions \in Nat \ {0}
  /\ MaxPeople \in Nat \ {0} /\ MaxPayments \in Nat /\ MaxLate \in Nat

N == INSTANCE Notifications WITH
  row <- x1, pc <- x2, todo <- x3, attempt <- x4, bad <- x5, mem <- x6, queue <- x7,
  prefs <- x8, reach <- x9, restarts <- x10, accepted <- x11, failures <- x12
S == INSTANCE Session WITH
  access <- x1, refresh <- x2, user <- x3, loading <- x4, call <- x5, leaving <- x6,
  out <- x7, overlapped <- x8, Calls <- Actors
B == INSTANCE Bell WITH
  row <- x1, shown <- x2, listing <- x3, marks <- x4, lost <- x5, undone <- x6
P == INSTANCE Preferences WITH
  stored <- x1, on <- x2, phase <- x3, saving <- x4, saved <- x5, error <- x6,
  unseen <- x7, hurries <- x8, late <- x9
T == INSTANCE TravelerDesk WITH
  status <- x1, wished <- x2, tab <- x3, filter <- x4, mode <- x5, rows <- x6, all <- x7,
  hearts <- x8, shelf <- x9, modal <- x10, asks <- x11, calls <- x12, errors <- x13,
  told <- x14, scene <- x15, hurries <- x16, doubt <- x17, late <- x18,
  Scenes <- TravelerScenes
G == INSTANCE GuideDesk WITH
  listing <- x1, booked <- x2, tab <- x3, filter <- x4, exps <- x5, rows <- x6, form <- x7,
  deleting <- x8, toggling <- x9, asks <- x10, calls <- x11, errors <- x12, doubt <- x13,
  dropped <- x14, scene <- x15, hurries <- x16, late <- x17, Scenes <- GuideScenes
A == INSTANCE AdminDesk WITH
  status <- x1, tab <- x2, shown <- x3, marked <- x4, target <- x5, reason <- x6,
  loading <- x7, asks <- x8, calls <- x9, read <- x10, lost <- x11, others <- x12,
  scene <- x13, hurries <- x14, Scenes <- AdminScenes
F == INSTANCE Storefront WITH
  found <- x1, controls <- x2, page <- x3, total <- x4, shown <- x5, loading <- x6,
  asks <- x7, failed <- x8, hurries <- x9, Filters <- Criteria
L == INSTANCE ListingPage WITH
  published <- x1, written <- x2, asks <- x3, shown <- x4, reviewTotal <- x5,
  reviewPage <- x6, state <- x7, slots <- x8, today <- x9, scene <- x10, grown <- x11,
  shrunk <- x12, hurries <- x13, zone <- x14, Scenes <- {"reviews", "calendar"}
R == INSTANCE Planner WITH
  stored <- x1, shown <- x2, modification <- x3, loading <- x4, error <- x5, calls <- x6,
  lost <- x7, hurries <- x8
K == INSTANCE Checkout WITH
  page <- x1, left <- x2, form <- x3, step <- x4, booking <- x5, confirmed <- x6, call <- x7,
  user <- x8, made <- x9, paid <- x10, lost <- x11, hurries <- x12,
  Slots <- Days, Bookings <- Notes
W == INSTANCE ReviewDesk WITH
  place <- x1, target <- x2, rated <- x3, text <- x4, submitted <- x5, calls <- x6, review <- x7,
  done <- x8, kept <- x9, dropped <- x10, hurries <- x11,
  Bookings <- Notes

H == INSTANCE Hearts WITH
  saved <- x1, hearts <- x2, calls <- x3, touched <- x4, failed <- x5, hurries <- x6
X == INSTANCE Search WITH
  active <- x1, rank <- x2, pages <- x3, total <- x4, asked <- x5, changes <- x6,
  Experiences <- Found, MaxChanges <- MaxShifts
Q == INSTANCE RateLimit WITH
  now <- x1, client <- x2, record <- x3, recent <- x4, greedy <- x5,
  Unknown <- None, Clients <- {"user", "ip", "admin"}, SignedIn <- {"user"}, Whitelist <- {"admin"}
D == INSTANCE DatabaseHealth WITH
  up <- x1, isInitialized <- x2, retryCount <- x3, job <- x4, begun <- x5, late <- x6,
  seen <- x7, calls <- x8, flips <- x9, Jobs <- Actors
V == INSTANCE Recommendations WITH
  row <- x1, cache <- x2, indexed <- x3, tasks <- x4, asked <- x5, found <- x6, shown <- x7,
  used <- x8, dropped <- x9, crossed <- x10, changes <- x11,
  Experiences <- Items, Texts <- Meanings, getCacheKey <- CacheKey, limit <- feedLimit
U == INSTANCE AuditTrail WITH
  row <- x1, log <- x2, at <- x3, done <- x4, lost <- x5, overlapped <- x6,
  moved <- x7, Admins <- Actors
M == INSTANCE Metrics WITH
  users <- x1, now <- x2, metricsCache <- x3, job <- x4, answer <- x5, most <- x6, overlapped <- x7,
  Admins <- Actors, MaxTime <- MaxTicks
C == INSTANCE RefundPolicy WITH
  policy <- x1, start <- x2, left <- x3, answer <- x4

-----------------------------------------------------------------------------
after4  == <<x5, x6, x7, x8, x9, x10, x11, x12, x13, x14, x15, x16, x17, x18>>
after5  == <<x6, x7, x8, x9, x10, x11, x12, x13, x14, x15, x16, x17, x18>>
after6  == <<x7, x8, x9, x10, x11, x12, x13, x14, x15, x16, x17, x18>>
after7  == <<x8, x9, x10, x11, x12, x13, x14, x15, x16, x17, x18>>
after8  == <<x9, x10, x11, x12, x13, x14, x15, x16, x17, x18>>
after9  == <<x10, x11, x12, x13, x14, x15, x16, x17, x18>>
after11 == <<x12, x13, x14, x15, x16, x17, x18>>
after12 == <<x13, x14, x15, x16, x17, x18>>
after14 == <<x15, x16, x17, x18>>

Idle17 == x17 = None /\ x18 = None
Idle16 == x16 = None /\ Idle17
Idle15 == x15 = None /\ Idle16
Idle14 == x14 = None /\ Idle15
Idle13 == x13 = None /\ Idle14
Idle12 == x12 = None /\ Idle13
Idle11 == x11 = None /\ Idle12
Idle10 == x10 = None /\ Idle11
Idle9 == x9 = None /\ Idle10
Idle8 == x8 = None /\ Idle9
Idle7 == x7 = None /\ Idle8
Idle6 == x6 = None /\ Idle7
Idle5 == x5 = None /\ Idle6

\* The experiences are alike: some order of their texts, from the first, is enough.
InOrder(row) ==
  /\ \A e, f \in Items : e <= f => row[e] <= row[f]
  /\ \E e \in Items : \A t \in Meanings : row[e] <= t

\* The last two texts begin the same.
MCCacheKey == <<"a", "b", "b">>

\* What is followed together; hours until a day after the start's.
MCTravelerScenes == {{"rows", "all"}, {"wishlist"}, {"discover"}}
MCGuideScenes == {{"listings"}, {"rows"}}
MCAdminScenes ==
  {{"verifications", "experiences"}, {"verifications", "reviews"},
   {"users", "audit"}, {"verifications", "metrics"}}
MCMinLeft == -24

\* New York, London, Tokyo.
MCZones == {-5, 0, 9}

Init ==
  \/ part = "notifications" /\ N!Init /\ Idle13
  \/ part = "session" /\ S!Init /\ Idle9
  \/ part = "bell" /\ B!Init /\ Idle7
  \/ part = "preferences" /\ P!Init /\ Idle10
  \/ part = "traveler" /\ T!Init
  \/ part = "guide" /\ G!Init /\ x18 = None
  \/ part = "admin" /\ A!Init /\ Idle15
  \/ part = "search" /\ F!Init /\ Idle10
  \/ part = "listing" /\ L!Init /\ Idle15
  \/ part = "planner" /\ R!Init /\ Idle9
  \/ part = "checkout" /\ K!Init /\ Idle13
  \/ part = "review" /\ W!Init /\ Idle12
  \/ part = "hearts" /\ H!Init /\ Idle7
  \/ part = "pages" /\ X!Init /\ Idle7
  \/ part = "limit" /\ Q!Init /\ Idle6
  \/ part = "database" /\ D!Init /\ Idle10
  \/ part = "recommendations" /\ V!Init /\ InOrder(x1) /\ Idle12
  \/ part = "audit" /\ U!Init /\ Idle8
  \/ part = "metrics" /\ M!Init /\ Idle8
  \/ part = "refund" /\ C!Init /\ Idle5

\* Bound on how often a guide overtakes an answer who has calls given up.  What
\* is claimed of the dashboard is claimed of who waits.
GuideBound == x16' <= LateHurries \/ x17' = {}

Next ==
  /\ UNCHANGED part
  /\
     \/ part = "notifications" /\ N!Next /\ UNCHANGED after12
     \/ part = "session" /\ S!Next /\ UNCHANGED after8
     \/ part = "bell" /\ B!Next /\ UNCHANGED after6
     \/ part = "preferences" /\ P!Next /\ UNCHANGED after9
     \/ part = "traveler" /\ T!Next
     \/ part = "guide" /\ G!Next /\ UNCHANGED x18 /\ GuideBound
     \/ part = "admin" /\ A!Next /\ UNCHANGED after14
     \/ part = "search" /\ F!Next /\ UNCHANGED after9
     \/ part = "listing" /\ L!Next /\ UNCHANGED after14
     \/ part = "planner" /\ R!Next /\ UNCHANGED after8
     \/ part = "checkout" /\ K!Next /\ UNCHANGED after12
     \/ part = "review" /\ W!Next /\ UNCHANGED after11
     \/ part = "hearts" /\ H!Next /\ UNCHANGED after6
     \/ part = "pages" /\ X!Next /\ UNCHANGED after6
     \/ part = "limit" /\ Q!Next /\ UNCHANGED after5
     \/ part = "database" /\ D!Next /\ UNCHANGED after9
     \/ part = "recommendations" /\ V!Next /\ UNCHANGED after11
     \/ part = "audit" /\ U!Next /\ UNCHANGED after7
     \/ part = "metrics" /\ M!Next /\ UNCHANGED after7
     \/ part = "refund" /\ C!Next /\ UNCHANGED after4

Spec == Init /\ [][Next]_vars

\* Node.js runs what is ready, and every request is answered or times out.
Advance(i) ==
  \/ part = "notifications" /\ N!Deliver(i) /\ UNCHANGED <<after12, part>>
  \/ part = "session" /\ S!Answer(i) /\ UNCHANGED <<after8, part>>
  \/ part = "database" /\ D!Step(i) /\ UNCHANGED <<after9, part>>

FairSpec == Spec /\ \A i \in Actors : WF_vars(Advance(i))

-----------------------------------------------------------------------------
\* Every variable of every part has its type.
TypeOK ==
  CASE part = "notifications" -> N!TypeOK
    [] part = "session" -> S!TypeOK
    [] part = "bell" -> B!TypeOK
    [] part = "preferences" -> P!TypeOK
    [] part = "traveler" -> T!TypeOK
    [] part = "guide" -> G!TypeOK
    [] part = "admin" -> A!TypeOK
    [] part = "search" -> F!TypeOK
    [] part = "listing" -> L!TypeOK
    [] part = "planner" -> R!TypeOK
    [] part = "checkout" -> K!TypeOK
    [] part = "review" -> W!TypeOK
    [] part = "hearts" -> H!TypeOK
    [] part = "pages" -> X!TypeOK
    [] part = "limit" -> Q!TypeOK
    [] part = "database" -> D!TypeOK
    [] part = "recommendations" -> V!TypeOK
    [] part = "audit" -> U!TypeOK
    [] part = "metrics" -> M!TypeOK
    [] part = "refund" -> C!TypeOK

\* A user who waits for the answers sees the rows of the filter that is chosen,
\* the experiences of the tab that is chosen, the results of the search that is
\* typed, on the page that is chosen; and of the experiences like a given one, the
\* nearest that still have a row.
ListsFitControls ==
  CASE part = "traveler" -> T!ListsFitControls
    [] part = "guide"    -> G!RowsFitFilter
    [] part = "search"   -> F!ResultsFitControls
    [] part = "recommendations" -> V!NearestAreShown
    [] OTHER -> TRUE

\* A user who waits for the answers sees what the service keeps once a change is
\* confirmed: a cancelled booking, a heart, a listing, a reviewed request, a
\* notification read, a preference saved, an itinerary modified, a booking made
\* and paid. (Hearts, listings and preferences: but for what a call changed unseen,
\* which was carried out and its answer lost, or after it was given up. The hearts
\* of the search and of an experience's own page: as long as no call fails.)
ChangesAreShown ==
  CASE part = "traveler"    -> T!CancelledIsGone /\ T!HeartsAreWishlist
    [] part = "guide"       -> G!ListingsAgree
    [] part = "admin"       -> A!DecidedIsGone
    [] part = "bell"        -> B!ShownReadIsRead
    [] part = "preferences" -> P!SavedIsStored
    [] part = "planner"     -> R!ShownIsStored
    [] part = "checkout"    -> K!PaidAsBooked
    [] part = "hearts"      -> H!PressedHeartsAreSaved
    [] OTHER -> TRUE

\* Nothing disappears that somebody still has to deal with: what the guide types
\* in the form, the pending requests of the administrator, the comment that the
\* traveller writes about a booking.
NothingIsLost ==
  CASE part = "guide" -> G!InputIsKept
    [] part = "admin" -> A!PendingIsListed
    [] part = "review" -> W!CommentsReachTheirBooking
    [] OTHER -> TRUE

\* What is counted in several places agrees. Page by page, the reviews of an
\* experience come in order, each of them once, and the pages of a search hold
\* each experience once; the buttons of the search reach every page; the calendar
\* marks the days to come that the form offers. A client gets at most twice the
\* limit through in a window, and only one who overstepped it waits. The database
\* is told healthy or lost as it was during the call. The reported users are the
\* reported guides and travellers and the administrators, unless somebody
\* registered meanwhile. A cancellation promises what its policy does, in hours
\* as in days.
NumbersAddUp ==
  CASE part = "listing" -> L!ReviewsInOrder /\ L!ReviewsShownOnce /\ L!CalendarFitsForm
    [] part = "search"  -> F!ButtonsSpanPages
    [] part = "pages"   -> X!PagesPartition
    [] part = "limit"   -> Q!AtMostTwiceTheLimit /\ Q!OnlyTheGreedyWait
    [] part = "database" -> D!OutageIsSpared /\ D!SeenIsFound
    [] part = "metrics" -> M!MetricsAddUp
    [] part = "refund" -> C!RefundKeepsDeadline
    [] OTHER -> TRUE

\* Requests are made in the name of the user who is shown, nobody stays signed
\* in after signing out, and no request is repeated for ever.
SessionIsHeld ==
  part = "session" => S!ShownIsHeld /\ S!SignedOutStaysOut /\ S!SentAtMostTwice

\* Records kept beside the rows tell what happened to them. The status of a
\* notification is what its last attempt did, and the queue has the attempts
\* under way. The index holds the text of each row once its tasks are done. The
\* audit log has every update of an administrator that was not cut short, and its
\* newest entry tells the row unless two updates overlapped or somebody else, a
\* login or the guide, has written the row since.
RecordsAreTrue ==
  CASE part = "notifications" -> N!StatusIsEarned /\ N!QueueCoversWork
    [] part = "recommendations" -> V!IndexFollowsRows
    [] part = "audit" -> U!EveryUpdateIsLogged /\ U!NewestTellsRow
    [] OTHER -> TRUE

\* What somebody waits for: a delivery, the sign-in forms, a call that watches
\* the database.
Waiting(i) ==
  \/ part = "notifications" /\ N!Awaited(i)
  \/ part = "session" /\ S!Disabled
  \/ part = "database" /\ D!Busy(i)
Settled(i) ==
  \/ part = "notifications" /\ N!Settled(i)
  \/ part = "session" /\ ~S!Disabled
  \/ part = "database" /\ ~D!Busy(i)

\* Deliveries settle unless the server stops, and the second party of a booking
\* is notified however the delivery to the first one goes: its channels may fail,
\* its database calls may throw. The sign-in forms do not stay disabled. Every
\* call that watches the database ends.
EverythingSettles == \A i \in Actors : Waiting(i) ~> Settled(i)
=============================================================================
