# Verification of the tourism marketplace

TLA+ models, TLC runs and TLAPS proofs for the local tourism marketplace: the
backend (`src/packages/backend`, NestJS, TypeORM over PostgreSQL, Redis, Stripe)
and the web client (`src/packages/web`, Next.js, axios, zustand). Sources named
below without a package are under `src/packages/backend/src/`.

## 1. The system

| Component | State | Operations | Interacts with |
|---|---|---|---|
| Bookings (`bookings/bookings.service.ts`) | tables `bookings`, `availability_slots`; Redis `lock:booking:*`, `idempotency:booking:*` | `createBooking`, `cancelBooking`, `completeBooking`, listings | Experiences (owns the slots), Payments (`releaseFunds` at completion), Notifications |
| Availability calendar (`experiences/experiences.service.ts`) | `availability_slots` | `updateAvailability` | Bookings, which updates the same rows |
| Payments (`payments/payments.service.ts`) | tables `payments`, `transaction_logs` | `processPayment`, `confirmPayment`, `escrowFunds`, `releaseFunds`, `refundPayment`, `generateReceipt` | Stripe, Bookings |
| Stripe webhook (`payments/webhook.controller.ts`) | `payments` | `handleEvent` | Stripe, which delivers events at least once and in no order |
| Escrow release (`payments/escrow-release.scheduler.ts`) | none of its own | hourly `releaseEligibleEscrows` on every server | Payments |
| Administration (`admin/admin.service.ts`) | `verification_requests`, `users`, `payments`, `reviews`, `experiences`, `audit_logs`, a cache of metrics | approve, reject, suspend, moderate, `issueRefund`, `getMetrics`, `logAction` | nearly all |
| Accounts (`auth/auth.service.ts`) | `users`, `user_profiles`, reset tokens in memory | register, login, OAuth, refresh, reset, delete | Administration (suspension uses the same flag) |
| Experiences (same file as the calendar) | `experiences`, `images`, the vector index | create, update, delete, upload, search, recommend | Bookings, vector search |
| Reviews (`reviews/reviews.service.ts`) | `reviews`, rating and count of `experiences` | create, respond, flag, remove | Bookings (only a completed booking is reviewed) |
| Vector search (`vector/`) | table of embeddings, embedding cache | index, remove, search | Experiences; OpenAI |
| Trip planner (`trip-planner/`) | `itineraries` and their entries | generate, modify | Experiences, a language model |
| Notifications (`notifications/`) | `notifications`, Redis list, timers, preferences in memory | send, retry, mark read | Bookings |
| Rate limit, fraud detection (`security/`) | counters in memory | `canActivate`, checks | no route uses them |
| Database health (`database/`) | retry counter | check, reconnect, retry a query | health routes |
| Web client (`src/packages/web`) | tokens in `localStorage`, the auth store, component state | pages for search, one experience, booking, planner, dashboards of traveller, guide and administrator, notifications | the API |
| Caches, currency, monitoring, receipts, configuration, mobile client | caches, counters, UI state | reads, refreshes | the API |

What is hard in the backend is nearly always the same thing: a handler is a chain
of awaited calls, any other handler can run between two of them, an entity read
early is saved late, and `save()` of TypeORM updates the columns in which that
entity differs from a row it reads again. On top of it come servers that die, a
Redis lock that expires, events of Stripe that arrive late, twice and out of
order, and answers of Stripe that are lost. In the client it is the same the
other way round: an answer is applied to whatever the page shows when it arrives,
which may be another filter, another row, another user; errors are swallowed; and
a call that failed may have been served.

What makes each component correct:

- **Bookings**: a slot is never sold beyond its capacity; its `booked` column is
  the number of seats of its live bookings; what a client is told is true; a
  booking that was cancelled or completed stays so; nobody waits for ever on a
  lock; a refund is announced as the policy says.
- **Calendar**: the guide's capacity is not overwritten by a booking.
- **Payments**: money in escrow has been charged; it is released once or
  refunded once, never both; the status follows `PAYMENT_STATE_TRANSITIONS` and
  every status is in the transaction log; money in escrow is eventually settled.
- **Accounts**: five failures lock and nothing less; the last password opens the
  account; a reset token works once; a deleted account keeps nothing personal; a
  guide's verification agrees in three tables.
- **Experiences and reviews**: a booked listing is not deleted; at most ten images;
  rating and count are those of the published reviews; the index ends up with the
  last text; pages of a search hold each experience once.
- **Itineraries**: the entries of an itinerary are those of its last version, at
  its cost and within the budget.
- **Notifications**: the status is what the last attempt did; a delivery ends.
- **Administration**: every update is logged, metrics belong together.
- **Rate limit, database health**: a client gets at most twice its limit and is
  not shut out for ever; an outage is told from a recovery.
- **Web client**: the lists are those of the controls, a confirmed change is shown,
  nothing typed is lost, requests are made in the name of who is shown.

`PROJECT.json` lists the hazards of the code at their lines; the properties below
are written against them.

## 2. Modules

| Module | Models |
|---|---|
| `SeatLedger` | abstract: what the booking service promises about seats, one step per booking, cancellation, completion and publication |
| `Bookings` | `createBooking`, `cancelBooking`, `completeBooking` and `updateAvailability` as handlers over the tables, the row locks and Redis; refines `SeatLedger` |
| `RefundPolicy` | what a cancellation promises to pay back, in `bookings.service.ts` (hours) and `payments.service.ts` (days) |
| `Payments` | all operations of the payment service, the webhook, the hourly release, the administrator's refund, and Stripe as the environment |
| `Marketplace` | `Bookings` and `Payments` composed: one booking, its payment, its cancellation, the hourly release |
| `Accounts` | the table of users and all who write it: `auth.service.ts`, suspension and verification in `admin.service.ts` |
| `Catalogue` | one listing, its images, slots, reviews, rating and index entry: `experiences.service.ts`, `reviews.service.ts`, approval and moderation in `admin.service.ts` |
| `Search`, `Recommendations` | pages of a search; embeddings, index and similar experiences |
| `Itineraries` | one itinerary, generated and modified: `trip-planner.service.ts` |
| `Notifications` | the notification service, as the booking service calls it |
| `AuditTrail`, `Metrics` | the audit log and the metrics of the administration |
| `RateLimit`, `DatabaseHealth` | the guard for one client; the calls that watch the database |
| `Session` | tokens, auth store, interceptors (`lib/api.ts`), sign-in and registration pages |
| `Storefront`, `ListingPage`, `Hearts`, `Checkout`, `Planner` | search page; page of one experience (reviews, calendar); hearts of both; booking form; trip planner page |
| `TravelerDesk`, `ReviewDesk`, `GuideDesk`, `AdminDesk` | the three dashboards, and writing a review |
| `Bell`, `Preferences` | the list of notifications, and the page of preferences |
| `MCBookings`, `MCPayments`, `MCCatalogue`, `MCParts` | the instances for TLC |
| `SeatLedgerProofs`, `BookingsProofs`, `PaymentsProofs`, `AccountsProofs`, `CatalogueProofs`, `ItinerariesProofs`, `PartsProofs`, `NumbersProofs` | the theorems |

Modules that share no state are checked in one instance: `MCCatalogue` extends
`Catalogue` and has an instance of `Itineraries` beside it, `MCParts` has the
client's pages and the services that stand by themselves. A variable `part`, chosen
in `Init`, says which of them a behaviour follows; their properties are conjoined
under one name per question (section 3). `MCParts` lends its twenty parts one set of
variables, since only one of them is ever in use. A part can be run alone by leaving
its disjunct of `Init`. Both are instances of what the theorems are about, so what
grows with the system (rows, users, requests that overlap, days, reaches of a
notification, texts) is a constant there, given its value in the configuration.

### Bookings

A handler is a process with a program counter; every await that another handler
can overtake is a step. What a transaction writes is seen by others only with
its commit, so the writes of a transaction and its commit are one action, and
the row locks it holds until then are the variables `slotLock` (the
`pessimistic_write` lock of `createBooking`) and `rowLock` (the booking row
`cancelBooking` has updated). `lock` and `idem` are the Redis keys. The pair
`CancelDiffBooking`/`CancelUpdateBooking`, and likewise for the slot and for
`completeBooking`, is one `save()`: the SELECT that decides which columns differ
(`dirty`), then the UPDATE of just those. `CreateFail` is an exception at any
await of the try block (no free reference number, a lost connection), `Die` the
end of the server, also for handlers with no finally block. `req` and `target`
are what the clients ask for; they are chosen in `Init` and never change, so a run
covers all combinations. A booking is named by the request that inserts it. The
listings and the notifications are left out: they change no state the properties
speak of. A slot that does not exist yet is a row of status `absent`.

### Payments and Marketplace

No handler locks anything, so the model is one table of rows with the three
columns that matter (`status`, whether `gatewayTransactionId` is set, whether
`escrowedAt` is set), the transaction log as a count of entries per payment and
status, and Stripe (`intent`, `refunds`, `events`). `Save` stands for `await
paymentRepo.save(entity)`: it puts the entity in `mem` and the handler into
`SaveSelect` and `SaveUpdate`, after which it goes on to `then`. `Throw` is a
database call that fails (the catch blocks of `processPayment` and
`confirmPayment` run), `LostProcess`, `LostConfirm` and `LostRefund` are calls
that Stripe has carried out and whose answer is lost, `Die` is the end of the
server. An event stays in `events` once raised: it can be delivered late, again
and in any order. The webhook finds a row only once its `gatewayTransactionId`
has been saved.

Abstractions: the 24 hours of the release are "`escrowedAt` is set", so the job
may come at any time afterwards; a job that lists several payments is a job per
payment, since each `releaseFunds` reads its payment anew; an amount is a number
of units of the charge, which is all that partial refunds need; currencies, cards
and the layout of the receipt are left out; the signature of the webhook is taken
as checked.

`Marketplace` instantiates both services over one set of variables and links them
as the client does: a payment is made for a booking whose creation was answered.
The code has no other link, for `booking.paymentId` is never set.

### Accounts, Catalogue, Itineraries

A worker is a request in progress that takes any request, runs its awaited steps
and is free for the next, so that histories of any length are covered: a deleted
account, a lockout and a verification can follow each other in every order.
`width`, `scope` and `planners`, chosen in `Init`, say how many requests may
overlap. Where the code keeps a property only one request at a time, the property
says `OneByOne`; what overlapping requests break is in section 4. As in the
modules above, `save()` is a SELECT and an UPDATE of the columns that differ; in
`Catalogue` it is also the cascade of the entity's relations: rows that were
added since the entity was read are taken for removed ones and the save fails on
the NOT NULL column. History variables (`chosen`, `guesses`, `streak`, `redeemed`,
`suspended`) record what a client knows and the tables do not. A user may hold
several reset tokens (`token`), as the map of the service does. `rated` is the set
of reviews that the stored average and count were computed from, which is what the
two numbers tell; passwords and texts are model values; prices are whole cents.

### The other services

`Notifications` follows the notifications of one booking through filter, channels,
retries and saves, with a restart that loses timers and preferences. `RateLimit`
has one client and a clock; its requests come in any number at any time.
`DatabaseHealth` lets checks, chains of retries and queries overlap while the
database goes and comes; a chain that waits sleeps for an arbitrary time.
`Search` is somebody who reads page after page, each of three queries, while the
table changes; rows that are equal in the column of the order come by their primary
key, which TypeORM adds to the order of a joined query with `skip` and `take`.
`Recommendations` keeps the cache, the index and its tasks apart, with texts that
share a cache key; the look into the cache and the call that follows are two steps.
`AuditTrail` and `Metrics` interleave administrators' requests statement by
statement. Others write the audited columns too and leave no entry (`Others`: a login
and a lockout set `users.locked`, the guide sets `experiences.status`); the users
that are counted are guides, travellers and administrators. `RefundPolicy` lets the hours pass towards the day of a
booking and has it cancelled at any of them.

### The web client

A page is its component state and the requests it has under way. The service
behind it is a table that accepts a call, refuses it, or does it and loses the
answer; and a call that the client gives up (`timeout: 10000` in `lib/api.ts`) may
still be carried out later (`GiveUp`, `ServeLate` of the dashboards, `StoreLate` of
`Preferences`, the late answers of `Planner`). What was changed unseen in one of
these ways is in `doubt` (or `unseen`) until it is read again, for no page can know
of it. The answer of a read tells of when it was asked or of when it arrives,
or an error. Effects that fetch when a control changes are part of the action
that changes the control, as React runs them with the render. A user who does
something before the answers are in is counted in `hurries`: several properties
hold only for who waits (`hurries = 0`), and say so, since the code orders
nothing. Layout, texts and form validation are left out, except where a button
is disabled.

The pages are modelled against what they expect of the service, where the two
disagree too (section 4): a model of the refusals alone would say nothing of the
page. The calendar of `ListingPage` compares midnights of two clocks, so the user's
distance from UTC is part of its state. In `GuideDesk` the tabs that ask for nothing
followed are one.

## 3. Runs

| Run | Question and bound |
|---|---|
| `Bookings_create` | Three `createBooking` requests of one or two participants, with or without one shared key, on a slot of capacity 2 that the guide may raise to 3: counting, overselling, lost edits, truth of the answers, refinement of the ledger. Three requests are needed for two that race and one that finds the slot full. |
| `Bookings_serial` | Two creations, two cancellations (of the same or of two bookings), a completion and an edit that lowers the capacity, one handler at a time (`MaxInFlight = 1`), each of which may fail or die half-way: ledger, sold-out mark, final statuses. |
| `Bookings_live` | Two creations and two cancellations for the last seat, fully interleaved: types; while the calendar is not edited, the count stays within the capacity whatever the saves mix, and a slot is oversold by at most one capacity for each cancellation or completion that has ended; under fairness all handlers end, and the Redis lock of a dead request is freed. |
| `Bookings_overbooked` (violation) | Creations and a cancellation: a slot is oversold. |
| `Payments_serial` | Every operation of the service, one at a time, database up: state machine, log, money moves once. Two refunds and two confirmations make the second attempts. |
| `Payments_money` | A payment, a confirmation, a refund, a receipt and a webhook, two at a time, with failures everywhere: captured, held and released money was charged; refunded money was refunded. |
| `Payments_live` | Manual escrow, release and refund, the administrator and the hourly job, fully interleaved: escrow is settled. |
| `Payments_release_refund` (violation) | The same money is released and refunded. |
| `Marketplace_cancel` (violation) | A booking that was paid is cancelled, and nothing but a request of its own refunds it. |
| `Accounts` | One account, every operation one at a time; registrations, logins and suspensions also two at a time. |
| `Catalogue` | One listing with two stays, three images (limit two), a slot and two texts; one itinerary over four experiences; one request at a time and two, by the groups of operations that meet (`MCScopes`). |
| `Parts` | The twenty parts of `MCParts`, one per behaviour. |

The properties of `Parts`, and the modules each speaks of:

| Property | Says |
|---|---|
| `ListsFitControls` | rows, results and recommendations are those of the filter, tab, search, page or experience that is chosen (`TravelerDesk`, `GuideDesk`, `Storefront`, `Recommendations`) |
| `ChangesAreShown` | what was confirmed is what the service keeps (`TravelerDesk`, `GuideDesk`, `AdminDesk`, `Bell`, `Preferences`, `Planner`, `Checkout`, `Hearts`) |
| `NothingIsLost` | input, pending requests and comments do not disappear or go astray (`GuideDesk`, `AdminDesk`, `ReviewDesk`) |
| `NumbersAddUp` | pages, buttons, limits, attempts, counts and refunds agree with what they count (`ListingPage`, `Storefront`, `Search`, `RateLimit`, `DatabaseHealth`, `Metrics`, `RefundPolicy`) |
| `SessionIsHeld` | requests are made for who is shown, and signing out is final (`Session`) |
| `RecordsAreTrue` | status, queue, index and audit log tell what happened (`Notifications`, `Recommendations`, `AuditTrail`) |
| `EverythingSettles` | deliveries, sign-ins and watchers of the database end (`Notifications`, `Session`, `DatabaseHealth`) |

### Bounds

One slot, one key, one payment, one account, one listing and one itinerary are
enough for the properties of these runs: they are independent of each other (a
handler touches one). What a second one could add for bookings and payments, the
proofs cover. Two participants distinguish "one seat per booking" from "one seat
per participant"; capacity 2 makes room for one of two parties of two. `Whole =
2` lets a charge be refunded in two parts. `MaxInFlight` bounds the handlers at
work at once; 9 means no bound in that run. The runs end when every client has
been served or a bound is reached, hence `CHECK_DEADLOCK FALSE`; that no handler
waits for ever is `EveryHandlerEnds` and `EverythingSettles`.

`MaxFailedAttempts` is 2 instead of 5 (one attempt that does not lock and one
that does), `MaxImages` 2 instead of 10, `MaxAttempts` 2 instead of 3,
`PerPage` and `PageSize` 1 and 2: small numbers that keep a value below, at and
above each limit. The constants of `RateLimit` keep their order (back-off below,
then equal to the window). `RefundPolicy` has the real hours.

Bounds that only cut behaviours short: `MaxCount` (failed attempts counted),
`MaxTasks` (index tasks in progress), `MaxRestarts`, `MaxHurries` (how often a
user overtakes an answer), `MaxMarks`, `MaxReviews`, `MaxPages`, `MaxItineraries`,
`MaxVersions`, `MaxPeople`, `MaxPayments`, `MaxChanges`, `MaxTime`, `MaxBurst`,
`MaxCalls`, `MaxFlips`, `MaxUpdates`, `MaxUsers`, `MinLeft`, `MaxLeft`, `MaxLate` (changes
given up that are still on their way). Each is a guard of the action it bounds. One hurry is enough, for the properties exempt who
hurries; it is there so that the exempted behaviours exist and end in states the
other properties still judge. For the same reason a guide of the run who overtakes
answers more than `LateHurries` times (never, in the run) has no call given up;
one who waits may. `Zones` has a clock behind UTC, at UTC and ahead of it. Two reset tokens (`Tokens`) are enough for one
that is used while another is good.

Symmetry: creation requests, and refund requests when there is one payment, are
interchangeable (`Init` ranges over all requests and targets), and so are workers
and planners; the runs with a liveness property use none.

### Fairness

`FairSpec` of `Bookings`: a handler that is at work goes on (or dies), because
the Node.js event loop runs every settled promise and PostgreSQL grants a free
row lock; Redis expires a key that was set with `PX`. `FairSpec` of `Payments`: a
handler at work goes on, and the hourly job keeps running (`@Cron`). Nothing is
assumed of clients, customers, administrators, or of the delivery of events.
`Payments_live` has no failures: a database that fails at every attempt can
delay a release for ever, and the code makes no promise then. `Marketplace`
also lets a cancellation and a refund go on and a webhook deliver; nobody has to
send a request for a refund. `MCParts`: a delivery goes on unless the server stops, a
call that watches the database goes on, and every request of the client is
answered, refused or times out (`timeout: 10000` in `lib/api.ts`; the refresh has
no timeout of its own and relies on the browser's).

## 4. What the runs show

### Violations

- *Overselling* (`cancelBooking`, bookings.service.ts:246): the slot is read with
  no lock and saved whole, so a creation that commits in between is forgotten
  and its seats are sold again. `createBooking` alone is safe, which is proved.
- *Released and refunded* (payments.service.ts:268): the status is not checked
  again after the call to Stripe.
- *Cancelled, not refunded* (bookings.service.ts:238): `cancelBooking` computes
  and announces a refund and starts none; the hourly job pays the guide.
  `docs/VALIDATION.md:126` expects a Stripe refund.

### Observations

The models show more, which is not kept as runs. Each follows from leaving out the
condition its property names.

*Bookings and payments.* Two requests with one idempotency key both book: it is
looked up before the lock and stored after the commit. With `MaxInFlight` above 1,
`SoldOutMeansFull` fails (a cancellation races the creation that fills the slot and
leaves it sold out), `FinalStatusStays` fails (a cancellation that checked the
status before `completeBooking` saved overwrites it), `CapacityIsTheGuides` fails
once cancellations are added, and the Redis lock can be deleted by a request that
does not hold it (GET and DEL are two commands). `MoneyMovesOnce` also fails with
two refunds in parallel, and with a receipt (`generateReceipt` saves the entity it
read before the release). A late `payment_intent.succeeded` takes `escrowed` back to
`captured`, where the hourly job does not look (webhook.controller.ts:92). A second
confirmation that Stripe refuses is saved as `failed` over the charge
(payments.service.ts:199). With `Admins` in `Payments_serial`, `StatusIsLogged` fails
(`issueRefund` writes no transaction log). With "unsettled" among the `Outcomes`,
`EscrowHoldsMoney` fails: only a redirect URL is looked at. Two `processPayment`
requests for one booking charge twice. The refund deadline is counted to midnight
UTC before the experience (bookings.service.ts:353), so a start at nine in the
morning moves it nine hours forward against requirements.md:330.

*Accounts.* With two requests at once: a login that read the user early can undo a
password change, a deletion or a verification with its save, and failed attempts in
parallel are lost; two `changePassword` share a token; approval and rejection can
both be applied and leave a rejected guide verified. One at a time: a successful
login clears a suspension (`locked = false`, auth.service.ts:125), because login
looks at `lockoutUntil` only (auth.service.ts:96), while VALIDATION.md:159 expects a
suspended user to be kept out; OAuth looks at neither; an unsuspension leaves the
failed attempts; no route leads to `deleteAccount`.

*Catalogue.* The first upload to a listing always ends in an error, for `save()`
unlinks the image inserted beside it. A late `updateExperience` takes back an
approval or brings a deleted listing back; a guide may set the status to active
himself (experiences.service.ts:95). Overlapping reviews miss each other in the
average; a flagged review that is removed still counts. The pages of a search are
queries of their own, so that a change between two of them shifts the rest.

*Itineraries.* A failed `modifyItinerary` leaves an empty list with the old cost;
two at once mix their lists. `saveItinerary` has no caller.

*Recommendations.* The embedding cache goes by the first 24 bytes of the text, so
texts with one beginning share an embedding, and an edit that keeps the title is
indexed as before; two tasks that miss the cache together both call OpenAI. Nothing stores a user's preferences, so personal recommendations
are empty; the page of an experience reads `data.experiences` from an answer that
is an array, and never shows any.

*Notifications.* A retry sends on the channels that had succeeded, too; SENT is saved
over READ; nothing takes anything out of the Redis list; a restart loses timers and
preferences. Callers pass no addresses, so e-mail and push are always skipped. The
keys of the settings page are not those the filter reads.

*Administration, rate limit, database.* An audit entry is lost with a stop between
update and entry; two administrators' entries can come in the other order. A login that
clears a suspension (auth.service.ts:125) and a guide who sets the status of a listing
(experiences.service.ts:95) leave no entry, so the newest one may tell of neither. The
users of the metrics exceed their guides and travellers by the administrators,
who are told nowhere. They are no snapshot, and with a default end of now their cache key is new each
time. `RateLimitGuard` is applied to no route, and its violations are never
forgotten. The counter of `DatabaseHealthService` stays at its limit until some
check ends well; nothing calls `retryConnection` or `executeWithRetry`.

*Session.* `useAuth`, which restores the user, is mounted nowhere, so a reload shows
nobody; a refresh that overlaps signing in or out stores the earlier user's tokens;
a wrong password is sent twice when an old refresh token is there.

*Dashboards.* A late answer shows the rows of the filter before; a failed reload
keeps them; a late list brings a cancelled booking back; of two hearts pressed
together one is lost; a comment typed for one booking is in the modal of the next; an
answer closes whichever form is open by then; a refused decision takes its row away.
The guide's `list({guideId})` and the form data of a new listing are refused (400),
the administrator's tab of experiences lists verification requests and that of users
audit logs, "Remove" flags a review again, and the metrics tab formats an object.
The wishlist and profile routes do not exist.

*Search, experience, booking, planner.* The filters by price, duration and category
are refused; a refusal shows as "nothing found". Hearts flip though the call failed.
"Show more" repeats a review after a new one and skips one after a removal. West of UTC
the calendar shows today as past ([id]/page.tsx:106). The form
offers slots that are past. `createBooking` refuses the form's `HH:MM:SS` and
`processPayment` misses `travelerId` and `guideId`, so today no booking is made from
the web; any 2xx counts as paid, `{success: false}` too; going back and continuing books
again; a retry after a lost answer pays twice. Two modifications by Enter arrive in
either order. Preferences that could not be loaded are shown as defaults, and saving
overwrites the stored ones.

## 5. Proofs

| Theorem | For every value of the constants |
|---|---|
| `SeatLedgerProofs!LedgerCounts` | in the ledger, the count of a slot is the number of seats of its live bookings |
| `BookingsProofs!TypeCorrect` | types |
| `BookingsProofs!RowLockProtects` | nothing comes between what a creation reads under its row lock and what it writes |
| `BookingsProofs!CreationsImplementLedger` | without cancellations, each step of the service is a step of the ledger or leaves it alone |
| `BookingsProofs!CreationsAccountSeats` | hence the count is exact, by refinement from `LedgerCounts` |
| `BookingsProofs!CreationsNeverOverbook` | without cancellations and edits, no slot is oversold |
| `BookingsProofs!OversellingStaysBounded` | with cancellations and completions, fully interleaved and without edits, the stored count still never exceeds the capacity, and each handler that has ended explains at most one capacity of oversold seats |
| `BookingsProofs!AnswersStayTrue` | replies and cached answers agree with the table |
| `BookingsProofs!HandlersImplementLedger`, `HandlersAccountSeats`, `HandlersNeverOverbook` | one handler at a time, the same three with cancellations |
| `BookingsProofs!SoldOutIsFull`, `FinalStatusIsFinal`, `OnlyTheGuideSetsCapacity` | one handler at a time, or without the one that each needs to fail, the sold-out mark, final statuses and the guide's capacity hold |
| `PaymentsProofs!TypeCorrect` | types |
| `PaymentsProofs!RefundsAreReal` | without the administrator's refund, what is called refunded was refunded by Stripe |
| `PaymentsProofs!EscrowIsCharged` | money called captured, held or released was charged |
| `PaymentsProofs!MoneyMovesOnceSerially`, `StatusIsLoggedSerially`, `StatusFollowsMachine` | one handler at a time: money moves once, every status is logged, and follows the machine |
| `AccountsProofs!TypeCorrect`, `NobodyLockedOutUnearned` | types; no row and no entity in memory counts a failure that was not one |
| `AccountsProofs!LockoutsAreEarned` | a lockout takes the wrong passwords, whatever overlaps; one request at a time nothing less locks, and nothing more is needed |
| `AccountsProofs!LatestPasswordCounts`, `DeletionIsThorough`, `DecisionsAgree`, `ResetTokenIsGoodOnce` | one request at a time: passwords, deletions, verifications, tokens |
| `CatalogueProofs!CatalogueTyped`, `BookedListingsStay`, `ImagesStayNearLimit` | types; booked listings stay; overlapping uploads exceed the limit by no more than their number: whatever overlaps |
| `CatalogueProofs!PublishedReviewsCount`, `RatingFollowsReviews` | one request at a time, the rating is that of the published reviews |
| `ItinerariesProofs!TypeCorrect`, `BudgetsAreKept` | types; budgets and lengths of lists: whatever overlaps |
| `ItinerariesProofs!ListsFitParameters`, `CostsFitLists` | one modification at a time, an itinerary is of one piece |
| `CatalogueProofs!ItinerariesAreWhole`, `PlansKeepBudgets` | the same of the instance that `MCCatalogue` checks |
| `PartsProofs!SessionsAreHeld`, `NothingGetsLost`, `RecordsStayTrue`, `ChangesAppear`, `ListsAreRight` | the properties of `MCParts` with nearly the same names |
| `NumbersProofs!NumbersAgree` | `NumbersAddUp`, the remaining one |
| `NumbersProofs!PartsTyped` | the types of all of them |

The assumptions on the constants are the `ASSUME`s of the modules: the kinds of
handler are apart, the numbers are natural, limits are positive. A theorem that needs
more says so in its own ASSUME. In `Bookings` and `Payments` these are `Cancellers =
{}` and `Offers = {}` where the code is only right without them
(`Bookings_overbooked` shows why), `MaxInFlight = 1` for what holds one at a time,
`Admins = {}` for `RefundsAreReal`, `Outcomes` without "unsettled" for
`EscrowIsCharged`, and `OneAtATime` for the last three of payments: no overlap, no
failure, no administrator and no webhook, as `Payments_serial` has it. In the
instances: there are finitely many experiences (`TripAssumption`), overlapping
calls and items, `None` is not a text, a name or a record, and for the reviews `PerPage`
is positive and days are integers. Nothing that `MCParts` is checked with is fixed in the theorems
about it: the filters, page sizes, ranks, limits, windows, retries, distances,
expiry times, hours and bounds are constants, of which its `ASSUME`s say that they are
numbers, that limits are positive and that no back-off outlasts the window (the guard
takes an hour for both). `PartsTyped` adds that a page of reviews has room, that the days include
the first, and that `None` is no word, meaning or record; `MCParts.cfg` meets all of these.

*Creations.* Not inductive by itself: that a commit adds to the count which the
row has at that moment. `CreationInv` adds that a handler between its
`SELECT ... FOR UPDATE` and its commit holds the row lock, that its copy of the
slot is then the row, that the copy had room, and that a handler inserts its own
booking once. With Redis or without, nothing else is needed: the proof uses
the row lock only. (The runs have Redis; `HasRedis = FALSE` is covered by the theorem.)

*Cancellations, one at a time.* `SerialInv` of `BookingsProofs` says that at most one
handler is off its first label and what the cancellation holds: its entity agrees with
the row but for the columns it is about to write. The refinement maps the two saves
of a cancellation to one step of the ledger, the commit. The three action properties and
`SoldOutIsFull` need only that cancellations overlap nothing of one kind, hence the
disjunctions in their assumptions.

*Cancellations and completions, overlapping.* The count itself stays within the capacity, as
every entity a handler holds does (`CapacityInv`). `OversoldInv` bounds the seats sold by the
count rather than by the capacity: what a stale save takes off the count is at most one
capacity, and it is the last step of its handler, which pays for it by ending. That a booking
fits its slot bounds what a completion brings back.

*Answers.* The invariant follows the booking through the handler: it exists
from the commit on, so whatever is cached or answered later refers to it.

*Payments.* `save()` of a stale entity can bring any earlier status back, so an
invariant about the row alone cannot be inductive. `RefundInv` and `MoneyInv`
state the fact for the row, for every entity some handler holds in memory, and
for every event that can still be delivered; `MoneyInv` adds what a handler
knows by its place in the code (`Capturing`: it got past Stripe's answer) and that a
payment not yet inserted has nothing. All parts speak of facts about Stripe
that do not go back: a charge stays a charge, a refund stays a refund. One at a time,
`SerialInv` says what the entity of the handler at work differs in, place by place.

*Accounts.* What a row counts can be written by any request that read it earlier.
`GuessInv` therefore says of rows and entities alike that what they count is at
most the wrong passwords there were, with the one that is just being answered. The
other theorems follow from `SerialInv`: alone, a request's entity is the row, but for
what it has changed and not saved.

*Catalogue and itineraries.* `ImageInv` counts the uploads that have passed the
check and not inserted as images already; with the other requests at work they stay
within `width`. `RatedInv` says where an upload, an edit or a moderation holds the
rating of the table, and that between a review's insert and the save of the average the
published reviews are among those rated. `TripInv` says what a request has
computed fits its parameters, whatever the table says by then, and its `SerialInv` that
the list is cleared before it is written. The value of the sum in a cost is never used.

*The parts.* One invariant per part; the theorem joins them. `SessionInv`: a token
that is being exchanged is that of the user shown, until signing in or out overlaps
the exchange. `AuditInv`: where no two updates of a row overlapped, the newest entry
tells the row once every update has its entry, unless somebody else wrote it since. `IndexInv`: an embedding is that of
some text with the same key. `NotesInv`: the attempts under way are those in the queue.
For the pages (`TravelerInv`, `GuideListsInv`, `DecidedInv`, `BellInv`, `PreferencesInv`,
`PlannerInv`, `CheckoutInv`, `HeartsInv`, `SearchInv`, and `GuideInv`, `AdminInv`,
`ReviewInv` for what is not lost) the answers under way are part of it: who waits has
one answer under way at most, and it carries what the page will need; what a lost answer
or a call given up has changed is in doubt. `SearchInv` also
needs that whatever has a button is one of the pages found. `NearInv` takes what is
found and what is shown already as one list, no longer than `limit`, and as long if
anything is left out, which is no nearer than what is in it.
Writing `AdminInv` down showed that `PendingIsListed` fails for an administrator who
leaves the list and comes back before an answer is in, twice: of two answers the older
may arrive last. The property now says so (`hurries <= 1`); the run, with one hurry, was
too small to see it. The types (`PartsTyped`) need of most pages no more than these invariants; the
lemmas are at the end of `PartsProofs` and `NumbersProofs`, one per part. They say what an
answer under way may carry (`TravelerTypes`, `GuideTypes`, `AdminTypes`, `PlannerTypes`).

*The numbers* (`NumbersProofs`). `LimitInv` counts requests as sets: those that passed
in the record's window, and those before it, are each within the limit, and all of them
within the length of one window of its start; hence twice the limit. `DatabaseInv`: attempts that
failed during an outage and are not on the counter were forgiven by a late answer, up
to `maxRetries` by each.
`MetricsInv`: a request that computes alone counts the users of one moment, and the
administrators never change. `PagesInv`:
a page is a slice of the experiences by how many come before them, so slices are
apart and cover, whatever the size of a page. The buttons are followed along the loop that spreads them. `ListingInv`:
the numbers of published reviews fall; what is shown is the first pages of them, or, after
removals, is all newer than what is still to come.

Only model-checked: the liveness properties,
which are out of the prover's reach as fairness and `ENABLED` are; and what recursion
computes, for induction over data is out of its reach too: that a cost is the sum of
prices (`FoldSet`), that `SelectSeq` filters. Seats are counted as the cardinality of a
set, which needs neither.

To repeat: `tlc -config Bookings_create.cfg MCBookings`, and so on with each
configuration (`Accounts.cfg` with module `Accounts`, `Marketplace_cancel.cfg` with
`Marketplace`); `tlapm BookingsProofs.tla`, and so on with each proof module.

## 6. Not modelled, and the plan

Left out for good, each with its reason in `PROJECT.json`: fraud detection (counts
over lists in memory that nothing reads), configuration, caches, currency rates and
monitoring, PDF layout, the home page and the forms of verification and reset (one
request each), the mobile client (its sign-in reads a field the backend does not
send, so that nothing behind it can be reached), the language model, and third
parties beyond what their callers see of them. Of the modelled pages: the profile
forms, downloads and earnings, which only read or save what one user typed.

What is left to do, most important first:

1. Exactness of what is now bounded: how far two handlers at a time can part the count
   of a slot from its seats.
2. The idempotency key as a property: that at most one booking is made with a key fails
   (section 4), and how many are made before the first answer is stored is not stated.
3. The liveness properties beyond their small instances.
