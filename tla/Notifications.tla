--------------------------- MODULE Notifications ---------------------------
(***************************************************************************)
(* The notification service, notifications.service.ts, as the booking      *)
(* service calls it.                                                       *)
(*                                                                         *)
(* sendBookingConfirmation and sendBookingCancellation send one            *)
(* notification after the other and swallow errors.  Each notification is  *)
(* a row, delivered up to three times on every channel its user allows;    *)
(* retries wait in a timer of the server, and a stop of the server loses   *)
(* timers and preferences.                                                 *)
(***************************************************************************)
EXTENDS Naturals, FiniteSets

CONSTANTS
  Last,          \* notifications 1..Last are sent, in this order
  Channels,      \* "email", "push", "in_app", or some of them
  Reaches,       \* the sets of channels a user may have an address for
  MaxAttempts,   \* MAX_RETRY_ATTEMPTS
  MaxRestarts    \* bound on the stops of the server

Ids == 1..Last

VARIABLES
  row,        \* table notifications: status, and whether readAt is set
  pc,         \* where the delivery of each notification is
  todo,       \* its allowed channels, and those not yet dispatched this time
  attempt,    \* the attempt it is at
  bad,        \* a channel failed in this attempt
  mem,        \* the entity the delivery holds
  queue,      \* the attempts in notifications:queue; nothing takes them out
  prefs,      \* preferencesStore: the channels enabled
  reach,      \* the channels its data has an address for: userEmail, deviceTokens
  restarts,   \* stops of the server so far
  accepted,   \* history: channels that took the notification in this attempt
  failures    \* history: failed attempts

service == <<row, pc, todo, attempt, bad, mem, queue, accepted, failures>>
elsewhere == <<prefs, reach, restarts>>
vars == <<service, elsewhere>>

Row(s, r) == [status |-> s, readAt |-> r]
Statuses == {"absent", "pending", "sent", "failed", "read"}
Phases   == {"idle", "filter", "dispatch", "select", "update", "timer", "done", "lost"}

Goto(n, label) == pc' = [pc EXCEPT ![n] = label]

-----------------------------------------------------------------------------
(* Sending and delivering.                                                 *)

\* The sends of one booking follow each other; retries are not waited for.
Sent(n) == pc[n] \in {"timer", "done", "lost"} \/ attempt[n] > 1

\* save() of the created entity, whose readAt is undefined.
Send(n) ==
  /\ pc[n] = "idle"
  /\ \A k \in 1..(n - 1) : Sent(k)
  /\ row' = [row EXCEPT ![n] = Row("pending", "no")]
  /\ mem' = [mem EXCEPT ![n] = Row("pending", "undefined")]
  /\ Goto(n, "filter")
  /\ UNCHANGED <<todo, attempt, bad, queue, accepted, failures, elsewhere>>

Enqueue(n, a) == queue' = queue \cup {<<n, a>>}

\* filterChannelsByPreferences; with nothing left the row is SENT at once.
Filter(n) ==
  LET allowed == Channels \cap prefs IN
  /\ pc[n] = "filter"
  /\ todo' = [todo EXCEPT ![n] = [allowed |-> allowed, left |-> allowed]]
  /\ IF allowed = {}
     THEN /\ mem' = [mem EXCEPT ![n].status = "sent"]
          /\ Goto(n, "select")
          /\ UNCHANGED <<attempt, queue>>
     ELSE /\ attempt' = [attempt EXCEPT ![n] = 1]
          /\ Enqueue(n, 1)
          /\ Goto(n, "dispatch")
          /\ UNCHANGED mem
  /\ UNCHANGED <<row, bad, accepted, failures, elsewhere>>

\* A channel without an address, and in_app, always succeed.
Accepts(n, c) == IF c = "in_app" \/ c \notin reach THEN {TRUE} ELSE BOOLEAN

\* Mutant: the last channel decides.
WorseLast(was, ok) == ~ok

\* success of processQueuedNotification: one failed channel fails the attempt.
Worse(was, ok) == was \/ ~ok

Dispatch(n) ==
  /\ pc[n] = "dispatch"
  /\ \E c \in todo[n].left : \E ok \in Accepts(n, c) :
       /\ todo' = [todo EXCEPT ![n].left = @ \ {c}]
       /\ bad' = [bad EXCEPT ![n] = Worse(@, ok)]
       /\ accepted' = [accepted EXCEPT ![n] = IF ok THEN @ \cup {c} ELSE @]
  /\ UNCHANGED <<row, pc, attempt, mem, queue, failures, elsewhere>>

\* The copy for the next attempt, queued and put into a timer.
Retry(n) == Enqueue(n, attempt[n] + 1) /\ Goto(n, "timer")

\* Mutant: one attempt too many.
AgainOnceMore(n) == attempt[n] <= MaxAttempts

Again(n) == attempt[n] < MaxAttempts

\* All channels done: SENT, another attempt, or FAILED.
Judge(n) ==
  /\ pc[n] = "dispatch" /\ todo[n].left = {}
  /\ failures' = [failures EXCEPT ![n] = IF bad[n] THEN @ + 1 ELSE @]
  /\ \/ /\ ~bad[n]
        /\ mem' = [mem EXCEPT ![n].status = "sent"]
        /\ Goto(n, "select") /\ UNCHANGED queue
     \/ bad[n] /\ Again(n) /\ Retry(n) /\ UNCHANGED mem
     \/ /\ bad[n] /\ ~Again(n)
        /\ mem' = [mem EXCEPT ![n].status = "failed"]
        /\ Goto(n, "select") /\ UNCHANGED queue
  /\ UNCHANGED <<row, todo, attempt, bad, accepted, elsewhere>>

\* The timer fires: the row is read again, the channels are all tried again.
Fire(n) ==
  /\ pc[n] = "timer"
  /\ mem' = [mem EXCEPT ![n] = row[n]]
  /\ attempt' = [attempt EXCEPT ![n] = @ + 1]
  /\ todo' = [todo EXCEPT ![n].left = todo[n].allowed]
  /\ bad' = [bad EXCEPT ![n] = FALSE]
  /\ accepted' = [accepted EXCEPT ![n] = {}]
  /\ Goto(n, "dispatch")
  /\ UNCHANGED <<row, queue, failures, elsewhere>>

\* save(): the SELECT that finds the columns that differ, and their UPDATE; a
\* reader may come between, and what it wrote is then written over.
Select(n) ==
  /\ pc[n] = "select"
  /\ mem' = [mem EXCEPT ![n] =
       [c \in {"status", "readAt"} |-> IF @[c] = row[n][c] THEN "undefined" ELSE @[c]]]
  /\ Goto(n, "update")
  /\ UNCHANGED <<row, todo, attempt, bad, queue, accepted, failures, elsewhere>>

Update(n) ==
  /\ pc[n] = "update"
  /\ row' = [row EXCEPT ![n] =
       [c \in {"status", "readAt"} |-> IF mem[n][c] = "undefined" THEN @[c] ELSE mem[n][c]]]
  /\ mem' = [mem EXCEPT ![n] = Row("undefined", "undefined")]
  /\ Goto(n, "done")
  /\ UNCHANGED <<todo, attempt, bad, queue, accepted, failures, elsewhere>>

\* The database or Redis fails: the error is caught and logged, nothing more.
Throw(n) ==
  /\ pc[n] \in {"filter", "dispatch", "select", "update", "timer"}
  /\ Goto(n, "lost")
  /\ mem' = [mem EXCEPT ![n] = Row("undefined", "undefined")]
  /\ UNCHANGED <<row, todo, attempt, bad, queue, accepted, failures, elsewhere>>

\* The server stops: its deliveries, its timers and the preferences are gone.
Restart ==
  /\ restarts < MaxRestarts
  /\ restarts' = restarts + 1
  /\ pc' = [n \in Ids |-> IF pc[n] \in {"idle", "done"} THEN pc[n] ELSE "lost"]
  /\ prefs' = Channels
  /\ UNCHANGED <<row, todo, attempt, bad, mem, queue, accepted, failures, reach>>

Deliver(n) ==
  Send(n) \/ Filter(n) \/ Dispatch(n) \/ Judge(n) \/ Fire(n) \/ Select(n) \/ Update(n)

-----------------------------------------------------------------------------
(* What the reader's clients ask of the service; modules Bell, Preferences.*)

\* markAsRead; asked again for a notification that is read, it changes nothing.
MarkAsRead(n) ==
  /\ row[n].status \notin {"absent", "read"}
  /\ row' = [row EXCEPT ![n] = Row("read", "yes")]
  /\ UNCHANGED <<pc, todo, attempt, bad, mem, queue, accepted, failures, elsewhere>>

\* updatePreferences, followed while a delivery will still read them.
UpdatePreferences(S) ==
  /\ \E n \in Ids : pc[n] \in {"idle", "filter"}
  /\ prefs' = S
  /\ UNCHANGED <<service, reach, restarts>>

-----------------------------------------------------------------------------
Init ==
  /\ row = [n \in Ids |-> Row("absent", "no")]
  /\ pc = [n \in Ids |-> "idle"]
  /\ todo = [n \in Ids |-> [allowed |-> {}, left |-> {}]]
  /\ attempt = [n \in Ids |-> 0]
  /\ bad = [n \in Ids |-> FALSE]
  /\ mem = [n \in Ids |-> Row("undefined", "undefined")]
  /\ queue = {}
  /\ prefs = Channels
  /\ reach \in Reaches
  /\ restarts = 0
  /\ accepted = [n \in Ids |-> {}]
  /\ failures = [n \in Ids |-> 0]

Next ==
  \/ \E n \in Ids : Deliver(n) \/ Throw(n) \/ MarkAsRead(n)
  \/ Restart
  \/ \E S \in SUBSET Channels : UpdatePreferences(S)

Spec == Init /\ [][Next]_vars

\* Awaited calls return and timers fire: Node.js runs what is ready.
FairSpec == Spec /\ \A n \in Ids : WF_vars(Deliver(n))

-----------------------------------------------------------------------------
(* Properties.                                                             *)

\* Every variable has its type.
TypeOK ==
  /\ row \in [Ids -> [status : Statuses, readAt : {"no", "yes"}]]
  /\ pc \in [Ids -> Phases]
  /\ todo \in [Ids -> [allowed : SUBSET Channels, left : SUBSET Channels]]
  /\ attempt \in [Ids -> 0..MaxAttempts]
  /\ bad \in [Ids -> BOOLEAN]
  /\ mem \in [Ids -> [status : Statuses \cup {"undefined"}, readAt : {"no", "yes", "undefined"}]]
  /\ queue \subseteq Ids \X (1..MaxAttempts)
  /\ prefs \subseteq Channels /\ reach \in Reaches
  /\ restarts \in 0..MaxRestarts
  /\ accepted \in [Ids -> SUBSET Channels] /\ failures \in [Ids -> 0..MaxAttempts]

\* The status tells what the last attempt did: a row is SENT only if one and
\* the same attempt delivered on every channel its user allowed, and FAILED
\* only after three attempts failed.
StatusIsEarned ==
  \A n \in Ids :
    /\ row[n].status = "sent" => todo[n].allowed \subseteq accepted[n]
    /\ row[n].status = "failed" => failures[n] = MaxAttempts

\* With Redis, the queue keeps what a stop of the server would interrupt: the
\* current attempt of every delivery under way is in it.
QueueCoversWork ==
  \A n \in Ids : pc[n] \in {"dispatch", "timer"} =>
    <<n, IF pc[n] = "timer" THEN attempt[n] + 1 ELSE attempt[n]>> \in queue

\* A notification is awaited while it is PENDING, and before that once the one
\* before it is on its way; it settles unless the server stops first.
Awaited(n) == row[n].status = "pending" \/ (n - 1 \in Ids /\ pc[n - 1] # "idle")
Settled(n) ==
  /\ row[n].status # "pending" \/ pc[n] = "lost"
  /\ pc[n] # "idle" \/ restarts > 0
=============================================================================
