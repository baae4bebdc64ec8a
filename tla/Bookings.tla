------------------------------ MODULE Bookings ------------------------------
(***************************************************************************)
(* The booking service: createBooking, cancelBooking and completeBooking   *)
(* of bookings.service.ts, and the guide's updateAvailability, as          *)
(* concurrent request handlers over one PostgreSQL database (READ          *)
(* COMMITTED) and one Redis.                                               *)
(*                                                                         *)
(* A handler is a process; each await that another handler can overtake is *)
(* a step of its own.  What a transaction writes becomes visible with its  *)
(* commit, so the writes and the commit are one step; the row locks it     *)
(* holds until then are variables.                                         *)
(*                                                                         *)
(* A booking is named after the request that created it, so "booking[c]"   *)
(* is the status of the row inserted by request c.                         *)
(***************************************************************************)
EXTENDS Integers, FiniteSets

CONSTANTS
  Slots,        \* availability slots (experience, date, start time)
  Creators,     \* createBooking requests
  Cancellers,   \* cancelBooking requests
  Completers,   \* completeBooking requests
  Keys,         \* idempotency keys the clients use
  NoKey,        \* a request without an idempotency key
  None,         \* no lock value, no cached answer
  Capacities,   \* capacities a slot may be published with
  Offers,       \* capacities a guide may set later; {}: the calendar is not edited
  MaxParty,     \* bound on the participants of one booking
  MaxInFlight,  \* bound on the handlers running at the same time
  HasRedis      \* FALSE: the optional Redis client was not injected

Procs == Creators \cup Cancellers \cup Completers

ASSUME DistinctAssumption ==
  /\ Creators \cap (Cancellers \cup Completers) = {}
  /\ Cancellers \cap Completers = {}
  /\ None \notin Procs
  /\ NoKey \notin Keys
ASSUME FiniteAssumption == IsFiniteSet(Creators)
ASSUME NumbersAssumption ==
  /\ MaxParty \in Nat /\ MaxParty > 0
  /\ MaxInFlight \in Nat
  /\ Capacities \subseteq Nat
  /\ Offers \subseteq Nat
  /\ HasRedis \in BOOLEAN

VARIABLES
  slot,      \* table availability_slots
  booking,   \* table bookings: status of the row each create request inserted
  rowLock,   \* which open transaction has updated a bookings row
  slotLock,  \* which open transaction holds a slot row FOR UPDATE
  lock,      \* Redis lock:booking:<slot>: the request whose lockValue is stored
  idem,      \* Redis idempotency:booking:<key>: the booking cached under a key
  pc,        \* where each handler is
  req,       \* what each create request asks for; never changes
  target,    \* the booking each cancel or complete request names; never changes
  mem,       \* the slot entity a handler holds in memory
  dirty,     \* the columns its save() calls found changed
  reply      \* what the client of a create request is told at its end

vars == <<slot, booking, rowLock, slotLock, lock, idem, pc, req, target, mem, dirty, reply>>

-----------------------------------------------------------------------------
(* Rows, statuses and helpers.                                             *)

SlotStatus    == {"absent", "available", "booked"}
BookingStatus == {"none", "confirmed", "cancelled", "completed"}
Columns       == {"status", "capacity", "booked"}   \* of a slot

SlotRow == [status : SlotStatus, capacity : Nat, booked : Nat]
Request == [slot : Slots, party : 1..MaxParty, key : Keys \cup {NoKey}]

AbsentSlot       == [status |-> "absent", capacity |-> 0, booked |-> 0]
FreshSlot(n)     == [status |-> "available", capacity |-> n, booked |-> 0]

\* slot.capacity - slot.booked, as createBooking computes it.
Remaining(row) == row.capacity - row.booked

\* Mutant: one seat per booking, whatever the party.
WithOneSeatTaken(row, p) ==
  [row EXCEPT !.booked = @ + 1, !.status = IF row.booked + 1 >= row.capacity THEN "booked" ELSE @]

\* The row createBooking saves for p more participants.
WithSeatsTaken(row, p) ==
  [status   |-> IF row.booked + p >= row.capacity THEN "booked" ELSE row.status,
   capacity |-> row.capacity,
   booked   |-> row.booked + p]

\* Mutants of the next definition: no Math.max(0, ...), and a slot that stays
\* sold out.
WithSeatsSubtracted(row, p) ==
  [row EXCEPT !.booked = @ - p,
              !.status = IF @ = "booked" /\ row.booked - p < row.capacity
                         THEN "available" ELSE @]
WithSeatsReturnedQuietly(row, p) ==
  [row EXCEPT !.booked = IF @ > p THEN @ - p ELSE 0]

\* Math.max(0, booked - p), and a sold-out slot with room is available again.
WithSeatsReturned(row, p) ==
  LET left == IF row.booked > p THEN row.booked - p ELSE 0
  IN  [status   |-> IF row.status = "booked" /\ left < row.capacity
                    THEN "available" ELSE row.status,
       capacity |-> row.capacity,
       booked   |-> left]

\* save(entity): the columns in which the entity differs from the row that
\* save() reads, and the row after an UPDATE of those columns.
Changed(entity, row) ==
  {col \in Columns : \/ col = "status"   /\ entity.status   # row.status
                     \/ col = "capacity" /\ entity.capacity # row.capacity
                     \/ col = "booked"   /\ entity.booked   # row.booked}
Merge(row, entity, cols) ==
  [status   |-> IF "status"   \in cols THEN entity.status   ELSE row.status,
   capacity |-> IF "capacity" \in cols THEN entity.capacity ELSE row.capacity,
   booked   |-> IF "booked"   \in cols THEN entity.booked   ELSE row.booked]

InFlight == {p \in Procs : pc[p] \notin {"idle", "done", "dead"}}
Admitted == Cardinality(InFlight) < MaxInFlight

\* Row locks after the transaction of p has ended.
ReleasedBy(p, locks) ==
  [r \in DOMAIN locks |-> IF locks[r] = p THEN None ELSE locks[r]]

\* The locals of p go out of scope.
Forget(p) == /\ mem' = [mem EXCEPT ![p] = AbsentSlot]
             /\ dirty' = [dirty EXCEPT ![p] = {}]

Goto(p, label) == pc' = [pc EXCEPT ![p] = label]
Answer(c, r)   == reply' = [reply EXCEPT ![c] = r]

-----------------------------------------------------------------------------
(* createBooking.                                                          *)

\* The idempotency cache is looked up first; a hit is the answer.
CreateCheckKey(c) ==
  /\ pc[c] = "idle" /\ Admitted
  /\ IF HasRedis /\ req[c].key # NoKey /\ idem[req[c].key] # None
     THEN Goto(c, "done") /\ Answer(c, "replayed")
     ELSE Goto(c, IF HasRedis THEN "lock" ELSE "tx") /\ UNCHANGED reply
  /\ UNCHANGED <<slot, booking, rowLock, slotLock, lock, idem, req, target, mem, dirty>>

\* SET lockKey lockValue PX 10000 NX: a taken lock is a 409, there is no wait.
CreateLock(c) ==
  /\ pc[c] = "lock"
  /\ IF lock[req[c].slot] = None
     THEN /\ lock' = [lock EXCEPT ![req[c].slot] = c]
          /\ Goto(c, "tx") /\ UNCHANGED reply
     ELSE Goto(c, "done") /\ Answer(c, "conflict") /\ UNCHANGED lock
  /\ UNCHANGED <<slot, booking, rowLock, slotLock, idem, req, target, mem, dirty>>

\* Mutants of the next definition: a plain SELECT, and no check of the room.
CreateSelectSlotUnlocked(c) ==
  LET s == req[c].slot IN
  /\ pc[c] = "tx"
  /\ IF slot[s].status = "available" /\ Remaining(slot[s]) >= req[c].party
     THEN mem' = [mem EXCEPT ![c] = slot[s]] /\ Goto(c, "insert") /\ UNCHANGED reply
     ELSE Goto(c, "unlock") /\ Answer(c, "conflict") /\ UNCHANGED mem
  /\ UNCHANGED <<slot, booking, rowLock, slotLock, lock, idem, req, target, dirty>>
CreateSelectSlotUnchecked(c) ==
  LET s == req[c].slot IN
  /\ pc[c] = "tx" /\ slotLock[s] = None
  /\ IF slot[s].status = "available"
     THEN /\ slotLock' = [slotLock EXCEPT ![s] = c]
          /\ mem' = [mem EXCEPT ![c] = slot[s]]
          /\ Goto(c, "insert") /\ UNCHANGED reply
     ELSE /\ Goto(c, "unlock") /\ Answer(c, "conflict")
          /\ UNCHANGED <<slotLock, mem>>
  /\ UNCHANGED <<slot, booking, rowLock, lock, idem, req, target, dirty>>

\* SELECT ... FOR UPDATE of the slot, which waits for the row lock, and the
\* two checks; a throw rolls back, so a rejected request holds no row lock.
CreateSelectSlot(c) ==
  LET s == req[c].slot IN
  /\ pc[c] = "tx" /\ slotLock[s] = None
  /\ IF slot[s].status = "available" /\ Remaining(slot[s]) >= req[c].party
     THEN /\ slotLock' = [slotLock EXCEPT ![s] = c]
          /\ mem' = [mem EXCEPT ![c] = slot[s]]
          /\ Goto(c, "insert") /\ UNCHANGED reply
     ELSE /\ Goto(c, "unlock") /\ Answer(c, "conflict")
          /\ UNCHANGED <<slotLock, mem>>
  /\ UNCHANGED <<slot, booking, rowLock, lock, idem, req, target, dirty>>

\* The slot is saved, the booking inserted, and the transaction commits.
CreateCommit(c) ==
  LET s == req[c].slot IN
  /\ pc[c] = "insert"
  /\ slot' = [slot EXCEPT ![s] = WithSeatsTaken(mem[c], req[c].party)]
  /\ booking' = [booking EXCEPT ![c] = "confirmed"]
  /\ slotLock' = [slotLock EXCEPT ![s] = None]
  /\ Goto(c, "cache") /\ Forget(c)
  /\ UNCHANGED <<rowLock, lock, idem, req, target, reply>>

\* After the commit: SETEX of the answer under the key; then the experience is
\* read for the notification, which may throw, and the answer is ready.
CreateCache(c) ==
  /\ pc[c] = "cache"
  /\ idem' = IF HasRedis /\ req[c].key # NoKey
             THEN [idem EXCEPT ![req[c].key] = c] ELSE idem
  /\ Goto(c, "unlock")
  /\ \E r \in {"created", "error"} : Answer(c, r)
  /\ UNCHANGED <<slot, booking, rowLock, slotLock, lock, req, target, mem, dirty>>

\* Mutants of the next definition: a failed request is cached under its key, and
\* a transaction that is not rolled back.
CreateFailCached(c) ==
  /\ pc[c] \in {"tx", "insert", "cache"}
  /\ idem' = IF HasRedis /\ req[c].key # NoKey
             THEN [idem EXCEPT ![req[c].key] = c] ELSE idem
  /\ Goto(c, "unlock") /\ Answer(c, "error")
  /\ slotLock' = ReleasedBy(c, slotLock) /\ Forget(c)
  /\ UNCHANGED <<slot, booking, rowLock, lock, req, target>>
CreateFailLeaked(c) ==
  /\ pc[c] \in {"tx", "insert", "cache"}
  /\ Goto(c, "unlock") /\ Answer(c, "error") /\ Forget(c)
  /\ UNCHANGED <<slot, booking, rowLock, slotLock, lock, idem, req, target>>

\* An await of the try block throws: in the transaction, which is rolled back
\* (no free reference number in ten attempts, a lost connection), or after the
\* commit.  The finally block still runs.
CreateFail(c) ==
  /\ pc[c] \in {"tx", "insert", "cache"}
  /\ Goto(c, "unlock") /\ Answer(c, "error")
  /\ slotLock' = ReleasedBy(c, slotLock) /\ Forget(c)
  /\ UNCHANGED <<slot, booking, rowLock, lock, idem, req, target>>

\* finally: GET lockKey, and delete it only if it still holds our value ...
CreateGetLock(c) ==
  /\ pc[c] = "unlock"
  /\ Goto(c, IF HasRedis /\ lock[req[c].slot] = c THEN "del" ELSE "done")
  /\ UNCHANGED <<slot, booking, rowLock, slotLock, lock, idem, req, target, mem, dirty, reply>>

\* ... by a DEL of its own, which deletes whatever is there by then.
CreateDelLock(c) ==
  /\ pc[c] = "del"
  /\ lock' = [lock EXCEPT ![req[c].slot] = None]
  /\ Goto(c, "done")
  /\ UNCHANGED <<slot, booking, rowLock, slotLock, idem, req, target, mem, dirty, reply>>

\* Mutant: a lock that was set without PX.
LockStays(s) == lock[s] # None /\ FALSE /\ UNCHANGED vars

\* Redis drops a lock whose PX time has run out, whoever holds it.
LockExpire(s) ==
  /\ lock[s] # None
  /\ lock' = [lock EXCEPT ![s] = None]
  /\ UNCHANGED <<slot, booking, rowLock, slotLock, idem, pc, req, target, mem, dirty, reply>>

\* ... and a cached answer after IDEMPOTENCY_TTL.
KeyExpire(k) ==
  /\ idem[k] # None
  /\ idem' = [idem EXCEPT ![k] = None]
  /\ UNCHANGED <<slot, booking, rowLock, slotLock, lock, pc, req, target, mem, dirty, reply>>

-----------------------------------------------------------------------------
(* cancelBooking.                                                          *)

\* Mutant: a cancelled booking can be cancelled again.
CancelReadUnchecked(x) ==
  /\ pc[x] = "idle" /\ Admitted /\ booking[target[x]] # "none"
  /\ Goto(x, IF booking[target[x]] = "completed" THEN "done" ELSE "begin")
  /\ UNCHANGED <<slot, booking, rowLock, slotLock, lock, idem, req, target, mem, dirty, reply>>

\* findOne outside any transaction; only a live booking goes on.
CancelRead(x) ==
  /\ pc[x] = "idle" /\ Admitted /\ booking[target[x]] # "none"
  /\ Goto(x, IF booking[target[x]] \in {"cancelled", "completed"}
             THEN "done" ELSE "begin")
  /\ UNCHANGED <<slot, booking, rowLock, slotLock, lock, idem, req, target, mem, dirty, reply>>

\* save(booking): its SELECT tells whether the UPDATE will set the status ...
CancelDiffBooking(x) ==
  /\ pc[x] = "begin"
  /\ dirty' = [dirty EXCEPT ![x] = IF booking[target[x]] = "cancelled" THEN {} ELSE {"cancel"}]
  /\ Goto(x, "update")
  /\ UNCHANGED <<slot, booking, rowLock, slotLock, lock, idem, req, target, mem, reply>>

\* ... and the UPDATE, of cancelledAt in any case, waits for and takes the row.
CancelUpdateBooking(x) ==
  /\ pc[x] = "update" /\ rowLock[target[x]] = None
  /\ rowLock' = [rowLock EXCEPT ![target[x]] = x]
  /\ Goto(x, "read")
  /\ UNCHANGED <<slot, booking, slotLock, lock, idem, req, target, mem, dirty, reply>>

\* findOne of the slot, with no lock, and the new values computed in memory.
CancelReadSlot(x) ==
  LET b == target[x] IN
  /\ pc[x] = "read"
  /\ mem' = [mem EXCEPT ![x] = WithSeatsReturned(slot[req[b].slot], req[b].party)]
  /\ Goto(x, "save")
  /\ UNCHANGED <<slot, booking, rowLock, slotLock, lock, idem, req, target, dirty, reply>>

\* save(slot): its own SELECT decides which columns the UPDATE will set.
CancelDiffSlot(x) ==
  /\ pc[x] = "save"
  /\ dirty' = [dirty EXCEPT ![x] = @ \cup Changed(mem[x], slot[req[target[x]].slot])]
  /\ Goto(x, "commit")
  /\ UNCHANGED <<slot, booking, rowLock, slotLock, lock, idem, req, target, mem, reply>>

\* The UPDATE of those columns, if any, and the commit, which shows both rows.
CancelCommit(x) ==
  LET b == target[x]
      s == req[b].slot
  IN
  /\ pc[x] = "commit"
  /\ dirty[x] \cap Columns # {} => slotLock[s] = None
  /\ slot' = [slot EXCEPT ![s] = Merge(slot[s], mem[x], dirty[x])]
  /\ booking' = [booking EXCEPT ![b] = IF "cancel" \in dirty[x] THEN "cancelled" ELSE @]
  /\ rowLock' = [rowLock EXCEPT ![b] = None]
  /\ Goto(x, "done") /\ Forget(x)
  /\ UNCHANGED <<slotLock, lock, idem, req, target, reply>>

-----------------------------------------------------------------------------
(* completeBooking, updateAvailability, and the end of a server.           *)

\* Mutant: no status check.
CompleteReadUnchecked(y) ==
  /\ pc[y] = "idle" /\ Admitted /\ booking[target[y]] # "none"
  /\ Goto(y, "complete")
  /\ UNCHANGED <<slot, booking, rowLock, slotLock, lock, idem, req, target, mem, dirty, reply>>

\* findOne and the status check.
CompleteRead(y) ==
  /\ pc[y] = "idle" /\ Admitted /\ booking[target[y]] # "none"
  /\ Goto(y, IF booking[target[y]] = "confirmed" THEN "complete" ELSE "done")
  /\ UNCHANGED <<slot, booking, rowLock, slotLock, lock, idem, req, target, mem, dirty, reply>>

\* save(booking): its SELECT tells whether the UPDATE will set the status ...
CompleteDiff(y) ==
  /\ pc[y] = "complete"
  /\ dirty' = [dirty EXCEPT ![y] = IF booking[target[y]] = "completed" THEN {} ELSE {"complete"}]
  /\ Goto(y, "store")
  /\ UNCHANGED <<slot, booking, rowLock, slotLock, lock, idem, req, target, mem, reply>>

\* ... and the UPDATE writes COMPLETED over whatever the row says by then.
CompleteSave(y) ==
  /\ pc[y] = "store" /\ rowLock[target[y]] = None
  /\ booking' = [booking EXCEPT ![target[y]] = IF "complete" \in dirty[y] THEN "completed" ELSE @]
  /\ Goto(y, "done") /\ Forget(y)
  /\ UNCHANGED <<slot, rowLock, slotLock, lock, idem, req, target, reply>>

\* The upsert: a new row, or capacity and status of the old one; "booked" is
\* not among the columns it sets.
UpdateAvailability(s, n) ==
  /\ Admitted /\ slotLock[s] = None
  /\ slot' = [slot EXCEPT ![s] = [status   |-> "available",
                                  capacity |-> n,
                                  booked   |-> slot[s].booked]]
  /\ UNCHANGED <<booking, rowLock, slotLock, lock, idem, pc, req, target, mem, dirty, reply>>

\* The server dies, or an error ends a handler outside any try block or in its
\* finally block: an open transaction is rolled back, Redis keeps what it has.
Die(p) ==
  /\ p \in InFlight
  /\ Goto(p, "dead") /\ Forget(p)
  /\ rowLock' = ReleasedBy(p, rowLock)
  /\ slotLock' = ReleasedBy(p, slotLock)
  /\ reply' = [c \in Creators |-> IF c = p THEN "error" ELSE reply[c]]
  /\ UNCHANGED <<slot, booking, lock, idem, req, target>>

-----------------------------------------------------------------------------
Init ==
  /\ slot \in [Slots -> {AbsentSlot} \cup {FreshSlot(n) : n \in Capacities}]
  /\ booking = [c \in Creators |-> "none"]
  /\ rowLock = [c \in Creators |-> None]
  /\ slotLock = [s \in Slots |-> None]
  /\ lock = [s \in Slots |-> None]
  /\ idem = [k \in Keys |-> None]
  /\ pc = [p \in Procs |-> "idle"]
  /\ req \in [Creators -> Request]
  /\ target \in [Cancellers \cup Completers -> Creators]
  /\ mem = [p \in Procs |-> AbsentSlot]
  /\ dirty = [p \in Procs |-> {}]
  /\ reply = [c \in Creators |-> "none"]

\* What a handler does by itself, once the request is in.
CreateStep(c) ==
  \/ CreateLock(c) \/ CreateSelectSlot(c) \/ CreateCommit(c)
  \/ CreateCache(c) \/ CreateGetLock(c) \/ CreateDelLock(c)
CancelStep(x) ==
  \/ CancelDiffBooking(x) \/ CancelUpdateBooking(x) \/ CancelReadSlot(x)
  \/ CancelDiffSlot(x) \/ CancelCommit(x)
CompleteStep(y) == CompleteDiff(y) \/ CompleteSave(y)

Next ==
  \/ \E c \in Creators : CreateCheckKey(c) \/ CreateStep(c) \/ CreateFail(c)
  \/ \E x \in Cancellers : CancelRead(x) \/ CancelStep(x)
  \/ \E y \in Completers : CompleteRead(y) \/ CompleteStep(y)
  \/ \E s \in Slots : LockExpire(s) \/ \E n \in Offers : UpdateAvailability(s, n)
  \/ \E k \in Keys : KeyExpire(k)
  \/ \E p \in Procs : Die(p)

Spec == Init /\ [][Next]_vars

\* Scheduling: a running handler is not stopped for ever (it goes on or it
\* dies), and Redis expires keys.  Nothing is assumed of the clients.
FairSpec ==
  /\ Spec
  /\ \A c \in Creators : WF_vars(CreateStep(c))
  /\ \A x \in Cancellers : WF_vars(CancelStep(x))
  /\ \A y \in Completers : WF_vars(CompleteStep(y))
  /\ \A s \in Slots : WF_vars(LockExpire(s))

-----------------------------------------------------------------------------
(* Properties.                                                             *)

PcLabels == {"idle", "lock", "tx", "insert", "cache", "unlock", "del", "begin", "update",
             "read", "save", "commit", "complete", "store", "done", "dead"}

\* Every variable has its type.
TypeOK ==
  /\ slot \in [Slots -> SlotRow]
  /\ booking \in [Creators -> BookingStatus]
  /\ rowLock \in [Creators -> Cancellers \cup {None}]
  /\ slotLock \in [Slots -> Creators \cup {None}]
  /\ lock \in [Slots -> Creators \cup {None}]
  /\ idem \in [Keys -> Creators \cup {None}]
  /\ pc \in [Procs -> PcLabels]
  /\ req \in [Creators -> Request]
  /\ target \in [Cancellers \cup Completers -> Creators]
  /\ mem \in [Procs -> SlotRow]
  /\ dirty \in [Procs -> SUBSET (Columns \cup {"cancel", "complete"})]
  /\ reply \in [Creators -> {"none", "replayed", "conflict", "created", "error"}]

\* The abstract ledger under the obvious mapping: the tables themselves.
Ledger == INSTANCE SeatLedger WITH
  Bookings <- Creators,
  capacity <- [s \in Slots |-> slot[s].capacity],
  booked   <- [s \in Slots |-> slot[s].booked],
  status   <- booking,
  want     <- req

\* The booked column of a slot is the number of participants of its live
\* bookings: createBooking adds and cancelBooking subtracts exactly once.
SeatsAccounted == Ledger!CountIsSeats

\* No slot is sold beyond its capacity.
NoOverbooking ==
  \A s \in Slots : Cardinality(Ledger!SeatsSold(s)) <= slot[s].capacity

\* The count a slot keeps never exceeds its capacity, whatever columns
\* concurrent saves mix in one row (no capacity is lowered: Offers = {}).
CountWithinCapacity == \A s \in Slots : slot[s].booked <= slot[s].capacity

\* The cancellations and completions of bookings on s that have ended.
Ended(s) == {p \in Cancellers \cup Completers : pc[p] = "done" /\ req[target[p]].slot = s}

\* How much the stale saves can do: the count stays within the capacity, and each
\* cancellation or completion that has ended lets at most one capacity more be
\* sold, as it forgets no more seats, or revives no more, than the slot has.
OversellingIsBounded ==
  /\ CountWithinCapacity
  /\ \A s \in Slots :
       Cardinality(Ledger!SeatsSold(s)) <= slot[s].capacity * (1 + Cardinality(Ended(s)))

\* Only the guide changes the capacity of a slot.
CapacityIsTheGuides ==
  [][\A s \in Slots : slot'[s].capacity # slot[s].capacity =>
       \E n \in Offers : UpdateAvailability(s, n)]_vars

\* A slot is shown as sold out only while it has no seat left; otherwise
\* createBooking turns travellers away from a free slot.
SoldOutMeansFull ==
  \A s \in Slots : slot[s].status = "booked" => slot[s].booked >= slot[s].capacity

\* What the client is told agrees with the table: "created" has its row, a
\* conflict has none, a replay and a cached key stand for a row with that key.
AnswersAreTrue ==
  /\ \A c \in Creators :
       /\ reply[c] = "created" => booking[c] # "none"
       /\ reply[c] = "conflict" => booking[c] = "none"
       /\ reply[c] = "replayed" =>
            /\ booking[c] = "none"
            /\ \E b \in Creators : b # c /\ booking[b] # "none" /\ req[b].key = req[c].key
  /\ \A k \in Keys : idem[k] # None =>
       booking[idem[k]] # "none" /\ req[idem[k]].key = k

\* A cancelled or completed booking stays what it is.
FinalStatusStays ==
  [][\A c \in Creators :
       booking[c] \in {"cancelled", "completed"} => booking'[c] = booking[c]]_vars

\* The lock of a request whose server died does not stay for ever.
DeadHolderIsFreed ==
  \A c \in Creators : \A s \in Slots :
    (lock[s] = c /\ pc[c] = "dead") ~> lock[s] # c

\* Every handler that has started ends: no two transactions wait for each
\* other's row locks, and none is left holding one.
EveryHandlerEnds ==
  \A p \in Procs : pc[p] # "idle" ~> pc[p] \in {"done", "dead"}

\* Every step the service takes is one the ledger allows.
ImplementsLedger == Ledger!LedgerSpec
=============================================================================
