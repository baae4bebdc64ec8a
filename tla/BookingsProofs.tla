--------------------------- MODULE BookingsProofs ---------------------------
(* Theorems of the booking service, for every value of the constants. *)
EXTENDS Bookings, FiniteSetTheorems, TLAPS

-----------------------------------------------------------------------------
(* The rows the operators compute are rows.                                *)

\* A slot with more seats taken is a slot row.
LEMMA TakenIsRow ==
  ASSUME NEW row \in SlotRow, NEW p \in 1..MaxParty
  PROVE  WithSeatsTaken(row, p) \in SlotRow
BY NumbersAssumption DEF WithSeatsTaken, SlotRow, SlotStatus

\* A slot with seats returned is a slot row: Math.max(0, ...) keeps the count
\* from going below zero.
LEMMA ReturnedIsRow ==
  ASSUME NEW row \in SlotRow, NEW p \in 1..MaxParty
  PROVE  WithSeatsReturned(row, p) \in SlotRow
BY NumbersAssumption DEF WithSeatsReturned, SlotRow, SlotStatus

\* Columns of two rows make a row.
LEMMA MergeIsRow ==
  ASSUME NEW row \in SlotRow, NEW entity \in SlotRow, NEW cols
  PROVE  Merge(row, entity, cols) \in SlotRow
BY DEF Merge, SlotRow, SlotStatus

\* Rolling back releases locks and gives none away.
LEMMA ReleasedIsTyped ==
  ASSUME NEW D, NEW V, NEW locks \in [D -> V \cup {None}], NEW p
  PROVE  ReleasedBy(p, locks) \in [D -> V \cup {None}]
BY DEF ReleasedBy

-----------------------------------------------------------------------------
(* Type correctness.                                                       *)

\* The initial tables, Redis and handlers have their types.
LEMMA TypeOKStarts == Init => TypeOK
BY NumbersAssumption DEF Init, TypeOK, SlotRow, SlotStatus, BookingStatus, AbsentSlot,
   FreshSlot, PcLabels, Procs

\* Every step of every handler keeps the types.
LEMMA TypeOKStep == TypeOK /\ [Next]_vars => TypeOK'
<1> SUFFICES ASSUME TypeOK, [Next]_vars PROVE TypeOK'
  OBVIOUS
<1> USE DEF TypeOK, Goto, Answer, PcLabels, Procs
<1>f. ASSUME NEW p \in Procs, Forget(p)
      PROVE  /\ mem' \in [Procs -> SlotRow]
             /\ dirty' \in [Procs -> SUBSET (Columns \cup {"cancel", "complete"})]
  BY <1>f DEF Forget, AbsentSlot, SlotRow, SlotStatus
<1>r. \A c \in Creators : req[c] \in Request
  OBVIOUS
<1>1. ASSUME NEW c \in Creators, CreateCheckKey(c) PROVE TypeOK'
  BY <1>1 DEF CreateCheckKey
<1>2. ASSUME NEW c \in Creators, CreateLock(c) PROVE TypeOK'
  BY <1>2 DEF CreateLock
<1>3. ASSUME NEW c \in Creators, CreateSelectSlot(c) PROVE TypeOK'
  <2>1. slot[req[c].slot] \in SlotRow
    BY DEF Request
  <2> QED BY <1>3, <2>1 DEF CreateSelectSlot
<1>4. ASSUME NEW c \in Creators, CreateCommit(c) PROVE TypeOK'
  <2>1. WithSeatsTaken(mem[c], req[c].party) \in SlotRow
    BY TakenIsRow DEF Request
  <2>2. slot' \in [Slots -> SlotRow]
    BY <1>4, <2>1 DEF CreateCommit
  <2>3. Forget(c) BY <1>4 DEF CreateCommit
  <2> QED BY <1>4, <1>f, <2>2, <2>3 DEF CreateCommit, BookingStatus
<1>5. ASSUME NEW c \in Creators, CreateCache(c) PROVE TypeOK'
  BY <1>5 DEF CreateCache
<1>6. ASSUME NEW c \in Creators, CreateFail(c) PROVE TypeOK'
  BY <1>6, <1>f, ReleasedIsTyped DEF CreateFail
<1>7. ASSUME NEW c \in Creators, CreateGetLock(c) PROVE TypeOK'
  BY <1>7 DEF CreateGetLock
<1>8. ASSUME NEW c \in Creators, CreateDelLock(c) PROVE TypeOK'
  BY <1>8 DEF CreateDelLock
<1>9. ASSUME NEW x \in Cancellers, CancelRead(x) PROVE TypeOK'
  BY <1>9 DEF CancelRead
<1>10. ASSUME NEW x \in Cancellers, CancelDiffBooking(x) PROVE TypeOK'
  BY <1>10 DEF CancelDiffBooking
<1>11. ASSUME NEW x \in Cancellers, CancelUpdateBooking(x) PROVE TypeOK'
  BY <1>11 DEF CancelUpdateBooking
<1>12. ASSUME NEW x \in Cancellers, CancelReadSlot(x) PROVE TypeOK'
  <2>1. target[x] \in Creators
    OBVIOUS
  <2>2. WithSeatsReturned(slot[req[target[x]].slot], req[target[x]].party) \in SlotRow
    BY <2>1, ReturnedIsRow DEF Request
  <2> QED BY <1>12, <2>2 DEF CancelReadSlot
<1>13. ASSUME NEW x \in Cancellers, CancelDiffSlot(x) PROVE TypeOK'
  BY <1>13 DEF CancelDiffSlot, Changed
<1>14. ASSUME NEW x \in Cancellers, CancelCommit(x) PROVE TypeOK'
  <2>1. target[x] \in Creators /\ req[target[x]].slot \in Slots
    BY DEF Request
  <2>2. Merge(slot[req[target[x]].slot], mem[x], dirty[x]) \in SlotRow
    BY <2>1, MergeIsRow
  <2>3. slot' \in [Slots -> SlotRow]
    BY <1>14, <2>2 DEF CancelCommit
  <2>4. Forget(x) BY <1>14 DEF CancelCommit
  <2> QED BY <1>14, <1>f, <2>1, <2>3, <2>4 DEF CancelCommit, BookingStatus
<1>15. ASSUME NEW y \in Completers, CompleteRead(y) PROVE TypeOK'
  BY <1>15 DEF CompleteRead
<1>16. ASSUME NEW y \in Completers, CompleteDiff(y) PROVE TypeOK'
  BY <1>16 DEF CompleteDiff
<1>17. ASSUME NEW y \in Completers, CompleteSave(y) PROVE TypeOK'
  BY <1>17, <1>f DEF CompleteSave, BookingStatus
<1>18. ASSUME NEW s \in Slots, NEW n \in Offers, UpdateAvailability(s, n) PROVE TypeOK'
  <2>1. [status |-> "available", capacity |-> n, booked |-> slot[s].booked] \in SlotRow
    BY NumbersAssumption DEF SlotRow, SlotStatus
  <2> QED BY <1>18, <2>1 DEF UpdateAvailability
<1>19. ASSUME NEW s \in Slots, LockExpire(s) PROVE TypeOK'
  BY <1>19 DEF LockExpire
<1>20. ASSUME NEW k \in Keys, KeyExpire(k) PROVE TypeOK'
  BY <1>20 DEF KeyExpire
<1>21. ASSUME NEW p \in Procs, Die(p) PROVE TypeOK'
  BY <1>21, <1>f, ReleasedIsTyped DEF Die
<1>22. ASSUME UNCHANGED vars PROVE TypeOK'
  BY <1>22 DEF vars
<1> QED
  BY <1>1, <1>2, <1>3, <1>4, <1>5, <1>6, <1>7, <1>8, <1>9, <1>10, <1>11, <1>12, <1>13,
     <1>14, <1>15, <1>16, <1>17, <1>18, <1>19, <1>20, <1>21, <1>22
     DEF Next, CreateStep, CancelStep, CompleteStep

\* The tables, Redis and the handlers keep their types.
THEOREM TypeCorrect == Spec => []TypeOK
BY TypeOKStarts, TypeOKStep, PTL DEF Spec

-----------------------------------------------------------------------------
(* What the row lock of a slot protects, whoever else is running.          *)

\* A creation that has not committed has no row; the one that is about to
\* holds the row lock of its slot, and what it read is what the row still says.
Uncommitted ==
  \A c \in Creators :
    /\ pc[c] \in {"idle", "lock", "tx", "insert"} => booking[c] = "none"
    /\ pc[c] = "insert" =>
         /\ slotLock[req[c].slot] = c
         /\ mem[c] = slot[req[c].slot]
         /\ Remaining(mem[c]) >= req[c].party

\* A running cancellation or completion is about a booking that exists.
TargetsExist ==
  \A p \in Cancellers \cup Completers :
    pc[p] \in {"begin", "update", "read", "save", "commit", "complete", "store"}
      => booking[target[p]] # "none"

CreationInv == TypeOK /\ Uncommitted /\ TargetsExist

\* Every step of every handler keeps the creations' inductive invariant: what a
\* cancellation writes without waiting for the row lock is no column of the slot.
LEMMA CreationStep == CreationInv /\ [Next]_vars => CreationInv'
<1> SUFFICES ASSUME CreationInv, [Next]_vars, TypeOK'
             PROVE  Uncommitted' /\ TargetsExist'
  BY TypeOKStep DEF CreationInv
<1> USE DEF CreationInv, Uncommitted, TargetsExist, Goto, Procs
<1>t. /\ \A c \in Creators : req[c].slot \in Slots
      /\ \A p \in Cancellers \cup Completers : target[p] \in Creators
  BY DEF TypeOK, Request
<1>p. /\ pc \in [Procs -> PcLabels] /\ mem \in [Procs -> SlotRow]
      /\ booking \in [Creators -> BookingStatus] /\ slot \in [Slots -> SlotRow]
      /\ slotLock \in [Slots -> Creators \cup {None}]
  BY DEF TypeOK
<1>1. ASSUME NEW c \in Creators,
             \/ CreateCheckKey(c) \/ CreateLock(c) \/ CreateCache(c)
             \/ CreateGetLock(c) \/ CreateDelLock(c)
      PROVE  Uncommitted' /\ TargetsExist'
  BY <1>1, <1>p, DistinctAssumption
     DEF CreateCheckKey, CreateLock, CreateCache, CreateGetLock, CreateDelLock
<1>2. ASSUME NEW c \in Creators, CreateSelectSlot(c) PROVE Uncommitted' /\ TargetsExist'
  BY <1>2, <1>p, <1>t, DistinctAssumption DEF CreateSelectSlot
<1>3. ASSUME NEW c \in Creators, CreateCommit(c) PROVE Uncommitted' /\ TargetsExist'
  <2>1. ASSUME NEW d \in Creators, d # c, pc[d] = "insert"
        PROVE  req[d].slot # req[c].slot
    BY <2>1, <1>3 DEF CreateCommit
  <2> QED BY <2>1, <1>3, <1>p, <1>t, DistinctAssumption DEF CreateCommit, Forget
<1>4. ASSUME NEW c \in Creators, CreateFail(c) PROVE Uncommitted' /\ TargetsExist'
  <2>1. \A s \in Slots : slotLock[s] # c => slotLock'[s] = slotLock[s]
    BY <1>4, <1>p DEF CreateFail, ReleasedBy
  <2> QED BY <2>1, <1>4, <1>p, <1>t, DistinctAssumption DEF CreateFail, Forget
<1>5. ASSUME NEW x \in Cancellers,
             \/ CancelRead(x) \/ CancelDiffBooking(x) \/ CancelUpdateBooking(x)
             \/ CancelReadSlot(x) \/ CancelDiffSlot(x)
      PROVE  Uncommitted' /\ TargetsExist'
  BY <1>5, <1>p, DistinctAssumption
     DEF CancelRead, CancelDiffBooking, CancelUpdateBooking, CancelReadSlot, CancelDiffSlot
<1>6. ASSUME NEW x \in Cancellers, CancelCommit(x) PROVE Uncommitted' /\ TargetsExist'
  <2> DEFINE s == req[target[x]].slot
  <2>1. slotLock[s] # None => Merge(slot[s], mem[x], dirty[x]) = slot[s]
    BY <1>6, <1>p, <1>t DEF CancelCommit, Merge, Columns, SlotRow
  <2>2. \A r \in Slots : slotLock[r] # None => slot'[r] = slot[r]
    BY <2>1, <1>6, <1>p DEF CancelCommit
  <2>3. \A c \in Creators : booking'[c] = "none" <=> booking[c] = "none"
    BY <1>6, <1>p, <1>t DEF CancelCommit
  <2> QED BY <2>2, <2>3, <1>6, <1>p, <1>t, DistinctAssumption DEF CancelCommit, Forget
<1>7. ASSUME NEW y \in Completers, CompleteRead(y) \/ CompleteDiff(y)
      PROVE  Uncommitted' /\ TargetsExist'
  BY <1>7, <1>p, DistinctAssumption DEF CompleteRead, CompleteDiff
<1>8. ASSUME NEW y \in Completers, CompleteSave(y) PROVE Uncommitted' /\ TargetsExist'
  <2>1. \A c \in Creators : booking'[c] = "none" <=> booking[c] = "none"
    BY <1>8, <1>p, <1>t DEF CompleteSave
  <2> QED BY <2>1, <1>8, <1>p, <1>t, DistinctAssumption DEF CompleteSave, Forget
<1>9. ASSUME NEW s \in Slots, NEW n \in Offers, UpdateAvailability(s, n)
      PROVE  Uncommitted' /\ TargetsExist'
  <2>1. ASSUME NEW c \in Creators, pc[c] = "insert" PROVE req[c].slot # s
    BY <2>1, <1>9, DistinctAssumption DEF UpdateAvailability
  <2> QED BY <2>1, <1>9, <1>p, <1>t DEF UpdateAvailability
<1>10. ASSUME NEW s \in Slots, LockExpire(s) PROVE Uncommitted' /\ TargetsExist'
  BY <1>10 DEF LockExpire
<1>11. ASSUME NEW k \in Keys, KeyExpire(k) PROVE Uncommitted' /\ TargetsExist'
  BY <1>11 DEF KeyExpire
<1>12. ASSUME NEW p \in Procs, Die(p) PROVE Uncommitted' /\ TargetsExist'
  <2>1. \A s \in Slots : slotLock[s] # p => slotLock'[s] = slotLock[s]
    BY <1>12, <1>p DEF Die, ReleasedBy
  <2> QED BY <2>1, <1>12, <1>p, <1>t, DistinctAssumption DEF Die, Forget
<1>13. ASSUME UNCHANGED vars PROVE Uncommitted' /\ TargetsExist'
  BY <1>13 DEF vars
<1> QED
  BY <1>1, <1>2, <1>3, <1>4, <1>5, <1>6, <1>7, <1>8, <1>9, <1>10, <1>11, <1>12, <1>13
     DEF Next, CreateStep, CancelStep, CompleteStep

\* At the start no handler is running.
LEMMA CreationStarts == Init => CreationInv
BY TypeOKStarts DEF Init, CreationInv, Uncommitted, TargetsExist, Procs

\* No cancellation, completion, edit or crash comes between what a creation
\* reads under its row lock and what it writes.
THEOREM RowLockProtects == Spec => []CreationInv
BY CreationStarts, CreationStep, PTL DEF Spec

-----------------------------------------------------------------------------
(* Creations implement the ledger.  A cancellation may overwrite the count  *)
(* that a concurrent creation wrote, so the theorems of this section are    *)
(* about the executions without cancelBooking requests.                     *)

\* A running completion is about a booking that is not cancelled.
Completing ==
  \A y \in Completers :
    pc[y] \in {"complete", "store"} => booking[target[y]] \in {"confirmed", "completed"}

\* Without cancellations a booking stays confirmed until it is completed.
LEMMA CompletingStep ==
  ASSUME Cancellers = {}, CreationInv, Completing, [Next]_vars
  PROVE  Completing'
<1> USE DEF Completing, CreationInv, Uncommitted, Goto, Procs
<1>t. \A y \in Completers : target[y] \in Creators
  BY DEF TypeOK
<1>p. pc \in [Procs -> PcLabels] /\ booking \in [Creators -> BookingStatus]
  BY DEF TypeOK
<1>1. ASSUME NEW c \in Creators, CreateCheckKey(c) \/ CreateStep(c) \/ CreateFail(c)
      PROVE  Completing'
  BY <1>1, <1>p, <1>t, DistinctAssumption
     DEF CreateStep, CreateCheckKey, CreateLock, CreateSelectSlot, CreateCommit, CreateCache,
         CreateFail, CreateGetLock, CreateDelLock
<1>2. ASSUME NEW y \in Completers, CompleteRead(y) \/ CompleteStep(y) PROVE Completing'
  BY <1>2, <1>p, <1>t, DistinctAssumption DEF CompleteStep, CompleteRead, CompleteDiff, CompleteSave
<1>3. ASSUME NEW s \in Slots, \/ LockExpire(s)
                              \/ \E n \in Offers : UpdateAvailability(s, n)
      PROVE  Completing'
  BY <1>3 DEF LockExpire, UpdateAvailability
<1>4. ASSUME NEW k \in Keys, KeyExpire(k) PROVE Completing'
  BY <1>4 DEF KeyExpire
<1>5. ASSUME NEW p \in Procs, Die(p) PROVE Completing'
  BY <1>5, <1>p DEF Die
<1>6. ASSUME UNCHANGED vars PROVE Completing'
  BY <1>6 DEF vars
<1> QED BY <1>1, <1>2, <1>3, <1>4, <1>5, <1>6 DEF Next

\* The creations and completions keep the inductive invariant.
LEMMA CreationInvariant ==
  ASSUME Cancellers = {}
  PROVE  Spec => [](CreationInv /\ Completing)
<1>1. Init => Completing
  BY DEF Init, Completing, Procs
<1>2. CreationInv /\ Completing /\ [Next]_vars => Completing'
  BY CompletingStep
<1> QED BY <1>1, <1>2, RowLockProtects, PTL DEF Spec

\* At the start the tables are an empty ledger.
LEMMA LedgerInitRefined == Init => Ledger!LedgerInit
BY NumbersAssumption
   DEF Init, Ledger!LedgerInit, Ledger!LedgerTypeOK, AbsentSlot, FreshSlot, Request

\* What leaves the tables alone is a stuttering step of the ledger.
LEMMA TablesAlone ==
  ASSUME UNCHANGED <<slot, booking, req>>
  PROVE  UNCHANGED Ledger!ledgerVars
BY DEF Ledger!ledgerVars

\* The commit of a creation books its party's seats, with room for them.
LEMMA BookRefined ==
  ASSUME CreationInv, NEW c \in Creators, CreateCommit(c)
  PROVE  Ledger!Book(c)
<1> DEFINE s == req[c].slot
<1>t. /\ slot \in [Slots -> SlotRow] /\ booking \in [Creators -> BookingStatus]
      /\ req[c].slot \in Slots /\ req[c].party \in 1..MaxParty
  BY DEF CreationInv, TypeOK, Request
<1>1. /\ booking[c] = "none" /\ mem[c] = slot[s]
      /\ slot[s].capacity - slot[s].booked >= req[c].party
  BY DEF CreateCommit, CreationInv, Uncommitted, Remaining
<1>2. /\ slot' = [slot EXCEPT ![s] = WithSeatsTaken(slot[s], req[c].party)]
      /\ booking' = [booking EXCEPT ![c] = "confirmed"] /\ req' = req
  BY <1>1 DEF CreateCommit
<1>3. [r \in Slots |-> slot'[r].capacity] = [r \in Slots |-> slot[r].capacity]
  BY <1>t, <1>2 DEF WithSeatsTaken
<1>4. [r \in Slots |-> slot'[r].booked]
        = [[r \in Slots |-> slot[r].booked] EXCEPT ![s] = @ + req[c].party]
  BY <1>t, <1>2 DEF WithSeatsTaken
<1>5. [r \in Slots |-> slot[r].capacity][s] - [r \in Slots |-> slot[r].booked][s]
        >= req[c].party
  BY <1>t, <1>1
<1> QED BY <1>1, <1>2, <1>3, <1>4, <1>5 DEF Ledger!Book

\* A calendar edit publishes a capacity and leaves the count alone.
LEMMA PublishRefined ==
  ASSUME TypeOK, NEW s \in Slots, NEW n \in Offers, UpdateAvailability(s, n)
  PROVE  Ledger!Publish(s)
<1>t. slot \in [Slots -> SlotRow]
  BY DEF TypeOK
<1>1. /\ slot' = [slot EXCEPT ![s] = [status |-> "available", capacity |-> n,
                                      booked |-> slot[s].booked]]
      /\ booking' = booking /\ req' = req
  BY DEF UpdateAvailability
<1>2. [r \in Slots |-> slot'[r].capacity] = [[r \in Slots |-> slot[r].capacity] EXCEPT ![s] = n]
  BY <1>t, <1>1
<1>3. [r \in Slots |-> slot'[r].booked] = [r \in Slots |-> slot[r].booked]
  BY <1>t, <1>1
<1>4. n \in Nat /\ [r \in Slots |-> slot'[r].capacity][s] = n
  BY <1>t, <1>1, NumbersAssumption
<1> QED BY <1>1, <1>2, <1>3, <1>4 DEF Ledger!Publish

\* A step of a handler is one step of the ledger, or none.
LEMMA LedgerStepRefined ==
  ASSUME Cancellers = {}, CreationInv, Completing, [Next]_vars
  PROVE  [Ledger!LedgerNext]_Ledger!ledgerVars
<1> DEFINE Refined == [Ledger!LedgerNext]_Ledger!ledgerVars
<1>a. ASSUME UNCHANGED <<slot, booking, req>> PROVE Refined
  BY <1>a, TablesAlone
<1>t. /\ slot \in [Slots -> SlotRow] /\ booking \in [Creators -> BookingStatus]
      /\ \A c \in Creators : req[c].slot \in Slots /\ req[c].party \in 1..MaxParty
      /\ \A y \in Completers : target[y] \in Creators
  BY DEF CreationInv, TypeOK, Request
<1>1. ASSUME NEW c \in Creators, CreateCommit(c) PROVE Ledger!Book(c)
  BY <1>1, BookRefined
<1>2. ASSUME NEW y \in Completers, CompleteSave(y) PROVE Refined
  <2>1. CASE "complete" \in dirty[y] /\ booking[target[y]] = "confirmed"
    <3>1. Ledger!Complete(target[y])
      BY <1>2, <1>t, <2>1 DEF CompleteSave, Ledger!Complete
    <3> QED BY <3>1, <1>t DEF Ledger!LedgerNext
  <2>2. CASE ~ ("complete" \in dirty[y] /\ booking[target[y]] = "confirmed")
    <3>1. "complete" \in dirty[y] => booking[target[y]] = "completed"
      BY <1>2, <2>2 DEF CreationInv, Completing, CompleteSave
    <3>2. booking' = booking
      BY <1>2, <1>t, <3>1 DEF CompleteSave
    <3> QED BY <1>2, <3>2, <1>a DEF CompleteSave
  <2> QED BY <2>1, <2>2
<1>3. ASSUME NEW s \in Slots, NEW n \in Offers, UpdateAvailability(s, n)
      PROVE  Ledger!Publish(s)
  BY <1>3, PublishRefined DEF CreationInv
<1>4. CASE UNCHANGED vars
  BY <1>4, <1>a DEF vars
<1>5. ASSUME NEW c \in Creators,
             \/ CreateCheckKey(c) \/ CreateLock(c) \/ CreateSelectSlot(c) \/ CreateCache(c)
             \/ CreateFail(c) \/ CreateGetLock(c) \/ CreateDelLock(c)
      PROVE  Refined
  BY <1>5, <1>a DEF CreateCheckKey, CreateLock, CreateSelectSlot, CreateCache, CreateFail,
     CreateGetLock, CreateDelLock
<1>6. ASSUME NEW y \in Completers, CompleteRead(y) \/ CompleteDiff(y) PROVE Refined
  BY <1>6, <1>a DEF CompleteRead, CompleteDiff
<1>7. /\ \A s \in Slots : LockExpire(s) => Refined
      /\ \A k \in Keys : KeyExpire(k) => Refined
      /\ \A p \in Procs : Die(p) => Refined
  BY <1>a DEF LockExpire, KeyExpire, Die
<1>8. \A c \in Creators : Ledger!Book(c) => Refined
  BY DEF Ledger!LedgerNext
<1>9. \A s \in Slots : Ledger!Publish(s) => Refined
  BY DEF Ledger!LedgerNext
<1>10. ASSUME NEW c \in Creators, CreateCheckKey(c) \/ CreateStep(c) \/ CreateFail(c)
       PROVE  Refined
  BY <1>10, <1>1, <1>5, <1>8 DEF CreateStep
<1>11. ASSUME NEW y \in Completers, CompleteRead(y) \/ CompleteStep(y) PROVE Refined
  BY <1>11, <1>2, <1>6 DEF CompleteStep
<1>12. ASSUME NEW s \in Slots, NEW n \in Offers, UpdateAvailability(s, n) PROVE Refined
  BY <1>12, <1>3, <1>9
<1>13. Refined
  BY <1>4, <1>7, <1>10, <1>11, <1>12 DEF Next
<1> QED BY <1>13

\* With no cancellation about, the handlers, their locks and their caches
\* implement the ledger: every booking happens in one step, with room for it.
THEOREM CreationsImplementLedger ==
  ASSUME Cancellers = {}
  PROVE  Spec => ImplementsLedger
<1>1. Spec => [](CreationInv /\ Completing)
  BY CreationInvariant
<1>2. CreationInv /\ Completing /\ [Next]_vars => [Ledger!LedgerNext]_Ledger!ledgerVars
  BY LedgerStepRefined
<1> QED BY <1>1, <1>2, LedgerInitRefined, PTL DEF Spec, ImplementsLedger, Ledger!LedgerSpec

\* The theorems of the ledger, about the tables.
Proved == INSTANCE SeatLedgerProofs WITH
  Bookings <- Creators,
  capacity <- [s \in Slots |-> slot[s].capacity],
  booked   <- [s \in Slots |-> slot[s].booked],
  status   <- booking,
  want     <- req

\* They are about the ledger that the handlers implement.
LEMMA SameLedger ==
  /\ Ledger!LedgerInit => Proved!LedgerInit
  /\ [Ledger!LedgerNext]_Ledger!ledgerVars => [Proved!LedgerNext]_Proved!ledgerVars
  /\ Proved!LedgerInv => SeatsAccounted
<1>1. Ledger!LedgerInit => Proved!LedgerInit
  BY DEF Ledger!LedgerInit, Proved!LedgerInit, Ledger!LedgerTypeOK, Proved!LedgerTypeOK
<1>2. /\ \A b \in Creators : Ledger!Book(b) => Proved!Book(b)
      /\ \A b \in Creators : Ledger!Cancel(b) => Proved!Cancel(b)
      /\ \A b \in Creators : Ledger!Complete(b) => Proved!Complete(b)
      /\ \A s \in Slots : Ledger!Publish(s) => Proved!Publish(s)
  BY DEF Ledger!Book, Proved!Book, Ledger!Cancel, Proved!Cancel, Ledger!Complete,
         Proved!Complete, Ledger!Publish, Proved!Publish
<1>3. UNCHANGED Ledger!ledgerVars => UNCHANGED Proved!ledgerVars
  BY DEF Ledger!ledgerVars, Proved!ledgerVars
<1>6. \A S : Ledger!Cardinality(S) = Proved!Cardinality(S)
  BY DEF Ledger!Cardinality, Proved!Cardinality
<1>4. Proved!LedgerInv => SeatsAccounted
  BY <1>6 DEF SeatsAccounted, Proved!LedgerInv, Ledger!CountIsSeats, Proved!CountIsSeats,
         Ledger!SeatsSold, Proved!SeatsSold, Ledger!Holders, Proved!Holders,
         Ledger!Seats, Proved!Seats
<1>5. Ledger!LedgerNext => Proved!LedgerNext
  BY <1>2 DEF Ledger!LedgerNext, Proved!LedgerNext
<1> QED BY <1>1, <1>3, <1>4, <1>5

\* With no cancellation about, the booked column of every slot is the number
\* of participants of its live bookings.
THEOREM CreationsAccountSeats ==
  ASSUME Cancellers = {}
  PROVE  Spec => []SeatsAccounted
<1>a. Proved!LedgerAssumption
  BY NumbersAssumption, FiniteAssumption
     DEF IsFiniteSet, Proved!IsFiniteSet, Proved!LedgerAssumption
<1>1. Proved!LedgerInit => Proved!LedgerInv
  BY <1>a, Proved!LedgerStarts
<1>2. Proved!LedgerInv /\ [Proved!LedgerNext]_Proved!ledgerVars => Proved!LedgerInv'
  BY <1>a, Proved!LedgerStep
<1>3. Spec => Ledger!LedgerSpec
  BY CreationsImplementLedger DEF ImplementsLedger
<1> QED BY <1>1, <1>2, <1>3, SameLedger, PTL DEF Ledger!LedgerSpec

-----------------------------------------------------------------------------
(* The count against the capacity, when no capacity is edited.  Every      *)
(* handler may run here, cancellations included.                           *)

\* What a creation is about to write, and what a cancellation may, respects
\* the capacity of the slot, which is the one the handler has read.
CapacityInv ==
  /\ TypeOK
  /\ CountWithinCapacity
  /\ \A c \in Creators : pc[c] = "insert" =>
       /\ mem[c].capacity = slot[req[c].slot].capacity
       /\ mem[c].booked + req[c].party <= mem[c].capacity
  /\ \A x \in Cancellers : pc[x] \in {"save", "commit"} =>
       /\ mem[x].capacity = slot[req[target[x]].slot].capacity
       /\ mem[x].booked <= mem[x].capacity

\* With no edit about, every handler keeps that invariant.
LEMMA CapacityInvariant ==
  ASSUME Offers = {}
  PROVE  Spec => []CapacityInv
<1>1. Init => CapacityInv
  BY TypeOKStarts, NumbersAssumption
     DEF Init, CapacityInv, CountWithinCapacity, AbsentSlot, FreshSlot, Procs
<1>2. CapacityInv /\ [Next]_vars => CapacityInv'
  <2> SUFFICES ASSUME CapacityInv, [Next]_vars, TypeOK' PROVE CapacityInv'
    BY TypeOKStep DEF CapacityInv
  <2> USE DEF CapacityInv, CountWithinCapacity, Goto, Procs
  <2>p. /\ pc \in [Procs -> PcLabels] /\ mem \in [Procs -> SlotRow]
        /\ slot \in [Slots -> SlotRow] /\ req \in [Creators -> Request]
        /\ target \in [Cancellers \cup Completers -> Creators]
    BY DEF TypeOK
  <2>q. /\ \A c \in Creators : /\ req[c].slot \in Slots /\ req[c].party \in Nat
                               /\ req[c].party > 0
        /\ \A x \in Cancellers : target[x] \in Creators
    BY <2>p, NumbersAssumption DEF Request
  <2>r. /\ \A s \in Slots : slot[s].booked \in Nat /\ slot[s].capacity \in Nat
        /\ \A p \in Procs : mem[p].booked \in Nat /\ mem[p].capacity \in Nat
    BY <2>p DEF SlotRow
  <2>1. ASSUME NEW c \in Creators,
               \/ CreateCheckKey(c) \/ CreateLock(c) \/ CreateCache(c)
               \/ CreateGetLock(c) \/ CreateDelLock(c)
        PROVE  CapacityInv'
    BY <2>1, <2>p, DistinctAssumption
       DEF CreateCheckKey, CreateLock, CreateCache, CreateGetLock, CreateDelLock
  <2>2. ASSUME NEW c \in Creators, CreateSelectSlot(c) PROVE CapacityInv'
    BY <2>2, <2>p, <2>q, <2>r, DistinctAssumption DEF CreateSelectSlot, Remaining
  <2>3. ASSUME NEW c \in Creators, CreateCommit(c) PROVE CapacityInv'
    <3> DEFINE s == req[c].slot
    <3>1. /\ slot'[s].capacity = slot[s].capacity
          /\ slot'[s].booked <= slot'[s].capacity
      BY <2>3, <2>p, <2>q DEF CreateCommit, WithSeatsTaken
    <3>2. \A r \in Slots : r # s => slot'[r] = slot[r]
      BY <2>3, <2>p DEF CreateCommit
    <3> QED BY <3>1, <3>2, <2>3, <2>p, <2>q, DistinctAssumption DEF CreateCommit, Forget
  <2>4. ASSUME NEW c \in Creators, CreateFail(c) PROVE CapacityInv'
    BY <2>4, <2>p, DistinctAssumption DEF CreateFail, Forget
  <2>5. ASSUME NEW x \in Cancellers,
               CancelRead(x) \/ CancelDiffBooking(x) \/ CancelUpdateBooking(x)
        PROVE  CapacityInv'
    BY <2>5, <2>p, DistinctAssumption DEF CancelRead, CancelDiffBooking, CancelUpdateBooking
  <2>6. ASSUME NEW x \in Cancellers, CancelReadSlot(x) PROVE CapacityInv'
    <3> DEFINE row == WithSeatsReturned(slot[req[target[x]].slot], req[target[x]].party)
    <3>1. /\ row.capacity = slot[req[target[x]].slot].capacity
          /\ row.booked <= row.capacity
      BY <2>q, <2>r DEF WithSeatsReturned
    <3> QED BY <3>1, <2>6, <2>p, DistinctAssumption DEF CancelReadSlot
  <2>7. ASSUME NEW x \in Cancellers, CancelDiffSlot(x) PROVE CapacityInv'
    BY <2>7, <2>p, DistinctAssumption DEF CancelDiffSlot
  <2>8. ASSUME NEW x \in Cancellers, CancelCommit(x) PROVE CapacityInv'
    <3> DEFINE s == req[target[x]].slot
    <3>1. /\ slot'[s].capacity = slot[s].capacity
          /\ slot'[s].booked <= slot'[s].capacity
      BY <2>8, <2>p, <2>q DEF CancelCommit, Merge
    <3>2. \A r \in Slots : r # s => slot'[r] = slot[r]
      BY <2>8, <2>p DEF CancelCommit
    <3> QED BY <3>1, <3>2, <2>8, <2>p, <2>q, DistinctAssumption DEF CancelCommit, Forget
  <2>9. ASSUME NEW y \in Completers, CompleteRead(y) \/ CompleteDiff(y) \/ CompleteSave(y)
        PROVE  CapacityInv'
    BY <2>9, <2>p, DistinctAssumption DEF CompleteRead, CompleteDiff, CompleteSave, Forget
  <2>10. ASSUME NEW s \in Slots, LockExpire(s) PROVE CapacityInv'
    BY <2>10 DEF LockExpire
  <2>11. ASSUME NEW k \in Keys, KeyExpire(k) PROVE CapacityInv'
    BY <2>11 DEF KeyExpire
  <2>12. ASSUME NEW p \in Procs, Die(p) PROVE CapacityInv'
    BY <2>12, <2>p, DistinctAssumption DEF Die, Forget
  <2>13. ASSUME UNCHANGED vars PROVE CapacityInv'
    BY <2>13 DEF vars
  <2> QED
    BY <2>1, <2>2, <2>3, <2>4, <2>5, <2>6, <2>7, <2>8, <2>9, <2>10, <2>11, <2>12, <2>13
       DEF Next, CreateStep, CancelStep, CompleteStep
<1> QED BY <1>1, <1>2, PTL DEF Spec

\* No interleaving of creations, cancellations and completions takes the count
\* of a slot above its capacity, whichever columns their saves write.
THEOREM CountStaysWithinCapacity ==
  ASSUME Offers = {}
  PROVE  Spec => []CountWithinCapacity
BY CapacityInvariant, PTL DEF CapacityInv

\* The capacity that a running save may write back is the one in the table.
SavesKeepCapacity ==
  \A x \in Cancellers :
    pc[x] = "commit" => mem[x].capacity = slot[req[target[x]].slot].capacity

\* Then a step that changes the capacity of a slot is the guide's edit of it.
LEMMA CapacityStep ==
  ASSUME CreationInv, SavesKeepCapacity, [Next]_vars,
         NEW s \in Slots, slot'[s].capacity # slot[s].capacity
  PROVE  \E n \in Offers : UpdateAvailability(s, n)
<1> SUFFICES ASSUME \A n \in Offers : ~ UpdateAvailability(s, n) PROVE FALSE
  OBVIOUS
<1>t. /\ slot \in [Slots -> SlotRow]
      /\ \A c \in Creators : req[c].slot \in Slots
      /\ \A x \in Cancellers : target[x] \in Creators
  BY DEF CreationInv, TypeOK, Request
<1>1. ASSUME NEW c \in Creators PROVE ~ CreateCommit(c)
  BY <1>t DEF CreateCommit, WithSeatsTaken, CreationInv, Uncommitted
<1>2. ASSUME NEW x \in Cancellers PROVE ~ CancelCommit(x)
  BY <1>t DEF CancelCommit, Merge, SavesKeepCapacity
<1>3. ASSUME NEW r \in Slots, NEW n \in Offers PROVE ~ UpdateAvailability(r, n)
  BY <1>t DEF UpdateAvailability
<1>4. slot' = slot
  BY <1>1, <1>2, <1>3
     DEF Next, vars, CreateStep, CancelStep, CompleteStep, CreateCheckKey, CreateLock,
         CreateSelectSlot, CreateCache, CreateFail, CreateGetLock, CreateDelLock, CancelRead,
         CancelDiffBooking, CancelUpdateBooking, CancelReadSlot, CancelDiffSlot, CompleteRead,
         CompleteDiff, CompleteSave, LockExpire, KeyExpire, Die
<1> QED BY <1>4

\* With no cancellation and no edit about, no slot is sold beyond its capacity,
\* with or without Redis, whatever expires, fails or dies.
THEOREM CreationsNeverOverbook ==
  ASSUME Cancellers = {}, Offers = {}
  PROVE  Spec => []NoOverbooking
<1>1. SeatsAccounted /\ CountWithinCapacity => NoOverbooking
  <2>1. \A S : Ledger!Cardinality(S) = Cardinality(S)
    BY DEF Ledger!Cardinality, Cardinality
  <2> QED BY <2>1 DEF SeatsAccounted, CountWithinCapacity, NoOverbooking, Ledger!CountIsSeats
<1> QED BY <1>1, CreationsAccountSeats, CountStaysWithinCapacity, PTL

-----------------------------------------------------------------------------
(* What the clients are told.                                              *)

\* Before its commit a creation has no row and has answered nothing; after it
\* the row stays, and a cancellation or completion is about a row that exists.
AnswerInv ==
  /\ TypeOK
  /\ AnswersAreTrue
  /\ \A c \in Creators :
       /\ pc[c] \in {"idle", "lock", "tx", "insert"} => booking[c] = "none" /\ reply[c] = "none"
       /\ pc[c] = "cache" => booking[c] # "none" /\ reply[c] = "none"
  /\ TargetsExist

\* Whatever runs at the same time, expires or dies, an answer of createBooking
\* agrees with the table, and a cached answer is about a booking with its key.
THEOREM AnswersStayTrue == Spec => []AnswersAreTrue
<1>1. Init => AnswerInv
  BY TypeOKStarts DEF Init, AnswerInv, AnswersAreTrue, TargetsExist, Procs
<1>2. AnswerInv /\ [Next]_vars => AnswerInv'
  <2> SUFFICES ASSUME AnswerInv, [Next]_vars, TypeOK' PROVE AnswerInv'
    BY TypeOKStep DEF AnswerInv
  <2> USE DEF AnswerInv, AnswersAreTrue, TargetsExist, Goto, Answer, Procs
  <2>p. /\ pc \in [Procs -> PcLabels] /\ booking \in [Creators -> BookingStatus]
        /\ idem \in [Keys -> Creators \cup {None}]
        /\ reply \in [Creators -> {"none", "replayed", "conflict", "created", "error"}]
        /\ \A c \in Creators : req[c].key \in Keys \cup {NoKey}
        /\ target \in [Cancellers \cup Completers -> Creators]
    BY DEF TypeOK, Request
  <2>1. ASSUME NEW c \in Creators, CreateCheckKey(c) PROVE AnswerInv'
    <3>1. CASE HasRedis /\ req[c].key # NoKey /\ idem[req[c].key] # None
      <4> DEFINE b == idem[req[c].key]
      <4>1. b \in Creators /\ booking[b] # "none" /\ req[b].key = req[c].key
        BY <3>1, <2>p
      <4>2. b # c
        BY <2>1, <4>1 DEF CreateCheckKey
      <4> QED BY <3>1, <4>1, <4>2, <2>1, <2>p, DistinctAssumption DEF CreateCheckKey
    <3>2. CASE ~ (HasRedis /\ req[c].key # NoKey /\ idem[req[c].key] # None)
      BY <3>2, <2>1, <2>p, DistinctAssumption DEF CreateCheckKey
    <3> QED BY <3>1, <3>2
  <2>2. ASSUME NEW c \in Creators, CreateLock(c) PROVE AnswerInv'
    BY <2>2, <2>p, DistinctAssumption DEF CreateLock
  <2>3. ASSUME NEW c \in Creators, CreateSelectSlot(c) PROVE AnswerInv'
    BY <2>3, <2>p, DistinctAssumption DEF CreateSelectSlot
  <2>4. ASSUME NEW c \in Creators, CreateCommit(c) PROVE AnswerInv'
    BY <2>4, <2>p, DistinctAssumption DEF CreateCommit
  <2>5. ASSUME NEW c \in Creators, CreateCache(c) PROVE AnswerInv'
    BY <2>5, <2>p, DistinctAssumption DEF CreateCache
  <2>6. ASSUME NEW c \in Creators, CreateFail(c) PROVE AnswerInv'
    BY <2>6, <2>p, DistinctAssumption DEF CreateFail
  <2>7. ASSUME NEW c \in Creators, CreateGetLock(c) PROVE AnswerInv'
    BY <2>7, <2>p, DistinctAssumption DEF CreateGetLock
  <2>8. ASSUME NEW c \in Creators, CreateDelLock(c) PROVE AnswerInv'
    BY <2>8, <2>p, DistinctAssumption DEF CreateDelLock
  <2>9. ASSUME NEW x \in Cancellers, CancelRead(x) PROVE AnswerInv'
    BY <2>9, <2>p, DistinctAssumption DEF CancelRead
  <2>10. ASSUME NEW x \in Cancellers, CancelDiffBooking(x) PROVE AnswerInv'
    BY <2>10, <2>p, DistinctAssumption DEF CancelDiffBooking
  <2>11. ASSUME NEW x \in Cancellers, CancelUpdateBooking(x) PROVE AnswerInv'
    BY <2>11, <2>p, DistinctAssumption DEF CancelUpdateBooking
  <2>12. ASSUME NEW x \in Cancellers, CancelReadSlot(x) PROVE AnswerInv'
    BY <2>12, <2>p, DistinctAssumption DEF CancelReadSlot
  <2>13. ASSUME NEW x \in Cancellers, CancelDiffSlot(x) PROVE AnswerInv'
    BY <2>13, <2>p, DistinctAssumption DEF CancelDiffSlot
  <2>14. ASSUME NEW x \in Cancellers, CancelCommit(x) PROVE AnswerInv'
    <3>1. booking[target[x]] # "none" /\ target[x] \in Creators
      BY <2>14, <2>p DEF CancelCommit
    <3>2. \A c \in Creators : booking'[c] = "none" <=> booking[c] = "none"
      BY <2>14, <2>p, <3>1 DEF CancelCommit
    <3> QED BY <2>14, <2>p, <3>2, DistinctAssumption DEF CancelCommit
  <2>15. ASSUME NEW y \in Completers, CompleteRead(y) PROVE AnswerInv'
    BY <2>15, <2>p, DistinctAssumption DEF CompleteRead
  <2>16. ASSUME NEW y \in Completers, CompleteDiff(y) PROVE AnswerInv'
    BY <2>16, <2>p, DistinctAssumption DEF CompleteDiff
  <2>17. ASSUME NEW y \in Completers, CompleteSave(y) PROVE AnswerInv'
    <3>1. booking[target[y]] # "none" /\ target[y] \in Creators
      BY <2>17, <2>p DEF CompleteSave
    <3>2. \A c \in Creators : booking'[c] = "none" <=> booking[c] = "none"
      BY <2>17, <2>p, <3>1 DEF CompleteSave
    <3> QED BY <2>17, <2>p, <3>2, DistinctAssumption DEF CompleteSave
  <2>18. ASSUME NEW s \in Slots, NEW n \in Offers, UpdateAvailability(s, n) PROVE AnswerInv'
    BY <2>18 DEF UpdateAvailability
  <2>19. ASSUME NEW s \in Slots, LockExpire(s) PROVE AnswerInv'
    BY <2>19 DEF LockExpire
  <2>20. ASSUME NEW k \in Keys, KeyExpire(k) PROVE AnswerInv'
    BY <2>20, <2>p DEF KeyExpire
  <2>21. ASSUME NEW p \in Procs, Die(p) PROVE AnswerInv'
    BY <2>21, <2>p, DistinctAssumption DEF Die
  <2>22. ASSUME UNCHANGED vars PROVE AnswerInv'
    BY <2>22 DEF vars
  <2> QED
    BY <2>1, <2>2, <2>3, <2>4, <2>5, <2>6, <2>7, <2>8, <2>9, <2>10, <2>11, <2>12, <2>13,
       <2>14, <2>15, <2>16, <2>17, <2>18, <2>19, <2>20, <2>21, <2>22
       DEF Next, CreateStep, CancelStep, CompleteStep
<1> QED BY <1>1, <1>2, PTL DEF Spec, AnswerInv

-----------------------------------------------------------------------------
(* Theorems of the booking service when its handlers run one at a time,    *)
(* cancellations and completions included: the executions of a client that *)
(* waits for every answer.  What breaks when handlers overlap is shown by  *)
(* the runs that find a violation.                                         *)

-----------------------------------------------------------------------------
(* One handler.                                                            *)

\* At most one handler is running.
Alone == \A p, q \in InFlight : p = q

\* With room for one handler, a request is admitted only when none is running.
LEMMA AdmittedAlone ==
  ASSUME MaxInFlight = 1, Alone, Admitted
  PROVE  InFlight = {}
<1> SUFFICES ASSUME NEW p \in InFlight PROVE FALSE
  OBVIOUS
<1>1. InFlight = {p}
  BY DEF Alone
<1>2. Cardinality(InFlight) = 1
  BY <1>1, FS_Singleton
<1> QED BY <1>2 DEF Admitted

\* No handler is running next to the one that takes a step.
LEMMA OthersRest ==
  ASSUME Alone, NEW p \in Procs, pc[p] \notin {"idle", "done", "dead"},
         NEW q \in Procs, q # p
  PROVE  pc[q] \in {"idle", "done", "dead"}
BY DEF Alone, InFlight

\* A cancellation is about a live booking, has found its status to change, and
\* computed the slot's new row from the row that is still there.
CancelSound(x) ==
  LET b   == target[x]
      row == slot[req[b].slot]
  IN  /\ pc[x] \in {"begin", "update", "read", "save", "commit"} => booking[b] = "confirmed"
      /\ pc[x] \in {"update", "read", "save"} => dirty[x] = {"cancel"}
      /\ pc[x] \in {"save", "commit"} => mem[x] = WithSeatsReturned(row, req[b].party)
      /\ pc[x] = "commit" => dirty[x] = {"cancel"} \cup Changed(mem[x], row)
CancelInv == \A x \in Cancellers : CancelSound(x)

\* A completion is about a live booking.
CompleteInv ==
  \A y \in Completers : pc[y] \in {"complete", "store"} => booking[target[y]] = "confirmed"

SerialInv == CreationInv /\ Alone /\ CancelInv /\ CompleteInv

\* What save() writes is the entity: the columns it leaves out did not differ.
LEMMA SaveWritesEntity ==
  ASSUME NEW row \in SlotRow, NEW entity \in SlotRow
  PROVE  Merge(row, entity, {"cancel"} \cup Changed(entity, row)) = entity
BY DEF Merge, Changed, Columns, SlotRow

\* Every step of the only handler keeps the inductive invariant.
LEMMA SerialStep ==
  ASSUME MaxInFlight = 1, SerialInv, [Next]_vars
  PROVE  SerialInv'
<1>i. CreationInv' /\ TypeOK /\ TypeOK'
  BY CreationStep DEF SerialInv, CreationInv
<1> SUFFICES Alone' /\ CancelInv' /\ CompleteInv'
  BY <1>i DEF SerialInv
<1> USE DEF Goto, Procs
<1>p. /\ pc \in [Procs -> PcLabels] /\ mem \in [Procs -> SlotRow]
      /\ dirty \in [Procs -> SUBSET (Columns \cup {"cancel", "complete"})]
      /\ booking \in [Creators -> BookingStatus] /\ slot \in [Slots -> SlotRow]
      /\ \A c \in Creators : req[c].slot \in Slots /\ req[c].party \in 1..MaxParty
      /\ \A p \in Cancellers \cup Completers : target[p] \in Creators
  BY <1>i DEF TypeOK, Request
<1>a. Admitted => \A p \in Procs : pc[p] \in {"idle", "done", "dead"}
  BY AdmittedAlone DEF SerialInv, InFlight
<1>b. ASSUME NEW p \in Procs, pc[p] \notin {"idle", "done", "dead"}
      PROVE  \A q \in Procs : q # p => pc[q] \in {"idle", "done", "dead"}
  BY <1>b, OthersRest DEF SerialInv
\* A step of p, alone, leaves at most p running.
<1>c. ASSUME NEW p \in Procs, NEW l, pc' = [pc EXCEPT ![p] = l],
             \A q \in Procs : q # p => pc[q] \in {"idle", "done", "dead"}
      PROVE  /\ Alone'
             /\ \A q \in Procs : q # p => pc'[q] \in {"idle", "done", "dead"}
             /\ pc'[p] = l
  BY <1>c, <1>p DEF Alone, InFlight
\* When no cancellation or completion is running, nothing is asked of one.
<1>d. ASSUME \A p \in Cancellers \cup Completers : pc'[p] \in {"idle", "done", "dead"}
      PROVE  CancelInv' /\ CompleteInv'
  BY <1>d DEF CancelInv, CancelSound, CompleteInv
<1>1. ASSUME NEW c \in Creators, CreateCheckKey(c) \/ CreateStep(c) \/ CreateFail(c)
      PROVE  Alone' /\ CancelInv' /\ CompleteInv'
  <2>1. \A q \in Procs : q # c => pc[q] \in {"idle", "done", "dead"}
    <3>1. CASE CreateCheckKey(c)
      BY <3>1, <1>a DEF CreateCheckKey
    <3>2. CASE CreateStep(c) \/ CreateFail(c)
      <4>1. pc[c] \notin {"idle", "done", "dead"}
        BY <3>2 DEF CreateStep, CreateLock, CreateSelectSlot, CreateCommit, CreateCache,
                    CreateFail, CreateGetLock, CreateDelLock
      <4> QED BY <4>1, <1>b
    <3> QED BY <3>1, <3>2, <1>1
  <2>2. \E l : pc' = [pc EXCEPT ![c] = l]
    BY <1>1 DEF CreateStep, CreateCheckKey, CreateLock, CreateSelectSlot, CreateCommit,
                CreateCache, CreateFail, CreateGetLock, CreateDelLock
  <2>3. Alone' /\ \A q \in Procs : q # c => pc'[q] \in {"idle", "done", "dead"}
    BY <2>1, <2>2, <1>c
  <2> QED BY <2>3, <1>d, DistinctAssumption
<1>2. ASSUME NEW x \in Cancellers, CancelRead(x) \/ CancelStep(x)
      PROVE  Alone' /\ CancelInv' /\ CompleteInv'
  <2>1. \A q \in Procs : q # x => pc[q] \in {"idle", "done", "dead"}
    <3>1. CASE CancelRead(x)
      BY <3>1, <1>a DEF CancelRead
    <3>2. CASE CancelStep(x)
      <4>1. pc[x] \notin {"idle", "done", "dead"}
        BY <3>2 DEF CancelStep, CancelDiffBooking, CancelUpdateBooking, CancelReadSlot,
                    CancelDiffSlot, CancelCommit
      <4> QED BY <4>1, <1>b
    <3> QED BY <3>1, <3>2, <1>2
  <2>2. \E l : pc' = [pc EXCEPT ![x] = l]
    BY <1>2 DEF CancelRead, CancelStep, CancelDiffBooking, CancelUpdateBooking,
                CancelReadSlot, CancelDiffSlot, CancelCommit
  <2>3. Alone' /\ \A q \in Procs : q # x => pc'[q] \in {"idle", "done", "dead"}
    BY <2>1, <2>2, <1>c
  <2>4. CompleteInv'
    BY <2>3, DistinctAssumption DEF CompleteInv
  <2>5. \A z \in Cancellers : z # x => CancelSound(z)'
    BY <2>3 DEF CancelSound
  <2>6. CancelSound(x)
    BY DEF SerialInv, CancelInv
  <2>7. CancelSound(x)'
    <3>1. CASE CancelRead(x)
      BY <3>1, <1>p DEF CancelRead, CancelSound, TypeOK, BookingStatus
    <3>2. CASE CancelDiffBooking(x)
      BY <3>2, <2>6, <1>p DEF CancelDiffBooking, CancelSound
    <3>3. CASE CancelUpdateBooking(x)
      BY <3>3, <2>6, <1>p DEF CancelUpdateBooking, CancelSound
    <3>4. CASE CancelReadSlot(x)
      BY <3>4, <2>6, <1>p DEF CancelReadSlot, CancelSound
    <3>5. CASE CancelDiffSlot(x)
      BY <3>5, <2>6, <1>p DEF CancelDiffSlot, CancelSound
    <3>6. CASE CancelCommit(x)
      BY <3>6, <1>p DEF CancelCommit, CancelSound
    <3> QED BY <1>2, <3>1, <3>2, <3>3, <3>4, <3>5, <3>6 DEF CancelStep
  <2> QED BY <2>3, <2>4, <2>5, <2>7 DEF CancelInv
<1>3. ASSUME NEW y \in Completers, CompleteRead(y) \/ CompleteStep(y)
      PROVE  Alone' /\ CancelInv' /\ CompleteInv'
  <2>1. \A q \in Procs : q # y => pc[q] \in {"idle", "done", "dead"}
    <3>1. CASE CompleteRead(y)
      BY <3>1, <1>a DEF CompleteRead
    <3>2. CASE CompleteStep(y)
      <4>1. pc[y] \notin {"idle", "done", "dead"}
        BY <3>2 DEF CompleteStep, CompleteDiff, CompleteSave
      <4> QED BY <4>1, <1>b
    <3> QED BY <3>1, <3>2, <1>3
  <2>2. \E l : pc' = [pc EXCEPT ![y] = l]
    BY <1>3 DEF CompleteRead, CompleteStep, CompleteDiff, CompleteSave
  <2>3. Alone' /\ \A q \in Procs : q # y => pc'[q] \in {"idle", "done", "dead"}
    BY <2>1, <2>2, <1>c
  <2>4. CancelInv'
    BY <2>3, DistinctAssumption DEF CancelInv, CancelSound
  <2>5. CompleteInv'
    BY <2>3, <1>3, <1>p
       DEF SerialInv, CompleteInv, CompleteRead, CompleteStep, CompleteDiff, CompleteSave
  <2> QED BY <2>3, <2>4, <2>5
<1>4. ASSUME NEW s \in Slots, NEW n \in Offers, UpdateAvailability(s, n)
      PROVE  Alone' /\ CancelInv' /\ CompleteInv'
  <2>1. \A p \in Procs : pc'[p] \in {"idle", "done", "dead"}
    BY <1>4, <1>a DEF UpdateAvailability
  <2> QED BY <2>1, <1>d DEF Alone, InFlight
<1>5. ASSUME NEW p \in Procs, Die(p) PROVE Alone' /\ CancelInv' /\ CompleteInv'
  <2>1. \A q \in Procs : q # p => pc[q] \in {"idle", "done", "dead"}
    BY <1>5, <1>b DEF Die, InFlight
  <2>2. pc' = [pc EXCEPT ![p] = "dead"]
    BY <1>5 DEF Die
  <2>3. Alone' /\ \A q \in Procs : pc'[q] \in {"idle", "done", "dead"}
    BY <2>1, <2>2, <1>c, <1>p
  <2> QED BY <2>3, <1>d
<1>6. ASSUME UNCHANGED <<slot, booking, pc, req, target, mem, dirty>>
      PROVE  Alone' /\ CancelInv' /\ CompleteInv'
  BY <1>6 DEF SerialInv, Alone, InFlight, CancelInv, CancelSound, CompleteInv
<1>7. \/ \E s \in Slots : LockExpire(s)
      \/ \E k \in Keys : KeyExpire(k)
      \/ UNCHANGED vars
      => UNCHANGED <<slot, booking, pc, req, target, mem, dirty>>
  BY DEF LockExpire, KeyExpire, vars
<1> QED BY <1>1, <1>2, <1>3, <1>4, <1>5, <1>6, <1>7 DEF Next

\* One handler at a time keeps the inductive invariant.
LEMMA SerialInvariant ==
  ASSUME MaxInFlight = 1
  PROVE  Spec => []SerialInv
<1>1. Init => SerialInv
  BY CreationStarts DEF Init, SerialInv, Alone, InFlight, CancelInv, CancelSound, CompleteInv, Procs
<1>2. SerialInv /\ [Next]_vars => SerialInv'
  BY SerialStep
<1> QED BY <1>1, <1>2, PTL DEF Spec

-----------------------------------------------------------------------------
(* Cancellations implement the ledger too.                                 *)

\* The ledger's books, at the tables.
BooksInv == SerialInv /\ Proved!LedgerInv

\* What the theorems of the ledger ask of the constants holds.
LEMMA LedgerAssumptionHolds == Proved!LedgerAssumption
BY NumbersAssumption, FiniteAssumption
   DEF IsFiniteSet, Proved!IsFiniteSet, Proved!LedgerAssumption

\* The commit of a cancellation gives back exactly the seats of its booking:
\* the Math.max(0, ...) of the code never cuts anything off.
LEMMA CancelRefined ==
  ASSUME BooksInv, NEW x \in Cancellers, CancelCommit(x), NEW b \in Creators, b = target[x]
  PROVE  Ledger!Cancel(b)
<1> DEFINE s == req[b].slot
           p == req[b].party
           row == WithSeatsReturned(slot[s], p)
<1>t. /\ slot \in [Slots -> SlotRow] /\ booking \in [Creators -> BookingStatus]
      /\ mem \in [Procs -> SlotRow] /\ x \in Procs
      /\ s \in Slots /\ p \in 1..MaxParty
  BY DEF BooksInv, SerialInv, CreationInv, TypeOK, Request, Procs
<1>1. /\ booking[b] = "confirmed" /\ mem[x] = row
      /\ dirty[x] = {"cancel"} \cup Changed(mem[x], slot[s])
  BY DEF BooksInv, SerialInv, CancelInv, CancelSound, CancelCommit
<1>2. p <= slot[s].booked
  <2>1. Proved!LedgerInv /\ booking[b] \in {"confirmed", "completed"}
    BY <1>1 DEF BooksInv
  <2>2. p <= [r \in Slots |-> slot[r].booked][s]
    BY <1>t, <2>1, LedgerAssumptionHolds, Proved!HeldIsCounted
  <2> QED BY <2>2, <1>t
<1>3. slot' = [slot EXCEPT ![s] = row]
  <2>1. Merge(slot[s], mem[x], dirty[x]) = mem[x]
    BY <1>1, <1>t, SaveWritesEntity
  <2> QED BY <2>1, <1>1 DEF CancelCommit
<1>4. row.capacity = slot[s].capacity /\ row.booked = slot[s].booked - p
  BY <1>2, <1>t, NumbersAssumption DEF WithSeatsReturned, SlotRow
<1>5. [r \in Slots |-> slot'[r].capacity] = [r \in Slots |-> slot[r].capacity]
  BY <1>3, <1>4, <1>t
<1>6. [r \in Slots |-> slot'[r].booked] = [[r \in Slots |-> slot[r].booked] EXCEPT ![s] = @ - p]
  BY <1>3, <1>4, <1>t
<1>7. booking' = [booking EXCEPT ![b] = "cancelled"] /\ req' = req
  BY <1>1 DEF CancelCommit
<1> QED BY <1>1, <1>5, <1>6, <1>7 DEF Ledger!Cancel

\* The update of a completion completes a live booking, or nothing.
LEMMA CompleteRefined ==
  ASSUME SerialInv, NEW y \in Completers, CompleteSave(y)
  PROVE  [Ledger!LedgerNext]_Ledger!ledgerVars
<1>t. target[y] \in Creators /\ booking \in [Creators -> BookingStatus]
  BY DEF SerialInv, CreationInv, TypeOK
<1>1. CASE "complete" \in dirty[y]
  <2>1. booking[target[y]] = "confirmed"
    BY DEF SerialInv, CompleteInv, CompleteSave
  <2>2. Ledger!Complete(target[y])
    BY <1>1, <2>1 DEF CompleteSave, Ledger!Complete
  <2> QED BY <2>2, <1>t DEF Ledger!LedgerNext
<1>2. CASE "complete" \notin dirty[y]
  <2>1. booking' = booking
    BY <1>2, <1>t DEF CompleteSave
  <2> QED BY <2>1, TablesAlone DEF CompleteSave
<1> QED BY <1>1, <1>2

\* A step of the only handler is one step of the ledger, or none.
LEMMA SerialStepRefined ==
  ASSUME BooksInv, [Next]_vars
  PROVE  [Ledger!LedgerNext]_Ledger!ledgerVars
<1> DEFINE Refined == [Ledger!LedgerNext]_Ledger!ledgerVars
<1>i. SerialInv /\ CreationInv /\ TypeOK
  BY DEF BooksInv, SerialInv, CreationInv
<1>a. ASSUME UNCHANGED <<slot, booking, req>> PROVE Refined
  BY <1>a, TablesAlone
<1>1. ASSUME NEW c \in Creators, CreateCommit(c) PROVE Refined
  BY <1>1, <1>i, BookRefined DEF Ledger!LedgerNext
<1>2. ASSUME NEW x \in Cancellers, CancelCommit(x) PROVE Refined
  <2>1. target[x] \in Creators
    BY <1>i DEF TypeOK
  <2>2. \A b \in Creators : b = target[x] => Ledger!Cancel(b)
    BY <1>2, CancelRefined
  <2>3. \A b \in Creators : Ledger!Cancel(b) => Refined
    BY DEF Ledger!LedgerNext
  <2> QED BY <2>1, <2>2, <2>3
<1>3. ASSUME NEW y \in Completers, CompleteSave(y) PROVE Refined
  BY <1>3, <1>i, CompleteRefined
<1>4. ASSUME NEW s \in Slots, NEW n \in Offers, UpdateAvailability(s, n) PROVE Refined
  BY <1>4, <1>i, PublishRefined DEF Ledger!LedgerNext
<1>5. ASSUME NEW c \in Creators,
             \/ CreateCheckKey(c) \/ CreateLock(c) \/ CreateSelectSlot(c) \/ CreateCache(c)
             \/ CreateFail(c) \/ CreateGetLock(c) \/ CreateDelLock(c)
      PROVE  Refined
  BY <1>5, <1>a DEF CreateCheckKey, CreateLock, CreateSelectSlot, CreateCache, CreateFail,
                    CreateGetLock, CreateDelLock
<1>6. ASSUME NEW x \in Cancellers,
             \/ CancelRead(x) \/ CancelDiffBooking(x) \/ CancelUpdateBooking(x)
             \/ CancelReadSlot(x) \/ CancelDiffSlot(x)
      PROVE  Refined
  BY <1>6, <1>a DEF CancelRead, CancelDiffBooking, CancelUpdateBooking, CancelReadSlot,
                    CancelDiffSlot
<1>7. ASSUME NEW y \in Completers, CompleteRead(y) \/ CompleteDiff(y) PROVE Refined
  BY <1>7, <1>a DEF CompleteRead, CompleteDiff
<1>8. /\ \A s \in Slots : LockExpire(s) => Refined
      /\ \A k \in Keys : KeyExpire(k) => Refined
      /\ \A p \in Procs : Die(p) => Refined
  BY <1>a DEF LockExpire, KeyExpire, Die
<1>9. CASE UNCHANGED vars
  BY <1>9, <1>a DEF vars
<1> QED
  BY <1>1, <1>2, <1>3, <1>4, <1>5, <1>6, <1>7, <1>8, <1>9
     DEF Next, CreateStep, CancelStep, CompleteStep

\* One handler at a time keeps the books.
LEMMA BooksInvariant ==
  ASSUME MaxInFlight = 1
  PROVE  Spec => []BooksInv
<1>1. Init => Proved!LedgerInv
  BY LedgerInitRefined, SameLedger, LedgerAssumptionHolds, Proved!LedgerStarts
<1>2. BooksInv /\ [Next]_vars => Proved!LedgerInv'
  <2> SUFFICES ASSUME BooksInv, [Next]_vars PROVE Proved!LedgerInv'
    OBVIOUS
  <2>1. [Proved!LedgerNext]_Proved!ledgerVars
    BY SerialStepRefined, SameLedger
  <2> QED BY <2>1, LedgerAssumptionHolds, Proved!LedgerStep DEF BooksInv
<1>3. Spec => []SerialInv
  BY SerialInvariant
<1> QED BY <1>1, <1>2, <1>3, PTL DEF Spec, BooksInv

\* One at a time, bookings, cancellations, completions and calendar edits are
\* steps of the ledger: a cancellation gives its seats back exactly once.
THEOREM HandlersImplementLedger ==
  ASSUME MaxInFlight = 1
  PROVE  Spec => ImplementsLedger
<1>1. Spec => []BooksInv
  BY BooksInvariant
<1>2. BooksInv /\ [Next]_vars => [Ledger!LedgerNext]_Ledger!ledgerVars
  BY SerialStepRefined
<1> QED BY <1>1, <1>2, LedgerInitRefined, PTL DEF Spec, ImplementsLedger, Ledger!LedgerSpec

\* One at a time, the booked column of every slot is the number of participants
\* of its live bookings, whatever was cancelled, failed or edited before.
THEOREM HandlersAccountSeats ==
  ASSUME MaxInFlight = 1
  PROVE  Spec => []SeatsAccounted
<1>1. BooksInv => SeatsAccounted
  BY SameLedger DEF BooksInv
<1> QED BY <1>1, BooksInvariant, PTL

\* One at a time, and with no edit of the calendar, no slot is sold beyond its
\* capacity, cancellations included.
THEOREM HandlersNeverOverbook ==
  ASSUME MaxInFlight = 1, Offers = {}
  PROVE  Spec => []NoOverbooking
<1>1. SeatsAccounted /\ CountWithinCapacity => NoOverbooking
  <2>1. \A S : Ledger!Cardinality(S) = Cardinality(S)
    BY DEF Ledger!Cardinality, Cardinality
  <2> QED BY <2>1 DEF SeatsAccounted, CountWithinCapacity, NoOverbooking, Ledger!CountIsSeats
<1> QED BY <1>1, HandlersAccountSeats, CountStaysWithinCapacity, PTL

-----------------------------------------------------------------------------
(* A slot is sold out only while it is full.                               *)

\* A slot with seats taken, or given back, is sold out only when it is full.
LEMMA SoldOutRows ==
  ASSUME NEW row \in SlotRow, NEW p \in 1..MaxParty,
         row.status = "booked" => row.booked >= row.capacity
  PROVE  /\ WithSeatsTaken(row, p).status = "booked"
              => WithSeatsTaken(row, p).booked >= row.capacity
         /\ WithSeatsReturned(row, p).status = "booked"
              => WithSeatsReturned(row, p).booked >= row.capacity
BY NumbersAssumption DEF WithSeatsTaken, WithSeatsReturned, SlotRow

\* A step keeps it so, when what a cancellation writes is what it computed from
\* the row it finds.
LEMMA SoldOutStep ==
  ASSUME CreationInv, CancelInv, SoldOutMeansFull, [Next]_vars
  PROVE  SoldOutMeansFull'
<1>t. /\ slot \in [Slots -> SlotRow] /\ mem \in [Procs -> SlotRow]
      /\ \A c \in Creators : req[c].slot \in Slots /\ req[c].party \in 1..MaxParty
      /\ \A x \in Cancellers : target[x] \in Creators
  BY DEF CreationInv, TypeOK, Request
<1>1. ASSUME NEW c \in Creators, CreateCommit(c) PROVE SoldOutMeansFull'
  <2> DEFINE s == req[c].slot
             row == WithSeatsTaken(slot[s], req[c].party)
  <2>1. mem[c] = slot[s]
    BY <1>1 DEF CreateCommit, CreationInv, Uncommitted
  <2>2. slot' = [slot EXCEPT ![s] = row]
    BY <1>1, <2>1 DEF CreateCommit
  <2>3. row.status = "booked" => row.booked >= row.capacity
    BY <1>t, SoldOutRows DEF SoldOutMeansFull, WithSeatsTaken
  <2> QED BY <2>2, <2>3, <1>t DEF SoldOutMeansFull
<1>2. ASSUME NEW x \in Cancellers, CancelCommit(x) PROVE SoldOutMeansFull'
  <2> DEFINE s == req[target[x]].slot
             row == WithSeatsReturned(slot[s], req[target[x]].party)
  <2>1. mem[x] = row /\ dirty[x] = {"cancel"} \cup Changed(mem[x], slot[s])
    BY <1>2 DEF CancelCommit, CancelInv, CancelSound
  <2>2. slot' = [slot EXCEPT ![s] = row]
    <3>1. Merge(slot[s], mem[x], dirty[x]) = mem[x]
      BY <2>1, <1>t, SaveWritesEntity DEF Procs
    <3> QED BY <3>1, <2>1, <1>2 DEF CancelCommit
  <2>3. row.status = "booked" => row.booked >= row.capacity
    BY <1>t, SoldOutRows DEF SoldOutMeansFull, WithSeatsReturned
  <2> QED BY <2>2, <2>3, <1>t DEF SoldOutMeansFull
<1>3. ASSUME NEW s \in Slots, NEW n \in Offers, UpdateAvailability(s, n)
      PROVE  SoldOutMeansFull'
  BY <1>3, <1>t DEF UpdateAvailability, SoldOutMeansFull
<1>4. ASSUME slot' = slot PROVE SoldOutMeansFull'
  BY <1>4 DEF SoldOutMeansFull
<1> QED
  BY <1>1, <1>2, <1>3, <1>4
     DEF Next, vars, CreateStep, CancelStep, CompleteStep, CreateCheckKey, CreateLock,
         CreateSelectSlot, CreateCache, CreateFail, CreateGetLock, CreateDelLock, CancelRead,
         CancelDiffBooking, CancelUpdateBooking, CancelReadSlot, CancelDiffSlot, CompleteRead,
         CompleteDiff, CompleteSave, LockExpire, KeyExpire, Die

\* One at a time, or however many creations, completions and edits overlap when
\* nobody cancels, no traveller is turned away from a slot that has room.
THEOREM SoldOutIsFull ==
  ASSUME MaxInFlight = 1 \/ Cancellers = {}
  PROVE  Spec => []SoldOutMeansFull
<1>1. Spec => [](CreationInv /\ CancelInv)
  <2>1. CASE MaxInFlight = 1
    BY <2>1, SerialInvariant, PTL DEF SerialInv
  <2>2. CASE Cancellers = {}
    <3>1. CancelInv
      BY <2>2 DEF CancelInv
    <3> QED BY <3>1, RowLockProtects, PTL
  <2> QED BY <2>1, <2>2
<1>2. Init => SoldOutMeansFull
  BY DEF Init, SoldOutMeansFull, AbsentSlot, FreshSlot
<1>3. CreationInv /\ CancelInv /\ SoldOutMeansFull /\ [Next]_vars => SoldOutMeansFull'
  BY SoldOutStep
<1> QED BY <1>1, <1>2, <1>3, PTL DEF Spec

-----------------------------------------------------------------------------
(* What a step may never do.                                               *)

\* With no completion about, no booking is completed.
NeverCompleted == \A c \in Creators : booking[c] # "completed"

\* No booking leaves a final status when it is known what a running cancellation
\* or completion is about.
LEMMA FinalStep ==
  ASSUME CreationInv, [Next]_vars, NEW c \in Creators, booking[c] \in {"cancelled", "completed"},
         \A x \in Cancellers : pc[x] = "commit" => booking[target[x]] # "completed",
         \A y \in Completers : pc[y] = "store" => booking[target[y]] # "cancelled"
  PROVE  booking'[c] = booking[c]
<1>t. booking \in [Creators -> BookingStatus]
  BY DEF CreationInv, TypeOK
<1>1. ASSUME NEW d \in Creators, CreateCommit(d) PROVE booking'[c] = booking[c]
  BY <1>1, <1>t DEF CreateCommit, CreationInv, Uncommitted
<1>2. ASSUME NEW x \in Cancellers, CancelCommit(x) PROVE booking'[c] = booking[c]
  BY <1>2, <1>t DEF CancelCommit
<1>3. ASSUME NEW y \in Completers, CompleteSave(y) PROVE booking'[c] = booking[c]
  BY <1>3, <1>t DEF CompleteSave
<1>4. ASSUME booking' = booking PROVE booking'[c] = booking[c]
  BY <1>4
<1> QED
  BY <1>1, <1>2, <1>3, <1>4
     DEF Next, vars, CreateStep, CancelStep, CompleteStep, CreateCheckKey, CreateLock,
         CreateSelectSlot, CreateCache, CreateFail, CreateGetLock, CreateDelLock, CancelRead,
         CancelDiffBooking, CancelUpdateBooking, CancelReadSlot, CancelDiffSlot, CompleteRead,
         CompleteDiff, UpdateAvailability, LockExpire, KeyExpire, Die

\* With no completion about, no booking becomes completed.
LEMMA NothingCompletes ==
  ASSUME Completers = {}
  PROVE  Spec => []NeverCompleted
<1>1. Init => NeverCompleted
  BY DEF Init, NeverCompleted
<1>2. NeverCompleted /\ TypeOK /\ [Next]_vars => NeverCompleted'
  BY DEF NeverCompleted, TypeOK, Next, vars, CreateStep, CancelStep, CreateCheckKey, CreateLock,
         CreateSelectSlot, CreateCommit, CreateCache, CreateFail, CreateGetLock, CreateDelLock,
         CancelRead, CancelDiffBooking, CancelUpdateBooking, CancelReadSlot, CancelDiffSlot,
         CancelCommit, UpdateAvailability, LockExpire, KeyExpire, Die
<1> QED BY <1>1, <1>2, TypeCorrect, PTL DEF Spec

\* A cancelled or completed booking stays what it is: one handler at a time, or
\* when nobody cancels, or when nobody completes.  The guide's completion and
\* the traveller's cancellation must overlap to break it.
THEOREM FinalStatusIsFinal ==
  ASSUME MaxInFlight = 1 \/ Cancellers = {} \/ Completers = {}
  PROVE  Spec => FinalStatusStays
<1> DEFINE Known == /\ CreationInv
                    /\ \A x \in Cancellers : pc[x] = "commit" => booking[target[x]] # "completed"
                    /\ \A y \in Completers : pc[y] = "store" => booking[target[y]] # "cancelled"
           A == \A c \in Creators :
                  booking[c] \in {"cancelled", "completed"} => booking'[c] = booking[c]
<1>1. Spec => []Known
  <2>1. CASE MaxInFlight = 1
    <3>1. SerialInv => Known
      BY DEF SerialInv, CancelInv, CancelSound, CompleteInv
    <3> QED BY <2>1, <3>1, SerialInvariant, PTL
  <2>2. CASE Cancellers = {}
    <3>1. CreationInv /\ Completing => Known
      BY <2>2 DEF Completing
    <3> QED BY <2>2, <3>1, CreationInvariant, PTL
  <2>3. CASE Completers = {}
    <3>1. CreationInv /\ NeverCompleted => Known
      BY <2>3 DEF NeverCompleted, CreationInv, TypeOK
    <3> QED BY <2>3, <3>1, RowLockProtects, NothingCompletes, PTL
  <2> QED BY <2>1, <2>2, <2>3
<1>2. Known /\ [Next]_vars => [A]_vars
  BY FinalStep
<1>3. FinalStatusStays <=> [][A]_vars
  BY DEF FinalStatusStays
<1> QED BY <1>1, <1>2, <1>3, PTL DEF Spec

\* Only the guide changes the capacity of a slot: one handler at a time, or when
\* nobody cancels, or when the calendar is not edited, so that it never changes.
\* A cancellation and an edit must overlap to break it.
THEOREM OnlyTheGuideSetsCapacity ==
  ASSUME MaxInFlight = 1 \/ Cancellers = {} \/ Offers = {}
  PROVE  Spec => CapacityIsTheGuides
<1> DEFINE A == \A s \in Slots : slot'[s].capacity # slot[s].capacity =>
                  \E n \in Offers : UpdateAvailability(s, n)
<1>1. Spec => [](CreationInv /\ SavesKeepCapacity)
  <2>1. CASE MaxInFlight = 1
    <3>1. SerialInv => CreationInv /\ SavesKeepCapacity
      <4>1. \A row, p : WithSeatsReturned(row, p).capacity = row.capacity
        BY DEF WithSeatsReturned
      <4> QED BY <4>1 DEF SerialInv, CancelInv, CancelSound, SavesKeepCapacity
    <3> QED BY <2>1, <3>1, SerialInvariant, PTL
  <2>2. CASE Cancellers = {}
    <3>1. SavesKeepCapacity
      BY <2>2 DEF SavesKeepCapacity
    <3> QED BY <3>1, RowLockProtects, PTL
  <2>3. CASE Offers = {}
    <3>1. CapacityInv => SavesKeepCapacity
      BY DEF CapacityInv, SavesKeepCapacity
    <3> QED BY <2>3, <3>1, RowLockProtects, CapacityInvariant, PTL
  <2> QED BY <2>1, <2>2, <2>3
<1>2. CreationInv /\ SavesKeepCapacity /\ [Next]_vars => [A]_vars
  BY CapacityStep
<1>3. CapacityIsTheGuides <=> [][A]_vars
  BY DEF CapacityIsTheGuides
<1> QED BY <1>1, <1>2, <1>3, PTL DEF Spec

-----------------------------------------------------------------------------
(* How far stale saves can part the count of a slot from its seats.        *)

\* The live bookings of a slot, and the seats of some bookings.
Held(s) == {b \in Creators : booking[b] \in {"confirmed", "completed"} /\ req[b].slot = s}
Sold(held) == UNION {{b} \X (1..req[b].party) : b \in held}

\* They are the ledger's.
LEMMA SoldIsLedgers ==
  ASSUME NEW s \in Slots
  PROVE  Ledger!SeatsSold(s) = Sold(Held(s))
BY DEF Ledger!SeatsSold, Ledger!Holders, Ledger!Seats, Sold, Held

\* Of requests, the seats are finitely many; more bookings have no fewer; and one
\* booking adds its party at most.
LEMMA SeatsAre ==
  ASSUME req \in [Creators -> Request], NEW held \in SUBSET Creators
  PROVE  /\ IsFiniteSet(Sold(held)) /\ Cardinality(Sold(held)) \in Nat
         /\ \A fewer \in SUBSET held : Cardinality(Sold(fewer)) <= Cardinality(Sold(held))
         /\ \A b \in Creators : Cardinality(Sold(held \cup {b})) <= Cardinality(Sold(held)) + req[b].party
<1>1. \A b \in Creators : req[b].party \in 1..MaxParty
  BY DEF Request
<1>2. \A more \in SUBSET Creators : IsFiniteSet(Sold(more))
  <2> SUFFICES ASSUME NEW more \in SUBSET Creators PROVE IsFiniteSet(Sold(more))
    OBVIOUS
  <2>1. Sold(more) \subseteq Creators \X (1..MaxParty)
    <3>1. \A b \in Creators : 1..req[b].party \subseteq 1..MaxParty
      BY <1>1, NumbersAssumption
    <3> QED BY <3>1 DEF Sold
  <2>2. IsFiniteSet(1..MaxParty)
    BY NumbersAssumption, FS_Interval
  <2> QED BY <2>1, <2>2, FiniteAssumption, FS_Product, FS_Subset
<1>3. ASSUME NEW fewer \in SUBSET held PROVE Cardinality(Sold(fewer)) <= Cardinality(Sold(held))
  <2>1. Sold(fewer) \subseteq Sold(held)
    BY DEF Sold
  <2> QED BY <1>2, <2>1, FS_Subset
<1>4. ASSUME NEW b \in Creators
      PROVE  Cardinality(Sold(held \cup {b})) <= Cardinality(Sold(held)) + req[b].party
  <2> DEFINE p == req[b].party
             one == {b} \X (1..p)
  <2>1. Sold(held \cup {b}) = Sold(held) \cup one
    BY DEF Sold
  <2>2. p \in Nat /\ p >= 1
    BY <1>1
  <2>3. IsFiniteSet(one) /\ Cardinality(one) = p
    <3> HIDE DEF p
    <3>1. IsFiniteSet(1..p) /\ Cardinality(1..p) = p
      BY <2>2, FS_Interval
    <3>2. IsFiniteSet({b}) /\ Cardinality({b}) = 1
      BY FS_Singleton
    <3>3. IsFiniteSet({b} \X (1..p)) /\ Cardinality({b} \X (1..p)) = Cardinality({b}) * Cardinality(1..p)
      BY <3>1, <3>2, FS_Product, Zenon
    <3> QED BY <3>1, <3>2, <3>3, <2>2
  <2> HIDE DEF one, p
  <2>4. Cardinality(Sold(held) \cup one)
          = Cardinality(Sold(held)) + Cardinality(one) - Cardinality(Sold(held) \cap one)
    BY <1>2, <2>3, FS_Union
  <2>5. Cardinality(Sold(held) \cap one) \in Nat /\ Cardinality(Sold(held)) \in Nat
    <3>1. IsFiniteSet(Sold(held) \cap one)
      BY <2>3, FS_Subset
    <3> QED BY <3>1, <1>2, FS_CardinalityType
  <2>6. Cardinality(Sold(held \cup {b})) <= Cardinality(Sold(held)) + p
    <3> DEFINE all == Cardinality(Sold(held \cup {b}))
               old == Cardinality(Sold(held))
               both == Cardinality(Sold(held) \cap one)
    <3>1. all = old + p - both
      BY <2>1, <2>3, <2>4, Zenon
    <3> HIDE DEF all, old, both
    <3>2. old \in Nat /\ both \in Nat
      BY <2>5 DEF old, both
    <3>3. all <= old + p
      BY <3>1, <3>2, <2>2
    <3> QED BY <3>3 DEF all, old
  <2> QED BY <2>6 DEF p
<1> QED BY <1>2, <1>3, <1>4, FS_CardinalityType

\* Products of natural numbers.
LEMMA Multiplied ==
  ASSUME NEW k \in Nat, NEW m \in Nat, NEW n \in Nat
  PROVE  /\ k * m \in Nat /\ (m <= n => k * m <= k * n)
         /\ k * (n + 1) = k * n + k
BY SMT

\* The seats of a slot are its count and one capacity for each ended handler at most.
Bounded(s) ==
  Cardinality(Sold(Held(s))) <= slot[s].booked + slot[s].capacity * Cardinality(Ended(s))

\* So it is for every slot, and every booking made fits its slot: completing it
\* again brings back no more than one capacity.
OversoldInv ==
  /\ \A s \in Slots : Bounded(s)
  /\ \A b \in Creators : booking[b] # "none" => req[b].party <= slot[req[b].slot].capacity

\* The handlers that have ended are finitely many.
LEMMA EndedCounted ==
  ASSUME IsFiniteSet(Cancellers \cup Completers), NEW s
  PROVE  /\ IsFiniteSet(Ended(s)) /\ Cardinality(Ended(s)) \in Nat
         /\ (Ended(s) \subseteq Ended(s)' => Cardinality(Ended(s)) <= Cardinality(Ended(s)'))
         /\ Cardinality(Ended(s)') \in Nat
         /\ \A p : p \notin Ended(s) /\ Ended(s)' = Ended(s) \cup {p} =>
              Cardinality(Ended(s)') = Cardinality(Ended(s)) + 1
<1>1. Ended(s) \subseteq Cancellers \cup Completers /\ Ended(s)' \subseteq Cancellers \cup Completers
  BY DEF Ended
<1>2. IsFiniteSet(Ended(s)) /\ IsFiniteSet(Ended(s)')
  BY <1>1, FS_Subset
<1> QED BY <1>2, FS_Subset, FS_AddElement, FS_CardinalityType

\* The seats of a slot after a step that changes no request.
LEMMA SoldAfter ==
  ASSUME TypeOK, req' = req, NEW s
  PROVE  /\ Cardinality(Sold(Held(s)))' = Cardinality(Sold(Held(s)'))
         /\ Held(s) \in SUBSET Creators /\ Held(s)' \in SUBSET Creators
         /\ Cardinality(Sold(Held(s))) \in Nat /\ Cardinality(Sold(Held(s)))' \in Nat
<1>1. Held(s) \in SUBSET Creators /\ Held(s)' \in SUBSET Creators
  BY DEF Held
<1>2. Sold(Held(s))' = Sold(Held(s)')
  BY DEF Sold
<1>3. Cardinality(Sold(Held(s))) \in Nat /\ Cardinality(Sold(Held(s)')) \in Nat
  BY <1>1, SeatsAre DEF TypeOK
<1>4. Cardinality(Sold(Held(s)))' = Cardinality(Sold(Held(s)'))
  BY <1>2, Zenon
<1> QED BY <1>1, <1>3, <1>4, Zenon

\* The bound of a slot survives a step that makes the seats outgrow the count by no
\* more than is allowed for each handler that has ended.
LEMMA StillBounded ==
  ASSUME IsFiniteSet(Cancellers \cup Completers), TypeOK, TypeOK', req' = req,
         NEW s \in Slots, Bounded(s), slot'[s].capacity = slot[s].capacity,
         NEW more \in Nat,
         Cardinality(Sold(Held(s)))' + slot[s].booked
           <= Cardinality(Sold(Held(s))) + slot'[s].booked + more,
         \/ more = 0 /\ Ended(s) \subseteq Ended(s)'
         \/ /\ more <= slot[s].capacity
            /\ \E p : p \notin Ended(s) /\ Ended(s)' = Ended(s) \cup {p}
  PROVE  Bounded(s)'
<1> DEFINE m == Cardinality(Ended(s))
           n == Cardinality(Ended(s)')
           k == slot[s].capacity
           sold == Cardinality(Sold(Held(s)))
           sold2 == Cardinality(Sold(Held(s)))'
           booked == slot[s].booked
           booked2 == slot'[s].booked
<1>1. /\ m \in Nat /\ n \in Nat /\ k \in Nat /\ booked \in Nat /\ booked2 \in Nat
  BY EndedCounted DEF TypeOK, SlotRow
<1>2. sold \in Nat /\ sold2 \in Nat
  BY SoldAfter
<1>3. sold <= booked + k * m
  BY DEF Bounded
<1>4. sold2 + booked <= sold + booked2 + more
  OBVIOUS
<1>5. (more = 0 /\ m <= n) \/ (more <= k /\ n = m + 1)
  BY EndedCounted
<1>6. SUFFICES sold2 <= booked2 + k * n
  <2>1. Bounded(s)' <=> sold2 <= slot'[s].booked + slot'[s].capacity * Cardinality(Ended(s))'
    BY DEF Bounded
  <2>2. Cardinality(Ended(s))' = n
    BY Zenon
  <2> QED BY <1>6, <2>1, <2>2
<1> HIDE DEF m, n, k, sold, sold2, booked, booked2
<1>7. k * m \in Nat /\ k * n \in Nat /\ k * (m + 1) = k * m + k /\ (m <= n => k * m <= k * n)
  BY <1>1, Multiplied
<1>8. CASE more = 0 /\ m <= n
  BY <1>1, <1>2, <1>3, <1>4, <1>7, <1>8
<1>9. CASE more <= k /\ n = m + 1
  <2>1. k * n = k * m + k
    BY <1>7, <1>9
  <2> QED BY <1>1, <1>2, <1>3, <1>4, <1>7, <1>9, <2>1
<1> QED BY <1>5, <1>8, <1>9

\* A slot whose seats, count and requests a step leaves alone.
LEMMA NothingSold ==
  ASSUME IsFiniteSet(Cancellers \cup Completers), TypeOK, TypeOK', req' = req,
         NEW s \in Slots, Bounded(s), slot'[s] = slot[s], Held(s)' = Held(s),
         Ended(s) \subseteq Ended(s)'
  PROVE  Bounded(s)'
<1> DEFINE sold == Cardinality(Sold(Held(s)))
           sold2 == Cardinality(Sold(Held(s)))'
<1>1. sold2 = sold
  BY SoldAfter
<1>2. sold \in Nat /\ slot[s].booked \in Nat
  BY SoldAfter DEF TypeOK, SlotRow
<1>3. sold2 + slot[s].booked <= sold + slot'[s].booked + 0
  <2> HIDE DEF sold, sold2
  <2> QED BY <1>1, <1>2
<1> QED BY <1>3, StillBounded

\* What a commit of a creation sells, the count has grown by.
LEMMA CommitSells ==
  ASSUME IsFiniteSet(Cancellers \cup Completers), CreationInv, CapacityInv, OversoldInv, TypeOK',
         NEW c \in Creators, CreateCommit(c)
  PROVE  OversoldInv'
<1> DEFINE s == req[c].slot
           p == req[c].party
<1>t. /\ slot \in [Slots -> SlotRow] /\ booking \in [Creators -> BookingStatus]
      /\ s \in Slots /\ p \in Nat /\ TypeOK /\ c \in Procs /\ pc \in [Procs -> PcLabels]
      /\ \A q \in Cancellers \cup Completers : q \in Procs /\ q # c
  BY NumbersAssumption, DistinctAssumption DEF CreationInv, TypeOK, Request, Procs
<1>1. /\ mem[c] = slot[s] /\ slot[s].booked + p <= slot[s].capacity
      /\ req' = req /\ target' = target /\ booking' = [booking EXCEPT ![c] = "confirmed"]
      /\ pc' = [pc EXCEPT ![c] = "cache"]
      /\ slot' = [slot EXCEPT ![s] = WithSeatsTaken(mem[c], p)]
  BY DEF CreateCommit, CreationInv, Uncommitted, CapacityInv, Goto
<1>2. /\ slot'[s].booked = slot[s].booked + p /\ slot'[s].capacity = slot[s].capacity
      /\ \A r \in Slots : r # s => slot'[r] = slot[r]
  BY <1>1, <1>t DEF WithSeatsTaken
<1>3. \A r : Ended(r)' = Ended(r)
  BY <1>1, <1>t DEF Ended
<1>4. /\ Held(s)' = Held(s) \cup {c}
      /\ \A r \in Slots : r # s => Held(r)' = Held(r)
  BY <1>1, <1>t DEF Held
<1>5. Bounded(s)'
  <2> DEFINE sold == Cardinality(Sold(Held(s)))
             sold2 == Cardinality(Sold(Held(s)))'
             booked == slot[s].booked
             booked2 == slot'[s].booked
  <2>1. sold2 = Cardinality(Sold(Held(s) \cup {c})) /\ sold \in Nat /\ sold2 \in Nat
    BY <1>1, <1>4, <1>t, SoldAfter
  <2>2. Cardinality(Sold(Held(s) \cup {c})) <= sold + p
    BY <1>t, <1>1, SoldAfter, SeatsAre DEF TypeOK
  <2>3. booked2 = booked + p /\ booked \in Nat /\ sold2 <= sold + p
    BY <1>2, <1>t, <2>1, <2>2 DEF SlotRow
  <2>4. sold2 + booked <= sold + booked2 + 0
    <3>1. sold \in Nat /\ sold2 \in Nat
      BY <2>1
    <3> HIDE DEF sold, sold2, booked, booked2, p
    <3> QED BY <2>3, <3>1, <1>t
  <2> QED BY <2>4, <1>1, <1>2, <1>3, <1>t, StillBounded DEF OversoldInv
<1>6. ASSUME NEW r \in Slots, r # s PROVE Bounded(r)'
  BY <1>6, <1>1, <1>2, <1>3, <1>4, <1>t, NothingSold DEF OversoldInv
<1>7. ASSUME NEW b \in Creators, booking'[b] # "none"
      PROVE  req'[b].party <= slot'[req'[b].slot].capacity
  <2>1. slot'[req[b].slot].capacity = slot[req[b].slot].capacity
    BY <1>2, <1>t DEF TypeOK, Request
  <2>2. CASE b = c
    <3>1. p <= slot[s].capacity
      BY <1>1, <1>t DEF SlotRow
    <3> QED BY <3>1, <2>1, <2>2, <1>1
  <2>3. CASE b # c
    BY <2>1, <2>3, <1>1, <1>7, <1>t DEF OversoldInv
  <2> QED BY <2>2, <2>3
<1>8. \A r \in Slots : Bounded(r)'
  <2>1. ASSUME NEW r \in Slots, r = s PROVE Bounded(r)'
    BY <2>1, <1>1, <1>5 DEF Bounded, Held, Sold, Ended
  <2> QED BY <2>1, <1>6
<1> QED BY <1>7, <1>8 DEF OversoldInv

\* A commit of a cancellation sells nothing, and forgets at most the count.
LEMMA CancelForgets ==
  ASSUME IsFiniteSet(Cancellers \cup Completers), CreationInv, CapacityInv, OversoldInv, TypeOK',
         NEW x \in Cancellers, CancelCommit(x)
  PROVE  OversoldInv'
<1> DEFINE b == target[x]
           s == req[b].slot
<1>t. /\ slot \in [Slots -> SlotRow] /\ booking \in [Creators -> BookingStatus]
      /\ b \in Creators /\ s \in Slots /\ TypeOK /\ x \in Procs /\ pc \in [Procs -> PcLabels]
      /\ \A q \in Cancellers \cup Completers : q \in Procs
      /\ slot' \in [Slots -> SlotRow]
  BY DEF CreationInv, TypeOK, Request, Procs
<1>1. /\ pc[x] = "commit" /\ mem[x].capacity = slot[s].capacity
      /\ req' = req /\ target' = target
      /\ booking' = [booking EXCEPT ![b] = IF "cancel" \in dirty[x] THEN "cancelled" ELSE @]
      /\ pc' = [pc EXCEPT ![x] = "done"]
      /\ slot' = [slot EXCEPT ![s] = Merge(slot[s], mem[x], dirty[x])]
  BY DEF CancelCommit, CapacityInv, Goto
<1>2. /\ slot'[s].capacity = slot[s].capacity
      /\ \A r \in Slots : r # s => slot'[r] = slot[r]
  BY <1>1, <1>t DEF Merge
<1>3. /\ x \notin Ended(s) /\ Ended(s)' = Ended(s) \cup {x}
      /\ \A r : r # s => Ended(r)' = Ended(r)
  BY <1>1, <1>t DEF Ended
<1>4. /\ Held(s)' \subseteq Held(s)
      /\ \A r \in Slots : r # s => Held(r)' = Held(r)
  BY <1>1, <1>t DEF Held
<1>5. Bounded(s)'
  <2> DEFINE sold == Cardinality(Sold(Held(s)))
             sold2 == Cardinality(Sold(Held(s)))'
             booked == slot[s].booked
             booked2 == slot'[s].booked
             k == slot[s].capacity
  <2>1. sold2 = Cardinality(Sold(Held(s)')) /\ sold \in Nat /\ sold2 \in Nat
    BY <1>1, <1>t, SoldAfter
  <2>2. Cardinality(Sold(Held(s)')) <= sold
    BY <1>t, <1>1, <1>4, SoldAfter, SeatsAre DEF TypeOK
  <2>3. booked \in Nat /\ booked2 \in Nat /\ k \in Nat /\ booked <= k /\ sold2 <= sold
    BY <1>t, <2>1, <2>2 DEF SlotRow, CapacityInv, CountWithinCapacity
  <2>4. sold2 + booked <= sold + booked2 + k
    <3>1. sold \in Nat /\ sold2 \in Nat
      BY <2>1
    <3> HIDE DEF sold, sold2, booked, booked2, k
    <3> QED BY <2>3, <3>1
  <2>5. k \in Nat /\ k <= slot[s].capacity
    BY <2>3
  <2> QED BY <2>4, <2>5, <1>1, <1>2, <1>3, <1>t, StillBounded DEF OversoldInv
<1>6. ASSUME NEW r \in Slots, r # s PROVE Bounded(r)'
  BY <1>6, <1>1, <1>2, <1>3, <1>4, <1>t, NothingSold DEF OversoldInv
<1>7. ASSUME NEW d \in Creators, booking'[d] # "none"
      PROVE  req'[d].party <= slot'[req'[d].slot].capacity
  <2>1. slot'[req[d].slot].capacity = slot[req[d].slot].capacity
    BY <1>2, <1>t DEF TypeOK, Request
  <2>2. booking[d] # "none"
    BY <1>1, <1>7, <1>t DEF CreationInv, TargetsExist
  <2> QED BY <2>1, <2>2, <1>1 DEF OversoldInv
<1>8. \A r \in Slots : Bounded(r)'
  <2>1. ASSUME NEW r \in Slots, r = s PROVE Bounded(r)'
    BY <2>1, <1>1, <1>5 DEF Bounded, Held, Sold, Ended
  <2> QED BY <2>1, <1>6
<1> QED BY <1>7, <1>8 DEF OversoldInv

\* The save of a completion revives one booking at most, whose party the slot holds.
LEMMA CompletionRevives ==
  ASSUME IsFiniteSet(Cancellers \cup Completers), CreationInv, CapacityInv, OversoldInv, TypeOK',
         NEW y \in Completers, CompleteSave(y)
  PROVE  OversoldInv'
<1> DEFINE b == target[y]
           s == req[b].slot
           p == req[b].party
<1>t. /\ slot \in [Slots -> SlotRow] /\ booking \in [Creators -> BookingStatus]
      /\ b \in Creators /\ s \in Slots /\ p \in Nat
      /\ TypeOK /\ y \in Procs /\ pc \in [Procs -> PcLabels]
      /\ \A q \in Cancellers \cup Completers : q \in Procs
  BY NumbersAssumption DEF CreationInv, TypeOK, Request, Procs
<1>1. /\ pc[y] = "store" /\ booking[b] # "none"
      /\ req' = req /\ target' = target /\ slot' = slot
      /\ booking' = [booking EXCEPT ![b] = IF "complete" \in dirty[y] THEN "completed" ELSE @]
      /\ pc' = [pc EXCEPT ![y] = "done"]
  BY DEF CompleteSave, CreationInv, TargetsExist, Goto
<1>2. p <= slot[s].capacity
  BY <1>1, <1>t DEF OversoldInv
<1>3. /\ y \notin Ended(s) /\ Ended(s)' = Ended(s) \cup {y}
      /\ \A r : r # s => Ended(r)' = Ended(r)
  BY <1>1, <1>t DEF Ended
<1>4. /\ Held(s)' = Held(s) \/ Held(s)' = Held(s) \cup {b}
      /\ \A r \in Slots : r # s => Held(r)' = Held(r)
  BY <1>1, <1>t DEF Held
<1>5. Bounded(s)'
  <2> DEFINE sold == Cardinality(Sold(Held(s)))
             sold2 == Cardinality(Sold(Held(s)))'
             booked == slot[s].booked
  <2>1. sold2 = Cardinality(Sold(Held(s)')) /\ sold \in Nat /\ sold2 \in Nat
    BY <1>1, <1>t, SoldAfter
  <2>2. Cardinality(Sold(Held(s) \cup {b})) <= sold + p
    BY <1>t, <1>1, SoldAfter, SeatsAre DEF TypeOK
  <2>3. sold <= sold + p
    <3> HIDE DEF sold, p
    <3> QED BY <2>1, <1>t
  <2>4. sold2 <= sold + p
    BY <1>4, <2>1, <2>2, <2>3, Zenon
  <2>5. sold2 + booked <= sold + booked + p
    <3>1. sold \in Nat /\ sold2 \in Nat /\ booked \in Nat
      BY <2>1, <1>t DEF SlotRow
    <3> HIDE DEF sold, sold2, booked, p
    <3> QED BY <2>4, <3>1, <1>t
  <2> QED BY <2>5, <1>1, <1>2, <1>3, <1>t, StillBounded DEF OversoldInv
<1>6. ASSUME NEW r \in Slots, r # s PROVE Bounded(r)'
  BY <1>6, <1>1, <1>3, <1>4, <1>t, NothingSold DEF OversoldInv
<1>7. ASSUME NEW d \in Creators, booking'[d] # "none"
      PROVE  req'[d].party <= slot'[req'[d].slot].capacity
  BY <1>1, <1>7, <1>t DEF OversoldInv
<1>8. \A r \in Slots : Bounded(r)'
  <2>1. ASSUME NEW r \in Slots, r = s PROVE Bounded(r)'
    BY <2>1, <1>1, <1>5 DEF Bounded, Held, Sold, Ended
  <2> QED BY <2>1, <1>6
<1> QED BY <1>7, <1>8 DEF OversoldInv

\* Every other step sells nothing and ends handlers at most.
LEMMA OversoldStep ==
  ASSUME IsFiniteSet(Cancellers \cup Completers), Offers = {}, CreationInv, CapacityInv,
         OversoldInv, TypeOK', [Next]_vars
  PROVE  OversoldInv'
<1>t. /\ TypeOK /\ pc \in [Procs -> PcLabels]
      /\ \A q \in Cancellers \cup Completers : q \in Procs
  BY DEF CreationInv, TypeOK, Procs
<1>a. ASSUME UNCHANGED <<slot, booking, req, target>>,
             \A q \in Cancellers \cup Completers : pc[q] = "done" => pc'[q] = "done"
      PROVE  OversoldInv'
  <2>1. \A s \in Slots : /\ Ended(s) \subseteq Ended(s)'
                         /\ Held(s)' = Held(s) /\ slot'[s] = slot[s]
    BY <1>a DEF Ended, Held
  <2>2. \A s \in Slots : Bounded(s)'
    BY <1>a, <2>1, <1>t, NothingSold DEF OversoldInv
  <2> QED BY <1>a, <2>2 DEF OversoldInv
<1>1. ASSUME NEW c \in Creators, CreateCommit(c) PROVE OversoldInv'
  BY <1>1, CommitSells
<1>2. ASSUME NEW x \in Cancellers, CancelCommit(x) PROVE OversoldInv'
  BY <1>2, CancelForgets
<1>3. ASSUME NEW y \in Completers, CompleteSave(y) PROVE OversoldInv'
  BY <1>3, CompletionRevives
<1>4. ASSUME NEW c \in Creators,
             \/ CreateCheckKey(c) \/ CreateLock(c) \/ CreateSelectSlot(c) \/ CreateCache(c)
             \/ CreateFail(c) \/ CreateGetLock(c) \/ CreateDelLock(c)
      PROVE  OversoldInv'
  <2>1. \A q \in Cancellers \cup Completers : q # c
    BY DistinctAssumption
  <2> QED BY <1>4, <1>a, <1>t, <2>1 DEF Goto, CreateCheckKey, CreateLock, CreateSelectSlot,
             CreateCache, CreateFail, CreateGetLock, CreateDelLock
<1>5. ASSUME NEW x \in Cancellers,
             \/ CancelRead(x) \/ CancelDiffBooking(x) \/ CancelUpdateBooking(x)
             \/ CancelReadSlot(x) \/ CancelDiffSlot(x)
      PROVE  OversoldInv'
  BY <1>5, <1>a, <1>t DEF Goto, CancelRead, CancelDiffBooking, CancelUpdateBooking, CancelReadSlot,
                          CancelDiffSlot
<1>6. ASSUME NEW y \in Completers, CompleteRead(y) \/ CompleteDiff(y) PROVE OversoldInv'
  BY <1>6, <1>a, <1>t DEF Goto, CompleteRead, CompleteDiff
<1>7. ASSUME NEW p \in Procs, Die(p) PROVE OversoldInv'
  BY <1>7, <1>a, <1>t DEF Goto, Die, InFlight
<1>8. /\ \A s \in Slots : LockExpire(s) => OversoldInv'
      /\ \A k \in Keys : KeyExpire(k) => OversoldInv'
      /\ UNCHANGED vars => OversoldInv'
  BY <1>a DEF LockExpire, KeyExpire, vars
<1> QED
  BY <1>1, <1>2, <1>3, <1>4, <1>5, <1>6, <1>7, <1>8
     DEF Next, CreateStep, CancelStep, CompleteStep

\* At the start no seat is sold.
LEMMA NoneSoldYet ==
  ASSUME IsFiniteSet(Cancellers \cup Completers), Init
  PROVE  OversoldInv
<1>1. TypeOK /\ \A b \in Creators : booking[b] = "none"
  BY TypeOKStarts DEF Init
<1>2. ASSUME NEW s \in Slots PROVE Bounded(s)
  <2> DEFINE sold == Cardinality(Sold(Held(s)))
             more == slot[s].capacity * Cardinality(Ended(s))
  <2>1. Held(s) = {}
    BY <1>1 DEF Held
  <2>2. Sold(Held(s)) = {}
    BY <2>1 DEF Sold
  <2>3. sold = 0
    BY <2>2, FS_EmptySet, Zenon
  <2>4. slot[s].booked \in Nat /\ slot[s].capacity \in Nat
    BY <1>1 DEF TypeOK, SlotRow
  <2>5. more \in Nat
    BY <2>4, EndedCounted, Multiplied
  <2>6. sold <= slot[s].booked + more
    <3> HIDE DEF sold, more
    <3> QED BY <2>3, <2>4, <2>5
  <2> QED BY <2>6 DEF Bounded
<1> QED BY <1>1, <1>2 DEF OversoldInv

\* However creations, cancellations and completions overlap, a slot whose capacity
\* nobody edits is oversold by at most one capacity for each cancellation or
\* completion that has ended, and its count stays within its capacity.
THEOREM OversellingStaysBounded ==
  ASSUME Offers = {}, IsFiniteSet(Cancellers \cup Completers)
  PROVE  Spec => []OversellingIsBounded
<1>1. Init => OversoldInv
  BY NoneSoldYet
<1>2. CreationInv /\ CapacityInv /\ OversoldInv /\ [Next]_vars => OversoldInv'
  BY OversoldStep, TypeOKStep DEF CreationInv
<1>3. CapacityInv /\ OversoldInv => OversellingIsBounded
  <2> SUFFICES ASSUME CapacityInv, OversoldInv, NEW s \in Slots
               PROVE  Cardinality(Ledger!SeatsSold(s)) <= slot[s].capacity * (1 + Cardinality(Ended(s)))
    BY DEF CapacityInv, OversellingIsBounded
  <2> DEFINE sold == Cardinality(Sold(Held(s)))
             m == Cardinality(Ended(s))
             k == slot[s].capacity
             booked == slot[s].booked
  <2>1. Cardinality(Ledger!SeatsSold(s)) = sold
    BY SoldIsLedgers, Zenon
  <2>2. /\ sold \in Nat /\ m \in Nat /\ k \in Nat /\ booked \in Nat /\ booked <= k
    <3>1. sold \in Nat
      BY SeatsAre DEF Held, CapacityInv, TypeOK
    <3> QED BY <3>1, EndedCounted DEF CapacityInv, CountWithinCapacity, TypeOK, SlotRow
  <2>3. sold <= booked + k * m
    BY DEF OversoldInv, Bounded
  <2>4. sold <= k * (1 + m)
    <3> HIDE DEF sold, m, k, booked
    <3>1. k * (m + 1) = k * m + k /\ k * m \in Nat
      BY <2>2, Multiplied
    <3>2. 1 + m = m + 1
      BY <2>2
    <3> QED BY <2>2, <2>3, <3>1, <3>2
  <2> QED BY <2>1, <2>4
<1> QED BY <1>1, <1>2, <1>3, RowLockProtects, CapacityInvariant, PTL DEF Spec
=============================================================================
