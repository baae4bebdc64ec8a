----------------------------- MODULE SeatLedger -----------------------------
(***************************************************************************)
(* What the booking service promises about seats, with no handlers, locks  *)
(* or caches: a booking is made in one step and only while its slot has    *)
(* room, a cancellation gives its seats back once, and a booking that was  *)
(* cancelled or completed stays so.                                        *)
(***************************************************************************)
EXTENDS Integers, FiniteSets

CONSTANTS Slots, Bookings, MaxParty

\* What the theorems about the ledger ask of its constants.
LedgerAssumption == MaxParty \in Nat /\ IsFiniteSet(Bookings)

VARIABLES
  capacity,  \* seats each slot offers
  booked,    \* seats each slot counts as taken
  status,    \* of each booking
  want       \* the slot and the party of each booking; never changes

ledgerVars == <<capacity, booked, status, want>>

LedgerTypeOK ==
  /\ capacity \in [Slots -> Nat]
  /\ booked \in [Slots -> Nat]
  /\ status \in [Bookings -> {"none", "confirmed", "cancelled", "completed"}]
  /\ DOMAIN want = Bookings
  /\ \A b \in Bookings : want[b].slot \in Slots /\ want[b].party \in 1..MaxParty

\* The seats in use on slot s: one pair per booking and participant.
Seats(b) == {b} \X (1..want[b].party)
Holders(s) == {b \in Bookings : /\ status[b] \in {"confirmed", "completed"}
                                /\ want[b].slot = s}
SeatsSold(s) == UNION {Seats(b) : b \in Holders(s)}

LedgerInit ==
  /\ LedgerTypeOK
  /\ booked = [s \in Slots |-> 0]
  /\ status = [b \in Bookings |-> "none"]

Book(b) ==
  LET s == want[b].slot IN
  /\ status[b] = "none"
  /\ capacity[s] - booked[s] >= want[b].party
  /\ status' = [status EXCEPT ![b] = "confirmed"]
  /\ booked' = [booked EXCEPT ![s] = @ + want[b].party]
  /\ UNCHANGED <<capacity, want>>

Cancel(b) ==
  /\ status[b] = "confirmed"
  /\ status' = [status EXCEPT ![b] = "cancelled"]
  /\ booked' = [booked EXCEPT ![want[b].slot] = @ - want[b].party]
  /\ UNCHANGED <<capacity, want>>

Complete(b) ==
  /\ status[b] = "confirmed"
  /\ status' = [status EXCEPT ![b] = "completed"]
  /\ UNCHANGED <<capacity, booked, want>>

Publish(s) ==
  /\ capacity'[s] \in Nat
  /\ capacity' = [capacity EXCEPT ![s] = capacity'[s]]
  /\ UNCHANGED <<booked, status, want>>

LedgerNext ==
  \/ \E b \in Bookings : Book(b) \/ Cancel(b) \/ Complete(b)
  \/ \E s \in Slots : Publish(s)

LedgerSpec == LedgerInit /\ [][LedgerNext]_ledgerVars

-----------------------------------------------------------------------------
\* The count of a slot is the number of seats its live bookings hold.
CountIsSeats == \A s \in Slots : booked[s] = Cardinality(SeatsSold(s))
=============================================================================
