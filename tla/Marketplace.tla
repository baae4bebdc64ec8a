----------------------------- MODULE Marketplace -----------------------------
(***************************************************************************)
(* A booking and its payment together: the booking service and the payment *)
(* service run side by side on one database.                               *)
(*                                                                         *)
(* The client creates the booking, and pays for it once it has the answer. *)
(* That is all that links the two: createBooking and processPayment leave  *)
(* the column payment_id of the booking empty, and cancelBooking computes  *)
(* and announces a refund without calling refundPayment.                   *)
(*                                                                         *)
(* The variables of the payment service keep their names; those that the   *)
(* booking service has too are called handler, entity, saved and named in  *)
(* it.                                                                     *)
(***************************************************************************)
EXTENDS Integers, FiniteSets

CONSTANTS
  Creators, Cancellers,      \* requests of the booking service
  Slots, NoKey, None,
  Payments, Crons, Refunds, Hooks   \* requests and jobs of the payment service

VARIABLES
  slot, booking, rowLock, slotLock, lock, idem, handler, req, named, entity, saved, reply,
  row, log, intent, refunds, events, pc, then, target, mem, dirty,
  bookingId   \* the booking each payment request is for; never changes

B == INSTANCE Bookings WITH
       Completers <- {}, Keys <- {}, Capacities <- {1}, Offers <- {}, MaxParty <- 1,
       MaxInFlight <- 9, HasRedis <- FALSE,
       pc <- handler, target <- named, mem <- entity, dirty <- saved
P == INSTANCE Payments WITH
       Confirms <- {}, Escrows <- {}, Releases <- {}, Receipts <- {}, Admins <- {},
       Outcomes <- {"charged"}, Whole <- 2, MaxInFlight <- 9, MayFail <- FALSE

bookingVars == <<slot, booking, rowLock, slotLock, lock, idem, handler, req, named, entity,
                 saved, reply>>
paymentVars == <<row, log, intent, refunds, events, pc, then, target, mem, dirty>>
vars == <<bookingVars, paymentVars, bookingId>>

-----------------------------------------------------------------------------
Init == B!Init /\ P!Init /\ bookingId \in [Payments -> Creators]

\* BookingForm posts the payment when the booking has been answered.
Pay(p) ==
  /\ reply[bookingId[p]] = "created"
  /\ P!ProcessInsert(p)

BookingService ==
  /\ \/ \E c \in Creators : B!CreateCheckKey(c) \/ B!CreateStep(c)
     \/ \E x \in Cancellers : B!CancelRead(x) \/ B!CancelStep(x)
  /\ UNCHANGED <<paymentVars, bookingId>>

\* What the payment service does by itself with a payment.
PaymentStep(p) ==
  /\ P!ProcessStep(p) \/ P!CaptureStep(p) \/ P!SaveStep(p)
  /\ UNCHANGED <<bookingVars, bookingId>>
ReleaseStep(h) ==
  /\ P!CronStep(h) \/ P!SaveStep(h)
  /\ UNCHANGED <<bookingVars, bookingId>>
\* A request of its own refunds a payment; cancelling does not send one.
RefundStep(h) ==
  /\ P!RefundStep(h) \/ P!SaveStep(h)
  /\ UNCHANGED <<bookingVars, bookingId>>
HookStep(h) ==
  /\ P!HookRead(h) \/ P!SaveStep(h)
  /\ UNCHANGED <<bookingVars, bookingId>>

Next ==
  \/ BookingService
  \/ \E p \in Payments : (Pay(p) /\ UNCHANGED <<bookingVars, bookingId>>) \/ PaymentStep(p)
  \/ \E h \in Crons : ReleaseStep(h)
  \/ \E h \in Refunds : (P!RefundRead(h) /\ UNCHANGED <<bookingVars, bookingId>>) \/ RefundStep(h)
  \/ \E h \in Hooks : HookStep(h)

\* Both services finish what they have begun, the hourly job keeps running and
\* Stripe delivers its events: whoever could pay the refund has the time to.
\* Nobody has to send a refund request.
FairSpec ==
  /\ Init /\ [][Next]_vars
  /\ \A x \in Cancellers : WF_vars(B!CancelStep(x) /\ UNCHANGED <<paymentVars, bookingId>>)
  /\ \A p \in Payments : WF_vars(PaymentStep(p))
  /\ \A h \in Crons : WF_vars(ReleaseStep(h))
  /\ \A h \in Refunds : WF_vars(RefundStep(h))
  /\ \A h \in Hooks : WF_vars(HookStep(h))

-----------------------------------------------------------------------------
\* A traveller who cancels a booking he has been charged for gets the refund
\* that cancelBooking announced to him.
CancelledIsRefunded ==
  \A p \in Payments :
    (booking[bookingId[p]] = "cancelled" /\ intent[p] = "charged") ~> refunds[p] > 0
=============================================================================
