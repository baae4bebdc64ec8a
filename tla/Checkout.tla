------------------------------ MODULE Checkout ------------------------------
(***************************************************************************)
(* The booking page of the web client (experiences/[id]/book, BookingForm): *)
(* a slot and a number of people, a booking, its payment.  The service     *)
(* accepts a call, refuses it, or does what is asked and the answer is     *)
(* lost.  The seats offered are those the page was loaded with.            *)
(***************************************************************************)
EXTENDS Naturals

CONSTANTS Slots, Bookings, MaxPeople, MaxPayments, MaxHurries, None

VARIABLES
  page,       \* "loading", "missing", or "shown"
  left,       \* the seats of each slot when the page was loaded
  form,       \* what is chosen: slot and people
  step,       \* "select", "payment", "confirmed"
  booking,    \* the booking made last on this visit
  confirmed,  \* the booking shown as confirmed
  call,       \* the call in flight: the form's "loading" says that there is one
  user,       \* somebody is signed in
  made,       \* the service: for how many people a booking was made, 0 if it was not
  paid,       \* the service: how often it was paid, and how much at last
  lost,       \* history: an answer was lost
  hurries     \* how often the form was changed while a call was in flight

visit == <<page, left, form, step, booking, confirmed, call>>
vars  == <<visit, user, made, paid, lost, hurries>>

People   == 1..MaxPeople
NoChoice == [slot |-> None, people |-> 1]
NoCall   == [op |-> "none", people |-> 0]
Unpaid   == [times |-> 0, amount |-> 0]
Loading  == call # NoCall

Unmade == {b \in Bookings : made[b] = 0}

-----------------------------------------------------------------------------
\* The page loads the experience, once a visit.
Load ==
  /\ page = "loading"
  /\ \/ page' = "shown" /\ left' \in [Slots -> 0..MaxPeople]
     \/ page' = "missing" /\ UNCHANGED left
  /\ UNCHANGED <<form, step, booking, confirmed, call, user, made, paid, lost, hurries>>

\* The first step: the slots with seats, and as many people as fit.  Only the
\* button waits for the answer.
Choose(s, n) ==
  /\ page = "shown" /\ step = "select"
  /\ left[s] > 0
  /\ form' = [slot |-> s, people |-> n]
  /\ hurries' = IF Loading THEN hurries + 1 ELSE hurries
  /\ hurries' <= MaxHurries
  /\ UNCHANGED <<page, left, step, booking, confirmed, call, user, made, paid, lost>>

Continue ==
  /\ page = "shown" /\ step = "select" /\ ~Loading
  /\ user /\ form.slot # None /\ form.people <= left[form.slot]
  /\ call' = [op |-> "create", people |-> form.people]
  /\ UNCHANGED <<page, left, form, step, booking, confirmed, user, made, paid, lost, hurries>>

\* The payment step charges what is in the form of the first.
Pay ==
  /\ step = "payment" /\ ~Loading
  /\ paid[booking].times < MaxPayments
  /\ call' = [op |-> "pay", people |-> form.people]
  /\ UNCHANGED <<page, left, form, step, booking, confirmed, user, made, paid, lost, hurries>>

Back ==
  /\ step = "payment" /\ ~Loading
  /\ step' = "select"
  /\ UNCHANGED <<page, left, form, booking, confirmed, call, user, made, paid, lost, hurries>>

-----------------------------------------------------------------------------
\* What the service does with the call; b is the booking it makes or charges.
Served(b) ==
  /\ user
  /\ \/ /\ call.op = "create" /\ b \in Unmade
        /\ made' = [made EXCEPT ![b] = call.people]
        /\ UNCHANGED paid
     \/ /\ call.op = "pay" /\ b = booking
        /\ paid' = [paid EXCEPT ![b] = [times |-> @.times + 1, amount |-> call.people]]
        /\ UNCHANGED made

\* The booking is made: on to its payment.
Created(b) ==
  /\ call.op = "create" /\ Served(b)
  /\ booking' = b /\ step' = "payment" /\ call' = NoCall
  /\ UNCHANGED <<page, left, form, confirmed, user, lost, hurries>>

\* The payment is answered: confirmed.
Paid ==
  /\ call.op = "pay" /\ Served(booking)
  /\ confirmed' = booking /\ step' = "confirmed" /\ call' = NoCall
  /\ UNCHANGED <<page, left, form, booking, user, lost, hurries>>

\* Mutant: the step is set after the try.
RefusedGoesOn ==
  /\ step' = IF call.op = "create" /\ booking # None THEN "payment" ELSE step
  /\ UNCHANGED <<form, booking, confirmed>>

\* The message of the error; everything else stays.
Refused == UNCHANGED <<form, step, booking, confirmed>>

\* A call that is refused or not served, or whose answer is lost.
Failed ==
  /\ Loading
  /\ \/ UNCHANGED <<made, paid, lost>>
     \/ \E b \in Bookings : Served(b) /\ lost' = TRUE
  /\ call' = NoCall
  /\ Refused
  /\ UNCHANGED <<page, left, user, hurries>>

\* The page is left (after a payment by itself, in three seconds) and opened
\* again; a call in flight may still be served.
Revisit ==
  /\ \/ UNCHANGED <<made, paid>>
     \/ \E b \in Bookings : Served(b)
  /\ page' = "loading" /\ form' = NoChoice /\ step' = "select"
  /\ left' = [s \in Slots |-> 0]
  /\ booking' = None /\ confirmed' = None /\ call' = NoCall
  /\ UNCHANGED <<user, lost, hurries>>

\* Signing out leaves the page as it is.
SignOut ==
  /\ user' = FALSE
  /\ UNCHANGED <<visit, made, paid, lost, hurries>>

-----------------------------------------------------------------------------
Init ==
  /\ page = "loading" /\ form = NoChoice /\ step = "select"
  /\ left = [s \in Slots |-> 0]
  /\ booking = None /\ confirmed = None /\ call = NoCall
  /\ user \in BOOLEAN
  /\ made = [b \in Bookings |-> 0] /\ paid = [b \in Bookings |-> Unpaid]
  /\ lost = FALSE /\ hurries = 0

Next ==
  \/ Load \/ Continue \/ Pay \/ Back \/ Paid \/ Failed \/ Revisit \/ SignOut
  \/ \E s \in Slots, n \in People : Choose(s, n)
  \/ \E b \in Bookings : Created(b)

Spec == Init /\ [][Next]_vars

-----------------------------------------------------------------------------
(* Properties.                                                             *)

\* Every variable has its type.
TypeOK ==
  /\ page \in {"loading", "missing", "shown"} /\ step \in {"select", "payment", "confirmed"}
  /\ left \in [Slots -> 0..MaxPeople]
  /\ form \in [slot : Slots \cup {None}, people : People]
  /\ {booking, confirmed} \subseteq Bookings \cup {None}
  /\ call \in [op : {"none", "create", "pay"}, people : 0..MaxPeople]
  /\ user \in BOOLEAN /\ lost \in BOOLEAN /\ hurries \in 0..MaxHurries
  /\ made \in [Bookings -> 0..MaxPeople]
  /\ \A b \in Bookings : paid[b].times \in 0..MaxPayments /\ paid[b].amount \in 0..MaxPeople

\* The booking that is shown as confirmed is paid; unless an answer was lost, no
\* booking is paid twice; unless the form was changed in flight, every booking
\* is paid for the people it was made for, however often the traveller goes
\* back, chooses anew and continues.
PaidAsBooked ==
  /\ confirmed # None => paid[confirmed].times > 0
  /\ ~lost => \A b \in Bookings : paid[b].times <= 1
  /\ hurries = 0 => \A b \in Bookings : paid[b].times > 0 => paid[b].amount = made[b]
=============================================================================
