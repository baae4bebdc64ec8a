----------------------------- MODULE ReviewDesk -----------------------------
(***************************************************************************)
(* Where the traveller writes a review: the modal of the dashboard, whose  *)
(* rating and comment belong to the page and not to the booking, and the   *)
(* page reviews/new with the form ReviewForm, opened for one booking.  The *)
(* service takes one review of a booking.  A comment is followed as the    *)
(* booking it was written about.                                           *)
(***************************************************************************)
EXTENDS Naturals

CONSTANTS Bookings, None, MaxHurries

VARIABLES
  place,      \* "dashboard" or "new"
  target,     \* reviewModal, or the booking of the page's URL
  rated,      \* a rating is chosen: the modal starts with five stars
  text,       \* the comment
  submitted,  \* the form says so
  calls,      \* reviews on their way
  review,     \* the service: the comment of each booking's review, or None
  done,       \* history: the bookings whose review the traveller saw submitted
  kept,       \* history: a modal was closed with a comment in it
  dropped,    \* history: a comment was cleared that nobody had submitted
  hurries     \* how often the traveller overtook an answer

screen == <<place, target, rated, text, submitted>>
past   == <<done, kept, dropped>>
vars   == <<screen, calls, review, past, hurries>>

Words == Bookings \cup {"nothing"}

Act ==
  \/ calls = {} /\ UNCHANGED hurries
  \/ calls # {} /\ hurries < MaxHurries /\ hurries' = hurries + 1

-----------------------------------------------------------------------------
\* The modal, opened from the row of a completed booking.
Open(b) ==
  /\ Act /\ place = "dashboard" /\ target = None
  /\ target' = b
  /\ UNCHANGED <<place, rated, text, submitted, calls, review, past>>

\* Closing it leaves the comment where it is.
Close ==
  /\ Act /\ place = "dashboard" /\ target # None
  /\ target' = None
  /\ kept' = (kept \/ text # "nothing")
  /\ UNCHANGED <<place, rated, text, submitted, calls, review, done, dropped>>

Type ==
  /\ Act /\ target # None /\ ~submitted
  /\ text' = target
  /\ UNCHANGED <<place, target, rated, submitted, calls, review, past>>

Rate ==
  /\ Act /\ place = "new" /\ ~submitted
  /\ rated' = TRUE
  /\ UNCHANGED <<place, target, text, submitted, calls, review, past>>

Send == calls' = calls \cup {[on |-> target, text |-> text]}

\* The modal's button is always enabled ...
SubmitModal ==
  /\ Act /\ place = "dashboard" /\ target # None
  /\ Send
  /\ UNCHANGED <<screen, review, past>>

\* ... that of the form waits for a rating, and for the answer.
SubmitForm ==
  /\ place = "new" /\ ~submitted /\ rated /\ calls = {}
  /\ Send
  /\ UNCHANGED <<screen, review, past, hurries>>

-----------------------------------------------------------------------------
\* The service takes the first review of a booking.
Take(c) == review[c.on] = None /\ review' = [review EXCEPT ![c.on] = c.text]

\* Mutant: the comment is cleared whatever the answer.
RefusedClears == text' = "nothing" /\ dropped' = (dropped \/ text # "nothing")

\* An error is shown and all stays as it is.
Refused == UNCHANGED <<text, dropped>>

\* The answer says "submitted": whichever modal is open closes.
Told(c) ==
  /\ done' = done \cup {c.on}
  /\ dropped' = (dropped \/ text \notin {"nothing", c.text})
  /\ IF place = "dashboard"
     THEN target' = None /\ rated' = TRUE /\ text' = "nothing" /\ UNCHANGED submitted
     ELSE submitted' = TRUE /\ UNCHANGED <<target, rated, text>>
  /\ UNCHANGED <<place, kept>>

\* Taken and told; taken, and the answer lost; or not taken.
Answered(c) ==
  /\ calls' = calls \ {c}
  /\ \/ Take(c) /\ Told(c)
     \/ /\ Take(c) \/ UNCHANGED review
        /\ Refused
        /\ UNCHANGED <<place, target, rated, submitted, done, kept>>
  /\ UNCHANGED hurries

\* Another page; what is on its way may still arrive.
Visit(p, b) ==
  /\ \/ UNCHANGED review
     \/ \E c \in calls : Take(c)
  /\ calls' = {}
  /\ place' = p /\ target' = b /\ rated' = (p = "dashboard")
  /\ text' = "nothing" /\ submitted' = FALSE
  /\ UNCHANGED <<past, hurries>>

VisitDashboard == Visit("dashboard", None)
VisitForm(b)   == Visit("new", b)

-----------------------------------------------------------------------------
Init ==
  /\ place = "dashboard" /\ target = None /\ rated = TRUE
  /\ text = "nothing" /\ submitted = FALSE
  /\ calls = {} /\ review = [b \in Bookings |-> None]
  /\ done = {} /\ kept = FALSE /\ dropped = FALSE /\ hurries = 0

Next ==
  \/ Close \/ Type \/ Rate \/ SubmitModal \/ SubmitForm \/ VisitDashboard
  \/ \E b \in Bookings : Open(b) \/ VisitForm(b)
  \/ \E c \in calls : Answered(c)

Spec == Init /\ [][Next]_vars

-----------------------------------------------------------------------------
(* Properties.                                                             *)

\* Every variable has its type.
TypeOK ==
  /\ place \in {"dashboard", "new"} /\ target \in Bookings \cup {None}
  /\ rated \in BOOLEAN /\ submitted \in BOOLEAN /\ kept \in BOOLEAN /\ dropped \in BOOLEAN
  /\ text \in Words /\ review \in [Bookings -> Words \cup {None}]
  /\ calls \subseteq [on : Bookings, text : Words]
  /\ done \subseteq Bookings /\ hurries \in 0..MaxHurries

\* A review that was said to be submitted is there.  No review has the comment
\* written about another booking, unless a modal was closed with one in it, for
\* the next modal shows it.  No comment is cleared before it was submitted,
\* unless the traveller goes on while a review is on its way.
CommentsReachTheirBooking ==
  /\ \A b \in done : review[b] # None
  /\ ~kept => \A b \in Bookings : review[b] \in {None, "nothing", b}
  /\ hurries = 0 => ~dropped
=============================================================================
