---------------------------- MODULE ListingPage ----------------------------
(***************************************************************************)
(* The page of one experience, experiences/[id]/page.tsx: its reviews, of  *)
(* which the service gives one page at a time, newest first, while reviews *)
(* are published and removed; and the calendar beside the booking form, both *)
(* made from the slots that came with the experience. The calendar takes   *)
(* a day for the midnight that begins it by UTC, and today for the one     *)
(* that begins it by the user's clock.                                     *)
(***************************************************************************)
EXTENDS Integers, Sequences, FiniteSets

CONSTANTS
  MaxReviews,\* bound on the reviews of the experience, numbered as they come
  PerPage,   \* REVIEWS_PER_PAGE
  Days,      \* days of the month in view
  Zones,     \* how many hours ahead of UTC the user's clock may be
  Capacity,  \* of a slot
  Scenes,    \* what is followed: the reviews, or the calendar
  MaxPages,  \* bound on the pages asked for: after a removal there is always more
  MaxHurries \* bound on how often "Show more" is pressed before the answer

VARIABLES
  published,  \* service: the published reviews, newest first
  written,    \* service: how many reviews were ever published
  asks,       \* the pages of reviews asked for, in the order of pressing
  shown,      \* the reviews shown
  reviewTotal,\* the total of the first answer
  reviewPage, \* the last page applied
  state,      \* "loading", "shown", or "missing"
  slots,      \* the slots of the calendar: for each day, a set of slots
  today,      \* the day it is for the user
  scene,      \* what is followed; never changes
  grown,      \* history: a review was published since the page was loaded
  shrunk,     \* history: a review was removed since
  hurries,    \* how often the user overtook an answer
  zone        \* how many hours ahead of UTC the user's clock is; never changes

table == <<published, written>>
days  == <<slots, today, scene, zone>>
vars  == <<table, asks, shown, reviewTotal, reviewPage, state, days, grown, shrunk, hurries>>

Slots == [status : {"available", "booked", "blocked"}, booked : 0..Capacity, capacity : {Capacity}]

Lesser(a, b) == IF a < b THEN a ELSE b

Without(s, i) == [j \in 1..(Len(s) - 1) |-> IF j < i THEN s[j] ELSE s[j + 1]]

\* getExperienceReviews: one page of the published reviews.
PageOf(p) == SubSeq(published, (p - 1) * PerPage + 1, Lesser(p * PerPage, Len(published)))

-----------------------------------------------------------------------------
(* The page.                                                               *)

\* The experience, the first reviews and the recommendations, all or nothing.
Load ==
  /\ state = "loading"
  /\ \/ /\ state' = "shown"
        /\ shown' = PageOf(1) /\ reviewTotal' = Len(published)
     \/ state' = "missing" /\ UNCHANGED <<shown, reviewTotal>>
  /\ UNCHANGED <<table, asks, reviewPage, days, grown, shrunk, hurries>>

HasMoreReviews == Len(shown) < reviewTotal

\* "Show more reviews"; the button stays enabled meanwhile.
ShowMore ==
  /\ state = "shown" /\ HasMoreReviews /\ reviewPage < MaxPages
  /\ \/ asks = <<>> /\ UNCHANGED hurries
     \/ asks # <<>> /\ hurries < MaxHurries /\ hurries' = hurries + 1
  /\ asks' = Append(asks, reviewPage + 1)
  /\ UNCHANGED <<table, shown, reviewTotal, reviewPage, state, days, grown, shrunk>>

\* Mutant: the page is not advanced.
TurnNot(p) == UNCHANGED reviewPage

Turn(p) == reviewPage' = p

\* The page asked for when the button was pressed, appended; an error changes
\* nothing. Answers may overtake each other.
MoreArrives(i) ==
  /\ asks' = Without(asks, i)
  /\ \/ shown' = shown \o PageOf(asks[i]) /\ Turn(asks[i])
     \/ UNCHANGED <<shown, reviewPage>>
  /\ UNCHANGED <<table, reviewTotal, state, days, grown, shrunk, hurries>>

-----------------------------------------------------------------------------
(* The service.                                                            *)

Ids(s) == {s[i] : i \in DOMAIN s}

Publish ==
  /\ scene = "reviews" /\ written < MaxReviews
  /\ written' = written + 1
  /\ published' = <<written'>> \o published
  /\ grown' = (grown \/ state = "shown")
  /\ UNCHANGED <<asks, shown, reviewTotal, reviewPage, state, days, shrunk, hurries>>

Remove(i) ==
  /\ published' = Without(published, i)
  /\ shrunk' = (shrunk \/ state = "shown")
  /\ UNCHANGED <<written, asks, shown, reviewTotal, reviewPage, state, days, grown, hurries>>

-----------------------------------------------------------------------------
(* The calendar and the form.                                              *)

Free(s) == s.status = "available" /\ s.booked < s.capacity
Full(s) == s.status = "booked" \/ s.booked >= s.capacity

DayHours == 24

\* isPast: the day's midnight by UTC comes before today's by the user's clock.
Past(d) == DayHours * d < DayHours * today - zone

\* The class of a day of the calendar.
Shade(d) ==
  CASE Past(d) -> "past"
    [] ~Past(d) /\ (\E s \in slots[d] : Free(s)) -> "available"
    [] ~Past(d) /\ (\A s \in slots[d] : ~Free(s)) /\ (\E s \in slots[d] : Full(s)) -> "struck"
    [] OTHER -> "plain"

\* availableSlots of the booking form, which does not ask for the date.
Offered == {d \in Days : \E s \in slots[d] : Free(s)}

-----------------------------------------------------------------------------
Init ==
  /\ scene \in Scenes
  /\ written \in IF scene = "reviews" THEN 0..(MaxReviews - 1) ELSE {0}
  /\ published = [i \in 1..written |-> written + 1 - i]
  /\ asks = <<>> /\ shown = <<>>
  /\ reviewTotal = 0 /\ reviewPage = 1 /\ state = "loading"
  /\ slots \in IF scene = "calendar" THEN [Days -> {S \in SUBSET Slots : Cardinality(S) <= 2}]
                                     ELSE {[d \in Days |-> {}]}
  /\ today \in IF scene = "calendar" THEN Days ELSE {1}
  /\ zone \in IF scene = "calendar" THEN Zones ELSE {0}
  /\ grown = FALSE /\ shrunk = FALSE /\ hurries = 0

Next ==
  \/ Load \/ ShowMore \/ Publish
  \/ \E i \in DOMAIN asks : MoreArrives(i)
  \/ \E i \in DOMAIN published : Remove(i)

Spec == Init /\ [][Next]_vars

-----------------------------------------------------------------------------
(* Properties.                                                             *)

\* Every variable has its type.
TypeOK ==
  /\ written \in 0..MaxReviews /\ Ids(published) \cup Ids(shown) \subseteq 1..written
  /\ Ids(asks) \subseteq Nat /\ reviewPage \in Nat /\ reviewTotal \in Nat
  /\ state \in {"loading", "shown", "missing"} /\ today \in Days /\ scene \in Scenes /\ zone \in Zones \cup {0}
  /\ grown \in BOOLEAN /\ shrunk \in BOOLEAN /\ hurries \in 0..MaxHurries

\* "Show more" shows each review once and leaves none out, unless it is pressed
\* again before the answer, or reviews are published or removed meanwhile: a
\* new review shifts the pages and repeats one, a removed one makes a gap.
ReviewsInOrder ==
  state = "shown" /\ hurries = 0 /\ ~grown /\ ~shrunk =>
    shown = SubSeq(published, 1, Lesser(reviewPage * PerPage, Len(published)))

\* Removals alone never show a review twice.
ReviewsShownOnce ==
  hurries = 0 /\ ~grown => Cardinality(Ids(shown)) = Len(shown)

\* The calendar marks no day as available that is over for the user or that the
\* form does not offer, and marks every day to come that the form offers; of
\* today it may say, west of UTC, that it is past. (The form also offers slots
\* that are past.)
CalendarFitsForm ==
  \A d \in Days :
    /\ Shade(d) = "available" => d >= today /\ d \in Offered
    /\ d \in Offered /\ (d > today \/ (d = today /\ zone >= 0)) => Shade(d) = "available"
=============================================================================
