---------------------------- MODULE TravelerDesk ----------------------------
(***************************************************************************)
(* The traveller's dashboard of the web client, dashboard/traveler/page.tsx, *)
(* and the tables it shows: bookings under a filter, all bookings (for the *)
(* totals), the wishlist with its hearts, and the Discover list.           *)
(*                                                                         *)
(* React runs an effect when its dependencies change, and the effect asks  *)
(* the service; an answer is applied when it arrives, whatever the screen  *)
(* shows by then, and tells of the data of when it was asked or of when it *)
(* arrives.  A user who acts before every answer is in is in a hurry: what *)
(* only holds for users who wait says so.  A change may be carried out and *)
(* its answer lost, and one that the client gave up waiting for may still  *)
(* be carried out later: the page does not learn of either.                *)
(***************************************************************************)
EXTENDS Naturals, FiniteSets

CONSTANTS
  Bookings,     \* bookings of the user
  Experiences,  \* experiences on offer
  None,         \* no modal
  Scenes,       \* the lists followed together: sets of lists
  MaxHurries,   \* bound on how often the user overtakes an answer
  MaxLate       \* bound on the changes given up that are still on their way

VARIABLES
  status,   \* service: bookings.status
  wished,   \* service: the wishlist
  tab,      \* the tab shown
  filter,   \* bookingFilter
  mode,     \* discoverTab
  rows,     \* bookings: the status shown of each row, or "absent"
  all,      \* allBookings: the same
  hearts,   \* wishlistIds
  shelf,    \* the discoverTab whose experiences are shown
  modal,    \* cancelModal
  asks,     \* reads in flight
  calls,    \* changes whose answer is awaited
  errors,   \* history: the lists whose last answer was an error
  told,     \* history: the user was told they are cancelled
  scene,    \* the lists that are followed; never changes
  hurries,  \* how often the user acted before every answer was in
  doubt,    \* history: the experiences that were added or removed unseen
  late      \* changes that the client gave up, and that the service may still carry out

tables == <<status, wished>>
screen == <<tab, filter, mode, rows, all, hearts, shelf, modal>>
unseen == <<doubt, late>>
vars == <<tables, screen, asks, calls, errors, told, scene, hurries, unseen>>

Statuses == {"confirmed", "completed", "cancelled"}
Filters  == {"upcoming", "past", "cancelled"}
Modes    == {"recommended", "popular", "trending"}
Tabs     == {"dashboard", "bookings", "wishlist"}

\* statusMap of the effect that loads the bookings.
StatusOf == [f \in Filters |->
  CASE f = "upcoming" -> "confirmed" [] f = "past" -> "completed" [] f = "cancelled" -> "cancelled"]

Quiet == asks = {} /\ calls = {}

\* The user acts, after every answer is in or not.
Act ==
  \/ Quiet /\ UNCHANGED hurries
  \/ ~Quiet /\ hurries < MaxHurries /\ hurries' = hurries + 1

-----------------------------------------------------------------------------
(* What the service answers.                                               *)

Ask(what, key) == [what |-> what, key |-> key, status |-> status, wished |-> wished]

\* Reads of lists outside the scene change nothing that is followed.
Send(S) == asks' = asks \cup {a \in S : a.what \in scene}

\* The rows of a list of bookings with one status, or of all of them.
List(of, s) == [b \in Bookings |-> IF of[b] = s \/ s = "any" THEN of[b] ELSE "absent"]

\* The effects that run at mount, for no component of the page replaces the
\* user object they depend on: all bookings and the wishlist, Discover, the filtered bookings.
Effects == {Ask("all", "any"), Ask("wishlist", "any"), Ask("discover", mode), Ask("rows", filter)}

\* An answer, of when it was asked or of now, applied; or an error, ignored but
\* for Discover, which shows nothing then.
Arrive(a) ==
  /\ asks' = asks \ {a}
  /\ errors' = errors \ {a.what}
  /\ \E s \in {a.status, status}, w \in {a.wished, wished} :
       \/ a.what = "rows" /\ rows' = List(s, StatusOf[a.key]) /\ UNCHANGED <<all, hearts, shelf, doubt>>
       \/ a.what = "all" /\ all' = List(s, "any") /\ UNCHANGED <<rows, hearts, shelf, doubt>>
       \/ /\ a.what = "wishlist" /\ hearts' = w
          /\ doubt' = {e \in doubt : ~(e \in w <=> e \in wished)}
          /\ UNCHANGED <<rows, all, shelf>>
       \/ a.what = "discover" /\ shelf' = a.key /\ UNCHANGED <<rows, all, hearts, doubt>>
  /\ UNCHANGED <<tables, tab, filter, mode, modal, calls, told, scene, hurries, late>>

Refuse(a) ==
  /\ asks' = asks \ {a}
  /\ errors' = errors \cup {a.what}
  /\ shelf' = IF a.what = "discover" THEN "none" ELSE shelf
  /\ UNCHANGED <<tables, tab, filter, mode, rows, all, hearts, modal, calls, told, scene, hurries, unseen>>

-----------------------------------------------------------------------------
(* What the user does; each tab offers its own controls.                   *)

\* The sidebar.
SelectTab(t) ==
  /\ Act /\ t # tab
  /\ tab' = t
  /\ Send(IF t = "wishlist" THEN {Ask("wishlist", "any")} ELSE {})
  /\ UNCHANGED <<tables, filter, mode, rows, all, hearts, shelf, modal, calls, errors, told, scene, unseen>>

\* Mutant: the effect does not depend on the filter.
FilterAsksNothing(f) == UNCHANGED asks

FilterAsks(f) == Send({Ask("rows", f)})

SelectFilter(f) ==
  /\ Act /\ tab = "bookings" /\ "rows" \in scene /\ f # filter
  /\ filter' = f
  /\ FilterAsks(f)
  /\ UNCHANGED <<tables, tab, mode, rows, all, hearts, shelf, modal, calls, errors, told, scene, unseen>>

SelectMode(m) ==
  /\ Act /\ tab = "dashboard" /\ "discover" \in scene /\ m # mode
  /\ mode' = m
  /\ Send({Ask("discover", m)})
  /\ UNCHANGED <<tables, tab, filter, rows, all, hearts, shelf, modal, calls, errors, told, scene, unseen>>

\* The buttons of a row: Cancel while confirmed, Review once completed.
RowOffers(b) ==
  CASE rows[b] = "confirmed" -> {"cancel"} [] rows[b] = "completed" -> {"review"} [] OTHER -> {}

OpenCancel(b) ==
  /\ Act /\ tab = "bookings" /\ "rows" \in scene /\ modal = None
  /\ "cancel" \in RowOffers(b)
  /\ modal' = b
  /\ UNCHANGED <<tables, tab, filter, mode, rows, all, hearts, shelf, asks, calls, errors, told, scene, unseen>>

CloseCancel ==
  /\ Act /\ modal # None
  /\ modal' = None
  /\ UNCHANGED <<tables, tab, filter, mode, rows, all, hearts, shelf, asks, calls, errors, told, scene, unseen>>

\* confirmCancel: the booking is the one the modal named when it was pressed;
\* nothing disables the button meanwhile, nor the one that closes the modal.
ConfirmCancel ==
  /\ Act /\ modal # None
  /\ calls' = calls \cup {[op |-> "cancel", on |-> modal, next |-> {}]}
  /\ UNCHANGED <<tables, screen, asks, errors, told, scene, unseen>>

Without(b) == rows' = [rows EXCEPT ![b] = "absent"] /\ all' = [all EXCEPT ![b] = "absent"]

\* The service cancels a booking that is confirmed.
CancelsRow(c) == status[c.on] = "confirmed" /\ status' = [status EXCEPT ![c.on] = "cancelled"]

\* Cancelled, and the screen forgets the booking; a refusal or a lost answer
\* leaves the modal open.
Cancelled(c) ==
  /\ calls' = calls \ {c}
  /\ \/ /\ CancelsRow(c)
        /\ \/ Without(c.on) /\ modal' = None /\ told' = told \cup {c.on}
           \/ UNCHANGED <<rows, all, modal, told>>
     \/ UNCHANGED <<status, rows, all, modal, told>>
  /\ UNCHANGED <<wished, tab, filter, mode, hearts, shelf, asks, errors, scene, hurries, unseen>>

Flip(S, e) == IF e \in S THEN S \ {e} ELSE S \cup {e}

\* toggleWishlist: next is made of the hearts of when it was pressed.
PressHeart(e) ==
  /\ Act /\ tab \in {"dashboard", "wishlist"} /\ "wishlist" \in scene
  /\ calls' = calls \cup {[op |-> "heart", on |-> e, next |-> Flip(hearts, e)]}
  /\ UNCHANGED <<tables, screen, asks, errors, told, scene, unseen>>

\* removeFromWishlist, of the wishlist tab.
PressRemove(e) ==
  /\ Act /\ tab = "wishlist" /\ e \in hearts
  /\ calls' = calls \cup {[op |-> "unheart", on |-> e, next |-> {}]}
  /\ UNCHANGED <<tables, screen, asks, errors, told, scene, unseen>>

\* The service adds what is in next and removes what is not.
Wishes(c) == wished' = IF c.on \in c.next THEN wished \cup {c.on} ELSE wished \ {c.on}

\* The hearts that an answer sets: those of when the heart was pressed, or, for
\* removeFromWishlist, those of now without the one removed.
NextHearts(c) == IF c.op = "heart" THEN c.next ELSE hearts \ {c.on}

\* Carried out and then the hearts are set; carried out and the answer lost; or refused.
HeartSet(c) ==
  \/ Wishes(c) /\ hearts' = NextHearts(c) /\ doubt' = doubt \ {c.on}
  \/ Wishes(c) /\ UNCHANGED hearts /\ doubt' = doubt \cup {c.on}
  \/ UNCHANGED <<wished, hearts, doubt>>

Hearted(c) ==
  /\ calls' = calls \ {c}
  /\ HeartSet(c)
  /\ UNCHANGED <<status, tab, filter, mode, rows, all, shelf, modal, asks, errors, told, scene, hurries, late>>

\* The client waits no longer for an answer: to the page, the change failed.
GiveUp(c) ==
  /\ Cardinality(late) < MaxLate
  /\ calls' = calls \ {c}
  /\ late' = late \cup {c}
  /\ UNCHANGED <<tables, screen, asks, errors, told, scene, hurries, doubt>>

\* The service carries out a change that was given up, or refuses it.
ServeLate(c) ==
  /\ late' = late \ {c}
  /\ \/ c.op = "cancel" /\ CancelsRow(c) /\ UNCHANGED <<wished, doubt>>
     \/ c.op # "cancel" /\ Wishes(c) /\ doubt' = doubt \cup {c.on} /\ UNCHANGED status
     \/ UNCHANGED <<tables, doubt>>
  /\ UNCHANGED <<screen, asks, calls, errors, told, scene, hurries>>

\* The guide completes a booking.
Complete(b) ==
  /\ status[b] = "confirmed"
  /\ status' = [status EXCEPT ![b] = "completed"]
  /\ UNCHANGED <<wished, screen, asks, calls, errors, told, scene, hurries, unseen>>

-----------------------------------------------------------------------------
Init ==
  /\ status = [b \in Bookings |-> "confirmed"]
  /\ wished \in {{}, Experiences}
  /\ tab = "dashboard" /\ filter = "upcoming" /\ mode = "recommended"
  /\ rows = [b \in Bookings |-> "absent"] /\ all = rows
  /\ hearts = {} /\ shelf = "none" /\ modal = None
  /\ scene \in Scenes
  /\ asks = {a \in Effects : a.what \in scene}
  /\ calls = {} /\ errors = {} /\ told = {}
  /\ hurries = 0 /\ doubt = {} /\ late = {}

Next ==
  \/ \E a \in asks : Arrive(a) \/ Refuse(a)
  \/ CloseCancel \/ ConfirmCancel
  \/ \E t \in Tabs : SelectTab(t)
  \/ \E f \in Filters : SelectFilter(f)
  \/ \E m \in Modes : SelectMode(m)
  \/ \E b \in Bookings : OpenCancel(b) \/ Complete(b)
  \/ \E e \in Experiences : PressHeart(e) \/ PressRemove(e)
  \/ \E c \in calls : c.op = "cancel" /\ Cancelled(c)
  \/ \E c \in calls : c.op # "cancel" /\ Hearted(c)
  \/ \E c \in calls : GiveUp(c)
  \/ \E c \in late : ServeLate(c)

Spec == Init /\ [][Next]_vars

-----------------------------------------------------------------------------
(* Properties.                                                             *)

Shown == [Bookings -> Statuses \cup {"absent"}]

\* Every variable has its type.
TypeOK ==
  /\ status \in [Bookings -> Statuses] /\ wished \subseteq Experiences
  /\ tab \in Tabs /\ filter \in Filters /\ mode \in Modes
  /\ rows \in Shown /\ all \in Shown
  /\ hearts \subseteq Experiences /\ shelf \in Modes \cup {"none"}
  /\ modal \in Bookings \cup {None} /\ told \subseteq Bookings
  /\ errors \subseteq {"rows", "all", "wishlist", "discover"} /\ scene \in Scenes /\ hurries \in 0..MaxHurries
  /\ \A a \in asks : a.what \in {"rows", "all", "wishlist", "discover"} /\ a.wished \subseteq Experiences
  /\ \A c \in calls \cup late :
       c.op \in {"cancel", "heart", "unheart"} /\ c.next \subseteq Experiences
  /\ doubt \subseteq Experiences

\* With the answers in, the rows are those of the filter and the experiences
\* those of the Discover tab that is selected: unless the user overtook an
\* answer, for a late one is applied under the filter chosen since, or the
\* last one was an error, for the old rows stay under the new filter.
ListsFitControls ==
  hurries = 0 /\ asks = {} =>
    /\ "rows" \notin errors => \A b \in Bookings : rows[b] \in {StatusOf[filter], "absent"}
    /\ "discover" \in scene => shelf \in {mode, "none"}

\* Unless the user overtook an answer, a booking the page said was cancelled
\* counts nowhere as confirmed, neither among the rows nor in the totals.
CancelledIsGone ==
  hurries = 0 => \A b \in told : rows[b] # "confirmed" /\ all[b] # "confirmed"

\* Nor do the hearts and the wishlist part, with the answers in, but for the
\* experiences that were added or removed unseen, by a call whose answer was lost
\* or that was carried out after it was given up, until the wishlist is read
\* again; two hearts pressed together do that.
HeartsAreWishlist ==
  hurries = 0 /\ Quiet /\ "wishlist" \in scene \ errors =>
    \A e \in Experiences : e \in doubt \/ (e \in hearts <=> e \in wished)
=============================================================================
