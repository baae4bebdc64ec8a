----------------------------- MODULE GuideDesk -----------------------------
(***************************************************************************)
(* The guide's dashboard of the web client, dashboard/guide/page.tsx: the  *)
(* guide's listings, which are created, edited, switched on and off and    *)
(* deleted, and the bookings under a filter.  As in TravelerDesk, effects  *)
(* ask the service and answers are applied when they arrive, and a change  *)
(* may be carried out and its answer lost, or after the client gave it up. *)
(*                                                                         *)
(* The service is any that may accept or refuse: the backend as it stands  *)
(* refuses list({guideId}) and the form data of a new listing, so the      *)
(* guide's listings stay empty until it accepts them.                      *)
(***************************************************************************)
EXTENDS Naturals, FiniteSets

CONSTANTS
  Experiences,  \* the guide's listings
  Bookings,     \* the guide's bookings
  None,
  Scenes,       \* the lists followed together: sets of "listings", "rows"
  MaxHurries,   \* bound on how often the guide overtakes an answer
  MaxLate       \* bound on the changes given up that are still on their way

VARIABLES
  listing,   \* service: the status of each listing, or "absent"
  booked,    \* service: the status of each booking
  tab,       \* tab
  filter,    \* bookingFilter
  exps,      \* experiences: the status shown of each listing, or "absent"
  rows,      \* bookings: the status shown of each row, or "absent"
  form,      \* showExpForm, editingExp, and whether it holds unsent input
  deleting,  \* deleteConfirm
  toggling,  \* togglingId
  asks,      \* reads in flight
  calls,     \* changes whose answer is awaited
  errors,    \* history: the lists whose last answer was an error
  doubt,     \* history: listings changed unseen: by others, by a call with no answer
  dropped,   \* history: input was lost that the guide did not discard
  scene,     \* the lists that are followed; never changes
  hurries,   \* how often the guide acted before every answer was in
  late       \* changes that the client gave up, and that the service may still carry out

tables  == <<listing, booked>>
screen  == <<tab, filter, exps, rows, form, deleting, toggling>>
history == <<errors, doubt, dropped>>
vars    == <<tables, screen, asks, calls, history, scene, hurries, late>>

\* The tabs of payments, reviews and the profile ask for nothing that is followed.
Tabs     == {"experiences", "bookings", "other"}
Filters  == {"upcoming", "past", "cancelled"}
Listings == {"pending_approval", "active", "inactive"}
StatusOf == [f \in Filters |->
  CASE f = "upcoming" -> "confirmed" [] f = "past" -> "completed" [] f = "cancelled" -> "cancelled"]

NoForm == [of |-> "closed", dirty |-> FALSE]
Form(e) == [of |-> e, dirty |-> FALSE]

Quiet == asks = {} /\ calls = {}

Act ==
  \/ Quiet /\ UNCHANGED hurries
  \/ ~Quiet /\ hurries < MaxHurries /\ hurries' = hurries + 1

-----------------------------------------------------------------------------
(* Reads.                                                                  *)

AskOf(what, key, l) == [what |-> what, key |-> key, listing |-> l, booked |-> booked]
Ask(what, key) == AskOf(what, key, listing)
Send(S) == asks' = asks \cup {a \in S : a.what \in scene}

\* The effect of each tab; the lists of payments and reviews only show what
\* they are answered.
TabAsks(t, f) ==
  CASE t = "experiences" -> {Ask("listings", t)} [] t = "bookings" -> {Ask("rows", f)} [] OTHER -> {}

List(of, s) == [b \in Bookings |-> IF of[b] = s THEN s ELSE "absent"]

\* An answer, of when it was asked or of now, or an error, which is ignored.
Arrive(a) ==
  /\ asks' = asks \ {a}
  /\ \/ /\ errors' = errors \ {a.what}
        /\ \/ /\ a.what = "listings"
              /\ exps' \in {a.listing, listing}
              /\ doubt' = {e \in doubt : exps'[e] # listing[e]}
              /\ UNCHANGED rows
           \/ /\ a.what = "rows"
              /\ \E b \in {a.booked, booked} : rows' = List(b, StatusOf[a.key])
              /\ UNCHANGED <<exps, doubt>>
     \/ errors' = errors \cup {a.what} /\ UNCHANGED <<exps, rows, doubt>>
  /\ UNCHANGED <<tables, tab, filter, form, deleting, toggling, calls, dropped, scene, hurries, late>>

-----------------------------------------------------------------------------
(* What the guide does.  A form or the question before deleting covers the *)
(* rest of the page.                                                       *)

Uncovered == form = NoForm /\ deleting = None

SelectTab(t) ==
  /\ Act /\ Uncovered /\ t # tab
  /\ tab' = t
  /\ Send(TabAsks(t, filter))
  /\ UNCHANGED <<tables, filter, exps, rows, form, deleting, toggling, calls, history, scene, late>>

SelectFilter(f) ==
  /\ Act /\ Uncovered /\ tab = "bookings" /\ "rows" \in scene /\ f # filter
  /\ filter' = f
  /\ Send(TabAsks(tab, f))
  /\ UNCHANGED <<tables, tab, exps, rows, form, deleting, toggling, calls, history, scene, late>>

\* The controls of the list: a new listing, and per row the switch, Edit, Delete.
Offers(e) ==
  CASE tab # "experiences" \/ ~Uncovered \/ exps[e] = "absent" -> {}
    [] exps[e] = "pending_approval" \/ toggling = e -> {"edit", "delete"}
    [] OTHER -> {"toggle", "edit", "delete"}

OpenForm(e) ==
  /\ Act
  /\ IF e = None THEN tab = "experiences" /\ Uncovered /\ "listings" \in scene ELSE "edit" \in Offers(e)
  /\ form' = Form(e)
  /\ UNCHANGED <<tables, tab, filter, exps, rows, deleting, toggling, asks, calls, history, scene, late>>

Type ==
  /\ Act /\ form # NoForm /\ ~form.dirty
  /\ form' = [form EXCEPT !.dirty = TRUE]
  /\ UNCHANGED <<tables, tab, filter, exps, rows, deleting, toggling, asks, calls, history, scene, late>>

Cancel ==
  /\ Act /\ form # NoForm
  /\ form' = NoForm
  /\ UNCHANGED <<tables, tab, filter, exps, rows, deleting, toggling, asks, calls, history, scene, late>>

Saving == \E c \in calls : c.op = "save"

SentForm == form' = [form EXCEPT !.dirty = FALSE]

\* saveExperience: the form stays open, with its input, until the answer.
SaveForm ==
  /\ Act /\ form # NoForm /\ ~Saving
  /\ calls' = calls \cup {[op |-> "save", on |-> form.of, to |-> "none"]}
  /\ SentForm
  /\ UNCHANGED <<tables, tab, filter, exps, rows, deleting, toggling, asks, history, scene, late>>

ReadAgain(c) == Send({AskOf("listings", "experiences", listing')})

\* The service stores e as a new listing, or the changes to a listing it has.
Stores(c, e) ==
  IF c.on = None
  THEN listing[e] = "absent" /\ listing' = [listing EXCEPT ![e] = "pending_approval"]
  ELSE c.on = e /\ listing[e] # "absent" /\ UNCHANGED listing

\* The catch of saveExperience: whatever form is open stays as it is.
NotSaved == dropped' = (dropped \/ form = NoForm) /\ UNCHANGED <<form, asks>>

\* Saved: whatever form is open closes, and the list is read again; saved and
\* the answer lost; or not saved.
FormSaved(c) ==
  /\ calls' = calls \ {c}
  /\ \/ \E e \in Experiences :
          /\ Stores(c, e)
          /\ \/ form' = NoForm /\ dropped' = (dropped \/ form.dirty) /\ ReadAgain(c) /\ UNCHANGED doubt
             \/ NotSaved /\ doubt' = doubt \cup {e}
     \/ NotSaved /\ UNCHANGED <<listing, doubt>>
  /\ UNCHANGED <<booked, tab, filter, exps, rows, deleting, toggling, errors, scene, hurries, late>>

Toggle(e) ==
  /\ Act /\ "toggle" \in Offers(e)
  /\ toggling' = e
  /\ calls' = calls \cup {[op |-> "toggle", on |-> e,
                           to |-> IF exps[e] = "active" THEN "inactive" ELSE "active"]}
  /\ UNCHANGED <<tables, tab, filter, exps, rows, form, deleting, asks, history, scene, late>>

\* The row takes the status that was sent, if it is still there.
Show(c) == [exps EXCEPT ![c.on] = IF @ = "absent" THEN @ ELSE c.to]

\* The switch of whatever listing was pressed last is free again.
Toggled(c) ==
  /\ calls' = calls \ {c}
  /\ toggling' = None
  /\ \/ /\ listing[c.on] # "absent"
        /\ listing' = [listing EXCEPT ![c.on] = c.to]
        /\ \/ exps' = Show(c) /\ UNCHANGED doubt
           \/ doubt' = doubt \cup {c.on} /\ UNCHANGED exps
     \/ UNCHANGED <<listing, exps, doubt>>
  /\ UNCHANGED <<booked, tab, filter, rows, form, deleting, asks, errors, dropped, scene, hurries, late>>

AskDelete(e) ==
  /\ Act /\ "delete" \in Offers(e)
  /\ deleting' = e
  /\ UNCHANGED <<tables, tab, filter, exps, rows, form, toggling, asks, calls, history, scene, late>>

KeepListing ==
  /\ Act /\ deleting # None
  /\ deleting' = None
  /\ UNCHANGED <<tables, tab, filter, exps, rows, form, toggling, asks, calls, history, scene, late>>

ConfirmDelete ==
  /\ Act /\ deleting # None
  /\ calls' = calls \cup {[op |-> "delete", on |-> deleting, to |-> "none"]}
  /\ UNCHANGED <<tables, screen, asks, history, scene, late>>

\* Deleted: the question, whichever is open, closes and the list is read again.
Deleted(c) ==
  /\ calls' = calls \ {c}
  /\ \/ /\ listing[c.on] # "absent"
        /\ listing' = [listing EXCEPT ![c.on] = "absent"]
        /\ \/ deleting' = None /\ ReadAgain(c) /\ UNCHANGED doubt
           \/ doubt' = doubt \cup {c.on} /\ UNCHANGED <<deleting, asks>>
     \/ UNCHANGED <<listing, deleting, asks, doubt>>
  /\ UNCHANGED <<booked, tab, filter, exps, rows, form, toggling, errors, dropped, scene, hurries, late>>

\* The client waits no longer for an answer, which to the page is a failure.
GiveUp(c) ==
  /\ Cardinality(late) < MaxLate
  /\ calls' = calls \ {c}
  /\ late' = late \cup {c}
  /\ toggling' = IF c.op = "toggle" THEN None ELSE toggling
  /\ IF c.op = "save" THEN NotSaved ELSE UNCHANGED <<form, asks, dropped>>
  /\ UNCHANGED <<tables, tab, filter, exps, rows, deleting, errors, doubt, scene, hurries>>

\* The service carries out a change that was given up, or refuses it.
ServeLate(c) ==
  /\ late' = late \ {c}
  /\ \/ \E e \in Experiences :
          /\ \/ c.op = "save" /\ Stores(c, e)
             \/ /\ c.op # "save" /\ c.on = e /\ listing[e] # "absent"
                /\ listing' = [listing EXCEPT ![e] = IF c.op = "toggle" THEN c.to ELSE "absent"]
          /\ doubt' = doubt \cup {e}
     \/ UNCHANGED <<listing, doubt>>
  /\ UNCHANGED <<booked, screen, asks, calls, errors, dropped, scene, hurries>>

\* Others: the administration approves a listing, a booking is completed.
Decide(e) ==
  /\ listing[e] = "pending_approval"
  /\ listing' = [listing EXCEPT ![e] = "active"]
  /\ doubt' = doubt \cup {e}
  /\ UNCHANGED <<booked, screen, asks, calls, errors, dropped, scene, hurries, late>>

Complete(b) ==
  /\ "rows" \in scene /\ booked[b] = "confirmed"
  /\ booked' = [booked EXCEPT ![b] = "completed"]
  /\ UNCHANGED <<listing, screen, asks, calls, history, scene, hurries, late>>

-----------------------------------------------------------------------------
Init ==
  /\ listing \in [Experiences -> {"active", "absent"}]
  /\ booked = [b \in Bookings |-> "confirmed"]
  /\ tab = "experiences" /\ filter = "upcoming"
  /\ exps = [e \in Experiences |-> "absent"]
  /\ rows = [b \in Bookings |-> "absent"]
  /\ form = NoForm /\ deleting = None /\ toggling = None
  /\ scene \in Scenes
  /\ asks = {a \in TabAsks(tab, filter) : a.what \in scene}
  /\ calls = {} /\ errors = {} /\ doubt = {} /\ dropped = FALSE
  /\ hurries = 0 /\ late = {}

Next ==
  \/ \E a \in asks : Arrive(a)
  \/ \E t \in Tabs : SelectTab(t)
  \/ \E f \in Filters : SelectFilter(f)
  \/ Type \/ Cancel \/ SaveForm \/ KeepListing \/ ConfirmDelete
  \/ \E e \in Experiences \cup {None} : OpenForm(e)
  \/ \E e \in Experiences : Toggle(e) \/ AskDelete(e) \/ Decide(e)
  \/ \E c \in calls : c.op = "save" /\ FormSaved(c)
  \/ \E c \in calls : c.op = "toggle" /\ Toggled(c)
  \/ \E c \in calls : c.op = "delete" /\ Deleted(c)
  \/ \E c \in calls : GiveUp(c)
  \/ \E c \in late : ServeLate(c)
  \/ \E b \in Bookings : Complete(b)

Spec == Init /\ [][Next]_vars

-----------------------------------------------------------------------------
(* Properties.                                                             *)

\* Every variable has its type.
TypeOK ==
  /\ listing \in [Experiences -> Listings \cup {"absent"}]
  /\ exps \in [Experiences -> Listings \cup {"absent"}]
  /\ booked \in [Bookings -> {"confirmed", "completed"}]
  /\ rows \in [Bookings -> {"confirmed", "completed", "cancelled", "absent"}]
  /\ tab \in Tabs /\ filter \in Filters
  /\ form.of \in Experiences \cup {None, "closed"} /\ form.dirty \in BOOLEAN
  /\ {deleting, toggling} \subseteq Experiences \cup {None}
  /\ errors \subseteq {"listings", "rows"} /\ doubt \subseteq Experiences
  /\ dropped \in BOOLEAN /\ hurries \in 0..MaxHurries
  /\ \A c \in late : c.op \in {"save", "toggle", "delete"}

\* Unless the guide overtook an answer, and with the answers in, the page shows
\* each listing as the service has it, except those that others changed, or a
\* call whose answer was lost or that was carried out after it was given up, and,
\* after an error, those it could not read.
ListingsAgree ==
  hurries = 0 /\ Quiet /\ "listings" \in scene \ errors =>
    \A e \in Experiences : e \in doubt \/ exps[e] = listing[e]

\* Nor is input lost that the guide did not discard: a form closes only over
\* what was saved.  (Who opens another form while one is being saved sees it
\* closed by the answer.)
InputIsKept == hurries = 0 => ~dropped

\* Nor do the rows part from the filter, whatever tabs were visited.
RowsFitFilter ==
  hurries = 0 /\ asks = {} /\ "rows" \notin errors =>
    \A b \in Bookings : rows[b] \in {StatusOf[filter], "absent"}
=============================================================================
