----------------------------- MODULE AdminDesk -----------------------------
(***************************************************************************)
(* The administration's panel of the web client, admin/page.tsx: lists     *)
(* behind tabs with one loading flag, one "open" row and one reason for    *)
(* all of them, and decisions whose errors are swallowed.                  *)
(*                                                                         *)
(* As the code stands, the tab "experiences" lists verification requests   *)
(* and "users" lists audit logs, so what is decided there reaches nobody   *)
(* (404), and "Remove" flags a flagged review again.                       *)
(***************************************************************************)
EXTENDS Naturals, FiniteSets

CONSTANTS
  Requests,    \* verification requests
  Flagged,     \* flagged reviews
  Logs,        \* audit logs
  None,
  Scenes,      \* the tabs visited together: sets of tabs
  MaxHurries   \* bound on how often the administrator overtakes an answer

VARIABLES
  status,    \* service: the status of each verification request
  tab,       \* tab
  shown,     \* verifications, pendingExperiences, flaggedReviews, users: rows
  marked,    \* rows of users shown as suspended
  target,    \* actionTarget: the row whose reason is asked for
  reason,    \* rejectReason or suspendReason: whether one is typed
  loading,   \* loading
  asks,      \* reads in flight
  calls,     \* decisions in flight
  read,      \* history: the tabs that were read
  lost,      \* history: requests whose decision failed, unseen
  others,    \* history: requests another administrator decided or reopened
  scene,     \* the tabs that are visited; never changes
  hurries    \* how often the administrator acted before every answer was in

screen == <<tab, shown, marked, target, reason, loading>>
vars   == <<status, screen, asks, calls, read, lost, others, scene, hurries>>

Decided == {"approved", "rejected"}
Lists   == {"verifications", "experiences", "reviews", "users"}
Tabs    == Lists \cup {"metrics", "audit"}
Rows    == Requests \cup Flagged \cup Logs

Quiet == asks = {} /\ calls = {}

Act ==
  \/ Quiet /\ UNCHANGED hurries
  \/ ~Quiet /\ hurries < MaxHurries /\ hurries' = hurries + 1

-----------------------------------------------------------------------------
(* loadTab: what each tab asks for.                                        *)

Pending == {r \in Requests : status[r] = "pending"}
Listed(t) ==
  CASE t \in {"verifications", "experiences"} -> Pending
    [] t = "reviews" -> Flagged [] t = "users" -> Logs [] OTHER -> {}

SelectTab(t) ==
  /\ Act /\ t \in scene \ {tab}
  /\ tab' = t /\ loading' = TRUE
  /\ asks' = asks \cup {[tab |-> t, rows |-> Listed(t)]}
  /\ UNCHANGED <<status, shown, marked, target, reason, calls, read, lost, others, scene>>

\* An answer, of when it was asked or of now, or an error, which is ignored;
\* either ends the loading of all.
Arrive(a) ==
  /\ asks' = asks \ {a} /\ loading' = FALSE
  /\ \/ UNCHANGED <<shown, marked, read, lost, others>>
     \/ /\ a.tab \in Lists
        /\ \E rows \in {a.rows, Listed(a.tab)} :
             /\ shown' = [shown EXCEPT ![a.tab] = rows]
             /\ others' = IF a.tab = "verifications" THEN {r \in others : r \in rows <=> r \notin Pending}
                          ELSE others
        /\ marked' = IF a.tab = "users" THEN {} ELSE marked
        /\ read' = read \cup {a.tab}
        /\ lost' = IF a.tab = "verifications" THEN {} ELSE lost
  /\ UNCHANGED <<status, tab, target, reason, calls, scene, hurries>>

-----------------------------------------------------------------------------
(* The controls of a row.  A reason is asked for below "Reject" and        *)
(* "Suspend"; what is typed stays when it is cancelled, for the next row.  *)

Offers(r) ==
  IF loading \/ tab \notin Lists \/ r \notin shown[tab] THEN {}
  ELSE CASE tab = "reviews" -> {"remove"}
         [] tab = "users" /\ r \in marked -> {"unsuspend"}
         [] tab = "users" -> {"refuse"}
         [] OTHER -> {"approve", "refuse"}

Open(r) ==
  /\ Act /\ "refuse" \in Offers(r) /\ target # r
  /\ target' = r
  /\ UNCHANGED <<status, tab, shown, marked, reason, loading, asks, calls, read, lost, others, scene>>

Type ==
  /\ Act /\ target # None /\ "refuse" \in Offers(target) /\ ~reason
  /\ reason' = TRUE
  /\ UNCHANGED <<status, tab, shown, marked, target, loading, asks, calls, read, lost, others, scene>>

Cancel ==
  /\ Act /\ target # None /\ "refuse" \in Offers(target)
  /\ target' = None
  /\ UNCHANGED <<status, tab, shown, marked, reason, loading, asks, calls, read, lost, others, scene>>

Call(op, r) ==
  /\ calls' = calls \cup {[op |-> op, tab |-> tab, on |-> r]}
  /\ UNCHANGED <<status, screen, asks, read, lost, others, scene>>

Approve(r)   == Act /\ "approve" \in Offers(r) /\ Call("approve", r)
Remove(r)    == Act /\ "remove" \in Offers(r) /\ Call("remove", r)
Unsuspend(r) == Act /\ "unsuspend" \in Offers(r) /\ Call("unsuspend", r)

\* Without a reason nothing happens.
Blank(r) == UNCHANGED shown

\* "Confirm": rejectVerification, rejectExperience, suspendUser.
Refuse ==
  /\ Act /\ target # None /\ "refuse" \in Offers(target)
  /\ \/ /\ reason
        /\ calls' = calls \cup {[op |-> "refuse", tab |-> tab, on |-> target]}
        /\ UNCHANGED shown
     \/ ~reason /\ Blank(target) /\ UNCHANGED calls
  /\ UNCHANGED <<status, tab, marked, target, reason, loading, asks, read, lost, others, scene>>

\* What the screen shows afterwards, done or failed.
AfterCall(c) ==
  IF c.tab = "users"
  THEN /\ marked' = IF c.op = "refuse" THEN marked \cup ({c.on} \cap shown["users"]) ELSE marked \ {c.on}
       /\ UNCHANGED shown
  ELSE shown' = [shown EXCEPT ![c.tab] = @ \ {c.on}] /\ UNCHANGED marked

\* The service decides a pending request; or an error, swallowed.  A refusal
\* empties the reason and closes whichever row asks for one.
Answered(c) ==
  /\ calls' = calls \ {c}
  /\ \/ /\ c.tab = "verifications" /\ status[c.on] = "pending"
        /\ status' = [status EXCEPT ![c.on] = IF c.op = "approve" THEN "approved" ELSE "rejected"]
        /\ UNCHANGED lost
     \/ /\ lost' = IF c.tab = "verifications" THEN lost \cup {c.on} ELSE lost
        /\ UNCHANGED status
  /\ AfterCall(c)
  /\ IF c.op = "refuse" THEN target' = None /\ reason' = FALSE ELSE UNCHANGED <<target, reason>>
  /\ UNCHANGED <<tab, loading, asks, read, others, scene, hurries>>

\* Another administrator decides, or a guide submits anew.
Elsewhere(r, s) ==
  /\ status[r] # s
  /\ status' = [status EXCEPT ![r] = s]
  /\ others' = others \cup {r}
  /\ UNCHANGED <<screen, asks, calls, read, lost, scene, hurries>>

-----------------------------------------------------------------------------
Init ==
  /\ status = [r \in Requests |-> "pending"]
  /\ tab = "verifications" /\ loading = TRUE
  /\ shown = [t \in Lists |-> {}] /\ marked = {}
  /\ target = None /\ reason = FALSE
  /\ asks = {[tab |-> tab, rows |-> Listed(tab)]} /\ calls = {}
  /\ scene \in Scenes
  /\ read = {} /\ lost = {} /\ others = {}
  /\ hurries = 0

Next ==
  \/ \E a \in asks : Arrive(a)
  \/ \E t \in Tabs : SelectTab(t)
  \/ Type \/ Cancel \/ Refuse
  \/ \E r \in Rows : Open(r) \/ Approve(r) \/ Remove(r) \/ Unsuspend(r)
  \/ \E c \in calls : Answered(c)
  \/ \E r \in Requests, s \in {"pending", "approved"} : Elsewhere(r, s)

Spec == Init /\ [][Next]_vars

-----------------------------------------------------------------------------
(* Properties.                                                             *)

\* Every variable has its type.
TypeOK ==
  /\ status \in [Requests -> {"pending"} \cup Decided]
  /\ tab \in Tabs /\ shown \in [Lists -> SUBSET Rows] /\ marked \subseteq Logs
  /\ target \in Rows \cup {None} /\ reason \in BOOLEAN /\ loading \in BOOLEAN
  /\ \A a \in asks : a.tab \in Tabs /\ a.rows \subseteq Rows
  /\ \A c \in calls : c.tab \in Lists /\ c.on \in Rows
  /\ read \subseteq Lists /\ lost \subseteq Requests /\ others \subseteq Requests
  /\ hurries \in 0..MaxHurries

\* A guide who waits for a decision is not forgotten: a request that is pending
\* is in the list, once it was read, unless a decision on it failed unseen or
\* it was submitted since. (Who leaves the list and comes back before it was
\* answered overtakes two answers, and may then see the older of two lists.)
PendingIsListed ==
  hurries <= 1 /\ "verifications" \in read =>
    \A r \in Pending : r \in shown["verifications"] \cup lost \cup others

\* No request is offered for a decision again that the panel saw decided,
\* unless the administrator overtook an answer.
DecidedIsGone ==
  hurries = 0 /\ Quiet => \A r \in shown["verifications"] : status[r] = "pending" \/ r \in others
=============================================================================
