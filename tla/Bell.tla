-------------------------------- MODULE Bell --------------------------------
(***************************************************************************)
(* The bell of the web client's navigation bar, NotificationCenter.tsx:    *)
(* it loads the user's notifications once and marks them read, one by one  *)
(* or all at once.  Module Notifications has the service.                  *)
(***************************************************************************)
EXTENDS Naturals, FiniteSets

CONSTANTS
  Notes,      \* notifications of the user
  MaxMarks    \* bound on the markings under way at once

VARIABLES
  row,       \* service: their status
  shown,     \* notifications: the status shown, or "absent"
  listing,   \* loading
  marks,     \* markRead and markAllRead under way
  lost,      \* history: notifications whose marking failed
  undone     \* history: notifications that were read and delivered again

vars == <<row, shown, listing, marks, lost, undone>>

Statuses == {"pending", "sent", "read"}

-----------------------------------------------------------------------------
\* list() answered or failed.
Listed ==
  /\ listing
  /\ listing' = FALSE
  /\ shown' \in {row, shown}
  /\ UNCHANGED <<row, marks, lost, undone>>

Unread == {n \in Notes : shown[n] \notin {"read", "absent"}}

\* A click on an unread one, or "Mark all as read": a call for each of those
\* unread when it was pressed, and at the end these, or all, are shown read.
Press(S, then) ==
  /\ ~listing /\ Cardinality(marks) < MaxMarks
  /\ marks' = marks \cup {[left |-> S, then |-> then]}
  /\ UNCHANGED <<row, shown, listing, lost, undone>>

MarkRead(n) == shown[n] \notin {"read", "absent"} /\ Press({n}, {n})
MarkAllRead == (\E n \in Notes : shown[n] \notin {"read", "absent"}) /\ Press(Unread, Notes)

\* One of the calls is answered; an error is swallowed.
Marked(m, n) ==
  /\ marks' = (marks \ {m}) \cup {[m EXCEPT !.left = @ \ {n}]}
  /\ \/ row' = [row EXCEPT ![n] = "read"] /\ UNCHANGED lost
     \/ lost' = lost \cup {n} /\ UNCHANGED row
  /\ UNCHANGED <<shown, listing, undone>>

ShowRead(m) ==
  /\ m.left = {}
  /\ marks' = marks \ {m}
  /\ shown' = [n \in Notes |->
       IF n \in m.then /\ shown[n] # "absent" THEN "read" ELSE shown[n]]
  /\ UNCHANGED <<row, listing, lost, undone>>

\* The service delivers; a delivery that overlaps a mark writes "sent" over it.
Delivered(n) ==
  /\ row[n] # "sent"
  /\ row' = [row EXCEPT ![n] = "sent"]
  /\ undone' = IF row[n] = "read" THEN undone \cup {n} ELSE undone
  /\ UNCHANGED <<shown, listing, marks, lost>>

Init ==
  /\ row \in [Notes -> Statuses]
  /\ shown = [n \in Notes |-> "absent"]
  /\ listing = TRUE /\ marks = {}
  /\ lost = {} /\ undone = {}

Next ==
  \/ Listed \/ MarkAllRead
  \/ \E n \in Notes : MarkRead(n) \/ Delivered(n)
  \/ \E m \in marks : ShowRead(m) \/ \E n \in m.left : Marked(m, n)

Spec == Init /\ [][Next]_vars

-----------------------------------------------------------------------------
(* Properties.                                                             *)

\* Every variable has its type.
TypeOK ==
  /\ row \in [Notes -> Statuses] /\ shown \in [Notes -> Statuses \cup {"absent"}]
  /\ listing \in BOOLEAN
  /\ \A m \in marks : m.left \subseteq Notes /\ m.then \subseteq Notes
  /\ Cardinality(marks) <= MaxMarks
  /\ lost \subseteq Notes /\ undone \subseteq Notes

\* What the bell shows as read is read, unless the call that was to mark it
\* failed or a delivery undid it: also when all are marked at once while others
\* are marked one by one.
ShownReadIsRead ==
  \A n \in Notes : shown[n] = "read" => row[n] = "read" \/ n \in lost \cup undone
=============================================================================
