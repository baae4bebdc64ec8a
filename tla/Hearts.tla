------------------------------- MODULE Hearts -------------------------------
(***************************************************************************)
(* The hearts of the search page (experiences/page.tsx, ExperienceCard) and *)
(* of the page of one experience (experiences/[id]/page.tsx).  Unlike those *)
(* of the dashboard they start empty with every load, they are set after   *)
(* the call whatever came of it, and only for who is signed in.            *)
(***************************************************************************)
EXTENDS Naturals

CONSTANTS
  Experiences,  \* those on the page; on the page of one experience, one
  MaxHurries    \* bound on how often a heart is pressed before the answer

VARIABLES
  saved,     \* service: the wishlist
  hearts,    \* the wishlist of the page
  calls,     \* changes in flight: the experience, and the hearts after it
  touched,   \* history: the experiences whose heart was pressed since the load
  failed,    \* history: a change was refused since the load
  hurries    \* how often the user overtook an answer

vars == <<saved, hearts, calls, touched, failed, hurries>>

Flip(S, e) == IF e \in S THEN S \ {e} ELSE S \cup {e}

\* toggleWishlist: the new hearts are made of those of when it is pressed.
Press(e) ==
  /\ \/ calls = {} /\ UNCHANGED hurries
     \/ calls # {} /\ hurries < MaxHurries /\ hurries' = hurries + 1
  /\ calls' = calls \cup {[on |-> e, next |-> Flip(hearts, e)]}
  /\ touched' = touched \cup {e}
  /\ UNCHANGED <<saved, hearts, failed>>

\* What the service does: the heart that was pressed, added or removed.
Serve(c) == saved' = IF c.on \in c.next THEN saved \cup {c.on} ELSE saved \ {c.on}

\* Done or refused, the hearts are set.
Answered(c) ==
  /\ calls' = calls \ {c}
  /\ \/ Serve(c) /\ UNCHANGED failed
     \/ UNCHANGED saved /\ failed' = TRUE
  /\ hearts' = c.next
  /\ UNCHANGED <<touched, hurries>>

\* The page is loaded again; a change in flight may still be served.
Load ==
  /\ \/ UNCHANGED saved
     \/ \E c \in calls : Serve(c)
  /\ hearts' = {} /\ calls' = {} /\ touched' = {} /\ failed' = FALSE
  /\ UNCHANGED hurries

Init ==
  /\ saved \in SUBSET Experiences
  /\ hearts = {} /\ calls = {} /\ touched = {} /\ failed = FALSE /\ hurries = 0

Next ==
  \/ \E e \in Experiences : Press(e)
  \/ \E c \in calls : Answered(c)
  \/ Load

Spec == Init /\ [][Next]_vars

-----------------------------------------------------------------------------
(* Properties.                                                             *)

\* Every variable has its type.
TypeOK ==
  /\ saved \subseteq Experiences /\ hearts \subseteq Experiences /\ touched \subseteq Experiences
  /\ calls \subseteq [on : Experiences, next : SUBSET Experiences]
  /\ failed \in BOOLEAN /\ hurries \in 0..MaxHurries

\* A heart that was pressed since the page was loaded tells the truth, whatever
\* the wishlist was before: unless another was pressed before the answer, for
\* its hearts are then written over, or a change was refused.
PressedHeartsAreSaved ==
  hurries = 0 /\ ~failed /\ calls = {} => \A e \in touched : e \in hearts <=> e \in saved
=============================================================================
