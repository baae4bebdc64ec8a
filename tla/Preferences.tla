---------------------------- MODULE Preferences ----------------------------
(***************************************************************************)
(* The web client's page of notification preferences,                      *)
(* settings/notifications/page.tsx: it loads them, toggles and saves them. *)
(* The service keeps them in memory (preferencesStore), and may store what *)
(* the client gave up saving.                                              *)
(***************************************************************************)
EXTENDS Naturals, FiniteSets

CONSTANTS
  Toggles,     \* pairs of a type and a channel
  MaxHurries,  \* bound on how often the user changes what is being saved
  MaxLate      \* bound on the saves given up that are still on their way

VARIABLES
  stored,    \* service: the toggles that are on
  on,        \* preferences: the toggles shown on
  phase,     \* "loading" or "loaded"
  saving,    \* what was sent and is not answered; a set of at most one
  saved,     \* saved
  error,     \* error: it hides the confirmation
  unseen,    \* history: what is stored changed unseen since a save was confirmed
  hurries,   \* how often the user toggled while saving
  late       \* saves that the client gave up, and that may still be stored

vars == <<stored, on, phase, saving, saved, error, unseen, hurries, late>>

-----------------------------------------------------------------------------
\* The stored preferences over the defaults, or, after an error, the defaults.
Loaded ==
  /\ phase = "loading"
  /\ phase' = "loaded"
  /\ on' \in {stored, on}
  /\ UNCHANGED <<stored, saving, saved, error, unseen, hurries, late>>

Flip(t) == on' = (on \ {t}) \cup ({t} \ on) /\ saved' = FALSE

\* Nothing keeps the user from toggling while the preferences are being saved.
Toggle(t) ==
  /\ phase = "loaded"
  /\ \/ saving = {} /\ UNCHANGED hurries
     \/ saving # {} /\ hurries < MaxHurries /\ hurries' = hurries + 1
  /\ Flip(t)
  /\ UNCHANGED <<stored, phase, saving, error, unseen, late>>

\* handleSave, up to the request.
Save ==
  /\ phase = "loaded" /\ saving = {}
  /\ saving' = {on} /\ error' = FALSE
  /\ UNCHANGED <<stored, on, phase, saved, unseen, hurries, late>>

\* Stored and answered; or an error, though it may have been stored or may be yet.
Saved ==
  /\ saving # {}
  /\ saving' = {}
  /\ \/ stored' \in saving /\ saved' = TRUE /\ unseen' = FALSE /\ UNCHANGED <<error, late>>
     \/ stored' \in saving \cup {stored} /\ error' = TRUE /\ UNCHANGED <<saved, unseen, late>>
     \/ /\ Cardinality(late) < MaxLate /\ late' = late \cup saving
        /\ error' = TRUE /\ UNCHANGED <<stored, saved, unseen>>
  /\ UNCHANGED <<on, phase, hurries>>

\* What the client gave up saving is stored.
StoreLate(p) ==
  /\ stored' = p /\ unseen' = TRUE
  /\ late' = late \ {p}
  /\ UNCHANGED <<on, phase, saving, saved, error, hurries>>

\* The service stops: everything is on again.
Restart ==
  /\ stored' = Toggles /\ unseen' = TRUE
  /\ UNCHANGED <<on, phase, saving, saved, error, hurries, late>>

\* Leaving the page and coming back.
Revisit ==
  /\ phase = "loaded" /\ saving = {}
  /\ on' = Toggles /\ phase' = "loading" /\ saved' = FALSE /\ error' = FALSE
  /\ UNCHANGED <<stored, saving, unseen, hurries, late>>

-----------------------------------------------------------------------------
Init ==
  /\ stored \in SUBSET Toggles
  /\ on = Toggles /\ phase = "loading" /\ saving = {}
  /\ saved = FALSE /\ error = FALSE /\ unseen = FALSE
  /\ hurries = 0 /\ late = {}

Next ==
  \/ Loaded \/ Save \/ Saved \/ Restart \/ Revisit
  \/ \E t \in Toggles : Toggle(t)
  \/ \E p \in late : StoreLate(p)

Spec == Init /\ [][Next]_vars

-----------------------------------------------------------------------------
(* Properties.                                                             *)

\* Every variable has its type.
TypeOK ==
  /\ {stored, on} \subseteq SUBSET Toggles /\ phase \in {"loading", "loaded"}
  /\ saving \cup late \subseteq SUBSET Toggles /\ Cardinality(saving) <= 1
  /\ saved \in BOOLEAN /\ error \in BOOLEAN /\ unseen \in BOOLEAN
  /\ hurries \in 0..MaxHurries

\* "Preferences saved." stands only over the toggles the service has, unless
\* the user toggled while they were being saved, or the service stopped or
\* stored a save that was given up since: also while the next save is under
\* way, and after saves that failed.
SavedIsStored == saved /\ ~error /\ hurries = 0 /\ ~unseen => stored = on
=============================================================================
