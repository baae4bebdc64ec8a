------------------------------ MODULE Planner ------------------------------
(***************************************************************************)
(* The trip planner page of the web client, trip-planner/page.tsx, and the *)
(* itineraries it shows: opened from a link, generated, and modified again *)
(* and again. Every modification makes a new version of the stored one.    *)
(*                                                                         *)
(* The buttons wait for the answer; the Enter key of the modification does *)
(* not. A call that is given up after ten seconds may have been served, or *)
(* is served later.                                                        *)
(***************************************************************************)
EXTENDS Naturals, FiniteSets

CONSTANTS
  MaxItineraries,  \* bound on the itineraries of the user
  MaxVersions,     \* bound on the versions of each
  MaxHurries       \* bound on how often the user overtakes an answer

VARIABLES
  stored,        \* service: the version of each itinerary
  shown,         \* itinerary: which one, in which version; or Nothing
  modification,  \* something is typed in the modification box
  loading,       \* loading
  error,         \* error
  calls,         \* calls in flight
  lost,          \* history: a call failed
  hurries        \* how often the user overtook an answer

vars == <<stored, shown, modification, loading, error, calls, lost, hurries>>

Nothing == <<0, 0>>
Itineraries == DOMAIN stored

\* A call, the how-manieth, on which itinerary, its answer (<<>> until it is
\* served), and whether the page has given it up.
Call(op, no, on) == [op |-> op, no |-> no, on |-> on, answer |-> <<>>, gone |-> FALSE]

Awaited == {c \in calls : ~c.gone}

Start(c) ==
  /\ calls' = calls \cup {c}
  /\ loading' = TRUE /\ error' = FALSE

-----------------------------------------------------------------------------
\* generate, from its button.
Generate ==
  /\ ~loading /\ Cardinality(Itineraries) < MaxItineraries
  /\ Start(Call("generate", hurries, 0))
  /\ UNCHANGED <<stored, shown, modification, lost, hurries>>

Type ==
  /\ shown # Nothing
  /\ modification' = TRUE
  /\ UNCHANGED <<stored, shown, loading, error, calls, lost, hurries>>

\* modify, from its button or from the Enter key.
Modify ==
  /\ shown # Nothing /\ modification /\ stored[shown[1]] < MaxVersions
  /\ \/ Awaited = {} /\ UNCHANGED hurries
     \/ Awaited # {} /\ hurries < MaxHurries /\ hurries' = hurries + 1
  /\ Start(Call("modify", hurries', shown[1]))
  /\ UNCHANGED <<stored, shown, modification, lost>>

\* The service: a new itinerary, a new version, or a read.
Serve(c) ==
  /\ c.answer = <<>>
  /\ LET i == IF c.op = "generate" THEN Cardinality(Itineraries) + 1 ELSE c.on
         v == CASE c.op = "generate" -> 1
                [] c.op = "modify"   -> stored[i] + 1
                [] c.op = "load"     -> stored[i]
     IN /\ i <= MaxItineraries /\ v <= MaxVersions
        /\ stored' = [j \in Itineraries \cup {i} |-> IF j = i THEN v ELSE stored[j]]
        /\ calls' = (calls \ {c}) \cup {[d EXCEPT !.answer = <<i, v>>] : d \in {c} \cap Awaited}
  /\ UNCHANGED <<shown, modification, loading, error, lost, hurries>>

Show(c) == shown' = c.answer

Answered(c) ==
  /\ ~c.gone /\ c.answer # <<>>
  /\ calls' = calls \ {c}
  /\ Show(c)
  /\ modification' = (modification /\ c.op # "modify")
  /\ loading' = FALSE
  /\ UNCHANGED <<stored, error, lost, hurries>>

\* The error is shown beside what was there before.
Failed(c) ==
  /\ ~c.gone
  /\ \/ calls' = calls \ {c}
     \/ c.answer = <<>> /\ calls' = (calls \ {c}) \cup {[c EXCEPT !.gone = TRUE]}
  /\ loading' = FALSE /\ error' = TRUE /\ lost' = TRUE
  /\ UNCHANGED <<stored, shown, modification, hurries>>

-----------------------------------------------------------------------------
\* Opened by itself, or from a link to an itinerary (?itinerary=).
Init ==
  /\ shown = Nothing /\ modification = FALSE /\ error = FALSE
  /\ \/ stored = <<>> /\ calls = {} /\ loading = FALSE
     \/ stored = <<1>> /\ calls = {Call("load", 0, 1)} /\ loading = TRUE
  /\ lost = FALSE /\ hurries = 0

Next ==
  \/ Generate \/ Type \/ Modify
  \/ \E c \in calls : Serve(c) \/ Answered(c) \/ Failed(c)

Spec == Init /\ [][Next]_vars

-----------------------------------------------------------------------------
(* Properties.                                                             *)

\* Every variable has its type.
TypeOK ==
  /\ \A i \in Itineraries : i \in 1..MaxItineraries /\ stored[i] \in 1..MaxVersions
  /\ shown = Nothing \/ shown[1] \in Itineraries
  /\ modification \in BOOLEAN /\ {loading, error, lost} \subseteq BOOLEAN
  /\ \A c \in calls : c.op \in {"generate", "modify", "load"}
  /\ hurries \in 0..MaxHurries

\* With the answers in, the page shows the newest itinerary as it is stored:
\* unless Enter overtook an answer, for then the answers of two modifications
\* may arrive in either order; or a call failed, for it may have been served.
ShownIsStored ==
  Awaited = {} /\ hurries = 0 /\ ~lost /\ shown # Nothing =>
    stored[shown[1]] = shown[2]
=============================================================================
