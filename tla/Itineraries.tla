---------------------------- MODULE Itineraries ----------------------------
(***************************************************************************)
(* One itinerary of a traveller (trip-planner.service.ts): it is generated *)
(* from a parsed request, modified by further requests.                    *)
(* The row and its list of experiences are written by separate statements  *)
(* with no transaction around them, and modifications may overlap.         *)
(*                                                                         *)
(* Parameters are a number of days and a budget, 0 where none is named;    *)
(* what is found for them is any choice of at most MaxFound(p) affordable  *)
(* experiences (which are active, similar and near is not modelled), and   *)
(* the cost is the sum of their prices.  "planners", chosen in Init, is    *)
(* how many requests may overlap.                                          *)
(***************************************************************************)
EXTENDS Naturals, FiniteSets, FiniteSetsExt

CONSTANTS
  Experiences,  \* the experiences of the catalogue
  Parameters,   \* parsed parameters: records [duration, min, max]
  Price,        \* price of an experience, in cents
  Planners,     \* requests in progress
  Crowds,       \* how many of them may overlap: a set of numbers
  NoTrip        \* no parameters

VARIABLES
  trip,      \* row of table itineraries: its parameters and total cost
  stops,     \* its rows of itinerary_experiences: [experience, of, by]
  plan,      \* where each request is
  draft,     \* what it has read and computed
  planners   \* requests that may overlap; never changes

vars == <<trip, stops, plan, draft, planners>>

\* What is assumed of the constants.
Wanted == [duration : Nat, min : Nat, max : Nat]
TripAssumption == IsFiniteSet(Experiences) /\ Parameters \subseteq Wanted /\ NoTrip \notin Wanted

-----------------------------------------------------------------------------
Absent     == [parameters |-> NoTrip, cost |-> 0]
Draft(p, loaded, found, cost) == [parameters |-> p, loaded |-> loaded, found |-> found, cost |-> cost]
EmptyDraft == Draft(NoTrip, {}, {}, 0)

\* buildRecommendations: max(3, 2 * days) of what was found; the default is
\* one day.
MaxFound(p) == IF p.duration * 2 > 3 THEN p.duration * 2 ELSE 3

\* The budget filter, on every experience by itself.
Affordable(p) == {e \in Experiences : p.max # 0 => p.min <= Price[e] /\ Price[e] <= p.max}

\* parseTripRequest of words that mean p: what the language model returns,
\* checked, or else what the regular expressions find, which know no minimum.
Parsed(p) == {p, [p EXCEPT !.min = 0]}

\* Mutant: no slice.
MatchesAll(p) == {Affordable(p)}

\* findMatchingExperiences and the slice after it: the best matches of the
\* vector search, or, when that fails, of a search by category.
Matches(p) == {s \in SUBSET Affordable(p) : Cardinality(s) <= MaxFound(p)}

\* calculateTotalCost
Cost(found) == FoldSet(LAMBDA e, sum : sum + Price[e], 0, found)

\* mergedParams: what the modification names replaces the old value.
Merged(old, new) ==
  [duration |-> IF new.duration # 0 THEN new.duration ELSE old.duration,
   min |-> IF new.max # 0 THEN new.min ELSE old.min,
   max |-> IF new.max # 0 THEN new.max ELSE old.max]

Idle(r)     == plan[r] = "idle" /\ Cardinality({q \in Planners : plan[q] # "idle"}) < planners
Goes(r, l)  == plan' = [plan EXCEPT ![r] = l]
Answer(r)   == Goes(r, "idle") /\ draft' = [draft EXCEPT ![r] = EmptyDraft]
Rows(r, es) == {[experience |-> e, of |-> draft[r].parameters, by |-> r] : e \in es}

-----------------------------------------------------------------------------
\* generateItinerary: search, INSERT of the row, INSERT of its experiences.
Generate(r, p) ==
  /\ Idle(r) /\ trip = Absent /\ \A q \in Planners : plan[q] = "idle"
  /\ \E found \in Matches(p) :
       draft' = [draft EXCEPT ![r] = Draft(p, {}, found, Cost(found))]
  /\ Goes(r, "save")
  /\ UNCHANGED <<trip, stops, planners>>

\* modifyItinerary: the row with its experiences is read, and the words are
\* parsed by a language model.
ModifyRead(r, p) ==
  /\ Idle(r) /\ trip # Absent
  /\ \E new \in Parsed(p) :
       draft' = [draft EXCEPT ![r] = Draft(Merged(trip.parameters, new), stops, {}, 0)]
  /\ Goes(r, "clear")
  /\ UNCHANGED <<trip, stops, planners>>

\* Mutant: the old experiences stay.
ModifyClearNot(r) ==
  /\ plan[r] = "clear" /\ Goes(r, "search")
  /\ UNCHANGED <<trip, stops, draft, planners>>

\* DELETE of the old experiences, which no copy then stands for ...
ModifyClear(r) ==
  /\ plan[r] = "clear" /\ Goes(r, "search")
  /\ stops' = {}
  /\ draft' = [q \in Planners |-> [draft[q] EXCEPT !.loaded = {}]]
  /\ UNCHANGED <<trip, planners>>

\* ... the search ...
ModifySearch(r) ==
  /\ plan[r] = "search" /\ Goes(r, "save")
  /\ \E found \in Matches(draft[r].parameters) :
       draft' = [draft EXCEPT ![r].found = found, ![r].cost = Cost(found)]
  /\ UNCHANGED <<trip, stops, planners>>

\* ... and save() of the row, which a list that has grown meanwhile turns
\* into an error (as for a listing: the new rows are taken for removed ones).
SaveRow(r) ==
  /\ plan[r] = "save"
  /\ IF stops \subseteq draft[r].loaded
     THEN /\ trip' = [parameters |-> draft[r].parameters, cost |-> draft[r].cost]
          /\ IF draft[r].found = {} THEN Answer(r) ELSE Goes(r, "list") /\ UNCHANGED draft
     ELSE Answer(r) /\ UNCHANGED trip
  /\ UNCHANGED <<stops, planners>>

\* The new list, in one transaction; the itinerary is answered.
SaveList(r) ==
  /\ plan[r] = "list" /\ Answer(r)
  /\ stops' = stops \cup Rows(r, draft[r].found)
  /\ UNCHANGED <<trip, planners>>

\* A query throws.
PlannerFails(r) ==
  /\ plan[r] # "idle" /\ Answer(r)
  /\ UNCHANGED <<trip, stops, planners>>

Init ==
  /\ trip = Absent /\ stops = {}
  /\ plan = [r \in Planners |-> "idle"]
  /\ draft = [r \in Planners |-> EmptyDraft]
  /\ planners \in Crowds

Next ==
  \/ \E r \in Planners :
       \/ ModifyClear(r) \/ ModifySearch(r) \/ SaveRow(r) \/ SaveList(r) \/ PlannerFails(r)
       \/ \E p \in Parameters : ModifyRead(r, p) \/ Generate(r, p)

Spec == Init /\ [][Next]_vars

-----------------------------------------------------------------------------
(* Properties.                                                             *)

OnePlanner == planners = 1
Costs  == {Cost(found) : found \in SUBSET Experiences} \cup {0}
Stop   == [experience : Experiences, of : Wanted, by : Planners]
Rests  == \A r \in Planners : plan[r] = "idle"

\* Every variable has its type.
TypeOK ==
  /\ trip \in [parameters : Wanted \cup {NoTrip}, cost : Costs]
  /\ stops \subseteq Stop
  /\ plan \in [Planners -> {"idle", "clear", "search", "save", "list"}]
  /\ draft \in [Planners -> [parameters : Wanted \cup {NoTrip}, loaded : SUBSET Stop,
                              found : SUBSET Experiences, cost : Costs]]
  /\ planners \in Crowds

\* One modification at a time, the experiences listed are those of the
\* parameters stored, wherever an earlier one failed.
StopsFitParameters == OnePlanner => \A s \in stops : s.of = trip.parameters

\* One modification at a time, a list that is shown costs what the itinerary
\* says it costs.
CostFitsStops == OnePlanner /\ Rests /\ stops # {} => trip.cost = Cost({s.experience : s \in stops})

\* Every experience listed is within the budget of the request it was
\* proposed for, and a request lists no more than its days allow.
StopsWithinBudget ==
  \A s \in stops :
    /\ s.of.max # 0 => Price[s.experience] <= s.of.max
    /\ Cardinality({t \in stops : t.of = s.of /\ t.by = s.by}) <= MaxFound(s.of)
=============================================================================
