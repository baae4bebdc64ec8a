---------------------------- MODULE MCCatalogue ----------------------------
(***************************************************************************)
(* A small catalogue and a small itinerary, side by side: "part", chosen   *)
(* in MCInit, is the one of the two that moves.                            *)
(***************************************************************************)
EXTENDS Catalogue, TLC

CONSTANTS Experiences, Planners, NoTrip

VARIABLES
  trip, stops, plan, draft, planners,
  part  \* "catalogue" or "itinerary"

tripVars == <<trip, stops, plan, draft, planners>>
mcVars   == <<vars, tripVars, part>>

Scope(n, operations) == [width |-> n, operations |-> operations]

\* The guide and the administrator, the travellers and the moderation, one
\* request at a time and two at a time.
MCScopes ==
  {Scope(1, {"edit", "upload", "primary", "slots", "delete", "decide", "index"}),
   Scope(1, {"slots", "review", "moderate", "delete", "edit"}),
   Scope(2, {"edit", "upload", "delete", "decide"}), Scope(2, {"upload", "primary", "slots"}),
   Scope(2, {"slots", "review", "moderate", "delete"})}

Wish(d, low, high) == [duration |-> d, min |-> low, max |-> high]
MCParameters == {Wish(0, 0, 0), Wish(2, 20, 30), Wish(1, 0, 20)}
MCPrice == [e \in Experiences |-> e]

I == INSTANCE Itineraries WITH Parameters <- MCParameters, Price <- MCPrice, Crowds <- {1, 2}

ASSUME TripAssumption == I!TripAssumption

MCInit ==
  /\ Init /\ I!Init
  /\ \/ part = "catalogue" /\ planners = 1
     \/ part = "itinerary" /\ scope = Scope(2, {"upload", "primary", "slots"})

MCNext ==
  \/ part = "catalogue" /\ Next /\ UNCHANGED <<tripVars, part>>
  \/ part = "itinerary" /\ I!Next /\ UNCHANGED <<vars, part>>

MCSpec == MCInit /\ [][MCNext]_mcVars

Symmetric == Permutations(Workers) \cup Permutations(Planners)

-----------------------------------------------------------------------------
\* One modification at a time, a stored itinerary is whole: its list is that of
\* the stored parameters, and its cost that of the list.
ItineraryIsWhole == I!TypeOK /\ I!StopsFitParameters /\ I!CostFitsStops

\* Nothing is proposed over budget, nor more than the days allow.
StopsWithinBudget == I!StopsWithinBudget
=============================================================================
