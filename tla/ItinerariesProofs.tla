-------------------------- MODULE ItinerariesProofs --------------------------
(***************************************************************************)
(* Theorems of the itineraries, for every value of the constants that      *)
(* satisfies TripAssumption. What a cost is made of stays out: no theorem  *)
(* looks into the sum.                                                     *)
(***************************************************************************)
EXTENDS Itineraries, FiniteSetTheorems, TLAPS

-----------------------------------------------------------------------------
(* Parameters and drafts.                                                  *)

Labels == {"idle", "clear", "search", "save", "list"}
Drafts ==
  [parameters : Wanted \cup {NoTrip}, loaded : SUBSET Stop, found : SUBSET Experiences, cost : Costs]

LEMMA ParametersTyped ==
  ASSUME NEW old \in Wanted, NEW p \in Wanted, NEW new \in Parsed(p)
  PROVE  Merged(old, new) \in Wanted
<1>1. [p EXCEPT !.min = 0] \in Wanted
  BY Zenon DEF Wanted
<1>2. new \in Wanted
  BY <1>1 DEF Parsed
<1> QED BY <1>2 DEF Merged, Wanted

LEMMA DraftTyped ==
  ASSUME NEW p \in Wanted \cup {NoTrip}, NEW loaded \in SUBSET Stop, NEW found \in SUBSET Experiences,
         NEW cost \in Costs
  PROVE  /\ Draft(p, loaded, found, cost) \in Drafts
         /\ Draft(p, loaded, found, cost).parameters = p
         /\ Draft(p, loaded, found, cost).found = found
         /\ Draft(p, loaded, found, cost).cost = cost
BY DEF Draft, Drafts

LEMMA EmptyDraftTyped == EmptyDraft \in Drafts
BY DraftTyped DEF EmptyDraft, Costs

LEMMA DraftCleared ==
  ASSUME NEW d \in Drafts
  PROVE  /\ [d EXCEPT !.loaded = {}] \in Drafts
         /\ [d EXCEPT !.loaded = {}].parameters = d.parameters
         /\ [d EXCEPT !.loaded = {}].found = d.found
         /\ [d EXCEPT !.loaded = {}].cost = d.cost
<1>1. DOMAIN d = {"parameters", "loaded", "found", "cost"}
  BY DEF Drafts
<1>2. [d EXCEPT !.loaded = {}] \in Drafts
  BY Zenon DEF Drafts
<1> QED BY <1>1, <1>2

LEMMA MatchesTyped ==
  ASSUME NEW p, NEW found \in Matches(p)
  PROVE  found \in SUBSET Experiences /\ Cost(found) \in Costs
<1>1. found \in SUBSET Experiences
  BY DEF Matches, Affordable
<1> QED BY <1>1 DEF Costs

-----------------------------------------------------------------------------
(* The invariant, whatever overlaps: what a request has computed fits its  *)
(* parameters, and once it has cleared the list nothing of it is listed.   *)

RequestOK(r) ==
  /\ plan[r] # "idle" => draft[r].parameters \in Wanted
  /\ plan[r] \in {"save", "list"} => draft[r].found \in Matches(draft[r].parameters)
  /\ plan[r] = "list" => trip.parameters # NoTrip
  /\ plan[r] \in {"search", "save", "list"} => \A s \in stops : s.by # r

TripInv ==
  /\ TypeOK
  /\ trip.parameters = NoTrip => trip = Absent /\ stops = {}
  /\ \A r \in Planners : RequestOK(r)
  /\ StopsWithinBudget

Types ==
  /\ trip \in [parameters : Wanted \cup {NoTrip}, cost : Costs] /\ stops \subseteq Stop
  /\ plan \in [Planners -> Labels] /\ draft \in [Planners -> Drafts] /\ planners \in Crowds

LEMMA TypesAre == TypeOK <=> Types
BY DEF TypeOK, Types, Labels, Drafts

\* A request that goes on, with the itinerary as it is.
LEMMA GoesOn ==
  ASSUME TripInv, NEW r \in Planners, NEW label \in Labels, NEW d \in Drafts,
         Goes(r, label), draft' = [draft EXCEPT ![r] = d], UNCHANGED <<trip, stops, planners>>,
         label # "idle" => d.parameters \in Wanted,
         label \in {"save", "list"} => d.found \in Matches(d.parameters),
         label = "list" => trip.parameters # NoTrip,
         label \in {"search", "save", "list"} => \A s \in stops : s.by # r
  PROVE  TripInv'
<1>0. Types
  BY TypesAre DEF TripInv
<1>1. Types'
  BY <1>0 DEF Types, Goes
<1>2. \A q \in Planners : RequestOK(q)'
  BY <1>0 DEF TripInv, RequestOK, Types, Goes
<1>3. StopsWithinBudget'
  BY DEF TripInv, StopsWithinBudget
<1>4. TypeOK'
  BY <1>1, TypesAre, PTL
<1> QED BY <1>2, <1>3, <1>4 DEF TripInv, Absent

LEMMA AnswerKeeps ==
  ASSUME TripInv, NEW r \in Planners, Answer(r), UNCHANGED <<trip, stops, planners>>
  PROVE  TripInv'
<1>1. Goes(r, "idle") /\ draft' = [draft EXCEPT ![r] = EmptyDraft] /\ "idle" \in Labels
  BY DEF Answer, Labels
<1> QED BY <1>1, EmptyDraftTyped, GoesOn

LEMMA GenerateKeeps ==
  ASSUME TripAssumption, TripInv, NEW r \in Planners, NEW p \in Parameters, Generate(r, p)
  PROVE  TripInv'
<1>1. PICK found \in Matches(p) : draft' = [draft EXCEPT ![r] = Draft(p, {}, found, Cost(found))]
  BY DEF Generate
<1> DEFINE d0 == Draft(p, {}, found, Cost(found))
<1>2. p \in Wanted /\ d0 \in Drafts /\ d0.parameters = p /\ d0.found = found
  BY MatchesTyped, DraftTyped DEF TripAssumption
<1>3. draft' = [draft EXCEPT ![r] = d0]
  BY <1>1
<1>4. /\ trip = Absent /\ Goes(r, "save") /\ UNCHANGED <<trip, stops, planners>>
      /\ trip.parameters = NoTrip /\ "save" \in Labels
  BY DEF Generate, Absent, Labels
<1>5. stops = {}
  BY <1>4 DEF TripInv
<1> HIDE DEF d0
<1> QED BY <1>2, <1>3, <1>4, <1>5, GoesOn

LEMMA ReadKeeps ==
  ASSUME TripAssumption, TripInv, NEW r \in Planners, NEW p \in Parameters, ModifyRead(r, p)
  PROVE  TripInv'
<1>0. Types
  BY TypesAre DEF TripInv
<1>1. PICK new \in Parsed(p) : draft' = [draft EXCEPT ![r] = Draft(Merged(trip.parameters, new), stops, {}, 0)]
  BY DEF ModifyRead
<1> DEFINE m0 == Merged(trip.parameters, new)
           d0 == Draft(m0, stops, {}, 0)
<1>2. trip.parameters \in Wanted /\ Goes(r, "clear") /\ UNCHANGED <<trip, stops, planners>> /\ "clear" \in Labels
  BY <1>0 DEF ModifyRead, TripInv, Types, Labels
<1>3. m0 \in Wanted
  BY <1>2, ParametersTyped DEF TripAssumption
<1>4. d0 \in Drafts /\ d0.parameters = m0
  <2> HIDE DEF m0
  <2>1. stops \in SUBSET Stop /\ {} \in SUBSET Experiences /\ 0 \in Costs
    BY <1>0 DEF Types, Costs
  <2> QED BY <1>3, <2>1, DraftTyped
<1>5. draft' = [draft EXCEPT ![r] = d0]
  BY <1>1
<1> HIDE DEF d0, m0
<1> QED BY <1>2, <1>3, <1>4, <1>5, GoesOn

LEMMA SearchKeeps ==
  ASSUME TripInv, NEW r \in Planners, ModifySearch(r)
  PROVE  TripInv'
<1>0. Types /\ RequestOK(r)
  BY TypesAre DEF TripInv
<1>1. PICK found \in Matches(draft[r].parameters) :
        draft' = [draft EXCEPT ![r].found = found, ![r].cost = Cost(found)]
  BY DEF ModifySearch
<1> DEFINE c0 == Cost(found)
           e0 == draft[r]
           d0 == [e0 EXCEPT !.found = found, !.cost = c0]
<1>2. found \in SUBSET Experiences /\ c0 \in Costs /\ e0 \in Drafts
  BY <1>0, MatchesTyped DEF Types
<1>3. d0 \in Drafts /\ d0.parameters = draft[r].parameters /\ d0.found = found
  <2> HIDE DEF c0, e0
  <2>1. d0 \in Drafts /\ d0.parameters = e0.parameters /\ d0.found = found
    <3>1. DOMAIN e0 = {"parameters", "loaded", "found", "cost"}
      BY <1>2 DEF Drafts
    <3>2. d0 \in Drafts
      BY Zenon, <1>2 DEF Drafts
    <3> QED BY <3>1, <3>2
  <2> QED BY <2>1 DEF e0
<1>4. draft' = [draft EXCEPT ![r] = d0]
  BY <1>0, <1>1 DEF Types
<1>5. /\ plan[r] = "search" /\ Goes(r, "save") /\ UNCHANGED <<trip, stops, planners>> /\ "save" \in Labels
      /\ draft[r].parameters \in Wanted /\ \A s \in stops : s.by # r
  BY <1>0 DEF ModifySearch, RequestOK, Labels
<1> HIDE DEF d0
<1> QED BY <1>3, <1>4, <1>5, GoesOn

LEMMA ClearKeeps ==
  ASSUME TripInv, NEW r \in Planners, ModifyClear(r)
  PROVE  TripInv'
<1>0. Types
  BY TypesAre DEF TripInv
<1>1. /\ plan' = [plan EXCEPT ![r] = "search"] /\ plan[r] = "clear" /\ stops' = {}
      /\ UNCHANGED <<trip, planners>>
      /\ draft' = [q \in Planners |-> [draft[q] EXCEPT !.loaded = {}]]
  BY DEF ModifyClear, Goes
<1>2. /\ draft' \in [Planners -> Drafts]
      /\ \A q \in Planners : draft'[q].parameters = draft[q].parameters /\ draft'[q].found = draft[q].found
  <2>1. ASSUME NEW q \in Planners
        PROVE  draft'[q] \in Drafts /\ draft'[q].parameters = draft[q].parameters /\ draft'[q].found = draft[q].found
    BY <1>0, <1>1, DraftCleared DEF Types
  <2> QED BY <1>1, <2>1
<1>3. Types'
  BY <1>0, <1>1, <1>2 DEF Types, Labels
<1>4. \A q \in Planners : RequestOK(q)'
  BY <1>0, <1>1, <1>2 DEF TripInv, RequestOK, Types
<1>5. StopsWithinBudget'
  BY <1>1 DEF StopsWithinBudget
<1>6. TypeOK'
  BY <1>3, TypesAre, PTL
<1> QED BY <1>1, <1>4, <1>5, <1>6 DEF TripInv, Absent

LEMMA SaveRowKeeps ==
  ASSUME TripAssumption, TripInv, NEW r \in Planners, SaveRow(r)
  PROVE  TripInv'
<1>0. Types /\ RequestOK(r)
  BY TypesAre DEF TripInv
<1>1. /\ plan[r] = "save" /\ UNCHANGED <<stops, planners>> /\ draft[r] \in Drafts /\ draft[r].parameters \in Wanted
      /\ draft[r].parameters # NoTrip
  BY <1>0 DEF SaveRow, Types, RequestOK, TripAssumption
<1>2. CASE trip' = trip
  <2>1. Answer(r) \/ (Goes(r, "list") /\ draft' = draft /\ trip' = [parameters |-> draft[r].parameters, cost |-> draft[r].cost])
    BY DEF SaveRow
  <2>2. CASE Answer(r)
    BY <1>1, <1>2, <2>2, AnswerKeeps
  <2>3. CASE Goes(r, "list") /\ draft' = draft /\ trip' = [parameters |-> draft[r].parameters, cost |-> draft[r].cost]
    <3>1. /\ trip.parameters # NoTrip /\ draft' = [draft EXCEPT ![r] = draft[r]] /\ "list" \in Labels
          /\ draft[r].found \in Matches(draft[r].parameters) /\ \A s \in stops : s.by # r
      BY <1>0, <1>1, <1>2, <2>3 DEF Types, Labels, RequestOK
    <3> QED BY <1>1, <1>2, <2>3, <3>1, GoesOn
  <2> QED BY <2>1, <2>2, <2>3
<1>3. CASE trip' # trip
  <2>1. /\ trip' = [parameters |-> draft[r].parameters, cost |-> draft[r].cost]
        /\ \/ plan' = [plan EXCEPT ![r] = "idle"] /\ draft' = [draft EXCEPT ![r] = EmptyDraft]
           \/ plan' = [plan EXCEPT ![r] = "list"] /\ draft' = draft
    BY <1>3 DEF SaveRow, Answer, Goes
  <2>2. Types'
    <3>1. trip' \in [parameters : Wanted \cup {NoTrip}, cost : Costs]
      BY <1>1, <2>1 DEF Drafts
    <3>2. draft' \in [Planners -> Drafts] /\ plan' \in [Planners -> Labels]
      BY <1>0, <2>1, EmptyDraftTyped DEF Types, Labels
    <3> QED BY <1>0, <1>1, <3>1, <3>2 DEF Types
  <2>3. trip'.parameters # NoTrip
    BY <1>1, <2>1
  <2>4. \A q \in Planners : RequestOK(q)'
    BY <1>0, <1>1, <2>1, <2>3 DEF TripInv, RequestOK, Types
  <2>5. StopsWithinBudget'
    BY <1>1 DEF TripInv, StopsWithinBudget
  <2>6. TypeOK'
    BY <2>2, TypesAre, PTL
  <2> QED BY <2>3, <2>4, <2>5, <2>6 DEF TripInv
<1> QED BY <1>2, <1>3

\* The rows of one list are as many as its experiences, at most.
LEMMA RowsCounted ==
  ASSUME TripAssumption, NEW r, NEW found \in SUBSET Experiences
  PROVE  /\ IsFiniteSet(Rows(r, found)) /\ Cardinality(Rows(r, found)) \in Nat /\ Cardinality(found) \in Nat
         /\ Cardinality(Rows(r, found)) <= Cardinality(found)
<1> DEFINE f == [e \in found |-> [experience |-> e, of |-> draft[r].parameters, by |-> r]]
<1>1. f \in Surjection(found, Rows(r, found))
  BY DEF Surjection, Rows
<1>2. IsFiniteSet(found)
  BY FS_Subset DEF TripAssumption
<1> HIDE DEF f
<1> QED BY <1>1, <1>2, FS_Surjection, FS_CardinalityType

LEMMA SaveListKeeps ==
  ASSUME TripAssumption, TripInv, NEW r \in Planners, SaveList(r)
  PROVE  TripInv'
<1>0. Types /\ RequestOK(r)
  BY TypesAre DEF TripInv
<1> DEFINE p == draft[r].parameters
           found == draft[r].found
           new == Rows(r, found)
<1>1. /\ plan[r] = "list" /\ UNCHANGED <<trip, planners>> /\ stops' = stops \cup new
      /\ plan' = [plan EXCEPT ![r] = "idle"] /\ draft' = [draft EXCEPT ![r] = EmptyDraft]
      /\ trip.parameters # NoTrip /\ p \in Wanted /\ found \in Matches(p) /\ \A s \in stops : s.by # r
  BY <1>0 DEF SaveList, Answer, Goes, RequestOK
<1>2. \A s \in new : s.by = r /\ s.of = p /\ s.experience \in found
  BY DEF Rows
<1>3. new \subseteq Stop /\ found \in SUBSET Experiences
  BY <1>1, MatchesTyped DEF Rows, Stop
<1>4. Types'
  <2> HIDE DEF p, found, new
  <2> QED BY <1>0, <1>1, <1>3, EmptyDraftTyped DEF Types, Labels
<1>5. \A q \in Planners : RequestOK(q)'
  <2> HIDE DEF p, found, new
  <2> QED BY <1>0, <1>1, <1>2 DEF TripInv, RequestOK, Types
<1>6. ASSUME NEW s \in stops'
      PROVE  /\ s.of.max # 0 => Price[s.experience] <= s.of.max
             /\ Cardinality({t \in stops' : t.of = s.of /\ t.by = s.by}) <= MaxFound(s.of)
  <2>1. CASE s \in new
    <3>1. {t \in stops' : t.of = s.of /\ t.by = s.by} = new
      <4> HIDE DEF p, found, new
      <4> QED BY <1>1, <1>2, <2>1
    <3>2. Cardinality(new) \in Nat /\ Cardinality(found) \in Nat /\ Cardinality(new) <= Cardinality(found)
      BY <1>3, RowsCounted
    <3>3. Cardinality(found) <= MaxFound(p) /\ found \subseteq Affordable(p)
      BY <1>1 DEF Matches
    <3>4. MaxFound(p) \in Nat
      BY <1>1 DEF MaxFound, Wanted
    <3>5. s.of = p /\ s.experience \in found
      BY <1>2, <2>1
    <3>6. p.max # 0 => Price[s.experience] <= p.max
      <4> HIDE DEF p, found
      <4> QED BY <3>3, <3>5 DEF Affordable
    <3>7. Cardinality(new) <= MaxFound(p)
      <4> HIDE DEF p, found, new
      <4> QED BY <3>2, <3>3, <3>4
    <3> HIDE DEF p, found, new
    <3> QED BY <3>1, <3>5, <3>6, <3>7
  <2>2. CASE s \in stops
    <3>1. {t \in stops' : t.of = s.of /\ t.by = s.by} = {t \in stops : t.of = s.of /\ t.by = s.by}
      <4> HIDE DEF p, found, new
      <4> QED BY <1>1, <1>2, <2>2
    <3> QED BY <2>2, <3>1 DEF TripInv, StopsWithinBudget
  <2> QED BY <1>1, <2>1, <2>2
<1>7. StopsWithinBudget'
  BY <1>6 DEF StopsWithinBudget
<1>8. TypeOK'
  BY <1>4, TypesAre, PTL
<1> HIDE DEF p, found, new
<1> QED BY <1>1, <1>5, <1>7, <1>8 DEF TripInv

LEMMA TripStarts == TripAssumption /\ Init => TripInv
<1> SUFFICES ASSUME Init PROVE TripInv
  OBVIOUS
<1>1. Types
  BY EmptyDraftTyped DEF Init, Types, Labels, Absent, Costs
<1>2. TypeOK
  BY <1>1, TypesAre
<1> QED BY <1>2 DEF Init, TripInv, RequestOK, StopsWithinBudget, Absent

LEMMA TripStep == TripAssumption /\ TripInv /\ [Next]_vars => TripInv'
<1> SUFFICES ASSUME TripAssumption, TripInv, [Next]_vars PROVE TripInv'
  OBVIOUS
<1>1. CASE UNCHANGED vars
  BY <1>1 DEF vars, TripInv, TypeOK, RequestOK, StopsWithinBudget, Absent
<1>2. ASSUME NEW r \in Planners, PlannerFails(r) PROVE TripInv'
  BY <1>2, AnswerKeeps DEF PlannerFails
<1> QED
  BY <1>1, <1>2, GenerateKeeps, ReadKeeps, ClearKeeps, SearchKeeps, SaveRowKeeps, SaveListKeeps DEF Next

\* Every variable keeps its type; what is stored as a cost is that of some list.
THEOREM TypeCorrect ==
  ASSUME TripAssumption
  PROVE  Spec => []TypeOK
<1>1. TripInv => TypeOK
  BY DEF TripInv
<1> QED BY <1>1, TripStarts, TripStep, PTL DEF Spec

\* Every experience listed is within the budget it was proposed for, and a
\* request lists no more than its days allow, however many modifications
\* overlap or fail.
THEOREM BudgetsAreKept ==
  ASSUME TripAssumption
  PROVE  Spec => []StopsWithinBudget
<1>1. TripInv => StopsWithinBudget
  BY DEF TripInv
<1> QED BY <1>1, TripStarts, TripStep, PTL DEF Spec

-----------------------------------------------------------------------------
(* One request at a time, the list is that of the row.                     *)

Alone == \A q, r \in Planners : plan[q] # "idle" /\ plan[r] # "idle" => q = r

ListOK ==
  /\ \A s \in stops : s.of = trip.parameters
  /\ stops # {} => trip.cost = Cost({s.experience : s \in stops})

\* Between the DELETE of the old list and the INSERT of the new one there is none.
DraftOK(r) ==
  /\ plan[r] \in {"search", "save", "list"} => stops = {}
  /\ plan[r] \in {"save", "list"} => draft[r].cost = Cost(draft[r].found)
  /\ plan[r] = "list" => trip.parameters = draft[r].parameters /\ trip.cost = draft[r].cost

SerialInv == OnePlanner => Alone /\ ListOK /\ \A r \in Planners : DraftOK(r)

LEMMA NobodyElse ==
  ASSUME Alone, OnePlanner, NEW r \in Planners, Idle(r), NEW q \in Planners
  PROVE  plan[q] = "idle"
<1> SUFFICES ASSUME plan[q] # "idle" PROVE FALSE
  OBVIOUS
<1>1. {p \in Planners : plan[p] # "idle"} = {q}
  BY DEF Alone
<1>2. Cardinality({p \in Planners : plan[p] # "idle"}) = 1
  BY <1>1, FS_Singleton
<1> QED BY <1>2 DEF Idle, OnePlanner

\* A request that moves alone keeps the invariant if its own part holds.
LEMMA MovesAlone ==
  ASSUME TripInv, SerialInv, NEW r \in Planners, NEW label \in Labels, Goes(r, label), planners' = planners,
         plan[r] # "idle" \/ Idle(r), OnePlanner => ListOK' /\ DraftOK(r)'
  PROVE  SerialInv'
<1> SUFFICES ASSUME planners' = 1 PROVE SerialInv'
  BY DEF SerialInv, OnePlanner
<1>1. Alone /\ OnePlanner /\ plan \in [Planners -> Labels]
  BY TypesAre DEF SerialInv, OnePlanner, TripInv, Types
<1>2. \A q \in Planners \ {r} : plan[q] = "idle"
  BY <1>1, NobodyElse DEF Alone
<1>3. \A q \in Planners \ {r} : plan'[q] = "idle"
  BY <1>1, <1>2 DEF Goes
<1> QED BY <1>1, <1>3 DEF SerialInv, Alone, DraftOK

LEMMA SerialStep == TripAssumption /\ TripInv /\ SerialInv /\ [Next]_vars => SerialInv'
<1> SUFFICES ASSUME TripAssumption, TripInv, SerialInv, [Next]_vars PROVE SerialInv'
  OBVIOUS
<1>0. Types /\ Labels = {"idle", "clear", "search", "save", "list"}
  BY TypesAre DEF TripInv, Labels
<1>1. ASSUME NEW r \in Planners, NEW p \in Parameters, Generate(r, p) PROVE SerialInv'
  <2>1. PICK found \in Matches(p) : draft' = [draft EXCEPT ![r] = Draft(p, {}, found, Cost(found))]
    BY <1>1 DEF Generate
  <2> DEFINE c0 == Cost(found)
             d0 == Draft(p, {}, found, c0)
  <2>2. d0.found = found /\ d0.cost = Cost(found)
    BY DEF Draft
  <2>3. draft'[r] = d0
    BY <1>0, <2>1 DEF Types
  <2>4. Goes(r, "save") /\ plan'[r] = "save" /\ UNCHANGED <<trip, stops, planners>> /\ Idle(r) /\ stops = {}
    BY <1>0, <1>1 DEF Generate, Goes, Types, TripInv, Absent
  <2> HIDE DEF d0, c0
  <2>5. OnePlanner => ListOK' /\ DraftOK(r)'
    BY <2>2, <2>3, <2>4 DEF ListOK, DraftOK
  <2> QED BY <1>0, <2>4, <2>5, MovesAlone
<1>2. ASSUME NEW r \in Planners, NEW p \in Parameters, ModifyRead(r, p) PROVE SerialInv'
  <2>1. Goes(r, "clear") /\ plan'[r] = "clear" /\ UNCHANGED <<trip, stops, planners>> /\ Idle(r)
    BY <1>0, <1>2 DEF ModifyRead, Goes, Types
  <2>2. OnePlanner => ListOK' /\ DraftOK(r)'
    BY <2>1 DEF ListOK, DraftOK, SerialInv
  <2> QED BY <1>0, <2>1, <2>2, MovesAlone
<1>3. ASSUME NEW r \in Planners, ModifyClear(r) PROVE SerialInv'
  <2>1. /\ Goes(r, "search") /\ plan'[r] = "search" /\ plan[r] = "clear" /\ stops' = {}
        /\ UNCHANGED <<trip, planners>>
    BY <1>0, <1>3 DEF ModifyClear, Goes, Types
  <2>2. ListOK' /\ DraftOK(r)'
    BY <2>1 DEF ListOK, DraftOK
  <2> QED BY <1>0, <2>1, <2>2, MovesAlone
<1>4. ASSUME NEW r \in Planners, ModifySearch(r) PROVE SerialInv'
  <2>1. PICK found \in Matches(draft[r].parameters) :
          draft' = [draft EXCEPT ![r].found = found, ![r].cost = Cost(found)]
    BY <1>4 DEF ModifySearch
  <2>2. draft'[r].found = found /\ draft'[r].cost = Cost(found)
    BY <1>0, <2>1 DEF Types, Drafts
  <2>3. /\ Goes(r, "save") /\ plan'[r] = "save" /\ plan[r] = "search"
        /\ UNCHANGED <<trip, stops, planners>>
    BY <1>0, <1>4 DEF ModifySearch, Goes, Types
  <2>4. OnePlanner => ListOK' /\ DraftOK(r)'
    BY <2>2, <2>3 DEF ListOK, DraftOK, SerialInv
  <2> QED BY <1>0, <2>3, <2>4, MovesAlone
<1>5. ASSUME NEW r \in Planners, PlannerFails(r) PROVE SerialInv'
  <2>1. /\ Goes(r, "idle") /\ plan'[r] = "idle" /\ plan[r] # "idle" /\ UNCHANGED <<trip, stops, planners>>
    BY <1>0, <1>5 DEF PlannerFails, Answer, Goes, Types
  <2>2. OnePlanner => ListOK' /\ DraftOK(r)'
    BY <2>1 DEF ListOK, DraftOK, SerialInv
  <2> QED BY <1>0, <2>1, <2>2, MovesAlone
<1>6. ASSUME NEW r \in Planners, SaveRow(r) PROVE SerialInv'
  <2>1. plan[r] = "save" /\ UNCHANGED <<stops, planners>>
    BY <1>6 DEF SaveRow
  <2>2. OnePlanner => stops = {} /\ stops' = {} /\ draft[r].cost = Cost(draft[r].found)
    BY <2>1 DEF SerialInv, DraftOK
  <2>3. CASE Goes(r, "idle")
    <3>1. plan'[r] = "idle"
      BY <1>0, <2>3 DEF Goes, Types
    <3> QED BY <1>0, <2>1, <2>2, <2>3, <3>1, MovesAlone DEF ListOK, DraftOK
  <2>4. CASE ~ Goes(r, "idle")
    <3>1. /\ Goes(r, "list") /\ draft' = draft
          /\ trip' = [parameters |-> draft[r].parameters, cost |-> draft[r].cost]
      BY <1>6, <2>4 DEF SaveRow, Answer
    <3>2. OnePlanner => ListOK' /\ DraftOK(r)'
      BY <2>2, <3>1 DEF ListOK, DraftOK
    <3> QED BY <1>0, <2>1, <3>1, <3>2, MovesAlone
  <2> QED BY <2>3, <2>4
<1>7. ASSUME NEW r \in Planners, SaveList(r) PROVE SerialInv'
  <2> DEFINE p == draft[r].parameters
             found == draft[r].found
             new == Rows(r, found)
  <2>1. /\ Goes(r, "idle") /\ plan'[r] = "idle" /\ plan[r] = "list" /\ UNCHANGED <<trip, planners>>
        /\ stops' = stops \cup new
    BY <1>0, <1>7 DEF SaveList, Answer, Goes, Types
  <2>2. (\A s \in new : s.of = p) /\ {s.experience : s \in new} = found
    <3>1. \A s \in new : s.of = p /\ s.experience \in found
      BY DEF Rows
    <3>2. ASSUME NEW e \in found PROVE \E s \in new : s.experience = e
      <4>1. [experience |-> e, of |-> p, by |-> r] \in new
        BY DEF Rows
      <4> QED BY <4>1
    <3> HIDE DEF p, found, new
    <3> QED BY <3>1, <3>2
  <2>3. OnePlanner => stops' = new /\ trip'.parameters = p /\ trip'.cost = Cost(found)
    BY <2>1 DEF SerialInv, DraftOK
  <2> HIDE DEF p, found, new
  <2>4. OnePlanner => ListOK' /\ DraftOK(r)'
    BY <2>1, <2>2, <2>3 DEF ListOK, DraftOK
  <2> QED BY <1>0, <2>1, <2>4, MovesAlone
<1>8. CASE UNCHANGED vars
  BY <1>8 DEF vars, SerialInv, OnePlanner, Alone, ListOK, DraftOK
<1> QED BY <1>1, <1>2, <1>3, <1>4, <1>5, <1>6, <1>7, <1>8 DEF Next

LEMMA SerialStarts == Init => SerialInv
BY DEF Init, SerialInv, Alone, ListOK, DraftOK

LEMMA TripInvariant ==
  ASSUME TripAssumption
  PROVE  Spec => [](TripInv /\ SerialInv)
BY TripStarts, TripStep, SerialStarts, SerialStep, PTL DEF Spec

\* One modification at a time, the experiences listed are those of the stored
\* parameters, wherever an earlier modification failed.
THEOREM ListsFitParameters ==
  ASSUME TripAssumption
  PROVE  Spec => []StopsFitParameters
<1>1. SerialInv => StopsFitParameters
  BY DEF SerialInv, ListOK, StopsFitParameters
<1> QED BY <1>1, TripInvariant, PTL

\* One modification at a time, a list that is there costs what the row says.
THEOREM CostsFitLists ==
  ASSUME TripAssumption
  PROVE  Spec => []CostFitsStops
<1>1. SerialInv => CostFitsStops
  BY DEF SerialInv, ListOK, CostFitsStops
<1> QED BY <1>1, TripInvariant, PTL
=============================================================================
