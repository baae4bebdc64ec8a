--------------------------- MODULE DatabaseHealth ---------------------------
(***************************************************************************)
(* The watch over the database (database/database-health.service.ts):      *)
(* checkHealth for the health routes, retryConnection and executeWithRetry *)
(* for whoever needs them, all of them overlapping.  One counter bounds    *)
(* the attempts of all chains of retries, and any check that ends well     *)
(* sets it back.                                                           *)
(***************************************************************************)
EXTENDS Naturals, FiniteSets

CONSTANTS
  Jobs,        \* calls that may overlap
  maxRetries,  \* of retryConnection
  retries,     \* of executeWithRetry
  MaxCalls,    \* bound on the calls
  MaxFlips     \* bound on how often the database goes and comes

VARIABLES
  up,             \* the database answers
  isInitialized,  \* of the data source
  retryCount,
  job,            \* of each call, where it is and what it answers
  begun,          \* history: attempts begun since the outage began
  late,           \* history: checks that ended well in this outage, asked before it
  seen,           \* history: a check has ended well since the database came back
  calls, flips

vars == <<up, isInitialized, retryCount, job, begun, late, seen, calls, flips>>

Idle == [call |-> "none", at |-> "idle", tries |-> 0, seen |-> FALSE, answer |-> TRUE]

Busy(j) == job[j].at # "idle"
Goto(j, at) == job' = [job EXCEPT ![j].at = at]
Done(j, answer) == job' = [job EXCEPT ![j].at = "done", ![j].answer = answer]

-----------------------------------------------------------------------------
\* The next attempt of a chain, unless all chains together have used theirs up.
Attempt(j) ==
  \/ /\ retryCount >= maxRetries
     /\ Done(j, FALSE)
     /\ UNCHANGED <<retryCount, begun>>
  \/ /\ retryCount < maxRetries
     /\ retryCount' = retryCount + 1
     /\ job' = [job EXCEPT ![j].at = "sleep"]
     /\ begun' = IF up THEN begun ELSE begun + 1

\* A call comes in; a chain begins its first attempt at once.
Begin(j, call, at) ==
  /\ ~Busy(j) /\ calls < MaxCalls /\ calls' = calls + 1
  /\ job' = [job EXCEPT ![j] = [Idle EXCEPT !.call = call, !.at = at, !.seen = seen]]
  /\ UNCHANGED <<up, isInitialized, retryCount, begun, late, seen, flips>>

checkHealth(j)      == Begin(j, "check", "select")
retryConnection(j)  == Begin(j, "chain", "next")
executeWithRetry(j) == Begin(j, "query", "run")

Enter(j) ==
  /\ job[j].at = "next" /\ Attempt(j)
  /\ UNCHANGED <<up, isInitialized, late, seen, calls, flips>>

Wake(j) ==
  /\ job[j].at = "sleep"
  /\ Goto(j, IF isInitialized THEN "select" ELSE "initialize")
  /\ UNCHANGED <<up, isInitialized, retryCount, begun, late, seen, calls, flips>>

Initialize(j) ==
  /\ job[j].at = "initialize"
  /\ \/ up /\ isInitialized' = TRUE /\ Goto(j, "select") /\ UNCHANGED <<retryCount, begun>>
     \/ ~up /\ Attempt(j) /\ UNCHANGED isInitialized
  /\ UNCHANGED <<up, late, seen, calls, flips>>

\* SELECT 1: what fails ends a check, and is the next attempt of a chain.
Select(j) ==
  /\ job[j].at = "select"
  /\ IF up /\ isInitialized THEN Goto(j, "pool") /\ UNCHANGED <<retryCount, begun>>
     ELSE IF job[j].call = "check" THEN Done(j, FALSE) /\ UNCHANGED <<retryCount, begun>>
     ELSE Attempt(j)
  /\ UNCHANGED <<up, isInitialized, late, seen, calls, flips>>

\* getPoolStatistics: whatever it answers, the check has ended well.
Pool(j) ==
  /\ job[j].at = "pool"
  /\ retryCount' = 0
  /\ Done(j, TRUE)
  /\ late' = IF up THEN late ELSE late + 1
  /\ seen' = up
  /\ UNCHANGED <<up, isInitialized, begun, calls, flips>>

\* queryFn: done, refused for good, or a lost connection and another try.
Run(j) ==
  /\ job[j].at = "run"
  /\ \/ up /\ \E ok \in BOOLEAN : Done(j, ok)
     \/ ~up /\ job[j].tries >= retries /\ Done(j, FALSE)
     \/ ~up /\ job[j].tries < retries
        /\ job' = [job EXCEPT ![j].at = "pause", ![j].tries = @ + 1]
  /\ UNCHANGED <<up, isInitialized, retryCount, begun, late, seen, calls, flips>>

Pause(j) ==
  /\ job[j].at = "pause" /\ Goto(j, "run")
  /\ UNCHANGED <<up, isInitialized, retryCount, begun, late, seen, calls, flips>>

Return(j) ==
  /\ job[j].at = "done"
  /\ job' = [job EXCEPT ![j] = Idle]
  /\ UNCHANGED <<up, isInitialized, retryCount, begun, late, seen, calls, flips>>

\* The database goes, or comes back.
Flip ==
  /\ flips < MaxFlips /\ flips' = flips + 1
  /\ up' = ~up /\ begun' = 0 /\ late' = 0 /\ seen' = FALSE
  /\ job' = [j \in Jobs |-> [job[j] EXCEPT !.seen = FALSE]]
  /\ UNCHANGED <<isInitialized, retryCount, calls>>

-----------------------------------------------------------------------------
Init ==
  /\ up = TRUE /\ seen = TRUE /\ isInitialized \in BOOLEAN
  /\ retryCount = 0 /\ job = [j \in Jobs |-> Idle]
  /\ begun = 0 /\ late = 0 /\ calls = 0 /\ flips = 0

Step(j) ==
  Enter(j) \/ Wake(j) \/ Initialize(j) \/ Select(j) \/ Pool(j) \/ Run(j) \/ Pause(j) \/ Return(j)

Next ==
  \/ \E j \in Jobs : checkHealth(j) \/ retryConnection(j) \/ executeWithRetry(j) \/ Step(j)
  \/ Flip

\* Timers go off and queries are answered.
Spec == Init /\ [][Next]_vars /\ \A j \in Jobs : WF_vars(Step(j))

-----------------------------------------------------------------------------
(* Properties.                                                             *)

\* Every variable has its type.
TypeOK ==
  /\ {up, isInitialized, seen} \subseteq BOOLEAN /\ retryCount \in 0..maxRetries
  /\ \A j \in Jobs :
       job[j] \in [call : {"none", "check", "chain", "query"},
                   at : {"idle", "next", "sleep", "initialize", "select", "pool", "run", "pause", "done"},
                   tries : 0..retries, seen : BOOLEAN, answer : BOOLEAN]
  /\ begun \in Nat /\ late \in Nat /\ calls \in 0..MaxCalls /\ flips \in 0..MaxFlips

\* However many chains are under way, they begin at most three attempts together
\* while the database is away, and three more for every check that it had
\* answered just before it went.
OutageIsSpared == ~up => begun <= maxRetries * (late + 1)

\* Once a check has ended well since the database came back, no chain gives up
\* while it stays, unless there are as many others as there are attempts: until
\* then a chain may give up although the database is there, for nothing but a
\* check sets the counter back.
SeenIsFound ==
  Cardinality(Jobs) <= maxRetries =>
    \A j \in Jobs :
      job[j].call = "chain" /\ job[j].at = "done" /\ job[j].seen => job[j].answer
=============================================================================
