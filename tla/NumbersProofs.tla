---------------------------- MODULE NumbersProofs ---------------------------
(***************************************************************************)
(* What is proved of the numbers that the pages and services count with:   *)
(* pages of reviews and of results, the rate limit, the watch over the     *)
(* database, the metrics and the refund promised. Each has an invariant of *)
(* its own, and a theorem joins them; the last theorem joins the types of  *)
(* all the pages and services.                                             *)
(***************************************************************************)
EXTENDS PartsProofs, FunctionTheorems, SequenceTheorems

-----------------------------------------------------------------------------
(* What a cancellation promises.                                           *)

\* Who cancelled, and what was promised, at the hour at which the clock stopped.
RefundInv ==
  /\ x1 \in C!Policies /\ x2 \in Starts /\ x3 \in Int
  /\ C!RefundKeepsDeadline

\* A whole number of days is left from the day's own number of hours on.
LEMMA WholeDays ==
  ASSUME NEW h \in Int, NEW d \in Int
  PROVE  h \div 24 >= d <=> h >= 24 * d
OBVIOUS

LEMMA RefundStarts == C!Init => RefundInv
BY RefundAssumption DEF C!Init, RefundInv, C!RefundKeepsDeadline

LEMMA RefundStep == RefundInv /\ C!Next => RefundInv'
<1> SUFFICES ASSUME RefundInv, C!Next PROVE RefundInv'
  OBVIOUS
<1>0. RefundInv
  OBVIOUS
<1>1. CASE C!Pass
  BY <1>0, <1>1 DEF RefundInv, C!Pass, C!RefundKeepsDeadline
<1>2. ASSUME NEW by \in C!Roles, C!Cancel(by) PROVE RefundInv'
  <2> DEFINE cutoff == C!cutoffHours[x1]
             days   == C!thresholds[x1]
  <2>1. cutoff \in Int /\ days \in Int /\ cutoff = 24 * days
    BY <1>0 DEF RefundInv, C!Policies, C!cutoffHours, C!thresholds
  <2>2. x3 \div 24 >= days <=> x3 >= cutoff
    <3> HIDE DEF cutoff, days
    <3> QED BY <1>0, <2>1, WholeDays DEF RefundInv
  <2>3. x4' = [by |-> by, refundPercentage |-> IF by = "guide" \/ x3 >= cutoff THEN 100 ELSE 50]
        /\ UNCHANGED <<x1, x2, x3>>
    BY <1>2 DEF C!Cancel, C!calculateRefund
  <2>4. C!calculateRefundAmount(x3 \div 24) = IF x3 >= cutoff THEN 100 ELSE 50
    <3> QED BY <2>2 DEF C!calculateRefundAmount
  <2>5. x4'.by = by /\ x4'.refundPercentage = IF by = "guide" \/ x3 >= cutoff THEN 100 ELSE 50
    BY <2>3
  <2>6. C!calculateRefundAmount(x3 \div 24)' = C!calculateRefundAmount(x3 \div 24)
    BY <2>3 DEF C!calculateRefundAmount
  <2>7. C!untilStart' = x3 + x2 /\ C!cutoffHours[x1]' = cutoff
    BY <2>3 DEF C!untilStart, C!cutoffHours
  <2>8. x2 \in Int /\ x2 >= 0 /\ x3 \in Int
    BY <1>0, RefundAssumption DEF RefundInv
  <2> HIDE DEF cutoff
  <2>9. C!RefundKeepsDeadline'
    BY <2>1, <2>3, <2>4, <2>5, <2>6, <2>7, <2>8 DEF C!RefundKeepsDeadline
  <2> QED BY <1>0, <2>3, <2>9 DEF RefundInv
<1> QED BY <1>1, <1>2 DEF C!Next

-----------------------------------------------------------------------------
(* The watch over the database.                                            *)

Places == {"idle", "next", "sleep", "initialize", "select", "pool", "run", "pause", "done"}
Jobs == [call : {"none", "check", "chain", "query"}, at : Places, tries : Nat, seen : BOOLEAN,
         answer : BOOLEAN]

\* The chains that have an attempt under way.
Trying == {j \in Actors : x4[j].call = "chain" /\ x4[j].at \in {"sleep", "initialize", "select", "pool"}}

\* The attempts that late answers have forgiven.
Spared(answers) == maxRetries * answers

\* While the database is away, what the counter has not counted are attempts that
\* a late answer set it back for.  Since a check ended well, it counts no more than
\* the attempts under way: they all reach a database that is there.
DatabaseInv ==
  /\ x1 \in BOOLEAN /\ x2 \in BOOLEAN /\ x7 \in BOOLEAN
  /\ x3 \in 0..maxRetries /\ x5 \in Nat /\ x6 \in Nat
  /\ x4 \in [Actors -> Jobs]
  /\ x1 = TRUE => x5 = 0 /\ x6 = 0
  /\ x5 <= Spared(x6) + x3
  /\ x7 = TRUE => x1 = TRUE /\ x3 <= Cardinality(Trying)
  /\ \A j \in Actors :
       /\ x4[j].seen = TRUE => x7 = TRUE
       /\ x4[j].at \in {"next", "sleep", "initialize"} => x4[j].call = "chain"
       /\ x4[j].at \in {"run", "pause"} => x4[j].call = "query"
       /\ x4[j].at = "select" => x4[j].call \in {"check", "chain"}
       /\ x4[j].at = "select" /\ x4[j].call = "chain" => x2 = TRUE
       /\ Cardinality(Actors) <= maxRetries /\ x4[j].call = "chain" /\ x4[j].at = "done" /\ x4[j].seen = TRUE =>
            x4[j].answer = TRUE

LEMMA AttemptsSpared ==
  /\ maxRetries \in Nat /\ Spared(0) = 0
  /\ \A n \in Nat : Spared(n) \in Nat /\ Spared(n + 1) = Spared(n) + maxRetries
<1>1. maxRetries \in Nat
  BY NumbersAssumption
<1>2. Spared(0) = 0
  BY <1>1 DEF Spared
<1>3. ASSUME NEW n \in Nat PROVE Spared(n) \in Nat /\ Spared(n + 1) = Spared(n) + maxRetries
  BY <1>1 DEF Spared
<1> QED BY <1>1, <1>2, <1>3

\* A job that goes to another place, with the rest as it is; that is done; that
\* forgets what was seen; that tries once more.
LEMMA JobMoves ==
  ASSUME NEW r \in Jobs, NEW at \in Places
  PROVE  /\ [r EXCEPT !.at = at] \in Jobs /\ [r EXCEPT !.at = at].at = at
         /\ [r EXCEPT !.at = at].call = r.call /\ [r EXCEPT !.at = at].seen = r.seen
         /\ [r EXCEPT !.at = at].answer = r.answer
<1>1. DOMAIN r = {"call", "at", "tries", "seen", "answer"}
  BY DEF Jobs
<1>2. [r EXCEPT !.at = at] \in Jobs
  BY Zenon DEF Jobs
<1> QED BY <1>1, <1>2

LEMMA JobEnds ==
  ASSUME NEW r \in Jobs, NEW answer \in BOOLEAN
  PROVE  /\ [r EXCEPT !.at = "done", !.answer = answer] \in Jobs
         /\ [r EXCEPT !.at = "done", !.answer = answer].at = "done"
         /\ [r EXCEPT !.at = "done", !.answer = answer].call = r.call
         /\ [r EXCEPT !.at = "done", !.answer = answer].seen = r.seen
         /\ [r EXCEPT !.at = "done", !.answer = answer].answer = answer
<1>1. DOMAIN r = {"call", "at", "tries", "seen", "answer"}
  BY DEF Jobs
<1> DEFINE q == [r EXCEPT !.at = "done"]
<1>2. q \in Jobs /\ q.at = "done" /\ q.call = r.call /\ q.seen = r.seen
  BY JobMoves DEF Places
<1> HIDE DEF q
<1>3. DOMAIN q = {"call", "at", "tries", "seen", "answer"}
  BY <1>2 DEF Jobs
<1>4. [q EXCEPT !.answer = answer] \in Jobs
  BY <1>2, Zenon DEF Jobs
<1>5. /\ [q EXCEPT !.answer = answer].at = "done" /\ [q EXCEPT !.answer = answer].call = r.call
      /\ [q EXCEPT !.answer = answer].seen = r.seen /\ [q EXCEPT !.answer = answer].answer = answer
  BY <1>2, <1>3
<1>6. [q EXCEPT !.answer = answer] = [r EXCEPT !.at = "done", !.answer = answer]
  BY DEF q
<1> QED BY <1>4, <1>5, <1>6

LEMMA JobForgets ==
  ASSUME NEW r \in Jobs
  PROVE  /\ [r EXCEPT !.seen = FALSE] \in Jobs /\ [r EXCEPT !.seen = FALSE].seen = FALSE
         /\ [r EXCEPT !.seen = FALSE].at = r.at /\ [r EXCEPT !.seen = FALSE].call = r.call
         /\ [r EXCEPT !.seen = FALSE].answer = r.answer
<1>1. DOMAIN r = {"call", "at", "tries", "seen", "answer"}
  BY DEF Jobs
<1>2. [r EXCEPT !.seen = FALSE] \in Jobs
  BY Zenon DEF Jobs
<1> QED BY <1>1, <1>2

LEMMA JobTriesAgain ==
  ASSUME NEW r \in Jobs
  PROVE  /\ [r EXCEPT !.at = "pause", !.tries = @ + 1] \in Jobs
         /\ [r EXCEPT !.at = "pause", !.tries = @ + 1].at = "pause"
         /\ [r EXCEPT !.at = "pause", !.tries = @ + 1].call = r.call
         /\ [r EXCEPT !.at = "pause", !.tries = @ + 1].seen = r.seen
<1> DEFINE q == [r EXCEPT !.at = "pause"]
           n == r.tries + 1
<1>1. q \in Jobs /\ q.at = "pause" /\ q.call = r.call /\ q.seen = r.seen
  BY JobMoves DEF Places
<1>2. n \in Nat
  BY DEF Jobs
<1>3. DOMAIN r = {"call", "at", "tries", "seen", "answer"}
  BY DEF Jobs
<1>4. [r EXCEPT !.at = "pause", !.tries = @ + 1] = [q EXCEPT !.tries = n]
  BY <1>3
<1> HIDE DEF q, n
<1>5. DOMAIN q = {"call", "at", "tries", "seen", "answer"}
  BY <1>1 DEF Jobs
<1>6. [q EXCEPT !.tries = n] \in Jobs
  BY <1>1, <1>2, Zenon DEF Jobs
<1>7. /\ [q EXCEPT !.tries = n].at = "pause" /\ [q EXCEPT !.tries = n].call = r.call
      /\ [q EXCEPT !.tries = n].seen = r.seen
  BY <1>1, <1>5
<1> QED BY <1>4, <1>6, <1>7

Begun(call, at, seen) == [D!Idle EXCEPT !.call = call, !.at = at, !.seen = seen]

LEMMA JobBegins ==
  ASSUME NEW call \in {"check", "chain", "query"}, NEW at \in Places, NEW seen \in BOOLEAN
  PROVE  /\ Begun(call, at, seen) \in Jobs /\ Begun(call, at, seen).call = call
         /\ Begun(call, at, seen).at = at /\ Begun(call, at, seen).seen = seen
<1> DEFINE idle == D!Idle
           q    == [idle EXCEPT !.call = call]
           p    == [q EXCEPT !.at = at]
           r    == [p EXCEPT !.seen = seen]
<1>1. idle \in Jobs
  BY DEF D!Idle, Jobs, Places
<1>2. Begun(call, at, seen) = r
  BY DEF D!Idle, Begun
<1> HIDE DEF idle
<1>3. DOMAIN idle = {"call", "at", "tries", "seen", "answer"}
  BY <1>1 DEF Jobs
<1>4. q \in Jobs
  BY <1>1, Zenon DEF Jobs
<1>5. q.call = call
  BY <1>3
<1> HIDE DEF q
<1>6. p \in Jobs /\ p.at = at /\ p.call = call
  BY <1>4, <1>5, JobMoves
<1> HIDE DEF p
<1>7. DOMAIN p = {"call", "at", "tries", "seen", "answer"}
  BY <1>6 DEF Jobs
<1>8. r \in Jobs
  BY <1>6, Zenon DEF Jobs
<1>9. r.at = at /\ r.call = call /\ r.seen = seen
  BY <1>6, <1>7
<1> QED BY <1>2, <1>8, <1>9

\* What holds of each job; whether it has an attempt under way.
JobOK(r) ==
  /\ r.at \in {"next", "sleep", "initialize"} => r.call = "chain"
  /\ r.at \in {"run", "pause"} => r.call = "query"
  /\ r.at = "select" => r.call \in {"check", "chain"}
  /\ Cardinality(Actors) <= maxRetries /\ r.call = "chain" /\ r.at = "done" /\ r.seen = TRUE => r.answer = TRUE
Tries(r) == r.call = "chain" /\ r.at \in {"sleep", "initialize", "select", "pool"}

\* One job moves.  The counter is set back, or follows the attempts under way, or
\* the database has not been seen.
LEMMA OneJobMoves ==
  ASSUME IsFiniteSet(Actors), DatabaseInv, NEW j \in Actors, NEW r \in Jobs,
         x4' = [x4 EXCEPT ![j] = r], x1' = x1, x2' \in BOOLEAN, x2 = TRUE => x2' = TRUE,
         x7' \in BOOLEAN, x7 = TRUE => x7' = TRUE, x7' = TRUE => x1 = TRUE,
         x3' \in 0..maxRetries, x5' \in Nat, x6' \in Nat,
         x1 = TRUE => x5' = 0 /\ x6' = 0, x5' <= Spared(x6') + x3',
         JobOK(r), r.seen = TRUE => x7' = TRUE,
         r.at = "select" /\ r.call = "chain" => x2' = TRUE,
         x7' = TRUE => \/ x3' = 0
                       \/ x7 = TRUE /\ x3' = x3 /\ (Tries(x4[j]) => Tries(r))
                       \/ x7 = TRUE /\ x3' = x3 + 1 /\ ~Tries(x4[j]) /\ Tries(r)
  PROVE  DatabaseInv'
<1>1. x4' \in [Actors -> Jobs] /\ \A i \in Actors : x4'[i] = IF i = j THEN r ELSE x4[i]
  BY DEF DatabaseInv
<1>2. /\ Trying' \subseteq Actors /\ Trying \subseteq Actors
      /\ Tries(r) => Trying' = Trying \cup {j}
      /\ ~Tries(x4[j]) => j \notin Trying /\ Trying \subseteq Trying'
      /\ (Tries(x4[j]) => Tries(r)) => Trying \subseteq Trying'
  BY <1>1 DEF Trying, Tries
<1>3. IsFiniteSet(Trying) /\ IsFiniteSet(Trying')
  BY <1>2, FS_Subset
<1>4. Cardinality(Trying) \in Nat /\ Cardinality(Trying') \in Nat
  BY <1>3, FS_CardinalityType
<1>5. x7' = TRUE => x3' <= Cardinality(Trying')
  <2>1. CASE x7 = TRUE /\ x3' = x3 /\ (Tries(x4[j]) => Tries(r))
    <3>1. Cardinality(Trying) <= Cardinality(Trying')
      BY <1>2, <1>3, <2>1, FS_Subset
    <3>2. x3 <= Cardinality(Trying) /\ x3 \in Nat
      BY <2>1, AttemptsSpared DEF DatabaseInv
    <3> QED BY <1>4, <2>1, <3>1, <3>2
  <2>2. CASE x7 = TRUE /\ x3' = x3 + 1 /\ ~Tries(x4[j]) /\ Tries(r)
    <3>1. Cardinality(Trying') = Cardinality(Trying) + 1
      BY <1>2, <1>3, <2>2, FS_AddElement
    <3>2. x3 <= Cardinality(Trying) /\ x3 \in Nat
      BY <2>2, AttemptsSpared DEF DatabaseInv
    <3> QED BY <1>4, <2>2, <3>1, <3>2
  <2>3. CASE x3' = 0
    BY <1>4, <2>3
  <2> QED BY <2>1, <2>2, <2>3
<1>6. ASSUME NEW i \in Actors
      PROVE  /\ x4'[i].seen = TRUE => x7' = TRUE
             /\ JobOK(x4'[i])
             /\ x4'[i].at = "select" /\ x4'[i].call = "chain" => x2' = TRUE
  <2>1. CASE i = j
    BY <1>1, <2>1
  <2>2. CASE i # j
    <3>1. x4'[i] = x4[i]
      BY <1>1, <2>2
    <3>2. JobOK(x4[i])
      BY DEF DatabaseInv, JobOK
    <3>3. x4[i].seen = TRUE => x7 = TRUE
      BY DEF DatabaseInv
    <3>4. x4[i].at = "select" /\ x4[i].call = "chain" => x2 = TRUE
      BY DEF DatabaseInv
    <3> QED BY <3>1, <3>2, <3>3, <3>4
  <2> QED BY <2>1, <2>2
<1>7. x1 \in BOOLEAN
  BY DEF DatabaseInv
<1> QED BY <1>1, <1>5, <1>6, <1>7, Zenon DEF DatabaseInv, JobOK

LEMMA DatabaseStarts ==
  ASSUME IsFiniteSet(Actors)
  PROVE  D!Init => DatabaseInv
<1> SUFFICES ASSUME D!Init PROVE DatabaseInv
  OBVIOUS
<1>1. /\ x1 = TRUE /\ x7 = TRUE /\ x2 \in BOOLEAN /\ x3 = 0 /\ x5 = 0 /\ x6 = 0
      /\ x4 = [j \in Actors |-> D!Idle]
  BY DEF D!Init
<1>2. /\ D!Idle \in Jobs /\ D!Idle.call = "none" /\ D!Idle.at = "idle" /\ D!Idle.seen = FALSE
  BY DEF D!Idle, Jobs, Places
<1> HIDE DEF D!Idle
<1>3. x4 \in [Actors -> Jobs] /\ \A j \in Actors : x4[j] = D!Idle
  BY <1>1, <1>2
<1>4. Trying = {}
  BY <1>2, <1>3 DEF Trying
<1>5. Cardinality(Trying) = 0
  BY <1>4, FS_EmptySet
<1>6. x3 \in 0..maxRetries /\ x5 \in Nat /\ x6 \in Nat /\ x5 <= Spared(x6) + x3
  BY <1>1, AttemptsSpared
<1> QED BY <1>1, <1>2, <1>3, <1>5, <1>6 DEF DatabaseInv

\* Where a chain gives up, nobody has seen the database, or all attempts are under way.
LEMMA NextAttempt ==
  ASSUME IsFiniteSet(Actors), DatabaseInv, NEW j \in Actors, D!Attempt(j),
         x4[j].call = "chain", x4[j].at # "done",
         x1' = x1, x2' = x2, x6' = x6, x7' = x7,
         x7 = TRUE => x4[j].at = "next"
  PROVE  DatabaseInv'
<1>1. x4[j] \in Jobs
  BY DEF DatabaseInv
<1>2. /\ x1 \in BOOLEAN /\ x2 \in BOOLEAN /\ x7 \in BOOLEAN /\ x3 \in 0..maxRetries /\ x5 \in Nat /\ x6 \in Nat
      /\ x1 = TRUE => x5 = 0 /\ x6 = 0
      /\ x5 <= Spared(x6) + x3
      /\ x7 = TRUE => x1 = TRUE /\ x3 <= Cardinality(Trying)
      /\ x4[j].seen = TRUE => x7 = TRUE
  BY DEF DatabaseInv
<1>3. CASE x3 >= maxRetries /\ D!Done(j, FALSE) /\ UNCHANGED <<x3, x5>>
  <2> DEFINE r == [x4[j] EXCEPT !.at = "done", !.answer = FALSE]
  <2>1. x4' = [x4 EXCEPT ![j] = r]
    BY <1>3 DEF D!Done, DatabaseInv
  <2>2. r \in Jobs /\ r.at = "done" /\ r.call = "chain" /\ r.seen = x4[j].seen
    BY <1>1, JobEnds
  <2> HIDE DEF r
  <2>3. ASSUME Cardinality(Actors) <= maxRetries, x7 = TRUE PROVE FALSE
    <3>1. Trying \subseteq Actors \ {j}
      BY <2>3 DEF Trying
    <3>2. Trying \cup {j} \subseteq Actors /\ j \notin Trying /\ IsFiniteSet(Trying)
      BY <3>1, FS_Subset
    <3>3. Cardinality(Trying \cup {j}) = Cardinality(Trying) + 1
      BY <3>2, FS_AddElement
    <3>4. Cardinality(Trying \cup {j}) <= Cardinality(Actors)
      BY <3>2, FS_Subset
    <3>5. Cardinality(Trying) \in Nat /\ Cardinality(Actors) \in Nat
      BY <3>2, FS_CardinalityType
    <3> QED BY <1>2, <1>3, <2>3, <3>3, <3>4, <3>5, AttemptsSpared
  <2>4. JobOK(r)
    BY <1>2, <2>2, <2>3 DEF JobOK
  <2>5. x7 = TRUE => ~Tries(x4[j])
    BY DEF Tries
  <2>6. x3' = x3 /\ x5' = x5
    BY <1>3
  <2> QED BY <1>2, <2>1, <2>2, <2>4, <2>5, <2>6, OneJobMoves
<1>4. CASE x3 < maxRetries /\ x3' = x3 + 1 /\ x4' = [x4 EXCEPT ![j].at = "sleep"] /\ x5' = IF x1 THEN x5 ELSE x5 + 1
  <2> DEFINE r == [x4[j] EXCEPT !.at = "sleep"]
  <2>1. x4' = [x4 EXCEPT ![j] = r]
    BY <1>4 DEF DatabaseInv
  <2>2. r \in Jobs /\ r.at = "sleep" /\ r.call = "chain" /\ r.seen = x4[j].seen
    BY <1>1, JobMoves DEF Places
  <2> HIDE DEF r
  <2>3. x3' \in 0..maxRetries /\ x5' \in Nat /\ x5' <= Spared(x6') + x3' /\ (x1 = TRUE => x5' = 0 /\ x6' = 0)
    <3>1. CASE x1 = TRUE
      BY <1>2, <1>4, <3>1, AttemptsSpared
    <3>2. CASE x1 = FALSE
      BY <1>2, <1>4, <3>2, AttemptsSpared
    <3> QED BY <1>2, <3>1, <3>2
  <2>4. JobOK(r) /\ Tries(r)
    BY <2>2 DEF JobOK, Tries
  <2>5. x7 = TRUE => ~Tries(x4[j])
    BY DEF Tries
  <2>6. x3' = x3 + 1 /\ x6' \in Nat
    BY <1>2, <1>4, AttemptsSpared
  <2> QED BY <1>2, <2>1, <2>2, <2>3, <2>4, <2>5, <2>6, OneJobMoves
<1> QED BY <1>2, <1>3, <1>4 DEF D!Attempt

\* A job that moves with the counter and the history as they are.
LEMMA CounterStays ==
  ASSUME IsFiniteSet(Actors), DatabaseInv, NEW j \in Actors, NEW r \in Jobs,
         x4' = [x4 EXCEPT ![j] = r], UNCHANGED <<x1, x3, x5, x6, x7>>,
         x2' \in BOOLEAN, x2 = TRUE => x2' = TRUE, JobOK(r), r.seen = TRUE => x7 = TRUE,
         r.at = "select" /\ r.call = "chain" => x2' = TRUE,
         x7 = TRUE /\ Tries(x4[j]) => Tries(r)
  PROVE  DatabaseInv'
<1>1. /\ x1 \in BOOLEAN /\ x7 \in BOOLEAN /\ x3 \in 0..maxRetries /\ x5 \in Nat /\ x6 \in Nat
      /\ x1 = TRUE => x5 = 0 /\ x6 = 0
      /\ x5 <= Spared(x6) + x3
      /\ x7 = TRUE => x1 = TRUE
  BY DEF DatabaseInv
<1>2. x1' = x1 /\ x3' = x3 /\ x5' = x5 /\ x6' = x6 /\ x7' = x7
  OBVIOUS
<1> QED BY <1>1, <1>2, OneJobMoves

LEMMA DatabaseStep ==
  ASSUME IsFiniteSet(Actors)
  PROVE  DatabaseInv /\ D!Next => DatabaseInv'
<1> SUFFICES ASSUME DatabaseInv, D!Next PROVE DatabaseInv'
  OBVIOUS
<1>0. /\ x1 \in BOOLEAN /\ x2 \in BOOLEAN /\ x7 \in BOOLEAN /\ x3 \in 0..maxRetries /\ x5 \in Nat /\ x6 \in Nat
      /\ x4 \in [Actors -> Jobs]
      /\ x1 = TRUE => x5 = 0 /\ x6 = 0
      /\ x5 <= Spared(x6) + x3
      /\ x7 = TRUE => x1 = TRUE
      /\ \A j \in Actors :
           /\ JobOK(x4[j])
           /\ x4[j].seen = TRUE => x7 = TRUE
           /\ x4[j].at = "select" /\ x4[j].call = "chain" => x2 = TRUE
           /\ x4[j].seen \in BOOLEAN
  BY DEF DatabaseInv, JobOK, Jobs
<1>1. ASSUME NEW j \in Actors, NEW call, NEW at, D!Begin(j, call, at),
             <<call, at>> \in {<<"check", "select">>, <<"chain", "next">>, <<"query", "run">>}
      PROVE  DatabaseInv'
  <2> DEFINE r == Begun(call, at, x7)
  <2>1. /\ x4' = [x4 EXCEPT ![j] = r] /\ x4[j].at = "idle"
        /\ UNCHANGED <<x1, x2, x3, x5, x6, x7>>
    BY <1>1 DEF D!Begin, D!Busy, Begun
  <2>2. call \in {"check", "chain", "query"} /\ at \in {"select", "next", "run"} /\ at \in Places
    BY <1>1 DEF Places
  <2>3. x7 \in BOOLEAN
    BY <1>0
  <2>4. r \in Jobs /\ r.call = call /\ r.at = at /\ r.seen = x7
    <3>1. \A c \in {"check", "chain", "query"}, a \in Places, s \in BOOLEAN :
            Begun(c, a, s) \in Jobs /\ Begun(c, a, s).call = c /\ Begun(c, a, s).at = a /\ Begun(c, a, s).seen = s
      BY JobBegins
    <3>2. \A s \in BOOLEAN : Begun(call, at, s) \in Jobs /\ Begun(call, at, s).call = call /\ Begun(call, at, s).at = at /\ Begun(call, at, s).seen = s
      BY <2>2, <3>1
    <3> QED BY <2>3, <3>2
  <2> HIDE DEF r
  <2>5. JobOK(r) /\ ~(r.at = "select" /\ r.call = "chain") /\ ~Tries(x4[j])
    BY <1>1, <2>1, <2>4 DEF JobOK, Tries
  <2> QED BY <1>0, <2>1, <2>4, <2>5, CounterStays
\* A job that goes to another place.
<1>2. ASSUME NEW j \in Actors, NEW at \in Places, D!Goto(j, at), UNCHANGED <<x1, x3, x5, x6, x7>>,
             x2' \in BOOLEAN, x2 = TRUE => x2' = TRUE,
             JobOK([x4[j] EXCEPT !.at = at]),
             x7 = TRUE /\ Tries(x4[j]) => at \in {"sleep", "initialize", "select", "pool"},
             at = "select" => x2' = TRUE
      PROVE  DatabaseInv'
  <2> DEFINE r == [x4[j] EXCEPT !.at = at]
  <2>1. x4' = [x4 EXCEPT ![j] = r]
    BY <1>0, <1>2 DEF D!Goto
  <2>2. r \in Jobs /\ r.at = at /\ r.call = x4[j].call /\ r.seen = x4[j].seen
    BY <1>0, JobMoves
  <2>3. JobOK(r)
    BY <1>2
  <2> HIDE DEF r
  <2>4. x7 = TRUE /\ Tries(x4[j]) => Tries(r)
    BY <1>2, <2>2 DEF Tries
  <2> QED BY <1>0, <1>2, <2>1, <2>2, <2>3, <2>4, CounterStays
\* A job that ends without a chain.
<1>3. ASSUME NEW j \in Actors, NEW answer \in BOOLEAN, D!Done(j, answer),
             UNCHANGED <<x1, x2, x3, x5, x6, x7>>, x4[j].call # "chain"
      PROVE  DatabaseInv'
  <2> DEFINE r == [x4[j] EXCEPT !.at = "done", !.answer = answer]
  <2>1. x4' = [x4 EXCEPT ![j] = r]
    BY <1>0, <1>3 DEF D!Done
  <2>a. x4[j] \in Jobs
    BY <1>0
  <2>2. r \in Jobs /\ r.at = "done" /\ r.call = x4[j].call /\ r.seen = x4[j].seen
    BY <2>a, JobEnds
  <2> HIDE DEF r
  <2>3. JobOK(r) /\ ~Tries(x4[j])
    BY <1>3, <2>2 DEF JobOK, Tries
  <2> QED BY <1>0, <1>3, <2>1, <2>2, <2>3, CounterStays
<1>4. ASSUME NEW j \in Actors, D!Enter(j) PROVE DatabaseInv'
  <2>1. x4[j].at = "next" /\ D!Attempt(j) /\ UNCHANGED <<x1, x2, x6, x7>>
    BY <1>4 DEF D!Enter
  <2>2. x4[j].call = "chain"
    BY <1>0, <2>1 DEF JobOK
  <2> QED BY <2>1, <2>2, NextAttempt
<1>5. ASSUME NEW j \in Actors, D!Wake(j) PROVE DatabaseInv'
  <2> DEFINE at == IF x2 THEN "select" ELSE "initialize"
  <2>1. x4[j].at = "sleep" /\ D!Goto(j, at) /\ UNCHANGED <<x1, x2, x3, x5, x6, x7>>
    BY <1>5 DEF D!Wake
  <2>2. at \in {"select", "initialize"} /\ (at = "select" => x2 = TRUE)
    BY <1>0
  <2>3. x4[j].call = "chain"
    BY <1>0, <2>1 DEF JobOK
  <2> HIDE DEF at
  <2>4. JobOK([x4[j] EXCEPT !.at = at])
    BY <1>0, <2>2, <2>3, JobMoves DEF JobOK, Places
  <2> QED BY <1>0, <1>2, <2>1, <2>2, <2>4 DEF Places
<1>6. ASSUME NEW j \in Actors, D!Initialize(j) PROVE DatabaseInv'
  <2>1. x4[j].at = "initialize" /\ UNCHANGED <<x1, x6, x7>>
    BY <1>6 DEF D!Initialize
  <2>2. x4[j].call = "chain"
    BY <1>0, <2>1 DEF JobOK
  <2>3. CASE x1 /\ x2' = TRUE /\ D!Goto(j, "select") /\ UNCHANGED <<x3, x5>>
    <3>1. JobOK([x4[j] EXCEPT !.at = "select"])
      BY <1>0, <2>2, JobMoves DEF JobOK, Places
    <3> QED BY <1>2, <2>1, <2>3, <3>1 DEF Places
  <2>4. CASE ~x1 /\ D!Attempt(j) /\ UNCHANGED x2
    <3>1. x7 # TRUE
      BY <1>0, <2>4
    <3> QED BY <2>1, <2>2, <2>4, <3>1, NextAttempt
  <2> QED BY <1>6, <2>3, <2>4 DEF D!Initialize
<1>7. ASSUME NEW j \in Actors, D!Select(j) PROVE DatabaseInv'
  <2>1. x4[j].at = "select" /\ UNCHANGED <<x1, x2, x6, x7>>
    BY <1>7 DEF D!Select
  <2>2. CASE x1 /\ x2
    <3>1. D!Goto(j, "pool") /\ UNCHANGED <<x3, x5>>
      BY <1>7, <2>2 DEF D!Select
    <3>2. JobOK([x4[j] EXCEPT !.at = "pool"])
      BY <1>0, JobMoves DEF JobOK, Places
    <3> QED BY <1>0, <1>2, <2>1, <3>1, <3>2 DEF Places
  <2>3. CASE ~(x1 /\ x2) /\ x4[j].call = "check"
    <3>1. D!Done(j, FALSE) /\ UNCHANGED <<x3, x5>>
      BY <1>7, <2>3 DEF D!Select
    <3> QED BY <1>3, <2>1, <2>3, <3>1
  <2>4. CASE ~(x1 /\ x2) /\ x4[j].call # "check"
    <3>1. D!Attempt(j)
      BY <1>7, <2>4 DEF D!Select
    <3>2. x4[j].call = "chain"
      BY <1>0, <2>1, <2>4 DEF JobOK
    <3>3. x7 # TRUE
      BY <1>0, <2>1, <2>4, <3>2
    <3> QED BY <2>1, <3>1, <3>2, <3>3, NextAttempt
  <2> QED BY <2>2, <2>3, <2>4
\* A check that ends well: what was asked before the outage and answered in it counts as late.
<1>8. ASSUME NEW j \in Actors, D!Pool(j) PROVE DatabaseInv'
  <2> DEFINE r == [x4[j] EXCEPT !.at = "done", !.answer = TRUE]
  <2>1. /\ x4' = [x4 EXCEPT ![j] = r] /\ x3' = 0 /\ x7' = x1 /\ UNCHANGED <<x1, x2, x5>>
        /\ x6' = IF x1 THEN x6 ELSE x6 + 1
    BY <1>0, <1>8 DEF D!Pool, D!Done
  <2>2. x4[j] \in Jobs
    BY <1>0
  <2>3. r \in Jobs /\ r.at = "done" /\ r.seen = x4[j].seen /\ r.answer = TRUE
    BY <2>2, JobEnds
  <2> HIDE DEF r
  <2>4. JobOK(r)
    BY <2>3 DEF JobOK
  <2>5. x3' \in 0..maxRetries /\ x5' \in Nat /\ x6' \in Nat /\ x5' <= Spared(x6') + x3' /\ (x1 = TRUE => x5' = 0 /\ x6' = 0)
    <3>1. CASE x1 = TRUE
      BY <1>0, <2>1, <3>1, AttemptsSpared
    <3>2. CASE x1 = FALSE
      BY <1>0, <2>1, <3>2, AttemptsSpared
    <3> QED BY <1>0, <3>1, <3>2
  <2>6. (x7 = TRUE => x7' = TRUE) /\ (x7' = TRUE => x1 = TRUE) /\ x7' \in BOOLEAN
    BY <1>0, <2>1
  <2>7. r.seen = TRUE => x7' = TRUE
    BY <1>0, <2>3, <2>6
  <2>8. x2' \in BOOLEAN /\ x1' = x1 /\ (x2 = TRUE => x2' = TRUE)
    BY <1>0, <2>1
  <2> QED BY <2>1, <2>3, <2>4, <2>5, <2>6, <2>7, <2>8, OneJobMoves
<1>9. ASSUME NEW j \in Actors, D!Run(j) PROVE DatabaseInv'
  <2>1. x4[j].at = "run" /\ UNCHANGED <<x1, x2, x3, x5, x6, x7>>
    BY <1>9 DEF D!Run
  <2>2. x4[j].call = "query"
    BY <1>0, <2>1 DEF JobOK
  <2>3. ASSUME NEW ok \in BOOLEAN, D!Done(j, ok) PROVE DatabaseInv'
    BY <1>3, <2>1, <2>2, <2>3
  <2>4. CASE x4' = [x4 EXCEPT ![j].at = "pause", ![j].tries = @ + 1]
    <3> DEFINE r == [x4[j] EXCEPT !.at = "pause", !.tries = @ + 1]
    <3>1. x4' = [x4 EXCEPT ![j] = r]
      BY <1>0, <2>4
    <3>2. x4[j] \in Jobs
      BY <1>0
    <3>3. r \in Jobs /\ r.at = "pause" /\ r.call = "query" /\ r.seen = x4[j].seen
      BY <2>2, <3>2, JobTriesAgain
    <3> HIDE DEF r
    <3>4. JobOK(r) /\ ~Tries(x4[j])
      BY <2>2, <3>3 DEF JobOK, Tries
    <3> QED BY <1>0, <2>1, <3>1, <3>3, <3>4, CounterStays
  <2> QED BY <1>9, <2>3, <2>4 DEF D!Run
<1>10. ASSUME NEW j \in Actors, D!Pause(j) PROVE DatabaseInv'
  <2>1. x4[j].at = "pause" /\ D!Goto(j, "run") /\ UNCHANGED <<x1, x2, x3, x5, x6, x7>>
    BY <1>10 DEF D!Pause
  <2>2. x4[j].call = "query"
    BY <1>0, <2>1 DEF JobOK
  <2>3. JobOK([x4[j] EXCEPT !.at = "run"])
    BY <1>0, <2>2, JobMoves DEF JobOK, Places
  <2>4. ~Tries(x4[j])
    BY <2>1 DEF Tries
  <2> QED BY <1>0, <1>2, <2>1, <2>3, <2>4 DEF Places
<1>11. ASSUME NEW j \in Actors, D!Return(j) PROVE DatabaseInv'
  <2> DEFINE idle == D!Idle
  <2>1. x4[j].at = "done" /\ x4' = [x4 EXCEPT ![j] = idle] /\ UNCHANGED <<x1, x2, x3, x5, x6, x7>>
    BY <1>11 DEF D!Return
  <2>2. idle \in Jobs /\ idle.call = "none" /\ idle.at = "idle" /\ idle.seen = FALSE
    BY DEF D!Idle, Jobs, Places
  <2> HIDE DEF idle
  <2>3. JobOK(idle) /\ ~Tries(x4[j])
    BY <2>1, <2>2 DEF JobOK, Tries
  <2> QED BY <1>0, <2>1, <2>2, <2>3, CounterStays
<1>12. CASE D!Flip
  <2>1. /\ x1' = ~x1 /\ x5' = 0 /\ x6' = 0 /\ x7' = FALSE /\ UNCHANGED <<x2, x3>>
        /\ x4' = [j \in Actors |-> [x4[j] EXCEPT !.seen = FALSE]]
    BY <1>12 DEF D!Flip
  <2>2. ASSUME NEW j \in Actors
        PROVE  /\ x4'[j] \in Jobs /\ x4'[j].seen = FALSE /\ x4'[j].at = x4[j].at
               /\ x4'[j].call = x4[j].call
    <3>1. x4[j] \in Jobs /\ x4'[j] = [x4[j] EXCEPT !.seen = FALSE]
      BY <1>0, <2>1
    <3> QED BY <3>1, JobForgets
  <2>3. x4' \in [Actors -> Jobs]
    BY <2>1, <2>2
  <2>4. ASSUME NEW j \in Actors
        PROVE  /\ JobOK(x4'[j]) /\ x4'[j].seen = FALSE
               /\ x4'[j].at = "select" /\ x4'[j].call = "chain" => x2' = TRUE
    BY <1>0, <2>1, <2>2 DEF JobOK
  <2>5. x3' \in 0..maxRetries /\ x5' <= Spared(x6') + x3'
    BY <1>0, <2>1, AttemptsSpared
  <2>6. x1' \in BOOLEAN /\ x2' \in BOOLEAN /\ x7' = FALSE /\ x5' = 0 /\ x6' = 0 /\ 0 \in Nat
    BY <1>0, <2>1
  <2> QED BY <2>3, <2>4, <2>5, <2>6, Zenon DEF DatabaseInv, JobOK
<1> QED
  BY <1>1, <1>4, <1>5, <1>6, <1>7, <1>8, <1>9, <1>10, <1>11, <1>12
     DEF D!Next, D!Step, D!checkHealth, D!retryConnection, D!executeWithRetry

LEMMA OutagesAreSeen ==
  ASSUME IsFiniteSet(Actors)
  PROVE  DatabaseInv => D!OutageIsSpared /\ D!SeenIsFound
<1> SUFFICES ASSUME DatabaseInv PROVE D!OutageIsSpared /\ D!SeenIsFound
  OBVIOUS
<1>1. D!OutageIsSpared
  <2>1. x3 \in 0..maxRetries /\ x5 \in Nat /\ x6 \in Nat /\ x5 <= Spared(x6) + x3
    BY DEF DatabaseInv
  <2>2. x5 <= Spared(x6 + 1)
    BY <2>1, AttemptsSpared
  <2> QED BY <2>2 DEF D!OutageIsSpared, Spared
<1>2. D!Cardinality(Actors) = Cardinality(Actors)
  BY DEF D!Cardinality, Cardinality
<1>3. \A j \in Actors : x4[j].seen \in BOOLEAN /\ x4[j].answer \in BOOLEAN
  BY DEF DatabaseInv, Jobs
<1>4. D!SeenIsFound
  BY <1>2, <1>3 DEF DatabaseInv, D!SeenIsFound
<1> QED BY <1>1, <1>4

-----------------------------------------------------------------------------
(* The metrics of the administration.                                      *)

Tallies == [of : [M!Counts -> Nat \cup {None}], torn : BOOLEAN]
Everybody == x1["guides"] + x1["travelers"] + x1["admins"]

\* What was counted is right until somebody registers; nobody is counted who is not
\* there, and nobody forgotten whom an earlier answer counted.
Counting(r) ==
  /\ r \in Tallies
  /\ r.torn = FALSE => \A c \in M!Counts : r.of[c] # None => r.of[c] = M!Count(c)
  /\ r.of["users"] # None =>
       r.of["users"] <= Everybody /\ (x7 = FALSE => r.of["users"] >= x6)

\* An answer, or what is kept of one: the last of them has counted most.
Counted(r) ==
  /\ (r.torn = TRUE \/ r.torn = FALSE) /\ r.of["users"] \in Nat /\ r.of["users"] <= Everybody
  /\ r.torn = FALSE => r.of["guides"] + r.of["travelers"] + x1["admins"] = r.of["users"]
  /\ x7 = FALSE => r.of["users"] = x6

\* While one request computes, unless another does, nothing is answered from the cache.
MetricsInv ==
  /\ x1 \in [M!Roles -> Nat] /\ x2 \in Nat /\ x6 \in Nat /\ x7 \in BOOLEAN
  /\ x6 <= Everybody
  /\ DOMAIN x4 = Actors
  /\ \A a \in Actors : x4[a] # None => Counting(x4[a])
  /\ x3 # None => x3.expiresAt \in Nat /\ Counted(x3.data)
  /\ x5 # None => Counted(x5)
  /\ x7 = FALSE =>
       /\ \A a, b \in Actors : x4[a] # None /\ x4[b] # None => a = b
       /\ \A a \in Actors : x4[a] # None => x3 = None \/ x3.expiresAt <= x2

LEMMA CountsAre ==
  /\ M!Counts = {"guides", "travelers", "users"} /\ M!Roles = {"guides", "travelers", "admins"}
  /\ M!Open = {"guides", "travelers"}
  /\ M!Count("users") = Everybody
  /\ M!Count("guides") = x1["guides"] /\ M!Count("travelers") = x1["travelers"]
BY DEF M!Counts, M!Roles, M!Open, M!Count, Everybody

LEMMA MetricsStart == M!Init => MetricsInv
<1> SUFFICES ASSUME M!Init PROVE MetricsInv
  OBVIOUS
<1>1. /\ x1 \in [M!Roles -> Nat] /\ x2 = 0 /\ x3 = None /\ x5 = None /\ x6 = 0 /\ x7 = FALSE
      /\ DOMAIN x4 = Actors /\ \A a \in Actors : x4[a] = None
  BY NumbersAssumption DEF M!Init
<1>2. Everybody \in Nat /\ x6 <= Everybody
  BY <1>1, CountsAre DEF Everybody
<1>3. /\ \A a \in Actors : x4[a] # None => Counting(x4[a])
      /\ x3 # None => x3.expiresAt \in Nat /\ Counted(x3.data)
      /\ x5 # None => Counted(x5)
  BY <1>1, Zenon
<1>4. x7 = FALSE =>
        /\ \A a, b \in Actors : x4[a] # None /\ x4[b] # None => a = b
        /\ \A a \in Actors : x4[a] # None => x3 = None \/ x3.expiresAt <= x2
  BY <1>1, Zenon
<1>5. x1 \in [M!Roles -> Nat] /\ x2 \in Nat /\ x6 \in Nat /\ x7 \in BOOLEAN
  BY <1>1
<1> QED BY <1>1, <1>2, <1>3, <1>4, <1>5, Zenon DEF MetricsInv

\* One more count; a registration.
LEMMA CountAdded ==
  ASSUME NEW r \in Tallies, NEW c \in M!Counts, NEW n \in Nat
  PROVE  /\ [r EXCEPT !.of[c] = n] \in Tallies
         /\ [r EXCEPT !.of[c] = n].torn = r.torn
         /\ \A d \in M!Counts : [r EXCEPT !.of[c] = n].of[d] = IF d = c THEN n ELSE r.of[d]
<1> DEFINE of == [r.of EXCEPT ![c] = n]
<1>1. DOMAIN r = {"of", "torn"} /\ r.of \in [M!Counts -> Nat \cup {None}]
  BY DEF Tallies
<1>2. of \in [M!Counts -> Nat \cup {None}] /\ \A d \in M!Counts : of[d] = IF d = c THEN n ELSE r.of[d]
  BY <1>1
<1>3. [r EXCEPT !.of[c] = n] = [r EXCEPT !.of = of]
  BY <1>1
<1> HIDE DEF of
<1>4. [r EXCEPT !.of = of] \in Tallies
  BY <1>2, Zenon DEF Tallies
<1>5. [r EXCEPT !.of = of].of = of /\ [r EXCEPT !.of = of].torn = r.torn
  BY <1>1
<1> DEFINE q == [r EXCEPT !.of = of]
<1>6. q \in Tallies /\ q.torn = r.torn /\ \A d \in M!Counts : q.of[d] = IF d = c THEN n ELSE r.of[d]
  BY <1>2, <1>4, <1>5
<1> HIDE DEF q
<1> QED BY <1>3, <1>6 DEF q

LEMMA CountTorn ==
  ASSUME NEW r \in Tallies
  PROVE  [r EXCEPT !.torn = TRUE] \in Tallies /\ [r EXCEPT !.torn = TRUE].of = r.of
         /\ [r EXCEPT !.torn = TRUE].torn = TRUE
<1>1. DOMAIN r = {"of", "torn"}
  BY DEF Tallies
<1>2. [r EXCEPT !.torn = TRUE] \in Tallies
  BY Zenon DEF Tallies
<1> QED BY <1>1, <1>2

\* An answer, of a request or from the cache.
LEMMA AnswerCounts ==
  ASSUME MetricsInv, NEW data, (data.torn = TRUE \/ data.torn = FALSE), data.of["users"] \in Nat, data.of["users"] <= Everybody,
         data.torn = FALSE => data.of["guides"] + data.of["travelers"] + x1["admins"] = data.of["users"],
         x7 = FALSE => data.of["users"] >= x6,
         M!Answer(data), x1' = x1, x7' = x7
  PROVE  /\ x5' = data /\ Counted(data)' /\ x6' \in Nat /\ x6' <= Everybody /\ Everybody' = Everybody
         /\ x7 = FALSE => x6' = data.of["users"]
<1>1. x5' = data /\ x6' = IF data.of["users"] > x6 THEN data.of["users"] ELSE x6
  BY DEF M!Answer
<1>2. x6 \in Nat /\ x6 <= Everybody /\ Everybody \in Nat
  BY CountsAre DEF MetricsInv, Everybody
<1>3. Everybody' = Everybody
  BY DEF Everybody
<1>4. x6' \in Nat /\ x6' <= Everybody
  BY <1>1, <1>2
<1>5. x7 = FALSE => x6' = data.of["users"]
  BY <1>1, <1>2
<1> QED BY <1>1, <1>3, <1>4, <1>5 DEF Counted

LEMMA MetricsStep == MetricsInv /\ M!Next => MetricsInv'
<1> SUFFICES ASSUME MetricsInv, M!Next PROVE MetricsInv'
  OBVIOUS
<1>inv. /\ x1 \in [M!Roles -> Nat] /\ x2 \in Nat /\ x6 \in Nat /\ x7 \in BOOLEAN
        /\ x6 <= Everybody /\ Everybody \in Nat
        /\ DOMAIN x4 = Actors
        /\ \A a \in Actors : x4[a] # None => Counting(x4[a])
        /\ x3 # None => x3.expiresAt \in Nat /\ Counted(x3.data)
        /\ x5 # None => Counted(x5)
  BY CountsAre DEF MetricsInv, Everybody
<1>alone. x7 = FALSE =>
        /\ \A a, b \in Actors : x4[a] # None /\ x4[b] # None => a = b
        /\ \A a \in Actors : x4[a] # None => x3 = None \/ x3.expiresAt <= x2
  BY DEF MetricsInv
<1>same. ASSUME x1' = x1, x6' = x6, x7' = x7
         PROVE  Everybody' = Everybody /\ (\A r : Counted(r)' <=> Counted(r))
                /\ (\A r : Counting(r)' <=> Counting(r))
  <2>1. Everybody' = Everybody
    BY <1>same DEF Everybody
  <2>2. \A c \in M!Counts : M!Count(c)' = M!Count(c)
    BY <1>same DEF M!Count
  <2> QED BY <1>same, <2>1, <2>2 DEF Counted, Counting
<1>1. CASE M!FromCache
  <2>1. /\ x3 # None /\ x3.expiresAt > x2 /\ M!Answer(x3.data)
        /\ x1' = x1 /\ x2' = x2 /\ x3' = x3 /\ x4' = x4 /\ x7' = x7
    BY <1>1 DEF M!FromCache, M!Cached
  <2>2. Counted(x3.data)
    BY <1>inv, <2>1
  <2>3. /\ (x3.data.torn = TRUE \/ x3.data.torn = FALSE) /\ x3.data.of["users"] \in Nat /\ x3.data.of["users"] <= Everybody
        /\ x3.data.torn = FALSE => x3.data.of["guides"] + x3.data.of["travelers"] + x1["admins"] = x3.data.of["users"]
        /\ x7 = FALSE => x3.data.of["users"] = x6
    BY <2>2 DEF Counted
  <2>4. x7 = FALSE => x3.data.of["users"] >= x6
    BY <2>3, <1>inv
  <2>5. /\ x5' = x3.data /\ Counted(x5)' /\ x6' \in Nat /\ x6' <= Everybody /\ Everybody' = Everybody
        /\ x7 = FALSE => x6' = x6
    <3> DEFINE data == x3.data
    <3>1. (data.torn = TRUE \/ data.torn = FALSE) /\ data.of["users"] \in Nat /\ data.of["users"] <= Everybody
      BY <2>3
    <3>2. /\ data.torn = FALSE => data.of["guides"] + data.of["travelers"] + x1["admins"] = data.of["users"]
          /\ x7 = FALSE => data.of["users"] >= x6
          /\ x7 = FALSE => data.of["users"] = x6
      BY <2>3, <2>4
    <3>3. M!Answer(data)
      BY <2>1
    <3> HIDE DEF data
    <3>4. /\ x5' = data /\ x6' \in Nat /\ x6' <= Everybody /\ Everybody' = Everybody
          /\ x7 = FALSE => x6' = data.of["users"]
      BY <3>1, <3>2, <3>3, <2>1, AnswerCounts
    <3>5. Counted(x5)'
      BY <3>1, <3>2, <3>4, <2>1 DEF Counted
    <3> QED BY <3>2, <3>4, <3>5 DEF data
  <2>6. \A r : (x7 = TRUE \/ x6' = x6) /\ Counted(r) => Counted(r)'
    BY <2>1, <2>5 DEF Counted
  <2>7. Counted(x3.data)'
    BY <2>1, <2>2, <2>5, <1>inv DEF Counted
  <2>8. x7 = FALSE => \A a \in Actors : x4[a] = None
    BY <1>alone, <2>1, <1>inv
  <2>9. ASSUME NEW a \in Actors, x4[a] # None PROVE Counting(x4[a])'
    <3>1. x7 = TRUE /\ Counting(x4[a])
      BY <2>8, <2>9, <1>inv
    <3>2. \A c \in M!Counts : M!Count(c)' = M!Count(c)
      BY <2>1 DEF M!Count
    <3> QED BY <3>1, <3>2, <2>1, <2>5 DEF Counting
  <2> QED BY <1>inv, <1>alone, <2>1, <2>5, <2>7, <2>8, <2>9 DEF MetricsInv
<1>2. CASE M!Tick
  <2>1. /\ x2' = x2 + 1 /\ x1' = x1 /\ x3' = x3 /\ x4' = x4 /\ x5' = x5 /\ x6' = x6 /\ x7' = x7
    BY <1>2 DEF M!Tick
  <2>2. x7 = FALSE => \A a \in Actors : x4[a] # None => x3 = None \/ x3.expiresAt <= x2'
    BY <2>1, <1>inv, <1>alone
  <2>3. /\ Everybody' = Everybody /\ (x3 # None => Counted(x3.data)') /\ (x5 # None => Counted(x5)')
        /\ \A a \in Actors : x4[a] # None => Counting(x4[a])'
    BY <2>1, <1>inv, <1>same DEF Counted, Counting
  <2> QED BY <1>inv, <1>alone, <2>1, <2>2, <2>3 DEF MetricsInv
<1>3. ASSUME NEW role \in M!Open, M!Register(role) PROVE MetricsInv'
  <2>1. /\ x1' = [x1 EXCEPT ![role] = @ + 1] /\ x2' = x2 /\ x3' = x3 /\ x5' = x5 /\ x6' = x6 /\ x7' = x7
        /\ x4' = [a \in Actors |-> IF x4[a] # None THEN [x4[a] EXCEPT !.torn = TRUE] ELSE None]
    BY <1>3 DEF M!Register, M!Computing
  <2>2. x1' \in [M!Roles -> Nat] /\ Everybody' = Everybody + 1 /\ x1'["admins"] = x1["admins"]
    BY <2>1, <1>inv, CountsAre DEF Everybody
  <2>3. \A r : Counted(r) => Counted(r)'
    BY <2>1, <2>2, <1>inv DEF Counted
  <2>4. ASSUME NEW a \in Actors, x4[a] # None PROVE Counting(x4[a])'
    <3>1. Counting(x4[a]) /\ x4[a] \in Tallies
      BY <2>4, <1>inv DEF Counting
    <3>2. x4'[a] \in Tallies /\ x4'[a].of = x4[a].of /\ x4'[a].torn = TRUE
      BY <2>1, <2>4, <3>1, CountTorn
    <3>3. x4[a].of["users"] # None =>
            x4[a].of["users"] <= Everybody /\ (x7 = FALSE => x4[a].of["users"] >= x6)
      BY <3>1 DEF Counting
    <3>4. x4[a].of["users"] # None => x4[a].of["users"] \in Nat
      BY <3>1, CountsAre DEF Tallies
    <3>5. x4'[a].of["users"] # None =>
            x4'[a].of["users"] <= Everybody' /\ (x7' = FALSE => x4'[a].of["users"] >= x6')
      BY <2>1, <2>2, <3>2, <3>3, <3>4, <1>inv
    <3> QED BY <3>2, <3>5 DEF Counting
  <2>5. DOMAIN x4' = Actors /\ \A a \in Actors : x4'[a] # None => x4[a] # None
    BY <2>1
  <2>6. \A a \in Actors : x4'[a] # None => Counting(x4[a])'
    BY <2>4, <2>5
  <2>7. x6' <= Everybody'
    BY <2>1, <2>2, <1>inv
  <2>8. x7' = FALSE =>
        /\ \A a, b \in Actors : x4'[a] # None /\ x4'[b] # None => a = b
        /\ \A a \in Actors : x4'[a] # None => x3' = None \/ x3'.expiresAt <= x2'
    BY <2>1, <2>5, <1>alone
  <2>9. /\ x3' # None => x3'.expiresAt \in Nat /\ Counted(x3.data)'
        /\ x5' # None => Counted(x5)'
    BY <2>1, <2>3, <1>inv DEF Counted
  <2> QED BY <1>inv, <2>1, <2>2, <2>5, <2>6, <2>7, <2>8, <2>9 DEF MetricsInv
<1>4. ASSUME NEW a \in Actors, M!Compute(a) PROVE MetricsInv'
  <2>1. /\ x4[a] = None /\ ~(x3 # None /\ x3.expiresAt > x2)
        /\ x4' = [x4 EXCEPT ![a] = M!Uncounted]
        /\ x1' = x1 /\ x2' = x2 /\ x3' = x3 /\ x5' = x5 /\ x6' = x6
    BY <1>4 DEF M!Compute, M!Computing, M!Cached
  <2>2. x7' = (x7 \/ \E b \in Actors : x4[b] # None)
    BY <1>4 DEF M!Compute, M!Computing
  <2>3. x7' \in BOOLEAN /\ (x7' = FALSE => x7 = FALSE /\ \A b \in Actors : x4[b] = None)
    BY <2>2, <1>inv
  <2>4. /\ M!Uncounted \in Tallies /\ \A c \in M!Counts : M!Uncounted.of[c] = None
    BY DEF M!Uncounted, Tallies
  <2>5. Everybody' = Everybody /\ \A c \in M!Counts : M!Count(c)' = M!Count(c)
    BY <2>1 DEF Everybody, M!Count
  <2>6. DOMAIN x4' = Actors /\ x4'[a] = M!Uncounted /\ \A b \in Actors : b # a => x4'[b] = x4[b]
    BY <2>1, <1>inv
  <2>7. \A b \in Actors : x4'[b] # None => Counting(x4[b])'
    <3> SUFFICES ASSUME NEW b \in Actors, x4'[b] # None PROVE Counting(x4[b])'
      OBVIOUS
    <3>1. CASE b = a
      BY <3>1, <2>4, <2>6, CountsAre DEF Counting
    <3>2. CASE b # a
      <4>1. x4'[b] = x4[b] /\ Counting(x4[b])
        BY <3>2, <2>6, <1>inv
      <4> QED BY <4>1, <2>1, <2>3, <2>5 DEF Counting
    <3> QED BY <3>1, <3>2
  <2>8. /\ x3' # None => x3'.expiresAt \in Nat /\ Counted(x3.data)'
        /\ x5' # None => Counted(x5)'
    BY <2>1, <2>3, <2>5, <1>inv DEF Counted
  <2>9. x7' = FALSE =>
        /\ \A b, c \in Actors : x4'[b] # None /\ x4'[c] # None => b = c
        /\ \A b \in Actors : x4'[b] # None => x3' = None \/ x3'.expiresAt <= x2'
    BY <2>1, <2>3, <2>6, <1>inv
  <2> QED BY <1>inv, <2>1, <2>3, <2>5, <2>6, <2>7, <2>8, <2>9 DEF MetricsInv
<1>5. ASSUME NEW a \in Actors, M!Fail(a) PROVE MetricsInv'
  <2>1. /\ x4' = [x4 EXCEPT ![a] = None]
        /\ x1' = x1 /\ x2' = x2 /\ x3' = x3 /\ x5' = x5 /\ x6' = x6 /\ x7' = x7
    BY <1>5 DEF M!Fail
  <2>2. DOMAIN x4' = Actors /\ \A b \in Actors : x4'[b] # None => x4'[b] = x4[b] /\ x4[b] # None
    BY <2>1, <1>inv
  <2>3. Everybody' = Everybody /\ \A c \in M!Counts : M!Count(c)' = M!Count(c)
    BY <2>1 DEF Everybody, M!Count
  <2>4. \A b \in Actors : x4'[b] # None => Counting(x4[b])'
    BY <2>1, <2>2, <2>3, <1>inv DEF Counting
  <2>5. /\ x3' # None => x3'.expiresAt \in Nat /\ Counted(x3.data)'
        /\ x5' # None => Counted(x5)'
    BY <2>1, <2>3, <1>inv DEF Counted
  <2>6. x7' = FALSE =>
        /\ \A b, c \in Actors : x4'[b] # None /\ x4'[c] # None => b = c
        /\ \A b \in Actors : x4'[b] # None => x3' = None \/ x3'.expiresAt <= x2'
    BY <2>1, <2>2, <1>alone
  <2> QED BY <1>inv, <2>1, <2>2, <2>3, <2>4, <2>5, <2>6 DEF MetricsInv
<1>6. ASSUME NEW a \in Actors, M!Keep(a) PROVE MetricsInv'
  <2> DEFINE data == x4[a]
  <2>1. /\ data # None /\ \A c \in M!Counts : data.of[c] # None
        /\ x3' = [data |-> data, expiresAt |-> x2 + TTL] /\ M!Answer(data)
        /\ x4' = [x4 EXCEPT ![a] = None]
        /\ x1' = x1 /\ x2' = x2 /\ x7' = x7
    BY <1>6 DEF M!Keep, M!Computing
  <2>2. Counting(data)
    BY <2>1, <1>inv
  <2>3. /\ (data.torn = TRUE \/ data.torn = FALSE) /\ data.of["users"] \in Nat /\ data.of["users"] <= Everybody
        /\ x7 = FALSE => data.of["users"] >= x6
    BY <2>1, <2>2, CountsAre DEF Counting, Tallies
  <2>4. data.torn = FALSE => data.of["guides"] + data.of["travelers"] + x1["admins"] = data.of["users"]
    <3> SUFFICES ASSUME data.torn = FALSE
                 PROVE  data.of["guides"] + data.of["travelers"] + x1["admins"] = data.of["users"]
      OBVIOUS
    <3>1. \A c \in M!Counts : data.of[c] = M!Count(c)
      BY <2>1, <2>2 DEF Counting
    <3>2. /\ data.of["guides"] = M!Count("guides") /\ data.of["travelers"] = M!Count("travelers")
          /\ data.of["users"] = M!Count("users")
      BY <3>1, CountsAre
    <3> HIDE DEF data
    <3> QED BY <3>2, CountsAre DEF Everybody
  <2>5. DOMAIN x4' = Actors /\ x4'[a] = None /\ \A b \in Actors : b # a => x4'[b] = x4[b]
    BY <2>1, <1>inv
  <2>6. x7 = FALSE => \A b \in Actors : x4'[b] = None
    BY <2>1, <2>5, <1>alone
  <2>7. /\ x5' = data /\ x6' \in Nat /\ x6' <= Everybody /\ Everybody' = Everybody
        /\ x7 = FALSE => x6' = data.of["users"]
    <3> HIDE DEF data
    <3> QED BY <2>1, <2>3, <2>4, AnswerCounts
  <2>8. x3'.expiresAt \in Nat /\ x3'.data = data
    BY <2>1, <1>inv, NumbersAssumption
  <2>9. Counted(x3.data)' /\ Counted(x5)'
    <3> HIDE DEF data
    <3> QED BY <2>1, <2>3, <2>4, <2>7, <2>8 DEF Counted
  <2>10. \A b \in Actors : x4'[b] # None => Counting(x4[b])'
    <3> SUFFICES ASSUME NEW b \in Actors, x4'[b] # None PROVE Counting(x4[b])'
      OBVIOUS
    <3>1. x4'[b] = x4[b] /\ Counting(x4[b]) /\ x7 = TRUE
      BY <2>5, <2>6, <1>inv
    <3>2. \A c \in M!Counts : M!Count(c)' = M!Count(c)
      BY <2>1 DEF M!Count
    <3> QED BY <3>1, <3>2, <2>1, <2>7 DEF Counting
  <2>11. x7' = FALSE =>
        /\ \A b, c \in Actors : x4'[b] # None /\ x4'[c] # None => b = c
        /\ \A b \in Actors : x4'[b] # None => x3' = None \/ x3'.expiresAt <= x2'
    BY <2>1, <2>6
  <2> QED BY <1>inv, <2>1, <2>5, <2>7, <2>8, <2>9, <2>10, <2>11 DEF MetricsInv
<1>7. ASSUME NEW a \in Actors, NEW c \in M!Counts, M!CountOne(a, c) PROVE MetricsInv'
  <2> DEFINE q == [x4[a] EXCEPT !.of[c] = M!Count(c)]
  <2>1. /\ x4[a] # None
        /\ x4' = [x4 EXCEPT ![a].of[c] = M!Count(c)]
        /\ x1' = x1 /\ x2' = x2 /\ x3' = x3 /\ x5' = x5 /\ x6' = x6 /\ x7' = x7
    BY <1>7 DEF M!CountOne, M!Computing
  <2>2. Counting(x4[a]) /\ x4[a] \in Tallies
    BY <2>1, <1>inv DEF Counting
  <2>3. M!Count(c) \in Nat
    BY <1>inv, CountsAre DEF Everybody
  <2>4. /\ q \in Tallies /\ q.torn = x4[a].torn
        /\ \A d \in M!Counts : q.of[d] = IF d = c THEN M!Count(c) ELSE x4[a].of[d]
    <3> DEFINE r == x4[a]
               n == M!Count(c)
    <3>1. r \in Tallies /\ n \in Nat
      BY <2>2, <2>3
    <3> HIDE DEF r, n
    <3>2. /\ [r EXCEPT !.of[c] = n] \in Tallies
          /\ [r EXCEPT !.of[c] = n].torn = r.torn
          /\ \A d \in M!Counts : [r EXCEPT !.of[c] = n].of[d] = IF d = c THEN n ELSE r.of[d]
      BY <3>1, CountAdded
    <3> QED BY <3>2 DEF r, n
  <2>5. DOMAIN x4' = Actors /\ x4'[a] = q /\ \A b \in Actors : b # a => x4'[b] = x4[b]
    <3> HIDE DEF MetricsInv
    <3> QED BY <2>1, <1>inv, Zenon
  <2> HIDE DEF q
  <2>6. /\ Everybody' = Everybody /\ (\A d \in M!Counts : M!Count(d)' = M!Count(d))
    BY <2>1 DEF Everybody, M!Count
  <2>7. Counting(q)
    <3>1. q.torn = FALSE => \A d \in M!Counts : q.of[d] # None => q.of[d] = M!Count(d)
      BY <2>2, <2>4 DEF Counting
    <3>2. q.of["users"] # None =>
            q.of["users"] <= Everybody /\ (x7 = FALSE => q.of["users"] >= x6)
      <4>1. CASE c = "users"
        <5>1. q.of["users"] = Everybody
          BY <2>4, <4>1, CountsAre
        <5> QED BY <5>1, <1>inv
      <4>2. CASE c # "users"
        <5>1. q.of["users"] = x4[a].of["users"]
          BY <2>4, <4>2, CountsAre
        <5> QED BY <5>1, <2>2 DEF Counting
      <4> QED BY <4>1, <4>2
    <3> QED BY <2>4, <3>1, <3>2 DEF Counting
  <2>9. \A b \in Actors : x4'[b] # None => Counting(x4[b])'
    <3> SUFFICES ASSUME NEW b \in Actors, x4'[b] # None PROVE Counting(x4[b])'
      OBVIOUS
    <3>1. CASE b = a
      BY <3>1, <2>1, <2>5, <2>6, <2>7 DEF Counting
    <3>2. CASE b # a
      <4>1. x4'[b] = x4[b] /\ Counting(x4[b])
        BY <3>2, <2>5, <1>inv
      <4> QED BY <4>1, <2>1, <2>6 DEF Counting
    <3> QED BY <3>1, <3>2
  <2>10. /\ x3' # None => x3'.expiresAt \in Nat /\ Counted(x3.data)'
         /\ x5' # None => Counted(x5)'
    BY <2>1, <2>6, <1>inv DEF Counted
  <2>11. \A b \in Actors : x4'[b] # None => x4[b] # None
    BY <2>1, <2>5
  <2>12. x7' = FALSE =>
        /\ \A b, d \in Actors : x4'[b] # None /\ x4'[d] # None => b = d
        /\ \A b \in Actors : x4'[b] # None => x3' = None \/ x3'.expiresAt <= x2'
    BY <2>1, <2>11, <1>alone
  <2>13. /\ x1' \in [M!Roles -> Nat] /\ x2' \in Nat /\ x6' \in Nat /\ x7' \in BOOLEAN
         /\ x6' <= Everybody'
    BY <1>inv, <2>1, <2>6
  <2>14. DOMAIN x4' = Actors
    BY <2>5
  <2> QED BY <2>9, <2>10, <2>12, <2>13, <2>14 DEF MetricsInv
<1> QED BY <1>1, <1>2, <1>3, <1>4, <1>5, <1>6, <1>7 DEF M!Next

LEMMA MetricsAgree == MetricsInv => M!MetricsAddUp
<1> SUFFICES ASSUME MetricsInv, x5 # None
             PROVE  /\ ~x5.torn => x5.of["guides"] + x5.of["travelers"] + x1["admins"] = x5.of["users"]
                    /\ ~x7 => x5.of["users"] = x6
  BY DEF M!MetricsAddUp
<1>1. Counted(x5) /\ x7 \in BOOLEAN
  BY DEF MetricsInv
<1> QED BY <1>1, Zenon DEF Counted

-----------------------------------------------------------------------------
(* The buttons of the search page.                                         *)

\* One sequence after another, of integers.
LEMMA Joined ==
  ASSUME NEW s \in Seq(Int), NEW t \in Seq(Int)
  PROVE  /\ s \o t \in Seq(Int) /\ Len(s \o t) = Len(s) + Len(t)
         /\ Len(s) \in Nat /\ Len(t) \in Nat
         /\ \A i \in 1..Len(s) : (s \o t)[i] = s[i]
         /\ \A i \in 1..Len(t) : (s \o t)[Len(s) + i] = t[i]
<1>1. Len(s) \in Nat /\ Len(t) \in Nat
  OBVIOUS
<1>2. /\ s \o t \in Seq(Int) /\ Len(s \o t) = Len(s) + Len(t)
      /\ \A i \in 1..Len(s) + Len(t) : (s \o t)[i] = IF i <= Len(s) THEN s[i] ELSE t[i - Len(s)]
  BY ConcatProperties
<1>3. \A i \in 1..Len(t) : (s \o t)[Len(s) + i] = t[i]
  <2> SUFFICES ASSUME NEW i \in 1..Len(t) PROVE (s \o t)[Len(s) + i] = t[i]
    OBVIOUS
  <2> DEFINE j == Len(s) + i
  <2>1. j \in 1..Len(s) + Len(t) /\ ~(j <= Len(s)) /\ j - Len(s) = i
    BY <1>1
  <2> HIDE DEF j
  <2>2. (s \o t)[j] = t[j - Len(s)]
    BY <1>2, <2>1
  <2> QED BY <2>1, <2>2 DEF j
<1>4. \A i \in 1..Len(s) : (s \o t)[i] = s[i]
  BY <1>1, <1>2
<1> QED BY <1>1, <1>2, <1>3, <1>4

\* One more at the end.
LEMMA Ended ==
  ASSUME NEW c \in Seq(Int), NEW n \in Int
  PROVE  /\ Len(c) \in Nat /\ Len(c \o <<n>>) = Len(c) + 1 /\ DOMAIN (c \o <<n>>) = 1..(Len(c) + 1)
         /\ \A i \in 1..Len(c) : (c \o <<n>>)[i] = c[i]
         /\ (c \o <<n>>)[Len(c) + 1] = n
<1> DEFINE q == <<n>>
<1>1. q \in Seq(Int) /\ Len(q) = 1 /\ q[1] = n
  OBVIOUS
<1> HIDE DEF q
<1>2. /\ c \o q \in Seq(Int) /\ Len(c \o q) = Len(c) + Len(q) /\ Len(c) \in Nat
      /\ \A i \in 1..Len(c) : (c \o q)[i] = c[i]
      /\ \A i \in 1..Len(q) : (c \o q)[Len(c) + i] = q[i]
  BY <1>1, Joined
<1>3. 1 \in 1..Len(q)
  BY <1>1
<1>4. Len(c \o q) = Len(c) + 1 /\ (c \o q)[Len(c) + 1] = n
  BY <1>1, <1>2, <1>3
<1>5. DOMAIN (c \o q) = 1..(Len(c) + 1)
  BY <1>2, <1>4
<1> QED BY <1>2, <1>4, <1>5 DEF q

\* What the buttons of a page of several promise.
Spans(r, n, p) ==
  /\ r[1] = 1 /\ r[Len(r)] = n
  /\ \E i \in DOMAIN r : r[i] = p
  /\ \A i \in 1..(Len(r) - 1) :
       /\ r[i] # 0 /\ r[i + 1] # 0 => r[i + 1] = r[i] + 1
       /\ r[i + 1] = 0 => i + 2 <= Len(r) /\ r[i + 2] > r[i] + 1

\* A row of buttons: the first page, the pages around the current one, the last
\* page, with dots where pages are left out.
Laid(r, n, p, left, right, k, m, e) ==
  /\ n \in Nat /\ p \in 1..n /\ left \in Nat /\ right \in Nat /\ m \in Nat
  /\ left >= 2 /\ (left <= p \/ p = 1) /\ right <= n - 1 /\ (p <= right \/ p = n) /\ left <= right
  /\ k \in {0, 1} /\ (k = 1 <=> left > 2)
  /\ e \in {0, 1} /\ (e = 1 <=> right < n - 1)
  /\ m = right - left + 1
  /\ Len(r) = 2 + k + m + e /\ DOMAIN r = 1..(2 + k + m + e)
  /\ r[1] = 1 /\ (k = 1 => r[2] = 0)
  /\ \A i \in 1..m : r[1 + k + i] = left + i - 1
  /\ e = 1 => r[2 + k + m] = 0
  /\ r[2 + k + m + e] = n

LEMMA SpreadSpans ==
  ASSUME NEW r, NEW n, NEW p, NEW left, NEW right, NEW k, NEW m, NEW e,
         Laid(r, n, p, left, right, k, m, e)
  PROVE  Spans(r, n, p)
<1>0. /\ n \in Nat /\ p \in 1..n /\ left \in Nat /\ right \in Nat
      /\ left >= 2 /\ (left <= p \/ p = 1) /\ right <= n - 1 /\ (p <= right \/ p = n) /\ left <= right
  BY DEF Laid
<1>1. k \in {0, 1} /\ (k = 1 <=> left > 2) /\ e \in {0, 1} /\ (e = 1 <=> right < n - 1)
  BY DEF Laid
<1>6. /\ Len(r) = 2 + k + m + e /\ DOMAIN r = 1..(2 + k + m + e)
      /\ r[1] = 1 /\ (k = 1 => r[2] = 0)
      /\ \A i \in 1..m : r[1 + k + i] = left + i - 1
      /\ e = 1 => r[2 + k + m] = 0
      /\ r[2 + k + m + e] = n
  BY DEF Laid
<1>7. m = right - left + 1 /\ m \in Nat /\ m >= 1
  BY <1>0 DEF Laid
<1>8. \A i \in (2 + k)..(1 + k + m) : r[i] = left + i - 2 - k
  <2> SUFFICES ASSUME NEW i \in (2 + k)..(1 + k + m) PROVE r[i] = left + i - 2 - k
    OBVIOUS
  <2> DEFINE j == i - 1 - k
  <2>1. j \in 1..m /\ 1 + k + j = i /\ left + j - 1 = left + i - 2 - k
    BY <1>0, <1>1, <1>7
  <2> HIDE DEF j
  <2>2. r[1 + k + j] = left + j - 1
    BY <1>6, <2>1
  <2> QED BY <2>1, <2>2
<1>9. \E i \in DOMAIN r : r[i] = p
  <2>1. CASE p = 1
    BY <1>0, <1>1, <1>6, <1>7, <2>1
  <2>2. CASE p = n
    BY <1>0, <1>1, <1>6, <1>7, <2>2
  <2>3. CASE left <= p /\ p <= right
    <3> DEFINE i == p - left + 2 + k
    <3>1. i \in (2 + k)..(1 + k + m) /\ i \in 1..(2 + k + m + e) /\ left + i - 2 - k = p
      BY <1>0, <1>1, <1>7, <2>3
    <3> HIDE DEF i
    <3> QED BY <1>6, <1>8, <3>1
  <2> QED BY <1>0, <2>1, <2>2, <2>3
<1>10. ASSUME NEW i \in 1..(Len(r) - 1)
       PROVE  /\ r[i] # 0 /\ r[i + 1] # 0 => r[i + 1] = r[i] + 1
              /\ r[i + 1] = 0 => i + 2 <= Len(r) /\ r[i + 2] > r[i] + 1
  <2>1. i \in 1..(1 + k + m + e)
    BY <1>0, <1>1, <1>6, <1>7
  <2>2. CASE i = 1
    <3>1. CASE k = 0
      <4>1. r[1] = 1 /\ r[2] = left /\ left = 2
        BY <1>0, <1>1, <1>6, <1>7, <1>8, <3>1
      <4> QED BY <2>2, <4>1
    <3>2. CASE k = 1
      <4>1. r[1] = 1 /\ r[2] = 0 /\ r[3] = left /\ left > 2 /\ 3 <= Len(r)
        BY <1>0, <1>1, <1>6, <1>7, <1>8, <3>2
      <4> QED BY <2>2, <4>1
    <3> QED BY <1>0, <1>1, <3>1, <3>2
  <2>3. CASE k = 1 /\ i = 2
    <3>1. r[2] = 0 /\ r[3] = left
      BY <1>0, <1>1, <1>6, <1>7, <1>8, <2>3
    <3> QED BY <1>0, <2>3, <3>1
  <2>4. CASE i >= 2 + k /\ i <= k + m
    <3>1. r[i] = left + i - 2 - k /\ r[i + 1] = left + i - 1 - k
      BY <1>0, <1>1, <1>7, <1>8, <2>4, <2>1
    <3>2. r[i + 1] = r[i] + 1 /\ r[i + 1] # 0
      BY <1>0, <1>1, <2>1, <2>4, <3>1
    <3> QED BY <3>2
  <2>5. CASE i = 1 + k + m
    <3>1. r[i] = right
      BY <1>0, <1>1, <1>7, <1>8, <2>5
    <3>2. CASE e = 0
      <4>1. r[i + 1] = n /\ right = n - 1
        BY <1>0, <1>1, <1>6, <1>7, <2>5, <3>2
      <4> QED BY <1>0, <3>1, <4>1
    <3>3. CASE e = 1
      <4>1. r[i + 1] = 0 /\ r[i + 2] = n /\ right < n - 1 /\ i + 2 <= Len(r)
        BY <1>0, <1>1, <1>6, <1>7, <2>5, <3>3
      <4> QED BY <1>0, <3>1, <4>1
    <3> QED BY <1>0, <1>1, <3>2, <3>3
  <2>6. CASE e = 1 /\ i = 2 + k + m
    <3>1. r[i] = 0 /\ r[i + 1] = n
      BY <1>0, <1>1, <1>6, <1>7, <2>6
    <3> QED BY <1>0, <3>1
  <2> QED BY <1>0, <1>1, <1>7, <2>1, <2>2, <2>3, <2>4, <2>5, <2>6
<1>11. r[Len(r)] = n
  BY <1>6
<1> QED BY <1>6, <1>9, <1>10, <1>11 DEF Spans

\* The pages between two, with or without dots before and after them, between the
\* first and the last.
LEMMA Spread ==
  ASSUME NEW n \in Nat, NEW left \in Nat, NEW right \in Nat, NEW p \in Nat,
         left >= 2, left <= p \/ p = 1, right <= n - 1, p <= right \/ p = n, p >= 1, p <= n,
         left <= right,
         NEW s, s = IF left > 2 THEN << 0 >> ELSE <<>>,
         NEW t, t = IF right < n - 1 THEN << 0 >> ELSE <<>>,
         NEW r, r = << 1 >> \o s \o F!Pages(left, right) \o t \o <<n>>
  PROVE  Spans(r, n, p)
<1> DEFINE a == << 1 >> \o s
           m == right - left + 1
           b == a \o F!Pages(left, right)
           c == b \o t
           k == Len(s)
           e == Len(t)
<1>0. s \in Seq(Int) /\ t \in Seq(Int)
  <2>1. <<>> \in Seq(Int) /\ << 0 >> \in Seq(Int)
    OBVIOUS
  <2> QED BY <2>1
<1>n. << 1 >> \in Seq(Int) /\ <<n>> \in Seq(Int) /\ Len(<< 1 >>) = 1 /\ Len(<<n>>) = 1 /\ <<n>>[1] = n /\ << 1 >>[1] = 1
  OBVIOUS
<1>1. /\ k \in {0, 1} /\ (k = 1 <=> left > 2)
      /\ e \in {0, 1} /\ (e = 1 <=> right < n - 1)
  <2>1. Len(<<>>) = 0 /\ Len(<< 0 >>) = 1
    OBVIOUS
  <2> QED BY <2>1
<1>z. (k = 1 => s[1] = 0) /\ (e = 1 => t[1] = 0)
  <2>1. << 0 >>[1] = 0
    OBVIOUS
  <2> QED BY <1>1, <2>1
<1>2. /\ F!Pages(left, right) \in Seq(Int) /\ Len(F!Pages(left, right)) = m /\ m \in Nat
      /\ \A i \in 1..m : F!Pages(left, right)[i] = left + i - 1
  <2>1. m \in Nat /\ \A i \in 1..m : left + i - 1 \in Int
    OBVIOUS
  <2>2. F!Pages(left, right) = [i \in 1..m |-> left + i - 1]
    BY DEF F!Pages
  <2> HIDE DEF m
  <2>3. F!Pages(left, right) \in [1..m -> Int]
    BY <2>1, <2>2
  <2>4. Len(F!Pages(left, right)) = m /\ F!Pages(left, right) \in Seq(Int)
    BY <2>1, <2>3
  <2> QED BY <2>1, <2>2, <2>4
<1>3. /\ a \in Seq(Int) /\ Len(a) = 1 + k /\ a[1] = 1 /\ (k = 1 => a[2] = 0)
  <2>1. /\ a \in Seq(Int) /\ Len(a) = 1 + k /\ a[1] = << 1 >>[1]
        /\ \A i \in 1..k : a[1 + i] = s[i]
    <3>1. /\ << 1 >> \o s \in Seq(Int) /\ Len(<< 1 >> \o s) = Len(<< 1 >>) + Len(s)
          /\ \A i \in 1..Len(<< 1 >>) : (<< 1 >> \o s)[i] = << 1 >>[i]
          /\ \A i \in 1..Len(s) : (<< 1 >> \o s)[Len(<< 1 >>) + i] = s[i]
      BY <1>0, <1>n, Joined
    <3> QED BY <1>n, <3>1
  <2>2. k = 1 => a[1 + 1] = s[1]
    BY <2>1
  <2> QED BY <1>z, <1>n, <2>1, <2>2
<1> HIDE DEF a, m, k, e
<1>4. /\ b \in Seq(Int) /\ Len(b) = 1 + k + m /\ b[1] = 1 /\ (k = 1 => b[2] = 0)
      /\ \A i \in 1..m : b[1 + k + i] = left + i - 1
  <2>1. /\ b \in Seq(Int) /\ Len(b) = Len(a) + Len(F!Pages(left, right))
        /\ \A i \in 1..Len(a) : b[i] = a[i]
        /\ \A i \in 1..Len(F!Pages(left, right)) : b[Len(a) + i] = F!Pages(left, right)[i]
    BY <1>2, <1>3, Joined
  <2>2. 1 \in 1..Len(a) /\ (k = 1 => 2 \in 1..Len(a))
    BY <1>1, <1>3
  <2> HIDE DEF b
  <2> QED BY <1>1, <1>2, <1>3, <2>1, <2>2
<1> HIDE DEF b
<1>5. /\ c \in Seq(Int) /\ Len(c) = 1 + k + m + e /\ c[1] = 1 /\ (k = 1 => c[2] = 0)
      /\ \A i \in 1..m : c[1 + k + i] = left + i - 1
      /\ e = 1 => c[2 + k + m] = 0
  <2>1. /\ c \in Seq(Int) /\ Len(c) = Len(b) + Len(t)
        /\ \A i \in 1..Len(b) : c[i] = b[i]
        /\ \A i \in 1..Len(t) : c[Len(b) + i] = t[i]
    BY <1>0, <1>4, Joined
  <2> HIDE DEF c
  <2>2. 1 \in 1..Len(b) /\ (k = 1 => 2 \in 1..Len(b)) /\ \A i \in 1..m : 1 + k + i \in 1..Len(b)
    BY <1>1, <1>2, <1>4
  <2>3. e = 1 => c[Len(b) + 1] = t[1]
    BY <2>1 DEF e
  <2>4. c[1] = 1 /\ (k = 1 => c[2] = 0) /\ \A i \in 1..m : c[1 + k + i] = left + i - 1
    BY <1>4, <2>1, <2>2
  <2>5. Len(b) + 1 = 2 + k + m
    BY <1>1, <1>2, <1>4
  <2>6. e = 1 => c[2 + k + m] = 0
    BY <1>z, <2>3, <2>5
  <2> QED BY <1>4, <2>1, <2>4, <2>6 DEF e
<1> HIDE DEF c
<1>6. /\ Len(r) = 2 + k + m + e /\ DOMAIN r = 1..(2 + k + m + e)
      /\ r[1] = 1 /\ (k = 1 => r[2] = 0)
      /\ \A i \in 1..m : r[1 + k + i] = left + i - 1
      /\ e = 1 => r[2 + k + m] = 0
      /\ r[2 + k + m + e] = n
  <2>1. r = c \o <<n>>
    BY DEF a, b, c
  <2> DEFINE q == c \o <<n>>
  <2>2. /\ Len(c) \in Nat /\ Len(q) = Len(c) + 1 /\ DOMAIN q = 1..(Len(c) + 1)
        /\ \A i \in 1..Len(c) : q[i] = c[i]
        /\ q[Len(c) + 1] = n
    BY <1>5, Ended
  <2> HIDE DEF q
  <2>3. 1 \in 1..Len(c) /\ (k = 1 => 2 \in 1..Len(c)) /\ (\A i \in 1..m : 1 + k + i \in 1..Len(c))
        /\ (e = 1 => 2 + k + m \in 1..Len(c)) /\ Len(c) + 1 = 2 + k + m + e
    BY <1>1, <1>2, <1>5
  <2>4. q[1] = 1 /\ (k = 1 => q[2] = 0) /\ (e = 1 => q[2 + k + m] = 0)
    BY <1>5, <2>2, <2>3
  <2>5. \A i \in 1..m : q[1 + k + i] = left + i - 1
    BY <1>5, <2>2, <2>3
  <2>6. /\ Len(q) = 2 + k + m + e /\ DOMAIN q = 1..(2 + k + m + e)
        /\ q[1] = 1 /\ (k = 1 => q[2] = 0)
        /\ \A i \in 1..m : q[1 + k + i] = left + i - 1
        /\ e = 1 => q[2 + k + m] = 0
        /\ q[2 + k + m + e] = n
    BY <2>2, <2>3, <2>4, <2>5, Zenon
  <2> QED BY <2>1, <2>6, Zenon DEF q
<1>7. m = right - left + 1
  BY DEF m
<1>8. m \in Nat
  BY <1>2
<1>9. Laid(r, n, p, left, right, k, m, e)
  <2>1. p \in 1..n
    OBVIOUS
  <2> QED BY <1>1, <1>6, <1>7, <1>8, <2>1, Zenon DEF Laid
<1> QED BY <1>9, SpreadSpans

\* Whatever the total and the page.
LEMMA ButtonsSpan ==
  ASSUME NEW n \in Nat, NEW p \in Nat, n > 0, p >= 1, p <= n,
         NEW r, r = F!PaginationRange(p, n)
  PROVE  Spans(r, n, p)
<1>1. CASE n <= 7
  <2>1. r = [i \in 1..n |-> i]
    <3>1. n - 1 + 1 = n /\ \A i \in 1..n : 1 + i - 1 = i
      OBVIOUS
    <3>2. r = [i \in 1..(n - 1 + 1) |-> 1 + i - 1]
      BY <1>1 DEF F!PaginationRange, F!MAX_PAGE_BUTTONS, F!Pages
    <3> QED BY <3>1, <3>2
  <2>2. Len(r) = n /\ DOMAIN r = 1..n /\ \A i \in 1..n : r[i] = i
    BY <2>1
  <2>3. ASSUME NEW i \in 1..(Len(r) - 1)
        PROVE  r[i] = i /\ r[i + 1] = i + 1 /\ r[i + 1] # 0
    <3>1. i \in 1..n /\ i + 1 \in 1..n
      BY <2>2
    <3> QED BY <2>2, <3>1
  <2>4. r[1] = 1 /\ r[Len(r)] = n /\ p \in DOMAIN r /\ r[p] = p
    BY <2>2
  <2> QED BY <2>2, <2>3, <2>4 DEF Spans
<1>2. CASE ~(n <= 7)
  <2> DEFINE left == F!Greater(2, p - 2)
             right == F!Lesser(n - 1, p + 2)
             s == IF left > 2 THEN << 0 >> ELSE <<>>
             t == IF right < n - 1 THEN << 0 >> ELSE <<>>
  <2>1. /\ left \in Nat /\ left >= 2 /\ (left <= p \/ p = 1)
        /\ right \in Nat /\ right <= n - 1 /\ (p <= right \/ p = n) /\ left <= right
    BY <1>2 DEF F!Greater, F!Lesser
  <2>2. r = << 1 >> \o s \o F!Pages(left, right) \o t \o <<n>>
    BY <1>2 DEF F!PaginationRange, F!MAX_PAGE_BUTTONS, F!Dots
  <2>3. s = (IF left > 2 THEN << 0 >> ELSE <<>>) /\ t = (IF right < n - 1 THEN << 0 >> ELSE <<>>)
    OBVIOUS
  <2> HIDE DEF left, right, s, t
  <2> QED BY <2>1, <2>2, <2>3, Spread
<1> QED BY <1>1, <1>2

LEMMA ButtonsReach ==
  ASSUME x3 \in Nat \ {0}, x4 \in Nat
  PROVE  F!ButtonsSpanPages
<1> SUFFICES ASSUME x4 > 0, x3 <= x4, NEW r, r = F!PaginationRange(x3, x4)
             PROVE  Spans(r, x4, x3)
  BY DEF F!ButtonsSpanPages, F!Dots, Spans
<1> QED BY ButtonsSpan

-----------------------------------------------------------------------------
(* The rate limit.                                                         *)

LimitRecord == [count : Nat, windowStart : Nat, violations : Nat, backoffUntil : Nat]
Arrivals    == [at : Nat, nth : Nat, ok : BOOLEAN]

\* Of some requests, those at a moment, those since, and those that passed since
\* a moment and before it.
At(s, t)     == {q \in s : q.at = t}
Came(s, t)   == {q \in s : q.at >= t}
Passed(s, t) == {q \in s : q.ok = TRUE /\ q.at >= t}
Before(s, t) == {q \in s : q.ok = TRUE /\ q.at < t}

\* What a record counts: all that passed in its window, and no more than came in
\* it; a back-off goes back to a request that came within the length of a window.
Counts(r) ==
  /\ r \in LimitRecord /\ r.windowStart <= x1
  /\ Cardinality(Passed(x4, r.windowStart)) <= r.count
  /\ Cardinality(Passed(x4, r.windowStart)) <= Q!limit
  /\ Cardinality(Before(x4, r.windowStart)) <= Q!limit
  /\ \A q \in x4 : q.ok = TRUE => q.at < r.windowStart + WINDOW
  /\ x1 - r.windowStart < WINDOW => r.count <= Cardinality(Came(x4, r.windowStart))
  /\ x1 < r.backoffUntil => x5 = TRUE /\ \E q \in x4 : q.at + WINDOW >= r.backoffUntil

LimitInv ==
  /\ x1 \in Nat /\ x1 >= 1 /\ x5 \in BOOLEAN
  /\ IsFiniteSet(x4) /\ x4 \subseteq Arrivals
  /\ \A q \in x4 : q.at <= x1 /\ q.nth < Cardinality(At(x4, q.at))
  /\ \A q \in x4 : q.ok = FALSE => x5 = TRUE
  /\ \A q \in x4 : x4 = {q} => q.ok = TRUE
  /\ x2 # "admin" => (x3 = None /\ x4 = {}) \/ (x3 # None /\ Counts(x3))

\* The operator that counts is one, whichever module names it.
LEMMA CountedAlike == \A s : Q!Cardinality(s) = Cardinality(s)
BY Zenon DEF Q!Cardinality, Cardinality

LEMMA PowerIs ==
  ASSUME NEW n \in Nat
  PROVE  2 ^ n \in Nat
<1>1. IsFiniteSet(1..n) /\ Cardinality(1..n) = n
  BY FS_Interval
<1>2. IsFiniteSet(SUBSET (1..n)) /\ Cardinality(SUBSET (1..n)) = 2 ^ n
  BY <1>1, FS_SUBSET
<1>3. Cardinality(SUBSET (1..n)) \in Nat
  BY <1>2, FS_CardinalityType
<1> QED BY <1>2, <1>3

LEMMA LimitIs ==
  /\ Q!limit \in Nat /\ Q!limit >= 1
  /\ WINDOW \in Nat /\ WINDOW >= 1 /\ MAX_BACKOFF \in Nat /\ MAX_BACKOFF <= WINDOW
BY LimitAssumption DEF Q!limit

LEMMA RecordIs ==
  ASSUME NEW count \in Nat, NEW start \in Nat, NEW violations \in Nat, NEW until \in Nat
  PROVE  [count |-> count, windowStart |-> start, violations |-> violations, backoffUntil |-> until] \in LimitRecord
BY DEF LimitRecord

\* What is left of the requests, and the new one.
LEMMA EntryIsNew ==
  ASSUME LimitInv, NEW ok \in BOOLEAN
  PROVE  /\ IsFiniteSet(Q!Kept) /\ Q!Kept \subseteq x4
         /\ Q!Kept = {q \in x4 : x1 - q.at < WINDOW}
         /\ Q!Entry(ok) \in Arrivals /\ Q!Entry(ok) \notin Q!Kept
         /\ Q!Entry(ok).at = x1 /\ Q!Entry(ok).ok = ok
         /\ Q!Entry(ok).nth = Cardinality(At(Q!Kept, x1))
         /\ IsFiniteSet(Q!Kept \cup {Q!Entry(ok)}) /\ Q!Kept \cup {Q!Entry(ok)} \subseteq Arrivals
<1>1. Q!Kept = {q \in x4 : x1 - q.at < WINDOW} /\ Q!Kept \subseteq x4
  BY DEF Q!Kept
<1>2. IsFiniteSet(Q!Kept)
  BY <1>1, FS_Subset DEF LimitInv
<1>3. At(Q!Kept, x1) \subseteq Q!Kept /\ IsFiniteSet(At(Q!Kept, x1))
  BY <1>2, FS_Subset DEF At
<1> DEFINE n == Cardinality(At(Q!Kept, x1))
<1>4. n \in Nat
  BY <1>3, FS_CardinalityType
<1>5. Q!Entry(ok) = [at |-> x1, nth |-> n, ok |-> ok]
  <2>1. {q \in Q!Kept : q.at = x1} = At(Q!Kept, x1)
    BY DEF At
  <2>2. Q!Entry(ok) = [at |-> x1, nth |-> Q!Cardinality({q \in Q!Kept : q.at = x1}), ok |-> ok]
    BY Zenon DEF Q!Entry
  <2> QED BY <2>1, <2>2, CountedAlike, Zenon
<1>6. At(Q!Kept, x1) = At(x4, x1)
  BY LimitIs, <1>1 DEF At, LimitInv
<1> HIDE DEF n
<1>7. Q!Entry(ok).at = x1 /\ Q!Entry(ok).ok = ok /\ Q!Entry(ok).nth = n
  BY <1>5
<1>8. Q!Entry(ok) \in Arrivals
  BY <1>4, <1>5 DEF Arrivals, LimitInv
<1>9. ASSUME Q!Entry(ok) \in Q!Kept PROVE FALSE
  <2>1. n < Cardinality(At(x4, x1))
    BY <1>1, <1>7, <1>9 DEF LimitInv
  <2> QED BY <1>4, <1>6, <2>1 DEF n
<1>10. IsFiniteSet(Q!Kept \cup {Q!Entry(ok)})
  BY <1>2, FS_AddElement
<1>11. Q!Kept \cup {Q!Entry(ok)} \subseteq Arrivals
  BY <1>1, <1>8 DEF LimitInv
<1> QED BY <1>1, <1>2, <1>7, <1>8, <1>9, <1>10, <1>11 DEF n

\* The parts of what a request leaves of the requests.
LEMMA Grown ==
  ASSUME NEW s, IsFiniteSet(s), NEW t \in SUBSET s, NEW e, e \notin t
  PROVE  /\ IsFiniteSet(t) /\ Cardinality(t) \in Nat /\ Cardinality(s) \in Nat
         /\ Cardinality(t) <= Cardinality(s)
         /\ Cardinality(t \cup {e}) = Cardinality(t) + 1
<1>1. IsFiniteSet(t) /\ Cardinality(t) <= Cardinality(s)
  BY FS_Subset
<1>2. Cardinality(t) \in Nat /\ Cardinality(s) \in Nat
  BY <1>1, FS_CardinalityType
<1> QED BY <1>1, <1>2, FS_AddElement

\* A request, whatever it is answered.
LEMMA Remembered ==
  ASSUME LimitInv, NEW ok \in BOOLEAN, Q!Remember(ok), x1' = x1
  PROVE  /\ x5' \in BOOLEAN /\ (x5 = TRUE => x5' = TRUE)
         /\ x4' = Q!Kept \cup {Q!Entry(ok)}
         /\ IsFiniteSet(x4') /\ x4' \subseteq Arrivals
         /\ \A q \in x4' : q.at <= x1 /\ q.nth < Cardinality(At(x4', q.at))
         /\ Q!limit < Cardinality(Q!Kept) + 1 => x5' = TRUE
<1>1. /\ x4' = Q!Kept \cup {Q!Entry(ok)}
      /\ x5' = (x5 \/ Cardinality(Q!Kept) + 1 > Q!limit)
  <2>1. x4' = Q!Kept \cup {Q!Entry(ok)}
    BY DEF Q!Remember
  <2>2. x5' = (x5 \/ Q!Cardinality(Q!Kept) + 1 > Q!limit)
    BY Zenon DEF Q!Remember
  <2> QED BY <2>1, <2>2, CountedAlike, Zenon
<1>2. Cardinality(Q!Kept) \in Nat
  BY EntryIsNew, FS_CardinalityType
<1>3. x5' \in BOOLEAN /\ (x5 = TRUE => x5' = TRUE) /\ (Q!limit < Cardinality(Q!Kept) + 1 => x5' = TRUE)
  BY <1>1, <1>2, LimitIs DEF LimitInv
<1>4. IsFiniteSet(x4') /\ x4' \subseteq Arrivals
  BY <1>1, EntryIsNew
<1>5. ASSUME NEW q \in x4' PROVE q.at <= x1 /\ q.nth < Cardinality(At(x4', q.at))
  <2> DEFINE kept == At(Q!Kept, q.at)
             now == At(x4', q.at)
  <2>0. /\ Q!Entry(ok) \notin Q!Kept /\ Q!Entry(ok).at = x1 /\ Q!Kept \subseteq x4
        /\ Q!Kept = {r \in x4 : x1 - r.at < WINDOW}
        /\ Q!Entry(ok).nth = Cardinality(At(Q!Kept, x1)) /\ IsFiniteSet(Q!Kept)
    BY EntryIsNew
  <2>1. kept \subseteq now /\ now \subseteq x4' /\ IsFiniteSet(now) /\ IsFiniteSet(kept)
    BY <1>1, <1>4, FS_Subset DEF At
  <2>2. Cardinality(kept) \in Nat /\ Cardinality(now) \in Nat /\ Cardinality(kept) <= Cardinality(now)
    BY <2>1, FS_Subset, FS_CardinalityType
  <2>3. CASE q \in Q!Kept
    <3>1. q \in x4 /\ q.at <= x1 /\ q.nth < Cardinality(At(x4, q.at)) /\ q.nth \in Nat
      BY <2>0, <2>3 DEF LimitInv, Arrivals
    <3>2. kept = At(x4, q.at)
      BY <2>0, <2>3 DEF At
    <3> QED BY <2>2, <3>1, <3>2
  <2>4. CASE q = Q!Entry(ok)
    <3>1. now = kept \cup {q} /\ q \notin kept
      BY <1>1, <2>0, <2>4 DEF At
    <3>2. Cardinality(now) = Cardinality(kept) + 1
      BY <2>1, <3>1, FS_AddElement
    <3>3. q.at = x1 /\ q.nth = Cardinality(kept)
      BY <2>0, <2>4
    <3>4. x1 \in Nat
      BY DEF LimitInv
    <3> HIDE DEF kept, now
    <3>5. q.nth < Cardinality(now)
      BY <2>2, <3>2, <3>3
    <3> QED BY <3>3, <3>4, <3>5 DEF now
  <2> QED BY <1>1, <2>3, <2>4
<1> QED BY <1>1, <1>3, <1>4, <1>5

\* The same window, whatever the request is answered.
LEMMA SameWindow ==
  ASSUME LimitInv, NEW ok \in BOOLEAN, Q!Remember(ok), x1' = x1, NEW t \in Nat, t <= x1
  PROVE  /\ Cardinality(Before(x4', t)) \in Nat /\ Cardinality(Before(x4, t)) \in Nat
         /\ Cardinality(Passed(x4', t)) \in Nat /\ Cardinality(Passed(x4, t)) \in Nat
         /\ Cardinality(Came(x4', t)) \in Nat /\ Cardinality(Came(x4, t)) \in Nat
         /\ Cardinality(Before(x4', t)) <= Cardinality(Before(x4, t))
         /\ Cardinality(Passed(x4', t)) <= Cardinality(Passed(x4, t)) + 1
         /\ ok = FALSE => Cardinality(Passed(x4', t)) <= Cardinality(Passed(x4, t))
         /\ x1 - t < WINDOW =>
              /\ Cardinality(Came(x4', t)) = Cardinality(Came(x4, t)) + 1
              /\ Cardinality(Came(x4, t)) <= Cardinality(Q!Kept)
<1> DEFINE e == Q!Entry(ok)
<1>1. /\ e \notin Q!Kept /\ e.at = x1 /\ e.ok = ok /\ Q!Kept \subseteq x4 /\ IsFiniteSet(Q!Kept)
      /\ Q!Kept = {q \in x4 : x1 - q.at < WINDOW} /\ x4' = Q!Kept \cup {e}
  BY EntryIsNew, Remembered
<1>2. IsFiniteSet(x4) /\ IsFiniteSet(x4') /\ x1 \in Nat /\ \A q \in x4 : q.at \in Nat
  BY Remembered DEF LimitInv, Arrivals
<1> HIDE DEF e
<1>3. /\ Before(x4', t) \subseteq x4' /\ Before(x4, t) \subseteq x4 /\ Passed(x4', t) \subseteq x4'
      /\ Passed(x4, t) \subseteq x4 /\ Came(x4', t) \subseteq x4' /\ Came(x4, t) \subseteq x4
  BY DEF Before, Passed, Came
<1>4. /\ IsFiniteSet(Before(x4', t)) /\ IsFiniteSet(Before(x4, t)) /\ IsFiniteSet(Passed(x4', t))
      /\ IsFiniteSet(Passed(x4, t)) /\ IsFiniteSet(Came(x4', t)) /\ IsFiniteSet(Came(x4, t))
  BY <1>2, <1>3, FS_Subset
<1>5. /\ Cardinality(Before(x4', t)) \in Nat /\ Cardinality(Before(x4, t)) \in Nat
      /\ Cardinality(Passed(x4', t)) \in Nat /\ Cardinality(Passed(x4, t)) \in Nat
      /\ Cardinality(Came(x4', t)) \in Nat /\ Cardinality(Came(x4, t)) \in Nat
  BY <1>4, FS_CardinalityType
<1>6. Before(x4', t) \subseteq Before(x4, t)
  BY <1>1, <1>2 DEF Before
<1>7. Cardinality(Before(x4', t)) <= Cardinality(Before(x4, t))
  BY <1>4, <1>6, FS_Subset
<1>8. Passed(x4', t) \subseteq Passed(x4, t) \cup {e}
  BY <1>1, <1>2 DEF Passed
<1>9. /\ IsFiniteSet(Passed(x4, t) \cup {e})
      /\ Cardinality(Passed(x4, t) \cup {e}) <= Cardinality(Passed(x4, t)) + 1
      /\ Cardinality(Passed(x4, t) \cup {e}) \in Nat
  <2> DEFINE s == Passed(x4, t)
  <2>1. IsFiniteSet(s) /\ Cardinality(s) \in Nat
    BY <1>4, <1>5
  <2> HIDE DEF s
  <2>2. IsFiniteSet(s \cup {e}) /\ Cardinality(s \cup {e}) = IF e \in s THEN Cardinality(s) ELSE Cardinality(s) + 1
    BY <2>1, FS_AddElement
  <2>3. Cardinality(s \cup {e}) <= Cardinality(s) + 1 /\ Cardinality(s \cup {e}) \in Nat
    BY <2>1, <2>2
  <2> QED BY <2>2, <2>3 DEF s
<1>10. Cardinality(Passed(x4', t)) <= Cardinality(Passed(x4, t) \cup {e})
  BY <1>8, <1>9, FS_Subset
<1>11. Cardinality(Passed(x4', t)) <= Cardinality(Passed(x4, t)) + 1
  BY <1>5, <1>9, <1>10
<1>12. ASSUME ok = FALSE PROVE Cardinality(Passed(x4', t)) <= Cardinality(Passed(x4, t))
  <2>1. Passed(x4', t) \subseteq Passed(x4, t)
    BY <1>1, <1>2, <1>12 DEF Passed
  <2> QED BY <1>4, <2>1, FS_Subset
<1>13. ASSUME x1 - t < WINDOW
       PROVE  /\ Cardinality(Came(x4', t)) = Cardinality(Came(x4, t)) + 1
              /\ Cardinality(Came(x4, t)) <= Cardinality(Q!Kept)
  <2>1. Came(x4, t) \subseteq Q!Kept
    BY LimitIs, <1>1, <1>2, <1>13 DEF Came
  <2>2. Came(x4', t) = Came(x4, t) \cup {e} /\ e \notin Came(x4, t)
    BY <1>1, <1>2, <2>1 DEF Came
  <2>3. Cardinality(Came(x4, t)) <= Cardinality(Q!Kept)
    BY <1>1, <2>1, FS_Subset
  <2> QED BY <1>4, <2>2, <2>3, FS_AddElement
<1> QED BY <1>5, <1>7, <1>11, <1>12, <1>13

\* A new window that starts with a request.
LEMMA NewWindow ==
  ASSUME LimitInv, Q!Remember(TRUE), x1' = x1,
         \A q \in Q!Kept : q.ok = TRUE => q.at < x1
  PROVE  /\ Cardinality(Passed(x4', x1)) = 1
         /\ 1 <= Cardinality(Came(x4', x1))
         /\ Cardinality(Before(x4', x1)) <= Cardinality({q \in Q!Kept : q.ok = TRUE})
<1> DEFINE e == Q!Entry(TRUE)
<1>1. /\ e.at = x1 /\ e.ok = TRUE /\ Q!Kept \subseteq x4 /\ IsFiniteSet(Q!Kept)
      /\ x4' = Q!Kept \cup {e} /\ IsFiniteSet(x4')
  BY EntryIsNew, Remembered
<1>2. x1 \in Nat /\ \A q \in x4 : q.at \in Nat
  BY DEF LimitInv, Arrivals
<1> HIDE DEF e
<1>3. Passed(x4', x1) = {e}
  BY <1>1, <1>2 DEF Passed
<1>4. {e} \subseteq Came(x4', x1) /\ Came(x4', x1) \subseteq x4'
  BY <1>1, <1>2 DEF Came
<1>5. Cardinality({e}) = 1
  BY FS_Singleton
<1>6. IsFiniteSet(Came(x4', x1)) /\ 1 <= Cardinality(Came(x4', x1))
  BY <1>1, <1>4, <1>5, FS_Subset
<1>7. Before(x4', x1) \subseteq {q \in Q!Kept : q.ok = TRUE}
  BY <1>1, <1>2 DEF Before
<1>8. IsFiniteSet({q \in Q!Kept : q.ok = TRUE})
  <2>1. {q \in Q!Kept : q.ok = TRUE} \subseteq Q!Kept
    OBVIOUS
  <2> QED BY <1>1, <2>1, FS_Subset
<1>9. Cardinality(Before(x4', x1)) <= Cardinality({q \in Q!Kept : q.ok = TRUE})
  BY <1>7, <1>8, FS_Subset
<1> QED BY <1>3, <1>5, <1>6, <1>9

LEMMA LimitStarts == Q!Init => LimitInv
<1> SUFFICES ASSUME Q!Init PROVE LimitInv
  OBVIOUS
<1>1. x1 = 1 /\ x3 = None /\ x4 = {} /\ x5 = FALSE
  BY DEF Q!Init
<1>2. IsFiniteSet(x4) /\ x4 \subseteq Arrivals /\ \A q \in x4 : FALSE
  BY <1>1, FS_EmptySet
<1>3. x1 \in Nat /\ x1 >= 1
  BY <1>1
<1>4. x5 \in BOOLEAN
  BY <1>1
<1> QED BY <1>1, <1>2, <1>3, <1>4, Zenon DEF LimitInv

\* The same window, at the end of a request, whatever is made of the record.
LEMMA WindowCounts ==
  ASSUME LimitInv, NEW ok \in BOOLEAN, Q!Remember(ok), x1' = x1, x2' = x2, x3 # None, Counts(x3),
         NEW r \in LimitRecord, r.windowStart = x3.windowStart,
         r.count = x3.count + 1 \/ (r.count = x3.count /\ ok = FALSE),
         r.count <= x3.count \/ x1 - x3.windowStart < WINDOW,
         ok = TRUE => r.count <= Q!limit /\ x1 < x3.windowStart + WINDOW,
         x1 < r.backoffUntil => x5' = TRUE /\ \E q \in x4' : q.at + WINDOW >= r.backoffUntil
  PROVE  Counts(r)'
<1> DEFINE t == x3.windowStart
<1>1. t \in Nat /\ t <= x1 /\ x1 \in Nat /\ x3.count \in Nat /\ r.count \in Nat
  BY DEF Counts, LimitInv, LimitRecord
<1>2. /\ Cardinality(Passed(x4, t)) <= x3.count
      /\ Cardinality(Passed(x4, t)) <= Q!limit
      /\ Cardinality(Before(x4, t)) <= Q!limit
      /\ \A q \in x4 : q.ok = TRUE => q.at < t + WINDOW
      /\ x1 - t < WINDOW => x3.count <= Cardinality(Came(x4, t))
  BY DEF Counts
<1>3. /\ Cardinality(Before(x4', t)) \in Nat /\ Cardinality(Before(x4, t)) \in Nat
      /\ Cardinality(Passed(x4', t)) \in Nat /\ Cardinality(Passed(x4, t)) \in Nat
      /\ Cardinality(Came(x4', t)) \in Nat /\ Cardinality(Came(x4, t)) \in Nat
      /\ Cardinality(Before(x4', t)) <= Cardinality(Before(x4, t))
      /\ Cardinality(Passed(x4', t)) <= Cardinality(Passed(x4, t)) + 1
      /\ ok = FALSE => Cardinality(Passed(x4', t)) <= Cardinality(Passed(x4, t))
      /\ x1 - t < WINDOW =>
           /\ Cardinality(Came(x4', t)) = Cardinality(Came(x4, t)) + 1
           /\ Cardinality(Came(x4, t)) <= Cardinality(Q!Kept)
  BY <1>1, SameWindow, Zenon
<1>4. Q!limit' = Q!limit /\ Q!limit \in Nat
  BY LimitIs DEF Q!limit
<1>5. r.windowStart = t /\ t' = x3'.windowStart
  OBVIOUS
<1> HIDE DEF t
<1>6. ok = TRUE \/ ok = FALSE
  OBVIOUS
<1>7. /\ Cardinality(Passed(x4', t)) <= r.count
      /\ Cardinality(Passed(x4', t)) <= Q!limit
      /\ Cardinality(Before(x4', t)) <= Q!limit
  <2>1. CASE ok = FALSE
    BY <1>1, <1>2, <1>3, <1>4, <2>1
  <2>2. CASE ok = TRUE
    <3>1. r.count = x3.count + 1 /\ r.count <= Q!limit
      BY <2>2
    <3> QED BY <1>1, <1>2, <1>3, <1>4, <3>1
  <2> QED BY <1>6, <2>1, <2>2
<1>8. x1 - t < WINDOW => r.count <= Cardinality(Came(x4', t))
  BY <1>1, <1>2, <1>3
<1>9. \A q \in x4' : q.ok = TRUE => q.at < t + WINDOW
  <2> SUFFICES ASSUME NEW q \in x4', q.ok = TRUE PROVE q.at < t + WINDOW
    OBVIOUS
  <2>1. CASE q \in Q!Kept
    BY <1>2, <2>1, EntryIsNew
  <2>2. CASE q = Q!Entry(ok)
    BY <2>2, EntryIsNew DEF t
  <2> QED BY <2>1, <2>2, Remembered
<1>10. x1' = x1 /\ r \in LimitRecord /\ r.windowStart = t
       /\ (x1 < r.backoffUntil => x5' = TRUE /\ \E q \in x4' : q.at + WINDOW >= r.backoffUntil)
  BY <1>5
<1> QED BY <1>1, <1>4, <1>7, <1>8, <1>9, <1>10 DEF Counts

\* A new window.
LEMMA FreshCounts ==
  ASSUME LimitInv, Q!Remember(TRUE), x1' = x1, x2' = x2, (x3 = None /\ x4 = {}) \/ (x3 # None /\ Counts(x3)),
         x3 # None => x1 - x3.windowStart >= WINDOW,
         NEW r \in LimitRecord, r.windowStart = x1, r.count = 1, r.backoffUntil = 0
  PROVE  Counts(r)'
<1>0. x1 \in Nat /\ x1 >= 1 /\ \A q \in x4 : q.at \in Nat /\ q.at <= x1
  BY DEF LimitInv, Arrivals
<1>1. /\ Q!Kept = {q \in x4 : x1 - q.at < WINDOW} /\ Q!Entry(TRUE).at = x1
      /\ x4' = Q!Kept \cup {Q!Entry(TRUE)} /\ IsFiniteSet(x4) /\ Q!Kept \subseteq x4
  BY EntryIsNew, Remembered DEF LimitInv
<1>2. Q!limit' = Q!limit /\ Q!limit \in Nat /\ Q!limit >= 1
  BY LimitIs DEF Q!limit
<1> DEFINE s == {q \in Q!Kept : q.ok = TRUE}
<1>3. (\A q \in Q!Kept : q.ok = TRUE => q.at < x1) /\ Cardinality(s) <= Q!limit /\ Cardinality(s) \in Nat
  <2>1. CASE x3 = None /\ x4 = {}
    <3>1. Q!Kept = {} /\ s = {}
      BY <1>1, <2>1
    <3>2. Cardinality(s) = 0
      BY <3>1, FS_EmptySet
    <3> HIDE DEF s
    <3> QED BY <1>2, <3>1, <3>2
  <2>2. CASE x3 # None /\ Counts(x3)
    <3>1. x3.windowStart \in Nat /\ x1 - x3.windowStart >= WINDOW
      BY <2>2 DEF Counts, LimitRecord
    <3>2. \A q \in x4 : q.ok = TRUE => q.at < x3.windowStart + WINDOW
      BY <2>2 DEF Counts
    <3>3. s \subseteq Passed(x4, x3.windowStart)
      BY LimitIs, <1>0, <1>1, <3>1 DEF Passed
    <3>4. Passed(x4, x3.windowStart) \subseteq x4 /\ IsFiniteSet(Passed(x4, x3.windowStart))
      BY <1>1, FS_Subset DEF Passed
    <3>5. IsFiniteSet(s) /\ Cardinality(s) <= Cardinality(Passed(x4, x3.windowStart))
      BY <3>3, <3>4, FS_Subset
    <3>6. Cardinality(Passed(x4, x3.windowStart)) <= Q!limit
      BY <2>2 DEF Counts
    <3>7. Cardinality(s) \in Nat /\ Cardinality(Passed(x4, x3.windowStart)) \in Nat
      BY <3>4, <3>5, FS_CardinalityType
    <3>8. \A q \in Q!Kept : q.ok = TRUE => q.at < x1
      BY LimitIs, <1>0, <1>1, <3>1, <3>2
    <3> HIDE DEF s
    <3> QED BY <1>2, <3>5, <3>6, <3>7, <3>8
  <2> QED BY <2>1, <2>2
<1>4. /\ Cardinality(Passed(x4', x1)) = 1
      /\ 1 <= Cardinality(Came(x4', x1))
      /\ Cardinality(Before(x4', x1)) <= Cardinality(s)
  BY <1>3, NewWindow
<1>5. Cardinality(Before(x4', x1)) \in Nat
  <2>1. Before(x4', x1) \subseteq x4' /\ IsFiniteSet(x4')
    BY Remembered DEF Before
  <2>2. IsFiniteSet(Before(x4', x1))
    BY <2>1, FS_Subset
  <2> QED BY <2>2, FS_CardinalityType
<1> HIDE DEF s
<1>6. /\ Cardinality(Passed(x4', x1)) <= r.count
      /\ Cardinality(Passed(x4', x1)) <= Q!limit
      /\ Cardinality(Before(x4', x1)) <= Q!limit
      /\ r.count <= Cardinality(Came(x4', x1))
  BY <1>2, <1>3, <1>4, <1>5
<1>7. \A q \in x4' : q.at < x1 + WINDOW
  <2> SUFFICES ASSUME NEW q \in x4' PROVE q.at < x1 + WINDOW
    OBVIOUS
  <2>1. q \in Q!Kept \/ q = Q!Entry(TRUE)
    BY <1>1
  <2>2. q.at \in Nat /\ q.at <= x1
    <3>1. CASE q \in Q!Kept
      <4>1. q \in x4
        BY <1>1, <3>1
      <4> QED BY <1>0, <4>1, Zenon
    <3>2. CASE q = Q!Entry(TRUE)
      <4>1. q.at = x1
        BY <1>1, <3>2
      <4> QED BY <1>0, <4>1
    <3> QED BY <2>1, <3>1, <3>2
  <2> QED BY LimitIs, <1>0, <2>2
<1>8. ~(x1 < r.backoffUntil)
  BY <1>0
<1> QED BY <1>0, <1>2, <1>6, <1>7, <1>8 DEF Counts

LEMMA LimitStep == None \notin LimitRecord /\ LimitInv /\ Q!Next => LimitInv'
<1> SUFFICES ASSUME None \notin LimitRecord, LimitInv, Q!Next PROVE LimitInv'
  OBVIOUS
<1>0. /\ x1 \in Nat /\ x1 >= 1 /\ x5 \in BOOLEAN
      /\ IsFiniteSet(x4) /\ x4 \subseteq Arrivals
      /\ \A q \in x4 : q.at <= x1 /\ q.nth < Cardinality(At(x4, q.at))
      /\ \A q \in x4 : q.ok = FALSE => x5 = TRUE
      /\ \A q \in x4 : x4 = {q} => q.ok = TRUE
      /\ x2 # "admin" => (x3 = None /\ x4 = {}) \/ (x3 # None /\ Counts(x3))
  BY DEF LimitInv
<1>in. \A q \in x4 : q.at \in Nat
  BY <1>0 DEF Arrivals
<1>1. CASE Q!Tick
  <2>1. x1' = x1 + 1 /\ x2' = x2 /\ x3' = x3 /\ x4' = x4 /\ x5' = x5
    BY <1>1 DEF Q!Tick
  <2>2. Q!limit' = Q!limit
    BY <2>1 DEF Q!limit
  <2>3. ASSUME Counts(x3) PROVE Counts(x3)'
    <3>1. x3 \in LimitRecord /\ x3.windowStart \in Nat /\ x3.backoffUntil \in Nat
      BY <2>3 DEF Counts, LimitRecord
    <3>2. /\ x3.windowStart <= x1' /\ (x1' - x3.windowStart < WINDOW => x1 - x3.windowStart < WINDOW)
          /\ x1' < x3.backoffUntil => x1 < x3.backoffUntil
      BY LimitIs, <1>0, <2>1, <2>3, <3>1 DEF Counts
    <3> QED BY <2>1, <2>2, <2>3, <3>1, <3>2 DEF Counts
  <2>4. x1' \in Nat /\ x1' >= 1 /\ \A q \in x4 : q.at <= x1'
    BY <1>0, <1>in, <2>1
  <2>5. x2' # "admin" => (x3' = None /\ x4' = {}) \/ (x3' # None /\ Counts(x3)')
    BY <1>0, <2>1, <2>3
  <2> QED BY <1>0, <2>1, <2>4, <2>5 DEF LimitInv
<1>2. ASSUME NEW ok \in BOOLEAN, Q!Remember(ok), x1' = x1, x2' = x2,
             ok = FALSE => x5' = TRUE /\ Q!Kept # {},
             x2 # "admin" => x3' # None /\ Counts(x3)'
      PROVE  LimitInv'
  <2>1. /\ x5' \in BOOLEAN /\ (x5 = TRUE => x5' = TRUE)
        /\ x4' = Q!Kept \cup {Q!Entry(ok)}
        /\ IsFiniteSet(x4') /\ x4' \subseteq Arrivals
        /\ \A q \in x4' : q.at <= x1 /\ q.nth < Cardinality(At(x4', q.at))
    BY <1>2, Remembered
  <2>2. Q!Kept \subseteq x4 /\ Q!Entry(ok) \notin Q!Kept /\ Q!Entry(ok).ok = ok
    BY EntryIsNew
  <2>3. \A q \in x4' : q.ok = FALSE => x5' = TRUE
    BY <1>0, <1>2, <2>1, <2>2
  <2>4. ASSUME NEW q \in x4', x4' = {q} PROVE q.ok = TRUE
    <3>1. q = Q!Entry(ok) /\ Q!Kept = {}
      BY <2>1, <2>2, <2>4
    <3> QED BY <1>2, <2>2, <3>1
  <2>5. x1' \in Nat /\ x1' >= 1
    BY <1>0, <1>2
  <2>6. \A q \in x4' : q.at <= x1' /\ q.nth < Cardinality(At(x4, q.at))'
    BY <1>2, <2>1 DEF At
  <2> QED BY <1>2, <2>1, <2>3, <2>4, <2>5, <2>6 DEF LimitInv
<1>3. CASE Q!Whitelisted
  <2>1. x2 = "admin" /\ Q!Remember(TRUE) /\ x1' = x1 /\ x2' = x2
    BY <1>3 DEF Q!Whitelisted
  <2> QED BY <1>2, <2>1
<1>4. CASE Q!Refused
  <2>1. /\ x2 # "admin" /\ Q!Remember(FALSE) /\ x1' = x1 /\ x2' = x2 /\ x3' = x3
        /\ x3 # None /\ x1 < x3.backoffUntil
    BY <1>4 DEF Q!Refused, Q!BackedOff
  <2>2. Counts(x3) /\ x3 \in LimitRecord /\ x3.backoffUntil \in Nat
    BY <1>0, <2>1 DEF Counts, LimitRecord
  <2>3. x5 = TRUE /\ \E q \in x4 : q.at + WINDOW >= x3.backoffUntil
    BY <2>1, <2>2 DEF Counts
  <2>4. PICK q \in x4 : q.at + WINDOW >= x3.backoffUntil
    BY <2>3
  <2>5. q \in Q!Kept
    <3>1. Q!Kept = {p \in x4 : x1 - p.at < WINDOW}
      BY EntryIsNew
    <3>2. q.at \in Nat /\ x1 - q.at < WINDOW
      BY LimitIs, <1>0, <1>in, <2>1, <2>2, <2>4
    <3> QED BY <3>1, <3>2
  <2>6. x5' = TRUE /\ q \in x4'
    BY <2>1, <2>3, <2>5, Remembered
  <2>7. Counts(x3)'
    <3>1. PICK r : r = x3
      OBVIOUS
    <3>2. r \in LimitRecord /\ r.windowStart = x3.windowStart /\ r.count = x3.count /\ x3.count \in Nat
      BY <2>2, <3>1 DEF LimitRecord
    <3>3. x5' = TRUE /\ \E p \in x4' : p.at + WINDOW >= r.backoffUntil
      BY <2>4, <2>6, <3>1
    <3>4. r.count <= x3.count
      BY <3>2
    <3>5. ASSUME NEW no \in BOOLEAN, no = FALSE, Q!Remember(no) PROVE Counts(r)'
      BY <2>1, <2>2, <3>2, <3>3, <3>4, <3>5, WindowCounts
    <3>6. Counts(r)'
      BY <2>1, <3>5
    <3>7. x3' = r
      BY <2>1, <3>1
    <3> QED BY <3>6, <3>7 DEF Counts
  <2> QED BY <1>2, <2>1, <2>5, <2>6, <2>7
<1>5. ASSUME ~(x3 = None), ~(x1 - x3.windowStart >= WINDOW), x2 # "admin"
      PROVE  /\ Q!Current = x3 /\ x3 # None /\ Counts(x3) /\ x3 \in LimitRecord
             /\ x1 - x3.windowStart < WINDOW /\ x1 < x3.windowStart + WINDOW /\ x3.count \in Nat
             /\ x3.violations \in Nat /\ x3.windowStart \in Nat /\ x3.backoffUntil \in Nat
  <2>1. Q!Current = x3
    BY <1>5 DEF Q!Current
  <2>2. Counts(x3) /\ x3 \in LimitRecord
    BY <1>0, <1>5 DEF Counts
  <2>3. /\ x3.count \in Nat /\ x3.violations \in Nat /\ x3.windowStart \in Nat
        /\ x3.backoffUntil \in Nat
    BY <2>2 DEF LimitRecord
  <2> QED BY LimitIs, <1>0, <1>5, <2>1, <2>2, <2>3
<1>6. ASSUME x3 = None \/ x1 - x3.windowStart >= WINDOW, x2 # "admin"
      PROVE  \E v \in Nat : Q!Current = [count |-> 0, windowStart |-> x1, violations |-> v, backoffUntil |-> 0]
  <2>1. CASE x3 = None
    <3>1. Q!Current = [count |-> 0, windowStart |-> x1, violations |-> 0, backoffUntil |-> 0]
      BY <2>1 DEF Q!Current, Q!Fresh
    <3> QED BY <3>1
  <2>2. CASE ~(x3 = None)
    <3>1. x3.violations \in Nat
      BY <1>0, <1>6, <2>2 DEF Counts, LimitRecord
    <3>2. Q!Current = [count |-> 0, windowStart |-> x1, violations |-> x3.violations, backoffUntil |-> 0]
      BY <1>6, <2>2 DEF Q!Current, Q!Fresh
    <3> QED BY <3>1, <3>2
  <2> QED BY <2>1, <2>2
<1>7. CASE Q!Served
  <2>1. /\ x2 # "admin" /\ Q!Remember(TRUE) /\ x1' = x1 /\ x2' = x2
        /\ Q!Current.count < Q!limit /\ x3' = [Q!Current EXCEPT !.count = @ + 1]
    BY <1>7 DEF Q!Served
  <2>2. CASE x3 = None \/ x1 - x3.windowStart >= WINDOW
    <3>1. PICK v \in Nat : Q!Current = [count |-> 0, windowStart |-> x1, violations |-> v, backoffUntil |-> 0]
      BY <1>6, <2>1, <2>2
    <3>2. x3' = [count |-> 1, windowStart |-> x1, violations |-> v, backoffUntil |-> 0]
      BY <2>1, <3>1
    <3>3. PICK r : r = [count |-> 1, windowStart |-> x1, violations |-> v, backoffUntil |-> 0]
      OBVIOUS
    <3>4. r \in LimitRecord /\ r.windowStart = x1 /\ r.count = 1 /\ r.backoffUntil = 0
      BY <1>0, <3>3 DEF LimitRecord
    <3>5. (x3 = None /\ x4 = {}) \/ (x3 # None /\ Counts(x3))
      BY <1>0, <2>1
    <3>6. x3 # None => x1 - x3.windowStart >= WINDOW
      BY <2>2
    <3>7. Counts(r)'
      BY <2>1, <3>4, <3>5, <3>6, FreshCounts
    <3>8. x3' = r /\ x3' # None
      BY <3>2, <3>3, <3>4
    <3>9. Counts(x3)'
      BY <3>7, <3>8 DEF Counts
    <3> QED BY <1>2, <2>1, <3>8, <3>9
  <2>3. CASE ~(x3 = None) /\ ~(x1 - x3.windowStart >= WINDOW)
    <3>1. /\ Q!Current = x3 /\ x3 # None /\ Counts(x3) /\ x3 \in LimitRecord
          /\ x1 - x3.windowStart < WINDOW /\ x1 < x3.windowStart + WINDOW /\ x3.count \in Nat
          /\ x3.violations \in Nat /\ x3.windowStart \in Nat /\ x3.backoffUntil \in Nat
      BY <1>5, <2>1, <2>3
    <3>2. PICK r : r = [count |-> x3.count + 1, windowStart |-> x3.windowStart, violations |-> x3.violations,
                        backoffUntil |-> x3.backoffUntil]
      OBVIOUS
    <3>3. /\ r \in LimitRecord /\ r.windowStart = x3.windowStart /\ r.count = x3.count + 1
          /\ r.backoffUntil = x3.backoffUntil
      BY <3>1, <3>2 DEF LimitRecord
    <3>4. x3' = r
      BY <2>1, <3>1, <3>2 DEF LimitRecord
    <3>5. r.count <= Q!limit
      BY <2>1, <3>1, <3>3, LimitIs
    <3>6. ~(x1 < x3.backoffUntil)
      BY <1>7, <3>1 DEF Q!Served, Q!BackedOff
    <3>7. ASSUME NEW yes \in BOOLEAN, yes = TRUE, Q!Remember(yes) PROVE Counts(r)'
      BY <2>1, <3>1, <3>3, <3>5, <3>6, <3>7, WindowCounts
    <3>8. Counts(r)'
      BY <2>1, <3>7
    <3>9. Counts(x3)' /\ x3' # None
      BY <3>3, <3>4, <3>8 DEF Counts
    <3> QED BY <1>2, <2>1, <3>9
  <2> QED BY <2>2, <2>3
<1>8. CASE Q!Violated
  <2>1. /\ x2 # "admin" /\ Q!Remember(FALSE) /\ x1' = x1 /\ x2' = x2
        /\ Q!Current.count >= Q!limit
        /\ x3' = [Q!Current EXCEPT !.count = @ + 1, !.violations = Q!Current.violations + 1,
                                   !.backoffUntil = x1 + Q!Backoff(Q!Current.violations + 1)]
    BY <1>8 DEF Q!Violated
  <2>2. ~(x3 = None) /\ ~(x1 - x3.windowStart >= WINDOW)
    <3>1. ASSUME x3 = None \/ x1 - x3.windowStart >= WINDOW PROVE FALSE
      <4>1. Q!Current.count = 0
        BY <1>6, <2>1, <3>1
      <4> QED BY <2>1, <4>1, LimitIs
    <3> QED BY <3>1
  <2>3. /\ Q!Current = x3 /\ x3 # None /\ Counts(x3) /\ x3 \in LimitRecord
        /\ x1 - x3.windowStart < WINDOW /\ x1 < x3.windowStart + WINDOW /\ x3.count \in Nat
        /\ x3.violations \in Nat /\ x3.windowStart \in Nat /\ x3.backoffUntil \in Nat
    BY <1>5, <2>1, <2>2
  <2>4. PICK until : until = x1 + Q!Backoff(x3.violations + 1)
    OBVIOUS
  <2>5. until \in Nat /\ until <= x1 + WINDOW
    <3> DEFINE v == x3.violations + 1
               p == 2 ^ (v - 1)
    <3>1. v - 1 \in Nat
      BY <2>3
    <3>2. p \in Nat
      BY <3>1, PowerIs
    <3>3. Q!Backoff(v) = Q!Lesser(BASE_BACKOFF * p, MAX_BACKOFF)
      BY DEF Q!Backoff
    <3> HIDE DEF p
    <3>4. Q!Backoff(v) \in Nat /\ Q!Backoff(v) <= WINDOW
      <4>1. BASE_BACKOFF * p \in Nat
        BY <3>2, LimitAssumption
      <4> QED BY <3>3, <4>1, LimitIs DEF Q!Lesser
    <3> QED BY <1>0, <2>4, <3>4, LimitIs
  <2>6. PICK r : r = [count |-> x3.count + 1, windowStart |-> x3.windowStart,
                      violations |-> x3.violations + 1, backoffUntil |-> until]
    OBVIOUS
  <2>7. /\ r \in LimitRecord /\ r.windowStart = x3.windowStart /\ r.count = x3.count + 1
        /\ r.backoffUntil = until
    BY <2>3, <2>5, <2>6 DEF LimitRecord
  <2>8. x3' = r
    <3>1. x3' = [x3 EXCEPT !.count = @ + 1, !.violations = x3.violations + 1, !.backoffUntil = until]
      BY <2>1, <2>3, <2>4
    <3>2. DOMAIN x3 = {"count", "windowStart", "violations", "backoffUntil"}
      BY <2>3 DEF LimitRecord
    <3> DEFINE a == [x3 EXCEPT !.count = x3.count + 1]
               b == [a EXCEPT !.violations = x3.violations + 1]
    <3>3. x3' = [b EXCEPT !.backoffUntil = until]
      BY <3>1
    <3>4. /\ DOMAIN a = DOMAIN x3 /\ a.count = x3.count + 1 /\ a.windowStart = x3.windowStart
      BY <3>2
    <3> HIDE DEF a
    <3>5. /\ DOMAIN b = DOMAIN x3 /\ b.count = x3.count + 1 /\ b.windowStart = x3.windowStart
          /\ b.violations = x3.violations + 1
      BY <3>2, <3>4
    <3> HIDE DEF b
    <3>6. /\ DOMAIN x3' = DOMAIN x3 /\ x3'.count = x3.count + 1 /\ x3'.windowStart = x3.windowStart
          /\ x3'.violations = x3.violations + 1 /\ x3'.backoffUntil = until
      BY <3>2, <3>3, <3>5
    <3>7. x3' = [f \in DOMAIN x3' |-> x3'[f]]
      BY <3>3
    <3> QED BY <2>6, <3>2, <3>6, <3>7
  <2>9. /\ Cardinality(Came(x4, x3.windowStart)) <= Cardinality(Q!Kept)
        /\ x3.count <= Cardinality(Came(x4, x3.windowStart))
        /\ Cardinality(Came(x4, x3.windowStart)) \in Nat
    <3>1. x3.windowStart <= x1 /\ x3.count <= Cardinality(Came(x4, x3.windowStart))
      BY <2>3 DEF Counts
    <3>2. ASSUME NEW no \in BOOLEAN, no = FALSE, Q!Remember(no)
          PROVE  /\ Cardinality(Came(x4, x3.windowStart)) <= Cardinality(Q!Kept)
                 /\ Cardinality(Came(x4, x3.windowStart)) \in Nat
      BY <2>1, <2>3, <3>1, <3>2, SameWindow
    <3> QED BY <2>1, <3>1, <3>2
  <2>10. Cardinality(Q!Kept) \in Nat /\ Q!limit <= Cardinality(Q!Kept) /\ Q!Kept # {}
    <3>1. Cardinality(Q!Kept) \in Nat /\ IsFiniteSet(Q!Kept)
      BY EntryIsNew, FS_CardinalityType
    <3>2. Q!limit <= Cardinality(Q!Kept) /\ 1 <= Cardinality(Q!Kept)
      BY <2>1, <2>3, <2>9, <3>1, LimitIs
    <3> QED BY <3>1, <3>2, FS_EmptySet
  <2>11. x5' = TRUE /\ Q!Entry(FALSE) \in x4' /\ Q!Entry(FALSE).at = x1
    <3>1. Q!limit < Cardinality(Q!Kept) + 1
      BY <2>10, LimitIs
    <3>2. ASSUME NEW no \in BOOLEAN, no = FALSE, Q!Remember(no)
          PROVE  x5' = TRUE /\ Q!Entry(no) \in x4' /\ Q!Entry(no).at = x1
      BY <2>1, <3>1, <3>2, Remembered, EntryIsNew
    <3> QED BY <2>1, <3>2
  <2>12. x5' = TRUE /\ \E q \in x4' : q.at + WINDOW >= r.backoffUntil
    BY <1>0, <2>5, <2>7, <2>11
  <2>13. ASSUME NEW no \in BOOLEAN, no = FALSE, Q!Remember(no) PROVE Counts(r)'
    BY <2>1, <2>3, <2>7, <2>12, <2>13, WindowCounts
  <2>14. Counts(r)'
    BY <2>1, <2>13
  <2>15. Counts(x3)' /\ x3' # None
    BY <2>7, <2>8, <2>14 DEF Counts
  <2> QED BY <1>2, <2>1, <2>10, <2>11, <2>15
<1> QED BY <1>1, <1>3, <1>4, <1>7, <1>8 DEF Q!Next, Q!canActivate

LEMMA LimitHolds == LimitInv => Q!AtMostTwiceTheLimit /\ Q!OnlyTheGreedyWait
<1> SUFFICES ASSUME LimitInv PROVE Q!AtMostTwiceTheLimit /\ Q!OnlyTheGreedyWait
  OBVIOUS
<1>1. Q!OnlyTheGreedyWait
  <2>1. ASSUME NEW q \in x4 PROVE (~q.ok => x5) /\ (x4 = {q} => q.ok)
    <3>1. (q.ok = TRUE \/ q.ok = FALSE) /\ (q.ok = FALSE => x5 = TRUE) /\ (x4 = {q} => q.ok = TRUE)
      BY DEF LimitInv, Arrivals
    <3> QED BY <3>1, Zenon
  <2> QED BY <2>1, Zenon DEF Q!OnlyTheGreedyWait
<1>2. ASSUME x2 # "admin" PROVE Cardinality({q \in x4 : q.ok}) <= 2 * Q!limit
  <2> DEFINE s == {q \in x4 : q.ok}
  <2>1. CASE x4 = {}
    <3>1. s = {} /\ Cardinality(s) = 0
      BY <2>1, FS_EmptySet
    <3> HIDE DEF s
    <3>2. Cardinality(s) <= 2 * Q!limit
      BY <3>1, LimitIs
    <3> QED BY <3>2 DEF s
  <2>2. CASE Counts(x3)
    <3> DEFINE a == Passed(x4, x3.windowStart)
               b == Before(x4, x3.windowStart)
    <3>1. Cardinality(a) <= Q!limit /\ Cardinality(b) <= Q!limit /\ x3.windowStart \in Nat
      BY <2>2 DEF Counts, LimitRecord
    <3>2. a \subseteq x4 /\ b \subseteq x4
      BY DEF Passed, Before
    <3>3. IsFiniteSet(a) /\ IsFiniteSet(b) /\ Cardinality(a) \in Nat /\ Cardinality(b) \in Nat
      BY <3>2, FS_Subset, FS_CardinalityType DEF LimitInv
    <3>4. s \subseteq a \cup b
      <4> SUFFICES ASSUME NEW q \in x4, q.ok PROVE q \in a \/ q \in b
        OBVIOUS
      <4>1. q.at \in Nat /\ (q.ok = TRUE \/ q.ok = FALSE)
        BY DEF LimitInv, Arrivals
      <4>2. q.ok = TRUE
        BY <4>1, Zenon
      <4>3. q.at >= x3.windowStart \/ q.at < x3.windowStart
        BY <3>1, <4>1
      <4> QED BY <4>2, <4>3 DEF Passed, Before
    <3> HIDE DEF a, b, s
    <3>5. /\ IsFiniteSet(a \cup b) /\ IsFiniteSet(a \cap b)
          /\ Cardinality(a \cup b) = Cardinality(a) + Cardinality(b) - Cardinality(a \cap b)
      BY <3>3, FS_Union, FS_Intersection
    <3>6. Cardinality(a \cap b) \in Nat /\ Cardinality(a \cup b) \in Nat
      BY <3>5, FS_CardinalityType
    <3>7. IsFiniteSet(s) /\ Cardinality(s) <= Cardinality(a \cup b)
      BY <3>4, <3>5, FS_Subset
    <3>8. Cardinality(s) \in Nat
      BY <3>7, FS_CardinalityType
    <3>9. Cardinality(s) <= 2 * Q!limit
      BY <3>1, <3>3, <3>5, <3>6, <3>7, <3>8, LimitIs
    <3> QED BY <3>9 DEF s
  <2> QED BY <1>2, <2>1, <2>2 DEF LimitInv
<1>3. Q!AtMostTwiceTheLimit
  BY <1>2, CountedAlike DEF Q!AtMostTwiceTheLimit
<1> QED BY <1>1, <1>3

-----------------------------------------------------------------------------
(* The pages of a search, as the service gives them.                       *)

\* An experience by how many come before it; the page it is then on.
Higher(e) == {f \in x1 : X!Precedes(f, e)}
Above(e)  == Cardinality(Higher(e))
Slice(n)  == {e \in x1 : (n - 1) * PageSize <= Above(e) /\ Above(e) < n * PageSize}

\* Until something changes, each page is its slice of the order, and so is the
\* one that is being read.
PagesInv ==
  /\ x1 \subseteq Found /\ x2 \in [Found -> Ranks] /\ x3 \in Seq(SUBSET Found)
  /\ x4 \in Nat /\ x6 \in Nat
  /\ x5.rows \subseteq Found
  /\ x6 = 0 =>
       /\ Cardinality(x1) <= x4
       /\ \A i \in DOMAIN x3 : x3[i] = Slice(i)
       /\ x5.at # "idle" => x5.rows = Slice(Len(x3) + 1)

\* The product of a page and its length.
LEMMA PagesAre ==
  ASSUME NEW p \in Nat \ {0}, NEW c \in Nat \ {0}
  PROVE  /\ (p - 1) * c \in Nat /\ p * c \in Nat \ {0}
         /\ p * c = (p - 1) * c + c
         /\ (p + 1 - 1) * c = p * c
BY SMT

\* Pages do not overlap, and together hold every number.
LEMMA PagesApart ==
  ASSUME NEW i \in Nat \ {0}, NEW j \in Nat \ {0}, NEW c \in Nat \ {0}, i < j
  PROVE  i * c <= (j - 1) * c
<1> DEFINE d == j - 1 - i
<1>1. d \in Nat /\ j - 1 = i + d
  OBVIOUS
<1> HIDE DEF d
<1>2. (i + d) * c = i * c + d * c /\ i * c \in Nat /\ d * c \in Nat
  BY <1>1
<1>3. i * c <= (i + d) * c
  BY <1>2
<1> QED BY <1>1, <1>3

LEMMA PageOfNumber ==
  ASSUME NEW a \in Nat, NEW c \in Nat \ {0}
  PROVE  \E j \in Nat \ {0} : (j - 1) * c <= a /\ a < j * c
<1> DEFINE q == a \div c
<1>1. q \in Nat /\ q * c <= a /\ a < q * c + c
  BY SMT
<1> HIDE DEF q
<1> DEFINE j == q + 1
<1>2. j \in Nat \ {0} /\ j - 1 = q /\ j * c = q * c + c
  BY <1>1
<1> HIDE DEF j
<1>3. (j - 1) * c = q * c
  BY <1>2
<1> QED BY <1>1, <1>2, <1>3

LEMMA CountedThere == \A s : X!Cardinality(s) = Cardinality(s)
BY Zenon DEF X!Cardinality, Cardinality

LEMMA AboveIs ==
  ASSUME x1 \subseteq Found, x2 \in [Found -> Ranks]
  PROVE  /\ IsFiniteSet(x1) /\ Cardinality(x1) \in Nat /\ Cardinality(x1) <= Cardinality(Found)
         /\ \A e \in x1 : IsFiniteSet(Higher(e)) /\ Above(e) \in Nat /\ Above(e) < Cardinality(x1)
<1>2. IsFiniteSet(x1) /\ Cardinality(x1) <= Cardinality(Found) /\ Cardinality(x1) \in Nat
  BY SearchAssumption, FS_Subset, FS_CardinalityType
<1>3. ASSUME NEW e \in x1 PROVE IsFiniteSet(Higher(e)) /\ Above(e) \in Nat /\ Above(e) < Cardinality(x1)
  <2>1. x2[e] \in Int /\ e \in Int
    BY SearchAssumption
  <2>2. e \notin Higher(e) /\ Higher(e) \subseteq x1 \ {e}
    BY <2>1 DEF Higher, X!Precedes
  <2>3. IsFiniteSet(x1 \ {e}) /\ Cardinality(x1 \ {e}) = Cardinality(x1) - 1
    BY <1>2, FS_RemoveElement
  <2>4. IsFiniteSet(Higher(e)) /\ Cardinality(Higher(e)) <= Cardinality(x1 \ {e})
    BY <2>2, <2>3, FS_Subset
  <2>5. Cardinality(Higher(e)) \in Nat
    BY <2>4, FS_CardinalityType
  <2>6. Cardinality(Higher(e)) < Cardinality(x1)
    BY <1>2, <2>3, <2>4, <2>5
  <2> QED BY <2>4, <2>5, <2>6 DEF Above
<1> QED BY <1>2, <1>3

\* Whatever the database does, an experience comes after those that precede it.
LEMMA PlaceInOrder ==
  ASSUME x1 \subseteq Found, x2 \in [Found -> Ranks], NEW order \in X!Orders
  PROVE  /\ order \in [1..Cardinality(x1) -> x1]
         /\ \A e \in x1 : \E i \in 1..Cardinality(x1) : order[i] = e
         /\ \A i \in 1..Cardinality(x1) : Above(order[i]) = i - 1
<1> DEFINE n == Cardinality(x1)
<1>0. n \in Nat /\ IsFiniteSet(x1)
  BY AboveIs
<1>1. /\ order \in [1..n -> x1]
      /\ {order[i] : i \in DOMAIN order} = x1
      /\ \A i, j \in DOMAIN order : i < j => X!Precedes(order[i], order[j])
  <2>1. order \in [1..X!Cardinality(x1) -> x1]
        /\ {order[i] : i \in DOMAIN order} = x1
        /\ \A i, j \in DOMAIN order : i < j => X!Precedes(order[i], order[j])
    BY DEF X!Orders
  <2> QED BY <2>1, CountedThere, Zenon
<1>2. \A e \in x1 : \E i \in 1..n : order[i] = e
  BY <1>1
<1> HIDE DEF n
<1>int. \A e \in x1 : x2[e] \in Int /\ e \in Int
  BY SearchAssumption
<1>3. \A i, j \in 1..n : order[i] = order[j] => i = j
  <2>1. IsFiniteSet(1..n) /\ Cardinality(1..n) = n
    BY <1>0, FS_Interval
  <2>2. order \in Surjection(1..n, x1)
    BY <1>1, <1>2 DEF Surjection
  <2>3. order \in Injection(1..n, x1)
    BY <2>1, <2>2, FS_SurjSameCardinalityImpliesInj DEF n
  <2> QED BY <2>3 DEF Injection, IsInjective
<1>4. ASSUME NEW i \in 1..n PROVE Above(order[i]) = i - 1
  <2> DEFINE first == {order[j] : j \in 1..(i - 1)}
             f == [j \in 1..(i - 1) |-> order[j]]
  <2>1. i - 1 \in Nat /\ 1..(i - 1) \subseteq 1..n
    BY <1>0
  <2>2. Higher(order[i]) = first
    <3>1. ASSUME NEW j \in 1..(i - 1) PROVE order[j] \in Higher(order[i])
      <4>1. j \in 1..n /\ j < i /\ i \in DOMAIN order /\ j \in DOMAIN order
        BY <1>0, <1>1
      <4>2. X!Precedes(order[j], order[i])
        BY <1>1, <4>1
      <4>3. order[j] \in x1
        BY <1>1, <4>1
      <4> QED BY <4>2, <4>3 DEF Higher
    <3>2. ASSUME NEW e \in Higher(order[i]) PROVE e \in first
      <4>1. e \in x1 /\ X!Precedes(e, order[i])
        BY DEF Higher
      <4>2. PICK j \in 1..n : order[j] = e
        BY <1>2, <4>1
      <4>3. order[i] \in x1 /\ order[i] \in Int /\ e \in Int /\ x2[order[i]] \in Int /\ x2[e] \in Int
        BY <1>1, <1>int, <4>1
      <4>4. j # i
        BY <4>1, <4>2, <4>3 DEF X!Precedes
      <4>5. ~(i < j)
        <5>1. i < j => X!Precedes(order[i], e)
          BY <1>1, <4>2
        <5> QED BY <4>1, <4>3, <5>1 DEF X!Precedes
      <4>6. j \in 1..(i - 1)
        BY <1>0, <4>4, <4>5
      <4> QED BY <4>2, <4>6
    <3> QED BY <3>1, <3>2
  <2>3. IsFiniteSet(1..(i - 1)) /\ Cardinality(1..(i - 1)) = i - 1
    <3>1. 1 \in Int /\ i - 1 \in Int /\ ~(1 > i - 1) => i - 1 - 1 + 1 = i - 1
      BY <2>1
    <3>2. i - 1 \in Int /\ (1 > i - 1 => i - 1 = 0)
      BY <2>1
    <3>3. /\ IsFiniteSet(1..(i - 1))
          /\ Cardinality(1..(i - 1)) = IF 1 > i - 1 THEN 0 ELSE i - 1 - 1 + 1
      BY <3>2, FS_Interval
    <3> QED BY <3>1, <3>2, <3>3
  <2>4. f \in Bijection(1..(i - 1), first)
    <3>1. f \in [1..(i - 1) -> first]
      OBVIOUS
    <3>2. \A j, k \in 1..(i - 1) : f[j] = f[k] => j = k
      BY <1>3, <2>1
    <3>3. \A e \in first : \E j \in 1..(i - 1) : f[j] = e
      OBVIOUS
    <3> HIDE DEF f, first
    <3>4. f \in Injection(1..(i - 1), first)
      BY <3>1, <3>2 DEF Injection, IsInjective
    <3>5. f \in Surjection(1..(i - 1), first)
      BY <3>1, <3>3 DEF Surjection
    <3> QED BY <3>4, <3>5 DEF Bijection
  <2> HIDE DEF f, first
  <2>5. ExistsBijection(1..(i - 1), first)
    BY <2>4 DEF ExistsBijection
  <2>6. Cardinality(first) = i - 1
    BY <2>3, <2>5, FS_Bijection
  <2> QED BY <2>2, <2>6 DEF Above
<1> QED BY <1>1, <1>2, <1>4 DEF n

LEMMA PageIsFound ==
  ASSUME x1 \subseteq Found, x2 \in [Found -> Ranks], NEW order \in X!Orders, NEW p \in Nat, p >= 1
  PROVE  X!PageOf(order, p) \subseteq x1
<1> DEFINE n == Cardinality(x1)
<1>1. order \in [1..n -> x1]
  <2>1. order \in [1..X!Cardinality(x1) -> x1]
    BY DEF X!Orders
  <2> QED BY <2>1, CountedThere, Zenon
<1>2. n \in Nat
  BY AboveIs
<1> HIDE DEF n
<1>3. Len(order) = n
  BY <1>1, <1>2
<1>4. \A i \in (X!Skip(p) + 1)..X!Lesser(X!Skip(p) + PageSize, n) : i \in 1..n
  <2>1. X!Skip(p) \in Nat
    BY PagesAre, SearchAssumption DEF X!Skip
  <2> QED BY <1>2, <2>1, SearchAssumption DEF X!Lesser
<1> QED BY <1>1, <1>3, <1>4 DEF X!PageOf

LEMMA PageIsSlice ==
  ASSUME x1 \subseteq Found, x2 \in [Found -> Ranks], NEW order \in X!Orders, NEW p \in Nat, p >= 1
  PROVE  X!PageOf(order, p) = Slice(p)
<1> DEFINE n == Cardinality(x1)
<1>1. /\ order \in [1..n -> x1]
      /\ \A e \in x1 : \E i \in 1..n : order[i] = e
      /\ \A i \in 1..n : Above(order[i]) = i - 1
  BY PlaceInOrder
<1>2. n \in Nat
  BY AboveIs
<1> HIDE DEF n
<1>3. Len(order) = n
  BY <1>1, <1>2
<1>4. X!PageOf(order, p) = {order[i] : i \in ((p - 1) * PageSize + 1)..X!Lesser((p - 1) * PageSize + PageSize, n)}
  BY <1>3 DEF X!PageOf, X!Skip
<1>5. \A i : i \in ((p - 1) * PageSize + 1)..X!Lesser((p - 1) * PageSize + PageSize, n) <=>
             i \in 1..n /\ (p - 1) * PageSize <= i - 1 /\ i - 1 < p * PageSize
  <2> DEFINE a == (p - 1) * PageSize
  <2>1. a \in Nat /\ p * PageSize = a + PageSize /\ PageSize \in Nat \ {0}
    BY PagesAre, SearchAssumption
  <2> HIDE DEF a
  <2>2. \A i : i \in (a + 1)..X!Lesser(a + PageSize, n) <=>
               i \in 1..n /\ a <= i - 1 /\ i - 1 < a + PageSize
    BY <1>2, <2>1 DEF X!Lesser
  <2> QED BY <2>1, <2>2 DEF a
<1>6. ASSUME NEW i \in ((p - 1) * PageSize + 1)..X!Lesser((p - 1) * PageSize + PageSize, n) PROVE order[i] \in Slice(p)
  <2>1. i \in 1..n /\ (p - 1) * PageSize <= i - 1 /\ i - 1 < p * PageSize
    BY <1>5
  <2>2. order[i] \in x1 /\ Above(order[i]) = i - 1
    BY <1>1, <2>1
  <2> QED BY <2>1, <2>2 DEF Slice
<1>7. ASSUME NEW e \in Slice(p)
      PROVE  \E i \in ((p - 1) * PageSize + 1)..X!Lesser((p - 1) * PageSize + PageSize, n) : e = order[i]
  <2>1. e \in x1 /\ (p - 1) * PageSize <= Above(e) /\ Above(e) < p * PageSize
    BY DEF Slice
  <2>2. PICK i \in 1..n : order[i] = e
    BY <1>1, <2>1
  <2>3. Above(e) = i - 1
    BY <1>1, <2>2
  <2>4. i \in ((p - 1) * PageSize + 1)..X!Lesser((p - 1) * PageSize + PageSize, n)
    BY <1>5, <2>1, <2>2, <2>3
  <2> QED BY <2>2, <2>4
<1> QED BY <1>4, <1>6, <1>7

LEMMA PagesStart == X!Init => PagesInv
<1> SUFFICES ASSUME X!Init PROVE PagesInv
  OBVIOUS
<1>1. /\ x1 \subseteq Found /\ x2 \in [Found -> Ranks] /\ x3 = <<>> /\ x6 = 0
      /\ x4 = X!Cardinality(Found) /\ x5 = [at |-> "idle", rows |-> {}]
  BY DEF X!Init, X!NotAsked
<1>2. x4 = Cardinality(Found) /\ x4 \in Nat
  BY <1>1, CountedThere, SearchAssumption, FS_CardinalityType, Zenon
<1>3. Cardinality(x1) <= x4
  BY <1>1, <1>2, AboveIs
<1>4. x3 \in Seq(SUBSET Found) /\ DOMAIN x3 = {} /\ x5.at = "idle" /\ x5.rows = {}
  BY <1>1
<1> QED BY <1>1, <1>2, <1>3, <1>4 DEF PagesInv

LEMMA PagesStep == PagesInv /\ X!Next => PagesInv'
<1> SUFFICES ASSUME PagesInv, X!Next PROVE PagesInv'
  OBVIOUS
<1>0. /\ x1 \subseteq Found /\ x2 \in [Found -> Ranks] /\ x3 \in Seq(SUBSET Found)
      /\ x4 \in Nat /\ x6 \in Nat /\ x5.rows \subseteq Found /\ Len(x3) \in Nat
      /\ DOMAIN x3 = 1..Len(x3)
  BY DEF PagesInv
<1>in. ASSUME x6 = 0
       PROVE  /\ Cardinality(x1) <= x4
              /\ \A i \in DOMAIN x3 : x3[i] = Slice(i)
              /\ x5.at # "idle" => x5.rows = Slice(Len(x3) + 1)
  BY <1>in DEF PagesInv
<1>same. ASSUME x1' = x1, x2' = x2
         PROVE  /\ Cardinality(x1)' = Cardinality(x1)
                /\ \A i : Slice(i)' = Slice(i)
  <2>1. \A e : Above(e)' = Above(e)
    BY <1>same DEF Above, Higher, X!Precedes
  <2> QED BY <1>same, <2>1 DEF Slice
<1>1. CASE X!SelectIds
  <2>1. PICK order \in X!Orders : x5' = [at |-> "rows", rows |-> X!PageOf(order, Len(x3) + 1)]
    BY <1>1 DEF X!SelectIds
  <2>2. x1' = x1 /\ x2' = x2 /\ x3' = x3 /\ x4' = x4 /\ x6' = x6
    BY <1>1 DEF X!SelectIds
  <2>3. x5'.rows = X!PageOf(order, Len(x3) + 1)
    BY <2>1
  <2>4. x5'.rows = Slice(Len(x3) + 1)
    BY <1>0, <2>3, PageIsSlice
  <2>5. x5'.rows \subseteq Found
    <3>1. x5'.rows \subseteq x1
      BY <1>0, <2>3, PageIsFound
    <3> QED BY <1>0, <3>1
  <2>6. x6' = 0 =>
          /\ Cardinality(x1') <= x4'
          /\ \A i \in DOMAIN x3' : x3'[i] = Slice(i)'
          /\ x5'.at # "idle" => x5'.rows = Slice(Len(x3) + 1)'
    BY <1>in, <1>same, <2>2, <2>4
  <2> QED BY <1>0, <2>2, <2>5, <2>6 DEF PagesInv
<1>2. CASE X!SelectRows
  <2>1. x5.at = "rows" /\ x5' = [at |-> "count", rows |-> x5.rows \cap x1]
        /\ x1' = x1 /\ x2' = x2 /\ x3' = x3 /\ x4' = x4 /\ x6' = x6
    BY <1>2 DEF X!SelectRows
  <2>2. x5'.rows = x5.rows \cap x1 /\ x5'.rows \subseteq Found
    BY <1>0, <2>1
  <2>3. x6 = 0 => x5'.rows = Slice(Len(x3) + 1)
    <3>1. Slice(Len(x3) + 1) \subseteq x1
      BY DEF Slice
    <3> QED BY <1>in, <2>1, <2>2, <3>1
  <2>4. x6' = 0 =>
          /\ Cardinality(x1') <= x4'
          /\ \A i \in DOMAIN x3' : x3'[i] = Slice(i)'
          /\ x5'.at # "idle" => x5'.rows = Slice(Len(x3) + 1)'
    BY <1>in, <1>same, <2>1, <2>3
  <2> QED BY <1>0, <2>1, <2>2, <2>4 DEF PagesInv
<1>3. CASE X!Count
  <2>1. x5.at = "count" /\ x3' = Append(x3, x5.rows) /\ x4' = X!Cardinality(x1)
        /\ x5' = [at |-> "idle", rows |-> {}] /\ x1' = x1 /\ x2' = x2 /\ x6' = x6
    BY <1>3 DEF X!Count, X!NotAsked
  <2>2. x4' = Cardinality(x1) /\ x4' \in Nat /\ x5'.at = "idle" /\ x5'.rows = {}
    BY <1>0, <2>1, CountedThere, AboveIs
  <2>3. x3' \in Seq(SUBSET Found) /\ DOMAIN x3' = 1..(Len(x3) + 1) /\ x3'[Len(x3) + 1] = x5.rows
        /\ \A i \in 1..Len(x3) : x3'[i] = x3[i]
    BY <1>0, <2>1
  <2>4. x6 = 0 => \A i \in DOMAIN x3' : x3'[i] = Slice(i)
    <3> SUFFICES ASSUME x6 = 0, NEW i \in DOMAIN x3' PROVE x3'[i] = Slice(i)
      OBVIOUS
    <3>1. i \in 1..Len(x3) \/ i = Len(x3) + 1
      BY <1>0, <2>3
    <3>2. x5.rows = Slice(Len(x3) + 1)
      BY <1>in, <2>1
    <3> QED BY <1>0, <1>in, <2>3, <3>1, <3>2
  <2>5. Cardinality(x1') <= x4'
    BY <2>1, <2>2
  <2>6. x6' = 0 =>
          /\ Cardinality(x1') <= x4'
          /\ \A i \in DOMAIN x3' : x3'[i] = Slice(i)'
    BY <1>same, <2>1, <2>4, <2>5
  <2> QED BY <1>0, <2>1, <2>2, <2>3, <2>6 DEF PagesInv
<1>4. CASE X!Change
  <2>1. x6' = x6 + 1 /\ x3' = x3 /\ x4' = x4 /\ x5' = x5
    BY <1>4 DEF X!Change
  <2>2. x1' \subseteq Found /\ x2' \in [Found -> Ranks]
    BY <1>0, <1>4 DEF X!Change, X!Toggled
  <2>3. x6' \in Nat /\ x6' # 0
    BY <1>0, <2>1
  <2> QED BY <1>0, <2>1, <2>2, <2>3 DEF PagesInv
<1> QED BY <1>1, <1>2, <1>3, <1>4 DEF X!Next

LEMMA PagesHold == PagesInv => X!PagesPartition
<1> SUFFICES ASSUME PagesInv, x6 = 0
             PROVE  /\ \A i, j \in DOMAIN x3 : i # j => x3[i] \cap x3[j] = {}
                    /\ x5.at = "idle" /\ Len(x3) * PageSize >= x4 => X!Read = x1
  BY DEF X!PagesPartition
<1>2. /\ x1 \subseteq Found /\ x2 \in [Found -> Ranks] /\ x3 \in Seq(SUBSET Found) /\ x4 \in Nat
      /\ Cardinality(x1) <= x4 /\ \A i \in DOMAIN x3 : x3[i] = Slice(i)
      /\ DOMAIN x3 = 1..Len(x3) /\ Len(x3) \in Nat
  BY DEF PagesInv
<1>3. \A e \in x1 : Above(e) \in Nat /\ Above(e) < Cardinality(x1)
  BY <1>2, AboveIs
<1>4. ASSUME NEW i \in DOMAIN x3, NEW j \in DOMAIN x3, i # j PROVE x3[i] \cap x3[j] = {}
  <2> SUFFICES ASSUME NEW e \in Slice(i), e \in Slice(j) PROVE FALSE
    BY <1>2
  <2>1. /\ (i - 1) * PageSize <= Above(e) /\ Above(e) < i * PageSize
        /\ (j - 1) * PageSize <= Above(e) /\ Above(e) < j * PageSize
        /\ Above(e) \in Nat
    BY <1>3 DEF Slice
  <2>2. i \in Nat \ {0} /\ j \in Nat \ {0} /\ PageSize \in Nat \ {0} /\ (i < j \/ j < i)
    BY <1>2, <1>4, SearchAssumption
  <2>3. /\ i * PageSize \in Nat /\ (i - 1) * PageSize \in Nat
        /\ j * PageSize \in Nat /\ (j - 1) * PageSize \in Nat
    BY <2>2, PagesAre
  <2>4. i * PageSize <= (j - 1) * PageSize \/ j * PageSize <= (i - 1) * PageSize
    BY <2>2, PagesApart
  <2> QED BY <2>1, <2>3, <2>4
<1>5. ASSUME Len(x3) * PageSize >= x4 PROVE X!Read = x1
  <2>1. ASSUME NEW e \in x1 PROVE \E i \in DOMAIN x3 : e \in x3[i]
    <3> DEFINE a == Above(e)
    <3>1. a \in Nat /\ a < Len(x3) * PageSize /\ Len(x3) * PageSize \in Nat
      <4>1. Cardinality(x1) \in Nat /\ Len(x3) * PageSize \in Nat
        BY <1>2, AboveIs, SearchAssumption
      <4> QED BY <1>2, <1>3, <1>5, <4>1
    <3> HIDE DEF a
    <3>2. PICK i \in Nat \ {0} : (i - 1) * PageSize <= a /\ a < i * PageSize
      BY <3>1, PageOfNumber, SearchAssumption
    <3>in. i \in 1..Len(x3)
      <4>1. ASSUME Len(x3) < i PROVE FALSE
        <5>1. CASE Len(x3) = 0
          <6>1. Len(x3) * PageSize = 0
            BY <5>1, SearchAssumption
          <6> QED BY <3>1, <6>1
        <5>2. CASE Len(x3) # 0
          <6>1. Len(x3) * PageSize <= (i - 1) * PageSize /\ (i - 1) * PageSize \in Nat
            BY <1>2, <4>1, <5>2, PagesApart, PagesAre, SearchAssumption
          <6> QED BY <3>1, <3>2, <6>1
        <5> QED BY <5>1, <5>2
      <4> QED BY <1>2, <4>1
    <3>3. e \in Slice(i)
      BY <3>2 DEF a, Slice
    <3> QED BY <1>2, <3>in, <3>3
  <2>2. \A i \in DOMAIN x3 : x3[i] \subseteq x1
    BY <1>2 DEF Slice
  <2> QED BY <2>1, <2>2 DEF X!Read
<1> QED BY <1>4, <1>5

-----------------------------------------------------------------------------
(* The page of one experience.                                             *)

Falls(s) == \A i, j \in 1..Len(s) : i < j => s[i] > s[j]

\* A cut of a sequence.
IsCut(t, s, m, n) ==
  /\ t \in Seq(Int)
  /\ Len(t) = IF m <= n THEN n - m + 1 ELSE 0
  /\ \A k \in 1..Len(t) : t[k] = s[m + k - 1]

ListingInv ==
  /\ x1 \in Seq(Int) /\ Falls(x1) /\ x2 \in Nat
  /\ \A i \in 1..Len(x1) : x1[i] <= x2
  /\ x3 \in Seq(Nat \ {0}) /\ x4 \in Seq(Int) /\ x6 \in Nat \ {0}
  /\ x9 \in Int /\ x11 \in BOOLEAN /\ x12 \in BOOLEAN /\ x13 \in Nat /\ x14 \in -12..14
  /\ x13 = 0 => Len(x3) <= 1 /\ \A i \in 1..Len(x3) : x3[i] = x6 + 1
  /\ x7 # "shown" => x4 = <<>> /\ x3 = <<>> /\ x6 = 1
  /\ x13 = 0 /\ x11 = FALSE /\ x12 = FALSE /\ x7 = "shown" =>
       IsCut(x4, x1, 1, L!Lesser(x6 * PerPage, Len(x1)))
  /\ x13 = 0 /\ x11 = FALSE =>
       /\ Falls(x4)
       /\ \A k \in 1..Len(x1), i \in 1..Len(x4) : k > x6 * PerPage => x1[k] < x4[i]

LEMMA CutsAre ==
  ASSUME NEW s \in Seq(Int), NEW m \in Nat \ {0}, NEW n \in 0..Len(s)
  PROVE  IsCut(SubSeq(s, m, n), s, m, n)
BY SMTT(30), SubSeqProperties DEF IsCut

LEMMA WithoutOne ==
  ASSUME NEW Y, NEW s \in Seq(Y), NEW i \in 1..Len(s)
  PROVE  /\ L!Without(s, i) \in Seq(Y)
         /\ Len(L!Without(s, i)) = Len(s) - 1
         /\ \A j \in 1..(Len(s) - 1) : L!Without(s, i)[j] = IF j < i THEN s[j] ELSE s[j + 1]
<1> DEFINE w == L!Without(s, i)
<1>1. Len(s) - 1 \in Nat /\ w \in [1..(Len(s) - 1) -> Y]
  BY DEF L!Without
<1>2. w \in Seq(Y) /\ Len(w) = Len(s) - 1
  BY <1>1
<1> QED BY <1>2 DEF L!Without

LEMMA SubSeqIsCut ==
  ASSUME NEW s \in Seq(Int), NEW n \in 0..Len(s), NEW t, IsCut(t, s, 1, n)
  PROVE  t = SubSeq(s, 1, n)
<1>1. IsCut(SubSeq(s, 1, n), s, 1, n)
  BY CutsAre
<1> DEFINE u == SubSeq(s, 1, n)
<1> HIDE DEF u
<1>2. u \in Seq(Int) /\ t \in Seq(Int) /\ Len(t) = Len(u) /\ \A k \in 1..Len(t) : t[k] = u[k]
  BY <1>1 DEF IsCut, u
<1>3. t = u
  BY <1>2, SeqEqual
<1> QED BY <1>3 DEF u

LEMMA PageIsCut ==
  ASSUME NEW p \in Nat \ {0}, PerPage \in Nat \ {0}, x1 \in Seq(Int)
  PROVE  IsCut(L!PageOf(p), x1, (p - 1) * PerPage + 1, L!Lesser(p * PerPage, Len(x1)))
<1>1. (p - 1) * PerPage + 1 \in Nat \ {0} /\ p * PerPage \in Nat
  BY PagesAre
<1>2. L!Lesser(p * PerPage, Len(x1)) \in 0..Len(x1)
  BY <1>1 DEF L!Lesser
<1> QED BY <1>1, <1>2, CutsAre DEF L!PageOf

LEMMA NextPageIsCut ==
  ASSUME PerPage \in Nat \ {0}, x1 \in Seq(Int), x6 \in Nat \ {0}
  PROVE  IsCut(L!PageOf(x6 + 1), x1, x6 * PerPage + 1, L!Lesser((x6 + 1) * PerPage, Len(x1)))
<1>1. (x6 + 1 - 1) * PerPage = x6 * PerPage
  BY PagesAre
<1>2. IsCut(L!PageOf(x6 + 1), x1, (x6 + 1 - 1) * PerPage + 1, L!Lesser((x6 + 1) * PerPage, Len(x1)))
  <2>1. x6 + 1 \in Nat \ {0}
    OBVIOUS
  <2> QED BY <2>1, PageIsCut
<1> QED BY <1>1, <1>2

LEMMA ListingStarts ==
  ASSUME PerPage \in Nat \ {0}, MaxReviews \in Nat, Days \subseteq Int, L!Init
  PROVE  ListingInv
<1>1. x2 \in Nat /\ x9 \in Int /\ x14 \in -12..14
  BY ZonesAssumption DEF L!Init
<1>2. x1 \in Seq(Int) /\ Len(x1) = x2 /\ \A i \in 1..x2 : x1[i] = x2 + 1 - i
  <2>1. x1 = [i \in 1..x2 |-> x2 + 1 - i]
    BY DEF L!Init
  <2>2. x1 \in [1..x2 -> Int]
    BY <2>1, <1>1
  <2> QED BY <2>1, <2>2, <1>1
<1>3. Falls(x1) /\ \A i \in 1..Len(x1) : x1[i] <= x2
  BY <1>1, <1>2 DEF Falls
<1>4. x3 = <<>> /\ x4 = <<>> /\ x6 = 1 /\ x7 = "loading" /\ x11 = FALSE /\ x12 = FALSE /\ x13 = 0
  BY DEF L!Init
<1>5. x1 \in Seq(Int) /\ x3 \in Seq(Nat \ {0}) /\ x4 \in Seq(Int) /\ Len(x3) = 0 /\ Len(x4) = 0
  BY <1>2, <1>4
<1>6. Falls(x4) /\ (\A i \in 1..Len(x3) : x3[i] = x6 + 1)
      /\ \A k \in 1..Len(x1), i \in 1..Len(x4) : k > x6 * PerPage => x1[k] < x4[i]
  BY <1>5 DEF Falls
<1>7. x7 # "shown" /\ x13 = 0 /\ x13 \in Nat /\ x6 \in Nat \ {0} /\ x11 \in BOOLEAN /\ x12 \in BOOLEAN
  <2>1. x11 \in BOOLEAN /\ x12 \in BOOLEAN
    BY <1>4, Zenon
  <2>2. x13 \in Nat /\ x6 \in Nat \ {0}
    BY <1>4
  <2>3. x7 # "shown"
    BY <1>4
  <2> QED BY <1>4, <2>1, <2>2, <2>3
<1>8. Len(x3) <= 1
  BY <1>5
<1> QED BY <1>1, <1>3, <1>4, <1>5, <1>6, <1>7, <1>8 DEF ListingInv

\* What a page adds to the reviews shown.
LEMMA PageAdds ==
  ASSUME NEW s \in Seq(Int), NEW t \in Seq(Int), NEW u, NEW a \in Nat, NEW b \in Nat, a <= b,
         IsCut(u, s, a + 1, L!Lesser(b, Len(s)))
  PROVE  /\ t \o u \in Seq(Int)
         /\ IsCut(t, s, 1, L!Lesser(a, Len(s))) => IsCut(t \o u, s, 1, L!Lesser(b, Len(s)))
         /\ Falls(s) /\ Falls(t) /\ (\A k \in 1..Len(s), i \in 1..Len(t) : k > a => s[k] < t[i]) =>
              /\ Falls(t \o u)
              /\ \A k \in 1..Len(s), i \in 1..Len(t \o u) : k > b => s[k] < (t \o u)[i]
<1>1. u \in Seq(Int)
  BY DEF IsCut
<1>2. PICK w : w = t \o u
  OBVIOUS
<1>3. /\ w \in Seq(Int) /\ Len(w) = Len(t) + Len(u)
      /\ \A i \in 1..Len(w) : w[i] = IF i <= Len(t) THEN t[i] ELSE u[i - Len(t)]
  BY <1>1, <1>2, ConcatProperties
<1>4. Len(s) \in Nat /\ Len(t) \in Nat /\ Len(u) \in Nat
  BY <1>1
<1> DEFINE n == L!Lesser(b, Len(s))
           m == L!Lesser(a, Len(s))
<1>0. /\ n \in Nat /\ n <= Len(s) /\ n <= b /\ (n = b \/ n = Len(s))
      /\ m \in Nat /\ m <= Len(s) /\ m <= a /\ (m = a \/ m = Len(s))
  BY <1>4 DEF L!Lesser
<1>9. Len(u) = (IF a + 1 <= n THEN n - (a + 1) + 1 ELSE 0) /\ \A k \in 1..Len(u) : u[k] = s[a + 1 + k - 1]
  BY DEF IsCut
<1> HIDE DEF n, m
<1>6. ASSUME NEW k \in 1..Len(u)
      PROVE u[k] = s[a + k] /\ a + k \in 1..Len(s) /\ a + k <= b /\ a + k > a
  <2>1. k \in Nat /\ k >= 1 /\ k <= n - a
    BY <1>9, <1>0, <1>4
  <2>2. a + 1 + k - 1 = a + k
    BY <2>1
  <2> QED BY <2>1, <2>2, <1>9, <1>0, <1>4
<1>7. ASSUME IsCut(t, s, 1, L!Lesser(a, Len(s))) PROVE IsCut(w, s, 1, L!Lesser(b, Len(s)))
  <2>1. Len(t) = m /\ \A k \in 1..Len(t) : t[k] = s[k]
    <3>1. Len(t) = (IF 1 <= m THEN m - 1 + 1 ELSE 0) /\ \A k \in 1..Len(t) : t[k] = s[1 + k - 1]
      BY <1>7 DEF IsCut, m
    <3>2. \A k \in 1..Len(t) : 1 + k - 1 = k
      BY <1>4
    <3>3. Len(t) = m
      BY <3>1, <1>0
    <3> QED BY <3>1, <3>2, <3>3
  <2>2. Len(w) = n
    BY <2>1, <1>0, <1>9, <1>3, <1>4
  <2>3. ASSUME NEW k \in 1..Len(w) PROVE w[k] = s[k]
    <3>1. CASE k <= Len(t)
      BY <3>1, <2>1, <1>3, <1>4
    <3>2. CASE k > Len(t)
      <4>1. k - Len(t) \in 1..Len(u) /\ w[k] = u[k - Len(t)]
        BY <3>2, <1>3, <1>4
      <4>2. Len(t) = a
        BY <4>1, <1>0, <1>4, <1>9, <2>1
      <4>3. u[k - Len(t)] = s[a + (k - Len(t))]
        BY <4>1, <1>6
      <4>4. a + (k - Len(t)) = k
        BY <4>2, <1>4
      <4> QED BY <4>1, <4>3, <4>4
    <3> QED BY <3>1, <3>2, <1>4
  <2>4. \A k \in 1..Len(w) : 1 + k - 1 = k
    BY <1>3, <1>4
  <2>5. Len(w) = IF 1 <= n THEN n - 1 + 1 ELSE 0
    BY <2>2, <1>0
  <2> QED BY <2>3, <2>4, <2>5, <1>3 DEF IsCut, n
<1>8. ASSUME Falls(s), Falls(t), \A k \in 1..Len(s), i \in 1..Len(t) : k > a => s[k] < t[i]
      PROVE  Falls(w) /\ \A k \in 1..Len(s), i \in 1..Len(w) : k > b => s[k] < w[i]
  <2>1. \A i \in 1..Len(t) : w[i] = t[i] /\ t[i] \in Int
    BY SMTT(30), <1>3, <1>4
  <2>2. ASSUME NEW i \in 1..Len(w), i > Len(t)
        PROVE /\ w[i] = s[a + (i - Len(t))] /\ a + (i - Len(t)) \in 1..Len(s)
              /\ a + (i - Len(t)) <= b /\ a + (i - Len(t)) > a
    <3>1. i - Len(t) \in 1..Len(u) /\ w[i] = u[i - Len(t)]
      BY SMTT(30), <2>2, <1>3, <1>4
    <3> QED BY <3>1, <1>6
  <2>3. \A k \in 1..Len(s) : s[k] \in Int
    OBVIOUS
  <2>6. \A i \in 1..Len(w) : i \in Nat /\ (i <= Len(t) => i \in 1..Len(t))
    BY <1>3, <1>4
  <2>7. \A k \in 1..Len(s), i \in 1..Len(t) : k > a => s[k] < t[i]
    BY <1>8
  <2>4. ASSUME NEW i \in 1..Len(w), NEW j \in 1..Len(w), i < j PROVE w[i] > w[j]
    <3>1. CASE j <= Len(t)
      <4>1. i \in 1..Len(t) /\ j \in 1..Len(t)
        BY <3>1, <2>4, <2>6, <1>4
      <4> QED BY <4>1, <2>4, <2>1, <1>8 DEF Falls
    <3>2. CASE i <= Len(t) /\ j > Len(t)
      <4>1. i \in 1..Len(t) /\ w[i] = t[i] /\ t[i] \in Int
        BY <3>2, <2>1, <2>6
      <4> DEFINE q == a + (j - Len(t))
      <4>2. w[j] = s[q] /\ q \in 1..Len(s) /\ q > a
        BY <3>2, <2>2
      <4> HIDE DEF q
      <4>3. s[q] < t[i] /\ s[q] \in Int
        BY <4>1, <4>2, <2>3, <2>7
      <4> QED BY <4>1, <4>2, <4>3
    <3>3. CASE i > Len(t) /\ j > Len(t)
      <4> DEFINE p == a + (i - Len(t))
                 q == a + (j - Len(t))
      <4>1. w[i] = s[p] /\ p \in 1..Len(s)
        BY <3>3, <2>2
      <4>2. w[j] = s[q] /\ q \in 1..Len(s)
        BY <3>3, <2>2
      <4>3. p < q
        BY <2>4, <2>6, <1>4
      <4> HIDE DEF p, q
      <4> QED BY <4>1, <4>2, <4>3, <1>8 DEF Falls
    <3> QED BY <3>1, <3>2, <3>3, <2>4, <2>6, <1>4
  <2>5. ASSUME NEW k \in 1..Len(s), NEW i \in 1..Len(w), k > b PROVE s[k] < w[i]
    <3>0. k > a
      BY <2>5, <1>4
    <3>1. CASE i <= Len(t)
      <4>1. i \in 1..Len(t) /\ w[i] = t[i]
        BY <3>1, <2>1, <2>6
      <4> QED BY <4>1, <3>0, <2>7
    <3>2. CASE i > Len(t)
      <4> DEFINE p == a + (i - Len(t))
      <4>1. w[i] = s[p] /\ p \in 1..Len(s) /\ p <= b
        BY <3>2, <2>2
      <4> HIDE DEF p
      <4>2. p < k
        BY <4>1, <2>5, <1>4
      <4>3. s[p] > s[k] /\ s[p] \in Int /\ s[k] \in Int
        BY <4>1, <4>2, <1>8, <2>3 DEF Falls
      <4> QED BY <4>1, <4>3
    <3> QED BY <3>1, <3>2, <2>6, <1>4
  <2> QED BY <2>4, <2>5 DEF Falls
<1> QED BY <1>2, <1>3, <1>7, <1>8

LEMMA CountedIn ==
  ASSUME NEW s
  PROVE  L!Cardinality(s) = Cardinality(s)
BY Zenon DEF L!Cardinality, Cardinality

\* What falls has no element twice.
LEMMA FallingOnce ==
  ASSUME NEW s \in Seq(Int), Falls(s)
  PROVE  Cardinality(L!Ids(s)) = Len(s)
<1>1. Len(s) \in Nat /\ DOMAIN s = 1..Len(s)
  OBVIOUS
<1> DEFINE f == [i \in 1..Len(s) |-> s[i]]
<1>2. f \in Bijection(1..Len(s), L!Ids(s))
  <2>1. f \in [1..Len(s) -> L!Ids(s)]
    BY <1>1 DEF L!Ids
  <2>2. \A i, j \in 1..Len(s) : f[i] = f[j] => i = j
    BY <1>1 DEF Falls
  <2>3. \A e \in L!Ids(s) : \E i \in 1..Len(s) : f[i] = e
    BY <1>1 DEF L!Ids
  <2> HIDE DEF f
  <2> QED BY <2>1, <2>2, <2>3, Fun_IsBij
<1>3. ExistsBijection(1..Len(s), L!Ids(s))
  BY <1>2 DEF ExistsBijection
<1>4. IsFiniteSet(1..Len(s)) /\ Cardinality(1..Len(s)) = Len(s)
  BY SMTT(30), <1>1, FS_Interval
<1> QED BY <1>3, <1>4, FS_Bijection

LEMMA CutFalls ==
  ASSUME NEW s \in Seq(Int), Falls(s), NEW a \in Nat, NEW t, IsCut(t, s, 1, L!Lesser(a, Len(s)))
  PROVE  Falls(t) /\ \A k \in 1..Len(s), i \in 1..Len(t) : k > a => s[k] < t[i]
<1> DEFINE n == L!Lesser(a, Len(s))
<1>1. n \in Nat /\ n <= a /\ n <= Len(s) /\ Len(s) \in Nat
  BY DEF L!Lesser
<1>2. Len(t) = (IF 1 <= n THEN n - 1 + 1 ELSE 0) /\ \A k \in 1..Len(t) : t[k] = s[1 + k - 1]
  BY DEF IsCut
<1> HIDE DEF n
<1>3. Len(t) = n
  BY <1>1, <1>2
<1>4. \A k \in 1..n : 1 + k - 1 = k /\ k \in 1..Len(s) /\ k <= a
  BY <1>1
<1>5. \A k \in 1..n : t[k] = s[k]
  BY <1>2, <1>3, <1>4
<1>6. \A k \in 1..Len(s) : s[k] \in Int /\ k \in Nat
  OBVIOUS
<1>7. ASSUME NEW i \in 1..n, NEW j \in 1..n, i < j PROVE t[i] > t[j]
  BY <1>7, <1>4, <1>5 DEF Falls
<1>8. ASSUME NEW k \in 1..Len(s), NEW i \in 1..n, k > a PROVE s[k] < t[i]
  <2>1. i < k /\ i \in 1..Len(s)
    BY <1>8, <1>1, <1>4
  <2>2. s[i] > s[k]
    BY <2>1 DEF Falls
  <2> QED BY <2>1, <2>2, <1>5, <1>6
<1> QED BY <1>3, <1>7, <1>8 DEF Falls

LEMMA ListingStep ==
  ASSUME PerPage \in Nat \ {0}, ListingInv, L!Next
  PROVE  ListingInv'
<1> USE DEF L!table, L!days
<1>0. x6 * PerPage \in Nat /\ (x6 + 1 - 1) * PerPage = x6 * PerPage
      /\ (x6 + 1) * PerPage = x6 * PerPage + PerPage /\ (x6 + 1) * PerPage \in Nat
  <2>1. x6 \in Nat \ {0} /\ x6 + 1 \in Nat \ {0}
    BY DEF ListingInv
  <2> QED BY <2>1, PagesAre
<1>1. CASE L!Load
  <2>1. x3 = <<>> /\ x4 = <<>> /\ x6 = 1 /\ x1 \in Seq(Int) /\ Falls(x1)
    BY <1>1 DEF ListingInv, L!Load
  <2>2. UNCHANGED <<x1, x2, x3, x6, x9, x11, x12, x13, x14>>
    BY <1>1 DEF L!Load
  <2>3. CASE x7' = "shown" /\ x4' = L!PageOf(1)
    <3>1. (1 - 1) * PerPage + 1 = 1 /\ 1 * PerPage = PerPage
      OBVIOUS
    <3>2. IsCut(L!PageOf(1), x1, (1 - 1) * PerPage + 1, L!Lesser(1 * PerPage, Len(x1)))
      BY <2>1, PageIsCut
    <3>3. PICK t : t = L!PageOf(1)
      OBVIOUS
    <3>4. IsCut(t, x1, 1, L!Lesser(PerPage, Len(x1)))
      BY <3>1, <3>2, <3>3
    <3>5. t \in Seq(Int) /\ Falls(t) /\ \A k \in 1..Len(x1), i \in 1..Len(t) : k > PerPage => x1[k] < t[i]
      <4>1. PerPage \in Nat
        OBVIOUS
      <4> QED BY <3>4, <4>1, <2>1, CutFalls DEF IsCut
    <3>6. x4' = t /\ x6' * PerPage = PerPage
      BY <2>1, <2>2, <2>3, <3>1, <3>3
    <3>7. IsCut(x4', x1', 1, L!Lesser(x6' * PerPage, Len(x1'))) /\ x4' \in Seq(Int) /\ Falls(x4')
          /\ \A k \in 1..Len(x1'), i \in 1..Len(x4') : k > x6' * PerPage => x1'[k] < x4'[i]
      BY <3>4, <3>5, <3>6, <2>2
    <3> QED BY <3>7, <2>2, <2>3 DEF ListingInv, Falls, IsCut, L!Lesser
  <2>4. CASE x7' = "missing" /\ UNCHANGED x4
    BY <2>1, <2>2, <2>4 DEF ListingInv, Falls
  <2> QED BY <1>1, <2>3, <2>4 DEF L!Load
<1>2. CASE L!ShowMore
  <2>1. UNCHANGED <<x1, x2, x4, x6, x7, x9, x11, x12, x14>> /\ x7 = "shown" /\ x3' = Append(x3, x6 + 1)
    BY <1>2 DEF L!ShowMore
  <2>2. x3' \in Seq(Nat \ {0}) /\ x13' \in Nat /\ (x13' = 0 => x13 = 0)
    BY <1>2, <2>1 DEF ListingInv, L!ShowMore
  <2>3. x13' = 0 => Len(x3') <= 1 /\ \A i \in 1..Len(x3') : x3'[i] = x6 + 1
    BY <1>2, <2>1 DEF ListingInv, L!ShowMore
  <2> QED BY <2>1, <2>2, <2>3 DEF ListingInv, Falls, IsCut, L!Lesser
<1>3. CASE L!Publish
  <2>1. UNCHANGED <<x3, x4, x6, x7, x9, x12, x13, x14>> /\ x2' = x2 + 1 /\ x1' = <<x2 + 1>> \o x1
        /\ x11' = (x11 \/ x7 = "shown")
    BY <1>3 DEF L!Publish
  <2>2. PICK w : w = <<x2 + 1>> \o x1
    OBVIOUS
  <2>3. x1 \in Seq(Int) /\ Falls(x1) /\ x2 \in Nat /\ \A i \in 1..Len(x1) : x1[i] <= x2 /\ x1[i] \in Int
    BY DEF ListingInv
  <2>4. /\ w \in Seq(Int) /\ Len(w) = Len(x1) + 1 /\ Len(x1) \in Nat
        /\ w[1] = x2 + 1 /\ \A i \in 1..Len(x1) : w[i + 1] = x1[i]
    <3>1. <<x2 + 1>> \in Seq(Int) /\ Len(<<x2 + 1>>) = 1 /\ <<x2 + 1>>[1] = x2 + 1
      BY <2>3
    <3> QED BY <2>2, <2>3, <3>1, ConcatProperties
  <2>5. \A i \in 1..Len(w) : i = 1 \/ (i - 1 \in 1..Len(x1) /\ w[i] = x1[i - 1])
    <3> SUFFICES ASSUME NEW i \in 1..Len(w), i # 1 PROVE i - 1 \in 1..Len(x1) /\ w[i] = x1[i - 1]
      OBVIOUS
    <3>1. i - 1 \in 1..Len(x1) /\ (i - 1) + 1 = i
      BY <2>4
    <3> QED BY <3>1, <2>4
  <2>6. ASSUME NEW i \in 1..Len(w) PROVE w[i] <= x2 + 1
    <3>1. CASE i = 1
      BY <3>1, <2>3, <2>4
    <3>2. CASE i - 1 \in 1..Len(x1) /\ w[i] = x1[i - 1]
      <4>1. w[i] <= x2 /\ w[i] \in Int
        BY <3>2, <2>3
      <4> QED BY <4>1, <2>3
    <3> QED BY <3>1, <3>2, <2>5
  <2>7. Falls(w)
    <3> SUFFICES ASSUME NEW i \in 1..Len(w), NEW j \in 1..Len(w), i < j PROVE w[i] > w[j]
      BY DEF Falls
    <3>0. j # 1
      BY <2>4
    <3>1. j - 1 \in 1..Len(x1) /\ w[j] = x1[j - 1] /\ w[j] <= x2 /\ w[j] \in Int
      <4>1. j - 1 \in 1..Len(x1) /\ w[j] = x1[j - 1]
        BY <3>0, <2>5
      <4> QED BY <4>1, <2>3
    <3>2. CASE i = 1
      BY SMTT(30), <3>1, <3>2, <2>3, <2>4
    <3>3. CASE i # 1
      <4>1. i - 1 \in 1..Len(x1) /\ w[i] = x1[i - 1] /\ i - 1 < j - 1
        BY <3>3, <2>4, <2>5
      <4> QED BY <4>1, <3>1, <2>3 DEF Falls
    <3> QED BY <3>2, <3>3
  <2>8. x1' = w /\ x1' \in Seq(Int) /\ x2' \in Nat /\ (\A i \in 1..Len(x1') : x1'[i] <= x2') /\ Falls(x1')
    BY <2>1, <2>2, <2>3, <2>4, <2>6, <2>7
  <2>9. CASE x7 = "shown"
    <3>1. x11' = TRUE
      BY <2>1, <2>9
    <3> QED BY <2>1, <2>8, <3>1 DEF ListingInv, Falls
  <2>10. CASE x7 # "shown"
    <3>1. x4 = <<>> /\ x11' \in BOOLEAN
      BY <2>1, <2>10 DEF ListingInv
    <3>2. Len(x4') = 0 /\ x7' # "shown"
      BY <3>1, <2>1, <2>10
    <3> QED BY <2>1, <2>8, <3>1, <3>2 DEF ListingInv, Falls
  <2> QED BY <2>9, <2>10
<1>4. ASSUME NEW i \in DOMAIN x3, L!MoreArrives(i) PROVE ListingInv'
  <2>1. UNCHANGED <<x1, x2, x7, x9, x11, x12, x13, x14>> /\ x3' = L!Without(x3, i)
    BY <1>4 DEF L!MoreArrives
  <2>2. x3 \in Seq(Nat \ {0}) /\ i \in 1..Len(x3) /\ Len(x3) \in Nat
    BY DEF ListingInv
  <2>3. /\ x3' \in Seq(Nat \ {0}) /\ Len(x3') = Len(x3) - 1
        /\ x3[i] \in Nat \ {0} /\ x7 = "shown"
    <3>1. L!Without(x3, i) \in Seq(Nat \ {0}) /\ Len(L!Without(x3, i)) = Len(x3) - 1
      BY <2>2, WithoutOne
    <3>2. x7 = "shown"
      BY <2>2 DEF ListingInv
    <3> QED BY <2>1, <2>2, <3>1, <3>2
  <2>4. x13 = 0 => Len(x3') = 0 /\ x3[i] = x6 + 1
    BY <2>2, <2>3 DEF ListingInv
  <2>7. x13' = 0 => Len(x3') <= 1 /\ \A j \in 1..Len(x3') : x3'[j] = x6' + 1
    <3> SUFFICES ASSUME x13' = 0 PROVE Len(x3') <= 1 /\ \A j \in 1..Len(x3') : x3'[j] = x6' + 1
      OBVIOUS
    <3>1. Len(x3') = 0
      BY <2>1, <2>4
    <3>2. 1..Len(x3') = {}
      BY <3>1
    <3> QED BY <3>1, <3>2
  <2>5. CASE UNCHANGED <<x4, x6>>
    <3> QED BY <2>1, <2>3, <2>5, <2>7 DEF ListingInv, Falls, IsCut, L!Lesser
  <2>6. CASE x4' = x4 \o L!PageOf(x3[i]) /\ x6' = x3[i]
    <3>2. x1 \in Seq(Int) /\ Falls(x1) /\ x4 \in Seq(Int) /\ x6 \in Nat \ {0}
      BY DEF ListingInv
    <3>3. IsCut(L!PageOf(x3[i]), x1, (x3[i] - 1) * PerPage + 1, L!Lesser(x3[i] * PerPage, Len(x1)))
      BY <2>3, <3>2, PageIsCut
    <3>4. PICK u : u = L!PageOf(x3[i])
      OBVIOUS
    <3>5. u \in Seq(Int) /\ x4' \in Seq(Int)
      BY <3>2, <3>3, <3>4, <2>6 DEF IsCut
    <3>6. CASE x13 # 0
      BY <2>7, <3>5, <3>6, <2>1, <2>3, <2>6 DEF ListingInv, Falls
    <3>7. CASE x13 = 0
      <4>1. x3[i] = x6 + 1
        BY <2>4, <3>7
      <4> DEFINE a == x6 * PerPage
                 b == (x6 + 1) * PerPage
      <4>2. IsCut(u, x1, a + 1, L!Lesser(b, Len(x1)))
        <5>1. u = L!PageOf(x6 + 1)
          BY <3>4, <4>1
        <5> QED BY <5>1, <3>2, NextPageIsCut
      <4>3. a \in Nat /\ b \in Nat /\ a <= b /\ x6' * PerPage = b
        BY <1>0, <2>6, <4>1
      <4>4. x13 = 0 /\ x11 = FALSE /\ x12 = FALSE => IsCut(x4, x1, 1, L!Lesser(a, Len(x1)))
        BY <2>3 DEF ListingInv
      <4>5. x11 = FALSE => Falls(x4) /\ \A k \in 1..Len(x1), j \in 1..Len(x4) : k > a => x1[k] < x4[j]
        BY <3>7 DEF ListingInv
      <4> HIDE DEF a, b
      <4>6. /\ IsCut(x4, x1, 1, L!Lesser(a, Len(x1))) => IsCut(x4', x1, 1, L!Lesser(b, Len(x1)))
            /\ x11 = FALSE => /\ Falls(x4')
                              /\ \A k \in 1..Len(x1), j \in 1..Len(x4') : k > b => x1[k] < x4'[j]
        <5>1. x4' = x4 \o u
          BY <2>6, <3>4
        <5> QED BY <3>2, <4>2, <4>3, <4>5, <5>1, PageAdds
      <4>7. x11' = FALSE => /\ Falls(x4')
                            /\ \A k \in 1..Len(x1'), j \in 1..Len(x4') : k > x6' * PerPage => x1'[k] < x4'[j]
        BY <4>3, <4>6, <2>1
      <4>8. x11' = FALSE /\ x12' = FALSE => IsCut(x4', x1', 1, L!Lesser(x6' * PerPage, Len(x1')))
        BY <4>3, <4>4, <4>6, <2>1, <3>7
      <4> QED BY <4>7, <4>8, <2>7, <3>5, <2>1, <2>3, <2>6 DEF ListingInv, Falls, IsCut, L!Lesser
    <3> QED BY <3>6, <3>7
  <2> QED BY <1>4, <2>5, <2>6 DEF L!MoreArrives, L!Turn
<1>5. ASSUME NEW i \in DOMAIN x1, L!Remove(i) PROVE ListingInv'
  <2>1. UNCHANGED <<x2, x3, x4, x6, x7, x9, x11, x13, x14>> /\ x1' = L!Without(x1, i)
        /\ x12' = (x12 \/ x7 = "shown")
    BY <1>5 DEF L!Remove
  <2>2. x1 \in Seq(Int) /\ i \in 1..Len(x1) /\ Len(x1) \in Nat /\ Falls(x1)
        /\ x2 \in Nat /\ \A j \in 1..Len(x1) : x1[j] <= x2
    BY DEF ListingInv
  <2>3. PICK w : w = L!Without(x1, i)
    OBVIOUS
  <2>4. w \in Seq(Int) /\ Len(w) = Len(x1) - 1
        /\ \A j \in 1..Len(w) : w[j] = IF j < i THEN x1[j] ELSE x1[j + 1]
    BY <2>2, <2>3, WithoutOne
  <2>5. ASSUME NEW j \in 1..Len(w)
        PROVE \E k \in 1..Len(x1) : w[j] = x1[k] /\ k = (IF j < i THEN j ELSE j + 1)
    <3>1. j \in 1..Len(x1) /\ j + 1 \in 1..Len(x1)
      BY <2>2, <2>4
    <3> QED BY <3>1, <2>4
  <2>6. \A j \in 1..Len(w) : w[j] <= x2
    BY <2>2, <2>5
  <2>7. Falls(w)
    <3> SUFFICES ASSUME NEW j \in 1..Len(w), NEW k \in 1..Len(w), j < k PROVE w[j] > w[k]
      BY DEF Falls
    <3>1. PICK p \in 1..Len(x1) : w[j] = x1[p] /\ p = (IF j < i THEN j ELSE j + 1)
      BY <2>5
    <3>2. PICK q \in 1..Len(x1) : w[k] = x1[q] /\ q = (IF k < i THEN k ELSE k + 1)
      BY <2>5
    <3>3. p < q
      BY SMTT(30), <3>1, <3>2, <2>2
    <3> QED BY <3>1, <3>2, <3>3, <2>2 DEF Falls
  <2>8. x1' = w /\ x1' \in Seq(Int) /\ x2' \in Nat /\ (\A j \in 1..Len(x1') : x1'[j] <= x2') /\ Falls(x1')
    BY <2>1, <2>2, <2>3, <2>4, <2>6, <2>7
  <2>9. x13' = 0 /\ x11' = FALSE =>
          /\ Falls(x4')
          /\ \A k \in 1..Len(x1'), j \in 1..Len(x4') : k > x6' * PerPage => x1'[k] < x4'[j]
    <3> SUFFICES ASSUME x13 = 0, x11 = FALSE
                 PROVE /\ Falls(x4)
                       /\ \A k \in 1..Len(w), j \in 1..Len(x4) : k > x6 * PerPage => w[k] < x4[j]
      BY <2>1, <2>8
    <3>1. /\ Falls(x4)
          /\ \A k \in 1..Len(x1), j \in 1..Len(x4) : k > x6 * PerPage => x1[k] < x4[j]
      BY DEF ListingInv
    <3>2. ASSUME NEW k \in 1..Len(w), NEW j \in 1..Len(x4), k > x6 * PerPage PROVE w[k] < x4[j]
      <4>1. PICK p \in 1..Len(x1) : w[k] = x1[p] /\ p = (IF k < i THEN k ELSE k + 1)
        BY <2>5
      <4>2. p > x6 * PerPage
        <5> DEFINE a == x6 * PerPage
        <5>1. a \in Nat /\ k > a
          BY <1>0, <3>2
        <5> HIDE DEF a
        <5>2. p > a
          BY <4>1, <5>1, <2>2
        <5> QED BY <5>2 DEF a
      <4> QED BY <4>1, <4>2, <3>1
    <3> QED BY <3>1, <3>2
  <2>10. CASE x7 = "shown"
    <3>1. x12' = TRUE
      BY <2>1, <2>10
    <3> QED BY <2>1, <2>8, <2>9, <3>1 DEF ListingInv, Falls
  <2>11. CASE x7 # "shown"
    <3>1. x12' \in BOOLEAN
      BY <2>1, <2>11 DEF ListingInv
    <3> QED BY <2>1, <2>8, <2>9, <2>11, <3>1 DEF ListingInv, Falls
  <2> QED BY <2>10, <2>11
<1> QED BY <1>1, <1>2, <1>3, <1>4, <1>5 DEF L!Next

LEMMA ListingHolds ==
  ASSUME PerPage \in Nat \ {0}, Days \subseteq Int, ListingInv
  PROVE  L!ReviewsInOrder /\ L!ReviewsShownOnce /\ L!CalendarFitsForm
<1>1. L!ReviewsInOrder
  <2> SUFFICES ASSUME x7 = "shown", x13 = 0, ~x11, ~x12
               PROVE x4 = SubSeq(x1, 1, L!Lesser(x6 * PerPage, Len(x1)))
    BY DEF L!ReviewsInOrder
  <2>1. x1 \in Seq(Int) /\ x6 * PerPage \in Nat
    BY PagesAre DEF ListingInv
  <2>2. L!Lesser(x6 * PerPage, Len(x1)) \in 0..Len(x1)
    BY <2>1 DEF L!Lesser
  <2>3. IsCut(x4, x1, 1, L!Lesser(x6 * PerPage, Len(x1)))
    BY DEF ListingInv
  <2> QED BY <2>1, <2>2, <2>3, SubSeqIsCut
<1>2. L!ReviewsShownOnce
  <2> SUFFICES ASSUME x13 = 0, ~x11 PROVE L!Cardinality(L!Ids(x4)) = Len(x4)
    BY DEF L!ReviewsShownOnce
  <2>1. x4 \in Seq(Int) /\ Falls(x4)
    BY DEF ListingInv
  <2> QED BY <2>1, FallingOnce, CountedIn
<1>3. L!CalendarFitsForm
  <2> SUFFICES ASSUME NEW d \in Days
               PROVE  /\ L!Shade(d) = "available" => d >= x9 /\ d \in L!Offered
                      /\ d \in L!Offered /\ (d > x9 \/ (d = x9 /\ x14 >= 0)) => L!Shade(d) = "available"
    BY DEF L!CalendarFitsForm
  <2>1. d \in Int /\ x9 \in Int /\ x14 \in -12..14
    BY DEF ListingInv
  <2>2. L!Past(d) <=> 24 * d < 24 * x9 - x14
    BY DEF L!Past, L!DayHours
  <2>3. /\ ~L!Past(d) => d >= x9
        /\ d > x9 \/ (d = x9 /\ x14 >= 0) => ~L!Past(d)
    BY <2>1, <2>2
  <2>4. d \in L!Offered <=> \E s \in x8[d] : L!Free(s)
    BY DEF L!Offered
  <2>5. L!Shade(d) = "available" <=> ~L!Past(d) /\ \E s \in x8[d] : L!Free(s)
    BY DEF L!Shade
  <2> QED BY <2>3, <2>4, <2>5
<1> QED BY <1>1, <1>2, <1>3

-----------------------------------------------------------------------------
(* The numbers add up.                                                     *)

\* The numbers and pages shown add up. Of an experience's reviews the pages show each
\* once and in order, and its calendar marks what the form offers; the buttons of a
\* search reach every page of it, and its pages share the results out; a client passes
\* at most twice its limit in a window's length, and only one that went on asking waits;
\* an outage is told and not hidden; the administrator's metrics are counts of one moment
\* unless users came in between; a cancellation promises what its policy does. For any
\* number of reviews, days, pages asked for and calls that overlap.
THEOREM NumbersAgree ==
  ASSUME IsFiniteSet(Actors), None \notin LimitRecord,
         PerPage \in Nat \ {0}, MaxReviews \in Nat, Days \subseteq Int
  PROVE  Spec => []NumbersAddUp
<1> DEFINE Inv == /\ part = "listing" => ListingInv
                  /\ part = "search" => SearchInv
                  /\ part = "pages" => PagesInv
                  /\ part = "limit" => LimitInv
                  /\ part = "database" => DatabaseInv
                  /\ part = "metrics" => MetricsInv
                  /\ part = "refund" => RefundInv
<1>1. Init => Inv
  BY ListingStarts, SearchStarts, PagesStart, LimitStarts, DatabaseStarts, MetricsStart,
     RefundStarts DEF Init
<1>2. Inv /\ [Next]_vars => Inv'
  <2> SUFFICES ASSUME Inv, [Next]_vars PROVE Inv'
    OBVIOUS
  <2>1. part' = part
    BY DEF Next, vars
  <2>2. CASE UNCHANGED vars
    <3>1. UNCHANGED <<x1, x2, x3, x4, x5, x6, x7, x8, x9, x10, x11, x12, x13, x14, x15, x16, x17,
                     x18>>
      BY <2>2 DEF vars
    <3>2. ListingInv => ListingInv'
      BY <3>1 DEF ListingInv, Falls, IsCut, L!Lesser
    <3>3. SearchInv => SearchInv'
      BY <3>1 DEF SearchInv
    <3>4. PagesInv => PagesInv'
      BY <3>1 DEF PagesInv, Slice, Above, Higher, X!Precedes
    <3>5. LimitInv => LimitInv'
      BY <3>1 DEF LimitInv, Counts, At, Came, Passed, Before, Q!limit
    <3>6. DatabaseInv => DatabaseInv'
      BY <3>1 DEF DatabaseInv, Trying
    <3>7. MetricsInv => MetricsInv'
      <4>1. Everybody' = Everybody /\ \A c \in M!Counts : M!Count(c)' = M!Count(c)
        BY <3>1 DEF Everybody, M!Count
      <4>2. \A a \in Actors : Counting(x4[a])' <=> Counting(x4[a])
        BY <3>1, <4>1 DEF Counting
      <4>3. (Counted(x5)' <=> Counted(x5)) /\ (Counted(x3.data)' <=> Counted(x3.data))
        BY <3>1, <4>1 DEF Counted
      <4> QED BY <3>1, <4>1, <4>2, <4>3 DEF MetricsInv
    <3>8. RefundInv => RefundInv'
      BY <3>1 DEF RefundInv, C!RefundKeepsDeadline, C!calculateRefundAmount, C!untilStart, C!cutoffHours
    <3> QED BY <2>1, <3>2, <3>3, <3>4, <3>5, <3>6, <3>7, <3>8
  <2>3. CASE Next /\ part = "listing"
    BY <2>1, <2>3, ListingStep DEF Next
  <2>4. CASE Next /\ part = "search"
    BY <2>1, <2>4, SearchStep DEF Next
  <2>5. CASE Next /\ part = "pages"
    BY <2>1, <2>5, PagesStep DEF Next
  <2>6. CASE Next /\ part = "limit"
    BY <2>1, <2>6, LimitStep DEF Next
  <2>7. CASE Next /\ part = "database"
    BY <2>1, <2>7, DatabaseStep DEF Next
  <2>8. CASE Next /\ part = "metrics"
    BY <2>1, <2>8, MetricsStep DEF Next
  <2>9. CASE Next /\ part = "refund"
    BY <2>1, <2>9, RefundStep DEF Next
  <2> QED BY <2>1, <2>2, <2>3, <2>4, <2>5, <2>6, <2>7, <2>8, <2>9
<1>3. Inv => NumbersAddUp
  <2>1. SearchInv => F!ButtonsSpanPages
    <3>1. SearchInv => x3 \in Nat \ {0} /\ x4 \in Nat
      BY DEF SearchInv
    <3> QED BY <3>1, ButtonsReach
  <2>2. RefundInv => C!RefundKeepsDeadline
    BY DEF RefundInv
  <2> HIDE DEF Inv
  <2>3. Inv => /\ part = "listing" => L!ReviewsInOrder /\ L!ReviewsShownOnce /\ L!CalendarFitsForm
               /\ part = "search" => F!ButtonsSpanPages
               /\ part = "pages" => X!PagesPartition
               /\ part = "limit" => Q!AtMostTwiceTheLimit /\ Q!OnlyTheGreedyWait
               /\ part = "database" => D!OutageIsSpared /\ D!SeenIsFound
               /\ part = "metrics" => M!MetricsAddUp
               /\ part = "refund" => C!RefundKeepsDeadline
    BY <2>1, <2>2, ListingHolds, PagesHold, LimitHolds, OutagesAreSeen, MetricsAgree DEF Inv
  <2> QED BY <2>3 DEF NumbersAddUp
<1> QED BY <1>1, <1>2, <1>3, PTL DEF Spec

-----------------------------------------------------------------------------
(* The types of the parts of this module, and of all.                      *)

\* Each cancellation is answered with its share, or not at all.
LEMMA RefundTyped ==
  /\ C!Init => C!TypeOK
  /\ C!TypeOK /\ C!Next => C!TypeOK'
BY RefundAssumption DEF C!Init, C!Next, C!TypeOK, C!Pass, C!Cancel, C!Policies, C!Roles, C!calculateRefund

\* The calls that watch the database are bounded, and try a number of times again.
DatabaseTypes == x8 \in 0..MaxCalls /\ x9 \in 0..MaxFlips /\ \A j \in Actors : x4[j].tries <= retries

LEMMA DatabaseTyped ==
  /\ D!Init => DatabaseTypes
  /\ DatabaseInv /\ DatabaseTypes /\ D!Next => DatabaseTypes'
  /\ DatabaseInv /\ DatabaseTypes => D!TypeOK
<1>n. retries \in Nat /\ MaxCalls \in Nat /\ MaxFlips \in Nat
  BY NumbersAssumption
<1>1. ASSUME D!Init PROVE DatabaseTypes
  BY <1>n, <1>1 DEF D!Init, D!Idle, DatabaseTypes
<1>2. ASSUME DatabaseInv, DatabaseTypes, D!Next PROVE DatabaseTypes'
  <2>a. /\ x8 \in 0..MaxCalls /\ x9 \in 0..MaxFlips /\ x4 \in [Actors -> Jobs]
        /\ \A j \in Actors : x4[j].tries \in Nat /\ x4[j].tries <= retries
    BY <1>2 DEF DatabaseTypes, DatabaseInv, Jobs
  \* One call goes on.
  <2>g. ASSUME NEW j \in Actors, NEW r, x4' = [x4 EXCEPT ![j] = r], r.tries <= retries, x8' \in 0..MaxCalls, x9' = x9
        PROVE  DatabaseTypes'
    BY <2>a, <2>g DEF DatabaseTypes
  <2>k. ASSUME NEW j \in Actors, NEW at, NEW answer
        PROVE  /\ [x4[j] EXCEPT !.at = at].tries <= retries
               /\ [x4[j] EXCEPT !.at = at, !.answer = answer].tries <= retries
    <3>1. DOMAIN x4[j] = {"call", "at", "tries", "seen", "answer"}
      BY <2>a DEF Jobs
    <3> QED BY <2>a, <3>1
  <2>d. ASSUME NEW j \in Actors, NEW at, D!Goto(j, at), x8' = x8, x9' = x9 PROVE DatabaseTypes'
    BY <2>a, <2>g, <2>k, <2>d DEF D!Goto
  <2>e. ASSUME NEW j \in Actors, NEW answer, D!Done(j, answer), x8' = x8, x9' = x9 PROVE DatabaseTypes'
    <3>1. x4' = [x4 EXCEPT ![j] = [x4[j] EXCEPT !.at = "done", !.answer = answer]]
      BY <2>a, <2>e DEF D!Done
    <3> QED BY <2>a, <2>g, <2>k, <2>e, <3>1
  <2>t. ASSUME NEW j \in Actors, D!Attempt(j), x8' = x8, x9' = x9 PROVE DatabaseTypes'
    <3>1. CASE D!Done(j, FALSE)
      BY <2>e, <2>t, <3>1
    <3>2. CASE x4' = [x4 EXCEPT ![j].at = "sleep"]
      BY <2>d, <2>t, <3>2 DEF D!Goto
    <3> QED BY <2>t, <3>1, <3>2 DEF D!Attempt
  <2>1. ASSUME NEW j \in Actors, NEW call, NEW at, D!Begin(j, call, at) PROVE DatabaseTypes'
    <3>1. /\ x4' = [x4 EXCEPT ![j] = [D!Idle EXCEPT !.call = call, !.at = at, !.seen = x7]]
          /\ x8' \in 0..MaxCalls /\ x9' = x9
      BY <1>n, <2>1, <2>a DEF D!Begin
    <3>2. [D!Idle EXCEPT !.call = call, !.at = at, !.seen = x7].tries <= retries
      BY <1>n DEF D!Idle
    <3> HIDE DEF D!Idle
    <3> QED BY <2>g, <3>1, <3>2
  <2>2. ASSUME NEW j \in Actors, D!Enter(j) PROVE DatabaseTypes'
    BY <2>2, <2>t DEF D!Enter
  <2>3. ASSUME NEW j \in Actors, D!Wake(j) PROVE DatabaseTypes'
    BY <2>3, <2>d DEF D!Wake
  <2>4. ASSUME NEW j \in Actors, D!Initialize(j) PROVE DatabaseTypes'
    BY <2>4, <2>t, <2>d DEF D!Initialize
  <2>5. ASSUME NEW j \in Actors, D!Select(j) PROVE DatabaseTypes'
    BY <2>5, <2>t, <2>d, <2>e DEF D!Select
  <2>6. ASSUME NEW j \in Actors, D!Pool(j) PROVE DatabaseTypes'
    BY <2>6, <2>e DEF D!Pool
  <2>7. ASSUME NEW j \in Actors, D!Run(j) PROVE DatabaseTypes'
    <3>1. x8' = x8 /\ x9' = x9
      BY <2>7 DEF D!Run
    <3>2. CASE \E ok : D!Done(j, ok)
      BY <2>e, <3>1, <3>2
    <3>3. CASE x4[j].tries < retries /\ x4' = [x4 EXCEPT ![j].at = "pause", ![j].tries = @ + 1]
      <4>1. x4'[j].tries = x4[j].tries + 1 /\ \A i \in Actors \ {j} : x4'[i] = x4[i]
        <5>1. DOMAIN x4[j] = {"call", "at", "tries", "seen", "answer"}
          BY <2>a DEF Jobs
        <5> QED BY <2>a, <3>3, <5>1
      <4> QED BY <1>n, <2>a, <3>1, <3>3, <4>1 DEF DatabaseTypes
    <3> QED BY <2>7, <3>2, <3>3 DEF D!Run
  <2>8. ASSUME NEW j \in Actors, D!Pause(j) PROVE DatabaseTypes'
    BY <2>8, <2>d DEF D!Pause
  <2>9. ASSUME NEW j \in Actors, D!Return(j) PROVE DatabaseTypes'
    <3>1. D!Idle.tries <= retries
      BY <1>n DEF D!Idle
    <3>2. x4' = [x4 EXCEPT ![j] = D!Idle] /\ x8' = x8 /\ x9' = x9
      BY <2>9 DEF D!Return
    <3> QED BY <2>a, <2>g, <3>1, <3>2
  <2>10. CASE D!Flip
    <3>1. \A j \in Actors : x4'[j].tries = x4[j].tries
      <4>1. \A j \in Actors : DOMAIN x4[j] = {"call", "at", "tries", "seen", "answer"}
        BY <2>a DEF Jobs
      <4> QED BY <2>10, <4>1 DEF D!Flip
    <3>2. x8' = x8 /\ x9' \in 0..MaxFlips
      BY <1>n, <2>10, <2>a DEF D!Flip
    <3> QED BY <2>a, <3>1, <3>2 DEF DatabaseTypes
  <2> QED BY <1>2, <2>1, <2>2, <2>3, <2>4, <2>5, <2>6, <2>7, <2>8, <2>9, <2>10
          DEF D!Next, D!Step, D!checkHealth, D!retryConnection, D!executeWithRetry
<1>3. DatabaseInv /\ DatabaseTypes => D!TypeOK
  <2> SUFFICES ASSUME DatabaseInv, DatabaseTypes PROVE D!TypeOK
    OBVIOUS
  <2>1. x1 \in BOOLEAN /\ x2 \in BOOLEAN /\ x7 \in BOOLEAN
    BY Zenon DEF DatabaseInv
  <2>2. /\ x3 \in 0..maxRetries /\ x5 \in Nat /\ x6 \in Nat /\ x4 \in [Actors -> Jobs]
        /\ x8 \in 0..MaxCalls /\ x9 \in 0..MaxFlips /\ \A j \in Actors : x4[j].tries <= retries
    BY DEF DatabaseInv, DatabaseTypes
  <2>3. \A j \in Actors : x4[j] \in [call : {"none", "check", "chain", "query"}, at : Places,
                                     tries : 0..retries, seen : BOOLEAN, answer : BOOLEAN]
    BY <1>n, <2>2 DEF Jobs
  <2> QED BY <2>1, <2>2, <2>3 DEF D!TypeOK, Places
<1> QED BY <1>1, <1>2, <1>3

\* A page asked for holds what was found there.
LEMMA PagesTyped ==
  ASSUME MaxShifts \in Nat
  PROVE  /\ X!Init => X!TypeOK
         /\ PagesInv /\ PagesInv' /\ X!TypeOK /\ X!Next => X!TypeOK'
<1>3. X!Cardinality(Found) = Cardinality(Found) /\ Cardinality(Found) \in Nat
  BY CountedThere, SearchAssumption, FS_CardinalityType, Zenon
<1>1. ASSUME X!Init PROVE X!TypeOK
  <2>1. x4 = Cardinality(Found)
    BY <1>1, <1>3 DEF X!Init
  <2> QED BY <1>1, <1>3, <2>1 DEF X!Init, X!TypeOK, X!NotAsked
<1>2. ASSUME PagesInv, PagesInv', X!TypeOK, X!Next PROVE X!TypeOK'
  <2>a. /\ x1 \subseteq Found /\ x4 \in 0..Cardinality(Found) /\ x6 \in 0..MaxShifts
        /\ x5 \in [at : {"idle", "rows", "count"}, rows : SUBSET Found]
    BY <1>2, <1>3 DEF X!TypeOK
  <2>b. /\ x1' \subseteq Found /\ x2' \in [Found -> Ranks] /\ x5'.rows \subseteq Found
        /\ \A i \in DOMAIN x3' : x3'[i] \subseteq Found
    <3>1. x3' \in Seq(SUBSET Found) /\ x1' \subseteq Found /\ x2' \in [Found -> Ranks] /\ x5'.rows \subseteq Found
      BY <1>2 DEF PagesInv
    <3> QED BY <3>1
  <2>r. ASSUME x4' \in 0..Cardinality(Found), x6' \in 0..MaxShifts, NEW at \in {"idle", "rows", "count"}, NEW rows, x5' = [at |-> at, rows |-> rows]
        PROVE  X!TypeOK'
    <3>1. x5' \in [at : {"idle", "rows", "count"}, rows : SUBSET Found]
      <4>1. rows \subseteq Found
        BY <2>b, <2>r
      <4> QED BY <2>r, <4>1
    <3> QED BY <1>3, <2>b, <2>r, <3>1 DEF X!TypeOK
  <2>1. CASE X!SelectIds
    <3>1. PICK order \in X!Orders : x5' = [at |-> "rows", rows |-> X!PageOf(order, Len(x3) + 1)]
      BY <2>1 DEF X!SelectIds
    <3>2. x4' = x4 /\ x6' = x6
      BY <2>1 DEF X!SelectIds
    <3> QED BY <2>a, <2>r, <3>1, <3>2
  <2>2. CASE X!SelectRows
    BY <2>2, <2>a, <2>r DEF X!SelectRows
  <2>3. CASE X!Count
    <3>1. X!Cardinality(x1) \in 0..Cardinality(Found)
      <4>1. IsFiniteSet(x1) /\ Cardinality(x1) <= Cardinality(Found)
        BY <2>a, SearchAssumption, FS_Subset
      <4>2. Cardinality(x1) \in Nat
        BY <4>1, FS_CardinalityType
      <4>3. Cardinality(x1) \in 0..Cardinality(Found)
        BY <1>3, <4>1, <4>2
      <4> QED BY <4>3, CountedThere
    <3> QED BY <2>3, <2>a, <2>r, <3>1 DEF X!Count, X!NotAsked
  <2>4. CASE X!Change
    <3>1. x4' = x4 /\ x5' = x5 /\ x6' \in 0..MaxShifts
      BY <2>4, <2>a DEF X!Change
    <3>2. x5 = [at |-> x5.at, rows |-> x5.rows] /\ x5.at \in {"idle", "rows", "count"}
      BY <2>a
    <3> QED BY <2>a, <2>r, <3>1, <3>2
  <2> QED BY <1>2, <2>1, <2>2, <2>3, <2>4 DEF X!Next
<1> QED BY <1>1, <1>2

\* A window begins, and a request comes, when the clock says so.
LimitTypes ==
  /\ x1 \in 1..MaxTime /\ x2 \in {"user", "ip", "admin"}
  /\ x3 = None \/ (x3 \in LimitRecord /\ x3.windowStart \in 1..MaxTime)
  /\ \A q \in x4 : q.at \in 1..MaxTime

LEMMA LimitTyped ==
  ASSUME MaxTime \in Nat \ {0}
  PROVE  /\ Q!Init => LimitTypes
         /\ LimitInv /\ LimitTypes /\ Q!Next => LimitTypes'
         /\ LimitInv /\ LimitTypes => Q!TypeOK
<1>1. Q!Init => LimitTypes
  BY DEF Q!Init, LimitTypes
<1>2. ASSUME LimitInv, LimitTypes, Q!Next PROVE LimitTypes'
  <2>a. /\ x1 \in 1..MaxTime /\ x2 \in {"user", "ip", "admin"}
        /\ x3 = None \/ (x3 \in LimitRecord /\ x3.windowStart \in 1..MaxTime)
        /\ \A q \in x4 : q.at \in 1..MaxTime
    BY <1>2 DEF LimitTypes
  <2>1. ASSUME NEW ok \in BOOLEAN, Q!Remember(ok), x1' = x1, x2' = x2,
               x3' = x3 \/ (x3' \in LimitRecord /\ x3'.windowStart \in 1..MaxTime)
        PROVE  LimitTypes'
    <3>1. x4' = Q!Kept \cup {Q!Entry(ok)}
      BY <2>1 DEF Q!Remember
    <3>2. Q!Kept \subseteq x4 /\ Q!Entry(ok).at = x1
      BY <1>2, EntryIsNew
    <3> QED BY <2>a, <2>1, <3>1, <3>2 DEF LimitTypes
  <2>2. Q!Current \in LimitRecord /\ Q!Current.windowStart \in 1..MaxTime
    <3>1. ASSUME NEW n \in Nat PROVE Q!Fresh(n) \in LimitRecord /\ Q!Fresh(n).windowStart = x1
      BY <2>a DEF Q!Fresh, LimitRecord
    <3>2. x3 \in LimitRecord => x3.violations \in Nat
      BY DEF LimitRecord
    <3> QED BY <2>a, <3>1, <3>2 DEF Q!Current
  <2>3. DOMAIN Q!Current = {"count", "windowStart", "violations", "backoffUntil"}
        /\ Q!Current.count \in Nat /\ Q!Current.violations \in Nat
    BY <2>2 DEF LimitRecord
  <2> DEFINE cur == Q!Current
  <2>4. cur \in LimitRecord /\ cur.windowStart \in 1..MaxTime /\ cur.count \in Nat /\ cur.violations \in Nat
        /\ DOMAIN cur = {"count", "windowStart", "violations", "backoffUntil"}
    BY <2>2, <2>3
  <2>5. CASE Q!Tick
    BY <2>5, <2>a DEF Q!Tick, LimitTypes
  <2>6. CASE Q!Whitelisted
    BY <2>1, <2>6 DEF Q!Whitelisted
  <2>7. CASE Q!Refused
    BY <2>1, <2>7 DEF Q!Refused
  <2>8. CASE Q!Served
    <3>1. x3' = [cur EXCEPT !.count = @ + 1] /\ Q!Remember(TRUE) /\ x1' = x1 /\ x2' = x2
      BY <2>8 DEF Q!Served
    <3> HIDE DEF cur
    <3>2. x3' \in LimitRecord /\ x3'.windowStart = cur.windowStart
      BY <2>4, <3>1 DEF LimitRecord
    <3> QED BY <2>1, <2>4, <3>1, <3>2
  <2>9. CASE Q!Violated
    <3> DEFINE until == x1 + Q!Backoff(cur.violations + 1)
    <3>1. /\ x3' = [cur EXCEPT !.count = @ + 1, !.violations = cur.violations + 1, !.backoffUntil = until]
          /\ Q!Remember(FALSE) /\ x1' = x1 /\ x2' = x2
      BY <2>9 DEF Q!Violated
    <3> HIDE DEF cur
    <3>2. until \in Nat
      <4> DEFINE v == cur.violations + 1
                 p == 2 ^ (v - 1)
      <4>1. v - 1 \in Nat
        BY <2>4
      <4>2. p \in Nat
        BY <4>1, PowerIs
      <4>3. Q!Backoff(v) = Q!Lesser(BASE_BACKOFF * p, MAX_BACKOFF)
        BY DEF Q!Backoff
      <4> HIDE DEF p
      <4>4. Q!Backoff(v) \in Nat
        <5>1. BASE_BACKOFF * p \in Nat
          BY <4>2, LimitAssumption
        <5> QED BY <4>3, <5>1, LimitIs DEF Q!Lesser
      <4> QED BY <2>a, <4>4
    <3> HIDE DEF until
    <3>3. x3' \in LimitRecord /\ x3'.windowStart = cur.windowStart
      <4> DEFINE a == [cur EXCEPT !.count = cur.count + 1]
                 b == [a EXCEPT !.violations = cur.violations + 1]
                 c == [b EXCEPT !.backoffUntil = until]
      <4>1. x3' = c
        BY <3>1
      <4>2. a \in LimitRecord /\ a.windowStart = cur.windowStart
        BY <2>4 DEF LimitRecord
      <4> HIDE DEF a
      <4>3. b \in LimitRecord /\ b.windowStart = cur.windowStart
        BY <2>4, <4>2 DEF LimitRecord
      <4> HIDE DEF b
      <4>4. c \in LimitRecord /\ c.windowStart = cur.windowStart
        BY <3>2, <4>3 DEF LimitRecord
      <4> HIDE DEF c
      <4> QED BY <4>1, <4>4
    <3> QED BY <2>1, <2>4, <3>1, <3>3
  <2> QED BY <1>2, <2>5, <2>6, <2>7, <2>8, <2>9 DEF Q!Next, Q!canActivate
<1>3. LimitInv /\ LimitTypes => Q!TypeOK
  <2> SUFFICES ASSUME LimitInv, LimitTypes PROVE Q!TypeOK
    OBVIOUS
  <2>1. x5 \in BOOLEAN
    BY Zenon DEF LimitInv
  <2>2. \A q \in x4 : q \in Arrivals /\ q.at \in 1..MaxTime
    BY DEF LimitInv, LimitTypes
  <2>3. \A q \in x4 : q \in [at : 1..MaxTime, nth : Nat, ok : BOOLEAN]
    BY <2>2 DEF Arrivals
  <2>4. x3 = None \/ x3 \in [count : Nat, windowStart : 1..MaxTime, violations : Nat, backoffUntil : Nat]
    <3>1. x3 = None \/ (x3 \in LimitRecord /\ x3.windowStart \in 1..MaxTime)
      BY DEF LimitTypes
    <3> QED BY <3>1 DEF LimitRecord
  <2> QED BY <2>1, <2>3, <2>4 DEF LimitTypes, Q!TypeOK
<1> QED BY <1>1, <1>2, <1>3

\* A count under way has a number, or none yet, for each of the users' roles.
LEMMA MetricsTyped ==
  /\ M!Init => M!TypeOK
  /\ MetricsInv /\ MetricsInv' /\ M!TypeOK /\ M!Next => M!TypeOK'
<1>n. TTL \in Nat /\ MaxUsers \in Nat /\ MaxTicks \in Nat
  BY NumbersAssumption
<1>d. M!Data = Tallies
  BY DEF M!Data, Tallies
<1>u. M!Uncounted \in Tallies
  <2>1. [c \in M!Counts |-> None] \in [M!Counts -> Nat \cup {None}]
    OBVIOUS
  <2>2. FALSE \in BOOLEAN
    OBVIOUS
  <2> QED BY <2>1, <2>2, Zenon DEF M!Uncounted, Tallies
<1>1. ASSUME M!Init PROVE M!TypeOK
  <2>1. x7 \in BOOLEAN
    BY <1>1, Zenon DEF M!Init
  <2> QED BY <1>n, <1>1, <2>1 DEF M!Init, M!TypeOK
<1>2. ASSUME MetricsInv, MetricsInv', M!TypeOK, M!Next PROVE M!TypeOK'
  <2>a. /\ x1 \in [M!Roles -> 0..MaxUsers] /\ x2 \in 0..MaxTicks
        /\ x3 = None \/ x3 \in [data : Tallies, expiresAt : Nat]
        /\ x4 \in [Actors -> Tallies \cup {None}] /\ x5 \in Tallies \cup {None}
    BY <1>2, <1>d DEF M!TypeOK
  <2>r. ASSUME /\ x1' \in [M!Roles -> 0..MaxUsers] /\ x2' \in 0..MaxTicks
               /\ x3' = None \/ x3' \in [data : Tallies, expiresAt : Nat]
               /\ x4' \in [Actors -> Tallies \cup {None}] /\ x5' \in Tallies \cup {None}
        PROVE  M!TypeOK'
    <3>1. x6' \in Nat
      BY <1>2 DEF MetricsInv
    <3>2. x7' \in BOOLEAN
      BY <1>2, Zenon DEF MetricsInv
    <3> QED BY <1>d, <2>r, <3>1, <3>2 DEF M!TypeOK
  <2>1. CASE M!FromCache
    <3>1. x5' = x3.data /\ x3 # None /\ x1' = x1 /\ x2' = x2 /\ x3' = x3 /\ x4' = x4
      BY <2>1 DEF M!FromCache, M!Cached, M!Answer
    <3>2. x3.data \in Tallies
      BY <2>a, <3>1
    <3> QED BY <1>n, <2>a, <2>r, <3>1, <3>2
  <2>2. CASE M!Tick
    BY <1>n, <2>2, <2>a, <2>r DEF M!Tick
  <2>3. ASSUME NEW r \in M!Open, M!Register(r) PROVE M!TypeOK'
    <3>1. /\ x1[r] < MaxUsers /\ x1' = [x1 EXCEPT ![r] = @ + 1] /\ x2' = x2 /\ x3' = x3 /\ x5' = x5
          /\ x4' = [a \in Actors |-> IF x4[a] # None THEN [x4[a] EXCEPT !.torn = TRUE] ELSE None]
      BY <2>3 DEF M!Register, M!Computing
    <3>2. x4' \in [Actors -> Tallies \cup {None}]
      <4>1. \A a \in Actors : x4[a] # None => [x4[a] EXCEPT !.torn = TRUE] \in Tallies
        BY <2>a, CountTorn
      <4> QED BY <3>1, <4>1
    <3>3. r \in M!Roles
      BY CountsAre
    <3> QED BY <1>n, <2>a, <2>r, <3>1, <3>2, <3>3
  <2>4. ASSUME NEW a \in Actors, M!Compute(a) PROVE M!TypeOK'
    <3>1. x4' = [x4 EXCEPT ![a] = M!Uncounted] /\ x1' = x1 /\ x2' = x2 /\ x3' = x3 /\ x5' = x5
      BY <2>4 DEF M!Compute
    <3> QED BY <1>u, <2>a, <2>r, <3>1
  <2>5. ASSUME NEW a \in Actors, M!Fail(a) PROVE M!TypeOK'
    BY <2>5, <2>a, <2>r DEF M!Fail
  <2>6. ASSUME NEW a \in Actors, M!Keep(a) PROVE M!TypeOK'
    <3>1. /\ x4[a] \in Tallies /\ x3' = [data |-> x4[a], expiresAt |-> x2 + TTL]
          /\ x5' = x4[a] /\ x4' = [x4 EXCEPT ![a] = None] /\ x1' = x1 /\ x2' = x2
      BY <2>6, <2>a DEF M!Keep, M!Computing, M!Answer
    <3>2. x3' \in [data : Tallies, expiresAt : Nat]
      BY <1>n, <2>a, <3>1
    <3> QED BY <1>n, <2>a, <2>r, <3>1, <3>2
  <2>7. ASSUME NEW a \in Actors, NEW c \in M!Counts, M!CountOne(a, c) PROVE M!TypeOK'
    <3>1. /\ x4[a] \in Tallies /\ x4' = [x4 EXCEPT ![a].of[c] = M!Count(c)]
          /\ x1' = x1 /\ x2' = x2 /\ x3' = x3 /\ x5' = x5
      BY <2>7, <2>a DEF M!CountOne, M!Computing
    <3>2. M!Count(c) \in Nat
      <4>1. x1["guides"] \in Nat /\ x1["travelers"] \in Nat /\ x1["admins"] \in Nat
        BY <1>2, CountsAre DEF MetricsInv
      <4>2. M!Count("users") \in Nat
        BY <4>1, CountsAre DEF Everybody
      <4>3. c \in {"guides", "travelers", "users"}
        BY <2>7, CountsAre
      <4> QED BY <4>1, <4>2, <4>3, CountsAre
    <3> DEFINE n == M!Count(c)
               new == [x4[a] EXCEPT !.of[c] = n]
    <3>3. new \in Tallies
      BY <3>1, <3>2, CountAdded
    <3>4. x4' = [x4 EXCEPT ![a] = new]
      BY <2>a, <3>1
    <3> HIDE DEF n, new
    <3> QED BY <2>a, <2>r, <3>1, <3>3, <3>4
  <2> QED BY <1>2, <2>1, <2>2, <2>3, <2>4, <2>5, <2>6, <2>7 DEF M!Next
<1> QED BY <1>1, <1>2

\* The reviews of the service and of the page are numbered from one.
ListingTypes ==
  /\ \A i \in 1..Len(x1) : x1[i] >= 1
  /\ \A i \in 1..Len(x4) : x4[i] \in 1..x2
  /\ x2 <= MaxReviews /\ x5 \in Nat
  /\ x7 \in {"loading", "shown", "missing"} /\ x9 \in Days /\ x10 \in {"reviews", "calendar"}
  /\ x13 <= MaxHurries /\ x14 \in Zones \cup {0}

LEMMA PageIsPublished ==
  ASSUME NEW p \in Nat \ {0}, PerPage \in Nat \ {0}, x1 \in Seq(Int)
  PROVE  /\ L!PageOf(p) \in Seq(Int)
         /\ \A k \in 1..Len(L!PageOf(p)) : \E j \in 1..Len(x1) : L!PageOf(p)[k] = x1[j]
<1> DEFINE m == (p - 1) * PerPage + 1
           n == L!Lesser(p * PerPage, Len(x1))
           t == L!PageOf(p)
<1>1. IsCut(t, x1, m, n)
  BY PageIsCut
<1>2. m \in Nat \ {0} /\ n \in 0..Len(x1)
  <2>1. (p - 1) * PerPage + 1 \in Nat \ {0} /\ p * PerPage \in Nat
    BY PagesAre
  <2> QED BY <2>1 DEF L!Lesser
<1> HIDE DEF m, n, t
<1>3. t \in Seq(Int) /\ Len(t) = (IF m <= n THEN n - m + 1 ELSE 0) /\ \A k \in 1..Len(t) : t[k] = x1[m + k - 1]
  BY <1>1 DEF IsCut
<1>4. \A k \in 1..Len(t) : m + k - 1 \in 1..Len(x1)
  BY <1>2, <1>3
<1>5. \A k \in 1..Len(t) : \E j \in 1..Len(x1) : t[k] = x1[j]
  BY <1>3, <1>4
<1> QED BY <1>3, <1>5 DEF t

LEMMA ListingTyped ==
  ASSUME MaxHurries \in Nat, PerPage \in Nat \ {0}, MaxReviews \in Nat, Days \subseteq Int, 1 \in Days
  PROVE  /\ L!Init => ListingTypes
         /\ ListingInv /\ ListingTypes /\ L!Next => ListingTypes'
         /\ ListingInv /\ ListingTypes => L!TypeOK
<1>1. ASSUME L!Init PROVE ListingTypes
  <2>1. /\ x10 \in {"reviews", "calendar"} /\ x2 \in IF x10 = "reviews" THEN 0..(MaxReviews - 1) ELSE {0}
        /\ x1 = [i \in 1..x2 |-> x2 + 1 - i] /\ x4 = <<>> /\ x5 = 0 /\ x7 = "loading" /\ x13 = 0
        /\ x9 \in IF x10 = "calendar" THEN Days ELSE {1}
        /\ x14 \in Zones \cup {0}
    BY <1>1 DEF L!Init
  <2>2. x2 \in Nat /\ x2 <= MaxReviews
    BY <2>1
  <2>3. Len(x1) = x2 /\ \A i \in 1..x2 : x1[i] >= 1
    BY <2>1, <2>2
  <2> QED BY <2>1, <2>2, <2>3 DEF ListingTypes
<1>2. ASSUME ListingInv, ListingTypes, L!Next PROVE ListingTypes'
  <2>a. /\ \A i \in 1..Len(x1) : x1[i] >= 1
        /\ \A i \in 1..Len(x4) : x4[i] \in 1..x2
        /\ x2 <= MaxReviews /\ x5 \in Nat
        /\ x7 \in {"loading", "shown", "missing"} /\ x9 \in Days /\ x10 \in {"reviews", "calendar"}
        /\ x13 <= MaxHurries /\ x14 \in Zones \cup {0}
    BY <1>2 DEF ListingTypes
  <2>b. /\ x1 \in Seq(Int) /\ x2 \in Nat /\ x3 \in Seq(Nat \ {0}) /\ x4 \in Seq(Int) /\ x13 \in Nat
        /\ \A i \in 1..Len(x1) : x1[i] <= x2
    BY <1>2 DEF ListingInv
  \* Whatever page is asked for, its reviews are some that were published.
  <2>p. ASSUME NEW p \in Nat \ {0}
        PROVE  L!PageOf(p) \in Seq(Int) /\ \A k \in 1..Len(L!PageOf(p)) : L!PageOf(p)[k] \in 1..x2
    <3>1. \A j \in 1..Len(x1) : x1[j] \in 1..x2
      <4>1. \A j \in 1..Len(x1) : x1[j] \in Int
        BY <2>b
      <4> QED BY <2>a, <2>b, <4>1
    <3> QED BY <2>b, <3>1, PageIsPublished
  <2>1. CASE L!Load
    <3>1. /\ UNCHANGED <<x1, x2, x9, x10, x13, x14>> /\ x7' \in {"shown", "missing"}
          /\ (x4' = x4 /\ x5' = x5) \/ (x4' = L!PageOf(1) /\ x5' = Len(x1))
      BY <2>1 DEF L!Load, L!table, L!days
    <3>2. \A i \in 1..Len(x4') : x4'[i] \in 1..x2
      BY <2>a, <2>p, <3>1
    <3> QED BY <2>a, <2>b, <3>1, <3>2 DEF ListingTypes
  <2>2. CASE L!ShowMore
    BY <2>2, <2>a, <2>b DEF L!ShowMore, L!table, L!days, ListingTypes
  <2>3. CASE L!Publish
    <3>1. /\ x2' = x2 + 1 /\ x2 < MaxReviews /\ x1' = <<x2 + 1>> \o x1
          /\ UNCHANGED <<x4, x5, x7, x9, x10, x13, x14>>
      BY <2>3 DEF L!Publish, L!days
    <3>2. Len(x1') = Len(x1) + 1 /\ x1'[1] = x2 + 1 /\ \A i \in 2..Len(x1') : x1'[i] = x1[i - 1]
      BY <2>b, <3>1
    <3>3. \A i \in 1..Len(x1') : x1'[i] >= 1
      <4>1. ASSUME NEW i \in 1..Len(x1'), i # 1 PROVE x1'[i] >= 1
        <5>1. i - 1 \in 1..Len(x1) /\ x1'[i] = x1[i - 1]
          BY <2>b, <3>2, <4>1
        <5> QED BY <2>a, <5>1
      <4> QED BY <2>b, <3>2, <4>1
    <3>4. \A i \in 1..Len(x4) : x4[i] \in 1..(x2 + 1)
      BY <2>a, <2>b
    <3> QED BY <2>a, <2>b, <3>1, <3>3, <3>4 DEF ListingTypes
  <2>4. ASSUME NEW i \in DOMAIN x3, L!MoreArrives(i) PROVE ListingTypes'
    <3>1. /\ UNCHANGED <<x1, x2, x5, x7, x9, x10, x13, x14>>
          /\ x4' = x4 \/ x4' = x4 \o L!PageOf(x3[i])
      BY <2>4 DEF L!MoreArrives, L!table, L!days
    <3>2. x3[i] \in Nat \ {0}
      BY <2>b
    <3> DEFINE t == L!PageOf(x3[i])
    <3>3. t \in Seq(Int) /\ \A k \in 1..Len(t) : t[k] \in 1..x2
      BY <2>p, <3>2
    <3> HIDE DEF t
    <3>4. \A k \in 1..Len(x4 \o t) : (x4 \o t)[k] \in 1..x2
      <4>1. Len(x4 \o t) = Len(x4) + Len(t) /\ \A k \in 1..(Len(x4) + Len(t)) :
               (x4 \o t)[k] = IF k <= Len(x4) THEN x4[k] ELSE t[k - Len(x4)]
        BY <2>b, <3>3
      <4> QED BY <2>a, <2>b, <3>3, <4>1
    <3>5. \A k \in 1..Len(x4') : x4'[k] \in 1..x2
      BY <2>a, <3>1, <3>4 DEF t
    <3> QED BY <2>a, <3>1, <3>5 DEF ListingTypes
  <2>5. ASSUME NEW i \in DOMAIN x1, L!Remove(i) PROVE ListingTypes'
    <3>1. x1' = L!Without(x1, i) /\ UNCHANGED <<x2, x4, x5, x7, x9, x10, x13, x14>>
      BY <2>5 DEF L!Remove, L!days
    <3>2. /\ Len(x1') = Len(x1) - 1
          /\ \A j \in 1..(Len(x1) - 1) : x1'[j] = IF j < i THEN x1[j] ELSE x1[j + 1]
      <4>1. i \in 1..Len(x1)
        BY <2>b
      <4> QED BY <2>b, <3>1, <4>1, WithoutOne
    <3>3. ASSUME NEW j \in 1..Len(x1') PROVE x1'[j] >= 1
      <4>1. Len(x1) \in Nat /\ j \in 1..(Len(x1) - 1) /\ j \in 1..Len(x1) /\ j + 1 \in 1..Len(x1)
        BY <2>b, <3>2
      <4>2. x1'[j] = IF j < i THEN x1[j] ELSE x1[j + 1]
        BY <3>2, <4>1
      <4> QED BY <2>a, <2>b, <4>1, <4>2
    <3> QED BY <2>a, <3>1, <3>3 DEF ListingTypes
  <2> QED BY <1>2, <2>1, <2>2, <2>3, <2>4, <2>5 DEF L!Next
<1>3. ASSUME ListingInv, ListingTypes PROVE L!TypeOK
  <2>1. x11 \in BOOLEAN /\ x12 \in BOOLEAN
    BY <1>3, Zenon DEF ListingInv
  <2>2. /\ x1 \in Seq(Int) /\ x2 \in Nat /\ x3 \in Seq(Nat \ {0}) /\ x4 \in Seq(Int) /\ x13 \in Nat /\ x6 \in Nat
        /\ \A i \in 1..Len(x1) : x1[i] <= x2
    BY <1>3 DEF ListingInv
  <2>3. L!Ids(x1) \subseteq 1..x2
    <3>1. \A i \in DOMAIN x1 : x1[i] \in Int /\ x1[i] >= 1 /\ x1[i] <= x2
      BY <1>3, <2>2 DEF ListingTypes
    <3> QED BY <2>2, <3>1 DEF L!Ids
  <2>4. L!Ids(x4) \subseteq 1..x2
    BY <1>3, <2>2 DEF L!Ids, ListingTypes
  <2>5. L!Ids(x3) \subseteq Nat
    BY <2>2 DEF L!Ids
  <2> QED BY <1>3, <2>1, <2>2, <2>3, <2>4, <2>5 DEF ListingTypes, L!TypeOK
<1> QED BY <1>1, <1>2, <1>3

\* The parts a behaviour may follow.
PartNames ==
  {"notifications", "session", "bell", "preferences", "traveler", "guide", "admin", "search",
   "listing", "planner", "checkout", "review", "hearts", "pages", "limit", "database",
   "recommendations", "audit", "metrics", "refund"}

\* Every variable of every page and service has its type, for any number of users, rows,
\* calls and parties that overlap: in whatever order the answers come, a list holds rows
\* of its kind, what is shown is there, and nothing that is bounded passes its bound.
THEOREM PartsTyped ==
  ASSUME IsFiniteSet(Actors), IsFiniteSet(Items), None \notin Meanings,
         None \notin W!Words, None \notin LimitRecord,
         MaxHurries \in Nat, MaxAttempts \in Nat \ {0}, MaxRestarts \in Nat,
         MaxChanges \in Nat, MaxReviews \in Nat, PerPage \in Nat \ {0},
         Days \subseteq Int, 1 \in Days
  PROVE  Spec => []TypeOK
<1> DEFINE Inv == /\ part \in PartNames
                  /\ part = "notifications" => NotesInv /\ NotesTypes
                  /\ part = "session" => SessionInv
                  /\ part = "bell" => BellInv /\ BellTypes
                  /\ part = "preferences" => P!TypeOK
                  /\ part = "traveler" => TravelerInv /\ TravelerTypes
                  /\ part = "guide" => GuideInv /\ GuideListsInv /\ GuideTypes
                  /\ part = "admin" => DecidedInv /\ AdminTypes
                  /\ part = "search" => F!TypeOK
                  /\ part = "listing" => ListingInv /\ ListingTypes
                  /\ part = "planner" => PlannerTypes
                  /\ part = "checkout" => CheckoutInv /\ CheckoutTypes
                  /\ part = "review" => ReviewInv /\ ReviewTypes
                  /\ part = "hearts" => H!TypeOK
                  /\ part = "pages" => PagesInv /\ X!TypeOK
                  /\ part = "limit" => LimitInv /\ LimitTypes
                  /\ part = "database" => DatabaseInv /\ DatabaseTypes
                  /\ part = "recommendations" => IndexInv /\ NearInv /\ NearTypes
                  /\ part = "audit" => AuditInv
                  /\ part = "metrics" => MetricsInv /\ M!TypeOK
                  /\ part = "refund" => C!TypeOK
<1>1. Init => Inv
  <2> SUFFICES ASSUME Init PROVE Inv
    OBVIOUS
  <2>1. CASE part \in {"notifications", "session", "bell", "preferences", "traveler"}
    BY <2>1, NotesStart, NotesTyped, SessionStarts, BellStarts, BellTyped, PreferencesTyped,
       TravelerStarts, TravelerTyped DEF Init, PartNames
  <2>2. CASE part \in {"guide", "admin", "search", "listing", "planner"}
    BY <2>2, GuideStarts, GuideListsStart, GuideTyped, DecidedStarts, AdminTyped, SearchTyped,
       ListingStarts, ListingTyped, PlannerTyped DEF Init, PartNames
  <2>3. CASE part \in {"checkout", "review", "hearts", "pages", "limit"}
    BY <2>3, CheckoutStarts, CheckoutTyped, ReviewStarts, ReviewTyped, HeartsTyped, PagesStart,
       PagesTyped, LimitStarts, LimitTyped, NumbersAssumption DEF Init, PartNames
  <2>4. CASE part \in {"database", "recommendations", "audit", "metrics", "refund"}
    BY <2>4, DatabaseStarts, DatabaseTyped, IndexStarts, NearStarts, NearTyped, AuditStarts,
       MetricsStart, MetricsTyped, RefundTyped DEF Init, PartNames
  <2> QED BY <2>1, <2>2, <2>3, <2>4 DEF Init
<1>2. Inv /\ [Next]_vars => Inv'
  <2> SUFFICES ASSUME Inv, [Next]_vars PROVE Inv'
    OBVIOUS
  <2>1. part' = part /\ part \in PartNames
    BY DEF Next, vars
  <2>2. CASE UNCHANGED vars
    <3>1. UNCHANGED <<x1, x2, x3, x4, x5, x6, x7, x8, x9, x10, x11, x12, x13, x14, x15, x16, x17,
                     x18>>
      BY <2>2 DEF vars
    <3>2. NotesInv /\ NotesTypes => NotesInv' /\ NotesTypes'
      BY <3>1 DEF NotesInv, NoteType, Note, Earned, NotesTypes
    <3>3. SessionInv => SessionInv'
      BY <3>1 DEF SessionInv, SessionCalls
    <3>4. BellInv /\ BellTypes => BellInv' /\ BellTypes'
      BY <3>1 DEF BellInv, BellTypes
    <3>5. P!TypeOK => P!TypeOK'
      BY <3>1 DEF P!TypeOK
    <3>6. TravelerInv /\ TravelerTypes => TravelerInv' /\ TravelerTypes'
      BY <3>1 DEF TravelerInv, TravelerTypes, T!TypeOK
    <3>7. GuideInv /\ GuideListsInv /\ GuideTypes => GuideInv' /\ GuideListsInv' /\ GuideTypes'
      BY <3>1 DEF GuideInv, GuideListsInv, GuideTypes, G!TypeOK
    <3>8. DecidedInv /\ AdminTypes => DecidedInv' /\ AdminTypes'
      BY <3>1 DEF DecidedInv, A!Pending, AdminTypes, A!TypeOK
    <3>9. F!TypeOK => F!TypeOK'
      BY <3>1 DEF F!TypeOK
    <3>10. ListingInv /\ ListingTypes => ListingInv' /\ ListingTypes'
      BY <3>1 DEF ListingInv, Falls, IsCut, L!Lesser, ListingTypes
    <3>11. PlannerTypes => PlannerTypes'
      BY <3>1 DEF PlannerTypes, R!TypeOK, R!Itineraries
    <3>12. CheckoutInv /\ CheckoutTypes => CheckoutInv' /\ CheckoutTypes'
      BY <3>1 DEF CheckoutInv, CheckoutTypes, K!TypeOK
    <3>13. ReviewInv /\ ReviewTypes => ReviewInv' /\ ReviewTypes'
      BY <3>1 DEF ReviewInv, ReviewTypes
    <3>14. H!TypeOK => H!TypeOK'
      BY <3>1 DEF H!TypeOK
    <3>15. PagesInv /\ X!TypeOK => PagesInv' /\ X!TypeOK'
      BY <3>1 DEF PagesInv, Slice, Above, Higher, X!Precedes, X!TypeOK
    <3>16. LimitInv /\ LimitTypes => LimitInv' /\ LimitTypes'
      BY <3>1 DEF LimitInv, Counts, At, Came, Passed, Before, Q!limit, LimitTypes
    <3>17. DatabaseInv /\ DatabaseTypes => DatabaseInv' /\ DatabaseTypes'
      BY <3>1 DEF DatabaseInv, Trying, DatabaseTypes
    <3>18. IndexInv /\ NearInv /\ NearTypes => IndexInv' /\ NearInv' /\ NearTypes'
      <4>1. IndexInv => IndexInv'
        BY <3>1 DEF IndexInv
      <4>2. NearInv => NearInv'
        BY <3>1 DEF NearInv, V!Similar
      <4>3. NearTypes => NearTypes'
        BY <3>1 DEF NearTypes
      <4> QED BY <4>1, <4>2, <4>3
    <3>19. AuditInv => AuditInv'
      BY <3>1 DEF AuditInv, AuditType, TellsRow, Alone, About, LeftAsSaid, Complete, Newest,
                  U!EveryUpdateIsLogged, U!Logged, U!Unlogged
    <3>20. MetricsInv /\ M!TypeOK => MetricsInv' /\ M!TypeOK'
      <4>1. Everybody' = Everybody /\ \A c \in M!Counts : M!Count(c)' = M!Count(c)
        BY <3>1 DEF Everybody, M!Count
      <4>2. \A a \in Actors : Counting(x4[a])' <=> Counting(x4[a])
        BY <3>1, <4>1 DEF Counting
      <4>3. (Counted(x5)' <=> Counted(x5)) /\ (Counted(x3.data)' <=> Counted(x3.data))
        BY <3>1, <4>1 DEF Counted
      <4>4. MetricsInv => MetricsInv'
        BY <3>1, <4>1, <4>2, <4>3 DEF MetricsInv
      <4>5. M!TypeOK => M!TypeOK'
        BY <3>1 DEF M!TypeOK
      <4> QED BY <4>4, <4>5
    <3>21. C!TypeOK => C!TypeOK'
      BY <3>1 DEF C!TypeOK
    <3> QED BY <2>1, <3>2, <3>3, <3>4, <3>5, <3>6, <3>7, <3>8, <3>9, <3>10, <3>11, <3>12, <3>13,
               <3>14, <3>15, <3>16, <3>17, <3>18, <3>19, <3>20, <3>21
  <2>3. CASE Next /\ part = "notifications"
    BY <2>1, <2>3, NotesStep, NotesTyped DEF Next
  <2>4. CASE Next /\ part = "session"
    BY <2>1, <2>4, SessionStep DEF Next
  <2>5. CASE Next /\ part = "bell"
    BY <2>1, <2>5, BellStep, BellTyped DEF Next
  <2>6. CASE Next /\ part = "preferences"
    BY <2>1, <2>6, PreferencesTyped DEF Next
  <2>7. CASE Next /\ part = "traveler"
    BY <2>1, <2>7, TravelerStep, TravelerTyped DEF Next
  <2>8. CASE Next /\ part = "guide"
    BY <2>1, <2>8, GuideStep, GuideListsStep, GuideTyped DEF Next
  <2>9. CASE Next /\ part = "admin"
    BY <2>1, <2>9, DecidedStep, AdminTyped DEF Next
  <2>10. CASE Next /\ part = "search"
    BY <2>1, <2>10, SearchTyped DEF Next
  <2>11. CASE Next /\ part = "listing"
    BY <2>1, <2>11, ListingStep, ListingTyped DEF Next
  <2>12. CASE Next /\ part = "planner"
    BY <2>1, <2>12, PlannerTyped DEF Next
  <2>13. CASE Next /\ part = "checkout"
    BY <2>1, <2>13, CheckoutStep, CheckoutTyped DEF Next
  <2>14. CASE Next /\ part = "review"
    BY <2>1, <2>14, ReviewStep, ReviewTyped DEF Next
  <2>15. CASE Next /\ part = "hearts"
    BY <2>1, <2>15, HeartsTyped DEF Next
  <2>16. CASE Next /\ part = "pages"
    BY <2>1, <2>16, PagesStep, PagesTyped, NumbersAssumption DEF Next
  <2>17. CASE Next /\ part = "limit"
    BY <2>1, <2>17, LimitStep, LimitTyped, NumbersAssumption DEF Next
  <2>18. CASE Next /\ part = "database"
    BY <2>1, <2>18, DatabaseStep, DatabaseTyped DEF Next
  <2>19. CASE Next /\ part = "recommendations"
    <3>1. V!Next /\ IndexInv /\ NearInv /\ NearTypes
      BY <2>19 DEF Next
    <3>2. x3 \in [Items -> Written]
      BY <3>1 DEF IndexInv
    <3> QED BY <2>1, <2>19, <3>1, <3>2, IndexStep, NearStep, NearTyped
  <2>20. CASE Next /\ part = "audit"
    BY <2>1, <2>20, AuditStep DEF Next
  <2>21. CASE Next /\ part = "metrics"
    BY <2>1, <2>21, MetricsStep, MetricsTyped DEF Next
  <2>22. CASE Next /\ part = "refund"
    BY <2>1, <2>22, RefundTyped DEF Next
  <2> QED BY <2>1, <2>2, <2>3, <2>4, <2>5, <2>6, <2>7, <2>8, <2>9, <2>10, <2>11, <2>12, <2>13,
             <2>14, <2>15, <2>16, <2>17, <2>18, <2>19, <2>20, <2>21, <2>22 DEF PartNames
<1>3. Inv => TypeOK
  <2>1. /\ TravelerTypes => T!TypeOK
        /\ GuideTypes => G!TypeOK
        /\ AdminTypes => A!TypeOK
        /\ PlannerTypes => R!TypeOK
        /\ CheckoutTypes => K!TypeOK
        /\ AuditInv => AuditType
    BY Zenon DEF TravelerTypes, GuideTypes, AdminTypes, PlannerTypes, CheckoutTypes, AuditInv
  <2>2. Inv => /\ part \in PartNames
               /\ part = "notifications" => N!TypeOK
               /\ part = "session" => S!TypeOK
               /\ part = "bell" => B!TypeOK
               /\ part = "preferences" => P!TypeOK
               /\ part = "traveler" => T!TypeOK
               /\ part = "guide" => G!TypeOK
               /\ part = "admin" => A!TypeOK
               /\ part = "search" => F!TypeOK
               /\ part = "listing" => L!TypeOK
               /\ part = "planner" => R!TypeOK
               /\ part = "checkout" => K!TypeOK
               /\ part = "review" => W!TypeOK
               /\ part = "hearts" => H!TypeOK
               /\ part = "pages" => X!TypeOK
               /\ part = "limit" => Q!TypeOK
               /\ part = "database" => D!TypeOK
               /\ part = "recommendations" => V!TypeOK
               /\ part = "audit" => U!TypeOK
               /\ part = "metrics" => M!TypeOK
               /\ part = "refund" => C!TypeOK
    BY <2>1, NotesTyped, SessionTyped, BellTyped, ListingTyped, ReviewTyped, LimitTyped,
       DatabaseTyped, NearTyped, AuditTyped, NumbersAssumption
  <2> HIDE DEF Inv
  <2>3. ASSUME Inv, part \in {"notifications", "session", "bell", "preferences", "traveler"}
        PROVE  TypeOK
    BY <2>2, <2>3 DEF TypeOK
  <2>4. ASSUME Inv, part \in {"guide", "admin", "search", "listing", "planner"}
        PROVE  TypeOK
    BY <2>2, <2>4 DEF TypeOK
  <2>5. ASSUME Inv, part \in {"checkout", "review", "hearts", "pages", "limit"}
        PROVE  TypeOK
    BY <2>2, <2>5 DEF TypeOK
  <2>6. ASSUME Inv, part \in {"database", "recommendations", "audit", "metrics", "refund"}
        PROVE  TypeOK
    BY <2>2, <2>6 DEF TypeOK
  <2> QED BY <2>2, <2>3, <2>4, <2>5, <2>6 DEF PartNames
<1> HIDE DEF Inv
<1> QED BY <1>1, <1>2, <1>3, PTL DEF Spec
=============================================================================
