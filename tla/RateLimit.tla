------------------------------ MODULE RateLimit ------------------------------
(***************************************************************************)
(* The rate limit (security/rate-limit.guard.ts): a fixed window for every *)
(* client, and a back-off that doubles with every violation.  The records  *)
(* live in a Map of the process and share nothing: the module follows one  *)
(* client, whose requests the guard counts one at a time.                  *)
(***************************************************************************)
EXTENDS Integers, FiniteSets

CONSTANTS
  Unknown,      \* no record
  Clients,      \* identifiers: user:<id> or ip:<address>; one of them is followed
  SignedIn,     \* those that are users
  Whitelist,    \* those at the address of an administrator
  WINDOW, UNAUTH_LIMIT, AUTH_LIMIT, BASE_BACKOFF, MAX_BACKOFF,
  MaxTime,      \* bound on the clock
  MaxBurst      \* bound on the requests within a window

VARIABLES
  now,
  client,
  record,    \* of the client, in the store
  recent,    \* history: the requests within the length of a window of the last one
  greedy     \* history: more than the limit came within the length of a window

vars == <<now, client, record, recent, greedy>>

limit == IF client \in SignedIn THEN AUTH_LIMIT ELSE UNAUTH_LIMIT

Fresh(violations) == [count |-> 0, windowStart |-> now, violations |-> violations, backoffUntil |-> 0]

BackedOff == record # Unknown /\ now < record.backoffUntil

\* The record the request is counted in: a new one drops the end of the back-off
\* and keeps the violations.
Current ==
  IF record = Unknown THEN Fresh(0)
  ELSE IF now - record.windowStart >= WINDOW THEN Fresh(record.violations)
  ELSE record

Lesser(a, b) == IF a < b THEN a ELSE b

Backoff(violations) == Lesser(BASE_BACKOFF * 2 ^ (violations - 1), MAX_BACKOFF)

-----------------------------------------------------------------------------
\* What the history says of the request: it is the nth of this moment.
Kept == {q \in recent : now - q.at < WINDOW}

Entry(ok) == [at |-> now, nth |-> Cardinality({q \in Kept : q.at = now}), ok |-> ok]

Remember(ok) ==
  /\ Cardinality(Kept) < MaxBurst
  /\ recent' = Kept \cup {Entry(ok)}
  /\ greedy' = (greedy \/ Cardinality(Kept) + 1 > limit)

Whitelisted ==
  /\ client \in Whitelist
  /\ Remember(TRUE)
  /\ UNCHANGED <<now, client, record>>

Refused ==
  /\ client \notin Whitelist /\ BackedOff
  /\ Remember(FALSE)
  /\ UNCHANGED <<now, client, record>>

Served ==
  /\ client \notin Whitelist /\ ~BackedOff
  /\ Current.count < limit
  /\ record' = [Current EXCEPT !.count = @ + 1]
  /\ Remember(TRUE)
  /\ UNCHANGED <<now, client>>

Violated ==
  /\ client \notin Whitelist /\ ~BackedOff
  /\ Current.count >= limit
  /\ LET violations == Current.violations + 1 IN
       record' = [Current EXCEPT !.count = @ + 1, !.violations = violations,
                                 !.backoffUntil = now + Backoff(violations)]
  /\ Remember(FALSE)
  /\ UNCHANGED <<now, client>>

canActivate == Whitelisted \/ Refused \/ Served \/ Violated

Tick ==
  /\ now < MaxTime /\ now' = now + 1
  /\ UNCHANGED <<client, record, recent, greedy>>

Init ==
  /\ now = 1 /\ client \in Clients
  /\ record = Unknown /\ recent = {} /\ greedy = FALSE

Next == Tick \/ canActivate

Spec == Init /\ [][Next]_vars

-----------------------------------------------------------------------------
(* Properties.                                                             *)

\* Every variable has its type.
TypeOK ==
  /\ now \in 1..MaxTime /\ client \in Clients /\ greedy \in BOOLEAN
  /\ \/ record = Unknown
     \/ record \in [count : Nat, windowStart : 1..MaxTime, violations : Nat, backoffUntil : Nat]
  /\ recent \subseteq [at : 1..MaxTime, nth : Nat, ok : BOOLEAN]

\* However a client times its requests, at most twice its limit passes within
\* the length of a window, for that meets two of the fixed windows at most.
AtMostTwiceTheLimit ==
  client \notin Whitelist => Cardinality({q \in recent : q.ok}) <= 2 * limit

\* A client that never sent more than its limit within the length of a window is
\* never refused, and one that was silent for that long is served again, however
\* often it was refused: no back-off is longer than a window.
OnlyTheGreedyWait ==
  /\ \A q \in recent : ~q.ok => greedy
  /\ \A q \in recent : recent = {q} => q.ok
=============================================================================
