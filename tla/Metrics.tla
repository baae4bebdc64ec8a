-------------------------------- MODULE Metrics --------------------------------
(***************************************************************************)
(* The metrics of the platform (admin.service.ts, getMetrics): counts that *)
(* are asked for together and answered one by one while users register,    *)
(* kept for METRICS_CACHE_TTL_MS.  Two requests that find nothing kept     *)
(* compute both, and the later of them to end is kept.                     *)
(***************************************************************************)
EXTENDS Naturals

CONSTANTS
  None, Admins,
  TTL,       \* METRICS_CACHE_TTL_MS
  MaxUsers,  \* bound on the users of a role
  MaxTime    \* bound on the clock

VARIABLES
  users,       \* how many there are of each role
  now,
  metricsCache,
  job,         \* of each request: what it has counted so far
  answer,      \* what the last request was answered
  most,        \* history: the most users of an answer
  overlapped   \* history: two requests computed at once

vars == <<users, now, metricsCache, job, answer, most, overlapped>>

\* Who registers is a guide or a traveller; administrators are made elsewhere.
Open   == {"guides", "travelers"}
Roles  == Open \cup {"admins"}
Counts == Open \cup {"users"}

Count(of) == IF of = "users" THEN users.guides + users.travelers + users.admins ELSE users[of]

\* Nothing is counted yet; whether anybody registered since the first count.
Uncounted == [of |-> [c \in Counts |-> None], torn |-> FALSE]

Answer(data) ==
  /\ answer' = data
  /\ most' = IF data.of["users"] > most THEN data.of["users"] ELSE most

Computing(a) == job[a] # None

-----------------------------------------------------------------------------
Cached == metricsCache # None /\ metricsCache.expiresAt > now

FromCache ==
  /\ Cached
  /\ Answer(metricsCache.data)
  /\ UNCHANGED <<users, now, metricsCache, job, overlapped>>

Compute(a) ==
  /\ ~Computing(a) /\ ~Cached
  /\ job' = [job EXCEPT ![a] = Uncounted]
  /\ overlapped' = (overlapped \/ \E b \in Admins : Computing(b))
  /\ UNCHANGED <<users, now, metricsCache, answer, most>>

\* One of the counts of Promise.all; they run on connections of their own.
CountOne(a, c) ==
  /\ Computing(a) /\ job[a].of[c] = None
  /\ job' = [job EXCEPT ![a].of[c] = Count(c)]
  /\ UNCHANGED <<users, now, metricsCache, answer, most, overlapped>>

\* A count that fails: the request does, and nothing is kept.
Fail(a) ==
  /\ Computing(a)
  /\ job' = [job EXCEPT ![a] = None]
  /\ UNCHANGED <<users, now, metricsCache, answer, most, overlapped>>

Keep(a) ==
  /\ Computing(a) /\ \A c \in Counts : job[a].of[c] # None
  /\ metricsCache' = [data |-> job[a], expiresAt |-> now + TTL]
  /\ Answer(job[a])
  /\ job' = [job EXCEPT ![a] = None]
  /\ UNCHANGED <<users, now, overlapped>>

\* Somebody registers; no user row is ever deleted.
Register(role) ==
  /\ users[role] < MaxUsers
  /\ users' = [users EXCEPT ![role] = @ + 1]
  /\ job' = [a \in Admins |-> IF Computing(a) THEN [job[a] EXCEPT !.torn = TRUE] ELSE None]
  /\ UNCHANGED <<now, metricsCache, answer, most, overlapped>>

Tick ==
  /\ now < MaxTime /\ now' = now + 1
  /\ UNCHANGED <<users, metricsCache, job, answer, most, overlapped>>

Init ==
  /\ \E n \in 1..MaxUsers : users = [r \in Roles |-> IF r = "admins" THEN n ELSE 0]
  /\ now = 0
  /\ metricsCache = None /\ job = [a \in Admins |-> None]
  /\ answer = None /\ most = 0 /\ overlapped = FALSE

Next ==
  \/ FromCache \/ Tick \/ \E r \in Open : Register(r)
  \/ \E a \in Admins : Compute(a) \/ Fail(a) \/ Keep(a) \/ \E c \in Counts : CountOne(a, c)

Spec == Init /\ [][Next]_vars

-----------------------------------------------------------------------------
(* Properties.                                                             *)

Data == [of : [Counts -> Nat \cup {None}], torn : BOOLEAN]

\* Every variable has its type.
TypeOK ==
  /\ users \in [Roles -> 0..MaxUsers] /\ now \in 0..MaxTime /\ most \in Nat
  /\ metricsCache = None \/ metricsCache \in [data : Data, expiresAt : Nat]
  /\ job \in [Admins -> Data \cup {None}] /\ answer \in Data \cup {None} /\ overlapped \in BOOLEAN

\* The users of an answer are its guides, its travellers and the administrators,
\* who have no count of their own, unless somebody registered while they were
\* counted; and no answer tells of fewer users than one before it, unless two
\* were computed at once, for the older may be the one that is kept.
MetricsAddUp ==
  answer # None =>
    /\ ~answer.torn =>
         answer.of["guides"] + answer.of["travelers"] + users.admins = answer.of["users"]
    /\ ~overlapped => answer.of["users"] = most
=============================================================================
