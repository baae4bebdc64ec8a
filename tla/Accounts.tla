------------------------------ MODULE Accounts ------------------------------
(***************************************************************************)
(* The users table and everybody who writes it: registration, login with   *)
(* password or OAuth, refresh, password reset and account deletion of      *)
(* auth.service.ts, and the administrator's suspensions and verification   *)
(* decisions of admin.service.ts.                                          *)
(*                                                                         *)
(* A worker is a request in progress; it takes any request, runs its       *)
(* awaited steps and is free for the next one.  "width" is the number of   *)
(* requests that may overlap, chosen in Init: the properties that only     *)
(* hold one request at a time say so.                                      *)
(*                                                                         *)
(* userRepository.save(entity) is two steps, the SELECT that finds out     *)
(* which columns differ and the UPDATE of those columns, so an entity read *)
(* early can take back what another request has written.                   *)
(***************************************************************************)
EXTENDS Naturals, FiniteSets

CONSTANTS
  Users,              \* accounts, each followed from its registration on
  Workers,            \* requests in progress at the same time
  Widths,             \* how many of them may overlap: a subset of 1..Cardinality(Workers)
  Passwords,          \* passwords that are tried and chosen
  Tokens,             \* reset tokens: as many as a user may have at a time
  None,               \* no password, no worker's user, no token
  Operations,         \* the operations requested one at a time ...
  Overlapping,        \* ... and those requested when more than one may overlap
  MaxFailedAttempts,  \* MAX_FAILED_ATTEMPTS
  MaxCount            \* bound on the counter of failed attempts

ASSUME AccountsAssumption ==
  /\ Widths \subseteq Nat \ {0}
  /\ None \notin Passwords \cup Users \cup Tokens
  /\ MaxFailedAttempts \in Nat \ {0}
  /\ MaxCount \in Nat

VARIABLES
  user,       \* table users
  profile,    \* table user_profiles: personal data of the profile row
  badge,      \* its guide_verification_status
  request,    \* verification_requests.status of the guide's request
  token,      \* resetTokenStore: each user's reset tokens in this server
  pc,         \* where each worker is
  job,        \* the user, the password or decision and the reset token of its request
  mem,        \* the user entity it holds
  dirty,      \* the columns its save() found changed
  then,       \* where it goes on after save()
  width,      \* requests that may overlap; never changes
  suspended,  \* history: suspended by an administrator and not reinstated
  chosen,     \* history: the password set last
  guesses,    \* history: wrong passwords answered, at most MaxFailedAttempts
  streak,     \* history: the same since the counter was last reset
  redeemed    \* history: the reset tokens used since they were issued

tables  == <<user, profile, badge, request, token>>
locals  == <<pc, job, mem, dirty, then>>
history == <<suspended, chosen, guesses, streak, redeemed>>
vars    == <<tables, locals, width, history>>

-----------------------------------------------------------------------------
(* Rows and helpers.                                                       *)

Columns == {"state", "password", "verified", "locked", "until", "failed"}

\* "until" is lockoutUntil, as the clock sees it.
UserRow ==
  [state : {"absent", "active", "deleted"}, password : Passwords \cup {None},
   verified : BOOLEAN, locked : BOOLEAN, until : {"null", "future", "past"}, failed : 0..MaxCount]

Row(state, p, v) ==
  [state |-> state, password |-> p, verified |-> v, locked |-> FALSE, until |-> "null", failed |-> 0]
NewUser(p, v) == Row("active", p, v)
NoUser        == Row("absent", None, FALSE)
NoJob  == [user |-> None, word |-> None, key |-> None]

\* A row as the code changes it: unlocked with its counter at 0, with n failed
\* attempts counted, locked out for them, with another password, made anonymous.
Reset(row)           == [row EXCEPT !.failed = 0, !.locked = FALSE, !.until = "null"]
Counted(row, n)      == [row EXCEPT !.failed = n]
LockedOut(row, n)    == [row EXCEPT !.failed = n, !.locked = TRUE, !.until = "future"]
WithPassword(row, p) == [row EXCEPT !.password = p]
Erased(row) == [row EXCEPT !.state = "deleted", !.password = None, !.verified = FALSE, !.locked = TRUE]

Changed(entity, row)     == {c \in Columns : entity[c] # row[c]}
Merge(row, entity, cols) == [c \in Columns |-> IF c \in cols THEN entity[c] ELSE row[c]]

Busy     == {w \in Workers : pc[w] # "idle"}
Free(w)  == pc[w] = "idle" /\ Cardinality(Busy) < width
Goto(w, label) == pc' = [pc EXCEPT ![w] = label]
Asked(op) == op \in IF width = 1 THEN Operations ELSE Overlapping
Took(w, u, x, key)  == job' = [job EXCEPT ![w] = [user |-> u, word |-> x, key |-> key]]

\* The request is answered; its locals go out of scope.
Finish(w) ==
  /\ Goto(w, "idle")
  /\ job' = [job EXCEPT ![w] = NoJob]
  /\ mem' = [mem EXCEPT ![w] = NoUser]
  /\ dirty' = [dirty EXCEPT ![w] = {}]
  /\ then' = [then EXCEPT ![w] = "idle"]

\* await userRepository.save(entity), then go on at label.
Save(w, entity, label) ==
  /\ mem' = [mem EXCEPT ![w] = entity]
  /\ then' = [then EXCEPT ![w] = label]
  /\ Goto(w, "select")

\* A first step that finds the request in order, or answers it at once.
BeginWith(w, u, x, key, ok, label) ==
  /\ Free(w)
  /\ IF ok
     THEN /\ Took(w, u, x, key) /\ Goto(w, label)
          /\ mem' = [mem EXCEPT ![w] = user[u]]
          /\ UNCHANGED <<dirty, then>>
     ELSE UNCHANGED locals
  /\ UNCHANGED width
Begin(w, u, x, ok, label) == BeginWith(w, u, x, None, ok, label)

\* save(): SELECT of the row, to see which columns differ ...
SaveSelect(w) ==
  /\ pc[w] = "select"
  /\ dirty' = [dirty EXCEPT ![w] = Changed(mem[w], user[job[w].user])]
  /\ Goto(w, "update")
  /\ UNCHANGED <<tables, job, mem, then, width, history>>

\* ... and the UPDATE of those.  The answer "wrong password" is a fact from
\* here on, and so are a new password and a successful login.
SaveUpdate(w) ==
  LET u == job[w].user IN
  /\ pc[w] = "update"
  /\ user' = [user EXCEPT ![u] = Merge(user[u], mem[w], dirty[w])]
  /\ chosen' = [chosen EXCEPT ![u] = IF then[w] = "redeem" THEN job[w].word ELSE @]
  /\ guesses' = [guesses EXCEPT ![u] = IF then[w] = "refuse" /\ @ < MaxFailedAttempts THEN @ + 1 ELSE @]
  /\ streak' = [streak EXCEPT ![u] = IF then[w] = "refuse"
                                     THEN IF @ < MaxFailedAttempts THEN @ + 1 ELSE @
                                     ELSE IF then[w] \in {"grant", "compare"} THEN 0 ELSE @]
  /\ redeemed' = [redeemed EXCEPT ![u] = IF then[w] = "redeem" THEN @ \cup {job[w].key} ELSE @]
  /\ IF then[w] \in {"grant", "redeem", "compare"}
     THEN Goto(w, then[w]) /\ UNCHANGED <<job, mem, dirty, then>>
     ELSE Finish(w)
  /\ UNCHANGED <<profile, badge, request, token, width, suspended>>

-----------------------------------------------------------------------------
(* register and login.                                                     *)

\* findOne by e-mail: a registered address is a conflict.
RegisterRead(w, u, p) ==
  /\ Begin(w, u, p, user[u].state = "absent", "register")
  /\ UNCHANGED <<tables, history>>

\* After hashing, the INSERT: e-mails are unique, a second one is an error.
RegisterInsert(w) ==
  LET u == job[w].user IN
  /\ pc[w] = "register"
  /\ IF user[u].state = "absent"
     THEN /\ user' = [user EXCEPT ![u] = NewUser(job[w].word, FALSE)]
          /\ chosen' = [chosen EXCEPT ![u] = job[w].word]
          /\ Goto(w, "profile") /\ UNCHANGED <<job, mem, dirty, then>>
     ELSE Finish(w) /\ UNCHANGED <<user, chosen>>
  /\ UNCHANGED <<profile, badge, request, token, width, suspended, guesses, streak, redeemed>>

\* The profile is a second INSERT with no transaction around the two.
RegisterProfile(w) ==
  /\ pc[w] = "profile"
  /\ profile' = [profile EXCEPT ![job[w].user] = "personal"]
  /\ Goto(w, "grant")
  /\ UNCHANGED <<user, badge, request, token, job, mem, dirty, then, width, history>>

\* findOne; no login while lockoutUntil lies ahead, and a lockout that has
\* expired is first reset and saved.  user.locked alone is not looked at.
LoginRead(w, u, p) ==
  LET row == user[u]
      expired == row.locked /\ row.until = "past"
  IN
  /\ Free(w) /\ row.failed < MaxCount
  /\ IF row.state # "active" \/ row.until = "future"
     THEN UNCHANGED locals
     ELSE /\ Took(w, u, p, None) /\ UNCHANGED dirty
          /\ IF expired
             THEN Save(w, Reset(row), "compare")
             ELSE mem' = [mem EXCEPT ![w] = row] /\ Goto(w, "compare") /\ UNCHANGED then
  /\ UNCHANGED <<tables, width, history>>

\* comparePassword: a success resets the counter and every lock, a failure is
\* counted and the one that reaches the limit locks the account for a while.
CompareWith(w, step, limit) ==
  LET n == mem[w].failed + step IN
  /\ pc[w] = "compare"
  /\ IF job[w].word = mem[w].password
     THEN Save(w, Reset(mem[w]), "grant")
     ELSE IF n >= limit
          THEN Save(w, LockedOut(mem[w], n), "refuse")
          ELSE Save(w, Counted(mem[w], n), "refuse")
  /\ UNCHANGED <<tables, job, dirty, width, history>>

\* Mutants: the lockout comes one attempt early, or an attempt counts twice.
LoginCompareEarly(w) == CompareWith(w, 1, MaxFailedAttempts - 1)
LoginCompareTwice(w) == CompareWith(w, 2, MaxFailedAttempts)

LoginCompare(w) == CompareWith(w, 1, MaxFailedAttempts)

\* generateTokens: the client holds a session of its own from here on.
Grant(w) ==
  /\ pc[w] = "grant" /\ Finish(w)
  /\ UNCHANGED <<tables, width, history>>

\* refreshToken: new tokens for whoever still holds a refresh token, unless
\* the account is locked.
Refresh(w, u) ==
  /\ Begin(w, u, None, user[u].state # "absent" /\ ~user[u].locked, "grant")
  /\ UNCHANGED <<tables, history>>

\* loginWithOAuth: finds the account by e-mail or creates it, already verified.
\* No lock is looked at.  A known user's photo is saved into the profile.
OAuthRead(w, u) ==
  /\ user[u].state # "deleted"
  /\ Begin(w, u, profile[u], TRUE,
           IF user[u].state = "absent" THEN "adopt"
           ELSE IF profile[u] = "missing" THEN "grant" ELSE "photo")
  /\ UNCHANGED <<tables, history>>
OAuthInsert(w) ==
  LET u == job[w].user IN
  /\ pc[w] = "adopt"
  /\ IF user[u].state = "absent"
     THEN /\ user' = [user EXCEPT ![u] = NewUser(None, TRUE)]
          /\ Goto(w, "profile") /\ UNCHANGED <<job, mem, dirty, then>>
     ELSE Finish(w) /\ UNCHANGED user
  /\ UNCHANGED <<profile, badge, request, token, width, history>>

\* save(user.profile): the whole profile as it was read.
OAuthPhoto(w) ==
  /\ pc[w] = "photo"
  /\ profile' = [profile EXCEPT ![job[w].user] = job[w].word]
  /\ Goto(w, "grant")
  /\ UNCHANGED <<user, badge, request, token, job, mem, dirty, then, width, history>>

-----------------------------------------------------------------------------
(* Password reset and deletion.                                            *)

\* requestPasswordReset: a random token in the memory of this server, beside
\* those the user asked for earlier.
RequestReset(w, u) ==
  /\ Free(w)
  /\ IF user[u].state = "active"
     THEN \E t \in Tokens \ token[u] :
            /\ \A v \in Workers : job[v].key # t
            /\ token' = [token EXCEPT ![u] = @ \cup {t}]
            /\ redeemed' = [redeemed EXCEPT ![u] = @ \ {t}]
     ELSE UNCHANGED <<token, redeemed>>
  /\ UNCHANGED <<user, profile, badge, request, locals, width, suspended, chosen, guesses, streak>>

\* changePassword: the token is looked up, the user read by id; the password
\* is hashed and saved, and only then is this one token deleted.
ChangeRead(w, u, t, p) ==
  /\ BeginWith(w, u, p, t, t \in token[u], "hash")
  /\ UNCHANGED <<tables, history>>
\* Mutant: the entity is saved without the new hash.
ChangeHashLost(w) ==
  /\ pc[w] = "hash"
  /\ Save(w, mem[w], "redeem")
  /\ UNCHANGED <<tables, job, dirty, width, history>>

ChangeHash(w) ==
  /\ pc[w] = "hash"
  /\ Save(w, WithPassword(mem[w], job[w].word), "redeem")
  /\ UNCHANGED <<tables, job, dirty, width, history>>

\* Mutant: the token stays.
ChangeRedeemKept(w) ==
  /\ pc[w] = "redeem" /\ Finish(w)
  /\ UNCHANGED <<tables, width, history>>

ChangeRedeem(w) ==
  /\ pc[w] = "redeem" /\ Finish(w)
  /\ token' = [token EXCEPT ![job[w].user] = @ \ {job[w].key}]
  /\ UNCHANGED <<user, profile, badge, request, width, history>>

\* A reset token expires after an hour.
TokenExpires(u, t) ==
  /\ t \in token[u]
  /\ token' = [token EXCEPT ![u] = @ \ {t}]
  /\ UNCHANGED <<user, profile, badge, request, locals, width, history>>

\* deleteAccount: the profile is made anonymous first, and then the user:
\* a new e-mail, no password, not verified, locked.
DeleteRead(w, u) ==
  /\ Begin(w, u, profile[u], user[u].state # "absent", "anonymize")
  /\ UNCHANGED <<tables, history>>

\* Mutant: the user is made anonymous whether or not the profile could be.
DeleteProfileSkipped(w) ==
  /\ pc[w] = "anonymize"
  /\ \E q \in {profile[job[w].user], "anonymous"} : profile' = [profile EXCEPT ![job[w].user] = q]
  /\ Save(w, Erased(mem[w]), "idle")
  /\ UNCHANGED <<user, badge, request, token, job, dirty, width, history>>

DeleteProfile(w) ==
  LET u == job[w].user IN
  /\ pc[w] = "anonymize"
  /\ profile' = [profile EXCEPT ![u] = IF job[w].word = "missing" THEN @ ELSE "anonymous"]
  /\ Save(w, Erased(mem[w]), "idle")
  /\ UNCHANGED <<user, badge, request, token, job, dirty, width, history>>

-----------------------------------------------------------------------------
(* The administrator.  update() writes its columns, whatever the row says. *)

SuspendRead(w, u) ==
  /\ Begin(w, u, None, user[u].state # "absent" /\ ~user[u].locked, "suspend")
  /\ UNCHANGED <<tables, history>>
Suspend(w) ==
  /\ pc[w] = "suspend" /\ Finish(w)
  /\ user' = [user EXCEPT ![job[w].user].locked = TRUE]
  /\ suspended' = [suspended EXCEPT ![job[w].user] = TRUE]
  /\ UNCHANGED <<profile, badge, request, token, width, chosen, guesses, streak, redeemed>>

\* The counter of failed attempts is not reset.
UnsuspendRead(w, u) ==
  /\ Begin(w, u, None, user[u].state # "absent" /\ user[u].locked, "unsuspend")
  /\ UNCHANGED <<tables, history>>
Unsuspend(w) ==
  LET u == job[w].user IN
  /\ pc[w] = "unsuspend" /\ Finish(w)
  /\ user' = [user EXCEPT ![u].locked = FALSE, ![u].until = "null"]
  /\ suspended' = [suspended EXCEPT ![u] = FALSE]
  /\ streak' = [streak EXCEPT ![u] = 0]
  /\ UNCHANGED <<profile, badge, request, token, width, chosen, guesses, redeemed>>

\* Mutant: a request can be decided again.
DecideReadAgain(w, u, verdict) ==
  /\ request[u] # "none"
  /\ Begin(w, u, verdict, TRUE, "decide")
  /\ UNCHANGED <<tables, history>>

\* approveVerification and rejectVerification: the status is checked outside
\* the transaction.
DecideRead(w, u, verdict) ==
  /\ Begin(w, u, verdict, request[u] = "pending", "decide")
  /\ UNCHANGED <<tables, history>>

\* The transaction; an approval also marks the user as verified.
Decide(w) ==
  LET u == job[w].user IN
  /\ pc[w] = "decide" /\ Finish(w)
  /\ request' = [request EXCEPT ![u] = job[w].word]
  /\ badge' = [badge EXCEPT ![u] = IF profile[u] = "missing" THEN @ ELSE job[w].word]
  /\ user' = [user EXCEPT ![u].verified = @ \/ job[w].word = "approved"]
  /\ UNCHANGED <<profile, token, width, history>>

-----------------------------------------------------------------------------
(* The environment.                                                        *)

\* A guide has sent in documents (no code of the repository inserts the row).
\* OAuth creates travellers, so a guide has registered and is not verified.
Submit(u) ==
  /\ user[u].state = "active" /\ ~user[u].verified /\ request[u] = "none"
  /\ request' = [request EXCEPT ![u] = "pending"]
  /\ UNCHANGED <<user, profile, badge, token, locals, width, history>>

\* LOCKOUT_DURATION_MS have passed, for the row and for every copy of it.
LockoutElapses(u) ==
  /\ user[u].until = "future"
  /\ user' = [user EXCEPT ![u].until = "past"]
  /\ mem' = [w \in Workers |-> IF job[w].user = u /\ mem[w].until = "future"
                               THEN [mem[w] EXCEPT !.until = "past"] ELSE mem[w]]
  /\ UNCHANGED <<profile, badge, request, token, pc, job, dirty, then, width, history>>

\* An await throws: the request ends in an error, nothing is undone.  After
\* the save of a new password there is nothing left to await.
Fail(w) ==
  /\ pc[w] \notin {"idle", "redeem"} /\ Finish(w)
  /\ UNCHANGED <<tables, width, history>>

\* The server restarts: its requests are gone, and so are the reset tokens.
Restart ==
  /\ \E u \in Users : token[u] # {}
  /\ token' = [u \in Users |-> {}]
  /\ pc' = [w \in Workers |-> "idle"]
  /\ job' = [w \in Workers |-> NoJob]
  /\ mem' = [w \in Workers |-> NoUser]
  /\ dirty' = [w \in Workers |-> {}]
  /\ then' = [w \in Workers |-> "idle"]
  /\ UNCHANGED <<user, profile, badge, request, width, history>>

-----------------------------------------------------------------------------
Init ==
  /\ user = [u \in Users |-> NoUser]
  /\ profile = [u \in Users |-> "missing"]
  /\ badge = [u \in Users |-> "none"]
  /\ request = [u \in Users |-> "none"]
  /\ token = [u \in Users |-> {}]
  /\ pc = [w \in Workers |-> "idle"]
  /\ job = [w \in Workers |-> NoJob]
  /\ mem = [w \in Workers |-> NoUser]
  /\ dirty = [w \in Workers |-> {}]
  /\ then = [w \in Workers |-> "idle"]
  /\ width \in Widths
  /\ suspended = [u \in Users |-> FALSE]
  /\ chosen = [u \in Users |-> None]
  /\ guesses = [u \in Users |-> 0]
  /\ streak = [u \in Users |-> 0]
  /\ redeemed = [u \in Users |-> {}]

\* The routes of a user, of the administrator's suspensions, and of the
\* verification of guides.
UserRoutes(w, u) ==
  \/ Asked("register") /\ \E p \in Passwords : RegisterRead(w, u, p)
  \/ Asked("login") /\ \E p \in Passwords : LoginRead(w, u, p)
  \/ Asked("refresh") /\ Refresh(w, u)
  \/ Asked("oauth") /\ OAuthRead(w, u)
  \/ Asked("reset") /\ (RequestReset(w, u) \/ \E t \in Tokens, p \in Passwords : ChangeRead(w, u, t, p))
  \/ Asked("delete") /\ DeleteRead(w, u)

SuspensionRoutes(w, u) == Asked("suspend") /\ (SuspendRead(w, u) \/ UnsuspendRead(w, u))

VerificationRoutes(w, u) ==
  Asked("verify") /\ \E verdict \in {"approved", "rejected"} : DecideRead(w, u, verdict)

Arrival(w, u) == UserRoutes(w, u) \/ SuspensionRoutes(w, u) \/ VerificationRoutes(w, u)

Step(w) ==
  \/ SaveSelect(w) \/ SaveUpdate(w) \/ RegisterInsert(w) \/ RegisterProfile(w)
  \/ LoginCompare(w) \/ Grant(w) \/ OAuthInsert(w) \/ OAuthPhoto(w)
  \/ ChangeHash(w) \/ ChangeRedeem(w) \/ DeleteProfile(w)
  \/ Suspend(w) \/ Unsuspend(w) \/ Decide(w)

Next ==
  \/ \E w \in Workers : Step(w) \/ Fail(w) \/ \E u \in Users : Arrival(w, u)
  \/ \E u \in Users : Submit(u) \/ LockoutElapses(u) \/ \E t \in Tokens : TokenExpires(u, t)
  \/ Restart

Spec == Init /\ [][Next]_vars

-----------------------------------------------------------------------------
(* Properties.                                                             *)

ProfileData == {"missing", "personal", "anonymous"}
Verdict     == {"none", "pending", "approved", "rejected"}
PcLabels    == {"idle", "select", "update", "register", "profile", "compare", "grant", "refuse", "adopt",
                "photo", "hash", "redeem", "anonymize", "suspend", "unsuspend", "decide"}
Quiet(u)    == \A w \in Workers : job[w].user # u
OneByOne    == width = 1

\* Every variable has its type.
TypeOK ==
  /\ user \in [Users -> UserRow]
  /\ profile \in [Users -> ProfileData]
  /\ badge \in [Users -> Verdict]
  /\ request \in [Users -> Verdict]
  /\ token \in [Users -> SUBSET Tokens]
  /\ pc \in [Workers -> PcLabels]
  /\ job \in [Workers -> [user : Users \cup {None}, key : Tokens \cup {None},
                          word : Passwords \cup {None} \cup ProfileData \cup Verdict]]
  /\ mem \in [Workers -> UserRow]
  /\ dirty \in [Workers -> SUBSET Columns]
  /\ then \in [Workers -> PcLabels]
  /\ width \in Widths
  /\ suspended \in [Users -> BOOLEAN] /\ redeemed \in [Users -> SUBSET Tokens]
  /\ chosen \in [Users -> Passwords \cup {None}]
  /\ guesses \in [Users -> 0..MaxFailedAttempts] /\ streak \in [Users -> 0..MaxFailedAttempts]

\* Nobody is locked out who has not had MAX_FAILED_ATTEMPTS wrong passwords,
\* however logins, administrators and stale saves overlap.  One request at a
\* time, that many wrong passwords in a row lock the account, and an account is
\* marked locked only by them or by an administrator.
LocksAreEarned ==
  \A u \in Users :
    /\ user[u].until # "null" => guesses[u] = MaxFailedAttempts
    /\ OneByOne /\ Quiet(u) =>
         /\ streak[u] = MaxFailedAttempts => user[u].until # "null"
         /\ user[u].state = "active" /\ user[u].locked => suspended[u] \/ user[u].until # "null"

\* One request at a time, the password of a live account is the one set last:
\* no save of an entity read earlier brings an old one back.
PasswordIsLatest ==
  OneByOne => \A u \in Users : Quiet(u) /\ user[u].state = "active" => user[u].password = chosen[u]

\* One request at a time, a deleted account keeps no personal data, wherever
\* the deletion was interrupted.
DeletedIsAnonymous ==
  OneByOne => \A u \in Users : user[u].state = "deleted" => profile[u] # "personal"

\* One request at a time, a reset token changes the password once, also when
\* the request fails or the server stops between the two.
TokenWorksOnce ==
  [][OneByOne => \A w \in Workers :
                   pc[w] = "hash" /\ pc'[w] = "select" => job[w].key \notin redeemed[job[w].user]]_vars

\* One request at a time, the request, the guide's badge and the user's flag
\* agree on the administrator's decision.
DecisionIsConsistent ==
  OneByOne => \A u \in Users :
    /\ request[u] # "none" /\ user[u].state = "active" =>
         (user[u].verified <=> request[u] = "approved")
    /\ badge[u] # "none" => badge[u] = request[u]
=============================================================================
