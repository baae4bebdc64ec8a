------------------------------ MODULE Session ------------------------------
(***************************************************************************)
(* Who the web client takes its user to be: the tokens in localStorage, the *)
(* auth store (store/auth.ts), and the interceptors of lib/api.ts that put *)
(* the access token on every request, exchange the refresh token when a    *)
(* request is answered 401, and send the request again.                    *)
(*                                                                         *)
(* Requests overlap: the bell loads its list beside those of the page, the *)
(* forms of /login are open to whoever is signed in.                       *)
(***************************************************************************)
EXTENDS Naturals

CONSTANTS Users, Calls, None

VARIABLES
  access,     \* localStorage access_token: whose it is, or None
  refresh,    \* localStorage refresh_token
  user,       \* the store's user; isAuthenticated says user # None
  loading,    \* the store's isLoading
  call,       \* the requests in flight
  leaving,    \* window.location was set, the page is not yet unloaded
  out,        \* history: the user signed out and nobody signed in since
  overlapped  \* history: somebody signed in or out while a token was refreshed

vars == <<access, refresh, user, loading, call, leaving, out, overlapped>>

Owners == Users \cup {None}
Forms  == {"login", "register", "oauth"}

\* op, as whom, its refresh token while it is refreshed, how often it was sent.
Call(op, u, with, sent) == [op |-> op, by |-> u, with |-> with, sent |-> sent]
Free == Call("none", None, None, 0)
Reload0 == [c \in Calls |-> Free]

Refreshing(c) == call[c].with # None
InFlight(c)   == call[c].op # "none" /\ ~Refreshing(c)

-----------------------------------------------------------------------------
\* A request of a page or of the bell in the navigation bar.
Request(c) ==
  /\ call[c] = Free
  /\ call' = [call EXCEPT ![c] = Call("page", access, None, 1)]
  /\ UNCHANGED <<access, refresh, user, loading, leaving, out, overlapped>>

\* A form sends its call; the store says isLoading.
Submit(c, f, u) ==
  /\ call[c] = Free /\ ~leaving
  /\ loading' = TRUE
  /\ call' = [call EXCEPT ![c] = Call(f, u, None, 1)]
  /\ UNCHANGED <<access, refresh, user, leaving, out, overlapped>>

\* The forms of /login and /register wait for isLoading; the buttons of Google
\* and Facebook beside them do not.
SubmitLogin(c, u)    == ~loading /\ Submit(c, "login", u)
SubmitRegister(c, u) == ~loading /\ Submit(c, "register", u)
SubmitOAuth(c, u)    == Submit(c, "oauth", u)

Overlap == overlapped' = (overlapped \/ \E c \in Calls : Refreshing(c))

\* The service accepts: the tokens of the answer and its user. A POST to
\* /auth/oauth is never accepted (501).
Accepted(c) ==
  /\ InFlight(c) /\ call[c].op # "oauth"
  /\ call' = [call EXCEPT ![c] = Free]
  /\ IF call[c].op = "page"
     THEN UNCHANGED <<access, refresh, user, loading, out, overlapped>>
     ELSE /\ access' = call[c].by /\ refresh' = call[c].by /\ user' = call[c].by
          /\ loading' = FALSE /\ out' = FALSE /\ Overlap
  /\ UNCHANGED leaving

\* Mutant: the store keeps isLoading when a sign-in fails.
RejectLoading(c) == call' = [call EXCEPT ![c] = Free] /\ UNCHANGED loading

\* The error reaches the caller: a form shows it.
Reject(c) ==
  /\ call' = [call EXCEPT ![c] = Free]
  /\ loading' = (loading /\ call[c].op \notin Forms)

Again(c) == call[c].sent = 1

\* 401: a token that has expired, a missing one, or a wrong password; once per
\* request the refresh token is exchanged. The others are rejected at once.
Unauthorized(c) ==
  /\ InFlight(c) /\ call[c].op \in {"page", "login"}
  /\ call[c].op = "page" => call[c].sent = 1
  /\ IF Again(c) /\ refresh # None
     THEN call' = [call EXCEPT ![c].with = refresh] /\ UNCHANGED loading
     ELSE Reject(c)
  /\ UNCHANGED <<access, refresh, user, leaving, out, overlapped>>

\* Any other refusal, no answer within ten seconds, no connection.
Refused(c) ==
  /\ InFlight(c)
  /\ Reject(c)
  /\ UNCHANGED <<access, refresh, user, leaving, out, overlapped>>

\* The new access token, stored whatever happened meanwhile; then once more.
Refreshed(c) ==
  /\ Refreshing(c)
  /\ access' = call[c].with
  /\ call' = [call EXCEPT ![c].with = None, ![c].sent = @ + 1]
  /\ UNCHANGED <<refresh, user, loading, leaving, out, overlapped>>

Leave == leaving' = TRUE

\* The refresh token is refused, or not answered.
RefreshFails(c) ==
  /\ Refreshing(c)
  /\ access' = None /\ refresh' = None
  /\ Leave
  /\ Reject(c)
  /\ UNCHANGED <<user, out, overlapped>>

\* Mutant: the refresh token stays.
ForgetAccess == access' = None /\ UNCHANGED refresh

Forget == access' = None /\ refresh' = None

\* "Sign out", offered with the user's menu.
Logout ==
  /\ user # None
  /\ Forget
  /\ user' = None /\ out' = TRUE /\ Overlap
  /\ UNCHANGED <<loading, call, leaving>>

\* The page is loaded anew: the store starts empty, the tokens are still there,
\* and nothing asks the service whose they are (no component mounts useAuth).
Reload ==
  /\ user' = None /\ loading' = FALSE /\ leaving' = FALSE
  /\ call' = Reload0
  /\ UNCHANGED <<access, refresh, out, overlapped>>

Answer(c) == Accepted(c) \/ Unauthorized(c) \/ Refused(c) \/ Refreshed(c) \/ RefreshFails(c)

-----------------------------------------------------------------------------
Init ==
  /\ access = None /\ refresh = None /\ user = None
  /\ loading = FALSE /\ leaving = FALSE
  /\ call = Reload0
  /\ out = FALSE /\ overlapped = FALSE

Next ==
  \/ \E c \in Calls : Request(c) \/ Answer(c)
  \/ \E c \in Calls, u \in Users : SubmitLogin(c, u) \/ SubmitRegister(c, u) \/ SubmitOAuth(c, u)
  \/ Logout \/ Reload

Spec == Init /\ [][Next]_vars

\* Every request is answered or times out; a refresh, sent without a timeout
\* of its own, ends with its connection.
FairSpec == Spec /\ \A c \in Calls : WF_vars(Answer(c))

-----------------------------------------------------------------------------
(* Properties.                                                             *)

\* Every variable has its type.
TypeOK ==
  /\ {access, refresh, user} \subseteq Owners
  /\ loading \in BOOLEAN /\ leaving \in BOOLEAN /\ out \in BOOLEAN /\ overlapped \in BOOLEAN
  /\ \A c \in Calls : call[c].by \in Owners /\ call[c].with \in Owners /\ call[c].sent \in Nat

\* Whoever the page shows as signed in, its requests are made in that name,
\* and it can renew the token: unless somebody signed in or out while a token
\* was being refreshed, for that refresh stores the other user's token late.
ShownIsHeld ==
  ~overlapped /\ ~leaving /\ user # None => access = user /\ refresh = user

\* Nothing brings the tokens back after signing out, with the same exception.
SignedOutStaysOut == out /\ ~overlapped => access = None /\ refresh = None

\* No request is sent more than twice, whatever the service answers.
SentAtMostTwice == \A c \in Calls : call[c].sent <= 2

Disabled == loading
=============================================================================
