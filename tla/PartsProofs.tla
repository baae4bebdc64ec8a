----------------------------- MODULE PartsProofs ----------------------------
(***************************************************************************)
(* What is proved of the pages and services that stand by themselves, for  *)
(* any number of overlapping calls, users and rows.  A behaviour follows   *)
(* one part: each proof takes the part's own invariant first and then      *)
(* joins the parts whose properties go by one name in MCParts.             *)
(***************************************************************************)
EXTENDS MCParts, FiniteSetTheorems, TLAPS

-----------------------------------------------------------------------------
(* The session of the web client.                                          *)

SessionCalls ==
  [op : {"none", "page"} \cup S!Forms, by : S!Owners, with : S!Owners, sent : 0..2]

\* What is known of a request: a free one is blank, a form names a user, and only
\* a request sent once waits for a token.
SessionCall(x) ==
  /\ x \in SessionCalls
  /\ x.op = "none" => x = S!Free
  /\ x.op \in S!Forms => x.by \in Users
  /\ x.with # None => x.op # "none" /\ x.sent = 1

\* While nobody signs in or out during a refresh, every token that is being
\* exchanged is the shown user's, and there is none once the user has signed out.
SessionInv ==
  /\ x1 \in S!Owners /\ x2 \in S!Owners /\ x3 \in S!Owners
  /\ x4 \in BOOLEAN /\ x6 \in BOOLEAN /\ x7 \in BOOLEAN /\ x8 \in BOOLEAN
  /\ x5 \in [Actors -> SessionCalls]
  /\ \A c \in Actors : SessionCall(x5[c])
  /\ ~x8 /\ ~x6 /\ x3 # None =>
       x1 = x3 /\ x2 = x3 /\ \A c \in Actors : x5[c].with # None => x5[c].with = x3
  /\ x7 /\ ~x8 => x1 = None /\ x2 = None /\ \A c \in Actors : x5[c].with = None

LEMMA CallsMade ==
  ASSUME NEW op \in {"none", "page"} \cup S!Forms, NEW u \in S!Owners,
         NEW with \in S!Owners, NEW sent \in 0..2
  PROVE  /\ S!Call(op, u, with, sent) \in SessionCalls
         /\ S!Call(op, u, with, sent).op = op
         /\ S!Call(op, u, with, sent).by = u
         /\ S!Call(op, u, with, sent).with = with
         /\ S!Call(op, u, with, sent).sent = sent
BY DEF SessionCalls, S!Call

LEMMA FreeCall ==
  /\ SessionCall(S!Free)
  /\ S!Free.op = "none" /\ S!Free.with = None
BY CallsMade DEF SessionCall, S!Free, S!Owners, S!Forms

\* A request that waits for a token, and one that was given one.
LEMMA CallsWait ==
  ASSUME NEW x, SessionCall(x), NEW t \in S!Owners
  PROVE  /\ x.op # "none" /\ x.sent = 1 => SessionCall([x EXCEPT !.with = t])
         /\ [x EXCEPT !.with = t].with = t
BY DEF SessionCall, SessionCalls, S!Forms, S!Free, S!Call

LEMMA SessionStarts == S!Init => SessionInv
BY FreeCall DEF S!Init, SessionInv, S!Owners, S!Reload0, SessionCall

LEMMA SessionStep == SessionInv /\ S!Next => SessionInv'
<1> SUFFICES ASSUME SessionInv, S!Next PROVE SessionInv'
  OBVIOUS
<1>0. SessionInv
  OBVIOUS
<1>1. ASSUME NEW c \in Actors, S!Request(c) PROVE SessionInv'
  <2> DEFINE new == S!Call("page", x1, None, 1)
  <2>1. SessionCall(new) /\ new.with = None
    BY CallsMade DEF SessionCall, SessionInv, S!Owners, S!Forms
  <2> HIDE DEF new
  <2>2. x5' = [x5 EXCEPT ![c] = new]
    BY <1>1 DEF S!Request, new
  <2> QED BY <1>0, <1>1, <2>1, <2>2 DEF SessionInv, SessionCall, S!Request
<1>2. ASSUME NEW c \in Actors, NEW f \in S!Forms, NEW u \in Users, S!Submit(c, f, u)
      PROVE  SessionInv'
  <2> DEFINE new == S!Call(f, u, None, 1)
  <2>1. SessionCall(new) /\ new.with = None
    BY CallsMade DEF SessionCall, SessionInv, S!Owners, S!Forms
  <2> HIDE DEF new
  <2>2. x5' = [x5 EXCEPT ![c] = new]
    BY <1>2 DEF S!Submit, new
  <2> QED BY <1>0, <1>2, <2>1, <2>2 DEF SessionInv, SessionCall, S!Submit
<1>3. ASSUME NEW c \in Actors, S!Accepted(c) PROVE SessionInv'
  <2>1. x5' = [x5 EXCEPT ![c] = S!Free]
    BY <1>3 DEF S!Accepted
  <2>2. CASE x5[c].op = "page"
    BY <1>0, <1>3, <2>1, <2>2, FreeCall DEF SessionInv, SessionCall, S!Accepted
  <2>3. CASE x5[c].op # "page"
    <3>1. x5[c].op \in S!Forms /\ x5[c].by \in Users
      BY <1>0, <1>3, <2>3 DEF SessionInv, SessionCall, SessionCalls, S!Accepted, S!InFlight
    <3> QED BY <1>0, <1>3, <2>1, <2>3, <3>1, FreeCall
            DEF SessionInv, SessionCall, S!Accepted, S!Overlap, S!Refreshing, S!Owners
  <2> QED BY <2>2, <2>3
<1>4. ASSUME NEW c \in Actors, S!Reject(c), UNCHANGED <<x1, x2, x3, x6, x7, x8>> PROVE SessionInv'
  BY <1>0, <1>4, FreeCall DEF SessionInv, SessionCall, S!Reject
<1>5. ASSUME NEW c \in Actors, S!Unauthorized(c) PROVE SessionInv'
  <2>1. CASE S!Again(c) /\ x2 # None
    <3> DEFINE new == [x5[c] EXCEPT !.with = x2]
    <3>1. SessionCall(new) /\ new.with = x2
      BY <1>0, <1>5, <2>1, CallsWait DEF SessionInv, S!Unauthorized, S!Again, S!InFlight
    <3> HIDE DEF new
    <3>2. x5' = [x5 EXCEPT ![c] = new]
      BY <1>0, <1>5, <2>1 DEF S!Unauthorized, new, SessionInv
    <3> QED BY <1>0, <1>5, <2>1, <3>1, <3>2 DEF SessionInv, SessionCall, S!Unauthorized
  <2>2. CASE ~(S!Again(c) /\ x2 # None)
    BY <1>4, <1>5, <2>2 DEF S!Unauthorized
  <2> QED BY <2>1, <2>2
<1>6. ASSUME NEW c \in Actors, S!Refreshed(c) PROVE SessionInv'
  <2> DEFINE new == [x5[c] EXCEPT !.with = None, !.sent = @ + 1]
  <2>1. SessionCall(x5[c]) /\ x5[c].with # None /\ x5[c].with \in S!Owners
    BY <1>0, <1>6 DEF SessionInv, SessionCall, SessionCalls, S!Refreshed, S!Refreshing
  <2>2. SessionCall(new) /\ new.with = None
    <3>1. x5[c].op \in {"page"} \cup S!Forms /\ x5[c].by \in S!Owners /\ x5[c].sent = 1
      BY <2>1 DEF SessionCall, SessionCalls
    <3>2. /\ new.op = x5[c].op /\ new.by = x5[c].by /\ new.with = None /\ new.sent = 2
          /\ DOMAIN new = {"op", "by", "with", "sent"}
      BY <2>1, <3>1 DEF SessionCall, SessionCalls
    <3>3. new \in SessionCalls
      <4>1. x5[c].sent + 1 \in 0..2 /\ None \in S!Owners
        BY <3>1 DEF S!Owners
      <4> QED BY <2>1, <4>1, Zenon DEF SessionCall, SessionCalls
    <3> HIDE DEF new
    <3> QED BY <2>1, <3>1, <3>2, <3>3 DEF SessionCall, S!Forms
  <2> HIDE DEF new
  <2>3. x5' = [x5 EXCEPT ![c] = new]
    BY <1>0, <1>6 DEF S!Refreshed, new, SessionInv
  <2> QED BY <1>0, <1>6, <2>1, <2>2, <2>3 DEF SessionInv, SessionCall, S!Refreshed
<1>7. ASSUME NEW c \in Actors, S!RefreshFails(c) PROVE SessionInv'
  BY <1>0, <1>7, FreeCall
     DEF SessionInv, SessionCall, S!RefreshFails, S!Reject, S!Leave, S!Refreshing, S!Owners
<1>8. ASSUME S!Logout PROVE SessionInv'
  BY <1>0, <1>8 DEF SessionInv, S!Logout, S!Forget, S!Overlap, S!Refreshing, S!Owners
<1>9. ASSUME S!Reload PROVE SessionInv'
  BY <1>0, <1>9, FreeCall DEF SessionInv, S!Reload, S!Reload0, S!Owners, SessionCall
<1> QED
  BY <1>1, <1>2, <1>3, <1>4, <1>5, <1>6, <1>7, <1>8, <1>9
     DEF S!Next, S!Answer, S!SubmitLogin, S!SubmitRegister, S!SubmitOAuth, S!Forms, S!Refused

\* The client makes its requests in the name of the user it shows, a user who signed
\* out stays signed out, and no request is sent more than twice: with any number of
\* requests, forms and refreshes under way (lib/api.ts, store/auth.ts).
THEOREM SessionsAreHeld == Spec => []SessionIsHeld
<1> DEFINE Inv == part = "session" => SessionInv
<1>1. Init => Inv
  BY SessionStarts DEF Init
<1>2. Inv /\ [Next]_vars => Inv'
  <2> SUFFICES ASSUME Inv, [Next]_vars, part' = "session" PROVE SessionInv'
    OBVIOUS
  <2>1. part = "session" /\ SessionInv
    BY DEF Next, vars
  <2>2. CASE S!Next
    BY <2>1, <2>2, SessionStep
  <2>3. CASE UNCHANGED vars
    BY <2>1, <2>3 DEF vars, SessionInv
  <2> QED BY <2>1, <2>2, <2>3 DEF Next
<1>3. Inv => SessionIsHeld
  BY DEF SessionIsHeld, SessionInv, SessionCall, SessionCalls,
         S!ShownIsHeld, S!SignedOutStaysOut, S!SentAtMostTwice
<1> QED BY <1>1, <1>2, <1>3, PTL DEF Spec

-----------------------------------------------------------------------------
(* The administrator's list of pending requests.                           *)

\* A list that is asked for will hold the pending requests, but for those that
\* others reopened meanwhile; and it is asked for once at a time as long as the
\* administrator does not leave it and come back before it is there.
AdminInv ==
  LET Asked == {a \in x8 : a.tab = "verifications"} IN
  /\ x1 \in [Requests -> {"pending"} \cup A!Decided]
  /\ "verifications" \in DOMAIN x3
  /\ x14 \in Nat
  /\ x14 = 0 /\ x2 # "verifications" => Asked = {}
  /\ x14 <= 1 =>
       /\ \A a, b \in Asked : a = b
       /\ \A a \in Asked : A!Pending \subseteq a.rows \cup x12
       /\ "verifications" \in x10 => A!Pending \subseteq x3["verifications"] \cup x11 \cup x12

LEMMA AdminStarts == A!Init => AdminInv
BY DEF A!Init, AdminInv, A!Listed, A!Lists

LEMMA AdminStep == AdminInv /\ A!Next => AdminInv'
<1> SUFFICES ASSUME AdminInv, A!Next PROVE AdminInv'
  OBVIOUS
<1>0. AdminInv
  OBVIOUS
<1>1. ASSUME NEW a \in x8, A!Arrive(a) PROVE AdminInv'
  <2>1. CASE UNCHANGED <<x3, x4, x10, x11, x12>>
    BY <1>0, <1>1, <2>1 DEF AdminInv, A!Arrive, A!Pending
  <2>2. CASE a.tab # "verifications" /\ ~UNCHANGED <<x3, x4, x10, x11, x12>>
    BY <1>0, <1>1, <2>2 DEF AdminInv, A!Arrive, A!Pending
  <2>3. ASSUME NEW rows \in {a.rows, A!Listed(a.tab)}, a.tab = "verifications",
               x3' = [x3 EXCEPT ![a.tab] = rows],
               x12' = {r \in x12 : r \in rows <=> r \notin A!Pending}
        PROVE  AdminInv'
    <3>1. x8' = x8 \ {a} /\ x1' = x1 /\ x2' = x2 /\ x14' = x14
      BY <1>1 DEF A!Arrive
    <3>2. A!Pending' = A!Pending
      BY <3>1 DEF A!Pending
    <3>3. x14 <= 1 => A!Pending \subseteq rows \cup x12
      BY <1>0, <2>3 DEF AdminInv, A!Listed
    <3>4. x14 <= 1 => A!Pending \subseteq rows \cup x12'
      BY <2>3, <3>3
    <3> QED BY <1>0, <2>3, <3>1, <3>2, <3>4 DEF AdminInv
  <2> QED BY <1>1, <2>1, <2>2, <2>3 DEF A!Arrive
<1>2. ASSUME NEW t \in A!Tabs, A!SelectTab(t) PROVE AdminInv'
  <2> DEFINE new == [tab |-> t, rows |-> A!Listed(t)]
  <2>1. new.tab = t /\ (t = "verifications" => new.rows = A!Pending)
    BY DEF A!Listed
  <2> HIDE DEF new
  <2>2. /\ x8' = x8 \cup {new} /\ x2' = t /\ t # x2
        /\ UNCHANGED <<x1, x3, x10, x11, x12>>
    BY <1>2 DEF A!SelectTab, new
  <2>3. \/ x8 = {} /\ x14' = x14
        \/ x14' = x14 + 1
    BY <1>2 DEF A!SelectTab, A!Act, A!Quiet
  <2>4. A!Pending' = A!Pending
    BY <2>2 DEF A!Pending
  <2> QED BY <1>0, <2>1, <2>2, <2>3, <2>4 DEF AdminInv
<1>3. ASSUME NEW c \in x9, A!Answered(c) PROVE AdminInv'
  <2>1. /\ UNCHANGED <<x2, x8, x10, x12, x14>>
        /\ x3' = x3 \/ x3' = [x3 EXCEPT ![c.tab] = @ \ {c.on}]
        /\ A!Pending' \subseteq A!Pending
        /\ x1' \in [Requests -> {"pending"} \cup A!Decided]
        /\ x11 \subseteq x11'
        /\ c.tab = "verifications" => c.on \notin A!Pending' \/ c.on \in x11'
    <3>1. x3' = x3 \/ x3' = [x3 EXCEPT ![c.tab] = @ \ {c.on}]
      BY <1>3 DEF A!Answered, A!AfterCall
    <3>2. CASE x1' = x1 /\ x11' = IF c.tab = "verifications" THEN x11 \cup {c.on} ELSE x11
      BY <1>0, <1>3, <3>1, <3>2 DEF AdminInv, A!Answered, A!Pending
    <3>3. ASSUME NEW s \in {"approved", "rejected"}, x1' = [x1 EXCEPT ![c.on] = s], x11' = x11
          PROVE  /\ A!Pending' = A!Pending \ {c.on}
                 /\ x1' \in [Requests -> {"pending"} \cup A!Decided]
      BY <1>0, <3>3 DEF AdminInv, A!Pending, A!Decided
    <3> QED BY <1>3, <3>1, <3>2, <3>3 DEF A!Answered
  <2>2. c.tab # "verifications" /\ "verifications" \in DOMAIN x3 =>
          x3'["verifications"] = x3["verifications"]
    BY <2>1
  <2>3. "verifications" \in DOMAIN x3 => x3["verifications"] \subseteq x3'["verifications"] \cup {c.on}
    BY <2>1
  <2> QED BY <1>0, <2>1, <2>2, <2>3 DEF AdminInv
<1>4. ASSUME NEW r \in Requests, NEW s \in {"pending", "approved"}, A!Elsewhere(r, s) PROVE AdminInv'
  <2>1. /\ UNCHANGED <<x2, x3, x8, x10, x11, x14>>
        /\ x12' = x12 \cup {r}
        /\ A!Pending' \subseteq A!Pending \cup {r}
        /\ x1' \in [Requests -> {"pending"} \cup A!Decided]
    BY <1>0, <1>4 DEF AdminInv, A!Elsewhere, A!screen, A!Pending, A!Decided
  <2> QED BY <1>0, <2>1 DEF AdminInv
<1>5. ASSUME UNCHANGED <<x1, x2, x3, x8, x10, x11, x12>>, A!Act PROVE AdminInv'
  BY <1>0, <1>5 DEF AdminInv, A!Act, A!Pending
<1> QED
  BY <1>1, <1>2, <1>3, <1>4, <1>5
     DEF A!Next, A!Type, A!Cancel, A!Refuse, A!Blank, A!Open, A!Approve, A!Remove, A!Unsuspend,
         A!Call, A!screen

-----------------------------------------------------------------------------
(* The form of the guide's listings.                                       *)

\* As long as the guide waits for the answers, the form being saved is open, holds
\* no unsent input, and nothing else is under way.
GuideInv ==
  /\ x7 \in [of : Experiences \cup {None, "closed"}, dirty : BOOLEAN]
  /\ x7.of = "closed" => x7 = G!NoForm
  /\ x16 \in Nat
  /\ x16 = 0 =>
       /\ x14 = FALSE
       /\ \A c \in x11 : c.op = "save" => x11 = {c} /\ x7 # G!NoForm /\ ~x7.dirty

LEMMA GuideStarts == G!Init => GuideInv
BY DEF G!Init, GuideInv, G!NoForm

LEMMA GuideStep == GuideInv /\ G!Next => GuideInv'
<1> SUFFICES ASSUME GuideInv, G!Next PROVE GuideInv'
  OBVIOUS
<1>0. GuideInv
  OBVIOUS
<1>1. ASSUME NEW c \in x11, UNCHANGED <<x7, x14, x16>>, x11' = x11 \ {c} PROVE GuideInv'
  BY <1>0, <1>1 DEF GuideInv
<1>2. ASSUME NEW c \in x11, c.op = "save", G!FormSaved(c) PROVE GuideInv'
  <2>1. x11' = x11 \ {c} /\ x16' = x16
    BY <1>2 DEF G!FormSaved
  <2>2. CASE x7' = G!NoForm /\ x14' = (x14 \/ x7.dirty)
    BY <1>0, <1>2, <2>1, <2>2 DEF GuideInv, G!NoForm
  <2>3. CASE G!NotSaved
    BY <1>0, <1>2, <2>1, <2>3 DEF GuideInv, G!NotSaved
  <2> QED BY <1>2, <2>2, <2>3 DEF G!FormSaved
<1>3. ASSUME G!SaveForm PROVE GuideInv'
  <2> DEFINE call == [op |-> "save", on |-> x7.of, to |-> "none"]
             new  == [x7 EXCEPT !.dirty = FALSE]
  <2>1. /\ x11' = x11 \cup {call} /\ x7' = new /\ x14' = x14
        /\ (x16' = x16 /\ x11 = {}) \/ x16' = x16 + 1
        /\ x7 # G!NoForm
    BY <1>3 DEF G!SaveForm, G!SentForm, G!Act, G!Quiet, G!history
  <2>2. /\ new \in [of : Experiences \cup {None, "closed"}, dirty : BOOLEAN]
        /\ new.of = x7.of /\ new.dirty = FALSE
        /\ x7.of # "closed"
    BY <1>0, <2>1 DEF GuideInv
  <2>3. new # G!NoForm
    BY <2>2 DEF G!NoForm
  <2> HIDE DEF call, new
  <2> QED BY <1>0, <2>1, <2>2, <2>3 DEF GuideInv
<1>4. ASSUME UNCHANGED <<x7, x11, x14>>, x16' = x16 \/ x16' = x16 + 1 PROVE GuideInv'
  BY <1>0, <1>4 DEF GuideInv
\* What the guide opens, types and cancels with every answer in.
<1>5. ASSUME G!Act, UNCHANGED <<x11, x14>>,
             x7' \in [of : Experiences \cup {None, "closed"}, dirty : BOOLEAN],
             x7'.of = "closed" => x7' = G!NoForm
      PROVE  GuideInv'
  BY <1>0, <1>5 DEF GuideInv, G!Act, G!Quiet, G!NoForm
<1>6. ASSUME NEW e \in Experiences \cup {None}, G!OpenForm(e) PROVE GuideInv'
  BY <1>5, <1>6 DEF G!OpenForm, G!Form, G!NoForm, G!history
<1>7. ASSUME G!Type PROVE GuideInv'
  <2>1. /\ x7' \in [of : Experiences \cup {None, "closed"}, dirty : BOOLEAN]
        /\ x7'.of = x7.of /\ x7.of # "closed"
    BY <1>0, <1>7 DEF GuideInv, G!Type
  <2> QED BY <1>5, <1>7, <2>1 DEF G!Type, G!history
<1>8. ASSUME G!Cancel PROVE GuideInv'
  BY <1>5, <1>8 DEF G!Cancel, G!NoForm, G!history
<1>9. ASSUME G!Act, x14' = x14, x7' = x7,
             NEW call, call.op # "save", x11' = x11 \cup {call}
      PROVE  GuideInv'
  BY <1>0, <1>9 DEF GuideInv, G!Act, G!Quiet
<1>10. ASSUME NEW e \in Experiences, G!Toggle(e) PROVE GuideInv'
  <2> DEFINE call == [op |-> "toggle", on |-> e, to |-> IF x5[e] = "active" THEN "inactive" ELSE "active"]
  <2>1. call.op # "save"
    OBVIOUS
  <2> HIDE DEF call
  <2>2. x11' = x11 \cup {call}
    BY <1>10 DEF G!Toggle, call
  <2> QED BY <1>9, <1>10, <2>1, <2>2 DEF G!Toggle, G!history
<1>11. ASSUME G!ConfirmDelete PROVE GuideInv'
  <2> DEFINE call == [op |-> "delete", on |-> x8, to |-> "none"]
  <2>1. call.op # "save"
    OBVIOUS
  <2> HIDE DEF call
  <2>2. x11' = x11 \cup {call}
    BY <1>11 DEF G!ConfirmDelete, call
  <2> QED BY <1>9, <1>11, <2>1, <2>2 DEF G!ConfirmDelete, G!history, G!screen
<1>12. ASSUME NEW c \in x11, G!GiveUp(c) PROVE GuideInv'
  <2>1. x11' = x11 \ {c} /\ UNCHANGED <<x7, x16>>
    BY <1>12 DEF G!GiveUp, G!NotSaved
  <2>2. CASE c.op = "save" /\ x14' = (x14 \/ x7 = G!NoForm)
    BY <1>0, <1>12, <2>1, <2>2 DEF GuideInv
  <2>3. CASE x14' = x14
    BY <1>1, <2>1, <2>3
  <2> QED BY <1>12, <2>2, <2>3 DEF G!GiveUp, G!NotSaved
<1>13. ASSUME NEW c \in x17, G!ServeLate(c) PROVE GuideInv'
  BY <1>4, <1>13 DEF G!ServeLate, G!screen
<1> QED
  BY <1>1, <1>2, <1>3, <1>4, <1>6, <1>7, <1>8, <1>10, <1>11, <1>12, <1>13
     DEF G!Next, G!Arrive, G!SelectTab, G!SelectFilter, G!KeepListing, G!AskDelete, G!Decide,
         G!Complete, G!Toggled, G!Deleted, G!Act, G!history, G!screen

-----------------------------------------------------------------------------
(* The comment on a booking.                                               *)

\* Until a modal is closed with a comment in it, every comment, on the screen, on
\* its way or stored, is about its booking.  As long as the traveller waits for the
\* answers, one review is on its way, with the comment on the screen.
ReviewInv ==
  /\ x1 \in {"dashboard", "new"} /\ x2 \in Notes \cup {None}
  /\ x1 = "new" => x2 \in Notes
  /\ x4 \in W!Words /\ x9 \in BOOLEAN /\ x10 \in BOOLEAN /\ x11 \in Nat
  /\ x6 \subseteq [on : Notes, text : W!Words]
  /\ x7 \in [Notes -> W!Words \cup {None}]
  /\ x8 \subseteq Notes
  /\ \A b \in x8 : x7[b] # None
  /\ ~x9 =>
       /\ x4 \in {"nothing", x2}
       /\ \A c \in x6 : c.text \in {"nothing", c.on}
       /\ \A b \in Notes : x7[b] \in {None, "nothing", b}
  /\ x11 = 0 =>
       /\ ~x10
       /\ \A c \in x6 : x6 = {c} /\ c.text = x4

LEMMA ReviewStarts ==
  ASSUME None \notin W!Words
  PROVE  W!Init => ReviewInv
<1> SUFFICES ASSUME W!Init PROVE ReviewInv
  OBVIOUS
<1>1. x7 \in [Notes -> W!Words \cup {None}] /\ \A b \in Notes : x7[b] = None
  BY DEF W!Init
<1>2. x1 = "dashboard" /\ x2 = None /\ x4 = "nothing" /\ x6 = {} /\ x8 = {} /\ x11 = 0
  BY DEF W!Init
<1>3. x9 \in BOOLEAN /\ x10 \in BOOLEAN /\ ~x10
  BY DEF W!Init
<1> QED BY <1>1, <1>2, <1>3 DEF ReviewInv, W!Words

LEMMA ReviewStep ==
  ASSUME None \notin W!Words
  PROVE  ReviewInv /\ W!Next => ReviewInv'
<1> SUFFICES ASSUME ReviewInv, W!Next PROVE ReviewInv'
  OBVIOUS
<1>0. ReviewInv
  OBVIOUS
<1>1. ASSUME NEW b \in Notes, W!Open(b) PROVE ReviewInv'
  BY <1>0, <1>1 DEF ReviewInv, W!Open, W!Act, W!past, W!Words
<1>2. ASSUME W!Close PROVE ReviewInv'
  <2>1. /\ x1' = x1 /\ x1 = "dashboard" /\ x2' = None
        /\ UNCHANGED <<x4, x6, x7, x8, x10>>
        /\ x11' = x11 \/ x11' = x11 + 1
    BY <1>2 DEF W!Close, W!Act
  <2>2. x9' \in BOOLEAN /\ (~x9' => ~x9 /\ x4 = "nothing")
    BY <1>0, <1>2 DEF ReviewInv, W!Close
  <2> QED BY <1>0, <2>1, <2>2 DEF ReviewInv, W!Words
<1>3. ASSUME W!Type PROVE ReviewInv'
  BY <1>0, <1>3 DEF ReviewInv, W!Type, W!Act, W!past, W!Words
<1>4. ASSUME W!Rate PROVE ReviewInv'
  BY <1>0, <1>4 DEF ReviewInv, W!Rate, W!Act, W!past, W!Words
<1>5. ASSUME W!SubmitModal \/ W!SubmitForm PROVE ReviewInv'
  <2> DEFINE call == [on |-> x2, text |-> x4]
  <2>1. /\ x6' = x6 \cup {call} /\ x2 \in Notes
        /\ UNCHANGED <<x1, x2, x4, x7, x8, x9, x10>>
        /\ (x6 = {} /\ x11' = x11) \/ x11' = x11 + 1
    BY <1>0, <1>5 DEF ReviewInv, W!SubmitModal, W!SubmitForm, W!Send, W!Act, W!screen, W!past
  <2>2. call \in [on : Notes, text : W!Words] /\ call.on = x2 /\ call.text = x4
    BY <1>0, <2>1 DEF ReviewInv
  <2> HIDE DEF call
  <2> QED BY <1>0, <2>1, <2>2 DEF ReviewInv
\* The service takes a review.
<1>6. ASSUME NEW c \in x6, W!Take(c)
      PROVE  /\ x7' \in [Notes -> W!Words \cup {None}]
             /\ \A b \in x8 \cup {c.on} : x7'[b] # None
             /\ ~x9 => \A b \in Notes : x7'[b] \in {None, "nothing", b}
  BY <1>0, <1>6 DEF ReviewInv, W!Take
<1>7. ASSUME NEW c \in x6, W!Answered(c) PROVE ReviewInv'
  <2>1. /\ x7' \in [Notes -> W!Words \cup {None}]
        /\ \A b \in x8 : x7'[b] # None
        /\ ~x9 => \A b \in Notes : x7'[b] \in {None, "nothing", b}
    BY <1>0, <1>6, <1>7 DEF ReviewInv, W!Answered
  <2>2. CASE UNCHANGED <<x1, x2, x4, x8, x9, x10>>
    BY <1>0, <1>7, <2>1, <2>2 DEF ReviewInv, W!Answered
  <2>3. CASE W!Take(c) /\ W!Told(c)
    <3>1. \A b \in x8 \cup {c.on} : x7'[b] # None
      BY <1>6, <2>3
    <3>2. c.on \in Notes
      BY <1>0 DEF ReviewInv
    <3>3. /\ x6' = x6 \ {c} /\ x11' = x11 /\ x1' = x1 /\ x9' = x9
          /\ x8' = x8 \cup {c.on}
          /\ x10' = (x10 \/ x4 \notin {"nothing", c.text})
          /\ \/ x1 = "dashboard" /\ x2' = None /\ x4' = "nothing"
             \/ x2' = x2 /\ x4' = x4
      BY <1>7, <2>3 DEF W!Answered, W!Told
    <3> QED BY <1>0, <2>1, <3>1, <3>2, <3>3 DEF ReviewInv, W!Words
  <2> QED BY <1>7, <2>2, <2>3 DEF W!Answered, W!Refused
<1>8. ASSUME NEW p \in {"dashboard", "new"}, NEW b \in Notes \cup {None}, W!Visit(p, b),
             p = "new" => b \in Notes
      PROVE  ReviewInv'
  <2>1. /\ x7' \in [Notes -> W!Words \cup {None}]
        /\ \A d \in x8 : x7'[d] # None
        /\ ~x9 => \A d \in Notes : x7'[d] \in {None, "nothing", d}
    BY <1>0, <1>6, <1>8 DEF ReviewInv, W!Visit
  <2> QED BY <1>0, <1>8, <2>1 DEF ReviewInv, W!Visit, W!past, W!Words
<1> QED
  BY <1>1, <1>2, <1>3, <1>4, <1>5, <1>7, <1>8 DEF W!Next, W!VisitDashboard, W!VisitForm

\* Nothing disappears that somebody still has to deal with: the input of the guide's
\* form, the requests that wait for the administrator, the comment on a booking; for
\* any number of rows, and of answers overtaken (the three dashboards).
THEOREM NothingGetsLost ==
  ASSUME None \notin Notes \cup {"nothing"}
  PROVE  Spec => []NothingIsLost
<1> DEFINE Inv == /\ part = "guide" => GuideInv
                  /\ part = "admin" => AdminInv
                  /\ part = "review" => ReviewInv
<1>0. None \notin W!Words
  BY DEF W!Words
<1>1. Init => Inv
  BY <1>0, GuideStarts, AdminStarts, ReviewStarts DEF Init
<1>2. Inv /\ [Next]_vars => Inv'
  <2> SUFFICES ASSUME Inv, [Next]_vars PROVE Inv'
    OBVIOUS
  <2>1. part' = part
    BY DEF Next, vars
  <2>2. CASE UNCHANGED vars
    BY <2>1, <2>2 DEF vars, GuideInv, AdminInv, A!Pending, ReviewInv
  <2>3. CASE Next /\ part = "guide"
    BY <2>1, <2>3, GuideStep DEF Next
  <2>4. CASE Next /\ part = "admin"
    BY <2>1, <2>4, AdminStep DEF Next
  <2>5. CASE Next /\ part = "review"
    BY <1>0, <2>1, <2>5, ReviewStep DEF Next
  <2> QED BY <2>1, <2>2, <2>3, <2>4, <2>5
<1>3. Inv => NothingIsLost
  BY DEF NothingIsLost, GuideInv, G!InputIsKept, AdminInv, A!PendingIsListed,
         ReviewInv, W!CommentsReachTheirBooking
<1> QED BY <1>1, <1>2, <1>3, PTL DEF Spec

-----------------------------------------------------------------------------
(* The audit log.                                                          *)

AuditType ==
  /\ x1 \in [U!Rows -> {"open", "locked", "pending", "active", "inactive", "gone"}]
  /\ \A r \in U!Rows : x1[r] \in U!States[r]
  /\ x2 \in Seq([adminId : Actors, action : U!Acts])
  /\ x3 \in [Actors -> [step : {"idle", "update", "log"}, act : U!Acts \cup {"none"}]]
  /\ \A a \in Actors : x3[a].act = "none" <=> x3[a].step = "idle"
  /\ x4 \in Seq(U!Acts) /\ x5 \in Seq(U!Acts)
  /\ x6 \subseteq U!Rows /\ x7 \subseteq U!Rows

\* Where no two requests overlapped, only one is about the row. Unless others wrote
\* the row since, what it updated it left as it says, and until then the newest
\* entry tells the row.
About(a, r) == x3[a].step # "idle" /\ U!resource(x3[a].act) = r
Alone(r)    == \A a, b \in Actors : About(a, r) /\ About(b, r) => a = b
LeftAsSaid(r) == \A a \in Actors : x3[a].step = "log" /\ About(a, r) => x1[r] = U!After(x3[a].act)
Complete(r) ==
  /\ \A a \in Actors : About(a, r) => x3[a].step # "log"
  /\ \A i \in DOMAIN x5 : U!resource(x5[i]) # r
Newest(i, r) ==
  /\ i \in DOMAIN x2 /\ U!resource(x2[i].action) = r
  /\ \A j \in DOMAIN x2 : U!resource(x2[j].action) = r => j <= i
TellsRow(r) ==
  /\ Alone(r)
  /\ r \notin x7 =>
       /\ LeftAsSaid(r)
       /\ Complete(r) => \A i : Newest(i, r) => U!After(x2[i].action) = x1[r]

AuditInv ==
  /\ AuditType
  /\ U!EveryUpdateIsLogged
  /\ \A r \in U!Rows : x1[r] = "gone" => r \in x7
  /\ \A r \in U!Rows \ x6 : TellsRow(r)

LEMMA CountsMore ==
  ASSUME NEW n \in Nat, NEW I \in SUBSET (1..n)
  PROVE  /\ IsFiniteSet(I) /\ Cardinality(I) \in Nat
         /\ Cardinality(I \cup {n + 1}) = Cardinality(I) + 1
<1>1. IsFiniteSet(1..n)
  BY FS_Interval
<1>2. IsFiniteSet(I) /\ Cardinality(I) \in Nat
  BY <1>1, FS_Subset, FS_CardinalityType
<1>3. n + 1 \notin I
  OBVIOUS
<1> QED BY <1>2, <1>3, FS_AddElement

\* The entries of one action, before and after another entry.
LEMMA TimesAppended ==
  ASSUME NEW s \in Seq(U!Acts), NEW x \in U!Acts, NEW act \in U!Acts
  PROVE  /\ U!Times(s, act) \in Nat
         /\ U!Times(Append(s, x), act) = IF x = act THEN U!Times(s, act) + 1 ELSE U!Times(s, act)
<1> DEFINE I == {i \in DOMAIN s : s[i] = act}
           J == {i \in DOMAIN Append(s, x) : Append(s, x)[i] = act}
<1>1. \A Set : U!Cardinality(Set) = Cardinality(Set)
  BY DEF U!Cardinality, Cardinality
<1>2. I \in SUBSET (1..Len(s)) /\ Len(s) \in Nat
  OBVIOUS
<1>3. J = IF x = act THEN I \cup {Len(s) + 1} ELSE I
  OBVIOUS
<1>4. Cardinality(I) \in Nat /\ Cardinality(I \cup {Len(s) + 1}) = Cardinality(I) + 1
  BY <1>2, CountsMore
<1>5. U!Times(s, act) = Cardinality(I) /\ U!Times(Append(s, x), act) = Cardinality(J)
  BY <1>1 DEF U!Times
<1> HIDE DEF I, J
<1> QED BY <1>3, <1>4, <1>5

LEMMA LoggedAppended ==
  ASSUME NEW a \in Actors, NEW x \in U!Acts, NEW act \in U!Acts, AuditType,
         x2' = Append(x2, [adminId |-> a, action |-> x])
  PROVE  /\ U!Logged(act) \in Nat
         /\ U!Logged(act)' = IF x = act THEN U!Logged(act) + 1 ELSE U!Logged(act)
<1> DEFINE l == [adminId |-> a, action |-> x]
           I == {i \in DOMAIN x2 : x2[i].action = act}
           J == {i \in DOMAIN Append(x2, l) : Append(x2, l)[i].action = act}
<1>1. \A Set : U!Cardinality(Set) = Cardinality(Set)
  BY DEF U!Cardinality, Cardinality
<1>2. I \in SUBSET (1..Len(x2)) /\ Len(x2) \in Nat
  BY DEF AuditType
<1>3. J = IF x = act THEN I \cup {Len(x2) + 1} ELSE I
  <2>1. l.action = x /\ l \in [adminId : Actors, action : U!Acts]
    OBVIOUS
  <2> HIDE DEF l
  <2> QED BY <2>1 DEF AuditType
<1>4. Cardinality(I) \in Nat /\ Cardinality(I \cup {Len(x2) + 1}) = Cardinality(I) + 1
  BY <1>2, CountsMore
<1>5. U!Logged(act) = Cardinality(I) /\ U!Logged(act)' = Cardinality(J)
  BY <1>1 DEF U!Logged
<1> HIDE DEF I, J
<1> QED BY <1>3, <1>4, <1>5

\* The requests whose entry is still to be saved: one joins them, or leaves.
Waiters(act) == {a \in Actors : x3[a].step = "log" /\ x3[a].act = act}

LEMMA WaitersAreUnlogged ==
  ASSUME AuditType, NEW act \in U!Acts
  PROVE  U!Unlogged(act) = Cardinality(Waiters(act))
<1>1. \A Set : U!Cardinality(Set) = Cardinality(Set)
  BY DEF U!Cardinality, Cardinality
<1>2. ASSUME NEW a \in Actors
      PROVE  x3[a] = [step |-> "log", act |-> act] <=> x3[a].step = "log" /\ x3[a].act = act
  <2>1. x3[a] \in [step : {"idle", "update", "log"}, act : U!Acts \cup {"none"}]
    BY DEF AuditType
  <2> QED BY <2>1
<1>3. {a \in Actors : x3[a] = [step |-> "log", act |-> act]} = Waiters(act)
  BY <1>2 DEF Waiters
<1> QED BY <1>1, <1>3 DEF U!Unlogged

LEMMA WaitersCount ==
  ASSUME IsFiniteSet(Actors), NEW act, NEW a \in Actors
  PROVE  /\ Cardinality(Waiters(act)) \in Nat
         /\ a \notin Waiters(act) => Cardinality(Waiters(act) \cup {a}) = Cardinality(Waiters(act)) + 1
         /\ a \in Waiters(act) => Cardinality(Waiters(act) \ {a}) = Cardinality(Waiters(act)) - 1
<1>1. IsFiniteSet(Waiters(act)) /\ Cardinality(Waiters(act)) \in Nat
  BY FS_Subset, FS_CardinalityType DEF Waiters
<1> QED BY <1>1, FS_AddElement, FS_RemoveElement

LEMMA AuditStarts == U!Init => AuditInv
<1> SUFFICES ASSUME U!Init PROVE AuditInv
  OBVIOUS
<1>1. AuditType /\ \A r \in U!Rows : x1[r] # "gone"
  BY DEF U!Init, AuditType, U!Rows, U!States, U!Idle
<1>2. U!EveryUpdateIsLogged
  <2> SUFFICES ASSUME NEW act \in U!Acts
               PROVE  U!Times(x4, act) = U!Logged(act) + U!Unlogged(act) + U!Times(x5, act)
    BY DEF U!EveryUpdateIsLogged
  <2>1. \A Set : U!Cardinality(Set) = Cardinality(Set)
    BY DEF U!Cardinality, Cardinality
  <2>2. Waiters(act) = {}
    BY DEF U!Init, Waiters, U!Idle
  <2>3. Cardinality({}) = 0
    BY FS_EmptySet
  <2>4. U!Times(x4, act) = 0 /\ U!Times(x5, act) = 0 /\ U!Logged(act) = 0
    <3>1. {i \in DOMAIN x4 : x4[i] = act} = {} /\ {i \in DOMAIN x5 : x5[i] = act} = {}
          /\ {i \in DOMAIN x2 : x2[i].action = act} = {}
      BY DEF U!Init
    <3> QED BY <2>1, <2>3, <3>1 DEF U!Times, U!Logged
  <2>5. U!Unlogged(act) = 0
    BY <1>1, <2>2, <2>3, WaitersAreUnlogged
  <2> QED BY <2>4, <2>5
<1>3. \A r \in U!Rows : TellsRow(r)
  BY DEF U!Init, TellsRow, Alone, About, LeftAsSaid, Newest, U!Idle
<1> QED BY <1>1, <1>2, <1>3 DEF AuditInv

\* What one statement of a request changes.
LEMMA AuditCounts ==
  ASSUME IsFiniteSet(Actors), AuditInv, AuditType', NEW a \in Actors, NEW x \in U!Acts,
         \/ /\ UNCHANGED <<x2, x4, x5>>
            /\ \A act \in U!Acts : Waiters(act)' = Waiters(act)
         \/ /\ x4' = Append(x4, x) /\ UNCHANGED <<x2, x5>> /\ a \notin Waiters(x)
            /\ \A act \in U!Acts : Waiters(act)' = IF act = x THEN Waiters(act) \cup {a} ELSE Waiters(act)
         \/ /\ x2' = Append(x2, [adminId |-> a, action |-> x]) /\ UNCHANGED <<x4, x5>>
            /\ a \in Waiters(x)
            /\ \A act \in U!Acts : Waiters(act)' = IF act = x THEN Waiters(act) \ {a} ELSE Waiters(act)
         \/ /\ x5' = Append(x5, x) /\ UNCHANGED <<x2, x4>> /\ a \in Waiters(x)
            /\ \A act \in U!Acts : Waiters(act)' = IF act = x THEN Waiters(act) \ {a} ELSE Waiters(act)
  PROVE  U!EveryUpdateIsLogged'
<1> SUFFICES ASSUME NEW act \in U!Acts
             PROVE  U!Times(x4', act) = U!Logged(act)' + U!Unlogged(act)' + U!Times(x5', act)
  BY DEF U!EveryUpdateIsLogged, U!Times
<1>1. U!Times(x4, act) = U!Logged(act) + U!Unlogged(act) + U!Times(x5, act)
  BY DEF AuditInv, U!EveryUpdateIsLogged
<1>2. U!Unlogged(act) = Cardinality(Waiters(act))
  BY WaitersAreUnlogged DEF AuditInv
<1>3. U!Unlogged(act)' = Cardinality(Waiters(act)')
  <2>1. \A Set : U!Cardinality(Set) = Cardinality(Set)
    BY DEF U!Cardinality, Cardinality
  <2>2. ASSUME NEW b \in Actors
        PROVE  x3'[b] = [step |-> "log", act |-> act] <=> x3'[b].step = "log" /\ x3'[b].act = act
    <3>1. x3'[b] \in [step : {"idle", "update", "log"}, act : U!Acts \cup {"none"}]
      BY DEF AuditType
    <3> QED BY <3>1
  <2>3. {b \in Actors : x3'[b] = [step |-> "log", act |-> act]} = Waiters(act)'
    BY <2>2 DEF Waiters
  <2> QED BY <2>1, <2>3 DEF U!Unlogged
<1>4. /\ U!Times(x4, act) \in Nat /\ U!Times(x5, act) \in Nat
      /\ x4' = Append(x4, x) =>
           U!Times(x4', act) = IF x = act THEN U!Times(x4, act) + 1 ELSE U!Times(x4, act)
      /\ x5' = Append(x5, x) =>
           U!Times(x5', act) = IF x = act THEN U!Times(x5, act) + 1 ELSE U!Times(x5, act)
  <2>1. x4 \in Seq(U!Acts) /\ x5 \in Seq(U!Acts)
    BY DEF AuditInv, AuditType
  <2>2. /\ U!Times(x4, act) \in Nat
        /\ U!Times(Append(x4, x), act) = IF x = act THEN U!Times(x4, act) + 1 ELSE U!Times(x4, act)
    BY <2>1, TimesAppended
  <2>3. /\ U!Times(x5, act) \in Nat
        /\ U!Times(Append(x5, x), act) = IF x = act THEN U!Times(x5, act) + 1 ELSE U!Times(x5, act)
    BY <2>1, TimesAppended
  <2> QED BY <2>2, <2>3
<1>5. /\ U!Logged(act) \in Nat
      /\ x2' = Append(x2, [adminId |-> a, action |-> x]) =>
           U!Logged(act)' = IF x = act THEN U!Logged(act) + 1 ELSE U!Logged(act)
      /\ x2' = x2 => U!Logged(act)' = U!Logged(act)
  <2>1. \A Set : U!Cardinality(Set) = Cardinality(Set)
    BY DEF U!Cardinality, Cardinality
  <2>2. {i \in DOMAIN x2 : x2[i].action = act} \in SUBSET (1..Len(x2)) /\ Len(x2) \in Nat
    BY DEF AuditInv, AuditType
  <2>3. U!Logged(act) \in Nat
    BY <2>1, <2>2, CountsMore DEF U!Logged
  <2> QED BY <2>3, LoggedAppended DEF AuditInv, U!Logged
<1>6. /\ Cardinality(Waiters(act)) \in Nat
      /\ a \notin Waiters(act) => Cardinality(Waiters(act) \cup {a}) = Cardinality(Waiters(act)) + 1
      /\ a \in Waiters(act) => Cardinality(Waiters(act) \ {a}) = Cardinality(Waiters(act)) - 1
  BY WaitersCount
<1>7. \/ Waiters(act)' = Waiters(act) /\ UNCHANGED <<x2, x4, x5>>
      \/ /\ x4' = Append(x4, x) /\ UNCHANGED <<x2, x5>>
         /\ IF act = x THEN a \notin Waiters(act) /\ Waiters(act)' = Waiters(act) \cup {a}
                       ELSE Waiters(act)' = Waiters(act)
      \/ /\ x2' = Append(x2, [adminId |-> a, action |-> x]) /\ UNCHANGED <<x4, x5>>
         /\ IF act = x THEN a \in Waiters(act) /\ Waiters(act)' = Waiters(act) \ {a}
                       ELSE Waiters(act)' = Waiters(act)
      \/ /\ x5' = Append(x5, x) /\ UNCHANGED <<x2, x4>>
         /\ IF act = x THEN a \in Waiters(act) /\ Waiters(act)' = Waiters(act) \ {a}
                       ELSE Waiters(act)' = Waiters(act)
  OBVIOUS
<1>8. CASE Waiters(act)' = Waiters(act) /\ UNCHANGED <<x2, x4, x5>>
  BY <1>1, <1>2, <1>3, <1>5, <1>8
<1>9. CASE /\ x4' = Append(x4, x) /\ UNCHANGED <<x2, x5>>
           /\ IF act = x THEN a \notin Waiters(act) /\ Waiters(act)' = Waiters(act) \cup {a}
                         ELSE Waiters(act)' = Waiters(act)
  <2>1. U!Unlogged(act)' = IF act = x THEN U!Unlogged(act) + 1 ELSE U!Unlogged(act)
    BY <1>2, <1>3, <1>6, <1>9
  <2>2. /\ U!Times(x4', act) = IF act = x THEN U!Times(x4, act) + 1 ELSE U!Times(x4, act)
        /\ U!Times(x5', act) = U!Times(x5, act)
    BY <1>4, <1>9
  <2>3. U!Logged(act)' = U!Logged(act)
    BY <1>5, <1>9
  <2>4. U!Unlogged(act) \in Nat
    BY <1>2, <1>6
  <2> QED BY <1>1, <1>4, <1>5, <2>1, <2>2, <2>3, <2>4
<1>10. CASE /\ x2' = Append(x2, [adminId |-> a, action |-> x]) /\ UNCHANGED <<x4, x5>>
            /\ IF act = x THEN a \in Waiters(act) /\ Waiters(act)' = Waiters(act) \ {a}
                          ELSE Waiters(act)' = Waiters(act)
  <2>1. U!Unlogged(act)' = IF act = x THEN U!Unlogged(act) - 1 ELSE U!Unlogged(act)
    BY <1>2, <1>3, <1>6, <1>10
  <2>2. /\ U!Times(x4', act) = U!Times(x4, act)
        /\ U!Times(x5', act) = U!Times(x5, act)
    BY <1>4, <1>10
  <2>3. U!Logged(act)' = IF act = x THEN U!Logged(act) + 1 ELSE U!Logged(act)
    BY <1>5, <1>10
  <2>4. U!Unlogged(act) \in Nat
    BY <1>2, <1>6
  <2> QED BY <1>1, <1>4, <1>5, <2>1, <2>2, <2>3, <2>4
<1>11. CASE /\ x5' = Append(x5, x) /\ UNCHANGED <<x2, x4>>
            /\ IF act = x THEN a \in Waiters(act) /\ Waiters(act)' = Waiters(act) \ {a}
                          ELSE Waiters(act)' = Waiters(act)
  <2>1. U!Unlogged(act)' = IF act = x THEN U!Unlogged(act) - 1 ELSE U!Unlogged(act)
    BY <1>2, <1>3, <1>6, <1>11
  <2>2. /\ U!Times(x4', act) = U!Times(x4, act)
        /\ U!Times(x5', act) = IF act = x THEN U!Times(x5, act) + 1 ELSE U!Times(x5, act)
    BY <1>4, <1>11
  <2>3. U!Logged(act)' = U!Logged(act)
    BY <1>5, <1>11
  <2>4. U!Unlogged(act) \in Nat
    BY <1>2, <1>6
  <2> QED BY <1>1, <1>4, <1>5, <2>1, <2>2, <2>3, <2>4
<1> QED BY <1>7, <1>8, <1>9, <1>10, <1>11

LEMMA AuditStep == IsFiniteSet(Actors) /\ AuditInv /\ U!Next => AuditInv'
<1> SUFFICES ASSUME IsFiniteSet(Actors), AuditInv, U!Next PROVE AuditInv'
  OBVIOUS
<1>0. AuditInv /\ IsFiniteSet(Actors)
  OBVIOUS
<1>a. ASSUME NEW a \in Actors
      PROVE  /\ x3[a].step \in {"idle", "update", "log"} /\ x3[a].act \in U!Acts \cup {"none"}
             /\ x3[a].step # "idle" => x3[a].act \in U!Acts
             /\ x3[a] = U!Idle <=> x3[a].step = "idle"
             /\ U!Idle.step = "idle" /\ U!Idle.act = "none"
  <2>1. x3[a] \in [step : {"idle", "update", "log"}, act : U!Acts \cup {"none"}]
    BY <1>0 DEF AuditInv, AuditType
  <2>2. x3[a].act = "none" <=> x3[a].step = "idle"
    BY <1>0 DEF AuditInv, AuditType
  <2> QED BY <2>1, <2>2 DEF U!Idle
<1>b. \A act \in U!Acts : /\ U!resource(act) \in U!Rows /\ U!After(act) \in U!States[U!resource(act)]
                         /\ U!After(act) \in {"open", "locked", "active", "inactive"}
  BY DEF U!Acts, U!Rows, U!resource, U!After, U!States
<1>1. ASSUME NEW a \in Actors, NEW act \in U!Acts, U!Read(a, act) PROVE AuditInv'
  <2> DEFINE new == [step |-> "update", act |-> act]
  <2>1. /\ new \in [step : {"idle", "update", "log"}, act : U!Acts \cup {"none"}]
        /\ new.step = "update" /\ new.act = act
    OBVIOUS
  <2> HIDE DEF new
  <2>2. /\ x3' = [x3 EXCEPT ![a] = new] /\ x3[a].step = "idle"
        /\ UNCHANGED <<x1, x2, x4, x5, x7>>
    BY <1>1, <1>a DEF U!Read, new
  <2>3. AuditType'
    <3>1. x6' \subseteq U!Rows
      BY <1>0, <1>1, <1>b DEF U!Read, AuditInv, AuditType
    <3> QED BY <1>0, <2>1, <2>2, <3>1 DEF AuditInv, AuditType, U!Acts
  <2>p. \A b \in Actors : x3'[b] = IF b = a THEN new ELSE x3[b]
    BY <1>0, <2>2 DEF AuditInv, AuditType
  <2>4. \A x \in U!Acts : Waiters(x)' = Waiters(x)
    BY <1>0, <2>1, <2>2 DEF Waiters, AuditInv, AuditType
  <2>5. U!EveryUpdateIsLogged'
    BY <1>0, <2>2, <2>3, <2>4, AuditCounts
  <2>6. ASSUME NEW r \in U!Rows \ x6' PROVE TellsRow(r)'
    <3>1. x6 \subseteq x6' /\ TellsRow(r)
      BY <1>0, <1>1 DEF U!Read, AuditInv
    <3>2. U!resource(act) = r => \A b \in Actors : x3[b].step # "idle" => U!resource(x3[b].act) # r
      BY <1>1, <1>a DEF U!Read
    <3>3. \A b \in Actors : About(b, r)' <=> IF b = a THEN U!resource(act) = r ELSE About(b, r)
      BY <2>1, <2>p DEF About
    <3>4. Alone(r)'
      BY <3>1, <3>2, <3>3 DEF TellsRow, Alone, About
    <3>5. r \notin x7 => LeftAsSaid(r)'
      BY <2>1, <2>2, <2>p, <3>1, <3>3 DEF TellsRow, LeftAsSaid
    <3>6. Complete(r)' => Complete(r)
      BY <2>2, <2>p, <3>3 DEF Complete
    <3> QED BY <2>2, <3>1, <3>4, <3>5, <3>6 DEF TellsRow, Newest
  <2> QED BY <1>0, <2>2, <2>3, <2>5, <2>6 DEF AuditInv
<1>2. ASSUME NEW a \in Actors, U!Update(a) PROVE AuditInv'
  <2> DEFINE new == [x3[a] EXCEPT !.step = "log"]
             act == x3[a].act
  <2>1. /\ new \in [step : {"idle", "update", "log"}, act : U!Acts \cup {"none"}]
        /\ new.step = "log" /\ new.act = act /\ act \in U!Acts
    BY <1>0, <1>2, <1>a DEF U!Update, AuditInv, AuditType
  <2>2. /\ x3' = [x3 EXCEPT ![a] = new] /\ x3[a].step = "update"
        /\ x4' = Append(x4, act)
        /\ UNCHANGED <<x2, x5, x6>>
    BY <1>0, <1>2 DEF U!Update, AuditInv, AuditType
  <2> HIDE DEF new
  <2>g. \/ x1[U!resource(act)] = "gone" /\ UNCHANGED <<x1, x7>>
        \/ x1' = [x1 EXCEPT ![U!resource(act)] = U!After(act)] /\ x7' = x7 \ {U!resource(act)}
    BY <1>2 DEF U!Update
  <2>h. /\ x1' \in [U!Rows -> {"open", "locked", "pending", "active", "inactive", "gone"}]
        /\ \A r \in U!Rows : x1'[r] \in U!States[r]
        /\ x7' \subseteq U!Rows
        /\ \A r \in U!Rows : x1'[r] = "gone" => r \in x7'
    BY <1>0, <1>b, <2>1, <2>g DEF AuditInv, AuditType
  <2>3. AuditType'
    BY <1>0, <2>1, <2>2, <2>h DEF AuditInv, AuditType
  <2>p. \A b \in Actors : x3'[b] = IF b = a THEN new ELSE x3[b]
    BY <1>0, <2>2 DEF AuditInv, AuditType
  <2>4. \A x \in U!Acts : Waiters(x)' = IF x = act THEN Waiters(x) \cup {a} ELSE Waiters(x)
    BY <1>0, <2>1, <2>2 DEF Waiters, AuditInv, AuditType
  <2>5. U!EveryUpdateIsLogged'
    <3>1. a \notin Waiters(act)
      BY <2>2 DEF Waiters
    <3> QED BY <1>0, <2>1, <2>2, <2>3, <2>4, <3>1, AuditCounts
  <2>6. ASSUME NEW r \in U!Rows \ x6' PROVE TellsRow(r)'
    <3>1. TellsRow(r)
      BY <1>0, <2>2 DEF AuditInv
    <3>2. U!resource(act) # r => x1'[r] = x1[r] /\ (r \in x7' <=> r \in x7)
      BY <1>0, <2>g DEF AuditInv, AuditType
    <3>3. U!resource(act) = r /\ r \notin x7' => x1'[r] = U!After(act)
      BY <1>0, <2>g DEF AuditInv, AuditType
    <3>4. \A b \in Actors : About(b, r)' <=> About(b, r)
      BY <2>1, <2>2, <2>p DEF About
    <3>5. Alone(r)'
      BY <3>1, <3>4 DEF TellsRow, Alone
    <3>6. ASSUME r \notin x7' PROVE LeftAsSaid(r)'
      <4> SUFFICES ASSUME NEW b \in Actors, x3'[b].step = "log", About(b, r)'
                   PROVE  x1'[r] = U!After(x3'[b].act)
        BY DEF LeftAsSaid
      <4>1. CASE b = a
        BY <2>1, <2>p, <3>3, <3>6, <4>1 DEF About
      <4>2. CASE b # a
        <5>1. ~About(a, r)
          BY <3>1, <3>4, <4>2 DEF TellsRow, Alone
        <5>2. U!resource(act) = r => a = b
          BY <2>2, <3>1, <3>4, <4>2 DEF TellsRow, Alone, About
        <5> QED BY <2>2, <2>p, <3>1, <3>2, <3>4, <3>6, <4>2, <5>1, <5>2 DEF TellsRow, LeftAsSaid, About
      <4> QED BY <4>1, <4>2
    <3>7. Complete(r)' => Complete(r) /\ U!resource(act) # r
      BY <2>1, <2>2, <2>p, <3>4 DEF Complete, About
    <3> QED BY <2>2, <3>1, <3>2, <3>5, <3>6, <3>7 DEF TellsRow, Newest
  <2> QED BY <2>3, <2>5, <2>6, <2>h DEF AuditInv
<1>3. ASSUME NEW a \in Actors, U!logAction(a) PROVE AuditInv'
  <2> DEFINE l == [adminId |-> a, action |-> x3[a].act]
             act == x3[a].act
  <2>1. /\ act \in U!Acts /\ x3[a].step = "log"
        /\ l \in [adminId : Actors, action : U!Acts] /\ l.action = act
    BY <1>3, <1>a DEF U!logAction
  <2>2. /\ x3' = [x3 EXCEPT ![a] = U!Idle]
        /\ x2' = Append(x2, l)
        /\ UNCHANGED <<x1, x4, x5, x6, x7>>
    BY <1>3 DEF U!logAction
  <2> HIDE DEF l
  <2>3. AuditType'
    BY <1>0, <1>a, <2>1, <2>2 DEF AuditInv, AuditType, U!Idle
  <2>p. \A b \in Actors : x3'[b] = IF b = a THEN U!Idle ELSE x3[b]
    BY <1>0, <2>2 DEF AuditInv, AuditType
  <2>4. \A x \in U!Acts : Waiters(x)' = IF x = act THEN Waiters(x) \ {a} ELSE Waiters(x)
    BY <1>0, <1>a, <2>1, <2>2 DEF Waiters, AuditInv, AuditType
  <2>5. U!EveryUpdateIsLogged'
    <3>1. a \in Waiters(act)
      BY <2>1 DEF Waiters
    <3> QED BY <1>0, <2>1, <2>2, <2>3, <2>4, <3>1, AuditCounts DEF l
  <2>6. ASSUME NEW r \in U!Rows \ x6' PROVE TellsRow(r)'
    <3>1. TellsRow(r)
      BY <1>0, <2>2 DEF AuditInv
    <3>2. /\ Len(x2) \in Nat /\ DOMAIN x2 = 1..Len(x2) /\ DOMAIN x2' = 1..(Len(x2) + 1)
          /\ x2'[Len(x2) + 1] = l
          /\ \A i \in DOMAIN x2 : x2'[i] = x2[i]
      BY <1>0, <2>1, <2>2 DEF AuditInv, AuditType
    <3>3. \A b \in Actors : About(b, r)' <=> b # a /\ About(b, r)
      BY <1>a, <2>2, <2>p DEF About
    <3>4. Alone(r)'
      BY <3>1, <3>3 DEF TellsRow, Alone
    <3>5. r \notin x7 => LeftAsSaid(r)'
      BY <2>2, <2>p, <3>1, <3>3 DEF TellsRow, LeftAsSaid
    <3>6. CASE U!resource(act) = r
      <4>1. r \notin x7 => x1'[r] = U!After(act)
        BY <2>1, <2>2, <3>1, <3>6 DEF TellsRow, LeftAsSaid, About
      <4>2. ASSUME NEW i, Newest(i, r)' PROVE i = Len(x2) + 1
        BY <2>1, <3>2, <3>6, <4>2 DEF Newest
      <4> QED BY <2>1, <2>2, <3>2, <3>4, <3>5, <4>1, <4>2 DEF TellsRow
    <3>7. CASE U!resource(act) # r
      <4>1. Complete(r)' => Complete(r)
        BY <2>2, <2>p, <3>3, <3>7 DEF Complete, About
      <4>2. ASSUME NEW i, Newest(i, r)' PROVE Newest(i, r) /\ x2'[i] = x2[i]
        BY <2>1, <3>2, <3>7, <4>2 DEF Newest
      <4> QED BY <2>2, <3>1, <3>4, <3>5, <4>1, <4>2 DEF TellsRow
    <3> QED BY <3>6, <3>7
  <2> QED BY <1>0, <2>2, <2>3, <2>5, <2>6 DEF AuditInv
<1>4. ASSUME NEW a \in Actors, U!Drop(a) PROVE AuditInv'
  <2> DEFINE act == x3[a].act
  <2>1. act \in U!Acts /\ x3[a].step # "idle"
    BY <1>4, <1>a DEF U!Drop
  <2>2. /\ x3' = [x3 EXCEPT ![a] = U!Idle]
        /\ x5' = IF x3[a].step = "log" THEN Append(x5, act) ELSE x5
        /\ UNCHANGED <<x1, x2, x4, x6, x7>>
    BY <1>4 DEF U!Drop
  <2>3. AuditType'
    BY <1>0, <1>a, <2>1, <2>2 DEF AuditInv, AuditType, U!Idle
  <2>p. \A b \in Actors : x3'[b] = IF b = a THEN U!Idle ELSE x3[b]
    BY <1>0, <2>2 DEF AuditInv, AuditType
  <2>4. \A x \in U!Acts : Waiters(x)' = IF x = act THEN Waiters(x) \ {a} ELSE Waiters(x)
    BY <1>0, <1>a, <2>1, <2>2 DEF Waiters, AuditInv, AuditType
  <2>5. U!EveryUpdateIsLogged'
    <3>1. CASE x3[a].step = "log"
      <4>1. a \in Waiters(act)
        BY <3>1 DEF Waiters
      <4> QED BY <1>0, <2>1, <2>2, <2>3, <2>4, <3>1, <4>1, AuditCounts
    <3>2. CASE x3[a].step # "log"
      <4>1. \A x \in U!Acts : Waiters(x)' = Waiters(x)
        BY <2>4, <3>2 DEF Waiters
      <4> QED BY <1>0, <2>1, <2>2, <2>3, <3>2, <4>1, AuditCounts
    <3> QED BY <3>1, <3>2
  <2>6. ASSUME NEW r \in U!Rows \ x6' PROVE TellsRow(r)'
    <3>1. TellsRow(r)
      BY <1>0, <2>2 DEF AuditInv
    <3>2. /\ \A i \in DOMAIN x5 : i \in DOMAIN x5' /\ x5'[i] = x5[i]
          /\ x3[a].step = "log" => \E i \in DOMAIN x5' : x5'[i] = act
      <4>1. x5 \in Seq(U!Acts)
        BY <1>0 DEF AuditInv, AuditType
      <4> QED BY <2>1, <2>2, <4>1
    <3>3. \A b \in Actors : About(b, r)' <=> b # a /\ About(b, r)
      BY <1>a, <2>2, <2>p DEF About
    <3>4. Alone(r)'
      BY <3>1, <3>3 DEF TellsRow, Alone
    <3>5. r \notin x7 => LeftAsSaid(r)'
      BY <2>2, <2>p, <3>1, <3>3 DEF TellsRow, LeftAsSaid
    <3>6. Complete(r)' => Complete(r)
      BY <2>2, <2>p, <3>2, <3>3 DEF Complete, About
    <3> QED BY <2>2, <3>1, <3>4, <3>5, <3>6 DEF TellsRow, Newest
  <2> QED BY <1>0, <2>2, <2>3, <2>5, <2>6 DEF AuditInv
<1>5. ASSUME NEW r \in U!Rows, NEW s \in U!States[r], U!Others(r, s) PROVE AuditInv'
  <2>1. /\ x1' = [x1 EXCEPT ![r] = s] /\ x7' = x7 \cup {r}
        /\ UNCHANGED <<x2, x3, x4, x5, x6>>
    BY <1>5 DEF U!Others
  <2>2. s \in {"open", "locked", "pending", "active", "inactive", "gone"}
    BY DEF U!States, U!Rows
  <2>3. AuditType'
    BY <1>0, <2>1, <2>2 DEF AuditInv, AuditType
  <2>4. U!EveryUpdateIsLogged'
    BY <1>0, <2>1 DEF AuditInv, U!EveryUpdateIsLogged, U!Logged, U!Unlogged
  <2>5. \A q \in U!Rows : q # r => x1'[q] = x1[q]
    BY <1>0, <2>1 DEF AuditInv, AuditType
  <2>6. ASSUME NEW q \in U!Rows \ x6' PROVE TellsRow(q)'
    <3>1. TellsRow(q)
      BY <1>0, <2>1 DEF AuditInv
    <3>2. Alone(q)'
      BY <2>1, <3>1 DEF TellsRow, Alone, About
    <3>3. q \notin x7' => q \notin x7 /\ x1'[q] = x1[q]
      BY <2>1, <2>5
    <3> QED BY <2>1, <3>1, <3>2, <3>3 DEF TellsRow, LeftAsSaid, Complete, Newest, About
  <2> QED BY <1>0, <2>1, <2>3, <2>4, <2>5, <2>6 DEF AuditInv
<1> QED BY <1>1, <1>2, <1>3, <1>4, <1>5 DEF U!Next

-----------------------------------------------------------------------------
(* The index of embeddings.                                                *)

Written == Meanings \cup {None}
Tasks   == [on : Items, text : Written, called : BOOLEAN, embedding : Written]

\* Every embedding, cached or on its way to the index, is that of a text which was
\* embedded and begins the same.  An experience about which one task at most was
\* ever under way has it, for the text of its row, or is indexed by that text.
IndexInv ==
  /\ x1 \in [Items -> Written] /\ x3 \in [Items -> Written]
  /\ x2 \in [V!Keys -> Written]
  /\ x4 \subseteq Tasks
  /\ x8 \subseteq Meanings
  /\ \A key \in V!Keys : x2[key] # None => x2[key] \in x8 /\ CacheKey[x2[key]] = key
  /\ \A k \in x4 : k.embedding # None =>
       k.embedding \in x8 /\ k.text \in x8 /\ CacheKey[k.embedding] = CacheKey[k.text]
  /\ \A k \in x4 : k.called => k.text \in x8
  /\ \A e \in Items \ (x9 \cup x10) :
       /\ \A k, l \in x4 : k.on = e /\ l.on = e => k = l
       /\ \A k \in x4 : k.on = e => k.text = x1[e]
       /\ (\A k \in x4 : k.on # e) /\ (\A s, t \in x8 : CacheKey[s] = CacheKey[t] => s = t) => x3[e] = x1[e]

LEMMA IndexStarts ==
  ASSUME None \notin Meanings
  PROVE  V!Init => IndexInv
<1> SUFFICES ASSUME V!Init PROVE IndexInv
  OBVIOUS
<1>1. x1 \in [Items -> Written] /\ x3 = x1 /\ x4 = {} /\ x8 = {}
  BY DEF V!Init, Written
<1>2. x2 \in [V!Keys -> Written] /\ \A key \in V!Keys : x2[key] = None
  BY DEF V!Init, Written
<1> QED BY <1>1, <1>2 DEF IndexInv

LEMMA IndexStep ==
  ASSUME None \notin Meanings
  PROVE  IndexInv /\ V!Next => IndexInv'
<1> SUFFICES ASSUME IndexInv, V!Next PROVE IndexInv'
  OBVIOUS
<1>0. IndexInv
  OBVIOUS
<1>1. ASSUME NEW e \in Items, NEW t \in Written, V!Save(e, t) PROVE IndexInv'
  <2> DEFINE new == [on |-> e, text |-> t, called |-> FALSE, embedding |-> None]
  <2>1. /\ new \in Tasks
        /\ new.on = e /\ new.text = t /\ new.embedding = None /\ ~new.called
    BY DEF Written, Tasks
  <2> HIDE DEF new
  <2>2. /\ x1' = [x1 EXCEPT ![e] = t] /\ x4' = x4 \cup {new}
        /\ x10' = IF \E k \in x4 : k.on = e THEN x10 \cup {e} ELSE x10
        /\ UNCHANGED <<x2, x3, x8, x9>>
    BY <1>1 DEF V!Save, V!Start, new
  <2>3. x10 \subseteq x10'
    BY <2>2
  <2>4. ASSUME NEW d \in Items \ (x9' \cup x10')
        PROVE  /\ \A k, l \in x4' : k.on = d /\ l.on = d => k = l
               /\ \A k \in x4' : k.on = d => k.text = x1'[d]
               /\ (\A k \in x4' : k.on # d) /\ (\A s, u \in x8' : CacheKey[s] = CacheKey[u] => s = u) => x3'[d] = x1'[d]
    BY <1>0, <2>1, <2>2, <2>3 DEF IndexInv
  <2> QED BY <1>0, <2>1, <2>2, <2>4 DEF IndexInv
<1>2. ASSUME NEW k \in x4, NEW m \in Written, NEW c \in BOOLEAN, k.text \in Meanings,
             m # None => m \in x8 \cup {k.text} /\ CacheKey[m] = CacheKey[k.text],
             x2' = x2 \/ x2' = [x2 EXCEPT ![CacheKey[k.text]] = k.text],
             x4' = (x4 \ {k}) \cup {[k EXCEPT !.called = c, !.embedding = m]},
             x8' = x8 \cup {k.text}, UNCHANGED <<x1, x3, x9, x10>>
      PROVE  IndexInv'
  <2> DEFINE key == CacheKey[k.text]
             new == [k EXCEPT !.called = c, !.embedding = m]
  <2>1. k \in Tasks /\ key \in V!Keys
    BY <1>0, <1>2 DEF IndexInv, V!Keys
  <2>2. /\ new \in Tasks
        /\ new.on = k.on /\ new.text = k.text /\ new.embedding = m
    BY <2>1 DEF Tasks
  <2>3. x4' = (x4 \ {k}) \cup {new}
    BY <1>2
  <2> HIDE DEF new
  <2>4. \A y \in V!Keys : x2'[y] # None => x2'[y] \in x8' /\ CacheKey[x2'[y]] = y
    BY <1>0, <1>2, <2>1 DEF IndexInv
  <2>5. \A l \in x4' : l.embedding # None =>
          l.embedding \in x8' /\ l.text \in x8' /\ CacheKey[l.embedding] = CacheKey[l.text]
    BY <1>0, <1>2, <2>2, <2>3 DEF IndexInv
  <2>6. \A l \in x4' : l.called => l.text \in x8'
    BY <1>0, <1>2, <2>2, <2>3 DEF IndexInv
  <2>7. ASSUME NEW d \in Items \ (x9' \cup x10')
        PROVE  /\ \A l, n \in x4' : l.on = d /\ n.on = d => l = n
               /\ \A l \in x4' : l.on = d => l.text = x1'[d]
               /\ (\A l \in x4' : l.on # d) /\ (\A s, u \in x8' : CacheKey[s] = CacheKey[u] => s = u) => x3'[d] = x1'[d]
    BY <1>0, <1>2, <2>2, <2>3 DEF IndexInv
  <2>8. x2' \in [V!Keys -> Written] /\ x4' \subseteq Tasks /\ x8' \subseteq Meanings
    BY <1>0, <1>2, <2>1, <2>2, <2>3 DEF IndexInv, Written
  <2> QED BY <1>0, <1>2, <2>4, <2>5, <2>6, <2>7, <2>8 DEF IndexInv
<1>9. ASSUME NEW k \in x4, V!generateEmbedding(k) PROVE IndexInv'
  <2> DEFINE m == x2[CacheKey[k.text]]
             c == m = None
  <2>1. k.text \in Meanings /\ CacheKey[k.text] \in V!Keys
    BY <1>0, <1>9 DEF IndexInv, V!generateEmbedding, Written, Tasks, V!Keys
  <2>2. m \in Written /\ (m # None => m \in x8 /\ CacheKey[m] = CacheKey[k.text]) /\ c \in BOOLEAN
    BY <1>0, <2>1 DEF IndexInv
  <2>3. /\ x4' = (x4 \ {k}) \cup {[k EXCEPT !.called = c, !.embedding = m]}
        /\ x8' = x8 \cup {k.text} /\ UNCHANGED <<x1, x2, x3, x9, x10>>
    BY <1>9 DEF V!generateEmbedding
  <2> HIDE DEF m, c
  <2> QED BY <1>2, <2>1, <2>2, <2>3
<1>10. ASSUME NEW k \in x4, V!callOpenAIEmbeddings(k) PROVE IndexInv'
  <2>1. k.text \in x8 /\ k.text \in Meanings
    BY <1>0, <1>10 DEF IndexInv, V!callOpenAIEmbeddings
  <2>2. /\ x2' = [x2 EXCEPT ![CacheKey[k.text]] = k.text]
        /\ x4' = (x4 \ {k}) \cup {[k EXCEPT !.called = FALSE, !.embedding = k.text]}
        /\ x8' = x8 \cup {k.text} /\ UNCHANGED <<x1, x3, x9, x10>>
    BY <1>10, <2>1 DEF V!callOpenAIEmbeddings
  <2> QED BY <1>2, <2>1, <2>2 DEF Written
<1>3. ASSUME NEW k \in x4, NEW v \in Written,
             x3' = [x3 EXCEPT ![k.on] = v], x4' = x4 \ {k}, UNCHANGED <<x1, x2, x8, x9, x10>>,
             \/ v = k.embedding /\ v # None
             \/ v = None /\ k.text = None
      PROVE  IndexInv'
  <2>1. k.on \in Items /\ k.text \in Written
    BY <1>0 DEF IndexInv, Tasks
  <2>2. ASSUME NEW d \in Items \ (x9' \cup x10')
        PROVE  /\ \A l, n \in x4' : l.on = d /\ n.on = d => l = n
               /\ \A l \in x4' : l.on = d => l.text = x1'[d]
               /\ (\A l \in x4' : l.on # d) /\ (\A s, u \in x8' : CacheKey[s] = CacheKey[u] => s = u) => x3'[d] = x1'[d]
    <3>1. CASE k.on = d
      <4>1. k.text = x1[d] /\ x3'[d] = v
        BY <1>0, <1>3, <2>1, <3>1 DEF IndexInv
      <4>2. (\A s, u \in x8 : CacheKey[s] = CacheKey[u] => s = u) => v = k.text
        <5>1. CASE v = k.embedding /\ v # None
          <6>1. k.embedding \in x8 /\ k.text \in x8 /\ CacheKey[k.embedding] = CacheKey[k.text]
            BY <1>0, <5>1 DEF IndexInv
          <6> QED BY <5>1, <6>1
        <5>2. CASE v = None /\ k.text = None
          BY <5>2
        <5> QED BY <1>3, <5>1, <5>2
      <4> QED BY <1>0, <1>3, <4>1, <4>2 DEF IndexInv
    <3>2. CASE k.on # d
      BY <1>0, <1>3, <3>2 DEF IndexInv
    <3> QED BY <3>1, <3>2
  <2> QED BY <1>0, <1>3, <2>1, <2>2 DEF IndexInv
<1>4. ASSUME NEW k \in x4, V!Fail(k) PROVE IndexInv'
  <2>1. k.on \in Items
    BY <1>0 DEF IndexInv, Tasks
  <2> QED BY <1>0, <1>4, <2>1 DEF IndexInv, V!Fail
<1>5. ASSUME NEW key \in V!Keys, V!Expire(key) PROVE IndexInv'
  BY <1>0, <1>5 DEF IndexInv, V!Expire, Written
<1>6. ASSUME UNCHANGED <<x1, x2, x3, x4, x8, x9, x10>> PROVE IndexInv'
  BY <1>0, <1>6 DEF IndexInv
<1>7. ASSUME NEW k \in x4, V!upsertExperienceEmbedding(k) PROVE IndexInv'
  <2>1. k.embedding \in Written
    BY <1>0 DEF IndexInv, Tasks
  <2> QED BY <1>3, <1>7, <2>1 DEF V!upsertExperienceEmbedding
<1>8. ASSUME NEW k \in x4, V!deleteExperienceEmbedding(k) PROVE IndexInv'
  BY <1>3, <1>8 DEF V!deleteExperienceEmbedding, Written
<1> QED
  BY <1>1, <1>4, <1>5, <1>6, <1>7, <1>8, <1>9, <1>10
     DEF V!Next, V!Ask, V!ReadRow, V!searchSimilarExperiences, V!Answer, Written

-----------------------------------------------------------------------------
(* The notifications of a booking.                                         *)

NoteRows == [status : N!Statuses, readAt : {"no", "yes"}]
NoteMems == [status : N!Statuses \cup {"undefined"}, readAt : {"no", "yes", "undefined"}]
NoteTodo == [allowed : SUBSET Channels, left : SUBSET Channels]

NoteType ==
  /\ x1 \in [N!Ids -> NoteRows] /\ x2 \in [N!Ids -> N!Phases]
  /\ x3 \in [N!Ids -> NoteTodo] /\ x4 \in [N!Ids -> Nat] /\ x5 \in [N!Ids -> BOOLEAN]
  /\ x6 \in [N!Ids -> NoteMems]
  /\ x11 \in [N!Ids -> SUBSET Channels] /\ x12 \in [N!Ids -> Nat]

\* The result of a delivery is in its row only when it is done, and until then in
\* the entity it will save.  While it is under way its attempts are counted, all
\* but the current one have failed, and the current one is in the queue; if none of
\* its channels failed, those tried so far have taken the notification.
Earned(status, n) ==
  /\ status = "sent" => x3[n].allowed \subseteq x11[n]
  /\ status = "failed" => x12[n] = MaxAttempts
Note(n) ==
  /\ x1[n].status \in {"sent", "failed"} => x2[n] = "done"
  /\ Earned(x1[n].status, n)
  /\ x2[n] \in {"select", "update"} => Earned(x6[n].status, n)
  /\ x2[n] \in {"idle", "filter"} => x4[n] = 0 /\ x12[n] = 0
  /\ x2[n] = "dispatch" =>
       /\ x4[n] \in 1..MaxAttempts /\ x12[n] = x4[n] - 1 /\ <<n, x4[n]>> \in x7
       /\ ~x5[n] => x3[n].allowed \ x3[n].left \subseteq x11[n]
  /\ x2[n] = "timer" => x4[n] \in 1..(MaxAttempts - 1) /\ x12[n] = x4[n] /\ <<n, x4[n] + 1>> \in x7

NotesInv == NoteType /\ \A n \in N!Ids : Note(n)

LEMMA NotesStart == N!Init => NotesInv
<1> SUFFICES ASSUME N!Init PROVE NotesInv
  OBVIOUS
<1>1. /\ N!Row("absent", "no") \in NoteRows /\ N!Row("absent", "no").status = "absent"
      /\ N!Row("undefined", "undefined") \in NoteMems
      /\ [allowed |-> {}, left |-> {}] \in NoteTodo
  BY DEF N!Row, NoteRows, NoteMems, NoteTodo, N!Statuses
<1>2. NoteType
  BY <1>1 DEF N!Init, NoteType, N!Phases
<1>3. \A n \in N!Ids : x1[n].status = "absent" /\ x2[n] = "idle" /\ x4[n] = 0 /\ x12[n] = 0
  BY <1>1 DEF N!Init
<1> QED BY <1>2, <1>3 DEF NotesInv, Note, Earned

\* A step of one delivery leaves the others alone; the queue only grows.
LEMMA OthersKeepTheirNotes ==
  ASSUME NotesInv, NoteType', NEW n \in N!Ids, Note(n)', x7 \subseteq x7',
         \A m \in N!Ids \ {n} :
           /\ x1'[m] = x1[m] /\ x2'[m] = x2[m] /\ x3'[m] = x3[m] /\ x4'[m] = x4[m] /\ x5'[m] = x5[m]
           /\ x6'[m] = x6[m] /\ x11'[m] = x11[m] /\ x12'[m] = x12[m]
  PROVE  NotesInv'
<1> SUFFICES ASSUME NEW m \in N!Ids, m # n PROVE Note(m)'
  BY DEF NotesInv
<1>1. Note(m)
  BY DEF NotesInv
<1> QED BY <1>1 DEF Note, Earned

\* A record keeps its set when one field changes.
LEMMA NoteFields ==
  /\ \A x \in NoteMems, s \in N!Statuses : [x EXCEPT !.status = s] \in NoteMems
  /\ \A x \in NoteMems, s \in N!Statuses : [x EXCEPT !.status = s].status = s
  /\ \A x \in NoteTodo, Set \in SUBSET Channels : [x EXCEPT !.left = Set] \in NoteTodo
  /\ \A x \in NoteTodo, Set \in SUBSET Channels :
       [x EXCEPT !.left = Set].left = Set /\ [x EXCEPT !.left = Set].allowed = x.allowed
BY DEF NoteMems, NoteTodo

LEMMA NotesStep ==
  ASSUME MaxAttempts \in Nat \ {0}
  PROVE  NotesInv /\ N!Next => NotesInv'
<1> SUFFICES ASSUME NotesInv, N!Next PROVE NotesInv'
  OBVIOUS
<1>0. NotesInv /\ NoteType
  BY DEF NotesInv
<1>a. ASSUME NEW n \in N!Ids
      PROVE  /\ Note(n) /\ x1[n] \in NoteRows /\ x2[n] \in N!Phases /\ x3[n] \in NoteTodo
             /\ x4[n] \in Nat /\ x5[n] \in BOOLEAN /\ x6[n] \in NoteMems
             /\ x11[n] \in SUBSET Channels /\ x12[n] \in Nat
  BY <1>0 DEF NotesInv, NoteType
<1>1. ASSUME NEW n \in N!Ids, N!Send(n) PROVE NotesInv'
  <2>1. /\ N!Row("pending", "no") \in NoteRows /\ N!Row("pending", "no").status = "pending"
        /\ N!Row("pending", "undefined") \in NoteMems
    BY DEF N!Row, NoteRows, NoteMems, N!Statuses
  <2>2. /\ x1' = [x1 EXCEPT ![n] = N!Row("pending", "no")]
        /\ x6' = [x6 EXCEPT ![n] = N!Row("pending", "undefined")]
        /\ x2' = [x2 EXCEPT ![n] = "filter"] /\ x2[n] = "idle"
        /\ UNCHANGED <<x3, x4, x5, x7, x11, x12>>
    BY <1>1 DEF N!Send, N!Goto
  <2>3. NoteType'
    BY <1>0, <2>1, <2>2 DEF NoteType, N!Phases
  <2>4. x1'[n].status = "pending" /\ x2'[n] = "filter"
    BY <1>0, <2>1, <2>2 DEF NoteType
  <2>5. Note(n)'
    BY <1>a, <2>2, <2>4 DEF Note, Earned
  <2> QED BY <1>0, <2>2, <2>3, <2>5, OthersKeepTheirNotes DEF NoteType
<1>2. ASSUME NEW n \in N!Ids, N!Filter(n) PROVE NotesInv'
  <2> DEFINE allowed == Channels \cap x8
             new == [allowed |-> allowed, left |-> allowed]
  <2>1. new \in NoteTodo /\ new.allowed = allowed /\ new.left = allowed
    BY DEF NoteTodo
  <2>2. /\ x3' = [x3 EXCEPT ![n] = new] /\ x2[n] = "filter"
        /\ UNCHANGED <<x1, x5, x11, x12>>
    BY <1>2 DEF N!Filter
  <2>3. CASE allowed = {}
    <3> DEFINE m == [x6[n] EXCEPT !.status = "sent"]
    <3>1. m \in NoteMems /\ m.status = "sent"
      BY <1>a, NoteFields DEF N!Statuses
    <3>2. x6' = [x6 EXCEPT ![n] = m] /\ x2' = [x2 EXCEPT ![n] = "select"] /\ UNCHANGED <<x4, x7>>
      BY <1>0, <1>2, <2>3 DEF N!Filter, N!Goto, NoteType
    <3> HIDE DEF m, new, allowed
    <3>3. NoteType'
      BY <1>0, <2>1, <2>2, <3>1, <3>2 DEF NoteType, N!Phases
    <3>4. Note(n)'
      <4>1. x2'[n] = "select" /\ x6'[n] = m /\ x3'[n] = new
        BY <1>0, <2>2, <3>2 DEF NoteType
      <4>2. x1'[n] = x1[n] /\ x1[n].status \notin {"sent", "failed"}
        BY <1>a, <2>2 DEF Note
      <4> QED BY <2>1, <2>3, <3>1, <4>1, <4>2 DEF Note, Earned
    <3> QED BY <1>0, <2>2, <3>2, <3>3, <3>4, OthersKeepTheirNotes DEF NoteType
  <2>4. CASE allowed # {}
    <3>1. /\ x4' = [x4 EXCEPT ![n] = 1] /\ x7' = x7 \cup {<<n, 1>>}
          /\ x2' = [x2 EXCEPT ![n] = "dispatch"] /\ UNCHANGED x6
      BY <1>2, <2>4 DEF N!Filter, N!Goto, N!Enqueue
    <3> HIDE DEF new, allowed
    <3>2. NoteType'
      BY <1>0, <2>1, <2>2, <3>1 DEF NoteType, N!Phases
    <3>3. Note(n)'
      <4>1. x2'[n] = "dispatch" /\ x4'[n] = 1 /\ x3'[n] = new
        BY <1>0, <2>2, <3>1 DEF NoteType
      <4>2. x1'[n] = x1[n] /\ x1[n].status \notin {"sent", "failed"} /\ x12'[n] = 0
        BY <1>a, <2>2 DEF Note
      <4> QED BY <2>1, <3>1, <4>1, <4>2 DEF Note, Earned
    <3> QED BY <1>0, <2>2, <3>1, <3>2, <3>3, OthersKeepTheirNotes DEF NoteType
  <2> QED BY <2>3, <2>4
<1>3. ASSUME NEW n \in N!Ids, N!Dispatch(n) PROVE NotesInv'
  <2>0. PICK c \in x3[n].left : \E ok \in N!Accepts(n, c) :
          /\ x3' = [x3 EXCEPT ![n].left = @ \ {c}]
          /\ x5' = [x5 EXCEPT ![n] = N!Worse(@, ok)]
          /\ x11' = [x11 EXCEPT ![n] = IF ok THEN @ \cup {c} ELSE @]
    BY <1>3 DEF N!Dispatch
  <2>1. PICK ok \in N!Accepts(n, c) :
          /\ x3' = [x3 EXCEPT ![n].left = @ \ {c}]
          /\ x5' = [x5 EXCEPT ![n] = N!Worse(@, ok)]
          /\ x11' = [x11 EXCEPT ![n] = IF ok THEN @ \cup {c} ELSE @]
    BY <2>0
  <2> DEFINE new == [x3[n] EXCEPT !.left = @ \ {c}]
             worse == N!Worse(x5[n], ok)
             took == IF ok THEN x11[n] \cup {c} ELSE x11[n]
  <2>2. x3[n].left \subseteq Channels /\ x3[n].allowed \subseteq Channels
    BY <1>a DEF NoteTodo
  <2>3. new \in NoteTodo /\ new.allowed = x3[n].allowed /\ new.left = x3[n].left \ {c}
    BY <1>a, <2>2, NoteFields
  <2>4. ok \in BOOLEAN
    BY DEF N!Accepts
  <2>5. worse \in BOOLEAN /\ (~worse => ~x5[n] /\ ok)
    BY <1>a, <2>4 DEF N!Worse
  <2>6. took \in SUBSET Channels /\ x11[n] \subseteq took /\ (ok => c \in took)
    BY <1>a, <2>2
  <2>7. /\ x3' = [x3 EXCEPT ![n] = new] /\ x5' = [x5 EXCEPT ![n] = worse]
        /\ x11' = [x11 EXCEPT ![n] = took]
        /\ UNCHANGED <<x1, x2, x4, x6, x7, x12>> /\ x2[n] = "dispatch"
    BY <1>0, <1>3, <2>1 DEF N!Dispatch, NoteType
  <2> HIDE DEF new, worse, took
  <2>8. NoteType'
    BY <1>0, <2>3, <2>5, <2>6, <2>7 DEF NoteType
  <2>9. Note(n)'
    <3>1. x3'[n] = new /\ x5'[n] = worse /\ x11'[n] = took
      BY <1>0, <2>7 DEF NoteType
    <3> QED BY <1>a, <2>3, <2>5, <2>6, <2>7, <3>1 DEF Note, Earned
  <2> QED BY <1>0, <2>7, <2>8, <2>9, OthersKeepTheirNotes DEF NoteType
<1>4. ASSUME NEW n \in N!Ids, N!Judge(n) PROVE NotesInv'
  <2> DEFINE fails == IF x5[n] THEN x12[n] + 1 ELSE x12[n]
  <2>1. /\ x2[n] = "dispatch" /\ x3[n].left = {}
        /\ x12' = [x12 EXCEPT ![n] = fails]
        /\ UNCHANGED <<x1, x3, x4, x5, x11>>
    BY <1>0, <1>4 DEF N!Judge, NoteType
  <2>2. fails \in Nat /\ x12'[n] = fails
    BY <1>0, <1>a, <2>1 DEF NoteType
  <2>3. /\ x4[n] \in 1..MaxAttempts /\ x12[n] = x4[n] - 1
        /\ ~x5[n] => x3[n].allowed \subseteq x11[n]
    BY <1>a, <2>1 DEF Note
  <2>4. x1[n].status \notin {"sent", "failed"}
    BY <1>a, <2>1 DEF Note
  <2>5. ASSUME NEW s \in {"sent", "failed"}, s = "sent" => ~x5[n], s = "failed" => x5[n] /\ ~N!Again(n),
               x6' = [x6 EXCEPT ![n].status = s], N!Goto(n, "select"), UNCHANGED x7
        PROVE  NotesInv'
    <3> DEFINE m == [x6[n] EXCEPT !.status = s]
    <3>0. s \in N!Statuses /\ x6[n] \in NoteMems
      BY <1>a DEF N!Statuses
    <3>1. m \in NoteMems /\ m.status = s
      BY <3>0, NoteFields
    <3>2. x6' = [x6 EXCEPT ![n] = m] /\ x2' = [x2 EXCEPT ![n] = "select"]
      BY <1>0, <2>5 DEF N!Goto, NoteType
    <3> HIDE DEF m
    <3>3. NoteType'
      BY <1>0, <2>1, <2>2, <3>1, <3>2 DEF NoteType, N!Phases
    <3>4. Note(n)'
      <4>1. x2'[n] = "select" /\ x6'[n] = m
        BY <1>0, <3>2 DEF NoteType
      <4>2. s = "failed" => fails = MaxAttempts
        BY <2>3, <2>5 DEF N!Again
      <4> HIDE DEF fails
      <4> QED BY <2>1, <2>2, <2>3, <2>4, <2>5, <3>1, <4>1, <4>2 DEF Note, Earned
    <3> QED BY <1>0, <2>1, <2>5, <3>2, <3>3, <3>4, OthersKeepTheirNotes DEF NoteType
  <2>6. CASE x5[n] /\ N!Again(n) /\ N!Retry(n) /\ UNCHANGED x6
    <3>1. x7' = x7 \cup {<<n, x4[n] + 1>>} /\ x2' = [x2 EXCEPT ![n] = "timer"]
      BY <2>6 DEF N!Retry, N!Enqueue, N!Goto
    <3>2. NoteType'
      BY <1>0, <2>1, <2>2, <2>6, <3>1 DEF NoteType, N!Phases
    <3>3. Note(n)'
      <4>1. x2'[n] = "timer"
        BY <1>0, <3>1 DEF NoteType
      <4>2. x4[n] \in 1..(MaxAttempts - 1) /\ fails = x4[n]
        BY <2>3, <2>6 DEF N!Again
      <4> QED BY <2>1, <2>2, <2>4, <3>1, <4>1, <4>2 DEF Note, Earned
    <3> QED BY <1>0, <2>1, <2>6, <3>1, <3>2, <3>3, OthersKeepTheirNotes DEF NoteType
  <2> QED BY <1>4, <2>5, <2>6 DEF N!Judge
<1>5. ASSUME NEW n \in N!Ids, N!Fire(n) PROVE NotesInv'
  <2> DEFINE new == [x3[n] EXCEPT !.left = x3[n].allowed]
  <2>1. new \in NoteTodo /\ new.left = x3[n].allowed /\ new.allowed = x3[n].allowed
    <3>1. x3[n].allowed \in SUBSET Channels
      BY <1>a DEF NoteTodo
    <3> QED BY <1>a, <3>1, NoteFields
  <2>2. /\ x6' = [x6 EXCEPT ![n] = x1[n]] /\ x4' = [x4 EXCEPT ![n] = x4[n] + 1]
        /\ x3' = [x3 EXCEPT ![n] = new] /\ x5' = [x5 EXCEPT ![n] = FALSE]
        /\ x11' = [x11 EXCEPT ![n] = {}] /\ x2' = [x2 EXCEPT ![n] = "dispatch"]
        /\ UNCHANGED <<x1, x7, x12>> /\ x2[n] = "timer"
    BY <1>0, <1>5 DEF N!Fire, N!Goto, NoteType
  <2> HIDE DEF new
  <2>3. x1[n] \in NoteMems
    BY <1>a DEF NoteRows, NoteMems
  <2>4. NoteType'
    BY <1>0, <1>a, <2>1, <2>2, <2>3 DEF NoteType, N!Phases
  <2>5. Note(n)'
    <3>1. x2'[n] = "dispatch" /\ x4'[n] = x4[n] + 1 /\ x3'[n] = new
      BY <1>0, <2>2 DEF NoteType
    <3>2. x1[n].status \notin {"sent", "failed"} /\ x4[n] \in 1..(MaxAttempts - 1) /\ x12[n] = x4[n]
          /\ <<n, x4[n] + 1>> \in x7
      BY <1>a, <2>2 DEF Note
    <3> QED BY <2>1, <2>2, <3>1, <3>2 DEF Note, Earned
  <2> QED BY <1>0, <2>2, <2>4, <2>5, OthersKeepTheirNotes DEF NoteType
<1>6. ASSUME NEW n \in N!Ids, N!Select(n) PROVE NotesInv'
  <2> DEFINE m == [c \in {"status", "readAt"} |-> IF x6[n][c] = x1[n][c] THEN "undefined" ELSE x6[n][c]]
  <2>1. m \in NoteMems /\ m.status \in {"undefined", x6[n].status}
    BY <1>a DEF NoteMems, NoteRows
  <2>2. /\ x6' = [x6 EXCEPT ![n] = m] /\ x2' = [x2 EXCEPT ![n] = "update"]
        /\ UNCHANGED <<x1, x3, x4, x5, x7, x11, x12>> /\ x2[n] = "select"
    BY <1>0, <1>6 DEF N!Select, N!Goto, NoteType
  <2> HIDE DEF m
  <2>3. NoteType'
    BY <1>0, <2>1, <2>2 DEF NoteType, N!Phases
  <2>4. Note(n)'
    <3>1. x2'[n] = "update" /\ x6'[n] = m
      BY <1>0, <2>2 DEF NoteType
    <3> QED BY <1>a, <2>1, <2>2, <3>1 DEF Note, Earned
  <2> QED BY <1>0, <2>2, <2>3, <2>4, OthersKeepTheirNotes DEF NoteType
<1>7. ASSUME NEW n \in N!Ids, N!Update(n) PROVE NotesInv'
  <2> DEFINE r == [c \in {"status", "readAt"} |-> IF x6[n][c] = "undefined" THEN x1[n][c] ELSE x6[n][c]]
  <2>1. r \in NoteRows /\ r.status \in {x1[n].status, x6[n].status}
    BY <1>a DEF NoteMems, NoteRows, N!Statuses
  <2>2. /\ x1' = [x1 EXCEPT ![n] = r] /\ x2' = [x2 EXCEPT ![n] = "done"]
        /\ x6' = [x6 EXCEPT ![n] = N!Row("undefined", "undefined")]
        /\ UNCHANGED <<x3, x4, x5, x7, x11, x12>> /\ x2[n] = "update"
    BY <1>0, <1>7 DEF N!Update, N!Goto, NoteType
  <2>3. N!Row("undefined", "undefined") \in NoteMems
    BY DEF N!Row, NoteMems
  <2> HIDE DEF r
  <2>4. NoteType'
    BY <1>0, <2>1, <2>2, <2>3 DEF NoteType, N!Phases
  <2>5. Note(n)'
    <3>1. x2'[n] = "done" /\ x1'[n] = r
      BY <1>0, <2>2 DEF NoteType
    <3> QED BY <1>a, <2>1, <2>2, <3>1 DEF Note, Earned
  <2> QED BY <1>0, <2>2, <2>4, <2>5, OthersKeepTheirNotes DEF NoteType
<1>8. ASSUME NEW n \in N!Ids, N!Throw(n) PROVE NotesInv'
  <2>1. N!Row("undefined", "undefined") \in NoteMems
    BY DEF N!Row, NoteMems
  <2>2. /\ x6' = [x6 EXCEPT ![n] = N!Row("undefined", "undefined")]
        /\ x2' = [x2 EXCEPT ![n] = "lost"]
        /\ UNCHANGED <<x1, x3, x4, x5, x7, x11, x12>> /\ x2[n] # "done"
    BY <1>8 DEF N!Throw, N!Goto
  <2>3. NoteType'
    BY <1>0, <2>1, <2>2 DEF NoteType, N!Phases
  <2>4. Note(n)'
    <3>1. x2'[n] = "lost"
      BY <1>0, <2>2 DEF NoteType
    <3> QED BY <1>a, <2>2, <3>1 DEF Note, Earned
  <2> QED BY <1>0, <2>2, <2>3, <2>4, OthersKeepTheirNotes DEF NoteType
<1>9. ASSUME NEW n \in N!Ids, N!MarkAsRead(n) PROVE NotesInv'
  <2>1. N!Row("read", "yes") \in NoteRows /\ N!Row("read", "yes").status = "read"
    BY DEF N!Row, NoteRows, N!Statuses
  <2>2. x1' = [x1 EXCEPT ![n] = N!Row("read", "yes")] /\ UNCHANGED <<x2, x3, x4, x5, x6, x7, x11, x12>>
    BY <1>9 DEF N!MarkAsRead
  <2>3. NoteType'
    BY <1>0, <2>1, <2>2 DEF NoteType
  <2>4. Note(n)'
    <3>1. x1'[n].status = "read"
      BY <1>0, <2>1, <2>2 DEF NoteType
    <3> QED BY <1>a, <2>2, <3>1 DEF Note, Earned
  <2> QED BY <1>0, <2>2, <2>3, <2>4, OthersKeepTheirNotes DEF NoteType
<1>10. ASSUME N!Restart PROVE NotesInv'
  <2>1. /\ x2' = [n \in N!Ids |-> IF x2[n] \in {"idle", "done"} THEN x2[n] ELSE "lost"]
        /\ UNCHANGED <<x1, x3, x4, x5, x6, x7, x11, x12>>
    BY <1>10 DEF N!Restart
  <2>2. NoteType'
    BY <1>0, <2>1 DEF NoteType, N!Phases
  <2>3. ASSUME NEW n \in N!Ids PROVE Note(n)'
    <3>1. x2'[n] = IF x2[n] \in {"idle", "done"} THEN x2[n] ELSE "lost"
      BY <2>1
    <3> QED BY <1>a, <2>1, <3>1 DEF Note, Earned
  <2> QED BY <2>2, <2>3 DEF NotesInv
<1>11. ASSUME N!service' = N!service PROVE NotesInv'
  <2>1. UNCHANGED <<x1, x2, x3, x4, x5, x6, x7, x11, x12>>
    BY <1>11 DEF N!service
  <2> QED BY <1>0, <2>1 DEF NotesInv, NoteType, Note, Earned
<1> QED
  BY <1>1, <1>2, <1>3, <1>4, <1>5, <1>6, <1>7, <1>8, <1>9, <1>10, <1>11
     DEF N!Next, N!Deliver, N!UpdatePreferences

\* Records kept beside the rows tell what happened to them: the status of a
\* notification (notifications.service.ts), the index of embeddings (vector/*.ts) and
\* the audit log (admin.service.ts); for any number of them, of administrators, of
\* attempts and of stops of the server.
THEOREM RecordsStayTrue ==
  ASSUME IsFiniteSet(Actors), None \notin Meanings, MaxAttempts \in Nat \ {0}
  PROVE  Spec => []RecordsAreTrue
<1> DEFINE Inv == /\ part = "notifications" => NotesInv
                  /\ part = "recommendations" => IndexInv
                  /\ part = "audit" => AuditInv
<1>1. Init => Inv
  BY NotesStart, IndexStarts, AuditStarts DEF Init
<1>2. Inv /\ [Next]_vars => Inv'
  <2> SUFFICES ASSUME Inv, [Next]_vars PROVE Inv'
    OBVIOUS
  <2>1. part' = part
    BY DEF Next, vars
  <2>2. CASE UNCHANGED vars
    <3>1. NotesInv => NotesInv'
      BY <2>2 DEF vars, NotesInv, NoteType, Note, Earned
    <3>2. IndexInv => IndexInv'
      BY <2>2 DEF vars, IndexInv
    <3>3. AuditInv => AuditInv'
      BY <2>2 DEF vars, AuditInv, AuditType, TellsRow, Alone, About, LeftAsSaid, Complete, Newest,
                  U!EveryUpdateIsLogged, U!Logged, U!Unlogged
    <3> QED BY <2>1, <3>1, <3>2, <3>3
  <2>3. CASE Next /\ part = "notifications"
    BY <2>1, <2>3, NotesStep DEF Next
  <2>4. CASE Next /\ part = "recommendations"
    BY <2>1, <2>4, IndexStep DEF Next
  <2>5. CASE Next /\ part = "audit"
    BY <2>1, <2>5, AuditStep DEF Next
  <2> QED BY <2>1, <2>2, <2>3, <2>4, <2>5
<1>3. NotesInv => N!StatusIsEarned /\ N!QueueCoversWork
  BY DEF NotesInv, Note, Earned, N!StatusIsEarned, N!QueueCoversWork
<1>4. IndexInv => V!IndexFollowsRows
  BY DEF IndexInv, V!IndexFollowsRows
<1>5. AuditInv => U!EveryUpdateIsLogged /\ U!NewestTellsRow
  <2> SUFFICES ASSUME AuditInv, NEW r \in U!Rows \ (x6 \cup x7),
                      \A a \in Actors : x3[a] # U!Idle => U!resource(x3[a].act) # r,
                      \A i \in DOMAIN x5 : U!resource(x5[i]) # r,
                      NEW i \in DOMAIN x2,
                      U!FirstOf(i, {j \in U!AuditLogs(Actors) : U!resource(x2[j].action) = r})
               PROVE  U!After(x2[i].action) = x1[r]
    BY DEF AuditInv, U!NewestTellsRow
  <2>1. Newest(i, r)
    <3>1. \A j \in DOMAIN x2 : x2[j].adminId \in Actors
      <4> DEFINE Entries == [adminId : Actors, action : U!Acts]
      <4>1. x2 \in Seq(Entries)
        BY DEF AuditInv, AuditType
      <4> HIDE DEF Entries
      <4>2. \A j \in DOMAIN x2 : x2[j] \in Entries
        BY <4>1
      <4> QED BY <4>2 DEF Entries
    <3> QED BY <3>1 DEF Newest, U!FirstOf, U!AuditLogs
  <2>2. Complete(r)
    <3>1. \A a \in Actors : x3[a].step = "log" => x3[a] # U!Idle
      BY DEF U!Idle
    <3> QED BY <3>1 DEF Complete, About
  <2> QED BY <2>1, <2>2 DEF AuditInv, TellsRow
<1>6. Inv => RecordsAreTrue
  BY <1>3, <1>4, <1>5 DEF RecordsAreTrue
<1> QED BY <1>1, <1>2, <1>6, PTL DEF Spec

-----------------------------------------------------------------------------
(* The bell.                                                              *)

\* Of what is being marked, each is still to be called for, read, or excused.
BellInv ==
  /\ x1 \in [Notes -> B!Statuses] /\ x2 \in [Notes -> B!Statuses \cup {"absent"}]
  /\ x3 \in BOOLEAN
  /\ x4 \subseteq [left : SUBSET Notes, then : SUBSET Notes]
  /\ x3 => x4 = {}
  /\ \A n \in Notes : x2[n] = "read" => x1[n] = "read" \/ n \in x5 \cup x6
  /\ \A m \in x4, n \in Notes :
       n \in m.then /\ x2[n] # "absent" => n \in m.left \/ x1[n] = "read" \/ n \in x5 \cup x6

LEMMA BellStarts == B!Init => BellInv
BY DEF B!Init, BellInv

LEMMA BellStep == BellInv /\ B!Next => BellInv'
<1> SUFFICES ASSUME BellInv, B!Next PROVE BellInv'
  OBVIOUS
<1>0. BellInv
  OBVIOUS
<1>1. ASSUME B!Listed PROVE BellInv'
  <2>1. /\ x3 /\ x4 = {} /\ x4' = {} /\ x3' = FALSE /\ UNCHANGED <<x1, x5, x6>>
        /\ x2' = x1 \/ x2' = x2
    BY <1>0, <1>1 DEF BellInv, B!Listed
  <2> QED BY <1>0, <2>1 DEF BellInv, B!Statuses
<1>2. ASSUME NEW group \in SUBSET Notes, NEW then \in SUBSET Notes, B!Press(group, then),
             \A n \in then : x2[n] # "absent" => n \in group \/ x2[n] = "read"
      PROVE  BellInv'
  <2> DEFINE m == [left |-> group, then |-> then]
  <2>1. m \in [left : SUBSET Notes, then : SUBSET Notes] /\ m.left = group /\ m.then = then
    OBVIOUS
  <2> HIDE DEF m
  <2>2. x4' = x4 \cup {m} /\ ~x3 /\ UNCHANGED <<x1, x2, x3, x5, x6>>
    BY <1>2 DEF B!Press, m
  <2> QED BY <1>0, <1>2, <2>1, <2>2 DEF BellInv
<1>3. ASSUME NEW m \in x4, NEW n \in m.left, B!Marked(m, n) PROVE BellInv'
  <2> DEFINE new == [m EXCEPT !.left = @ \ {n}]
  <2>1. m \in [left : SUBSET Notes, then : SUBSET Notes]
    BY <1>0 DEF BellInv
  <2>2. /\ new \in [left : SUBSET Notes, then : SUBSET Notes]
        /\ new.left = m.left \ {n} /\ new.then = m.then
    BY <2>1
  <2> HIDE DEF new
  <2>3. /\ x4' = (x4 \ {m}) \cup {new} /\ UNCHANGED <<x2, x3, x6>>
        /\ \/ x1' = [x1 EXCEPT ![n] = "read"] /\ x5' = x5
           \/ x5' = x5 \cup {n} /\ x1' = x1
    BY <1>3 DEF B!Marked, new
  <2> QED BY <1>0, <2>1, <2>2, <2>3 DEF BellInv, B!Statuses
<1>4. ASSUME NEW m \in x4, B!ShowRead(m) PROVE BellInv'
  <2>1. /\ m.left = {} /\ x4' = x4 \ {m} /\ UNCHANGED <<x1, x3, x5, x6>>
        /\ x2' = [n \in Notes |-> IF n \in m.then /\ x2[n] # "absent" THEN "read" ELSE x2[n]]
    BY <1>4 DEF B!ShowRead
  <2>2. x2' \in [Notes -> B!Statuses \cup {"absent"}]
    BY <1>0, <2>1 DEF BellInv, B!Statuses
  <2>3. \A n \in Notes : x2'[n] = x2[n] \/ (n \in m.then /\ x2'[n] = "read" /\ x2[n] # "absent")
    BY <2>1
  <2> QED BY <1>0, <2>1, <2>2, <2>3 DEF BellInv
<1>5. ASSUME NEW n \in Notes, B!Delivered(n) PROVE BellInv'
  BY <1>0, <1>5 DEF BellInv, B!Delivered, B!Statuses
<1>6. ASSUME B!MarkAllRead PROVE BellInv'
  <2>1. B!Unread \in SUBSET Notes /\ \A n \in Notes : x2[n] # "absent" => n \in B!Unread \/ x2[n] = "read"
    BY DEF B!Unread
  <2>2. B!Press(B!Unread, Notes) /\ Notes \in SUBSET Notes
    BY <1>6 DEF B!MarkAllRead
  <2> QED BY <1>2, <2>1, <2>2
<1>7. ASSUME NEW n \in Notes, B!MarkRead(n) PROVE BellInv'
  <2>1. {n} \in SUBSET Notes
    OBVIOUS
  <2> QED BY <1>0, <1>2, <1>7, <2>1 DEF B!MarkRead
<1> QED BY <1>1, <1>3, <1>4, <1>5, <1>6, <1>7 DEF B!Next

-----------------------------------------------------------------------------
(* The preferences.                                                       *)

PreferencesInv ==
  /\ x3 \in {"loading", "loaded"} /\ x5 \in BOOLEAN /\ x7 \in BOOLEAN /\ x8 \in Nat
  /\ x3 = "loading" => ~x5 /\ x4 = {}
  /\ x8 = 0 => x4 \subseteq {x2}
  /\ x5 /\ x8 = 0 /\ ~x7 => x1 = x2

LEMMA PreferencesStart == P!Init => PreferencesInv
<1> SUFFICES ASSUME P!Init PROVE PreferencesInv
  OBVIOUS
<1>1. x3 \in {"loading", "loaded"} BY DEF P!Init
<1>2. x5 \in BOOLEAN BY DEF P!Init
<1>3. x7 \in BOOLEAN BY DEF P!Init
<1>4. x8 \in Nat BY DEF P!Init
<1>5. ~x5 /\ x4 = {} BY DEF P!Init
<1>6. x4 \subseteq {x2} BY <1>5
<1> QED BY <1>1, <1>2, <1>3, <1>4, <1>5, <1>6, Zenon DEF PreferencesInv

LEMMA PreferencesStep == PreferencesInv /\ P!Next => PreferencesInv'
<1> SUFFICES ASSUME PreferencesInv, P!Next PROVE PreferencesInv'
  OBVIOUS
<1>1. CASE P!Loaded
  BY <1>1 DEF PreferencesInv, P!Loaded
<1>2. CASE P!Save
  BY <1>2 DEF PreferencesInv, P!Save
<1>3. CASE P!Saved
  <2>1. x4' = {} /\ UNCHANGED <<x2, x3, x8>> /\ x3 = "loaded"
    BY <1>3 DEF PreferencesInv, P!Saved
  <2>2. CASE x1' \in x4 /\ x5' = TRUE /\ x7' = FALSE
    BY <2>1, <2>2 DEF PreferencesInv
  <2>3. CASE x1' \in x4 \cup {x1} /\ UNCHANGED <<x5, x7>>
    <3>1. x5 /\ x8 = 0 /\ ~x7 => x1' = x2
      BY <2>3 DEF PreferencesInv
    <3> QED BY <2>1, <2>3, <3>1 DEF PreferencesInv
  <2>4. CASE UNCHANGED <<x1, x5, x7>>
    BY <2>1, <2>4 DEF PreferencesInv
  <2> QED BY <1>3, <2>2, <2>3, <2>4 DEF P!Saved
<1>4. CASE P!Restart
  BY <1>4 DEF PreferencesInv, P!Restart
<1>5. CASE P!Revisit
  BY <1>5 DEF PreferencesInv, P!Revisit
<1>6. ASSUME NEW t \in Toggles, P!Toggle(t) PROVE PreferencesInv'
  <2>1. x5' = FALSE /\ UNCHANGED <<x1, x3, x4, x7>> /\ x3 = "loaded"
    BY <1>6 DEF P!Toggle, P!Flip
  <2>2. (x4 = {} /\ x8' = x8) \/ x8' = x8 + 1
    BY <1>6 DEF P!Toggle
  <2>3. x8' \in Nat /\ (x8' = 0 => x8 = 0 /\ x4 = {})
    BY <2>2 DEF PreferencesInv
  <2>4. x7 \in BOOLEAN
    BY DEF PreferencesInv
  <2> QED BY <2>1, <2>3, <2>4 DEF PreferencesInv
<1>7. ASSUME NEW p \in x9, P!StoreLate(p) PROVE PreferencesInv'
  BY <1>7 DEF PreferencesInv, P!StoreLate
<1> QED BY <1>1, <1>2, <1>3, <1>4, <1>5, <1>6, <1>7 DEF P!Next

-----------------------------------------------------------------------------
(* The hearts.                                                            *)

HeartsInv ==
  /\ x6 \in Nat
  /\ x6 = 0 =>
       /\ \A c, d \in x3 : c = d
       /\ \A c \in x3 : c.next = H!Flip(x2, c.on)
       /\ ~x5 => \A e \in x4 : (\E c \in x3 : c.on = e) \/ (e \in x2 <=> e \in x1)

LEMMA HeartsStart == H!Init => HeartsInv
BY DEF H!Init, HeartsInv

LEMMA HeartsStep == HeartsInv /\ H!Next => HeartsInv'
<1> SUFFICES ASSUME HeartsInv, H!Next PROVE HeartsInv'
  OBVIOUS
<1>1. ASSUME NEW e \in Experiences, H!Press(e) PROVE HeartsInv'
  <2> DEFINE call == [on |-> e, next |-> H!Flip(x2, e)]
  <2>1. call.on = e /\ call.next = H!Flip(x2, e)
    OBVIOUS
  <2>2. /\ x3' = x3 \cup {call} /\ x4' = x4 \cup {e} /\ UNCHANGED <<x1, x2, x5>>
        /\ (x3 = {} /\ x6' = x6) \/ x6' = x6 + 1
    BY <1>1 DEF H!Press
  <2> HIDE DEF call
  <2> QED BY <2>1, <2>2 DEF HeartsInv
<1>2. ASSUME NEW c \in x3, H!Answered(c) PROVE HeartsInv'
  BY <1>2 DEF HeartsInv, H!Answered, H!Serve, H!Flip
<1>3. CASE H!Load
  BY <1>3 DEF HeartsInv, H!Load
<1> QED BY <1>1, <1>2, <1>3 DEF H!Next

-----------------------------------------------------------------------------
(* The administrator's list again.                                        *)

\* Nothing that was decided is listed or on its way to the list, but for what others
\* decided; one answer is awaited at a time.
DecidedInv ==
  /\ x1 \in [Requests -> {"pending"} \cup A!Decided]
  /\ "verifications" \in DOMAIN x3 /\ x3["verifications"] \subseteq Requests
  /\ \A a \in x8 : a.tab = "verifications" => a.rows \subseteq Requests
  /\ x14 \in Nat
  /\ x14 = 0 =>
       /\ x8 = {} \/ x9 = {}
       /\ \A a, b \in x8 : a = b
       /\ \A c, d \in x9 : c = d
       /\ \A a \in x8 : a.tab = "verifications" => a.rows \subseteq A!Pending \cup x12
       /\ x3["verifications"] \subseteq A!Pending \cup x12

LEMMA DecidedStarts == A!Init => DecidedInv
BY DEF A!Init, DecidedInv, A!Listed, A!Lists, A!Pending

LEMMA DecidedStep == DecidedInv /\ A!Next => DecidedInv'
<1> SUFFICES ASSUME DecidedInv, A!Next PROVE DecidedInv'
  OBVIOUS
<1>0. DecidedInv
  OBVIOUS
<1>1. ASSUME NEW a \in x8, A!Arrive(a) PROVE DecidedInv'
  <2>0. x8' = x8 \ {a} /\ UNCHANGED <<x1, x9, x14>> /\ A!Pending' = A!Pending
    BY <1>1 DEF A!Arrive, A!Pending
  <2>1. CASE UNCHANGED <<x3, x12>>
    BY <1>0, <2>0, <2>1 DEF DecidedInv
  <2>2. CASE a.tab # "verifications" /\ x12' = x12 /\ \E rows : x3' = [x3 EXCEPT ![a.tab] = rows]
    BY <1>0, <2>0, <2>2 DEF DecidedInv
  <2>3. ASSUME NEW rows \in {a.rows, A!Pending}, a.tab = "verifications",
               x3' = [x3 EXCEPT !["verifications"] = rows],
               x12' = {r \in x12 : r \in rows <=> r \notin A!Pending}
        PROVE  DecidedInv'
    <3>1. x3'["verifications"] = rows /\ "verifications" \in DOMAIN x3'
      BY <1>0, <2>3 DEF DecidedInv
    <3>2. rows \subseteq Requests
      BY <1>0, <2>3 DEF DecidedInv, A!Pending
    <3>3. x14 = 0 => x8' = {}
      BY <1>0, <2>0 DEF DecidedInv
    <3>4. x14 = 0 => rows \subseteq A!Pending \cup x12'
      BY <1>0, <2>3 DEF DecidedInv
    <3> QED BY <1>0, <2>0, <3>1, <3>2, <3>3, <3>4 DEF DecidedInv
  <2> QED BY <1>1, <2>1, <2>2, <2>3 DEF A!Arrive, A!Listed
<1>2. ASSUME NEW t, A!SelectTab(t) PROVE DecidedInv'
  <2> DEFINE ask == [tab |-> t, rows |-> A!Listed(t)]
  <2>1. ask.tab = t /\ (t = "verifications" => ask.rows = A!Pending)
    BY DEF A!Listed
  <2> HIDE DEF ask
  <2>2. /\ x8' = x8 \cup {ask} /\ UNCHANGED <<x1, x3, x9, x12>>
        /\ (x8 = {} /\ x9 = {} /\ x14' = x14) \/ x14' = x14 + 1
    BY <1>2 DEF A!SelectTab, A!Act, A!Quiet, ask
  <2>3. A!Pending' = A!Pending /\ A!Pending \subseteq Requests
    BY <2>2 DEF A!Pending
  <2> QED BY <1>0, <2>1, <2>2, <2>3 DEF DecidedInv
<1>3. ASSUME UNCHANGED <<x1, x3, x8, x9, x12>>, x14' = x14 \/ x14' = x14 + 1 PROVE DecidedInv'
  <2>1. A!Pending' = A!Pending
    BY <1>3 DEF A!Pending
  <2> QED BY <1>0, <1>3, <2>1 DEF DecidedInv
<1>4. ASSUME NEW call, x9' = x9 \cup {call}, UNCHANGED <<x1, x3, x8, x12>>,
             (x8 = {} /\ x9 = {} /\ x14' = x14) \/ x14' = x14 + 1
      PROVE  DecidedInv'
  <2>1. A!Pending' = A!Pending
    BY <1>4 DEF A!Pending
  <2> QED BY <1>0, <1>4, <2>1 DEF DecidedInv
<1>5. CASE A!Type \/ A!Cancel
  BY <1>3, <1>5 DEF A!Type, A!Cancel, A!Act
<1>6. CASE A!Refuse
  BY <1>3, <1>4, <1>6 DEF A!Refuse, A!Act, A!Quiet, A!Blank
<1>7. ASSUME NEW r, A!Open(r) PROVE DecidedInv'
  BY <1>3, <1>7 DEF A!Open, A!Act
<1>8. ASSUME NEW r, A!Approve(r) \/ A!Remove(r) \/ A!Unsuspend(r) PROVE DecidedInv'
  <2>1. A!Act /\ \E op : A!Call(op, r)
    BY <1>8 DEF A!Approve, A!Remove, A!Unsuspend
  <2> QED BY <1>4, <2>1 DEF A!Call, A!Act, A!Quiet, A!screen
<1>9. ASSUME NEW c \in x9, A!Answered(c) PROVE DecidedInv'
  <2>1. x9' = x9 \ {c} /\ UNCHANGED <<x8, x12, x14>>
    BY <1>9 DEF A!Answered
  <2>2. /\ x3["verifications"] \subseteq Requests /\ "verifications" \in DOMAIN x3
        /\ x1 \in [Requests -> {"pending"} \cup A!Decided]
    BY <1>0 DEF DecidedInv
  <2>3. /\ "verifications" \in DOMAIN x3'
        /\ x3'["verifications"] \subseteq x3["verifications"]
        /\ c.tab = "verifications" => x3'["verifications"] = x3["verifications"] \ {c.on}
    BY <1>9, <2>2 DEF A!Answered, A!AfterCall
  <2>4. /\ x1' \in [Requests -> {"pending"} \cup A!Decided]
        /\ \A r \in Requests : x1'[r] = x1[r] \/ (c.tab = "verifications" /\ r = c.on)
    BY <1>9, <2>2 DEF A!Answered, A!Decided
  <2>5. x14 = 0 => x8 = {} /\ x3'["verifications"] \subseteq A!Pending' \cup x12
    BY <1>0, <2>2, <2>3, <2>4 DEF DecidedInv, A!Pending
  <2> QED BY <1>0, <2>1, <2>2, <2>3, <2>4, <2>5 DEF DecidedInv
<1>10. ASSUME NEW r \in Requests, NEW s \in {"pending", "approved"}, A!Elsewhere(r, s) PROVE DecidedInv'
  <2>1. /\ x1' = [x1 EXCEPT ![r] = s] /\ x12' = x12 \cup {r} /\ UNCHANGED <<x3, x8, x9, x14>>
    BY <1>10 DEF A!Elsewhere, A!screen
  <2>2. /\ x1' \in [Requests -> {"pending"} \cup A!Decided]
        /\ A!Pending \cup x12 \subseteq A!Pending' \cup x12'
    BY <1>0, <2>1 DEF DecidedInv, A!Pending, A!Decided
  <2> QED BY <1>0, <2>1, <2>2 DEF DecidedInv
<1> QED
  BY <1>1, <1>2, <1>5, <1>6, <1>7, <1>8, <1>9, <1>10 DEF A!Next

-----------------------------------------------------------------------------
(* The traveller's dashboard.                                             *)

Seen == T!Statuses \cup {"absent"}

TravelerAsk(a) ==
  /\ a.status \in [Bookings -> T!Statuses]
  /\ a.what = "rows" => a.key \in T!Filters

\* The lists, and what is on its way to them, are those of the controls, of the
\* bookings that were cancelled, and of the wishlist but for what changed unseen;
\* one change is made at a time.
TravelerInv ==
  /\ x1 \in [Bookings -> T!Statuses] /\ x4 \in T!Filters
  /\ x6 \in [Bookings -> Seen] /\ x7 \in [Bookings -> Seen]
  /\ x10 \in Bookings \cup {None} /\ x14 \subseteq Bookings
  /\ x16 \in Nat
  /\ \A a \in x11 : TravelerAsk(a)
  /\ \A c \in x12 \cup x18 : c.op = "cancel" => c.on \in Bookings
  /\ x16 = 0 =>
       /\ x11 = {} \/ x12 = {}
       /\ \A a, b \in x11 : a.what = "wishlist" /\ b.what = "wishlist" => a = b
       /\ \A c, d \in x12 : c = d
       /\ \A c \in x12 : /\ c.op = "heart" => c.next = T!Flip(x8, c.on)
                         /\ c.op \notin {"heart", "cancel"} => c.next = {}
       /\ \A a \in x11 : /\ a.what = "rows" => a.key = x4
                         /\ a.what = "discover" => a.key = x5
                         /\ a.what = "wishlist" =>
                              \A e \in Experiences \ x17 : e \in a.wished <=> e \in x2
                         /\ \A b \in x14 : a.status[b] = "cancelled"
       /\ \A b \in x14 : x1[b] = "cancelled" /\ x6[b] # "confirmed" /\ x7[b] # "confirmed"
       /\ "rows" \notin x13 /\ (\A a \in x11 : a.what # "rows") =>
            \A b \in Bookings : x6[b] \in {T!StatusOf[x4], "absent"}
       /\ (\A a \in x11 : a.what # "discover") => x9 \in {x5, "none"}
       /\ "wishlist" \in x15 \ x13 /\ (\A a \in x11 : a.what # "wishlist") =>
            \A e \in Experiences \ x17 : e \in x8 <=> e \in x2

LEMMA TravelerStatus ==
  ASSUME NEW f \in T!Filters
  PROVE  T!StatusOf[f] \in T!Statuses
BY DEF T!StatusOf, T!Filters, T!Statuses

LEMMA TravelerList ==
  ASSUME NEW of \in [Bookings -> T!Statuses], NEW s \in T!Statuses \cup {"any"}
  PROVE  /\ T!List(of, s) \in [Bookings -> Seen]
         /\ \A b \in Bookings : T!List(of, s)[b] \in {of[b], "absent"}
         /\ s # "any" => \A b \in Bookings : T!List(of, s)[b] \in {s, "absent"}
BY DEF T!List, T!Statuses, Seen

\* What is asked for, and what is sent of it.
LEMMA TravelerAsks ==
  ASSUME TravelerInv, NEW what, NEW key, what = "rows" => key \in T!Filters
  PROVE  /\ T!Ask(what, key).what = what /\ T!Ask(what, key).key = key
         /\ T!Ask(what, key).status = x1 /\ T!Ask(what, key).wished = x2
         /\ TravelerAsk(T!Ask(what, key))
BY DEF T!Ask, TravelerInv, TravelerAsk

LEMMA TravelerStarts == T!Init => TravelerInv
<1> SUFFICES ASSUME T!Init PROVE TravelerInv
  OBVIOUS
<1>1. /\ x1 \in [Bookings -> T!Statuses] /\ x4 = "upcoming" /\ x5 = "recommended"
      /\ x6 \in [Bookings -> Seen] /\ x7 \in [Bookings -> Seen]
      /\ \A b \in Bookings : x6[b] = "absent"
      /\ x10 = None /\ x14 = {} /\ x16 = 0 /\ x12 = {} /\ x13 = {} /\ x8 = {} /\ x9 = "none"
      /\ x18 = {}
  BY DEF T!Init, T!Statuses, Seen
<1>2. x11 = {a \in T!Effects : a.what \in x15}
  BY DEF T!Init
<1> DEFINE w == T!Ask("wishlist", "any")
<1>3. /\ \A a \in T!Effects :
           /\ a.status = x1 /\ a.wished = x2
           /\ a.what = "rows" => a.key = x4
           /\ a.what = "discover" => a.key = x5
           /\ a.what = "wishlist" => a = w
      /\ w \in T!Effects /\ w.what = "wishlist"
  BY DEF T!Effects, T!Ask
<1> HIDE DEF w
<1> QED BY <1>1, <1>2, <1>3 DEF TravelerInv, TravelerAsk, T!Filters

LEMMA TravelerStep == TravelerInv /\ T!Next => TravelerInv'
<1> SUFFICES ASSUME TravelerInv, T!Next PROVE TravelerInv'
  OBVIOUS
<1>0. TravelerInv
  OBVIOUS
<1>1. ASSUME NEW a \in x11, T!Arrive(a) PROVE TravelerInv'
  <2>1. /\ x11' = x11 \ {a} /\ x13' = x13 \ {a.what} /\ UNCHANGED <<x1, x2, x4, x5, x10, x12, x14, x15, x16, x18>>
    BY <1>1 DEF T!Arrive, T!tables
  <2>2. TravelerAsk(a) /\ x1 \in [Bookings -> T!Statuses]
    BY <1>0 DEF TravelerInv
  <2>3. PICK s \in {a.status, x1} : \E w \in {a.wished, x2} :
          \/ a.what = "rows" /\ x6' = T!List(s, T!StatusOf[a.key]) /\ UNCHANGED <<x7, x8, x9, x17>>
          \/ a.what = "all" /\ x7' = T!List(s, "any") /\ UNCHANGED <<x6, x8, x9, x17>>
          \/ /\ a.what = "wishlist" /\ x8' = w /\ x17' = {e \in x17 : ~(e \in w <=> e \in x2)}
             /\ UNCHANGED <<x6, x7, x9>>
          \/ a.what = "discover" /\ x9' = a.key /\ UNCHANGED <<x6, x7, x8, x17>>
    BY <1>1 DEF T!Arrive
  <2>4. s \in [Bookings -> T!Statuses] /\ (x16 = 0 => \A b \in x14 : s[b] = "cancelled")
    BY <1>0, <2>2, <2>3 DEF TravelerInv, TravelerAsk
  <2>5. CASE a.what = "rows" /\ x6' = T!List(s, T!StatusOf[a.key]) /\ UNCHANGED <<x7, x8, x9, x17>>
    <3> DEFINE st == T!StatusOf[a.key]
    <3>1. st \in T!Statuses /\ st # "any"
      BY <2>2, <2>5, TravelerStatus DEF TravelerAsk, T!Statuses
    <3> HIDE DEF st
    <3>2. /\ x6' \in [Bookings -> Seen]
          /\ \A b \in Bookings : x6'[b] \in {s[b], "absent"} /\ x6'[b] \in {st, "absent"}
      BY <2>4, <2>5, <3>1, TravelerList DEF st
    <3>3. x16 = 0 => st = T!StatusOf[x4]
      BY <1>0, <2>5 DEF TravelerInv, st
    <3> QED BY <1>0, <2>1, <2>4, <2>5, <3>2, <3>3 DEF TravelerInv
  <2>6. CASE a.what = "all" /\ x7' = T!List(s, "any") /\ UNCHANGED <<x6, x8, x9, x17>>
    <3>1. /\ x7' \in [Bookings -> Seen]
          /\ \A b \in Bookings : x7'[b] \in {s[b], "absent"}
      BY <2>4, <2>6, TravelerList
    <3> QED BY <1>0, <2>1, <2>4, <2>6, <3>1 DEF TravelerInv
  <2>7. CASE /\ a.what = "wishlist" /\ UNCHANGED <<x6, x7, x9>>
             /\ \E w \in {a.wished, x2} : x8' = w /\ x17' = {e \in x17 : ~(e \in w <=> e \in x2)}
    <3>1. x17' \subseteq x17 /\ \A e \in x17 : e \in x17' \/ (e \in x8' <=> e \in x2)
      BY <2>7
    <3>2. x16 = 0 => \A e \in Experiences \ x17' : e \in x8' <=> e \in x2
      BY <1>0, <2>7, <3>1 DEF TravelerInv
    <3>3. x16 = 0 => \A b \in x11' : b.what # "wishlist"
      BY <1>0, <2>1, <2>7 DEF TravelerInv
    <3> QED BY <1>0, <2>1, <2>7, <3>2, <3>3 DEF TravelerInv
  <2>8. CASE a.what = "discover" /\ x9' = a.key /\ UNCHANGED <<x6, x7, x8, x17>>
    BY <1>0, <2>1, <2>8 DEF TravelerInv
  <2> QED BY <2>3, <2>5, <2>6, <2>7, <2>8
<1>2. ASSUME NEW a \in x11, T!Refuse(a) PROVE TravelerInv'
  <2>1. /\ x11' = x11 \ {a} /\ x13' = x13 \cup {a.what}
        /\ UNCHANGED <<x1, x2, x4, x5, x6, x7, x8, x10, x12, x14, x15, x16, x17, x18>>
        /\ x9' = IF a.what = "discover" THEN "none" ELSE x9
    BY <1>2 DEF T!Refuse, T!tables, T!unseen
  <2> QED BY <1>0, <2>1 DEF TravelerInv
\* What the user does that asks for nothing.
<1>3. ASSUME UNCHANGED <<x1, x2, x4, x5, x6, x7, x8, x9, x11, x12, x13, x14, x15, x17, x18>>,
             x10' \in Bookings \cup {None}, x16' = x16 \/ x16' = x16 + 1
      PROVE  TravelerInv'
  BY <1>0, <1>3 DEF TravelerInv
<1>4. ASSUME T!CloseCancel PROVE TravelerInv'
  BY <1>3, <1>4 DEF T!CloseCancel, T!Act, T!tables, T!unseen
<1>5. ASSUME NEW b \in Bookings, T!OpenCancel(b) PROVE TravelerInv'
  BY <1>3, <1>5 DEF T!OpenCancel, T!Act, T!tables, T!unseen
<1>6. ASSUME NEW call, x12' = x12 \cup {call},
             UNCHANGED <<x1, x2, x4, x5, x6, x7, x8, x9, x10, x11, x13, x14, x15, x17, x18>>,
             call.op = "cancel" => call.on \in Bookings,
             call.op = "heart" => call.next = T!Flip(x8, call.on),
             call.op \notin {"heart", "cancel"} => call.next = {},
             (x11 = {} /\ x12 = {} /\ x16' = x16) \/ x16' = x16 + 1
      PROVE  TravelerInv'
  BY <1>0, <1>6 DEF TravelerInv
<1>7. ASSUME T!ConfirmCancel PROVE TravelerInv'
  <2> DEFINE call == [op |-> "cancel", on |-> x10, next |-> {}]
  <2>1. call.op = "cancel" /\ call.on = x10 /\ x10 \in Bookings
    BY <1>0, <1>7 DEF TravelerInv, T!ConfirmCancel
  <2>2. x12' = x12 \cup {call}
    BY <1>7 DEF T!ConfirmCancel
  <2> HIDE DEF call
  <2> QED BY <1>6, <1>7, <2>1, <2>2 DEF T!ConfirmCancel, T!Act, T!Quiet, T!tables, T!screen, T!unseen
<1>8. ASSUME NEW e, T!PressHeart(e) PROVE TravelerInv'
  <2> DEFINE call == [op |-> "heart", on |-> e, next |-> T!Flip(x8, e)]
  <2>1. call.op = "heart" /\ call.on = e /\ call.next = T!Flip(x8, e)
    OBVIOUS
  <2>2. x12' = x12 \cup {call}
    BY <1>8 DEF T!PressHeart
  <2> HIDE DEF call
  <2> QED BY <1>6, <1>8, <2>1, <2>2 DEF T!PressHeart, T!Act, T!Quiet, T!tables, T!screen, T!unseen
<1>9. ASSUME NEW t, T!SelectTab(t) PROVE TravelerInv'
  <2>1. /\ UNCHANGED <<x1, x2, x4, x5, x6, x7, x8, x9, x10, x12, x13, x14, x15, x17, x18>>
        /\ (x11 = {} /\ x12 = {} /\ x16' = x16) \/ x16' = x16 + 1
        /\ x11 \subseteq x11' /\ x11' \subseteq x11 \cup {T!Ask("wishlist", "any")}
    BY <1>9 DEF T!SelectTab, T!Act, T!Quiet, T!tables, T!Send, T!unseen
  <2> QED BY <1>0, <2>1, TravelerAsks DEF TravelerInv
<1>10. ASSUME NEW f \in T!Filters, T!SelectFilter(f) PROVE TravelerInv'
  <2> DEFINE ask == T!Ask("rows", f)
  <2>1. ask.what = "rows" /\ ask.key = f /\ ask.status = x1 /\ TravelerAsk(ask)
    BY <1>0, TravelerAsks
  <2>2. /\ UNCHANGED <<x1, x2, x5, x6, x7, x8, x9, x10, x12, x13, x14, x15, x17, x18>>
        /\ (x11 = {} /\ x12 = {} /\ x16' = x16) \/ x16' = x16 + 1
        /\ x4' = f /\ x11' = x11 \cup {ask}
    BY <1>10, <2>1 DEF T!SelectFilter, T!FilterAsks, T!Act, T!Quiet, T!tables, T!Send, T!unseen
  <2> HIDE DEF ask
  <2> QED BY <1>0, <2>1, <2>2 DEF TravelerInv
<1>11. ASSUME NEW m, T!SelectMode(m) PROVE TravelerInv'
  <2> DEFINE ask == T!Ask("discover", m)
  <2>1. ask.what = "discover" /\ ask.key = m /\ ask.status = x1 /\ TravelerAsk(ask)
    BY <1>0, TravelerAsks
  <2>2. /\ UNCHANGED <<x1, x2, x4, x6, x7, x8, x9, x10, x12, x13, x14, x15, x17, x18>>
        /\ (x11 = {} /\ x12 = {} /\ x16' = x16) \/ x16' = x16 + 1
        /\ x5' = m /\ x11' = x11 \cup {ask}
    BY <1>11, <2>1 DEF T!SelectMode, T!Act, T!Quiet, T!tables, T!Send, T!unseen
  <2> HIDE DEF ask
  <2> QED BY <1>0, <2>1, <2>2 DEF TravelerInv
<1>12. ASSUME NEW e, T!PressRemove(e) PROVE TravelerInv'
  <2> DEFINE call == [op |-> "unheart", on |-> e, next |-> {}]
  <2>1. call.op = "unheart" /\ call.next = {}
    OBVIOUS
  <2>2. x12' = x12 \cup {call}
    BY <1>12 DEF T!PressRemove
  <2> HIDE DEF call
  <2> QED BY <1>6, <1>12, <2>1, <2>2 DEF T!PressRemove, T!Act, T!Quiet, T!tables, T!screen, T!unseen
<1>13. ASSUME NEW b \in Bookings, T!Complete(b) PROVE TravelerInv'
  <2>1. /\ UNCHANGED <<x2, x4, x5, x6, x7, x8, x9, x10, x11, x12, x13, x14, x15, x16, x17, x18>>
        /\ x1' = [x1 EXCEPT ![b] = "completed"] /\ x1[b] = "confirmed"
    BY <1>13 DEF T!Complete, T!screen, T!unseen
  <2>2. x1' \in [Bookings -> T!Statuses] /\ \A d \in Bookings : x1[d] = "cancelled" => x1'[d] = "cancelled"
    BY <1>0, <2>1 DEF TravelerInv, T!Statuses
  <2> QED BY <1>0, <2>1, <2>2 DEF TravelerInv
<1>14. ASSUME NEW c \in x12, c.op = "cancel", T!Cancelled(c) PROVE TravelerInv'
  <2>1. /\ x12' = x12 \ {c} /\ UNCHANGED <<x2, x4, x5, x8, x9, x11, x13, x15, x16, x17, x18>>
        /\ c.on \in Bookings
    BY <1>0, <1>14 DEF T!Cancelled, T!unseen, TravelerInv
  <2>2. CASE UNCHANGED <<x1, x6, x7, x10, x14>>
    BY <1>0, <2>1, <2>2 DEF TravelerInv
  <2>3. CASE x1[c.on] = "confirmed" /\ x1' = [x1 EXCEPT ![c.on] = "cancelled"]
    <3>1. /\ x1' \in [Bookings -> T!Statuses] /\ x1'[c.on] = "cancelled"
          /\ \A d \in Bookings : x1[d] = "cancelled" => x1'[d] = "cancelled"
      BY <1>0, <2>1, <2>3 DEF TravelerInv, T!Statuses
    <3>2. CASE UNCHANGED <<x6, x7, x10, x14>>
      BY <1>0, <2>1, <3>1, <3>2 DEF TravelerInv
    <3>3. CASE T!Without(c.on) /\ x10' = None /\ x14' = x14 \cup {c.on}
      <4>1. /\ x6' \in [Bookings -> Seen] /\ x7' \in [Bookings -> Seen]
            /\ \A d \in Bookings : x6'[d] = (IF d = c.on THEN "absent" ELSE x6[d])
            /\ \A d \in Bookings : x7'[d] = (IF d = c.on THEN "absent" ELSE x7[d])
        BY <1>0, <2>1, <3>3 DEF TravelerInv, T!Without, Seen
      <4>2. x16 = 0 => x11 = {}
        BY <1>0 DEF TravelerInv
      <4> QED BY <1>0, <2>1, <3>1, <3>3, <4>1, <4>2 DEF TravelerInv
    <3> QED BY <1>14, <2>3, <3>2, <3>3 DEF T!Cancelled
  <2> QED BY <1>14, <2>2, <2>3 DEF T!Cancelled, T!CancelsRow
<1>15. ASSUME NEW c \in x12, c.op # "cancel", T!Hearted(c) PROVE TravelerInv'
  <2>1. x12' = x12 \ {c} /\ UNCHANGED <<x1, x4, x5, x6, x7, x9, x10, x11, x13, x14, x15, x16, x18>>
    BY <1>15 DEF T!Hearted
  <2>2. x16 = 0 => x11 = {} /\ x12' = {}
    BY <1>0, <2>1 DEF TravelerInv
  <2>3. x16 = 0 => \A e \in Experiences :
          (e \in x17 \/ (e \in x8 <=> e \in x2)) => (e \in x17' \/ (e \in x8' <=> e \in x2'))
    <3> SUFFICES ASSUME x16 = 0
                 PROVE  \A e \in Experiences :
                          (e \in x17 \/ (e \in x8 <=> e \in x2)) => (e \in x17' \/ (e \in x8' <=> e \in x2'))
      OBVIOUS
    <3>1. IF c.op = "heart" THEN c.next = T!Flip(x8, c.on) ELSE c.next = {}
      BY <1>0, <1>15 DEF TravelerInv
    <3>2. \/ T!Wishes(c) /\ x8' = T!NextHearts(c) /\ x17' = x17 \ {c.on}
          \/ T!Wishes(c) /\ x8' = x8 /\ x17' = x17 \cup {c.on}
          \/ UNCHANGED <<x2, x8, x17>>
      BY <1>15 DEF T!Hearted, T!HeartSet
    <3> QED BY <3>1, <3>2 DEF T!Wishes, T!NextHearts, T!Flip
  <2> QED BY <1>0, <2>1, <2>2, <2>3 DEF TravelerInv
\* A change is given up, and carried out then.
<1>16. ASSUME NEW c \in x12, T!GiveUp(c) PROVE TravelerInv'
  <2>1. /\ x12' = x12 \ {c} /\ x18' = x18 \cup {c}
        /\ UNCHANGED <<x1, x2, x4, x5, x6, x7, x8, x9, x10, x11, x13, x14, x15, x16, x17>>
    BY <1>16 DEF T!GiveUp, T!tables, T!screen
  <2> QED BY <1>0, <2>1 DEF TravelerInv
<1>17. ASSUME NEW c \in x18, T!ServeLate(c) PROVE TravelerInv'
  <2>1. /\ x18' \subseteq x18
        /\ UNCHANGED <<x4, x5, x6, x7, x8, x9, x10, x11, x12, x13, x14, x15, x16>>
    BY <1>17 DEF T!ServeLate, T!screen
  <2>2. CASE c.op = "cancel" /\ T!CancelsRow(c) /\ UNCHANGED <<x2, x17>>
    <3>1. c.on \in Bookings
      BY <1>0, <2>2 DEF TravelerInv
    <3>2. /\ x1' \in [Bookings -> T!Statuses]
          /\ \A d \in Bookings : x1[d] = "cancelled" => x1'[d] = "cancelled"
      BY <1>0, <2>2, <3>1 DEF TravelerInv, T!Statuses, T!CancelsRow
    <3> QED BY <1>0, <2>1, <2>2, <3>2 DEF TravelerInv
  <2>3. CASE T!Wishes(c) /\ x17' = x17 \cup {c.on} /\ x1' = x1
    <3>1. \A e \in Experiences \ x17' : e \in x2' <=> e \in x2
      BY <2>3 DEF T!Wishes
    <3> QED BY <1>0, <2>1, <2>3, <3>1 DEF TravelerInv
  <2>4. CASE UNCHANGED <<x1, x2, x17>>
    BY <1>0, <2>1, <2>4 DEF TravelerInv
  <2> QED BY <1>17, <2>2, <2>3, <2>4 DEF T!ServeLate, T!tables
<1> QED
  BY <1>1, <1>2, <1>4, <1>5, <1>7, <1>8, <1>9, <1>10, <1>11, <1>12, <1>13, <1>14, <1>15, <1>16, <1>17
     DEF T!Next

-----------------------------------------------------------------------------
(* The guide's lists.                                                     *)

OnSale == G!Listings \cup {"absent"}

GuideAsk(a) ==
  /\ a.listing \in [Experiences -> OnSale]
  /\ a.what = "rows" => a.key \in G!Filters

GuideCall(c) ==
  /\ c.op \in {"toggle", "delete"} => c.on \in Experiences
  /\ c.op = "toggle" => c.to \in G!Listings

\* The rows, and those on their way, are of the filter; of the listings nobody else
\* changed, those shown and those on their way are the service's.
GuideListsInv ==
  /\ x1 \in [Experiences -> OnSale] /\ x5 \in [Experiences -> OnSale]
  /\ x4 \in G!Filters /\ x8 \in Experiences \cup {None} /\ x16 \in Nat
  /\ \A a \in x10 : GuideAsk(a)
  /\ \A c \in x11 \cup x17 : GuideCall(c)
  /\ x16 = 0 =>
       /\ x10 = {} \/ x11 = {}
       /\ \A a, b \in x10 : a = b
       /\ \A c, d \in x11 : c = d
       /\ \A a \in x10 : /\ a.what = "rows" => a.key = x4
                         /\ a.what = "listings" => \A e \in Experiences \ x13 : a.listing[e] = x1[e]
       /\ \A c \in x11 : c.op = "toggle" => x5[c.on] # "absent"
       /\ "rows" \notin x12 /\ (\A a \in x10 : a.what # "rows") =>
            \A b \in Bookings : x6[b] \in {G!StatusOf[x4], "absent"}
       /\ "listings" \in x15 \ x12 /\ (\A a \in x10 : a.what # "listings") =>
            \A e \in Experiences \ x13 : x5[e] = x1[e]

LEMMA GuideAsks ==
  ASSUME NEW what, NEW key, NEW l \in [Experiences -> OnSale], what = "rows" => key \in G!Filters
  PROVE  /\ G!AskOf(what, key, l).what = what /\ G!AskOf(what, key, l).key = key
         /\ G!AskOf(what, key, l).listing = l
         /\ GuideAsk(G!AskOf(what, key, l))
BY DEF G!AskOf, GuideAsk

LEMMA GuideListsStart == G!Init => GuideListsInv
<1> SUFFICES ASSUME G!Init PROVE GuideListsInv
  OBVIOUS
<1>1. /\ x1 \in [Experiences -> OnSale] /\ x5 \in [Experiences -> OnSale]
      /\ x3 = "experiences" /\ x4 = "upcoming" /\ x8 = None /\ x16 = 0 /\ x11 = {} /\ x12 = {} /\ x13 = {}
      /\ x17 = {} /\ \A b \in Bookings : x6[b] = "absent"
  BY DEF G!Init, OnSale, G!Listings
<1> DEFINE ask == G!AskOf("listings", x3, x1)
<1>2. ask.what = "listings" /\ ask.listing = x1 /\ GuideAsk(ask)
  BY <1>1, GuideAsks
<1>3. G!TabAsks(x3, x4) = {ask}
  BY <1>1 DEF G!TabAsks, G!Ask
<1>4. x10 = {a \in {ask} : a.what \in x15}
  BY <1>3 DEF G!Init
<1> HIDE DEF ask
<1> QED BY <1>1, <1>2, <1>4 DEF GuideListsInv, G!Filters

LEMMA GuideListsStep == GuideListsInv /\ G!Next => GuideListsInv'
<1> SUFFICES ASSUME GuideListsInv, G!Next PROVE GuideListsInv'
  OBVIOUS
<1>0. GuideListsInv
  OBVIOUS
<1>1. ASSUME NEW a \in x10, G!Arrive(a) PROVE GuideListsInv'
  <2>1. x10' = x10 \ {a} /\ UNCHANGED <<x1, x4, x8, x11, x15, x16, x17>>
    BY <1>1 DEF G!Arrive, G!tables
  <2>2. CASE x12' = x12 \cup {a.what} /\ UNCHANGED <<x5, x6, x13>>
    BY <1>0, <2>1, <2>2 DEF GuideListsInv
  <2>3. CASE /\ x12' = x12 \ {a.what} /\ a.what = "listings" /\ x5' \in {a.listing, x1}
             /\ x13' = {e \in x13 : x5'[e] # x1[e]} /\ x6' = x6
    <3>1. x5' \in [Experiences -> OnSale] /\ x13' \subseteq x13
      BY <1>0, <2>3 DEF GuideListsInv, GuideAsk
    <3>2. x16 = 0 => \A e \in Experiences : e \in x13' \/ x5'[e] = x1[e]
      BY <1>0, <2>3 DEF GuideListsInv
    <3>3. x16 = 0 => x10' = {}
      BY <1>0, <2>1 DEF GuideListsInv
    <3> QED BY <1>0, <2>1, <2>3, <3>1, <3>2, <3>3 DEF GuideListsInv
  <2>4. CASE /\ x12' = x12 \ {a.what} /\ a.what = "rows" /\ UNCHANGED <<x5, x13>>
             /\ \E b \in {a.booked, x2} : x6' = G!List(b, G!StatusOf[a.key])
    <3>1. \A b \in Bookings : x6'[b] \in {G!StatusOf[a.key], "absent"}
      BY <2>4 DEF G!List
    <3> QED BY <1>0, <2>1, <2>4, <3>1 DEF GuideListsInv
  <2> QED BY <1>1, <2>2, <2>3, <2>4 DEF G!Arrive
\* What the guide does that asks for nothing.
<1>2. ASSUME UNCHANGED <<x1, x4, x5, x6, x10, x11, x12, x13, x15, x17>>,
             x8' \in Experiences \cup {None}, x16' = x16 \/ x16' = x16 + 1
      PROVE  GuideListsInv'
  BY <1>0, <1>2 DEF GuideListsInv
<1>3. CASE G!Type \/ G!Cancel \/ G!KeepListing
  BY <1>0, <1>2, <1>3 DEF GuideListsInv, G!Type, G!Cancel, G!KeepListing, G!Act, G!tables, G!history
<1>4. ASSUME NEW e \in Experiences \cup {None}, G!OpenForm(e) PROVE GuideListsInv'
  BY <1>0, <1>2, <1>4 DEF GuideListsInv, G!OpenForm, G!Act, G!tables, G!history
<1>5. ASSUME NEW e \in Experiences, G!AskDelete(e) PROVE GuideListsInv'
  BY <1>2, <1>5 DEF G!AskDelete, G!Act, G!tables, G!history
\* A change is sent.
<1>6. ASSUME NEW call, GuideCall(call), x11' = x11 \cup {call},
             call.op = "toggle" => x5[call.on] # "absent",
             (x10 = {} /\ x11 = {} /\ x16' = x16) \/ x16' = x16 + 1,
             UNCHANGED <<x1, x4, x5, x6, x8, x10, x12, x13, x15, x17>>
      PROVE  GuideListsInv'
  BY <1>0, <1>6 DEF GuideListsInv
<1>7. CASE G!SaveForm
  <2> DEFINE call == [op |-> "save", on |-> x7.of, to |-> "none"]
  <2>1. call.op = "save" /\ x11' = x11 \cup {call}
    BY <1>7 DEF G!SaveForm
  <2> HIDE DEF call
  <2> QED BY <1>6, <1>7, <2>1 DEF GuideCall, G!SaveForm, G!Act, G!Quiet, G!tables, G!history
<1>8. ASSUME NEW e \in Experiences, G!Toggle(e) PROVE GuideListsInv'
  <2> DEFINE to == IF x5[e] = "active" THEN "inactive" ELSE "active"
             call == [op |-> "toggle", on |-> e, to |-> to]
  <2>1. call.op = "toggle" /\ call.on = e /\ call.to \in G!Listings
    BY DEF G!Listings
  <2>2. x11' = x11 \cup {call} /\ x5[e] # "absent"
    BY <1>8 DEF G!Toggle, G!Offers
  <2> HIDE DEF call
  <2> QED BY <1>6, <1>8, <2>1, <2>2 DEF GuideCall, G!Toggle, G!Act, G!Quiet, G!tables, G!history
<1>9. CASE G!ConfirmDelete
  <2> DEFINE call == [op |-> "delete", on |-> x8, to |-> "none"]
  <2>1. call.op = "delete" /\ call.on = x8 /\ x8 \in Experiences
    BY <1>0, <1>9 DEF G!ConfirmDelete, GuideListsInv
  <2>2. x11' = x11 \cup {call}
    BY <1>9 DEF G!ConfirmDelete
  <2> HIDE DEF call
  <2> QED BY <1>6, <1>9, <2>1, <2>2 DEF GuideCall, G!ConfirmDelete, G!Act, G!Quiet, G!tables, G!screen, G!history
\* A list is asked for.
<1>10. ASSUME NEW ask, GuideAsk(ask), ask.what = "listings" => ask.listing = x1,
              ask.what = "rows" => ask.key = x4',
              x4' \in G!Filters, x4' = x4 \/ (ask.what = "rows" /\ ask \in x10'),
              x10 \subseteq x10', x10' \subseteq x10 \cup {ask},
              (x10 = {} /\ x11 = {} /\ x16' = x16) \/ x16' = x16 + 1,
              UNCHANGED <<x1, x5, x6, x8, x11, x12, x13, x15, x17>>
       PROVE  GuideListsInv'
  BY <1>0, <1>10 DEF GuideListsInv
<1>11. ASSUME NEW t \in G!Tabs, G!SelectTab(t) PROVE GuideListsInv'
  <2>1. /\ (x10 = {} /\ x11 = {} /\ x16' = x16) \/ x16' = x16 + 1
        /\ UNCHANGED <<x1, x4, x5, x6, x8, x11, x12, x13, x15, x17>> /\ x4 \in G!Filters
        /\ x1 \in [Experiences -> OnSale]
        /\ x10' = x10 \cup {a \in G!TabAsks(t, x4) : a.what \in x15}
    BY <1>0, <1>11 DEF GuideListsInv, G!SelectTab, G!Act, G!Quiet, G!tables, G!history, G!Send
  <2>2. CASE t = "experiences"
    <3> DEFINE ask == G!AskOf("listings", t, x1)
    <3>1. GuideAsk(ask) /\ ask.what = "listings" /\ ask.listing = x1
      BY <2>1, GuideAsks
    <3>2. G!TabAsks(t, x4) = {ask}
      BY <2>2 DEF G!TabAsks, G!Ask
    <3> HIDE DEF ask
    <3>3. x10 \subseteq x10' /\ x10' \subseteq x10 \cup {ask}
      BY <2>1, <3>2
    <3> QED BY <1>10, <2>1, <3>1, <3>3
  <2>3. CASE t = "bookings"
    <3> DEFINE ask == G!AskOf("rows", x4, x1)
    <3>1. GuideAsk(ask) /\ ask.what = "rows" /\ ask.key = x4
      BY <2>1, GuideAsks
    <3>2. G!TabAsks(t, x4) = {ask}
      BY <2>3 DEF G!TabAsks, G!Ask
    <3> HIDE DEF ask
    <3>3. x10 \subseteq x10' /\ x10' \subseteq x10 \cup {ask}
      BY <2>1, <3>2
    <3> QED BY <1>10, <2>1, <3>1, <3>3
  <2>4. CASE t \notin {"experiences", "bookings"}
    <3>1. x10' = x10
      BY <2>1, <2>4 DEF G!TabAsks
    <3> QED BY <1>0, <1>2, <2>1, <3>1 DEF GuideListsInv
  <2> QED BY <2>2, <2>3, <2>4
<1>12. ASSUME NEW f \in G!Filters, G!SelectFilter(f) PROVE GuideListsInv'
  <2>1. /\ (x10 = {} /\ x11 = {} /\ x16' = x16) \/ x16' = x16 + 1
        /\ UNCHANGED <<x1, x5, x6, x8, x11, x12, x13, x15, x17>> /\ x4' = f
        /\ x1 \in [Experiences -> OnSale] /\ x3 = "bookings" /\ "rows" \in x15
        /\ x10' = x10 \cup {a \in G!TabAsks(x3, f) : a.what \in x15}
    BY <1>0, <1>12 DEF GuideListsInv, G!SelectFilter, G!Act, G!Quiet, G!tables, G!history, G!Send
  <2> DEFINE ask == G!AskOf("rows", f, x1)
  <2>2. GuideAsk(ask) /\ ask.what = "rows" /\ ask.key = f
    BY <2>1, GuideAsks
  <2>3. G!TabAsks(x3, f) = {ask}
    BY <2>1 DEF G!TabAsks, G!Ask
  <2> HIDE DEF ask
  <2>4. x10' = x10 \cup {ask}
    BY <2>1, <2>2, <2>3
  <2> QED BY <1>10, <2>1, <2>2, <2>4
\* A change is answered: the list is as it was, or is read again.
<1>13. ASSUME NEW c \in x11, x11' = x11 \ {c}, x1' \in [Experiences -> OnSale],
              UNCHANGED <<x4, x5, x6, x12, x15, x16>>, x17' \subseteq x17 \cup {c}, x8' \in Experiences \cup {None}, x13 \subseteq x13',
              \/ x10' = x10 /\ \A e \in Experiences \ x13' : x1'[e] = x1[e]
              \/ x10' = x10 \cup {a \in {G!AskOf("listings", "experiences", x1')} : a.what \in x15}
       PROVE  GuideListsInv'
  <2>1. x16 = 0 => x10 = {} /\ x11' = {}
    BY <1>0, <1>13 DEF GuideListsInv
  <2>2. CASE x10' = x10 /\ \A e \in Experiences \ x13' : x1'[e] = x1[e]
    BY <1>0, <1>13, <2>1, <2>2 DEF GuideListsInv
  <2>3. CASE x10' = x10 \cup {a \in {G!AskOf("listings", "experiences", x1')} : a.what \in x15}
    <3> DEFINE ask == G!AskOf("listings", "experiences", x1')
    <3>1. GuideAsk(ask) /\ ask.what = "listings" /\ ask.listing = x1'
      BY <1>13, GuideAsks
    <3> HIDE DEF ask
    <3>2. x10' = x10 \cup {a \in {ask} : a.what \in x15}
      BY <2>3 DEF ask
    <3>3. x10' \subseteq x10 \cup {ask} /\ ("listings" \in x15 => ask \in x10')
      BY <3>1, <3>2
    <3> QED BY <1>0, <1>13, <2>1, <3>1, <3>3 DEF GuideListsInv
  <2> QED BY <1>13, <2>2, <2>3
<1>14. ASSUME NEW c \in x11, G!FormSaved(c) PROVE GuideListsInv'
  <2>1. /\ x11' = x11 \ {c} /\ UNCHANGED <<x4, x5, x6, x8, x12, x15, x16, x17>>
        /\ x1 \in [Experiences -> OnSale] /\ x8 \in Experiences \cup {None}
    BY <1>0, <1>14 DEF GuideListsInv, G!FormSaved
  <2>2. CASE UNCHANGED <<x1, x10, x13>>
    BY <1>13, <2>1, <2>2
  <2>3. ASSUME NEW e \in Experiences, G!Stores(c, e),
               (G!ReadAgain(c) /\ x13' = x13) \/ (x10' = x10 /\ x13' = x13 \cup {e})
        PROVE  GuideListsInv'
    <3>1. x1' \in [Experiences -> OnSale] /\ \A d \in Experiences \ {e} : x1'[d] = x1[d]
      BY <2>1, <2>3 DEF G!Stores, OnSale, G!Listings
    <3>2. CASE G!ReadAgain(c) /\ x13' = x13
      BY <1>13, <2>1, <3>1, <3>2 DEF G!ReadAgain, G!Send
    <3>3. CASE x10' = x10 /\ x13' = x13 \cup {e}
      BY <1>13, <2>1, <3>1, <3>3
    <3> QED BY <2>3, <3>2, <3>3
  <2>4. \/ UNCHANGED <<x1, x10, x13>>
        \/ \E e \in Experiences :
             /\ G!Stores(c, e)
             /\ (G!ReadAgain(c) /\ x13' = x13) \/ (x10' = x10 /\ x13' = x13 \cup {e})
    <3>1. G!NotSaved => x10' = x10
      BY DEF G!NotSaved
    <3> QED BY <1>14, <3>1 DEF G!FormSaved
  <2> QED BY <2>2, <2>3, <2>4
<1>15. ASSUME NEW c \in x11, c.op = "delete", G!Deleted(c) PROVE GuideListsInv'
  <2>1. /\ x11' = x11 \ {c} /\ UNCHANGED <<x4, x5, x6, x12, x15, x16, x17>> /\ c.on \in Experiences
        /\ x1 \in [Experiences -> OnSale] /\ x8 \in Experiences \cup {None}
    BY <1>0, <1>15 DEF GuideListsInv, GuideCall, G!Deleted
  <2>2. CASE UNCHANGED <<x1, x8, x10, x13>>
    BY <1>13, <2>1, <2>2
  <2>3. CASE x1' = [x1 EXCEPT ![c.on] = "absent"]
    <3>1. /\ x1' \in [Experiences -> OnSale]
          /\ \A e \in Experiences \ {c.on} : x1'[e] = x1[e]
      BY <2>1, <2>3 DEF OnSale
    <3>2. CASE x8' = None /\ G!ReadAgain(c) /\ x13' = x13
      BY <1>13, <2>1, <3>1, <3>2 DEF G!ReadAgain, G!Send
    <3>3. CASE x13' = x13 \cup {c.on} /\ UNCHANGED <<x8, x10>>
      BY <1>13, <2>1, <3>1, <3>3
    <3> QED BY <1>15, <2>2, <2>3, <3>2, <3>3 DEF G!Deleted
  <2> QED BY <1>15, <2>2, <2>3 DEF G!Deleted
<1>16. ASSUME NEW c \in x11, c.op = "toggle", G!Toggled(c) PROVE GuideListsInv'
  <2>1. /\ x11' = x11 \ {c} /\ UNCHANGED <<x4, x6, x8, x10, x12, x15, x16, x17>>
        /\ c.on \in Experiences /\ c.to \in G!Listings
        /\ x1 \in [Experiences -> OnSale] /\ x8 \in Experiences \cup {None}
    BY <1>0, <1>16 DEF GuideListsInv, GuideCall, G!Toggled
  <2>2. CASE UNCHANGED <<x1, x5, x13>>
    BY <1>13, <2>1, <2>2
  <2>3. CASE x1' = [x1 EXCEPT ![c.on] = c.to] /\ x13' = x13 \cup {c.on} /\ x5' = x5
    <3>1. /\ x1' \in [Experiences -> OnSale]
          /\ \A e \in Experiences \ {c.on} : x1'[e] = x1[e]
      BY <2>1, <2>3 DEF OnSale
    <3> QED BY <1>13, <2>1, <2>3, <3>1
  <2>4. CASE x1' = [x1 EXCEPT ![c.on] = c.to] /\ x13' = x13 /\ x5' = G!Show(c)
    <3>1. /\ x1' \in [Experiences -> OnSale] /\ x1'[c.on] = c.to
          /\ \A e \in Experiences \ {c.on} : x1'[e] = x1[e]
      BY <2>1, <2>4 DEF OnSale
    <3>2. /\ x5' \in [Experiences -> OnSale]
          /\ x5[c.on] # "absent" => x5'[c.on] = c.to
          /\ \A e \in Experiences \ {c.on} : x5'[e] = x5[e]
      BY <1>0, <2>1, <2>4 DEF GuideListsInv, G!Show, OnSale
    <3>3. x16 = 0 => x10 = {} /\ x11' = {} /\ x5[c.on] # "absent"
      BY <1>0, <1>16, <2>1 DEF GuideListsInv
    <3> QED BY <1>0, <2>1, <2>4, <3>1, <3>2, <3>3 DEF GuideListsInv
  <2> QED BY <1>16, <2>2, <2>3, <2>4 DEF G!Toggled
<1>17. ASSUME NEW e \in Experiences, G!Decide(e) PROVE GuideListsInv'
  <2>1. /\ x1' = [x1 EXCEPT ![e] = "active"] /\ x13' = x13 \cup {e}
        /\ UNCHANGED <<x4, x5, x6, x8, x10, x11, x12, x15, x16, x17>>
    BY <1>17 DEF G!Decide, G!screen
  <2>2. /\ x1' \in [Experiences -> OnSale]
        /\ \A d \in Experiences \ x13' : x1'[d] = x1[d]
    BY <1>0, <2>1 DEF GuideListsInv, OnSale, G!Listings
  <2>3. x13 \subseteq x13'
    BY <2>1
  <2> QED BY <1>0, <2>1, <2>2, <2>3 DEF GuideListsInv
<1>18. ASSUME NEW b \in Bookings, G!Complete(b) PROVE GuideListsInv'
  BY <1>0, <1>2, <1>18 DEF GuideListsInv, G!Complete, G!screen, G!history
\* A change is given up, and carried out then.
<1>19. ASSUME NEW c \in x11, G!GiveUp(c) PROVE GuideListsInv'
  <2>1. /\ x11' = x11 \ {c} /\ x17' = x17 \cup {c}
        /\ UNCHANGED <<x1, x4, x5, x6, x8, x10, x12, x13, x15, x16>>
        /\ x1 \in [Experiences -> OnSale] /\ x8 \in Experiences \cup {None}
    BY <1>0, <1>19 DEF GuideListsInv, G!GiveUp, G!NotSaved, G!tables
  <2> QED BY <1>13, <2>1
<1>20. ASSUME NEW c \in x17, G!ServeLate(c) PROVE GuideListsInv'
  <2>1. /\ x17' = x17 \ {c}
        /\ UNCHANGED <<x4, x5, x6, x8, x10, x11, x12, x15, x16>>
    BY <1>20 DEF G!ServeLate, G!screen
  <2>2. CASE UNCHANGED <<x1, x13>>
    BY <1>0, <2>1, <2>2 DEF GuideListsInv
  <2>3. ASSUME NEW e \in Experiences, x13' = x13 \cup {e},
               x1' \in [Experiences -> OnSale], \A d \in Experiences \ {e} : x1'[d] = x1[d]
        PROVE  GuideListsInv'
    BY <1>0, <2>1, <2>3 DEF GuideListsInv
  <2>4. ASSUME NEW e \in Experiences, G!Stores(c, e), x13' = x13 \cup {e} PROVE GuideListsInv'
    <3>1. x1' \in [Experiences -> OnSale] /\ \A d \in Experiences \ {e} : x1'[d] = x1[d]
      BY <1>0, <2>4 DEF GuideListsInv, G!Stores, OnSale, G!Listings
    <3> QED BY <2>3, <2>4, <3>1
  <2>5. ASSUME NEW e \in Experiences, x13' = x13 \cup {e},
               x1' = [x1 EXCEPT ![e] = IF c.op = "toggle" THEN c.to ELSE "absent"]
        PROVE  GuideListsInv'
    <3>1. c.op = "toggle" => c.to \in G!Listings
      BY <1>0, <1>20 DEF GuideListsInv, GuideCall
    <3>2. x1' \in [Experiences -> OnSale] /\ \A d \in Experiences \ {e} : x1'[d] = x1[d]
      BY <1>0, <2>5, <3>1 DEF GuideListsInv, OnSale
    <3> QED BY <2>3, <2>5, <3>2
  <2> QED BY <1>20, <2>2, <2>4, <2>5 DEF G!ServeLate
<1> QED
  BY <1>1, <1>3, <1>4, <1>5, <1>7, <1>8, <1>9, <1>11, <1>12, <1>14, <1>15, <1>16, <1>17, <1>18,
     <1>19, <1>20 DEF G!Next

-----------------------------------------------------------------------------
(* The trip planner page.                                                 *)

\* Until a call fails or Enter overtakes an answer, one call is made at a time, and
\* its answer, once it is there, is the itinerary as it is stored.
PlannerCall(c) ==
  /\ DOMAIN c = {"op", "no", "on", "answer", "gone"}
  /\ ~c.gone
  /\ c.answer = <<>> \/ x1[c.answer[1]] = c.answer[2]

PlannerInv ==
  /\ x8 \in Nat /\ x7 \in BOOLEAN
  /\ x8 = 0 /\ ~x7 =>
       /\ \A c, d \in x6 : c = d
       /\ x6 # {} => x4
       /\ \A c \in x6 : PlannerCall(c)
       /\ x6 = {} /\ x2 # R!Nothing => x1[x2[1]] = x2[2]

LEMMA PlannerCallMade ==
  ASSUME NEW op, NEW no, NEW on
  PROVE  PlannerCall(R!Call(op, no, on))
BY DEF PlannerCall, R!Call

LEMMA PlannerStarts == R!Init => PlannerInv
<1> SUFFICES ASSUME R!Init PROVE PlannerInv
  OBVIOUS
<1>1. x7 = FALSE /\ x8 = 0 /\ x2 = R!Nothing
  BY DEF R!Init
<1>2. x6 = {} \/ (x6 = {R!Call("load", 0, 1)} /\ x4 = TRUE)
  BY DEF R!Init
<1> QED BY <1>1, <1>2, PlannerCallMade DEF PlannerInv

LEMMA PlannerStep == PlannerInv /\ R!Next => PlannerInv'
<1> SUFFICES ASSUME PlannerInv, R!Next PROVE PlannerInv'
  OBVIOUS
<1>0. PlannerInv
  OBVIOUS
<1>1. ASSUME NEW op, NEW no, NEW on, R!Start(R!Call(op, no, on)), UNCHANGED <<x1, x2, x7>>,
             (x8' = x8 /\ (x8 = 0 /\ ~x7 => x6 = {})) \/ x8' = x8 + 1
      PROVE  PlannerInv'
  <2>1. x6' = x6 \cup {R!Call(op, no, on)} /\ x4' = TRUE
    BY <1>1 DEF R!Start
  <2>2. PlannerCall(R!Call(op, no, on))'
    <3> DEFINE c == R!Call(op, no, on)
    <3>1. PlannerCall(c) /\ x1' = x1
      BY <1>1, PlannerCallMade
    <3> HIDE DEF c
    <3> QED BY <3>1 DEF PlannerCall, c
  <2> QED BY <1>0, <1>1, <2>1, <2>2 DEF PlannerInv
<1>2. CASE R!Generate
  <2>1. R!Start(R!Call("generate", x8, 0)) /\ UNCHANGED <<x1, x2, x7>> /\ x8' = x8 /\ ~x4
    BY <1>2 DEF R!Generate
  <2>2. x8 = 0 /\ ~x7 => x6 = {}
    BY <1>0, <2>1 DEF PlannerInv
  <2> QED BY <1>1, <2>1, <2>2
<1>3. CASE R!Type
  BY <1>0, <1>3 DEF R!Type, PlannerInv, PlannerCall
<1>4. CASE R!Modify
  BY <1>0, <1>1, <1>4 DEF R!Modify, PlannerInv, PlannerCall, R!Awaited
<1>5. ASSUME NEW c \in x6, R!Serve(c) PROVE PlannerInv'
  <2> SUFFICES ASSUME x8 = 0, ~x7 PROVE PlannerInv'
    BY <1>0, <1>5 DEF R!Serve, PlannerInv
  <2>1. x6 = {c} /\ PlannerCall(c) /\ R!Awaited \cap {c} = {c}
    BY <1>0 DEF PlannerInv, PlannerCall, R!Awaited
  <2> DEFINE i0 == IF c.op = "generate" THEN R!Cardinality(R!Itineraries) + 1 ELSE c.on
             v0 == CASE c.op = "generate" -> 1
                     [] c.op = "modify"   -> x1[i0] + 1
                     [] c.op = "load"     -> x1[i0]
  <2>a. PICK i, v : i = i0 /\ v = v0
    OBVIOUS
  <2>2. /\ x1' = [j \in R!Itineraries \cup {i} |-> IF j = i THEN v ELSE x1[j]]
        /\ x6' = (x6 \ {c}) \cup {[d EXCEPT !.answer = <<i, v>>] : d \in {c} \cap R!Awaited}
        /\ UNCHANGED <<x2, x3, x4, x5, x7, x8>>
    BY <1>5, <2>a DEF R!Serve
  <2> HIDE DEF i0, v0
  <2> DEFINE new == [c EXCEPT !.answer = <<i, v>>]
  <2>3. x6' = {new}
    BY <2>1, <2>2
  <2>4. /\ DOMAIN new = {"op", "no", "on", "answer", "gone"} /\ ~new.gone
        /\ new.answer = <<i, v>>
    BY <2>1 DEF PlannerCall
  <2>5. x1'[i] = v
    BY <2>2
  <2> HIDE DEF new
  <2>6. PlannerCall(new)'
    BY <2>4, <2>5 DEF PlannerCall
  <2> QED BY <1>0, <2>1, <2>2, <2>3, <2>6 DEF PlannerInv
<1>6. ASSUME NEW c \in x6, R!Answered(c) PROVE PlannerInv'
  BY <1>0, <1>6 DEF R!Answered, R!Show, PlannerInv, PlannerCall
<1>7. ASSUME NEW c \in x6, R!Failed(c) PROVE PlannerInv'
  BY <1>0, <1>7 DEF R!Failed, PlannerInv
<1> QED BY <1>2, <1>3, <1>4, <1>5, <1>6, <1>7 DEF R!Next

-----------------------------------------------------------------------------
(* The booking form.                                                      *)

\* A call names the people of the form it was sent from, and what is to be paid is
\* not paid yet, unless an answer was lost.
CheckoutInv ==
  /\ x3.people \in Nat \ {0} /\ x4 \in {"select", "payment", "confirmed"}
  /\ x9 \in [Notes -> Nat] /\ x10 \in [Notes -> [times : Nat, amount : Nat]]
  /\ x11 \in BOOLEAN /\ x12 \in Nat
  /\ x7.op \in {"none", "create", "pay"} /\ x7.people \in Nat
  /\ x7.op = "none" => x7 = K!NoCall
  /\ x7.op # "none" => x7.people # 0
  /\ x7.op = "create" => x4 = "select"
  /\ x7.op = "pay" => x4 = "payment"
  /\ x4 = "payment" => x5 \in Notes /\ x9[x5] # 0
  /\ \A b \in Notes : x9[b] = 0 => x10[b].times = 0
  /\ x6 # None => x6 \in Notes /\ x10[x6].times > 0
  /\ ~x11 => /\ x4 = "payment" => x10[x5].times = 0
             /\ \A b \in Notes : x10[b].times <= 1
  /\ x12 = 0 => /\ x7.op # "none" => x7.people = x3.people
                /\ x4 = "payment" => x9[x5] = x3.people
                /\ \A b \in Notes : x10[b].times > 0 => x10[b].amount = x9[b]

LEMMA CheckoutStarts == K!Init => CheckoutInv
<1> SUFFICES ASSUME K!Init PROVE CheckoutInv
  OBVIOUS
<1>1. /\ x3.people = 1 /\ x4 = "select" /\ x6 = None /\ x12 = 0
      /\ x7 = K!NoCall /\ x7.op = "none" /\ x7.people = 0
  BY DEF K!Init, K!NoChoice, K!NoCall
<1>2. x11 \in BOOLEAN
  BY DEF K!Init
<1>3. /\ x9 \in [Notes -> Nat] /\ x10 \in [Notes -> [times : Nat, amount : Nat]]
      /\ \A b \in Notes : x10[b].times = 0
  BY DEF K!Init, K!Unpaid
<1>4. \A b \in Notes : x10[b].times <= 1 /\ ~(x10[b].times > 0)
  BY <1>3
<1> QED BY <1>1, <1>2, <1>3, <1>4 DEF CheckoutInv

\* What the service does with a call.
LEMMA CheckoutServed ==
  ASSUME CheckoutInv, NEW b \in Notes \cup {x5}, K!Served(b)
  PROVE  /\ b \in Notes /\ x7.op # "none"
         /\ x9' \in [Notes -> Nat] /\ x10' \in [Notes -> [times : Nat, amount : Nat]]
         /\ x7.op = "create" =>
              /\ x10' = x10 /\ x10[b].times = 0 /\ x9'[b] = x7.people
              /\ \A d \in Notes \ {b} : x9'[d] = x9[d]
         /\ x7.op = "pay" =>
              /\ x9' = x9 /\ b = x5 /\ x10'[b].times = x10[b].times + 1 /\ x10'[b].amount = x7.people
              /\ \A d \in Notes \ {b} : x10'[d] = x10[d]
<1>1. CASE x7.op = "create"
  <2>1. b \in Notes /\ x9[b] = 0 /\ x9' = [x9 EXCEPT ![b] = x7.people] /\ x10' = x10
    BY <1>1 DEF K!Served, K!Unmade
  <2> QED BY <1>1, <2>1 DEF CheckoutInv
<1>2. CASE x7.op = "pay"
  <2> DEFINE new == [times |-> x10[b].times + 1, amount |-> x7.people]
  <2>1. b = x5 /\ b \in Notes /\ x10' = [x10 EXCEPT ![b] = new] /\ x9' = x9
    BY <1>2 DEF K!Served, CheckoutInv
  <2>2. x10[b] \in [times : Nat, amount : Nat] /\ x7.people \in Nat
    BY <2>1 DEF CheckoutInv
  <2>3. /\ new \in [times : Nat, amount : Nat]
        /\ new.times = x10[b].times + 1 /\ new.amount = x7.people
    BY <2>2
  <2> HIDE DEF new
  <2> QED BY <1>2, <2>1, <2>3 DEF CheckoutInv
<1> QED BY <1>1, <1>2 DEF K!Served

\* A call that is served while the page goes back to its first step, or fails.
LEMMA CheckoutTables ==
  ASSUME CheckoutInv, NEW b \in Notes, K!Served(b)
  PROVE  /\ x9' \in [Notes -> Nat] /\ x10' \in [Notes -> [times : Nat, amount : Nat]]
         /\ \A d \in Notes : x9'[d] = 0 => x10'[d].times = 0
         /\ \A d \in Notes : x10[d].times > 0 => x10'[d].times > 0
         /\ \A d \in Notes : x9[d] # 0 => x9'[d] = x9[d]
         /\ ~x11 => \A d \in Notes : x10'[d].times <= 1
         /\ x12 = 0 => \A d \in Notes : x10'[d].times > 0 => x10'[d].amount = x9'[d]
<1>1. \A d \in Notes : x10[d].times \in Nat /\ x9[d] \in Nat
  BY DEF CheckoutInv
<1>a. x9' \in [Notes -> Nat] /\ x10' \in [Notes -> [times : Nat, amount : Nat]] /\ x7.people # 0
  BY CheckoutServed DEF CheckoutInv
<1>2. CASE x7.op = "create"
  <2>1. /\ x10' = x10 /\ x10[b].times = 0 /\ x9'[b] = x7.people
        /\ \A d \in Notes \ {b} : x9'[d] = x9[d]
    BY <1>2, CheckoutServed
  <2>2. x9[b] = 0
    BY <1>2 DEF K!Served, K!Unmade
  <2> QED BY <1>1, <1>a, <2>1, <2>2 DEF CheckoutInv
<1>3. CASE x7.op = "pay"
  <2>1. /\ x9' = x9 /\ b = x5 /\ x10'[b].times = x10[b].times + 1 /\ x10'[b].amount = x7.people
        /\ \A d \in Notes \ {b} : x10'[d] = x10[d]
    BY <1>3, CheckoutServed
  <2>2. x4 = "payment"
    BY <1>3 DEF CheckoutInv
  <2> QED BY <1>1, <1>a, <1>3, <2>1, <2>2 DEF CheckoutInv
<1> QED BY <1>2, <1>3 DEF K!Served

LEMMA CheckoutStep == CheckoutInv /\ K!Next => CheckoutInv'
<1> SUFFICES ASSUME CheckoutInv, K!Next PROVE CheckoutInv'
  OBVIOUS
<1>0. CheckoutInv
  OBVIOUS
<1>1. CASE K!Load
  BY <1>0, <1>1 DEF K!Load, CheckoutInv
<1>2. ASSUME NEW s \in Days, NEW n \in 1..MaxPeople, K!Choose(s, n) PROVE CheckoutInv'
  <2>1. x3'.people = n /\ n \in Nat \ {0}
    BY <1>2 DEF K!Choose
  <2>2. /\ x4 = "select" /\ UNCHANGED <<x4, x5, x6, x7, x9, x10, x11>>
        /\ (x7 = K!NoCall /\ x12' = x12) \/ x12' = x12 + 1
    BY <1>2 DEF K!Choose, K!Loading
  <2>3. K!NoCall.op = "none"
    BY DEF K!NoCall
  <2> QED BY <1>0, <2>1, <2>2, <2>3 DEF CheckoutInv
<1>3. ASSUME NEW op \in {"create", "pay"}, x7' = [op |-> op, people |-> x3.people],
             op = "create" => x4 = "select", op = "pay" => x4 = "payment",
             UNCHANGED <<x3, x4, x5, x6, x9, x10, x11, x12>>
      PROVE  CheckoutInv'
  <2>1. x7'.op = op /\ x7'.people = x3.people
    BY <1>3
  <2> QED BY <1>0, <1>3, <2>1 DEF CheckoutInv
<1>4. CASE K!Continue
  BY <1>3, <1>4 DEF K!Continue
<1>5. CASE K!Pay
  BY <1>3, <1>5 DEF K!Pay
<1>6. CASE K!Back
  <2>1. x4 = "payment" /\ x4' = "select" /\ x7 = K!NoCall
        /\ UNCHANGED <<x3, x5, x6, x7, x9, x10, x11, x12>>
    BY <1>6 DEF K!Back, K!Loading
  <2>2. K!NoCall.op = "none"
    BY DEF K!NoCall
  <2> QED BY <1>0, <2>1, <2>2 DEF CheckoutInv
<1>7. /\ K!NoCall.op = "none" /\ K!NoCall.people = 0
  BY DEF K!NoCall
<1>8. ASSUME NEW b \in Notes, K!Created(b) PROVE CheckoutInv'
  <2>1. /\ x7.op = "create" /\ K!Served(b) /\ x5' = b /\ x4' = "payment" /\ x7' = K!NoCall
        /\ UNCHANGED <<x3, x6, x11, x12>>
    BY <1>8 DEF K!Created
  <2>2. x10' = x10 /\ x10[b].times = 0 /\ x9'[b] = x7.people
    BY <2>1, CheckoutServed
  <2>3. /\ x9' \in [Notes -> Nat] /\ x10' \in [Notes -> [times : Nat, amount : Nat]]
        /\ \A d \in Notes : x9'[d] = 0 => x10'[d].times = 0
        /\ ~x11 => \A d \in Notes : x10'[d].times <= 1
        /\ x12 = 0 => \A d \in Notes : x10'[d].times > 0 => x10'[d].amount = x9'[d]
    BY <2>1, CheckoutTables
  <2> QED BY <1>0, <1>7, <2>1, <2>2, <2>3 DEF CheckoutInv
<1>9. CASE K!Paid
  <2>1. /\ x7.op = "pay" /\ K!Served(x5) /\ x6' = x5 /\ x4' = "confirmed" /\ x7' = K!NoCall
        /\ UNCHANGED <<x3, x5, x11, x12>> /\ x5 \in Notes
    BY <1>0, <1>9 DEF K!Paid, CheckoutInv
  <2>2. x10'[x5].times = x10[x5].times + 1 /\ x10[x5].times \in Nat
    BY <1>0, <2>1, CheckoutServed DEF CheckoutInv
  <2>3. /\ x9' \in [Notes -> Nat] /\ x10' \in [Notes -> [times : Nat, amount : Nat]]
        /\ \A d \in Notes : x9'[d] = 0 => x10'[d].times = 0
        /\ ~x11 => \A d \in Notes : x10'[d].times <= 1
        /\ x12 = 0 => \A d \in Notes : x10'[d].times > 0 => x10'[d].amount = x9'[d]
    BY <2>1, CheckoutTables
  <2> QED BY <1>0, <1>7, <2>1, <2>2, <2>3 DEF CheckoutInv
<1>10. CASE K!Failed
  <2>1. x7' = K!NoCall /\ UNCHANGED <<x3, x4, x5, x6, x12>>
    BY <1>10 DEF K!Failed, K!Refused
  <2>2. CASE UNCHANGED <<x9, x10, x11>>
    BY <1>0, <1>7, <2>1, <2>2 DEF CheckoutInv
  <2>3. ASSUME NEW b \in Notes, K!Served(b), x11' = TRUE PROVE CheckoutInv'
    <3>1. /\ x9' \in [Notes -> Nat] /\ x10' \in [Notes -> [times : Nat, amount : Nat]]
          /\ \A d \in Notes : x9'[d] = 0 => x10'[d].times = 0
          /\ \A d \in Notes : x10[d].times > 0 => x10'[d].times > 0
          /\ \A d \in Notes : x9[d] # 0 => x9'[d] = x9[d]
          /\ x12 = 0 => \A d \in Notes : x10'[d].times > 0 => x10'[d].amount = x9'[d]
      BY <2>3, CheckoutTables
    <3> QED BY <1>0, <1>7, <2>1, <2>3, <3>1 DEF CheckoutInv
  <2> QED BY <1>10, <2>2, <2>3 DEF K!Failed
<1>11. CASE K!Revisit
  <2>1. /\ x7' = K!NoCall /\ x3'.people = 1 /\ x4' = "select" /\ x6' = None
        /\ UNCHANGED <<x11, x12>>
    BY <1>11 DEF K!Revisit, K!NoChoice
  <2>2. /\ x9' \in [Notes -> Nat] /\ x10' \in [Notes -> [times : Nat, amount : Nat]]
        /\ \A d \in Notes : x9'[d] = 0 => x10'[d].times = 0
        /\ ~x11 => \A d \in Notes : x10'[d].times <= 1
        /\ x12 = 0 => \A d \in Notes : x10'[d].times > 0 => x10'[d].amount = x9'[d]
    <3>1. CASE UNCHANGED <<x9, x10>>
      BY <1>0, <3>1 DEF CheckoutInv
    <3>2. ASSUME NEW b \in Notes, K!Served(b)
          PROVE  /\ x9' \in [Notes -> Nat] /\ x10' \in [Notes -> [times : Nat, amount : Nat]]
                 /\ \A d \in Notes : x9'[d] = 0 => x10'[d].times = 0
                 /\ ~x11 => \A d \in Notes : x10'[d].times <= 1
                 /\ x12 = 0 => \A d \in Notes : x10'[d].times > 0 => x10'[d].amount = x9'[d]
      BY <3>2, CheckoutTables
    <3> QED BY <1>11, <3>1, <3>2 DEF K!Revisit
  <2> QED BY <1>0, <1>7, <2>1, <2>2 DEF CheckoutInv
<1>12. CASE K!SignOut
  BY <1>0, <1>12 DEF K!SignOut, K!visit, CheckoutInv
<1> QED
  BY <1>1, <1>2, <1>4, <1>5, <1>6, <1>8, <1>9, <1>10, <1>11, <1>12 DEF K!Next, K!People

-----------------------------------------------------------------------------
(* The search page.                                                       *)

\* With the answers in, the list is that of the controls and the page, which is one
\* of the pages found; and so is the one page that is on its way.
SearchInv ==
  /\ x1 \in [F!Accepted -> Totals] /\ x3 \in Nat \ {0} /\ x4 \in Nat /\ x9 \in Nat
  /\ x9 = 0 =>
       /\ \A a \in x7 : a = <<x2, x3>> /\ (x3 = 1 \/ (x2 \in F!Accepted /\ x3 <= x1[x2]))
       /\ x7 = {} /\ x5 # F!Nothing =>
            x5 = <<x2, x3>> /\ x2 \in F!Accepted /\ x4 = x1[x2] /\ x3 <= x4
       /\ x7 = {} /\ x8 = FALSE /\ x5 = F!Nothing => x2 \in F!Accepted /\ x1[x2] = 0

LEMMA PagesInOrder ==
  ASSUME NEW n \in Nat, NEW from \in 1..n, NEW to \in Int, to <= n
  PROVE  F!Pages(from, to) \in Seq(0..n)
<1>1. CASE to - from + 1 < 0
  <2>1. 1..(to - from + 1) = 1..0
    BY <1>1
  <2>2. F!Pages(from, to) = [i \in 1..0 |-> from + i - 1]
    BY <2>1 DEF F!Pages
  <2> QED BY <2>2
<1>2. CASE to - from + 1 >= 0
  <2> DEFINE m == to - from + 1
  <2>1. m \in Nat
    BY <1>2
  <2>2. \A i \in 1..m : from + i - 1 \in 0..n
    OBVIOUS
  <2> HIDE DEF m
  <2>3. [i \in 1..m |-> from + i - 1] \in [1..m -> 0..n]
    BY <2>2
  <2> QED BY <2>1, <2>3 DEF F!Pages, m
<1> QED BY <1>1, <1>2

\* Whatever has a button is one of the pages found.
LEMMA ButtonsInRange ==
  ASSUME NEW n \in Nat, n > 1, NEW p \in Nat, p >= 1, p <= n
  PROVE  \A i \in DOMAIN F!PaginationRange(p, n) : F!PaginationRange(p, n)[i] \in 0..n
<1>1. F!PaginationRange(p, n) \in Seq(0..n)
  <2>1. CASE n <= F!MAX_PAGE_BUTTONS
    BY <2>1, PagesInOrder DEF F!PaginationRange
  <2>2. CASE ~(n <= F!MAX_PAGE_BUTTONS)
    <3> DEFINE left == F!Greater(2, p - 2)
               right == F!Lesser(n - 1, p + 2)
               dots1 == IF left > 2 THEN <<F!Dots>> ELSE <<>>
               dots2 == IF right < n - 1 THEN <<F!Dots>> ELSE <<>>
    <3>1. left \in 1..n /\ right \in Int /\ right <= n
      BY <2>2 DEF F!Greater, F!Lesser, F!MAX_PAGE_BUTTONS
    <3>2. F!Pages(left, right) \in Seq(0..n)
      BY <3>1, PagesInOrder
    <3>3. dots1 \in Seq(0..n) /\ dots2 \in Seq(0..n)
      <4>1. <<F!Dots>> \in Seq(0..n) /\ <<>> \in Seq(0..n)
        BY DEF F!Dots
      <4> HIDE DEF left, right
      <4>2. dots1 \in {<<F!Dots>>, <<>>} /\ dots2 \in {<<F!Dots>>, <<>>}
        OBVIOUS
      <4> QED BY <4>1, <4>2
    <3>4. <<1>> \in Seq(0..n) /\ <<n>> \in Seq(0..n)
      OBVIOUS
    <3>5. F!PaginationRange(p, n) = <<1>> \o dots1 \o F!Pages(left, right) \o dots2 \o <<n>>
      BY <2>2 DEF F!PaginationRange
    <3> HIDE DEF left, right, dots1, dots2
    <3> QED BY <3>2, <3>3, <3>4, <3>5
  <2> QED BY <2>1, <2>2
<1> QED BY <1>1

LEMMA SearchStarts == F!Init => SearchInv
<1> SUFFICES ASSUME F!Init PROVE SearchInv
  OBVIOUS
<1>1. /\ x1 \in [F!Accepted -> Totals] /\ x3 = 1 /\ x4 = 0 /\ x9 = 0
      /\ x7 = {<<x2, 1>>}
  BY DEF F!Init
<1>2. /\ x7 # {} /\ \A a \in x7 : a = <<x2, x3>>
      /\ x3 \in Nat \ {0} /\ x4 \in Nat /\ x9 \in Nat
  BY <1>1
<1> QED BY <1>1, <1>2, Zenon DEF SearchInv

LEMMA SearchStep == SearchInv /\ F!Next => SearchInv'
<1> SUFFICES ASSUME SearchInv, F!Next PROVE SearchInv'
  OBVIOUS
<1>0. SearchInv
  OBVIOUS
<1>1. ASSUME NEW c, NEW p \in Nat \ {0}, x2' = c, x3' = p, x7' = x7 \cup {<<c, p>>},
             UNCHANGED <<x1, x4, x5, x8>>,
             (x7 = {} /\ x9' = x9) \/ x9' = x9 + 1,
             x9 = 0 /\ x7 = {} => p = 1 \/ (c \in F!Accepted /\ p <= x1[c])
      PROVE  SearchInv'
  <2>1. x7' # {}
    BY <1>1
  <2>2. x9' \in Nat /\ (x9' = 0 => x9 = 0 /\ x7 = {} /\ x7' = {<<c, p>>})
    BY <1>0, <1>1 DEF SearchInv
  <2> QED BY <1>0, <1>1, <2>1, <2>2 DEF SearchInv
<1>2. ASSUME NEW c, F!Change(c) PROVE SearchInv'
  <2>1. /\ x2' = c /\ x3' = 1 /\ x7' = x7 \cup {<<c, 1>>} /\ UNCHANGED <<x1, x4, x5, x8>>
        /\ (x7 = {} /\ x9' = x9) \/ x9' = x9 + 1
    BY <1>2 DEF F!Change, F!FirstPage, F!Fetch, F!Act
  <2> QED BY <1>1, <2>1
<1>3. ASSUME NEW p \in 1..(x4 + 1), F!Turn(p) PROVE SearchInv'
  <2>1. /\ x2' = x2 /\ x3' = p /\ x7' = x7 \cup {<<x2, p>>} /\ UNCHANGED <<x1, x4, x5, x8>>
        /\ (x7 = {} /\ x9' = x9) \/ x9' = x9 + 1
    BY <1>3 DEF F!Turn, F!Fetch, F!Act
  <2>2. p \in Nat \ {0}
    BY <1>0 DEF SearchInv
  <2>3. ASSUME x9 = 0, x7 = {} PROVE x2 \in F!Accepted /\ p <= x1[x2]
    <3>1. x5 # F!Nothing /\ ~(x4 <= 1)
      BY <1>3 DEF F!Turn, F!Buttons
    <3>2. x2 \in F!Accepted /\ x3 \in Nat \ {0} /\ x4 = x1[x2] /\ x3 <= x4 /\ x4 \in Nat
      BY <1>0, <2>3, <3>1 DEF SearchInv
    <3>3. p <= x4
      <4>1. CASE p \in F!Buttons
        <5>1. PICK i \in DOMAIN F!PaginationRange(x3, x4) : p = F!PaginationRange(x3, x4)[i]
          BY <3>1, <4>1 DEF F!Buttons
        <5>2. F!PaginationRange(x3, x4)[i] \in 0..x4
          BY <3>1, <3>2, ButtonsInRange
        <5> QED BY <3>2, <5>1, <5>2
      <4>2. CASE p = F!Greater(1, x3 - 1) \/ p = F!Lesser(x4, x3 + 1)
        BY <3>1, <3>2, <4>2 DEF F!Greater, F!Lesser
      <4> QED BY <1>3, <4>1, <4>2 DEF F!Turn
    <3> QED BY <3>2, <3>3
  <2> QED BY <1>1, <2>1, <2>2, <2>3
<1>4. ASSUME NEW a \in x7, F!Answered(a) PROVE SearchInv'
  <2>1. /\ a[1] \in F!Accepted /\ x7' = x7 \ {a} /\ x4' = x1[a[1]]
        /\ x5' = IF a[2] <= x1[a[1]] THEN a ELSE F!Nothing
        /\ UNCHANGED <<x1, x2, x3, x9>>
    BY <1>4 DEF F!Answered
  <2>2. x1[a[1]] \in Totals /\ x1[a[1]] \in Nat
    BY <1>0, <2>1, StorefrontAssumption DEF SearchInv
  <2>3. CASE x9 = 0
    <3>1. a = <<x2, x3>> /\ (x3 = 1 \/ x3 <= x1[x2]) /\ x7' = {}
      BY <1>0, <2>1, <2>3 DEF SearchInv
    <3>2. a[1] = x2 /\ a[2] = x3 /\ a # F!Nothing
      BY <3>1 DEF F!Nothing
    <3> HIDE DEF F!Nothing
    <3>3. x3 \in Nat \ {0} /\ x9 \in Nat
      BY <1>0 DEF SearchInv
    <3>4. x5' # F!Nothing => x5' = <<x2, x3>> /\ x3 <= x1[x2]
      BY <2>1, <3>1, <3>2
    <3>5. x5' = F!Nothing => x1[x2] = 0
      BY <2>1, <2>2, <3>1, <3>2, <3>3
    <3> QED BY <1>0, <2>1, <2>2, <3>1, <3>2, <3>3, <3>4, <3>5 DEF SearchInv
  <2>4. CASE x9 # 0
    BY <1>0, <2>1, <2>2, <2>4 DEF SearchInv
  <2> QED BY <2>3, <2>4
<1>5. ASSUME NEW a \in x7, F!Failed(a) PROVE SearchInv'
  <2>1. /\ x7' = x7 \ {a} /\ x5' = F!Nothing /\ x8' = TRUE /\ UNCHANGED <<x1, x2, x3, x4, x9>>
    BY <1>5 DEF F!Failed
  <2> QED BY <1>0, <2>1 DEF SearchInv
<1> QED
  BY <1>2, <1>3, <1>4, <1>5 DEF F!Next, F!SearchBar, F!FilterDrawer, F!ClearFilters

LEMMA SearchFits == SearchInv => F!ResultsFitControls
BY DEF SearchInv, F!ResultsFitControls

-----------------------------------------------------------------------------
(* Recommendations: what is shown.                                        *)

Requested == [step : {"idle", "search", "rows"}, on : Items \cup {None}, at : Written]

\* What is found and what is shown already make one list, no longer than asked
\* for: empty before the search, and none of it the experience that is looked at.
\* Until something changes, it is as long when anything is left out, which is no nearer.
NearInv ==
  /\ x5 \in Requested /\ x11 \in Nat /\ x6 \cup x7 \subseteq Items
  /\ x11 = 0 => x4 = {} /\ x3 = x1 /\ x1 \in [Items -> Meanings]
  /\ x5.step # "rows" => x6 = {}
  /\ x5.step = "search" => x7 = {}
  /\ x5.step = "rows" => x5.on \notin x6 \cup x7
  /\ Cardinality(x6 \cup x7) <= feedLimit
  /\ x11 = 0 /\ x5.step = "rows" =>
       \A f \in V!Similar(x5.at) \ ({x5.on} \cup x6 \cup x7) :
         /\ Cardinality(x6 \cup x7) = feedLimit
         /\ \A e \in x6 \cup x7 : V!Distance(x3[e], x5.at) <= V!Distance(x3[f], x5.at)

\* What is kept of the nearest, one more than asked for and less the experience itself,
\* is no more than asked for, and as much when anything near is left out.
LEMMA NearestKept ==
  ASSUME IsFiniteSet(Items), NEW at, NEW on, NEW Nearest \in V!NearestOf(at, feedLimit + 1),
         NEW kept \in SUBSET (Nearest \ {on}),
         V!Cardinality(kept) = IF on \in Nearest THEN V!Cardinality(Nearest) - 1
                               ELSE IF V!Cardinality(Nearest) < feedLimit THEN V!Cardinality(Nearest) ELSE feedLimit,
         \A e \in kept, f \in (Nearest \ {on}) \ kept : V!Distance(x3[e], at) <= V!Distance(x3[f], at)
  PROVE  /\ kept \subseteq Items /\ Cardinality(kept) <= feedLimit
         /\ \A f \in V!Similar(at) \ ({on} \cup kept) :
              /\ Cardinality(kept) = feedLimit
              /\ \A e \in kept : V!Distance(x3[e], at) <= V!Distance(x3[f], at)
<1> DEFINE Sim == V!Similar(at)
<1>0. feedLimit \in Nat
  BY NumbersAssumption
<1>1. Nearest \subseteq Sim /\ Sim \subseteq Items /\ kept \subseteq Nearest /\ on \notin kept
  BY DEF V!NearestOf, V!Similar
<1>2. IsFiniteSet(Sim) /\ IsFiniteSet(Nearest) /\ IsFiniteSet(kept)
  BY <1>1, FS_Subset
<1>3. \A Set : V!Cardinality(Set) = Cardinality(Set)
  BY DEF V!Cardinality, Cardinality
<1>4. Cardinality(Nearest) = IF Cardinality(Sim) < feedLimit + 1 THEN Cardinality(Sim) ELSE feedLimit + 1
  BY <1>3 DEF V!NearestOf
<1>5. Cardinality(kept) = IF on \in Nearest THEN Cardinality(Nearest) - 1
                          ELSE IF Cardinality(Nearest) < feedLimit THEN Cardinality(Nearest) ELSE feedLimit
  BY <1>3
<1>6. \A e \in Nearest, f \in Sim \ Nearest : V!Distance(x3[e], at) <= V!Distance(x3[f], at)
  BY DEF V!NearestOf
<1> HIDE DEF Sim
<1>7. Cardinality(Sim) \in Nat /\ Cardinality(Nearest) \in Nat /\ Cardinality(kept) \in Nat
  BY <1>2, FS_CardinalityType
<1>8. Cardinality(kept) <= feedLimit
  BY <1>0, <1>4, <1>5, <1>7
<1>9. ASSUME NEW f \in Sim \ ({on} \cup kept)
      PROVE  /\ Cardinality(kept) = feedLimit
             /\ \A e \in kept : V!Distance(x3[e], at) <= V!Distance(x3[f], at)
  <2>1. \A e \in kept : V!Distance(x3[e], at) <= V!Distance(x3[f], at)
    BY <1>1, <1>6, <1>9
  \* One of the nearest is left out only if all that was asked for is kept.
  <2>2. CASE f \in Nearest
    <3>1. on \notin Nearest
      <4> SUFFICES ASSUME on \in Nearest PROVE FALSE
        OBVIOUS
      <4>1. IsFiniteSet(Nearest \ {on}) /\ Cardinality(Nearest \ {on}) = Cardinality(Nearest) - 1
        BY <1>2, FS_RemoveElement
      <4>2. kept \subseteq Nearest \ {on} /\ Cardinality(kept) = Cardinality(Nearest \ {on})
        BY <1>1, <1>5, <4>1
      <4>3. kept = Nearest \ {on}
        BY <4>1, <4>2, FS_Subset
      <4> QED BY <1>9, <2>2, <4>3
    <3>2. Cardinality(kept) # Cardinality(Nearest)
      BY <1>1, <1>2, <1>9, <2>2, FS_Subset
    <3> QED BY <1>0, <1>5, <1>7, <2>1, <3>1, <3>2
  <2>3. CASE f \notin Nearest
    <3>1. Cardinality(Nearest) < Cardinality(Sim)
      <4>1. Nearest # Sim /\ Nearest \subseteq Sim
        BY <1>1, <1>9, <2>3 DEF Sim
      <4>2. Cardinality(Nearest) <= Cardinality(Sim) /\ Cardinality(Nearest) # Cardinality(Sim)
        BY <1>2, <4>1, FS_Subset
      <4> QED BY <1>7, <4>2
    <3>2. Cardinality(Nearest) = feedLimit + 1
      BY <1>0, <1>4, <1>7, <3>1
    <3> QED BY <1>0, <1>5, <2>1, <3>2
  <2> QED BY <2>2, <2>3
<1> QED BY <1>1, <1>8, <1>9 DEF Sim

LEMMA NearStarts == V!Init => NearInv
<1> SUFFICES ASSUME V!Init PROVE NearInv
  OBVIOUS
<1>1. x1 \in [Items -> Meanings] /\ x3 = x1 /\ x4 = {} /\ x6 = {} /\ x7 = {} /\ x11 = 0
  BY DEF V!Init
<1>2. x5 \in Requested /\ x5.step = "idle"
  BY DEF V!Init, V!NotAsked, Requested, Written
<1>3. Cardinality(x6 \cup x7) <= feedLimit
  <2>1. x6 \cup x7 = {}
    BY <1>1
  <2> QED BY <2>1, FS_EmptySet, NumbersAssumption
<1> QED BY <1>1, <1>2, <1>3 DEF NearInv

LEMMA NearStep ==
  ASSUME IsFiniteSet(Items), None \notin Meanings
  PROVE  NearInv /\ x3 \in [Items -> Written] /\ V!Next => NearInv'
<1> SUFFICES ASSUME NearInv, x3 \in [Items -> Written], V!Next PROVE NearInv'
  OBVIOUS
<1>0. NearInv
  OBVIOUS
\* While a task is under way, or once something changed, the list need not be the nearest.
<1>1. ASSUME UNCHANGED <<x5, x6, x7>>, x11' \in Nat, x11' # 0 PROVE NearInv'
  BY <1>0, <1>1 DEF NearInv
<1>2. ASSUME NEW e \in Items, V!Ask(e) PROVE NearInv'
  <2>1. /\ x6 = {} /\ x6' = {} /\ x7' = {} /\ UNCHANGED <<x1, x3, x4, x11>>
    BY <1>0, <1>2 DEF NearInv, V!Ask, V!NotAsked
  <2>2. x5' \in Requested /\ x5'.step \in {"idle", "search"}
    <3>1. CASE x3[e] = None
      BY <1>2, <3>1 DEF V!Ask, V!NotAsked, Requested, Written
    <3>2. CASE x3[e] # None
      <4> DEFINE at == x3[e]
      <4>1. at \in Written
        OBVIOUS
      <4>2. x5' = [step |-> "search", on |-> e, at |-> at]
        BY <1>2, <3>2 DEF V!Ask
      <4> HIDE DEF at
      <4> QED BY <4>1, <4>2 DEF Requested
    <3> QED BY <3>1, <3>2
  <2>3. x6' \cup x7' = {} /\ Cardinality(x6' \cup x7') <= feedLimit
    <3>1. x6' \cup x7' = {}
      BY <2>1
    <3> QED BY <3>1, FS_EmptySet, NumbersAssumption
  <2> QED BY <1>0, <2>1, <2>2, <2>3 DEF NearInv
<1>3. ASSUME NEW e \in Items, V!ReadRow(e) PROVE NearInv'
  <2>1. /\ x5.step = "rows" /\ e \in x6 /\ x6' = x6 \ {e}
        /\ x7' = IF e \in V!Here THEN x7 \cup {e} ELSE x7
        /\ UNCHANGED <<x1, x3, x4, x5, x11>>
    BY <1>3 DEF V!ReadRow
  <2>2. x6' \cup x7' \subseteq x6 \cup x7
    BY <2>1
  <2>3. x11 = 0 => x6' \cup x7' = x6 \cup x7
    <3> SUFFICES ASSUME x11 = 0 PROVE e \in V!Here
      BY <2>1
    <3>1. x1[e] \in Meanings
      BY <1>0 DEF NearInv
    <3> QED BY <3>1 DEF V!Here
  <2>4. Cardinality(x6' \cup x7') <= feedLimit
    <3>1. IsFiniteSet(x6 \cup x7) /\ Cardinality(x6 \cup x7) <= feedLimit
      BY <1>0, FS_Subset DEF NearInv
    <3>2. IsFiniteSet(x6' \cup x7') /\ Cardinality(x6' \cup x7') <= Cardinality(x6 \cup x7)
      BY <2>2, <3>1, FS_Subset
    <3>3. Cardinality(x6' \cup x7') \in Nat /\ Cardinality(x6 \cup x7) \in Nat
      BY <3>1, <3>2, FS_CardinalityType
    <3> QED BY <3>1, <3>2, <3>3, NumbersAssumption
  <2> QED BY <1>0, <2>1, <2>2, <2>3, <2>4 DEF NearInv, V!Similar
<1>4. ASSUME V!searchSimilarExperiences PROVE NearInv'
  <2>1. /\ x5.step = "search" /\ x5' = [x5 EXCEPT !.step = "rows"] /\ UNCHANGED <<x1, x3, x4, x7, x11>>
    BY <1>4 DEF V!searchSimilarExperiences
  <2>2. x5' \in Requested /\ x5'.step = "rows" /\ x5'.on = x5.on /\ x5'.at = x5.at
    BY <1>0, <2>1, Zenon DEF NearInv, Requested
  <2>3. PICK Nearest \in V!NearestOf(x5.at, feedLimit + 1) :
          \E kept \in SUBSET (Nearest \ {x5.on}) :
            /\ V!Cardinality(kept) = IF x5.on \in Nearest THEN V!Cardinality(Nearest) - 1
                                     ELSE IF V!Cardinality(Nearest) < feedLimit THEN V!Cardinality(Nearest) ELSE feedLimit
            /\ \A e \in kept, f \in (Nearest \ {x5.on}) \ kept :
                 V!Distance(x3[e], x5.at) <= V!Distance(x3[f], x5.at)
            /\ x6' = kept
    BY <1>4 DEF V!searchSimilarExperiences
  <2>4. PICK kept \in SUBSET (Nearest \ {x5.on}) :
            /\ V!Cardinality(kept) = IF x5.on \in Nearest THEN V!Cardinality(Nearest) - 1
                                     ELSE IF V!Cardinality(Nearest) < feedLimit THEN V!Cardinality(Nearest) ELSE feedLimit
            /\ \A e \in kept, f \in (Nearest \ {x5.on}) \ kept :
                 V!Distance(x3[e], x5.at) <= V!Distance(x3[f], x5.at)
            /\ x6' = kept
    BY <2>3
  <2>6. /\ x6' \subseteq Items /\ Cardinality(x6') <= feedLimit
        /\ \A f \in V!Similar(x5.at) \ ({x5.on} \cup x6') :
             /\ Cardinality(x6') = feedLimit
             /\ \A e \in x6' : V!Distance(x3[e], x5.at) <= V!Distance(x3[f], x5.at)
    BY <2>4, NearestKept
  <2>7. x7' = {} /\ x6' \cup x7' = x6' /\ x5.on \notin x6'
    BY <1>0, <2>1, <2>4 DEF NearInv
  <2> QED BY <1>0, <2>1, <2>2, <2>6, <2>7 DEF NearInv, V!Similar
<1>5. CASE V!Answer
  <2>1. /\ x6 = {} /\ x6' = {} /\ UNCHANGED <<x1, x3, x4, x7, x11>> /\ x5' = V!NotAsked
    BY <1>5 DEF V!Answer
  <2>2. x5' \in Requested /\ x5'.step = "idle"
    BY <2>1 DEF V!NotAsked, Requested, Written
  <2> QED BY <1>0, <2>1, <2>2 DEF NearInv
<1>6. ASSUME NEW e \in Items, NEW t, V!Save(e, t) PROVE NearInv'
  BY <1>0, <1>1, <1>6 DEF NearInv, V!Save
<1>7. ASSUME NEW k \in x4,
             \/ V!generateEmbedding(k) \/ V!callOpenAIEmbeddings(k) \/ V!upsertExperienceEmbedding(k)
             \/ V!deleteExperienceEmbedding(k) \/ V!Fail(k)
      PROVE  NearInv'
  <2>1. UNCHANGED <<x5, x6, x7, x11>>
    BY <1>7 DEF V!generateEmbedding, V!callOpenAIEmbeddings, V!upsertExperienceEmbedding,
                V!deleteExperienceEmbedding, V!Fail
  <2>2. x11 \in Nat /\ x11 # 0
    BY <1>0 DEF NearInv
  <2> QED BY <1>1, <2>1, <2>2
<1>8. ASSUME NEW key, V!Expire(key) PROVE NearInv'
  BY <1>0, <1>1, <1>8 DEF NearInv, V!Expire
<1> QED BY <1>2, <1>3, <1>4, <1>5, <1>6, <1>7, <1>8 DEF V!Next

LEMMA NearestFit ==
  ASSUME IsFiniteSet(Items)
  PROVE  NearInv => V!NearestAreShown
<1> SUFFICES ASSUME NearInv PROVE V!NearestAreShown
  OBVIOUS
<1>1. \A Set : V!Cardinality(Set) = Cardinality(Set)
  BY DEF V!Cardinality, Cardinality
<1>2. x7 \cup x6 = x6 \cup x7 /\ V!Cardinality(x7 \cup x6) = Cardinality(x6 \cup x7)
  BY <1>1
<1> QED BY <1>2 DEF NearInv, V!NearestAreShown

-----------------------------------------------------------------------------
(* What the pages show.                                                    *)

\* A user who waits for the answers sees what the service keeps: a cancelled booking
\* is gone, hearts are the wishlist, listings, requests, notifications, preferences
\* and itineraries are as stored, and what is paid is what was booked; for any number
\* of rows and of answers overtaken (the pages of traveller, guide, administrator,
\* bell, preferences, planner, booking form and hearts).
THEOREM ChangesAppear == Spec => []ChangesAreShown
<1> DEFINE Inv == /\ part = "traveler" => TravelerInv
                  /\ part = "guide" => GuideListsInv
                  /\ part = "admin" => DecidedInv
                  /\ part = "bell" => BellInv
                  /\ part = "preferences" => PreferencesInv
                  /\ part = "planner" => PlannerInv
                  /\ part = "checkout" => CheckoutInv
                  /\ part = "hearts" => HeartsInv
<1>1. Init => Inv
  BY TravelerStarts, GuideListsStart, DecidedStarts, BellStarts, PreferencesStart,
     PlannerStarts, CheckoutStarts, HeartsStart DEF Init
<1>2. Inv /\ [Next]_vars => Inv'
  <2> SUFFICES ASSUME Inv, [Next]_vars PROVE Inv'
    OBVIOUS
  <2>1. part' = part
    BY DEF Next, vars
  <2>2. CASE UNCHANGED vars
    <3>1. UNCHANGED <<x1, x2, x3, x4, x5, x6, x7, x8, x9, x10, x11, x12, x13, x14, x15, x16, x17,
                     x18>>
      BY <2>2 DEF vars
    <3>2. TravelerInv => TravelerInv'
      BY <3>1 DEF TravelerInv
    <3>3. GuideListsInv => GuideListsInv'
      BY <3>1 DEF GuideListsInv
    <3>4. DecidedInv => DecidedInv'
      BY <3>1 DEF DecidedInv, A!Pending
    <3>5. BellInv => BellInv'
      BY <3>1 DEF BellInv
    <3>6. PreferencesInv => PreferencesInv'
      BY <3>1 DEF PreferencesInv
    <3>7. PlannerInv => PlannerInv'
      BY <3>1 DEF PlannerInv, PlannerCall
    <3>8. CheckoutInv => CheckoutInv'
      BY <3>1 DEF CheckoutInv
    <3>9. HeartsInv => HeartsInv'
      BY <3>1 DEF HeartsInv
    <3> QED BY <2>1, <3>2, <3>3, <3>4, <3>5, <3>6, <3>7, <3>8, <3>9
  <2>3. CASE Next /\ part = "traveler"
    BY <2>1, <2>3, TravelerStep DEF Next
  <2>4. CASE Next /\ part = "guide"
    BY <2>1, <2>4, GuideListsStep DEF Next
  <2>5. CASE Next /\ part = "admin"
    BY <2>1, <2>5, DecidedStep DEF Next
  <2>6. CASE Next /\ part = "bell"
    BY <2>1, <2>6, BellStep DEF Next
  <2>7. CASE Next /\ part = "preferences"
    BY <2>1, <2>7, PreferencesStep DEF Next
  <2>8. CASE Next /\ part = "planner"
    BY <2>1, <2>8, PlannerStep DEF Next
  <2>9. CASE Next /\ part = "checkout"
    BY <2>1, <2>9, CheckoutStep DEF Next
  <2>10. CASE Next /\ part = "hearts"
    BY <2>1, <2>10, HeartsStep DEF Next
  <2> QED BY <2>1, <2>2, <2>3, <2>4, <2>5, <2>6, <2>7, <2>8, <2>9, <2>10
<1>3. Inv => ChangesAreShown
  <2>1. TravelerInv => T!CancelledIsGone /\ T!HeartsAreWishlist
    BY DEF TravelerInv, T!CancelledIsGone, T!HeartsAreWishlist, T!Quiet
  <2>2. GuideListsInv => G!ListingsAgree
    BY DEF GuideListsInv, G!ListingsAgree, G!Quiet
  <2>3. DecidedInv => A!DecidedIsGone
    BY DEF DecidedInv, A!DecidedIsGone, A!Pending
  <2>4. BellInv => B!ShownReadIsRead
    BY DEF BellInv, B!ShownReadIsRead
  <2>5. PreferencesInv => P!SavedIsStored
    BY DEF PreferencesInv, P!SavedIsStored
  <2>6. PlannerInv => R!ShownIsStored
    BY DEF PlannerInv, PlannerCall, R!ShownIsStored, R!Awaited
  <2>7. CheckoutInv => K!PaidAsBooked
    BY DEF CheckoutInv, K!PaidAsBooked
  <2>8. HeartsInv => H!PressedHeartsAreSaved
    BY DEF HeartsInv, H!PressedHeartsAreSaved
  <2> HIDE DEF Inv
  <2>9. Inv => /\ part = "traveler" => T!CancelledIsGone /\ T!HeartsAreWishlist
               /\ part = "guide" => G!ListingsAgree
               /\ part = "admin" => A!DecidedIsGone
               /\ part = "bell" => B!ShownReadIsRead
               /\ part = "preferences" => P!SavedIsStored
               /\ part = "planner" => R!ShownIsStored
               /\ part = "checkout" => K!PaidAsBooked
               /\ part = "hearts" => H!PressedHeartsAreSaved
    BY <2>1, <2>2, <2>3, <2>4, <2>5, <2>6, <2>7, <2>8 DEF Inv
  <2> QED BY <2>9 DEF ChangesAreShown
<1> QED BY <1>1, <1>2, <1>3, PTL DEF Spec

\* A user who waits for the answers sees the rows of the filter, the experiences of the
\* tab and the page of results that are chosen, and of the experiences like a given one
\* the nearest: for any number of rows, searches and answers overtaken (the two
\* dashboards, the search page and the recommendations).
THEOREM ListsAreRight ==
  ASSUME IsFiniteSet(Items), None \notin Meanings
  PROVE  Spec => []ListsFitControls
<1> DEFINE Inv == /\ part = "traveler" => TravelerInv
                  /\ part = "guide" => GuideListsInv
                  /\ part = "search" => SearchInv
                  /\ part = "recommendations" => IndexInv /\ NearInv
<1>1. Init => Inv
  BY TravelerStarts, GuideListsStart, SearchStarts, IndexStarts, NearStarts DEF Init
<1>2. Inv /\ [Next]_vars => Inv'
  <2> SUFFICES ASSUME Inv, [Next]_vars PROVE Inv'
    OBVIOUS
  <2>1. part' = part
    BY DEF Next, vars
  <2>2. CASE UNCHANGED vars
    <3>1. UNCHANGED <<x1, x2, x3, x4, x5, x6, x7, x8, x9, x10, x11, x12, x13, x14, x15, x16, x17,
                     x18>>
      BY <2>2 DEF vars
    <3>2. TravelerInv => TravelerInv'
      BY <3>1 DEF TravelerInv
    <3>3. GuideListsInv => GuideListsInv'
      BY <3>1 DEF GuideListsInv
    <3>4. SearchInv => SearchInv'
      BY <3>1 DEF SearchInv
    <3>5. IndexInv => IndexInv'
      BY <3>1 DEF IndexInv
    <3>6. NearInv => NearInv'
      BY <3>1 DEF NearInv, V!Similar
    <3> QED BY <2>1, <3>2, <3>3, <3>4, <3>5, <3>6
  <2>3. CASE Next /\ part = "traveler"
    BY <2>1, <2>3, TravelerStep DEF Next
  <2>4. CASE Next /\ part = "guide"
    BY <2>1, <2>4, GuideListsStep DEF Next
  <2>5. CASE Next /\ part = "search"
    BY <2>1, <2>5, SearchStep DEF Next
  <2>6. CASE Next /\ part = "recommendations"
    <3>1. V!Next /\ IndexInv /\ NearInv
      BY <2>6 DEF Next
    <3>2. x3 \in [Items -> Written]
      BY <3>1 DEF IndexInv
    <3> QED BY <2>1, <2>6, <3>1, <3>2, IndexStep, NearStep
  <2> QED BY <2>1, <2>2, <2>3, <2>4, <2>5, <2>6
<1>3. Inv => ListsFitControls
  <2>1. TravelerInv => T!ListsFitControls
    BY DEF TravelerInv, T!ListsFitControls
  <2>2. GuideListsInv => G!RowsFitFilter
    BY DEF GuideListsInv, G!RowsFitFilter
  <2> HIDE DEF Inv
  <2>3. Inv => /\ part = "traveler" => T!ListsFitControls
               /\ part = "guide" => G!RowsFitFilter
               /\ part = "search" => F!ResultsFitControls
               /\ part = "recommendations" => V!NearestAreShown
    BY <2>1, <2>2, SearchFits, NearestFit DEF Inv
  <2> QED BY <2>3 DEF ListsFitControls
<1> QED BY <1>1, <1>2, <1>3, PTL DEF Spec

-----------------------------------------------------------------------------
(* The types of the pages and services. What an invariant above says is    *)
(* not said again: each part adds the types that its invariant leaves out. *)

\* The form of the preferences is saved by one call at a time.
LEMMA PreferencesTyped ==
  ASSUME MaxHurries \in Nat
  PROVE  /\ P!Init => P!TypeOK
         /\ P!TypeOK /\ P!Next => P!TypeOK'
<1>0. \A s : P!Cardinality(s) = Cardinality(s)
  BY DEF P!Cardinality, Cardinality
<1>c. P!Cardinality({}) <= 1 /\ \A s : P!Cardinality({s}) <= 1
  <2>1. P!Cardinality({}) = 0 /\ \A s : P!Cardinality({s}) = 1
    BY <1>0, FS_EmptySet, FS_Singleton, Zenon
  <2> QED BY <2>1
<1>1. ASSUME P!Init PROVE P!TypeOK
  <2>1. x5 \in BOOLEAN /\ x6 \in BOOLEAN /\ x7 \in BOOLEAN
    BY <1>1, Zenon DEF P!Init
  <2>2. x8 \in 0..MaxHurries /\ x1 \in SUBSET Toggles /\ x2 \in SUBSET Toggles
    BY <1>1 DEF P!Init
  <2> QED BY <1>1, <1>c, <2>1, <2>2 DEF P!Init, P!TypeOK
<1>2. ASSUME P!TypeOK, P!Next PROVE P!TypeOK'
  <2> USE <1>2 DEF P!TypeOK
  <2>1. ASSUME NEW t \in Toggles, P!Toggle(t) PROVE P!TypeOK'
    <3>1. (x2 \ {t}) \cup ({t} \ x2) \in SUBSET Toggles
      OBVIOUS
    <3>2. x5' \in BOOLEAN
      BY <2>1, Zenon DEF P!Toggle, P!Flip
    <3>3. x2' \in SUBSET Toggles
      BY <2>1, <3>1 DEF P!Toggle, P!Flip
    <3>4. x8' \in 0..MaxHurries
      BY <2>1 DEF P!Toggle
    <3> QED BY <2>1, <3>2, <3>3, <3>4 DEF P!Toggle
  <2>2. CASE P!Loaded
    BY <2>2 DEF P!Loaded
  <2>3. CASE P!Save
    BY <2>3, <1>c DEF P!Save
  <2>4. CASE P!Saved
    <3>1. x5' \in BOOLEAN /\ x6' \in BOOLEAN /\ x7' \in BOOLEAN
      BY <2>4 DEF P!Saved
    <3>2. x1' \in SUBSET Toggles /\ x9' \subseteq SUBSET Toggles
      BY <2>4 DEF P!Saved
    <3> QED BY <2>4, <1>c, <3>1, <3>2 DEF P!Saved
  <2>5. CASE P!Restart \/ P!Revisit
    BY <2>5 DEF P!Restart, P!Revisit
  <2>6. ASSUME NEW p \in x9, P!StoreLate(p) PROVE P!TypeOK'
    BY <2>6 DEF P!StoreLate
  <2> QED BY <1>2, <2>1, <2>2, <2>3, <2>4, <2>5, <2>6 DEF P!Next
<1> QED BY <1>1, <1>2

\* A heart is an experience's, and so is the call about it.
LEMMA HeartsTyped ==
  ASSUME MaxHurries \in Nat
  PROVE  /\ H!Init => H!TypeOK
         /\ H!TypeOK /\ H!Next => H!TypeOK'
<1>1. ASSUME H!Init PROVE H!TypeOK
  <2>1. x5 \in BOOLEAN
    BY <1>1, Zenon DEF H!Init
  <2>2. x6 \in 0..MaxHurries
    BY <1>1 DEF H!Init
  <2> QED BY <1>1, <2>1, <2>2 DEF H!Init, H!TypeOK
<1>2. ASSUME H!TypeOK, H!Next PROVE H!TypeOK'
  <2> USE <1>2 DEF H!TypeOK
  <2>1. ASSUME NEW e \in Experiences, H!Press(e) PROVE H!TypeOK'
    <3>1. [on |-> e, next |-> H!Flip(x2, e)] \in [on : Experiences, next : SUBSET Experiences]
      BY DEF H!Flip
    <3> QED BY <2>1, <3>1 DEF H!Press
  <2>2. ASSUME NEW c \in x3, H!Answered(c) PROVE H!TypeOK'
    BY <2>2 DEF H!Answered, H!Serve
  <2>3. CASE H!Load
    BY <2>3 DEF H!Load, H!Serve
  <2> QED BY <1>2, <2>1, <2>2, <2>3 DEF H!Next
<1> QED BY <1>1, <1>2

\* The invariant of the audit log says its types.
LEMMA AuditTyped == AuditType => U!TypeOK
BY DEF AuditType, U!TypeOK

\* The invariant of the session says its types.
LEMMA SessionTyped == SessionInv => S!TypeOK
BY DEF SessionInv, SessionCalls, S!TypeOK, S!Owners

\* A page of the search is one of its pages, whichever answer comes last.
LEMMA SearchTyped ==
  ASSUME MaxHurries \in Nat
  PROVE  /\ F!Init => F!TypeOK
         /\ F!TypeOK /\ F!Next => F!TypeOK'
<1>1. ASSUME F!Init PROVE F!TypeOK
  <2>1. x6 \in BOOLEAN /\ x8 \in BOOLEAN
    BY <1>1, Zenon DEF F!Init
  <2> QED BY <1>1, <2>1 DEF F!Init, F!TypeOK, F!Nothing
<1>2. ASSUME F!TypeOK, F!Next PROVE F!TypeOK'
  <2>0. F!TypeOK
    BY <1>2
  <2>t. /\ x2 \in F!Controls /\ x3 \in Nat \ {0} /\ x4 \in Nat
    BY <1>2, StorefrontAssumption DEF F!TypeOK
  <2>1. ASSUME NEW c \in F!Controls, F!Change(c) PROVE F!TypeOK'
    <3>1. x6' \in BOOLEAN /\ x8' = x8
      BY <2>1, Zenon DEF F!Change, F!FirstPage, F!Fetch
    <3>2. x9' \in 0..MaxHurries
      BY <2>0, <2>1 DEF F!Change, F!Act, F!TypeOK
    <3> QED BY <2>0, <2>1, <3>1, <3>2 DEF F!Change, F!FirstPage, F!Fetch, F!TypeOK
  <2>2. ASSUME NEW t \in Texts, F!SearchBar(t) PROVE F!TypeOK'
    <3>1. [x2 EXCEPT !.text = t] \in F!Controls
      BY <2>t DEF F!Controls
    <3> QED BY <2>1, <2>2, <3>1 DEF F!SearchBar
  <2>3. ASSUME NEW f \in Criteria, F!FilterDrawer(f) PROVE F!TypeOK'
    <3>1. [x2 EXCEPT !.filter = f] \in F!Controls
      BY <2>t DEF F!Controls
    <3> QED BY <2>1, <2>3, <3>1 DEF F!FilterDrawer
  <2>4. CASE F!ClearFilters
    <3>1. [x2 EXCEPT !.filter = NoFilter] \in F!Controls
      BY <2>t, StorefrontAssumption DEF F!Controls
    <3> QED BY <2>1, <2>4, <3>1 DEF F!ClearFilters
  <2>5. ASSUME NEW p \in 1..(x4 + 1), F!Turn(p) PROVE F!TypeOK'
    <3>1. x6' \in BOOLEAN /\ x8' = x8
      BY <2>5, Zenon DEF F!Turn, F!Fetch
    <3>2. x9' \in 0..MaxHurries
      BY <2>0, <2>5 DEF F!Turn, F!Act, F!TypeOK
    <3>3. p \in Nat \ {0}
      BY <2>t
    <3> QED BY <2>0, <2>5, <3>1, <3>2, <3>3 DEF F!Turn, F!Fetch, F!TypeOK
  <2>6. ASSUME NEW a \in x7, F!Answered(a) PROVE F!TypeOK'
    <3>1. x6' \in BOOLEAN /\ x8' \in BOOLEAN
      BY <2>6, Zenon DEF F!Answered
    <3>2. a \in F!Controls \X Nat /\ x4' \in Totals
      BY <2>0, <2>6 DEF F!Answered, F!TypeOK
    <3> QED BY <2>0, <2>6, <3>1, <3>2 DEF F!Answered, F!TypeOK
  <2>7. ASSUME NEW a \in x7, F!Failed(a) PROVE F!TypeOK'
    <3>1. x6' \in BOOLEAN /\ x8' \in BOOLEAN
      BY <2>7, Zenon DEF F!Failed
    <3> QED BY <2>0, <2>7, <3>1 DEF F!Failed, F!TypeOK
  <2> QED BY <1>2, <2>2, <2>3, <2>4, <2>5, <2>6, <2>7 DEF F!Next
<1> QED BY <1>1, <1>2

\* The page holds a stars' rating or none, and the form says whether it is sent.
ReviewTypes == x3 \in BOOLEAN /\ x5 \in BOOLEAN /\ x11 \in 0..MaxHurries

LEMMA ReviewTyped ==
  ASSUME MaxHurries \in Nat
  PROVE  /\ W!Init => ReviewTypes
         /\ ReviewTypes /\ W!Next => ReviewTypes'
         /\ ReviewInv /\ ReviewTypes => W!TypeOK
<1>1. ASSUME W!Init PROVE ReviewTypes
  <2>1. x3 \in BOOLEAN /\ x5 \in BOOLEAN
    BY <1>1, Zenon DEF W!Init
  <2> QED BY <1>1, <2>1 DEF W!Init, ReviewTypes
<1>2. ASSUME ReviewTypes, W!Next PROVE ReviewTypes'
  <2>1. x3' \in BOOLEAN /\ x5' \in BOOLEAN
    <3>1. x3 \in BOOLEAN /\ x5 \in BOOLEAN
      BY <1>2 DEF ReviewTypes
    <3> QED BY <1>2, <3>1 DEF W!Next, W!Open, W!Close, W!Type, W!Rate, W!SubmitModal, W!SubmitForm,
          W!screen, W!VisitDashboard, W!VisitForm, W!Visit, W!Answered, W!Told
  <2>2. x11' \in 0..MaxHurries
    <3>1. x11 \in 0..MaxHurries
      BY <1>2 DEF ReviewTypes
    <3> QED BY <1>2, <3>1 DEF W!Next, W!Open, W!Close, W!Type, W!Rate, W!SubmitModal, W!SubmitForm,
          W!Act, W!VisitDashboard, W!VisitForm, W!Visit, W!Answered
  <2> QED BY <2>1, <2>2 DEF ReviewTypes
<1>3. ReviewInv /\ ReviewTypes => W!TypeOK
  <2>1. ASSUME ReviewTypes PROVE x3 \in BOOLEAN /\ x5 \in BOOLEAN /\ x11 \in 0..MaxHurries
    BY <2>1, Zenon DEF ReviewTypes
  <2> QED BY <2>1 DEF ReviewInv, W!TypeOK
<1> QED BY <1>1, <1>2, <1>3

\* A payment is asked for only while one more may be made.
CheckoutTypes == K!TypeOK /\ (x7.op = "pay" => x10[x5].times < MaxPayments)

LEMMA CheckoutTyped ==
  ASSUME MaxHurries \in Nat
  PROVE  /\ K!Init => CheckoutTypes
         /\ CheckoutInv /\ CheckoutTypes /\ K!Next => CheckoutTypes'
<1>n. MaxPeople \in Nat \ {0} /\ MaxPayments \in Nat
  BY NumbersAssumption
<1>1. ASSUME K!Init PROVE CheckoutTypes
  <2>1. x8 \in BOOLEAN /\ x11 \in BOOLEAN
    BY <1>1, Zenon DEF K!Init
  <2> QED BY <1>n, <1>1, <2>1 DEF K!Init, CheckoutTypes, K!TypeOK, K!NoChoice, K!NoCall, K!Unpaid, K!People
<1>2. ASSUME CheckoutInv, CheckoutTypes, K!Next PROVE CheckoutTypes'
  <2>0. CheckoutInv /\ CheckoutTypes /\ K!TypeOK
    BY <1>2 DEF CheckoutTypes
  <2>b. x8 \in BOOLEAN /\ x11 \in BOOLEAN
    BY <1>n, <2>0, Zenon DEF K!TypeOK
  <2>1. CASE K!Load
    BY <1>n, <2>0, <2>1, <2>b DEF K!Load, CheckoutTypes, K!TypeOK
  <2>2. ASSUME NEW s \in Days, NEW n \in K!People, K!Choose(s, n) PROVE CheckoutTypes'
    <3>1. x12' \in 0..MaxHurries
      <4>1. x12 \in Nat
        BY <2>0 DEF CheckoutInv
      <4>2. x12' \in Nat /\ x12' <= MaxHurries
        BY <4>1, <2>2 DEF K!Choose
      <4> QED BY <4>2
    <3> QED BY <1>n, <2>0, <2>2, <2>b, <3>1 DEF K!Choose, CheckoutTypes, K!TypeOK
  <2>3. CASE K!Continue
    <3>1. x7' = [op |-> "create", people |-> x3.people] /\ x3.people \in 0..MaxPeople
      BY <1>n, <2>0, <2>3 DEF K!Continue, K!TypeOK, K!People
    <3> QED BY <1>n, <2>0, <2>3, <2>b, <3>1 DEF K!Continue, CheckoutTypes, K!TypeOK
  <2>4. CASE K!Pay
    <3>1. x7' = [op |-> "pay", people |-> x3.people] /\ x3.people \in 0..MaxPeople
      BY <1>n, <2>0, <2>4 DEF K!Pay, K!TypeOK, K!People
    <3> QED BY <1>n, <2>0, <2>4, <2>b, <3>1 DEF K!Pay, CheckoutTypes, K!TypeOK
  <2>5. CASE K!Back
    BY <1>n, <2>0, <2>5, <2>b DEF K!Back, CheckoutTypes, K!TypeOK
  \* The tables after the service did what was asked.
  <2>s. ASSUME NEW b \in Notes, K!Served(b)
        PROVE  /\ x9' \in [Notes -> 0..MaxPeople]
               /\ \A n \in Notes : x10'[n].times \in 0..MaxPayments /\ x10'[n].amount \in 0..MaxPeople
    <3>1. x7.people \in 0..MaxPeople /\ x9 \in [Notes -> 0..MaxPeople] /\ x10 \in [Notes -> [times : Nat, amount : Nat]]
      BY <2>0 DEF CheckoutInv, K!TypeOK
    <3>2. CASE x7.op = "create"
      <4>1. x9' = [x9 EXCEPT ![b] = x7.people] /\ x10' = x10
        BY <2>s, <3>2 DEF K!Served
      <4> QED BY <1>n, <2>0, <3>1, <4>1 DEF K!TypeOK
    <3>3. CASE x7.op = "pay"
      <4>1. x9' = x9 /\ b = x5 /\ x10' = [x10 EXCEPT ![b] = [times |-> @.times + 1, amount |-> x7.people]]
        BY <2>s, <3>3 DEF K!Served
      <4>2. x10[b].times \in Nat /\ x10[b].times < MaxPayments
        BY <1>n, <2>0, <3>1, <3>3, <4>1 DEF CheckoutTypes
      <4>3. x10'[b].times = x10[b].times + 1 /\ x10'[b].amount = x7.people
        BY <3>1, <4>1
      <4>4. \A n \in Notes \ {b} : x10'[n] = x10[n]
        BY <3>1, <4>1
      <4> QED BY <1>n, <2>0, <3>1, <4>1, <4>2, <4>3, <4>4 DEF K!TypeOK
    <3> QED BY <2>s, <3>2, <3>3 DEF K!Served
  <2>6. CASE K!Paid
    <3>1. x5 \in Notes
      BY <1>n, <2>0, <2>6 DEF K!Paid, CheckoutInv
    <3>2. /\ x9' \in [Notes -> 0..MaxPeople]
          /\ \A n \in Notes : x10'[n].times \in 0..MaxPayments /\ x10'[n].amount \in 0..MaxPeople
      BY <2>6, <2>s, <3>1 DEF K!Paid
    <3> QED BY <1>n, <2>0, <2>6, <2>b, <3>1, <3>2 DEF K!Paid, CheckoutTypes, K!TypeOK, K!NoCall
  <2>7. ASSUME NEW b \in Notes, K!Created(b) PROVE CheckoutTypes'
    <3>2. /\ x9' \in [Notes -> 0..MaxPeople]
          /\ \A n \in Notes : x10'[n].times \in 0..MaxPayments /\ x10'[n].amount \in 0..MaxPeople
      BY <2>7, <2>s DEF K!Created
    <3> QED BY <1>n, <2>0, <2>7, <2>b, <3>2 DEF K!Created, CheckoutTypes, K!TypeOK, K!NoCall
  <2>8. CASE K!Failed
    <3>1. x11' \in BOOLEAN
      BY <2>8, <2>b DEF K!Failed
    <3>2. /\ x9' \in [Notes -> 0..MaxPeople]
          /\ \A n \in Notes : x10'[n].times \in 0..MaxPayments /\ x10'[n].amount \in 0..MaxPeople
      <4>1. (x9' = x9 /\ x10' = x10) \/ \E b \in Notes : K!Served(b)
        BY <2>8 DEF K!Failed
      <4> QED BY <1>n, <2>0, <2>s, <4>1 DEF K!TypeOK
    <3> QED BY <1>n, <2>0, <2>8, <2>b, <3>1, <3>2 DEF K!Failed, K!Refused, CheckoutTypes, K!TypeOK, K!NoCall
  <2>9. CASE K!Revisit
    <3>2. /\ x9' \in [Notes -> 0..MaxPeople]
          /\ \A n \in Notes : x10'[n].times \in 0..MaxPayments /\ x10'[n].amount \in 0..MaxPeople
      <4>1. (x9' = x9 /\ x10' = x10) \/ \E b \in Notes : K!Served(b)
        BY <2>9 DEF K!Revisit
      <4> QED BY <1>n, <2>0, <2>s, <4>1 DEF K!TypeOK
    <3> QED BY <1>n, <2>0, <2>9, <2>b, <3>2 DEF K!Revisit, CheckoutTypes, K!TypeOK, K!NoCall, K!NoChoice, K!People
  <2>10. CASE K!SignOut
    BY <1>n, <2>0, <2>10, <2>b DEF K!SignOut, K!visit, CheckoutTypes, K!TypeOK
  <2> QED BY <1>2, <2>1, <2>2, <2>3, <2>4, <2>5, <2>6, <2>7, <2>8, <2>9, <2>10 DEF K!Next
<1> QED BY <1>1, <1>2

\* What the traveller's dashboard asks for, beside TravelerAsk.
TravelerTypes ==
  /\ T!TypeOK
  /\ \A a \in x11 : a.what = "discover" => a.key \in T!Modes
  /\ \A c \in x12 \cup x18 : c.op # "cancel" => c.on \in Experiences

LEMMA TravelerAsksTyped ==
  ASSUME T!TypeOK
  PROVE  \A k : \A w \in {"rows", "all", "wishlist", "discover"} :
            T!Ask(w, k).what = w /\ T!Ask(w, k).key = k /\ T!Ask(w, k).wished \subseteq Experiences
BY DEF T!Ask, T!TypeOK

LEMMA TravelerTyped ==
  ASSUME MaxHurries \in Nat
  PROVE  /\ T!Init => TravelerTypes
         /\ TravelerInv /\ TravelerInv' /\ TravelerTypes /\ T!Next => TravelerTypes'
<1>1. ASSUME T!Init PROVE TravelerTypes
  <2>1. /\ x2 \subseteq Experiences /\ x3 \in T!Tabs /\ x5 \in T!Modes /\ x8 \subseteq Experiences
        /\ x9 \in T!Modes \cup {"none"} /\ x12 = {} /\ x16 \in 0..MaxHurries /\ x13 = {}
        /\ x15 \in TravelerScenes /\ x14 = {} /\ x17 = {} /\ x18 = {}
    BY <1>1 DEF T!Init, T!Tabs, T!Modes
  <2>2. \A a \in x11 : /\ a.what \in {"rows", "all", "wishlist", "discover"} /\ a.wished \subseteq Experiences
                       /\ a.what = "discover" => a.key \in T!Modes
    <3>1. \A a \in x11 : a \in T!Effects
      BY <1>1 DEF T!Init
    <3> QED BY <2>1, <3>1 DEF T!Effects, T!Ask
  <2>3. TravelerInv
    BY <1>1, TravelerStarts
  <2> QED BY <2>1, <2>2, <2>3 DEF TravelerTypes, T!TypeOK, TravelerInv, T!Shown, Seen
<1>2. ASSUME TravelerInv, TravelerInv', TravelerTypes, T!Next PROVE TravelerTypes'
  <2>0. TravelerInv /\ TravelerInv' /\ TravelerTypes /\ T!TypeOK
    BY <1>2 DEF TravelerTypes
  \* What is left beside TravelerInv.
  <2>r. ASSUME /\ x2' \subseteq Experiences /\ x3' \in T!Tabs /\ x5' \in T!Modes /\ x8' \subseteq Experiences
               /\ x9' \in T!Modes \cup {"none"} /\ x16' \in 0..MaxHurries
               /\ x13' \subseteq {"rows", "all", "wishlist", "discover"} /\ x15' = x15
               /\ x17' \subseteq Experiences /\ x18' \subseteq x12 \cup x18,
               \A a \in x11' \ x11 : /\ a.what \in {"rows", "all", "wishlist", "discover"}
                                     /\ a.wished \subseteq Experiences
                                     /\ a.what = "discover" => a.key \in T!Modes,
               \A c \in x12' \ x12 : /\ c.op \in {"cancel", "heart", "unheart"}
                                     /\ c.next \subseteq Experiences
                                     /\ c.op # "cancel" => c.on \in Experiences
        PROVE  TravelerTypes'
    BY <2>0, <2>r DEF TravelerTypes, T!TypeOK, TravelerInv, T!Shown, Seen
  <2>a. /\ x2 \subseteq Experiences /\ x3 \in T!Tabs /\ x5 \in T!Modes /\ x8 \subseteq Experiences
        /\ x9 \in T!Modes \cup {"none"} /\ x16 \in 0..MaxHurries
        /\ x13 \subseteq {"rows", "all", "wishlist", "discover"}
        /\ \A a \in x11 : a.what \in {"rows", "all", "wishlist", "discover"} /\ a.wished \subseteq Experiences
        /\ \A a \in x11 : a.what = "discover" => a.key \in T!Modes
        /\ \A c \in x12 \cup x18 : /\ c.op \in {"cancel", "heart", "unheart"}
                                   /\ c.next \subseteq Experiences
                                   /\ c.op # "cancel" => c.on \in Experiences
        /\ x17 \subseteq Experiences
    BY <2>0 DEF TravelerTypes, T!TypeOK
  <2> HIDE DEF TravelerTypes
  <2>h. T!Act => x16' \in 0..MaxHurries
    BY <2>a DEF T!Act
  <2>1. ASSUME NEW a \in x11, T!Arrive(a) PROVE TravelerTypes'
    <3>1. x11' \subseteq x11 /\ x13' \subseteq x13 /\ x12' = x12
      BY <2>1 DEF T!Arrive
    <3>2. UNCHANGED <<x2, x3, x5, x15, x16, x18>> /\ x17' \subseteq x17
      BY <2>1 DEF T!Arrive, T!tables
    <3>3. x8' \subseteq Experiences /\ x9' \in T!Modes \cup {"none"}
      <4>1. (x8' = x8 \/ x8' \in {a.wished, x2}) /\ (x9' = x9 \/ (a.what = "discover" /\ x9' = a.key))
        BY <2>1 DEF T!Arrive
      <4> QED BY <2>a, <4>1
    <3> QED BY <2>a, <2>r, <3>1, <3>2, <3>3
  <2>2. ASSUME NEW a \in x11, T!Refuse(a) PROVE TravelerTypes'
    <3>1. x11' \subseteq x11 /\ x13' = x13 \cup {a.what} /\ x12' = x12
      BY <2>2 DEF T!Refuse
    <3>2. UNCHANGED <<x2, x3, x5, x8, x15, x16, x17, x18>> /\ x9' \in {"none", x9}
      BY <2>2 DEF T!Refuse, T!tables, T!unseen
    <3> QED BY <2>a, <2>r, <3>1, <3>2
  <2>3. CASE T!CloseCancel
    BY <2>3, <2>a, <2>h, <2>r DEF T!CloseCancel, T!tables, T!unseen
  <2>4. CASE T!ConfirmCancel
    <3>1. \A c \in x12' \ x12 : c.op = "cancel" /\ c.next = {}
      BY <2>4 DEF T!ConfirmCancel
    <3> QED BY <2>4, <2>a, <2>h, <2>r, <3>1 DEF T!ConfirmCancel, T!tables, T!screen, T!unseen
  <2>5. ASSUME NEW t \in T!Tabs, T!SelectTab(t) PROVE TravelerTypes'
    <3>1. \A a \in x11' \ x11 : a = T!Ask("wishlist", "any")
      BY <2>5 DEF T!SelectTab, T!Send
    <3>2. \A a \in x11' \ x11 : a.what = "wishlist" /\ a.wished \subseteq Experiences
      BY <2>0, <3>1, TravelerAsksTyped
    <3>3. UNCHANGED <<x2, x5, x8, x9, x12, x13, x15, x17, x18>> /\ x3' = t /\ x16' \in 0..MaxHurries
      BY <2>5, <2>h DEF T!SelectTab, T!tables, T!unseen
    <3> QED BY <2>a, <2>r, <3>2, <3>3
  <2>6. ASSUME NEW f \in T!Filters, T!SelectFilter(f) PROVE TravelerTypes'
    <3>1. \A a \in x11' \ x11 : a = T!Ask("rows", f)
      BY <2>6 DEF T!SelectFilter, T!FilterAsks, T!Send
    <3>2. \A a \in x11' \ x11 : a.what = "rows" /\ a.wished \subseteq Experiences
      BY <2>0, <3>1, TravelerAsksTyped
    <3>3. UNCHANGED <<x2, x3, x5, x8, x9, x12, x13, x15, x17, x18>> /\ x16' \in 0..MaxHurries
      BY <2>6, <2>h DEF T!SelectFilter, T!tables, T!unseen
    <3> QED BY <2>a, <2>r, <3>2, <3>3
  <2>7. ASSUME NEW m \in T!Modes, T!SelectMode(m) PROVE TravelerTypes'
    <3>1. \A a \in x11' \ x11 : a = T!Ask("discover", m)
      BY <2>7 DEF T!SelectMode, T!Send
    <3>2. \A a \in x11' \ x11 : a.what = "discover" /\ a.key = m /\ a.wished \subseteq Experiences
      BY <2>0, <3>1, TravelerAsksTyped
    <3>3. UNCHANGED <<x2, x3, x8, x9, x12, x13, x15, x17, x18>> /\ x5' = m /\ x16' \in 0..MaxHurries
      BY <2>7, <2>h DEF T!SelectMode, T!tables, T!unseen
    <3> QED BY <2>a, <2>r, <3>2, <3>3
  <2>8. ASSUME NEW b \in Bookings, T!OpenCancel(b) PROVE TravelerTypes'
    BY <2>8, <2>a, <2>h, <2>r DEF T!OpenCancel, T!tables, T!unseen
  <2>9. ASSUME NEW b \in Bookings, T!Complete(b) PROVE TravelerTypes'
    BY <2>9, <2>a, <2>r DEF T!Complete, T!screen, T!unseen
  <2>10. ASSUME NEW e \in Experiences, T!PressHeart(e) PROVE TravelerTypes'
    <3>1. T!Flip(x8, e) \subseteq Experiences
      BY <2>a DEF T!Flip
    <3>2. \A c \in x12' \ x12 : c.op = "heart" /\ c.on = e /\ c.next \subseteq Experiences
      BY <2>10, <3>1 DEF T!PressHeart
    <3>3. UNCHANGED <<x2, x3, x5, x8, x9, x11, x13, x15, x17, x18>> /\ x16' \in 0..MaxHurries
      BY <2>10, <2>h DEF T!PressHeart, T!tables, T!screen, T!unseen
    <3> QED BY <2>a, <2>r, <3>2, <3>3
  <2>11. ASSUME NEW e \in Experiences, T!PressRemove(e) PROVE TravelerTypes'
    <3>1. \A c \in x12' \ x12 : c.op = "unheart" /\ c.on = e /\ c.next = {}
      BY <2>11 DEF T!PressRemove
    <3>2. UNCHANGED <<x2, x3, x5, x8, x9, x11, x13, x15, x17, x18>> /\ x16' \in 0..MaxHurries
      BY <2>11, <2>h DEF T!PressRemove, T!tables, T!screen, T!unseen
    <3> QED BY <2>a, <2>r, <3>1, <3>2
  <2>12. ASSUME NEW c \in x12, T!Cancelled(c) PROVE TravelerTypes'
    BY <2>12, <2>a, <2>r DEF T!Cancelled, T!unseen
  <2>13. ASSUME NEW c \in x12, c.op # "cancel", T!Hearted(c) PROVE TravelerTypes'
    <3>1. UNCHANGED <<x3, x5, x9, x11, x13, x15, x16, x18>> /\ x12' \subseteq x12
      BY <2>13 DEF T!Hearted
    <3>2. /\ x8' \in {x8, c.next, x8 \ {c.on}}
          /\ x2' \in {x2, x2 \ {c.on}, x2 \cup {c.on}} /\ x17' \subseteq x17 \cup {c.on}
      BY <2>13 DEF T!Hearted, T!HeartSet, T!NextHearts, T!Wishes
    <3>3. c.next \subseteq Experiences /\ c.on \in Experiences
      <4>1. c \in x12 \cup x18
        OBVIOUS
      <4> QED BY <2>13, <2>a, <4>1
    <3> QED BY <2>a, <2>r, <3>1, <3>2, <3>3
  <2>14. ASSUME NEW c \in x12, T!GiveUp(c) PROVE TravelerTypes'
    <3>1. /\ UNCHANGED <<x2, x3, x5, x8, x9, x11, x13, x15, x16, x17>>
          /\ x12' \subseteq x12 /\ x18' = x18 \cup {c}
      BY <2>14 DEF T!GiveUp, T!tables, T!screen
    <3> QED BY <2>a, <2>r, <3>1
  <2>15. ASSUME NEW c \in x18, T!ServeLate(c) PROVE TravelerTypes'
    <3>1. UNCHANGED <<x3, x5, x8, x9, x11, x12, x13, x15, x16>> /\ x18' \subseteq x18
      BY <2>15 DEF T!ServeLate, T!screen
    <3>2. \/ UNCHANGED <<x2, x17>>
          \/ c.op # "cancel" /\ x2' \in {x2 \ {c.on}, x2 \cup {c.on}} /\ x17' = x17 \cup {c.on}
      BY <2>15 DEF T!ServeLate, T!Wishes, T!tables
    <3>3. c.op # "cancel" => c.on \in Experiences
      <4>1. c \in x12 \cup x18
        OBVIOUS
      <4> QED BY <2>a, <4>1
    <3>4. x2' \subseteq Experiences /\ x17' \subseteq Experiences
      BY <2>a, <3>2, <3>3
    <3> QED BY <2>a, <2>r, <3>1, <3>4
  <2> QED BY <1>2, <2>1, <2>2, <2>3, <2>4, <2>5, <2>6, <2>7, <2>8, <2>9, <2>10, <2>11, <2>12, <2>13,
             <2>14, <2>15 DEF T!Next
<1> QED BY <1>1, <1>2

\* What the guide's dashboard asks for, beside GuideAsk.
GuideTypes ==
  /\ G!TypeOK
  /\ \A a \in x10 : a.what \in {"listings", "rows"} /\ a.booked \in [Bookings -> {"confirmed", "completed"}]
  /\ \A c \in x11 : c.op \in {"save", "toggle", "delete"}

LEMMA GuideList ==
  ASSUME NEW b \in [Bookings -> {"confirmed", "completed"}], NEW f \in G!Filters
  PROVE  G!List(b, G!StatusOf[f]) \in [Bookings -> {"confirmed", "completed", "cancelled", "absent"}]
<1>1. G!StatusOf[f] \in {"confirmed", "completed", "cancelled"}
  BY DEF G!StatusOf, G!Filters
<1> QED BY <1>1 DEF G!List

LEMMA GuideAsked ==
  ASSUME NEW l, NEW t, NEW f, NEW a \in {G!AskOf("listings", f, l)} \cup G!TabAsks(t, f)
  PROVE  a.what \in {"listings", "rows"} /\ a.booked = x2
BY DEF G!AskOf, G!Ask, G!TabAsks

LEMMA GuideTyped ==
  ASSUME MaxHurries \in Nat
  PROVE  /\ G!Init => GuideTypes
         /\ GuideInv /\ GuideListsInv /\ GuideListsInv' /\ GuideInv' /\ GuideTypes /\ G!Next => GuideTypes'
<1>1. ASSUME G!Init PROVE GuideTypes
  <2>1. x14 \in BOOLEAN
    BY <1>1, Zenon DEF G!Init
  <2>2. x7.dirty \in BOOLEAN /\ x7.of = "closed"
    BY <1>1 DEF G!Init, G!NoForm
  <2>3. x2 \in [Bookings -> {"confirmed", "completed"}]
    BY <1>1 DEF G!Init
  <2>4. \A a \in x10 : a.what \in {"listings", "rows"} /\ a.booked = x2
    <3>1. \A a \in x10 : a \in G!TabAsks(x3, x4)
      BY <1>1 DEF G!Init
    <3> QED BY <3>1, GuideAsked
  <2>5. GuideListsInv
    BY <1>1, GuideListsStart
  <2>6. /\ x3 \in G!Tabs /\ x6 \in [Bookings -> {"confirmed", "completed", "cancelled", "absent"}]
        /\ x8 = None /\ x9 = None /\ x11 = {} /\ x12 = {} /\ x13 = {} /\ x16 \in 0..MaxHurries /\ x17 = {}
    BY <1>1 DEF G!Init, G!Tabs
  <2> QED BY <2>1, <2>2, <2>3, <2>4, <2>5, <2>6 DEF GuideTypes, G!TypeOK, GuideListsInv, OnSale
<1>2. ASSUME GuideInv, GuideListsInv, GuideInv', GuideListsInv', GuideTypes, G!Next PROVE GuideTypes'
  <2>0. GuideInv /\ GuideListsInv /\ GuideListsInv' /\ GuideInv' /\ GuideTypes /\ G!TypeOK
    BY <1>2 DEF GuideTypes
  <2>f. x7'.of \in Experiences \cup {None, "closed"} /\ x7'.dirty \in BOOLEAN
    <3>1. x7' \in [of : Experiences \cup {None, "closed"}, dirty : BOOLEAN]
      BY <2>0 DEF GuideInv
    <3> QED BY <3>1
  \* What is left beside GuideInv and GuideListsInv.
  <2>r. ASSUME /\ x2' \in [Bookings -> {"confirmed", "completed"}]
               /\ x6' \in [Bookings -> {"confirmed", "completed", "cancelled", "absent"}]
               /\ x3' \in G!Tabs /\ x9' \in Experiences \cup {None}
               /\ x12' \subseteq {"listings", "rows"} /\ x13' \subseteq Experiences
               /\ x14' \in BOOLEAN /\ x16' \in 0..MaxHurries,
               \A a \in x10' \ x10 : a.what \in {"listings", "rows"} /\ a.booked \in {x2, x2'},
               \A c \in x11' \ x11 : c.op \in {"save", "toggle", "delete"},
               x17' \subseteq x11 \cup x17
        PROVE  GuideTypes'
    <3>1. \A a \in x10' : a.what \in {"listings", "rows"} /\ a.booked \in [Bookings -> {"confirmed", "completed"}]
      BY <2>0, <2>r DEF GuideTypes, G!TypeOK
    <3>4. \A c \in x17' : c.op \in {"save", "toggle", "delete"}
      BY <2>0, <2>r DEF GuideTypes, G!TypeOK
    <3>2. G!TypeOK'
      BY <2>0, <2>r, <2>f, <3>4 DEF G!TypeOK, GuideListsInv, OnSale
    <3>3. \A c \in x11' : c.op \in {"save", "toggle", "delete"}
      BY <2>0, <2>r DEF GuideTypes
    <3> QED BY <3>1, <3>2, <3>3 DEF GuideTypes
  <2>a. /\ x2 \in [Bookings -> {"confirmed", "completed"}]
        /\ x6 \in [Bookings -> {"confirmed", "completed", "cancelled", "absent"}]
        /\ x3 \in G!Tabs /\ x9 \in Experiences \cup {None}
        /\ x12 \subseteq {"listings", "rows"} /\ x13 \subseteq Experiences
        /\ x14 \in BOOLEAN /\ x16 \in 0..MaxHurries
        /\ \A a \in x10 : a.what \in {"listings", "rows"} /\ a.booked \in [Bookings -> {"confirmed", "completed"}]
    BY <2>0 DEF GuideTypes, G!TypeOK
  <2>h. G!Act => x16' \in 0..MaxHurries
    BY <2>a DEF G!Act
  <2>1. ASSUME NEW a \in x10, G!Arrive(a) PROVE GuideTypes'
    <3>1. /\ x10' \subseteq x10 /\ UNCHANGED <<x2, x3, x9, x11, x14, x16, x17>>
          /\ x12' \subseteq x12 \cup {a.what} /\ x13' \subseteq x13
      BY <2>1 DEF G!Arrive, G!tables
    <3>2. x6' = x6 \/ (a.what = "rows" /\ \E b \in {a.booked, x2} : x6' = G!List(b, G!StatusOf[a.key]))
      BY <2>1 DEF G!Arrive
    <3>3. a.what = "rows" => a.key \in G!Filters
      BY <2>0 DEF GuideListsInv, GuideAsk
    <3>4. x6' \in [Bookings -> {"confirmed", "completed", "cancelled", "absent"}]
      BY <2>a, <3>2, <3>3, GuideList
    <3> QED BY <2>a, <2>r, <3>1, <3>4
  <2>2. ASSUME NEW t \in G!Tabs, G!SelectTab(t) PROVE GuideTypes'
    <3>1. \A a \in x10' \ x10 : a \in G!TabAsks(t, x4)
      BY <2>2 DEF G!SelectTab, G!Send
    <3>2. UNCHANGED <<x2, x6, x9, x11, x12, x13, x14, x17>> /\ x3' = t /\ x16' \in 0..MaxHurries
      BY <2>2, <2>h DEF G!SelectTab, G!tables, G!history
    <3> QED BY <2>a, <2>r, <3>1, <3>2, GuideAsked
  <2>3. ASSUME NEW f \in G!Filters, G!SelectFilter(f) PROVE GuideTypes'
    <3>1. \A a \in x10' \ x10 : a \in G!TabAsks(x3, f)
      BY <2>3 DEF G!SelectFilter, G!Send
    <3>2. UNCHANGED <<x2, x3, x6, x9, x11, x12, x13, x14, x17>> /\ x16' \in 0..MaxHurries
      BY <2>3, <2>h DEF G!SelectFilter, G!tables, G!history
    <3> QED BY <2>a, <2>r, <3>1, <3>2, GuideAsked
  <2>4. CASE G!Type \/ G!Cancel \/ G!KeepListing
    BY <2>4, <2>a, <2>h, <2>r DEF G!Type, G!Cancel, G!KeepListing, G!tables, G!history
  <2>5. CASE G!SaveForm
    BY <2>5, <2>a, <2>h, <2>r DEF G!SaveForm, G!tables, G!history
  <2>6. CASE G!ConfirmDelete
    BY <2>6, <2>a, <2>h, <2>r DEF G!ConfirmDelete, G!tables, G!history, G!screen
  <2>7. ASSUME NEW e, G!OpenForm(e) PROVE GuideTypes'
    BY <2>7, <2>a, <2>h, <2>r DEF G!OpenForm, G!tables, G!history
  <2>8. ASSUME NEW e \in Experiences, G!Toggle(e) PROVE GuideTypes'
    <3>1. /\ UNCHANGED <<x2, x3, x6, x10, x12, x13, x14, x17>>
          /\ \A c \in x11' \ x11 : c.op = "toggle"
          /\ x9' = e /\ x16' \in 0..MaxHurries
      BY <2>8, <2>h DEF G!Toggle, G!tables, G!history
    <3> QED BY <2>a, <2>r, <3>1
  <2>9. ASSUME NEW e \in Experiences, G!AskDelete(e) PROVE GuideTypes'
    BY <2>9, <2>a, <2>h, <2>r DEF G!AskDelete, G!tables, G!history
  <2>10. ASSUME NEW e \in Experiences, G!Decide(e) PROVE GuideTypes'
    BY <2>10, <2>a, <2>r DEF G!Decide, G!screen
  <2>11. ASSUME NEW c \in x11, G!FormSaved(c) PROVE GuideTypes'
    <3>1. UNCHANGED <<x2, x3, x6, x9, x12, x16, x17>> /\ x11' \subseteq x11
      BY <2>11 DEF G!FormSaved
    <3>2. x14' \in BOOLEAN
      <4>1. x14' = (x14 \/ x7.dirty) \/ x14' = (x14 \/ x7 = G!NoForm)
        BY <2>11 DEF G!FormSaved, G!NotSaved
      <4> QED BY <2>a, <2>0, <4>1, Zenon DEF G!TypeOK
    <3>3. \A a \in x10' \ x10 : a = G!AskOf("listings", "experiences", x1')
      BY <2>11 DEF G!FormSaved, G!NotSaved, G!ReadAgain, G!Send
    <3>4. \A a \in x10' \ x10 : a.what \in {"listings", "rows"} /\ a.booked = x2
      BY <3>3 DEF G!AskOf
    <3>5. x13' = x13 \/ \E e \in Experiences : x13' = x13 \cup {e}
      BY <2>11 DEF G!FormSaved
    <3> QED BY <2>a, <2>r, <3>1, <3>2, <3>4, <3>5
  <2>12. ASSUME NEW c \in x11, c.op = "toggle", G!Toggled(c) PROVE GuideTypes'
    <3>1. UNCHANGED <<x2, x3, x6, x10, x12, x14, x16, x17>> /\ x11' \subseteq x11 /\ x9' = None /\ x13' \subseteq x13 \cup {c.on}
      BY <2>12 DEF G!Toggled
    <3>2. c.on \in Experiences
      BY <2>0, <2>12 DEF GuideListsInv, GuideCall
    <3> QED BY <2>a, <2>r, <3>1, <3>2
  <2>13. ASSUME NEW c \in x11, c.op = "delete", G!Deleted(c) PROVE GuideTypes'
    <3>1. UNCHANGED <<x2, x3, x6, x9, x12, x14, x16, x17>> /\ x11' \subseteq x11 /\ x13' \subseteq x13 \cup {c.on}
      BY <2>13 DEF G!Deleted
    <3>2. c.on \in Experiences
      BY <2>0, <2>13 DEF GuideListsInv, GuideCall
    <3>3. \A a \in x10' \ x10 : a = G!AskOf("listings", "experiences", x1')
      BY <2>13 DEF G!Deleted, G!ReadAgain, G!Send
    <3>4. \A a \in x10' \ x10 : a.what \in {"listings", "rows"} /\ a.booked = x2
      BY <3>3 DEF G!AskOf
    <3> QED BY <2>a, <2>r, <3>1, <3>2, <3>4
  <2>14. ASSUME NEW b \in Bookings, G!Complete(b) PROVE GuideTypes'
    BY <2>14, <2>a, <2>r DEF G!Complete, G!screen, G!history
  <2>15. ASSUME NEW c \in x11, G!GiveUp(c) PROVE GuideTypes'
    <3>1. /\ UNCHANGED <<x2, x3, x6, x12, x13, x16>> /\ x11' \subseteq x11 /\ x17' = x17 \cup {c}
          /\ x9' \in {x9, None} /\ x10' = x10
      BY <2>15 DEF G!GiveUp, G!NotSaved, G!tables
    <3>2. x14' \in BOOLEAN
      <4>1. x14' = x14 \/ x14' = (x14 \/ x7 = G!NoForm)
        BY <2>15 DEF G!GiveUp, G!NotSaved
      <4> QED BY <2>a, <4>1, Zenon
    <3> QED BY <2>a, <2>r, <3>1, <3>2
  <2>16. ASSUME NEW c \in x17, G!ServeLate(c) PROVE GuideTypes'
    <3>1. UNCHANGED <<x2, x3, x6, x9, x10, x11, x12, x14, x16>> /\ x17' \subseteq x17
      BY <2>16 DEF G!ServeLate, G!screen
    <3>2. x13' = x13 \/ \E e \in Experiences : x13' = x13 \cup {e}
      BY <2>16 DEF G!ServeLate
    <3> QED BY <2>a, <2>r, <3>1, <3>2
  <2> QED BY <1>2, <2>1, <2>2, <2>3, <2>4, <2>5, <2>6, <2>7, <2>8, <2>9, <2>10, <2>11, <2>12, <2>13,
             <2>14, <2>15, <2>16 DEF G!Next
<1> QED BY <1>1, <1>2

\* Each of the administrator's lists has rows of its kind.
AdminTypes ==
  /\ A!TypeOK /\ x3["users"] \subseteq Logs
  /\ \A a \in x8 : a.tab = "users" => a.rows \subseteq Logs
  /\ \A c \in x9 : c.tab = "verifications" => c.on \in Requests

LEMMA AdminListed ==
  ASSUME NEW t
  PROVE  /\ A!Listed(t) \subseteq A!Rows
         /\ t = "verifications" => A!Listed(t) \subseteq Requests
         /\ t = "users" => A!Listed(t) \subseteq Logs
<1>1. CASE t \in {"verifications", "experiences"}
  BY <1>1 DEF A!Listed, A!Pending, A!Rows
<1>2. CASE t \notin {"verifications", "experiences"} /\ t = "reviews"
  BY <1>2 DEF A!Listed, A!Rows
<1>3. CASE t \notin {"verifications", "experiences"} /\ t = "users"
  BY <1>3 DEF A!Listed, A!Rows
<1>4. CASE t \notin {"verifications", "experiences", "reviews", "users"}
  BY <1>4 DEF A!Listed
<1> QED BY <1>1, <1>2, <1>3, <1>4

LEMMA AdminOffered ==
  ASSUME NEW r, NEW op, op \in A!Offers(r)
  PROVE  x2 \in A!Lists /\ r \in x3[x2]
BY DEF A!Offers

LEMMA AdminTyped ==
  ASSUME MaxHurries \in Nat
  PROVE  /\ A!Init => AdminTypes
         /\ DecidedInv /\ DecidedInv' /\ AdminTypes /\ A!Next => AdminTypes'
<1>1. ASSUME A!Init PROVE AdminTypes
  <2>1. x6 \in BOOLEAN /\ x7 \in BOOLEAN
    BY <1>1, Zenon DEF A!Init
  <2>2. x8 = {[tab |-> x2, rows |-> A!Listed(x2)]} /\ x2 = "verifications"
    BY <1>1 DEF A!Init
  <2>3. \A a \in x8 : a.tab = "verifications" /\ a.rows \subseteq A!Rows
    BY <2>2, AdminListed
  <2> QED BY <1>1, <2>1, <2>2, <2>3 DEF A!Init, AdminTypes, A!TypeOK, A!Tabs, A!Lists, A!Decided
<1>2. ASSUME DecidedInv, DecidedInv', AdminTypes, A!Next PROVE AdminTypes'
  <2>0. DecidedInv /\ DecidedInv' /\ AdminTypes /\ A!TypeOK
    BY <1>2 DEF AdminTypes
  <2>a. /\ x2 \in A!Tabs /\ x3 \in [A!Lists -> SUBSET A!Rows] /\ x4 \subseteq Logs
        /\ x5 \in A!Rows \cup {None} /\ x10 \subseteq A!Lists /\ x11 \subseteq Requests /\ x12 \subseteq Requests
        /\ x14 \in 0..MaxHurries /\ x3["users"] \subseteq Logs /\ x3["verifications"] \subseteq Requests
        /\ \A a \in x8 : a.tab \in A!Tabs /\ a.rows \subseteq A!Rows
        /\ \A a \in x8 : /\ a.tab = "users" => a.rows \subseteq Logs
                         /\ a.tab = "verifications" => a.rows \subseteq Requests
        /\ \A c \in x9 : c.tab \in A!Lists /\ c.on \in A!Rows
        /\ \A c \in x9 : c.tab = "verifications" => c.on \in Requests
    BY <2>0 DEF AdminTypes, A!TypeOK, DecidedInv
  <2>b. x6 \in BOOLEAN /\ x7 \in BOOLEAN
    BY <2>0, Zenon DEF A!TypeOK
  <2>u. "users" \in A!Lists /\ "verifications" \in A!Lists
    BY DEF A!Lists
  <2>r. ASSUME /\ x2' \in A!Tabs /\ x3' \in [A!Lists -> SUBSET A!Rows] /\ x4' \subseteq Logs
               /\ x5' \in A!Rows \cup {None} /\ x10' \subseteq A!Lists /\ x11' \subseteq Requests
               /\ x12' \subseteq Requests /\ x14' \in 0..MaxHurries /\ x3'["users"] \subseteq Logs
               /\ x6' \in BOOLEAN /\ x7' \in BOOLEAN,
               \A a \in x8' \ x8 : /\ a.tab \in A!Tabs /\ a.rows \subseteq A!Rows
                                   /\ a.tab = "users" => a.rows \subseteq Logs,
               \A c \in x9' \ x9 : /\ c.tab \in A!Lists /\ c.on \in A!Rows
                                   /\ c.tab = "verifications" => c.on \in Requests
        PROVE  AdminTypes'
    <3>1. \A a \in x8' : /\ a.tab \in A!Tabs /\ a.rows \subseteq A!Rows
                         /\ a.tab = "users" => a.rows \subseteq Logs
      BY <2>a, <2>r
    <3>2. \A c \in x9' : /\ c.tab \in A!Lists /\ c.on \in A!Rows
                         /\ c.tab = "verifications" => c.on \in Requests
      BY <2>a, <2>r
    <3>3. x1' \in [Requests -> {"pending"} \cup A!Decided]
      BY <2>0 DEF DecidedInv
    <3>4. A!TypeOK'
      BY <2>r, <3>1, <3>2, <3>3 DEF A!TypeOK
    <3> QED BY <2>r, <3>1, <3>2, <3>4 DEF AdminTypes
  <2>h. A!Act => x14' \in 0..MaxHurries
    BY <2>a DEF A!Act
  <2>1. ASSUME NEW a \in x8, A!Arrive(a) PROVE AdminTypes'
    <3>1. x8' \subseteq x8 /\ x7' \in BOOLEAN /\ UNCHANGED <<x2, x5, x6, x9, x13, x14>>
      BY <2>1, Zenon DEF A!Arrive
    <3>2. CASE UNCHANGED <<x3, x4, x10, x11, x12>>
      BY <2>a, <2>b, <2>r, <3>1, <3>2
    <3>3. CASE /\ a.tab \in A!Lists
               /\ \E rows \in {a.rows, A!Listed(a.tab)} :
                    /\ x3' = [x3 EXCEPT ![a.tab] = rows]
                    /\ x12' = IF a.tab = "verifications" THEN {r \in x12 : r \in rows <=> r \notin A!Pending}
                              ELSE x12
               /\ x4' = (IF a.tab = "users" THEN {} ELSE x4)
               /\ x10' = x10 \cup {a.tab}
               /\ x11' = (IF a.tab = "verifications" THEN {} ELSE x11)
      <4>1. PICK rows \in {a.rows, A!Listed(a.tab)} :
                /\ x3' = [x3 EXCEPT ![a.tab] = rows]
                /\ x12' = IF a.tab = "verifications" THEN {r \in x12 : r \in rows <=> r \notin A!Pending}
                          ELSE x12
        BY <3>3
      <4>2. rows \subseteq A!Rows /\ (a.tab = "users" => rows \subseteq Logs)
        BY <2>a, AdminListed
      <4>3. x3' \in [A!Lists -> SUBSET A!Rows] /\ x3'["users"] \subseteq Logs /\ x12' \subseteq Requests
        BY <2>a, <2>u, <3>3, <4>1, <4>2
      <4> QED BY <2>a, <2>b, <2>r, <3>1, <3>3, <4>3
    <3> QED BY <2>1, <3>2, <3>3 DEF A!Arrive
  <2>2. ASSUME NEW t \in A!Tabs, A!SelectTab(t) PROVE AdminTypes'
    <3>1. x7' \in BOOLEAN
      BY <2>2, Zenon DEF A!SelectTab
    <3>2. /\ UNCHANGED <<x3, x4, x5, x6, x9, x10, x11, x12, x13>> /\ x2' = t /\ x14' \in 0..MaxHurries
          /\ x8' = x8 \cup {[tab |-> t, rows |-> A!Listed(t)]}
      BY <2>2, <2>h DEF A!SelectTab
    <3>3. \A a \in x8' \ x8 : a.tab = t /\ a.rows = A!Listed(t)
      BY <3>2
    <3> QED BY <2>a, <2>b, <2>r, <3>1, <3>2, <3>3, AdminListed
  <2>3. CASE A!Type
    <3>1. x6' \in BOOLEAN
      BY <2>3, Zenon DEF A!Type
    <3> QED BY <2>3, <2>a, <2>b, <2>h, <2>r, <3>1 DEF A!Type
  <2>4. CASE A!Cancel
    BY <2>4, <2>a, <2>b, <2>h, <2>r DEF A!Cancel
  <2>5. ASSUME NEW r \in A!Rows, A!Open(r) PROVE AdminTypes'
    BY <2>5, <2>a, <2>b, <2>h, <2>r DEF A!Open
  \* A decision on a row that is offered.
  <2>c. ASSUME NEW op, NEW r, op \in A!Offers(r), A!Act,
               x9' = x9 \cup {[op |-> op, tab |-> x2, on |-> r]},
               UNCHANGED <<x2, x3, x4, x5, x6, x7, x8, x10, x11, x12, x13>>
        PROVE  AdminTypes'
    <3>1. x2 \in A!Lists /\ r \in x3[x2]
      BY <2>c, AdminOffered
    <3>2. r \in A!Rows /\ (x2 = "verifications" => r \in Requests)
      BY <2>a, <3>1
    <3>3. \A c \in x9' \ x9 : c.tab = x2 /\ c.on = r
      BY <2>c
    <3> QED BY <2>a, <2>b, <2>c, <2>h, <2>r, <3>1, <3>2, <3>3
  <2>6. ASSUME NEW r \in A!Rows, A!Approve(r) PROVE AdminTypes'
    BY <2>6, <2>c DEF A!Approve, A!Call, A!screen
  <2>7. ASSUME NEW r \in A!Rows, A!Remove(r) PROVE AdminTypes'
    BY <2>7, <2>c DEF A!Remove, A!Call, A!screen
  <2>8. ASSUME NEW r \in A!Rows, A!Unsuspend(r) PROVE AdminTypes'
    BY <2>8, <2>c DEF A!Unsuspend, A!Call, A!screen
  <2>9. CASE A!Refuse
    <3>1. CASE x9' = x9 \cup {[op |-> "refuse", tab |-> x2, on |-> x5]} /\ x3' = x3
      BY <2>9, <2>c, <3>1 DEF A!Refuse
    <3>2. CASE x9' = x9 /\ x3' = x3
      BY <2>9, <2>a, <2>b, <2>h, <2>r, <3>2 DEF A!Refuse
    <3> QED BY <2>9, <3>1, <3>2 DEF A!Refuse, A!Blank
  <2>10. ASSUME NEW c \in x9, A!Answered(c) PROVE AdminTypes'
    <3>1. x9' \subseteq x9 /\ UNCHANGED <<x2, x7, x8, x10, x12, x13, x14>>
      BY <2>10 DEF A!Answered
    <3>2. x6' \in BOOLEAN
      BY <2>10, <2>b, Zenon DEF A!Answered
    <3>3. x5' \in {x5, None} /\ x11' \subseteq Requests
      <4>1. x11' = x11 \/ (c.tab = "verifications" /\ x11' = x11 \cup {c.on})
        BY <2>10 DEF A!Answered
      <4> QED BY <2>10, <2>a, <4>1 DEF A!Answered
    <3>4. /\ x3' \in [A!Lists -> SUBSET A!Rows] /\ x3'["users"] \subseteq Logs /\ x4' \subseteq Logs
      <4>1. CASE c.tab = "users"
        <5>1. x3' = x3 /\ x4' \subseteq x4 \cup x3["users"]
          BY <2>10, <4>1 DEF A!Answered, A!AfterCall
        <5> QED BY <2>a, <5>1
      <4>2. CASE c.tab # "users"
        <5>1. x3' = [x3 EXCEPT ![c.tab] = @ \ {c.on}] /\ x4' = x4
          BY <2>10, <4>2 DEF A!Answered, A!AfterCall
        <5> QED BY <2>a, <2>u, <4>2, <5>1
      <4> QED BY <4>1, <4>2
    <3> QED BY <2>a, <2>b, <2>r, <3>1, <3>2, <3>3, <3>4
  <2>11. ASSUME NEW r \in Requests, NEW s, A!Elsewhere(r, s) PROVE AdminTypes'
    BY <2>11, <2>a, <2>b, <2>r DEF A!Elsewhere, A!screen
  <2> QED BY <1>2, <2>1, <2>2, <2>3, <2>4, <2>5, <2>6, <2>7, <2>8, <2>9, <2>10, <2>11 DEF A!Next
<1> QED BY <1>1, <1>2

\* What fails or overlaps are experiences, and the changes are bounded.
NearTypes == x9 \subseteq Items /\ x10 \subseteq Items /\ x11 \in 0..MaxChanges

LEMMA NearTyped ==
  ASSUME MaxChanges \in Nat
  PROVE  /\ V!Init => NearTypes
         /\ IndexInv /\ NearTypes /\ V!Next => NearTypes'
         /\ IndexInv /\ NearInv /\ NearTypes => V!TypeOK
<1>1. V!Init => NearTypes
  BY DEF V!Init, NearTypes
<1>2. ASSUME IndexInv, NearTypes, V!Next PROVE NearTypes'
  <2>a. x9 \subseteq Items /\ x10 \subseteq Items /\ x11 \in 0..MaxChanges
    BY <1>2 DEF NearTypes
  <2>k. \A k \in x4 : k.on \in Items
    BY <1>2 DEF IndexInv, Tasks
  <2>1. ASSUME NEW e \in Items, V!Ask(e) \/ V!ReadRow(e) PROVE NearTypes'
    BY <2>1, <2>a DEF V!Ask, V!ReadRow, NearTypes
  <2>2. ASSUME NEW e \in Items, NEW t, V!Save(e, t) PROVE NearTypes'
    <3>1. x9' = x9 /\ x10' \subseteq x10 \cup {e} /\ x11' = x11 + 1 /\ x11 < MaxChanges
      BY <2>2 DEF V!Save, V!Start
    <3> QED BY <2>a, <3>1 DEF NearTypes
  <2>3. ASSUME NEW k \in x4,
               \/ V!generateEmbedding(k) \/ V!callOpenAIEmbeddings(k)
               \/ V!upsertExperienceEmbedding(k) \/ V!deleteExperienceEmbedding(k)
        PROVE  NearTypes'
    BY <2>3, <2>a DEF V!generateEmbedding, V!callOpenAIEmbeddings, V!upsertExperienceEmbedding,
                      V!deleteExperienceEmbedding, NearTypes
  <2>4. ASSUME NEW k \in x4, V!Fail(k) PROVE NearTypes'
    BY <2>4, <2>a, <2>k DEF V!Fail, NearTypes
  <2>5. ASSUME NEW key, V!Expire(key) PROVE NearTypes'
    BY <2>5, <2>a DEF V!Expire, NearTypes
  <2>6. CASE V!searchSimilarExperiences \/ V!Answer
    BY <2>6, <2>a DEF V!searchSimilarExperiences, V!Answer, NearTypes
  <2> QED BY <1>2, <2>1, <2>2, <2>3, <2>4, <2>5, <2>6 DEF V!Next
<1>3. IndexInv /\ NearInv /\ NearTypes => V!TypeOK
  BY DEF IndexInv, NearInv, NearTypes, V!TypeOK, Written, Tasks, Requested
<1> QED BY <1>1, <1>2, <1>3

\* No more markings are under way than MaxMarks.
BellTypes == IsFiniteSet(x4) /\ Cardinality(x4) <= MaxMarks /\ x5 \subseteq Notes /\ x6 \subseteq Notes

LEMMA BellTyped ==
  /\ B!Init => BellTypes
  /\ BellInv /\ BellTypes /\ B!Next => BellTypes'
  /\ BellInv /\ BellTypes => B!TypeOK
<1>0. \A s : B!Cardinality(s) = Cardinality(s)
  BY Zenon DEF B!Cardinality, Cardinality
<1>n. MaxMarks \in Nat
  BY NumbersAssumption
<1>1. ASSUME B!Init PROVE BellTypes
  <2>1. x4 = {} /\ x5 = {} /\ x6 = {}
    BY <1>1 DEF B!Init
  <2> QED BY <1>n, <2>1, FS_EmptySet DEF BellTypes
<1>2. ASSUME BellInv, BellTypes, B!Next PROVE BellTypes'
  <2>a. IsFiniteSet(x4) /\ Cardinality(x4) \in Nat /\ Cardinality(x4) <= MaxMarks /\ x5 \subseteq Notes /\ x6 \subseteq Notes
    BY <1>2, FS_CardinalityType DEF BellTypes
  <2>1. CASE B!Listed
    BY <2>1, <2>a DEF B!Listed, BellTypes
  <2>2. ASSUME NEW s, NEW then, B!Press(s, then) PROVE BellTypes'
    <3>1. x4' = x4 \cup {[left |-> s, then |-> then]} /\ x5' = x5 /\ x6' = x6
      BY <2>2 DEF B!Press
    <3>2. Cardinality(x4) < MaxMarks
      <4>1. B!Cardinality(x4) < MaxMarks
        BY <2>2 DEF B!Press
      <4> QED BY <1>0, <4>1
    <3>3. IsFiniteSet(x4') /\ (Cardinality(x4') = Cardinality(x4) \/ Cardinality(x4') = Cardinality(x4) + 1)
      BY <2>a, <3>1, FS_AddElement
    <3> QED BY <1>n, <2>a, <3>1, <3>2, <3>3 DEF BellTypes
  <2>3. ASSUME NEW n \in Notes, B!Delivered(n) PROVE BellTypes'
    BY <2>3, <2>a DEF B!Delivered, BellTypes
  <2>4. ASSUME NEW m \in x4, B!ShowRead(m) PROVE BellTypes'
    <3>1. x4' = x4 \ {m} /\ x5' = x5 /\ x6' = x6
      BY <2>4 DEF B!ShowRead
    <3>2. IsFiniteSet(x4') /\ Cardinality(x4') \in Nat /\ Cardinality(x4') <= Cardinality(x4)
      BY <2>a, <3>1, FS_Subset, FS_CardinalityType
    <3> QED BY <1>n, <2>a, <3>1, <3>2 DEF BellTypes
  <2>5. ASSUME NEW m \in x4, NEW n \in m.left, B!Marked(m, n) PROVE BellTypes'
    <3>0. m.left \subseteq Notes
      BY <1>2 DEF BellInv
    <3>1. PICK q : x4' = (x4 \ {m}) \cup {q}
      BY <2>5 DEF B!Marked
    <3>2. x5' \subseteq Notes /\ x6' = x6
      BY <2>5, <2>a, <3>0 DEF B!Marked
    <3>3. IsFiniteSet(x4 \ {m}) /\ Cardinality(x4 \ {m}) = Cardinality(x4) - 1
      BY <2>a, FS_RemoveElement
    <3>4. IsFiniteSet(x4') /\ (Cardinality(x4') = Cardinality(x4 \ {m}) \/ Cardinality(x4') = Cardinality(x4 \ {m}) + 1)
      BY <3>1, <3>3, FS_AddElement
    <3> QED BY <1>n, <2>a, <3>2, <3>3, <3>4 DEF BellTypes
  <2> QED BY <1>2, <2>1, <2>2, <2>3, <2>4, <2>5 DEF B!Next, B!MarkRead, B!MarkAllRead
<1>3. BellInv /\ BellTypes => B!TypeOK
  <2> SUFFICES ASSUME BellInv, BellTypes PROVE B!TypeOK
    OBVIOUS
  <2>1. x3 \in BOOLEAN
    BY Zenon DEF BellInv
  <2>2. B!Cardinality(x4) <= MaxMarks
    BY <1>0 DEF BellTypes
  <2> QED BY <2>1, <2>2 DEF BellInv, BellTypes, B!TypeOK
<1> QED BY <1>1, <1>2, <1>3

\* No delivery is tried, and fails, more often than it may.
NotesTypes ==
  /\ x7 \subseteq N!Ids \X (1..MaxAttempts)
  /\ x8 \subseteq Channels /\ x9 \in Reaches /\ x10 \in 0..MaxRestarts
  /\ \A n \in N!Ids : x4[n] <= MaxAttempts /\ x12[n] <= MaxAttempts

LEMMA NotesTyped ==
  ASSUME MaxAttempts \in Nat \ {0}, MaxRestarts \in Nat
  PROVE  /\ N!Init => NotesTypes
         /\ NotesInv /\ NotesTypes /\ N!Next => NotesTypes'
         /\ NotesInv /\ NotesTypes => N!TypeOK
<1>1. N!Init => NotesTypes
  BY DEF N!Init, NotesTypes
<1>2. ASSUME NotesInv, NotesTypes, N!Next PROVE NotesTypes'
  <2>a. /\ x7 \subseteq N!Ids \X (1..MaxAttempts)
        /\ x8 \subseteq Channels /\ x9 \in Reaches /\ x10 \in 0..MaxRestarts
        /\ \A n \in N!Ids : x4[n] <= MaxAttempts /\ x12[n] <= MaxAttempts
    BY <1>2 DEF NotesTypes
  <2>b. x4 \in [N!Ids -> Nat] /\ x12 \in [N!Ids -> Nat] /\ \A n \in N!Ids : Note(n)
    BY <1>2 DEF NotesInv, NoteType
  <2>1. ASSUME UNCHANGED <<x4, x7, x8, x9, x10, x12>> PROVE NotesTypes'
    BY <2>1, <2>a DEF NotesTypes
  <2>2. ASSUME NEW n \in N!Ids, N!Send(n) PROVE NotesTypes'
    BY <2>1, <2>2 DEF N!Send, N!elsewhere
  <2>3. ASSUME NEW n \in N!Ids, N!Filter(n) PROVE NotesTypes'
    <3>1. UNCHANGED <<x8, x9, x10, x12>>
      BY <2>3 DEF N!Filter, N!elsewhere
    <3>2. (x4' = x4 /\ x7' = x7) \/ (x4' = [x4 EXCEPT ![n] = 1] /\ x7' = x7 \cup {<<n, 1>>})
      BY <2>3 DEF N!Filter, N!Enqueue
    <3> QED BY <2>a, <2>b, <3>1, <3>2 DEF NotesTypes
  <2>4. ASSUME NEW n \in N!Ids, N!Dispatch(n) PROVE NotesTypes'
    BY <2>1, <2>4 DEF N!Dispatch, N!elsewhere
  <2>5. ASSUME NEW n \in N!Ids, N!Judge(n) PROVE NotesTypes'
    <3>1. UNCHANGED <<x4, x8, x9, x10>> /\ x2[n] = "dispatch"
      BY <2>5 DEF N!Judge, N!elsewhere
    <3>2. x7' = x7 \/ (x4[n] < MaxAttempts /\ x7' = x7 \cup {<<n, x4[n] + 1>>})
      BY <2>5 DEF N!Judge, N!Again, N!Retry, N!Enqueue
    <3>3. x4[n] \in 1..MaxAttempts /\ x12[n] = x4[n] - 1
      BY <2>b, <3>1 DEF Note
    <3>4. x12' = [x12 EXCEPT ![n] = IF x5[n] THEN @ + 1 ELSE @]
      BY <2>5 DEF N!Judge
    <3>5. x12'[n] <= MaxAttempts /\ \A m \in N!Ids \ {n} : x12'[m] = x12[m]
      <4>1. x12'[n] = x12[n] + 1 \/ x12'[n] = x12[n]
        BY <2>b, <3>4
      <4> QED BY <2>b, <3>3, <3>4, <4>1
    <3>6. x7' \subseteq N!Ids \X (1..MaxAttempts)
      BY <2>a, <3>2, <3>3
    <3> QED BY <2>a, <3>1, <3>5, <3>6 DEF NotesTypes
  <2>6. ASSUME NEW n \in N!Ids, N!Fire(n) PROVE NotesTypes'
    <3>1. UNCHANGED <<x7, x8, x9, x10, x12>> /\ x2[n] = "timer" /\ x4' = [x4 EXCEPT ![n] = @ + 1]
      BY <2>6 DEF N!Fire, N!elsewhere
    <3>2. x4[n] \in 1..(MaxAttempts - 1)
      BY <2>b, <3>1 DEF Note
    <3> QED BY <2>a, <2>b, <3>1, <3>2 DEF NotesTypes
  <2>7. ASSUME NEW n \in N!Ids, N!Select(n) \/ N!Update(n) \/ N!Throw(n) \/ N!MarkAsRead(n) PROVE NotesTypes'
    BY <2>1, <2>7 DEF N!Select, N!Update, N!Throw, N!MarkAsRead, N!elsewhere
  <2>8. CASE N!Restart
    BY <2>8, <2>a DEF N!Restart, NotesTypes
  <2>9. ASSUME NEW s \in SUBSET Channels, N!UpdatePreferences(s) PROVE NotesTypes'
    BY <2>9, <2>a DEF N!UpdatePreferences, N!service, NotesTypes
  <2> QED BY <1>2, <2>2, <2>3, <2>4, <2>5, <2>6, <2>7, <2>8, <2>9 DEF N!Next, N!Deliver
<1>3. NotesInv /\ NotesTypes => N!TypeOK
  <2> SUFFICES ASSUME NotesInv, NotesTypes PROVE N!TypeOK
    OBVIOUS
  <2>1. NoteType
    BY DEF NotesInv
  <2>2. x4 \in [N!Ids -> 0..MaxAttempts] /\ x12 \in [N!Ids -> 0..MaxAttempts]
    <3>1. x4 \in [N!Ids -> Nat] /\ x12 \in [N!Ids -> Nat]
      BY <2>1 DEF NoteType
    <3>2. \A n \in N!Ids : x4[n] \in 0..MaxAttempts /\ x12[n] \in 0..MaxAttempts
      BY <3>1 DEF NotesTypes
    <3> QED BY <3>1, <3>2
  <2> QED BY <2>1, <2>2, Zenon DEF NoteType, NotesTypes, N!TypeOK, NoteRows, NoteTodo, NoteMems
<1> QED BY <1>1, <1>2, <1>3

\* A call is about an itinerary that is stored, and so is what it is answered.
PlannerTypes ==
  /\ R!TypeOK
  /\ \A c \in x6 : /\ DOMAIN c = {"op", "no", "on", "answer", "gone"}
                   /\ c.op # "generate" => c.on \in DOMAIN x1
                   /\ c.answer # <<>> => c.answer[1] \in DOMAIN x1

LEMMA PlannerTyped ==
  ASSUME MaxHurries \in Nat
  PROVE  /\ R!Init => PlannerTypes
         /\ PlannerTypes /\ R!Next => PlannerTypes'
<1>n. MaxItineraries \in Nat \ {0} /\ MaxVersions \in Nat \ {0}
  BY NumbersAssumption
<1>c. \A s : R!Cardinality(s) = Cardinality(s)
  BY Zenon DEF R!Cardinality, Cardinality
<1>k. ASSUME NEW op, NEW no, NEW on
      PROVE  /\ DOMAIN R!Call(op, no, on) = {"op", "no", "on", "answer", "gone"}
             /\ R!Call(op, no, on).op = op /\ R!Call(op, no, on).on = on /\ R!Call(op, no, on).answer = <<>>
  BY DEF R!Call
<1>1. ASSUME R!Init PROVE PlannerTypes
  <2>1. x3 \in BOOLEAN /\ x4 \in BOOLEAN /\ x5 \in BOOLEAN /\ x7 \in BOOLEAN
    BY <1>1, Zenon DEF R!Init
  <2>2. x2 = R!Nothing /\ x8 \in 0..MaxHurries
    BY <1>1 DEF R!Init
  <2>3. CASE x1 = <<>> /\ x6 = {}
    BY <2>1, <2>2, <2>3 DEF PlannerTypes, R!TypeOK, R!Itineraries
  <2>4. CASE x1 = <<1>> /\ x6 = {R!Call("load", 0, 1)}
    <3>1. DOMAIN x1 = {1} /\ x1[1] = 1
      BY <2>4
    <3>2. \A c \in x6 : /\ DOMAIN c = {"op", "no", "on", "answer", "gone"}
                        /\ c.op = "load" /\ c.on = 1 /\ c.answer = <<>>
      BY <2>4, <1>k
    <3> QED BY <1>n, <2>1, <2>2, <3>1, <3>2 DEF PlannerTypes, R!TypeOK, R!Itineraries
  <2> QED BY <1>1, <2>3, <2>4 DEF R!Init
<1>2. ASSUME PlannerTypes, R!Next PROVE PlannerTypes'
  <2>a. /\ \A i \in DOMAIN x1 : i \in 1..MaxItineraries /\ x1[i] \in 1..MaxVersions
        /\ x2 = R!Nothing \/ x2[1] \in DOMAIN x1
        /\ \A c \in x6 : c.op \in {"generate", "modify", "load"}
        /\ x8 \in 0..MaxHurries
        /\ \A c \in x6 : /\ DOMAIN c = {"op", "no", "on", "answer", "gone"}
                         /\ c.op # "generate" => c.on \in DOMAIN x1
                         /\ c.answer # <<>> => c.answer[1] \in DOMAIN x1
    BY <1>2 DEF PlannerTypes, R!TypeOK, R!Itineraries
  <2>b. x3 \in BOOLEAN /\ x4 \in BOOLEAN /\ x5 \in BOOLEAN /\ x7 \in BOOLEAN
    BY <1>2, Zenon DEF PlannerTypes, R!TypeOK
  <2>r. ASSUME /\ x3' \in BOOLEAN /\ x4' \in BOOLEAN /\ x5' \in BOOLEAN /\ x7' \in BOOLEAN
               /\ x8' \in 0..MaxHurries,
               x2' = R!Nothing \/ x2'[1] \in DOMAIN x1',
               DOMAIN x1 \subseteq DOMAIN x1',
               \A i \in DOMAIN x1' : i \in 1..MaxItineraries /\ x1'[i] \in 1..MaxVersions,
               \A c \in x6' \ x6 : /\ c.op \in {"generate", "modify", "load"}
                                   /\ DOMAIN c = {"op", "no", "on", "answer", "gone"}
                                   /\ c.op # "generate" => c.on \in DOMAIN x1'
                                   /\ c.answer # <<>> => c.answer[1] \in DOMAIN x1'
        PROVE  PlannerTypes'
    <3>1. \A c \in x6' : /\ c.op \in {"generate", "modify", "load"}
                         /\ DOMAIN c = {"op", "no", "on", "answer", "gone"}
                         /\ c.op # "generate" => c.on \in DOMAIN x1'
                         /\ c.answer # <<>> => c.answer[1] \in DOMAIN x1'
      BY <2>a, <2>r
    <3> QED BY <2>r, <3>1 DEF PlannerTypes, R!TypeOK, R!Itineraries, R!Nothing
  <2>1. CASE R!Generate
    <3>1. x4' \in BOOLEAN /\ x5' \in BOOLEAN
      BY <2>1, Zenon DEF R!Generate, R!Start
    <3>2. UNCHANGED <<x1, x2, x3, x7>> /\ x8' = x8 /\ x6' = x6 \cup {R!Call("generate", x8, 0)}
      BY <2>1 DEF R!Generate, R!Start
    <3> QED BY <2>a, <2>b, <2>r, <3>1, <3>2, <1>k
  <2>2. CASE R!Type
    <3>1. x3' \in BOOLEAN
      BY <2>2, Zenon DEF R!Type
    <3> QED BY <2>2, <2>a, <2>b, <2>r, <3>1 DEF R!Type
  <2>3. CASE R!Modify
    <3>1. x4' \in BOOLEAN /\ x5' \in BOOLEAN
      BY <2>3, Zenon DEF R!Modify, R!Start
    <3>2. /\ UNCHANGED <<x1, x2, x3, x7>> /\ x6' = x6 \cup {R!Call("modify", x8', x2[1])}
          /\ x2 # R!Nothing /\ (x8' = x8 \/ (x8 < MaxHurries /\ x8' = x8 + 1))
      BY <2>3 DEF R!Modify, R!Start
    <3>3. \A c \in x6' \ x6 : /\ c.op = "modify" /\ c.on = x2[1] /\ c.answer = <<>>
                              /\ DOMAIN c = {"op", "no", "on", "answer", "gone"}
      <4>1. PICK h : h = x8'
        OBVIOUS
      <4> QED BY <3>2, <4>1, <1>k
    <3> QED BY <2>a, <2>b, <2>r, <3>1, <3>2, <3>3
  <2>4. ASSUME NEW c \in x6, R!Serve(c) PROVE PlannerTypes'
    <3> DEFINE i == IF c.op = "generate" THEN R!Cardinality(DOMAIN x1) + 1 ELSE c.on
               v == CASE c.op = "generate" -> 1
                      [] c.op = "modify"   -> x1[i] + 1
                      [] c.op = "load"     -> x1[i]
    <3>1. /\ i <= MaxItineraries /\ v <= MaxVersions
          /\ x1' = [j \in (DOMAIN x1) \cup {i} |-> IF j = i THEN v ELSE x1[j]]
          /\ x6' = (x6 \ {c}) \cup {[d EXCEPT !.answer = <<i, v>>] : d \in {c} \cap R!Awaited}
          /\ UNCHANGED <<x2, x3, x4, x5, x7, x8>>
      BY <2>4 DEF R!Serve, R!Itineraries
    <3>2. i \in 1..MaxItineraries
      <4>1. CASE c.op = "generate"
        <5>1. IsFiniteSet(1..MaxItineraries)
          <6>1. ASSUME NEW n \in Nat PROVE IsFiniteSet(1..n)
            BY FS_Interval
          <6> QED BY <1>n, <6>1
        <5>2. IsFiniteSet(DOMAIN x1)
          BY <2>a, <5>1, FS_Subset
        <5>3. R!Cardinality(DOMAIN x1) \in Nat
          BY <5>2, <1>c, FS_CardinalityType
        <5> QED BY <1>n, <3>1, <4>1, <5>3
      <4>2. CASE c.op # "generate"
        BY <2>a, <4>2
      <4> QED BY <4>1, <4>2
    <3>3. v \in 1..MaxVersions
      <4>1. CASE c.op = "generate"
        BY <1>n, <4>1
      <4>2. CASE c.op # "generate" /\ c.op = "modify"
        <5>1. i = c.on /\ x1[i] \in 1..MaxVersions /\ v = x1[i] + 1
          BY <2>a, <4>2
        <5> HIDE DEF v, i
        <5> QED BY <1>n, <3>1, <5>1
      <4>3. CASE c.op # "generate" /\ c.op # "modify" /\ c.op = "load"
        <5>1. i = c.on /\ x1[i] \in 1..MaxVersions /\ v = x1[i]
          BY <2>a, <4>3
        <5> HIDE DEF v, i
        <5> QED BY <1>n, <3>1, <5>1
      <4> QED BY <2>a, <4>1, <4>2, <4>3
    <3> HIDE DEF i, v
    <3>4. DOMAIN x1' = (DOMAIN x1) \cup {i} /\ \A j \in DOMAIN x1' : j \in 1..MaxItineraries /\ x1'[j] \in 1..MaxVersions
      BY <2>a, <3>1, <3>2, <3>3
    <3>5. \A d \in x6' \ x6 : /\ d.op = c.op /\ d.on = c.on /\ d.answer[1] = i
                              /\ DOMAIN d = {"op", "no", "on", "answer", "gone"}
      <4>1. DOMAIN c = {"op", "no", "on", "answer", "gone"}
        BY <2>a
      <4>2. \A d \in x6' \ x6 : d = [c EXCEPT !.answer = <<i, v>>]
        BY <3>1
      <4> QED BY <4>1, <4>2
    <3> QED BY <2>a, <2>b, <2>r, <3>1, <3>4, <3>5
  <2>5. ASSUME NEW c \in x6, R!Answered(c) PROVE PlannerTypes'
    <3>1. x3' \in BOOLEAN /\ x4' \in BOOLEAN
      BY <2>5, Zenon DEF R!Answered
    <3>2. x6' \subseteq x6 /\ x2' = c.answer /\ c.answer # <<>> /\ UNCHANGED <<x1, x5, x7, x8>>
      BY <2>5 DEF R!Answered, R!Show
    <3>3. x2'[1] \in DOMAIN x1'
      BY <2>a, <3>2
    <3> QED BY <2>a, <2>b, <2>r, <3>1, <3>2, <3>3
  <2>6. ASSUME NEW c \in x6, R!Failed(c) PROVE PlannerTypes'
    <3>1. x4' \in BOOLEAN /\ x5' \in BOOLEAN /\ x7' \in BOOLEAN
      BY <2>6, Zenon DEF R!Failed
    <3>2. UNCHANGED <<x1, x2, x3, x8>> /\ x6' \subseteq x6 \cup {[c EXCEPT !.gone = TRUE]}
      BY <2>6 DEF R!Failed
    <3>3. DOMAIN c = {"op", "no", "on", "answer", "gone"}
      BY <2>a
    <3> DEFINE d == [c EXCEPT !.gone = TRUE]
    <3>4. d.op = c.op /\ d.on = c.on /\ d.answer = c.answer /\ DOMAIN d = DOMAIN c
      BY <3>3
    <3> HIDE DEF d
    <3>5. x6' \subseteq x6 \cup {d}
      BY <3>2 DEF d
    <3> QED BY <2>a, <2>b, <2>r, <3>1, <3>2, <3>4, <3>5
  <2> QED BY <1>2, <2>1, <2>2, <2>3, <2>4, <2>5, <2>6 DEF R!Next
<1> QED BY <1>1, <1>2
=============================================================================
