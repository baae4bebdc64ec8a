------------------------------ MODULE AuditTrail ------------------------------
(***************************************************************************)
(* The administrators' audit log (admin.service.ts): every decision reads  *)
(* a row, checks it, updates it and then saves an entry, each in a         *)
(* statement of its own, while other administrators do the same, and while *)
(* others write the same columns and log nothing.                          *)
(***************************************************************************)
EXTENDS Naturals, Sequences, FiniteSets

CONSTANTS
  Admins,
  MaxUpdates  \* bound on the updates

VARIABLES
  row,         \* the user and the experience that are decided about
  log,         \* audit_logs, by their timestamp
  at,          \* of each administrator's request: where it is, and its action
  done,        \* history: the updates, in their order
  lost,        \* history: the actions whose entry was not saved
  overlapped,  \* history: the rows that two requests were about at once
  moved        \* history: the rows that others wrote since an administrator did

vars == <<row, log, at, done, lost, overlapped, moved>>

Acts == {"suspend_user", "unsuspend_user", "approve_experience", "reject_experience"}
Rows == {"user", "experience"}

\* users.locked and experiences.status, or no row.
States == [user |-> {"open", "locked"}, experience |-> {"pending", "active", "inactive", "gone"}]

resource(act) == IF act \in {"suspend_user", "unsuspend_user"} THEN "user" ELSE "experience"

\* What the row must be, and what it becomes.
Before(act) ==
  CASE act = "suspend_user" -> "open" [] act = "unsuspend_user" -> "locked" [] OTHER -> "pending"
After(act) ==
  CASE act = "suspend_user" -> "locked" [] act = "unsuspend_user" -> "open"
    [] act = "approve_experience" -> "active" [] OTHER -> "inactive"

Idle == [step |-> "idle", act |-> "none"]

-----------------------------------------------------------------------------
\* The row is read; what it is not fit for is refused.
Read(a, act) ==
  /\ at[a] = Idle /\ row[resource(act)] = Before(act)
  /\ at' = [at EXCEPT ![a] = [step |-> "update", act |-> act]]
  /\ overlapped' =
       IF \E b \in Admins : at[b] # Idle /\ resource(at[b].act) = resource(act)
       THEN overlapped \cup {resource(act)} ELSE overlapped
  /\ UNCHANGED <<row, log, done, lost, moved>>

\* update() by id, whatever the row says by now; without a row it does nothing.
Update(a) ==
  /\ at[a].step = "update" /\ Len(done) < MaxUpdates
  /\ LET r == resource(at[a].act) IN
       IF row[r] = "gone" THEN UNCHANGED <<row, moved>>
       ELSE row' = [row EXCEPT ![r] = After(at[a].act)] /\ moved' = moved \ {r}
  /\ done' = Append(done, at[a].act)
  /\ at' = [at EXCEPT ![a].step = "log"]
  /\ UNCHANGED <<log, lost, overlapped>>

\* The timestamp of the entry is the time when it is written.
logAction(a) ==
  /\ at[a].step = "log"
  /\ log' = Append(log, [adminId |-> a, action |-> at[a].act])
  /\ at' = [at EXCEPT ![a] = Idle]
  /\ UNCHANGED <<row, done, lost, overlapped, moved>>

\* The server stops, or the entry is not saved: the update stays.
Drop(a) ==
  /\ at[a] # Idle
  /\ lost' = IF at[a].step = "log" THEN Append(lost, at[a].act) ELSE lost
  /\ at' = [at EXCEPT ![a] = Idle]
  /\ UNCHANGED <<row, log, done, overlapped, moved>>

\* A login unlocks the user, wrong passwords lock it and so does the deletion of
\* the account (auth.service.ts); the guide sets the status of the experience,
\* deletes it, or saves what was read before either (experiences.service.ts).
Others(r, s) ==
  /\ row' = [row EXCEPT ![r] = s]
  /\ moved' = moved \cup {r}
  /\ UNCHANGED <<log, at, done, lost, overlapped>>

\* What the administrator is shown: the entries of some administrators, by their
\* place in the log, the newest first.
AuditLogs(of) == {i \in DOMAIN log : log[i].adminId \in of}
FirstOf(i, among) == i \in among /\ \A j \in among : j <= i

Init ==
  /\ row = [user |-> "open", experience |-> "pending"]
  /\ log = <<>> /\ done = <<>> /\ lost = <<>>
  /\ at = [a \in Admins |-> Idle] /\ overlapped = {} /\ moved = {}

Next ==
  \/ \E a \in Admins :
       (\E act \in Acts : Read(a, act)) \/ Update(a) \/ logAction(a) \/ Drop(a)
  \/ \E r \in Rows : \E s \in States[r] : Others(r, s)

Spec == Init /\ [][Next]_vars

-----------------------------------------------------------------------------
(* Properties.                                                             *)

\* Every variable has its type.
TypeOK ==
  /\ \A r \in Rows : row[r] \in States[r]
  /\ log \in Seq([adminId : Admins, action : Acts])
  /\ at \in [Admins -> [step : {"idle", "update", "log"}, act : Acts \cup {"none"}]]
  /\ done \in Seq(Acts) /\ lost \in Seq(Acts) /\ overlapped \cup moved \subseteq Rows

Times(s, act)  == Cardinality({i \in DOMAIN s : s[i] = act})
Logged(act)    == Cardinality({i \in DOMAIN log : log[i].action = act})
Unlogged(act)  == Cardinality({a \in Admins : at[a] = [step |-> "log", act |-> act]})

\* The log has an entry for everything that was done and for nothing else, but
\* for the requests under way and for those whose last statement was lost.
EveryUpdateIsLogged ==
  \A act \in Acts : Times(done, act) = Logged(act) + Unlogged(act) + Times(lost, act)

\* The newest entry about a row says what the row is: unless two requests about
\* it overlapped, for their entries may then come in the other order, or others
\* have written the row since, who leave no entry.
NewestTellsRow ==
  \A r \in Rows \ (overlapped \cup moved) :
    (\A a \in Admins : at[a] # Idle => resource(at[a].act) # r)
      /\ (\A i \in DOMAIN lost : resource(lost[i]) # r)
    => \A i \in DOMAIN log :
         FirstOf(i, {j \in AuditLogs(Admins) : resource(log[j].action) = r}) => After(log[i].action) = row[r]
=============================================================================
