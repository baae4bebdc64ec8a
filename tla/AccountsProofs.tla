--------------------------- MODULE AccountsProofs ---------------------------
(* Theorems of the accounts, for every value of the constants. *)
EXTENDS Accounts, FiniteSetTheorems, TLAPS

-----------------------------------------------------------------------------
(* Rows.                                                                   *)

\* Columns of two user rows make a user row.
LEMMA MergeIsRow ==
  ASSUME NEW row \in UserRow, NEW entity \in UserRow, NEW cols
  PROVE  Merge(row, entity, cols) \in UserRow
BY DEF Merge, Columns, UserRow

\* What save() writes is the entity: the columns it leaves out did not differ.
LEMMA SaveWritesEntity ==
  ASSUME NEW row \in UserRow, NEW entity \in UserRow
  PROVE  Merge(row, entity, Changed(entity, row)) = entity
BY DEF Merge, Changed, Columns, UserRow

\* The rows the requests write are user rows.
LEMMA RowsTyped ==
  /\ NoUser \in UserRow
  /\ \A p \in Passwords \cup {None}, v \in BOOLEAN : NewUser(p, v) \in UserRow
BY AccountsAssumption DEF NoUser, NewUser, Row, UserRow

\* So are the rows they make of another, and these are their columns.
LEMMA UpdatesTyped ==
  ASSUME NEW row \in UserRow
  PROVE  /\ Reset(row) \in UserRow
         /\ \A n \in 0..MaxCount : Counted(row, n) \in UserRow /\ LockedOut(row, n) \in UserRow
         /\ \A p \in Passwords : WithPassword(row, p) \in UserRow
         /\ Erased(row) \in UserRow
<1>z. 0 \in 0..MaxCount
  BY AccountsAssumption
<1>1. Reset(row) \in UserRow
  BY <1>z, Zenon DEF UserRow, Reset
<1>2. \A n \in 0..MaxCount : Counted(row, n) \in UserRow /\ LockedOut(row, n) \in UserRow
  BY Zenon DEF UserRow, Counted, LockedOut
<1>3. \A p \in Passwords : WithPassword(row, p) \in UserRow
  BY Zenon DEF UserRow, WithPassword
<1>4. Erased(row) \in UserRow
  BY Zenon DEF UserRow, Erased
<1> QED BY <1>1, <1>2, <1>3, <1>4

\* The columns of the rows the requests make.
LEMMA ResetColumns ==
  ASSUME NEW row \in UserRow
  PROVE  /\ Reset(row).state = row.state /\ Reset(row).password = row.password
         /\ Reset(row).verified = row.verified /\ Reset(row).locked = FALSE
         /\ Reset(row).until = "null" /\ Reset(row).failed = 0
<1>1. DOMAIN row = Columns
  BY DEF UserRow, Columns
<1> QED BY <1>1 DEF Reset, Columns

LEMMA CountedColumns ==
  ASSUME NEW row \in UserRow, NEW n
  PROVE  /\ Counted(row, n).state = row.state /\ Counted(row, n).password = row.password
         /\ Counted(row, n).verified = row.verified /\ Counted(row, n).locked = row.locked
         /\ Counted(row, n).until = row.until /\ Counted(row, n).failed = n
<1>1. DOMAIN row = Columns
  BY DEF UserRow, Columns
<1> QED BY <1>1 DEF Counted, Columns

LEMMA LockedOutColumns ==
  ASSUME NEW row \in UserRow, NEW n
  PROVE  /\ LockedOut(row, n).state = row.state /\ LockedOut(row, n).password = row.password
         /\ LockedOut(row, n).verified = row.verified /\ LockedOut(row, n).locked = TRUE
         /\ LockedOut(row, n).until = "future" /\ LockedOut(row, n).failed = n
<1>1. DOMAIN row = Columns
  BY DEF UserRow, Columns
<1> QED BY <1>1 DEF LockedOut, Columns

LEMMA PasswordColumns ==
  ASSUME NEW row \in UserRow, NEW p
  PROVE  /\ WithPassword(row, p).state = row.state /\ WithPassword(row, p).password = p
         /\ WithPassword(row, p).verified = row.verified /\ WithPassword(row, p).locked = row.locked
         /\ WithPassword(row, p).until = row.until /\ WithPassword(row, p).failed = row.failed
<1>1. DOMAIN row = Columns
  BY DEF UserRow, Columns
<1> QED BY <1>1 DEF WithPassword, Columns

LEMMA ErasedColumns ==
  ASSUME NEW row \in UserRow
  PROVE  /\ Erased(row).state = "deleted" /\ Erased(row).password = None
         /\ Erased(row).verified = FALSE /\ Erased(row).locked = TRUE
         /\ Erased(row).until = row.until /\ Erased(row).failed = row.failed
<1>1. DOMAIN row = Columns
  BY DEF UserRow, Columns
<1> QED BY <1>1 DEF Erased, Columns

-----------------------------------------------------------------------------
(* Type correctness.                                                       *)

\* A worker is in a save() that goes on at label.
Saves(w, label) == pc[w] \in {"select", "update"} /\ then[w] = label

\* What a request names is of the kind its next step needs, and a login that
\* compares has room to count one more failure.
RequestOK(w) ==
  /\ pc[w] # "idle" => job[w].user \in Users
  /\ pc[w] \in {"register", "hash"} \/ Saves(w, "redeem") => job[w].word \in Passwords
  /\ pc[w] \in {"hash", "redeem"} \/ Saves(w, "redeem") => job[w].key \in Tokens
  /\ pc[w] = "photo" => job[w].word \in ProfileData
  /\ pc[w] = "decide" => job[w].word \in {"approved", "rejected"}
  /\ pc[w] = "compare" \/ Saves(w, "compare") => mem[w].failed < MaxCount

TypeInv == TypeOK /\ \A w \in Workers : RequestOK(w)

TablesOK ==
  /\ user \in [Users -> UserRow]
  /\ profile \in [Users -> ProfileData]
  /\ badge \in [Users -> Verdict]
  /\ request \in [Users -> Verdict]
  /\ token \in [Users -> SUBSET Tokens]
LocalsOK ==
  /\ pc \in [Workers -> PcLabels]
  /\ job \in [Workers -> [user : Users \cup {None}, key : Tokens \cup {None},
                          word : Passwords \cup {None} \cup ProfileData \cup Verdict]]
  /\ mem \in [Workers -> UserRow]
  /\ dirty \in [Workers -> SUBSET Columns]
  /\ then \in [Workers -> PcLabels]
  /\ \A w \in Workers : RequestOK(w)
HistoryOK ==
  /\ width \in Widths
  /\ suspended \in [Users -> BOOLEAN] /\ redeemed \in [Users -> SUBSET Tokens]
  /\ chosen \in [Users -> Passwords \cup {None}]
  /\ guesses \in [Users -> 0..MaxFailedAttempts] /\ streak \in [Users -> 0..MaxFailedAttempts]

\* The three parts are the whole.
LEMMA PartsOfType == TypeInv <=> TablesOK /\ LocalsOK /\ HistoryOK
BY DEF TypeInv, TypeOK, TablesOK, LocalsOK, HistoryOK

\* A request that ends leaves nothing behind.
LEMMA FinishTyped ==
  ASSUME LocalsOK, NEW w \in Workers, Finish(w)
  PROVE  LocalsOK'
<1>1. NoUser \in UserRow /\ NoJob \in [user : Users \cup {None}, key : Tokens \cup {None},
                          word : Passwords \cup {None} \cup ProfileData \cup Verdict]
  BY RowsTyped DEF NoJob
<1>2. /\ pc' \in [Workers -> PcLabels] /\ then' \in [Workers -> PcLabels]
      /\ job' \in [Workers -> [user : Users \cup {None}, key : Tokens \cup {None},
                          word : Passwords \cup {None} \cup ProfileData \cup Verdict]]
      /\ mem' \in [Workers -> UserRow] /\ dirty' \in [Workers -> SUBSET Columns]
  BY <1>1 DEF LocalsOK, Finish, Goto, PcLabels
<1>3. \A v \in Workers : RequestOK(v)'
  BY DEF LocalsOK, Finish, Goto, RequestOK, Saves
<1> QED BY <1>2, <1>3 DEF LocalsOK

\* A request that begins names a user, and holds the row it has read.
LEMMA BeginTyped ==
  ASSUME TablesOK, LocalsOK, NEW w \in Workers, NEW u \in Users, NEW x, NEW key, NEW ok, NEW label,
         BeginWith(w, u, x, key, ok, label), key \in Tokens \/ (key = None /\ label # "hash"),
         \/ x \in Passwords /\ label \in {"register", "hash"}
         \/ x = None /\ label \in {"grant", "suspend", "unsuspend"}
         \/ x \in ProfileData /\ label \in {"adopt", "grant", "photo", "anonymize"}
         \/ x \in {"approved", "rejected"} /\ label = "decide"
  PROVE  LocalsOK'
<1>1. CASE ok
  <2>1. /\ pc' \in [Workers -> PcLabels] /\ then' \in [Workers -> PcLabels]
        /\ job' \in [Workers -> [user : Users \cup {None}, key : Tokens \cup {None},
                            word : Passwords \cup {None} \cup ProfileData \cup Verdict]]
        /\ mem' \in [Workers -> UserRow] /\ dirty' \in [Workers -> SUBSET Columns]
    <3>1. /\ pc' = [pc EXCEPT ![w] = label] /\ job' = [job EXCEPT ![w] = [user |-> u, word |-> x, key |-> key]]
          /\ mem' = [mem EXCEPT ![w] = user[u]] /\ dirty' = dirty /\ then' = then
      BY <1>1 DEF Begin, BeginWith, Took, Goto
    <3>2. label \in PcLabels /\ x \in Passwords \cup {None} \cup ProfileData \cup Verdict
      BY DEF PcLabels, Verdict
    <3>3. user[u] \in UserRow
      BY DEF TablesOK
    <3>4. [user |-> u, word |-> x, key |-> key] \in [user : Users \cup {None}, key : Tokens \cup {None}, word : Passwords \cup {None} \cup ProfileData \cup Verdict]
      BY <3>2
    <3>5. pc' \in [Workers -> PcLabels] /\ then' \in [Workers -> PcLabels] /\ dirty' \in [Workers -> SUBSET Columns]
      BY <3>1, <3>2 DEF LocalsOK
    <3>6. mem' \in [Workers -> UserRow]
      BY <3>1, <3>3 DEF LocalsOK
    <3>7. job' \in [Workers -> [user : Users \cup {None}, key : Tokens \cup {None}, word : Passwords \cup {None} \cup ProfileData \cup Verdict]]
      BY <3>1, <3>4 DEF LocalsOK
    <3> QED BY <3>5, <3>6, <3>7
  <2>2. \A v \in Workers : RequestOK(v)'
    BY <1>1 DEF LocalsOK, Begin, BeginWith, Took, Goto, RequestOK, Saves
  <2> QED BY <2>1, <2>2 DEF LocalsOK
<1>2. CASE ~ok
  BY <1>2 DEF LocalsOK, Begin, BeginWith, locals, RequestOK, Saves
<1> QED BY <1>1, <1>2

\* A request that goes into save() keeps what it names.
LEMMA SaveTyped ==
  ASSUME LocalsOK, NEW w \in Workers, NEW entity \in UserRow, NEW label \in PcLabels,
         Save(w, entity, label), UNCHANGED dirty, job[w].user \in Users, UNCHANGED job,
         label = "redeem" => job[w].word \in Passwords /\ job[w].key \in Tokens,
         label = "compare" => entity.failed < MaxCount
  PROVE  LocalsOK'
<1>1. /\ pc' \in [Workers -> PcLabels] /\ then' \in [Workers -> PcLabels]
      /\ mem' \in [Workers -> UserRow]
  BY DEF LocalsOK, Save, Goto, PcLabels
<1>2. \A v \in Workers : RequestOK(v)'
  BY DEF LocalsOK, Save, Goto, RequestOK, Saves
<1> QED BY <1>1, <1>2 DEF LocalsOK

\* A request that only goes on.
LEMMA GotoTyped ==
  ASSUME LocalsOK, NEW w \in Workers, NEW label \in {"profile", "grant"},
         Goto(w, label), UNCHANGED <<job, mem, dirty, then>>, pc[w] # "idle"
  PROVE  LocalsOK'
BY DEF LocalsOK, Goto, RequestOK, Saves, PcLabels

\* The steps of a request that has begun.
LEMMA SaveUpdateTyped ==
  ASSUME TypeInv, NEW w \in Workers, SaveUpdate(w)
  PROVE  TypeInv'
<1> DEFINE u == job[w].user
<1>0. TablesOK /\ LocalsOK /\ HistoryOK /\ RequestOK(w)
  BY PartsOfType DEF TypeInv
<1>1. u \in Users /\ pc[w] = "update" /\ (then[w] = "redeem" => job[w].word \in Passwords /\ job[w].key \in Tokens)
  BY <1>0 DEF SaveUpdate, RequestOK, Saves
<1>2. user[u] \in UserRow /\ mem[w] \in UserRow
  BY <1>0, <1>1 DEF TablesOK, LocalsOK
<1>3. Merge(user[u], mem[w], dirty[w]) \in UserRow
  BY <1>2, MergeIsRow
<1>4. TablesOK'
  BY <1>0, <1>1, <1>3 DEF TablesOK, SaveUpdate
<1>5. HistoryOK'
  <2>1. chosen' \in [Users -> Passwords \cup {None}] /\ redeemed' \in [Users -> SUBSET Tokens]
    BY <1>0, <1>1 DEF HistoryOK, SaveUpdate
  <2>2. guesses' \in [Users -> 0..MaxFailedAttempts] /\ streak' \in [Users -> 0..MaxFailedAttempts]
    BY <1>0, <1>1, AccountsAssumption DEF HistoryOK, SaveUpdate
  <2>3. width' \in Widths /\ suspended' \in [Users -> BOOLEAN]
    BY <1>0 DEF HistoryOK, SaveUpdate
  <2> QED BY <2>1, <2>2, <2>3 DEF HistoryOK
<1>6. LocalsOK'
  <2>1. CASE then[w] \in {"grant", "redeem", "compare"}
    <3>1. Goto(w, then[w]) /\ UNCHANGED <<job, mem, dirty, then>>
      BY <2>1 DEF SaveUpdate
    <3>2. pc' \in [Workers -> PcLabels]
      BY <1>0, <2>1, <3>1 DEF LocalsOK, Goto, PcLabels
    <3>3. \A v \in Workers : RequestOK(v)'
      BY <1>0, <1>1, <2>1, <3>1 DEF LocalsOK, Goto, RequestOK, Saves
    <3> QED BY <1>0, <3>1, <3>2, <3>3 DEF LocalsOK
  <2>2. CASE then[w] \notin {"grant", "redeem", "compare"}
    <3>1. Finish(w)
      BY <2>2 DEF SaveUpdate
    <3> QED BY <1>0, <3>1, FinishTyped
  <2> QED BY <2>1, <2>2
<1> QED BY <1>4, <1>5, <1>6, PartsOfType, PTL

LEMMA SaveStepsTyped ==
  ASSUME TypeInv, NEW w \in Workers, SaveSelect(w) \/ LoginCompare(w) \/ ChangeHash(w) \/ DeleteProfile(w)
  PROVE  TypeInv'
<1> DEFINE u == job[w].user
<1>0. TablesOK /\ LocalsOK /\ HistoryOK /\ RequestOK(w)
  BY PartsOfType DEF TypeInv
<1>1. u \in Users /\ user[u] \in UserRow /\ mem[w] \in UserRow
  BY <1>0 DEF SaveSelect, LoginCompare, CompareWith, ChangeHash, DeleteProfile, RequestOK, TablesOK, LocalsOK
<1>2. HistoryOK'
  BY <1>0 DEF HistoryOK, history, SaveSelect, LoginCompare, CompareWith, ChangeHash, DeleteProfile
<1>3. TablesOK'
  <2>1. CASE UNCHANGED tables
    BY <1>0, <2>1 DEF TablesOK, tables
  <2>2. CASE DeleteProfile(w)
    BY <1>0, <1>1, <2>2 DEF TablesOK, DeleteProfile, ProfileData
  <2> QED BY <2>1, <2>2 DEF SaveSelect, LoginCompare, CompareWith, ChangeHash
<1>4. LocalsOK'
  <2>1. CASE SaveSelect(w)
    <3>1. Changed(mem[w], user[u]) \subseteq Columns
      BY DEF Changed
    <3>2. dirty' \in [Workers -> SUBSET Columns] /\ pc' \in [Workers -> PcLabels]
      BY <1>0, <2>1, <3>1 DEF LocalsOK, SaveSelect, Goto, PcLabels
    <3>3. \A v \in Workers : RequestOK(v)'
      BY <1>0, <2>1 DEF LocalsOK, SaveSelect, Goto, RequestOK, Saves
    <3> QED BY <1>0, <2>1, <3>2, <3>3 DEF LocalsOK, SaveSelect
  <2>2. CASE LoginCompare(w)
    <3> DEFINE n == mem[w].failed + 1
    <3>1. n \in 0..MaxCount
      BY <1>0, <1>1, <2>2, AccountsAssumption DEF LoginCompare, CompareWith, RequestOK, UserRow
    <3>2. Reset(mem[w]) \in UserRow /\ LockedOut(mem[w], n) \in UserRow /\ Counted(mem[w], n) \in UserRow
      BY <1>1, <3>1, UpdatesTyped
    <3>3. PICK entity \in UserRow, label \in {"grant", "refuse"} :
             Save(w, entity, label) /\ UNCHANGED <<job, dirty>>
      BY <2>2, <3>2 DEF LoginCompare, CompareWith
    <3>4. label \in PcLabels
      BY DEF PcLabels
    <3> QED BY <1>0, <1>1, <3>3, <3>4, SaveTyped
  <2>3. CASE ChangeHash(w)
    <3>1. job[w].word \in Passwords /\ job[w].key \in Tokens
      BY <1>0, <2>3 DEF RequestOK, ChangeHash
    <3>2. WithPassword(mem[w], job[w].word) \in UserRow
      BY <1>1, <3>1, UpdatesTyped
    <3>3. "redeem" \in PcLabels
      BY DEF PcLabels
    <3>4. Save(w, WithPassword(mem[w], job[w].word), "redeem") /\ UNCHANGED <<job, dirty>>
      BY <2>3 DEF ChangeHash
    <3> QED BY <1>0, <1>1, <3>1, <3>2, <3>3, <3>4, SaveTyped
  <2>4. CASE DeleteProfile(w)
    <3>1. Erased(mem[w]) \in UserRow /\ "idle" \in PcLabels
      BY <1>1, UpdatesTyped DEF PcLabels
    <3>2. Save(w, Erased(mem[w]), "idle") /\ UNCHANGED <<job, dirty>>
      BY <2>4 DEF DeleteProfile
    <3> QED BY <1>0, <1>1, <3>1, <3>2, SaveTyped
  <2> QED BY <2>1, <2>2, <2>3, <2>4
<1> QED BY <1>2, <1>3, <1>4, PartsOfType, PTL

LEMMA EntryStepsTyped ==
  ASSUME TypeInv, NEW w \in Workers,
         RegisterInsert(w) \/ RegisterProfile(w) \/ OAuthInsert(w) \/ OAuthPhoto(w)
  PROVE  TypeInv'
<1> DEFINE u == job[w].user
<1>0. TablesOK /\ LocalsOK /\ HistoryOK /\ RequestOK(w)
  BY PartsOfType DEF TypeInv
<1>1. u \in Users /\ pc[w] # "idle"
  BY <1>0 DEF RegisterInsert, RegisterProfile, OAuthInsert, OAuthPhoto, RequestOK
<1>2. CASE RegisterInsert(w)
  <2>1. job[w].word \in Passwords /\ NewUser(job[w].word, FALSE) \in UserRow
    BY <1>0, <1>2, RowsTyped DEF RegisterInsert, RequestOK
  <2>2. TablesOK'
    BY <1>0, <1>1, <1>2, <2>1 DEF TablesOK, RegisterInsert
  <2>3. HistoryOK'
    BY <1>0, <1>1, <1>2, <2>1 DEF HistoryOK, RegisterInsert
  <2>4. LocalsOK'
    BY <1>0, <1>1, <1>2, FinishTyped, GotoTyped DEF RegisterInsert
  <2> QED BY <2>2, <2>3, <2>4, PartsOfType, PTL
<1>3. CASE RegisterProfile(w)
  <2>1. TablesOK'
    BY <1>0, <1>3 DEF TablesOK, RegisterProfile, ProfileData
  <2>2. HistoryOK'
    BY <1>0, <1>3 DEF HistoryOK, history, RegisterProfile
  <2>3. LocalsOK'
    BY <1>0, <1>1, <1>3, GotoTyped DEF RegisterProfile
  <2> QED BY <2>1, <2>2, <2>3, PartsOfType, PTL
<1>4. CASE OAuthInsert(w)
  <2>1. NewUser(None, TRUE) \in UserRow
    BY RowsTyped
  <2>2. TablesOK'
    BY <1>0, <1>1, <1>4, <2>1 DEF TablesOK, OAuthInsert
  <2>3. HistoryOK'
    BY <1>0, <1>4 DEF HistoryOK, history, OAuthInsert
  <2>4. LocalsOK'
    BY <1>0, <1>1, <1>4, FinishTyped, GotoTyped DEF OAuthInsert
  <2> QED BY <2>2, <2>3, <2>4, PartsOfType, PTL
<1>5. CASE OAuthPhoto(w)
  <2>1. job[w].word \in ProfileData
    BY <1>0, <1>5 DEF OAuthPhoto, RequestOK
  <2>2. TablesOK'
    BY <1>0, <1>5, <2>1 DEF TablesOK, OAuthPhoto
  <2>3. HistoryOK'
    BY <1>0, <1>5 DEF HistoryOK, history, OAuthPhoto
  <2>4. LocalsOK'
    BY <1>0, <1>1, <1>5, GotoTyped DEF OAuthPhoto
  <2> QED BY <2>2, <2>3, <2>4, PartsOfType, PTL
<1> QED BY <1>2, <1>3, <1>4, <1>5

LEMMA LastStepsTyped ==
  ASSUME TypeInv, NEW w \in Workers,
         Grant(w) \/ ChangeRedeem(w) \/ Suspend(w) \/ Unsuspend(w) \/ Decide(w) \/ Fail(w)
  PROVE  TypeInv'
<1> DEFINE u == job[w].user
<1>0. TablesOK /\ LocalsOK /\ HistoryOK /\ RequestOK(w)
  BY PartsOfType DEF TypeInv
<1>1. Finish(w)
  BY DEF Grant, ChangeRedeem, Suspend, Unsuspend, Decide, Fail
<1>2. LocalsOK'
  BY <1>0, <1>1, FinishTyped
<1>3. CASE Grant(w) \/ Fail(w)
  <2>1. TablesOK' /\ HistoryOK'
    BY <1>0, <1>3 DEF TablesOK, HistoryOK, Grant, Fail, tables, history
  <2> QED BY <1>2, <2>1, PartsOfType, PTL
<1>4. CASE ChangeRedeem(w)
  <2>1. TablesOK' /\ HistoryOK'
    BY <1>0, <1>4 DEF TablesOK, HistoryOK, ChangeRedeem, history
  <2> QED BY <1>2, <2>1, PartsOfType, PTL
<1>5. CASE Suspend(w) \/ Unsuspend(w)
  <2>1. u \in Users
    BY <1>0, <1>5 DEF RequestOK, Suspend, Unsuspend
  <2>2. user[u] \in UserRow
    BY <1>0, <2>1 DEF TablesOK
  <2>3. [user[u] EXCEPT !.locked = TRUE] \in UserRow
    BY <2>2, Zenon DEF UserRow
  <2>4. [user[u] EXCEPT !.locked = FALSE, !.until = "null"] \in UserRow
    BY <2>2, Zenon DEF UserRow
  <2>5. user' \in [Users -> UserRow]
    <3>1. CASE Suspend(w)
      BY <1>0, <2>1, <2>3, <3>1 DEF TablesOK, Suspend
    <3>2. CASE Unsuspend(w)
      BY <1>0, <2>1, <2>4, <3>2 DEF TablesOK, Unsuspend
    <3> QED BY <1>5, <3>1, <3>2
  <2>6. TablesOK'
    BY <1>0, <1>5, <2>5 DEF TablesOK, Suspend, Unsuspend
  <2>7. HistoryOK'
    <3>1. 0 \in 0..MaxFailedAttempts
      BY AccountsAssumption
    <3>2. CASE Suspend(w)
      BY <1>0, <3>2 DEF HistoryOK, Suspend
    <3>3. CASE Unsuspend(w)
      <4>1. streak' \in [Users -> 0..MaxFailedAttempts] /\ suspended' \in [Users -> BOOLEAN]
        BY <1>0, <3>1, <3>3 DEF HistoryOK, Unsuspend
      <4> QED BY <1>0, <3>3, <4>1 DEF HistoryOK, Unsuspend
    <3> QED BY <1>5, <3>2, <3>3
  <2> QED BY <1>2, <2>6, <2>7, PartsOfType, PTL
<1>6. CASE Decide(w)
  <2>1. u \in Users /\ job[w].word \in {"approved", "rejected"}
    BY <1>0, <1>6 DEF RequestOK, Decide
  <2>2. user[u] \in UserRow
    BY <1>0, <2>1 DEF TablesOK
  <2>3. \A b \in BOOLEAN : [user[u] EXCEPT !.verified = b] \in UserRow
    BY <2>2, Zenon DEF UserRow
  <2>4. (user[u].verified \/ job[w].word = "approved") \in BOOLEAN
    OBVIOUS
  <2>5. user' \in [Users -> UserRow]
    BY <1>0, <1>6, <2>1, <2>3, <2>4 DEF TablesOK, Decide
  <2>6. request' \in [Users -> Verdict] /\ badge' \in [Users -> Verdict]
    BY <1>0, <1>6, <2>1 DEF TablesOK, Decide, Verdict
  <2>7. TablesOK'
    BY <1>0, <1>6, <2>5, <2>6 DEF TablesOK, Decide
  <2>8. HistoryOK'
    BY <1>0, <1>6 DEF HistoryOK, Decide, history
  <2> QED BY <1>2, <2>7, <2>8, PartsOfType, PTL
<1> QED BY <1>3, <1>4, <1>5, <1>6

\* The first steps of the requests.
LEMMA ArrivalTyped ==
  ASSUME TypeInv, NEW w \in Workers, NEW u \in Users, Arrival(w, u)
  PROVE  TypeInv'
<1>0. TablesOK /\ LocalsOK /\ HistoryOK
  BY PartsOfType DEF TypeInv
<1>1. user[u] \in UserRow /\ profile[u] \in ProfileData
  BY <1>0 DEF TablesOK
<1>2. ASSUME UNCHANGED <<tables, history>>, width' = width, LocalsOK'  PROVE TypeInv'
  <2>1. TablesOK' /\ HistoryOK'
    BY <1>0, <1>2 DEF TablesOK, HistoryOK, tables, history
  <2> QED BY <1>2, <2>1, PartsOfType, PTL
<1>3. ASSUME NEW p \in Passwords, RegisterRead(w, u, p)  PROVE TypeInv'
  <2>1. LocalsOK'
    BY <1>0, <1>3, BeginTyped DEF Begin, RegisterRead
  <2> QED BY <1>2, <1>3, <2>1 DEF RegisterRead, Begin, BeginWith
<1>4. ASSUME NEW p \in Passwords, LoginRead(w, u, p)  PROVE TypeInv'
  <2>1. CASE UNCHANGED locals
    <3>1. LocalsOK'
      BY <1>0, <2>1 DEF LocalsOK, locals, RequestOK, Saves
    <3> QED BY <1>2, <1>4, <3>1 DEF LoginRead
  <2>2. CASE ~UNCHANGED locals
    <3>1. PICK entity \in {user[u], Reset(user[u])}, label \in {"compare", "select"} :
            /\ Took(w, u, p, None) /\ Goto(w, label) /\ mem' = [mem EXCEPT ![w] = entity] /\ UNCHANGED dirty
            /\ then' = IF label = "select" THEN [then EXCEPT ![w] = "compare"] ELSE then
            /\ user[u].failed < MaxCount
      BY <1>4, <2>2 DEF LoginRead, Save
    <3>2. Reset(user[u]) \in UserRow /\ Reset(user[u]).failed = 0 /\ user[u].failed \in Nat
      <4>1. Reset(user[u]) \in UserRow
        BY <1>1, UpdatesTyped
      <4>2. Reset(user[u]).failed = 0
        BY <1>1, ResetColumns
      <4>3. user[u].failed \in Nat
        BY <1>1, AccountsAssumption DEF UserRow
      <4> QED BY <4>1, <4>2, <4>3
    <3>3. entity \in UserRow /\ entity.failed < MaxCount
      BY <1>1, <3>1, <3>2, AccountsAssumption
    <3>4. /\ pc' \in [Workers -> PcLabels] /\ then' \in [Workers -> PcLabels]
          /\ job' \in [Workers -> [user : Users \cup {None}, key : Tokens \cup {None},
                            word : Passwords \cup {None} \cup ProfileData \cup Verdict]]
          /\ mem' \in [Workers -> UserRow] /\ dirty' \in [Workers -> SUBSET Columns]
      BY <1>0, <3>1, <3>3 DEF LocalsOK, Took, Goto, PcLabels
    <3>5. \A v \in Workers : RequestOK(v)'
      BY <1>0, <3>1, <3>3 DEF LocalsOK, Took, Goto, RequestOK, Saves
    <3>6. LocalsOK'
      BY <3>4, <3>5 DEF LocalsOK
    <3> QED BY <1>2, <1>4, <3>6 DEF LoginRead
  <2> QED BY <2>1, <2>2
<1>5. ASSUME Refresh(w, u)  PROVE TypeInv'
  <2>1. LocalsOK'
    BY <1>0, <1>5, BeginTyped DEF Begin, Refresh
  <2> QED BY <1>2, <1>5, <2>1 DEF Refresh, Begin, BeginWith
<1>6. ASSUME OAuthRead(w, u)  PROVE TypeInv'
  <2>1. PICK label \in {"adopt", "grant", "photo"} : Begin(w, u, profile[u], TRUE, label)
    BY <1>6 DEF OAuthRead
  <2>2. LocalsOK'
    BY <1>0, <1>1, <2>1, BeginTyped DEF Begin
  <2> QED BY <1>2, <1>6, <2>2 DEF OAuthRead, Begin, BeginWith
<1>7. ASSUME RequestReset(w, u)  PROVE TypeInv'
  <2>1. TablesOK' /\ LocalsOK'
    BY <1>0, <1>7 DEF TablesOK, LocalsOK, RequestReset, locals, RequestOK, Saves
  <2>2. HistoryOK'
    BY <1>0, <1>7 DEF HistoryOK, RequestReset
  <2> QED BY <2>1, <2>2, PartsOfType, PTL
<1>8. ASSUME NEW t \in Tokens, NEW p \in Passwords, ChangeRead(w, u, t, p)  PROVE TypeInv'
  <2>1. LocalsOK'
    BY <1>0, <1>8, BeginTyped DEF ChangeRead
  <2> QED BY <1>2, <1>8, <2>1 DEF ChangeRead, Begin, BeginWith
<1>9. ASSUME DeleteRead(w, u)  PROVE TypeInv'
  <2>1. LocalsOK'
    BY <1>0, <1>1, <1>9, BeginTyped DEF Begin, DeleteRead
  <2> QED BY <1>2, <1>9, <2>1 DEF DeleteRead, Begin, BeginWith
<1>10. ASSUME SuspendRead(w, u) \/ UnsuspendRead(w, u)  PROVE TypeInv'
  <2>1. LocalsOK'
    BY <1>0, <1>10, BeginTyped DEF Begin, SuspendRead, UnsuspendRead
  <2> QED BY <1>2, <1>10, <2>1 DEF SuspendRead, UnsuspendRead, Begin, BeginWith
<1>11. ASSUME NEW verdict \in {"approved", "rejected"}, DecideRead(w, u, verdict)  PROVE TypeInv'
  <2>1. LocalsOK'
    BY <1>0, <1>11, BeginTyped DEF Begin, DecideRead
  <2> QED BY <1>2, <1>11, <2>1 DEF DecideRead, Begin, BeginWith
<1> QED
  BY <1>3, <1>4, <1>5, <1>6, <1>7, <1>8, <1>9, <1>10, <1>11
     DEF Arrival, UserRoutes, SuspensionRoutes, VerificationRoutes

\* The environment.
LEMMA EnvironmentTyped ==
  ASSUME TypeInv, (\E u \in Users : Submit(u) \/ LockoutElapses(u) \/ \E t \in Tokens : TokenExpires(u, t)) \/ Restart
  PROVE  TypeInv'
<1>0. TablesOK /\ LocalsOK /\ HistoryOK
  BY PartsOfType DEF TypeInv
<1>1. HistoryOK'
  BY <1>0 DEF HistoryOK, history, TokenExpires, Submit, LockoutElapses, Restart
<1>2. ASSUME NEW u \in Users, NEW t, TokenExpires(u, t) \/ Submit(u)  PROVE TypeInv'
  <2>1. TablesOK'
    BY <1>0, <1>2 DEF TablesOK, TokenExpires, Submit, Verdict
  <2>2. LocalsOK'
    BY <1>0, <1>2 DEF LocalsOK, TokenExpires, Submit, locals, RequestOK, Saves
  <2> QED BY <1>1, <2>1, <2>2, PartsOfType, PTL
<1>3. ASSUME NEW u \in Users, LockoutElapses(u)  PROVE TypeInv'
  <2>1. \A row \in UserRow : [row EXCEPT !.until = "past"] \in UserRow
    BY Zenon DEF UserRow
  <2>2. \A row \in UserRow : [row EXCEPT !.until = "past"].failed = row.failed
    <3> SUFFICES ASSUME NEW row \in UserRow PROVE [row EXCEPT !.until = "past"].failed = row.failed
      OBVIOUS
    <3>1. "failed" \in DOMAIN row
      BY DEF UserRow
    <3> QED BY <3>1
  <2>3. TablesOK'
    BY <1>0, <1>3, <2>1 DEF TablesOK, LockoutElapses
  <2>4. mem' \in [Workers -> UserRow] /\ \A v \in Workers : mem'[v].failed = mem[v].failed
    BY <1>0, <1>3, <2>1, <2>2 DEF LocalsOK, LockoutElapses
  <2>5. \A v \in Workers : RequestOK(v)'
    BY <1>0, <1>3, <2>4 DEF LocalsOK, LockoutElapses, RequestOK, Saves
  <2>6. LocalsOK'
    BY <1>0, <1>3, <2>4, <2>5 DEF LocalsOK, LockoutElapses
  <2> QED BY <1>1, <2>3, <2>6, PartsOfType, PTL
<1>4. ASSUME Restart  PROVE TypeInv'
  <2>1. TablesOK'
    BY <1>0, <1>4 DEF TablesOK, Restart
  <2>2. LocalsOK'
    BY <1>4, RowsTyped DEF LocalsOK, Restart, RequestOK, Saves, NoJob, PcLabels
  <2> QED BY <1>1, <2>1, <2>2, PartsOfType, PTL
<1> QED BY <1>2, <1>3, <1>4

\* The program starts typed, and every step keeps it so.
LEMMA TypeStarts == Init => TypeInv
BY RowsTyped, AccountsAssumption
   DEF Init, TypeInv, TypeOK, RequestOK, Saves, NoJob, ProfileData, Verdict, PcLabels, Columns

LEMMA TypeStep == TypeInv /\ [Next]_vars => TypeInv'
<1> SUFFICES ASSUME TypeInv, [Next]_vars PROVE TypeInv'
  OBVIOUS
<1>1. ASSUME NEW w \in Workers, Step(w) PROVE TypeInv'
  BY <1>1, SaveUpdateTyped, SaveStepsTyped, EntryStepsTyped, LastStepsTyped DEF Step
<1>2. ASSUME NEW w \in Workers, Fail(w) PROVE TypeInv'
  BY <1>2, LastStepsTyped
<1>3. CASE UNCHANGED vars
  BY <1>3 DEF vars, tables, locals, history, TypeInv, TypeOK, RequestOK, Saves
<1> QED BY <1>1, <1>2, <1>3, ArrivalTyped, EnvironmentTyped DEF Next

\* Every variable keeps its type, and what a request works on is what its next
\* step needs.
THEOREM TypeCorrect == Spec => []TypeOK
<1>1. Spec => []TypeInv
  BY TypeStarts, TypeStep, PTL DEF Spec
<1>2. TypeInv => TypeOK
  BY DEF TypeInv
<1> QED BY <1>1, <1>2, PTL

-----------------------------------------------------------------------------
(* What a step leaves alone.                                               *)

SameWorker(v) ==
  pc'[v] = pc[v] /\ job'[v] = job[v] /\ mem'[v] = mem[v] /\ dirty'[v] = dirty[v] /\ then'[v] = then[v]

\* The locals of a request are its own.
LEMMA OthersKept ==
  ASSUME TypeInv, NEW w \in Workers, NEW v \in Workers, v # w,
         Step(w) \/ Fail(w) \/ \E u \in Users : Arrival(w, u)
  PROVE  SameWorker(v)
<1>0. LocalsOK
  BY PartsOfType
<1>1. Finish(w) => SameWorker(v)
  BY <1>0 DEF LocalsOK, Finish, Goto, SameWorker
<1>2. \A entity, label : Save(w, entity, label) /\ UNCHANGED <<job, dirty>> => SameWorker(v)
  BY <1>0 DEF LocalsOK, Save, Goto, SameWorker
<1>3. \A label : Goto(w, label) /\ UNCHANGED <<job, mem, dirty, then>> => SameWorker(v)
  BY <1>0 DEF LocalsOK, Goto, SameWorker
<1>4. \A u, x, key, ok, label : BeginWith(w, u, x, key, ok, label) => SameWorker(v)
  BY <1>0 DEF LocalsOK, Begin, BeginWith, Took, Goto, SameWorker, locals
<1>5. UNCHANGED locals => SameWorker(v)
  BY DEF locals, SameWorker
<1>6. ASSUME Step(w) PROVE SameWorker(v)
  <2>1. SaveSelect(w) => SameWorker(v)
    BY <1>0 DEF LocalsOK, SaveSelect, Goto, SameWorker
  <2>2. SaveUpdate(w) \/ RegisterInsert(w) \/ RegisterProfile(w) \/ OAuthInsert(w) \/ OAuthPhoto(w)
        => SameWorker(v)
    BY <1>1, <1>3 DEF SaveUpdate, RegisterInsert, RegisterProfile, OAuthInsert, OAuthPhoto
  <2>3. LoginCompare(w) \/ ChangeHash(w) \/ DeleteProfile(w) => SameWorker(v)
    BY <1>2 DEF LoginCompare, CompareWith, ChangeHash, DeleteProfile
  <2>4. Grant(w) \/ ChangeRedeem(w) \/ Suspend(w) \/ Unsuspend(w) \/ Decide(w) => SameWorker(v)
    BY <1>1 DEF Grant, ChangeRedeem, Suspend, Unsuspend, Decide
  <2> QED BY <1>6, <2>1, <2>2, <2>3, <2>4 DEF Step
<1>7. ASSUME NEW u \in Users, Arrival(w, u) PROVE SameWorker(v)
  <2>1. ASSUME NEW p \in Passwords, LoginRead(w, u, p) PROVE SameWorker(v)
    <3>1. CASE UNCHANGED locals
      BY <1>5, <3>1
    <3>2. CASE ~UNCHANGED locals
      BY <1>0, <2>1, <3>2 DEF LocalsOK, LoginRead, Took, Save, Goto, SameWorker
    <3> QED BY <3>1, <3>2
  <2>2. ASSUME RequestReset(w, u) PROVE SameWorker(v)
    BY <1>5, <2>2 DEF RequestReset
  <2> QED
    BY <1>4, <1>7, <2>1, <2>2
       DEF Arrival, UserRoutes, SuspensionRoutes, VerificationRoutes, RegisterRead, Refresh, OAuthRead,
           ChangeRead, DeleteRead, SuspendRead, UnsuspendRead, DecideRead, Begin
<1>8. Fail(w) => SameWorker(v)
  BY <1>1 DEF Fail
<1> QED BY <1>6, <1>7, <1>8

-----------------------------------------------------------------------------
(* Lockouts are earned, however many requests overlap.                     *)

\* A row that is locked out, or counts failures, is backed by n wrong passwords.
Earned(row, n) ==
  /\ row.until # "null" => n >= MaxFailedAttempts
  /\ row.failed <= n \/ n >= MaxFailedAttempts

\* The entity a request holds is backed by the wrong passwords answered, and by
\* the one that is just being answered.
GuessOK(w) ==
  pc[w] # "idle" =>
    Earned(mem[w], IF Saves(w, "refuse") THEN guesses[job[w].user] + 1 ELSE guesses[job[w].user])

GuessInv ==
  /\ \A u \in Users : Earned(user[u], guesses[u])
  /\ \A w \in Workers : GuessOK(w)

\* The columns in question are of these kinds.
LEMMA RowFacts ==
  ASSUME NEW row \in UserRow
  PROVE  row.failed \in Nat /\ row.failed <= MaxCount
BY AccountsAssumption DEF UserRow

\* More wrong passwords back a row as well.
LEMMA EarnedGrows ==
  ASSUME NEW row \in UserRow, NEW n \in Nat, NEW m \in Nat, n <= m, Earned(row, n)
  PROVE  Earned(row, m)
BY RowFacts, AccountsAssumption DEF Earned

\* So they do a row whose columns come from two that they back.
LEMMA EarnedMerge ==
  ASSUME NEW row \in UserRow, NEW entity \in UserRow, NEW cols, NEW n \in Nat,
         Earned(row, n), Earned(entity, n)
  PROVE  Earned(Merge(row, entity, cols), n)
<1>1. /\ Merge(row, entity, cols).until \in {row.until, entity.until}
      /\ Merge(row, entity, cols).failed \in {row.failed, entity.failed}
  BY DEF Merge, Columns
<1> QED BY <1>1 DEF Earned

\* The rows the requests make.
LEMMA EarnedRows ==
  ASSUME NEW n \in Nat
  PROVE  Earned(NoUser, n) /\ \A p, v : Earned(NewUser(p, v), n)
BY DEF Earned, NoUser, NewUser, Row

LEMMA EarnedUpdates ==
  ASSUME NEW row \in UserRow, NEW n \in Nat, Earned(row, n)
  PROVE  /\ Earned(Reset(row), n) /\ Earned(Erased(row), n)
         /\ \A p : Earned(WithPassword(row, p), n)
         /\ IF row.failed + 1 >= MaxFailedAttempts
            THEN Earned(LockedOut(row, row.failed + 1), n + 1)
            ELSE Earned(Counted(row, row.failed + 1), n + 1)
<1>0. MaxFailedAttempts \in Nat \ {0} /\ row.failed \in Nat
  BY AccountsAssumption, RowFacts
<1>1. Earned(Reset(row), n)
  <2>1. Reset(row).failed = 0 /\ Reset(row).until = "null"
    BY ResetColumns
  <2> QED BY <2>1 DEF Earned
<1>2. Earned(Erased(row), n)
  <2>1. Erased(row).failed = row.failed /\ Erased(row).until = row.until
    BY ErasedColumns
  <2> QED BY <2>1 DEF Earned
<1>3. ASSUME NEW p PROVE Earned(WithPassword(row, p), n)
  <2>1. WithPassword(row, p).failed = row.failed /\ WithPassword(row, p).until = row.until
    BY PasswordColumns
  <2> QED BY <2>1 DEF Earned
<1>4. ASSUME row.failed + 1 >= MaxFailedAttempts PROVE Earned(LockedOut(row, row.failed + 1), n + 1)
  <2>1. LockedOut(row, row.failed + 1).failed = row.failed + 1
    BY LockedOutColumns
  <2> QED BY <1>0, <1>4, <2>1 DEF Earned
<1>5. ASSUME ~(row.failed + 1 >= MaxFailedAttempts) PROVE Earned(Counted(row, row.failed + 1), n + 1)
  <2>1. /\ Counted(row, row.failed + 1).failed = row.failed + 1
        /\ Counted(row, row.failed + 1).until = row.until
    BY CountedColumns
  <2> QED BY <1>0, <2>1 DEF Earned
<1> QED BY <1>1, <1>2, <1>3, <1>4, <1>5

\* Guesses only grow, by one at most, and stay natural numbers.
LEMMA GuessesGrow ==
  ASSUME TypeInv, TypeInv', [Next]_vars
  PROVE  \A u \in Users : guesses[u] \in Nat /\ guesses'[u] \in Nat /\ guesses[u] <= guesses'[u]
<1>0. HistoryOK /\ HistoryOK'
  BY PartsOfType, PTL
<1>1. \A u \in Users : guesses[u] \in Nat /\ guesses'[u] \in Nat
  BY <1>0, AccountsAssumption DEF HistoryOK
<1>2. CASE \E w \in Workers : SaveUpdate(w)
  BY <1>0, <1>1, <1>2 DEF HistoryOK, SaveUpdate
<1>3. CASE ~\E w \in Workers : SaveUpdate(w)
  <2>1. guesses' = guesses
    <3>1. ASSUME NEW w \in Workers, Step(w) PROVE guesses' = guesses
      BY <1>3, <3>1
         DEF Step, SaveSelect, RegisterInsert, RegisterProfile, LoginCompare, CompareWith, Grant, OAuthInsert,
             OAuthPhoto, ChangeHash, ChangeRedeem, DeleteProfile, Suspend, Unsuspend, Decide, history
    <3>2. ASSUME NEW w \in Workers, NEW u \in Users, Arrival(w, u) PROVE guesses' = guesses
      BY <3>2
         DEF Arrival, UserRoutes, SuspensionRoutes, VerificationRoutes, RegisterRead, LoginRead, Refresh,
             OAuthRead, RequestReset, ChangeRead, DeleteRead, SuspendRead, UnsuspendRead, DecideRead, history
    <3>3. ASSUME NEW w \in Workers, Fail(w) PROVE guesses' = guesses
      BY <3>3 DEF Fail, history
    <3>4. ASSUME NEW u \in Users, NEW t, TokenExpires(u, t) \/ Submit(u) \/ LockoutElapses(u) PROVE guesses' = guesses
      BY <3>4 DEF TokenExpires, Submit, LockoutElapses, history
    <3> QED BY <3>1, <3>2, <3>3, <3>4 DEF Next, Restart, vars, history
  <2> QED BY <1>1, <2>1
<1> QED BY <1>2, <1>3

\* A row stays earned while its columns stay and guesses grow.
LEMMA OthersEarned ==
  ASSUME TypeInv, TypeInv', [Next]_vars, GuessInv, NEW v \in Workers, SameWorker(v)
  PROVE  GuessOK(v)'
<1> SUFFICES ASSUME pc[v] # "idle" PROVE GuessOK(v)'
  BY DEF GuessOK, SameWorker
<1> DEFINE u == job[v].user
<1>1. u \in Users /\ mem[v] \in UserRow
  BY PartsOfType DEF TypeInv, RequestOK, LocalsOK
<1>2. guesses[u] \in Nat /\ guesses'[u] \in Nat /\ guesses[u] <= guesses'[u]
  BY <1>1, GuessesGrow
<1>3. Saves(v, "refuse")' <=> Saves(v, "refuse")
  BY DEF SameWorker, Saves
<1>4. CASE Saves(v, "refuse")
  <2>1. Earned(mem[v], guesses[u] + 1)
    BY <1>4 DEF GuessInv, GuessOK
  <2>2. Earned(mem[v], guesses'[u] + 1)
    BY <1>1, <1>2, <2>1, EarnedGrows
  <2> QED BY <1>3, <1>4, <2>2 DEF GuessOK, SameWorker
<1>5. CASE ~Saves(v, "refuse")
  <2>1. Earned(mem[v], guesses[u])
    BY <1>5 DEF GuessInv, GuessOK
  <2>2. Earned(mem[v], guesses'[u])
    BY <1>1, <1>2, <2>1, EarnedGrows
  <2> QED BY <1>3, <1>5, <2>2 DEF GuessOK, SameWorker
<1> QED BY <1>4, <1>5

LEMMA RowsEarned ==
  ASSUME TypeInv, TypeInv', [Next]_vars, GuessInv, NEW u \in Users, user'[u] = user[u]
  PROVE  Earned(user'[u], guesses'[u])
<1>1. user[u] \in UserRow
  BY PartsOfType DEF TablesOK
<1> QED BY <1>1, GuessesGrow, EarnedGrows DEF GuessInv

\* A request's own steps: the rows first, then what the request holds.
LEMMA StepRowsEarned ==
  ASSUME TypeInv, TypeInv', GuessInv, NEW w \in Workers, Step(w), NEW u \in Users
  PROVE  Earned(user'[u], guesses'[u])
<1>0. TablesOK /\ LocalsOK /\ HistoryOK /\ RequestOK(w) /\ [Next]_vars
  BY PartsOfType DEF TypeInv, Next
<1>1. user[u] \in UserRow /\ mem[w] \in UserRow /\ Earned(user[u], guesses[u])
  BY <1>0 DEF TablesOK, LocalsOK, GuessInv
<1>2. guesses[u] \in Nat /\ guesses'[u] \in Nat /\ guesses[u] <= guesses'[u]
  BY <1>0, GuessesGrow
<1>3. CASE user'[u] = user[u]
  BY <1>0, <1>3, RowsEarned
<1>4. CASE user'[u] # user[u]
  <2>1. CASE SaveUpdate(w)
    <3>1. u = job[w].user /\ user'[u] = Merge(user[u], mem[w], dirty[w])
      BY <1>0, <1>4, <2>1 DEF TablesOK, SaveUpdate
    <3>2. pc[w] # "idle" /\ (Saves(w, "refuse") <=> then[w] = "refuse")
      BY <2>1 DEF SaveUpdate, Saves
    <3>3. CASE then[w] = "refuse"
      <4>1. Earned(mem[w], guesses[u] + 1) /\ Earned(user[u], guesses[u] + 1)
        BY <1>1, <1>2, <3>1, <3>2, <3>3, EarnedGrows DEF GuessInv, GuessOK
      <4>2. Earned(user'[u], guesses[u] + 1)
        BY <1>1, <1>2, <3>1, <4>1, EarnedMerge
      <4>3. guesses'[u] = guesses[u] + 1 \/ guesses'[u] >= MaxFailedAttempts
        BY <1>0, <1>1, <1>2, <2>1, <3>1, <3>3, AccountsAssumption DEF HistoryOK, SaveUpdate
      <4> QED BY <4>2, <4>3 DEF Earned
    <3>4. CASE then[w] # "refuse"
      <4>1. Earned(mem[w], guesses[u])
        BY <3>1, <3>2, <3>4 DEF GuessInv, GuessOK
      <4>2. Earned(mem[w], guesses'[u]) /\ Earned(user[u], guesses'[u])
        BY <1>1, <1>2, <4>1, EarnedGrows
      <4> QED BY <1>1, <1>2, <3>1, <4>2, EarnedMerge
    <3> QED BY <3>3, <3>4
  <2>2. CASE RegisterInsert(w) \/ OAuthInsert(w)
    <3>1. user'[u] \in {NewUser(job[w].word, FALSE), NewUser(None, TRUE)}
      BY <1>0, <1>4, <2>2 DEF TablesOK, RegisterInsert, OAuthInsert
    <3> QED BY <1>2, <3>1, EarnedRows
  <2>3. CASE Suspend(w) \/ Unsuspend(w) \/ Decide(w)
    <3>1. user'[u].failed = user[u].failed /\ user'[u].until \in {user[u].until, "null"}
      <4>0. DOMAIN user[u] = Columns
        BY <1>1 DEF UserRow, Columns
      <4>1. CASE Suspend(w)
        <5>1. user'[u] = [user[u] EXCEPT !.locked = TRUE]
          BY <1>0, <1>4, <4>1 DEF TablesOK, Suspend
        <5> QED BY <4>0, <5>1 DEF Columns
      <4>2. CASE Unsuspend(w)
        <5>1. user'[u] = [user[u] EXCEPT !.locked = FALSE, !.until = "null"]
          BY <1>0, <1>4, <4>2 DEF TablesOK, Unsuspend
        <5> QED BY <4>0, <5>1 DEF Columns
      <4>3. CASE Decide(w)
        <5>1. PICK b : user'[u] = [user[u] EXCEPT !.verified = b]
          BY <1>0, <1>4, <4>3 DEF TablesOK, Decide
        <5> QED BY <4>0, <5>1 DEF Columns
      <4> QED BY <2>3, <4>1, <4>2, <4>3
    <3>2. guesses' = guesses
      BY <2>3 DEF Suspend, Unsuspend, Decide, history
    <3> QED BY <1>1, <3>1, <3>2 DEF Earned
  <2> QED
    BY <1>4, <2>1, <2>2, <2>3
       DEF Step, SaveSelect, RegisterProfile, LoginCompare, CompareWith, Grant, OAuthPhoto, ChangeHash,
           ChangeRedeem, DeleteProfile, tables
<1> QED BY <1>3, <1>4

LEMMA StepHeldEarned ==
  ASSUME TypeInv, TypeInv', GuessInv, NEW w \in Workers, Step(w)
  PROVE  GuessOK(w)'
<1> DEFINE u == job[w].user
<1>0. TablesOK /\ LocalsOK /\ HistoryOK /\ RequestOK(w) /\ [Next]_vars
  BY PartsOfType DEF TypeInv, Next
<1>1. pc[w] # "idle" /\ u \in Users
  BY <1>0 DEF RequestOK, Step, SaveSelect, SaveUpdate, RegisterInsert, RegisterProfile, LoginCompare,
              CompareWith, Grant, OAuthInsert, OAuthPhoto, ChangeHash, ChangeRedeem, DeleteProfile, Suspend,
              Unsuspend, Decide
<1>2. mem[w] \in UserRow /\ guesses[u] \in Nat /\ guesses'[u] \in Nat /\ guesses[u] <= guesses'[u]
  BY <1>0, <1>1, GuessesGrow DEF LocalsOK
<1>3. Finish(w) => GuessOK(w)'
  BY <1>0 DEF LocalsOK, Finish, Goto, GuessOK
<1>4. ASSUME job'[w] = job[w], mem'[w] = mem[w], Saves(w, "refuse")' <=> Saves(w, "refuse")
      PROVE  GuessOK(w)'
  <2>1. CASE Saves(w, "refuse")
    <3>1. Earned(mem[w], guesses'[u] + 1)
      BY <1>1, <1>2, <2>1, EarnedGrows DEF GuessInv, GuessOK
    <3> QED BY <1>4, <2>1, <3>1 DEF GuessOK
  <2>2. CASE ~Saves(w, "refuse")
    <3>1. Earned(mem[w], guesses'[u])
      BY <1>1, <1>2, <2>2, EarnedGrows DEF GuessInv, GuessOK
    <3> QED BY <1>4, <2>2, <3>1 DEF GuessOK
  <2> QED BY <2>1, <2>2
<1>5. ASSUME NEW entity, NEW label, Save(w, entity, label), UNCHANGED <<job, guesses>>,
             Earned(entity, IF label = "refuse" THEN guesses[u] + 1 ELSE guesses[u])
      PROVE  GuessOK(w)'
  <2>1. mem'[w] = entity /\ then'[w] = label /\ pc'[w] = "select"
    BY <1>0, <1>5 DEF LocalsOK, Save, Goto
  <2>2. Saves(w, "refuse")' <=> label = "refuse"
    BY <2>1 DEF Saves
  <2> QED BY <1>5, <2>1, <2>2 DEF GuessOK
<1>6. pc[w] \notin {"select", "update"} => Earned(mem[w], guesses[u])
  BY <1>1 DEF GuessInv, GuessOK, Saves
<1>7. CASE SaveSelect(w)
  <2>1. job'[w] = job[w] /\ mem'[w] = mem[w] /\ (Saves(w, "refuse")' <=> Saves(w, "refuse"))
    BY <1>0, <1>7 DEF LocalsOK, SaveSelect, Goto, Saves
  <2> QED BY <1>4, <2>1
<1>8. CASE SaveUpdate(w)
  <2>1. CASE then[w] \in {"grant", "redeem", "compare"}
    <3>1. job'[w] = job[w] /\ mem'[w] = mem[w] /\ then'[w] # "refuse" /\ then[w] # "refuse"
      BY <1>8, <2>1 DEF SaveUpdate
    <3>2. ~Saves(w, "refuse") /\ ~Saves(w, "refuse")'
      BY <3>1 DEF Saves
    <3> QED BY <1>4, <3>1, <3>2
  <2>2. CASE then[w] \notin {"grant", "redeem", "compare"}
    BY <1>3, <1>8, <2>2 DEF SaveUpdate
  <2> QED BY <2>1, <2>2
<1>9. CASE RegisterInsert(w) \/ RegisterProfile(w) \/ OAuthInsert(w) \/ OAuthPhoto(w)
  <2>1. ASSUME NEW label \in {"profile", "grant"}, Goto(w, label), UNCHANGED <<job, mem, dirty, then>>,
               pc[w] \notin {"select", "update"}
        PROVE  GuessOK(w)'
    <3>1. pc'[w] = label
      BY <1>0, <2>1 DEF LocalsOK, Goto
    <3>2. ~Saves(w, "refuse") /\ ~Saves(w, "refuse")'
      BY <2>1, <3>1 DEF Saves
    <3> QED BY <1>4, <2>1, <3>2
  <2> QED BY <1>3, <1>9, <2>1 DEF RegisterInsert, RegisterProfile, OAuthInsert, OAuthPhoto
<1>10. CASE LoginCompare(w)
  <2>1. Earned(mem[w], guesses[u]) /\ UNCHANGED <<job, guesses>>
    BY <1>6, <1>10 DEF LoginCompare, CompareWith, history
  <2> DEFINE n == mem[w].failed + 1
  <2>2. CASE Save(w, Reset(mem[w]), "grant")
    BY <1>2, <1>5, <2>1, <2>2, EarnedUpdates
  <2>3. CASE n >= MaxFailedAttempts /\ Save(w, LockedOut(mem[w], n), "refuse")
    BY <1>2, <1>5, <2>1, <2>3, EarnedUpdates
  <2>4. CASE ~(n >= MaxFailedAttempts) /\ Save(w, Counted(mem[w], n), "refuse")
    BY <1>2, <1>5, <2>1, <2>4, EarnedUpdates
  <2> QED BY <1>10, <2>2, <2>3, <2>4 DEF LoginCompare, CompareWith
<1>11. CASE ChangeHash(w) \/ DeleteProfile(w)
  <2>1. Earned(mem[w], guesses[u]) /\ UNCHANGED <<job, guesses>>
    BY <1>6, <1>11 DEF ChangeHash, DeleteProfile, history
  <2>2. CASE ChangeHash(w)
    <3>1. Save(w, WithPassword(mem[w], job[w].word), "redeem")
      BY <2>2 DEF ChangeHash
    <3> QED BY <1>2, <1>5, <2>1, <3>1, EarnedUpdates
  <2>3. CASE DeleteProfile(w)
    <3>1. Save(w, Erased(mem[w]), "idle")
      BY <2>3 DEF DeleteProfile
    <3> QED BY <1>2, <1>5, <2>1, <3>1, EarnedUpdates
  <2> QED BY <1>11, <2>2, <2>3
<1> QED
  BY <1>3, <1>7, <1>8, <1>9, <1>10, <1>11
     DEF Step, Grant, ChangeRedeem, Suspend, Unsuspend, Decide

\* A request that begins holds the row as it is.
LEMMA ArrivalEarned ==
  ASSUME TypeInv, TypeInv', GuessInv, NEW w \in Workers, NEW a \in Users, Arrival(w, a)
  PROVE  UNCHANGED user /\ GuessOK(w)'
<1>0. TablesOK /\ LocalsOK /\ [Next]_vars
  BY PartsOfType DEF Next
<1>1. user[a] \in UserRow /\ guesses[a] \in Nat /\ Earned(user[a], guesses[a])
  BY <1>0, GuessesGrow DEF TablesOK, GuessInv
<1>2. UNCHANGED <<user, guesses>>
  BY DEF Arrival, UserRoutes, SuspensionRoutes, VerificationRoutes, RegisterRead, LoginRead, Refresh,
         OAuthRead, RequestReset, ChangeRead, DeleteRead, SuspendRead, UnsuspendRead, DecideRead, tables, history
<1>3. ASSUME UNCHANGED locals PROVE GuessOK(w)'
  BY <1>2, <1>3 DEF GuessInv, GuessOK, Saves, locals
<1>4. ASSUME mem'[w] = user[a], job'[w].user = a, pc'[w] \notin {"select", "update"}
      PROVE  GuessOK(w)'
  BY <1>1, <1>2, <1>4 DEF GuessOK, Saves
<1>5. ASSUME NEW p, LoginRead(w, a, p) PROVE GuessOK(w)'
  <2>1. CASE ~UNCHANGED locals
    <3>1. PICK entity \in {user[a], Reset(user[a])} :
            mem'[w] = entity /\ job'[w].user = a /\ ~Saves(w, "refuse")'
      BY <1>0, <1>5, <2>1 DEF LocalsOK, LoginRead, Took, Save, Goto, Saves
    <3>2. Earned(entity, guesses[a])
      BY <1>1, <3>1, EarnedUpdates
    <3> QED BY <1>2, <3>1, <3>2 DEF GuessOK
  <2> QED BY <1>3, <2>1
<1>6. ASSUME NEW p, RegisterRead(w, a, p) PROVE GuessOK(w)'
  BY <1>0, <1>3, <1>4, <1>6 DEF RegisterRead, Begin, BeginWith, Took, Goto, LocalsOK
<1>7. ASSUME Refresh(w, a) PROVE GuessOK(w)'
  BY <1>0, <1>3, <1>4, <1>7 DEF Refresh, Begin, BeginWith, Took, Goto, LocalsOK
<1>8. ASSUME OAuthRead(w, a) PROVE GuessOK(w)'
  BY <1>0, <1>3, <1>4, <1>8 DEF OAuthRead, Begin, BeginWith, Took, Goto, LocalsOK
<1>9. ASSUME NEW t, NEW p, ChangeRead(w, a, t, p) PROVE GuessOK(w)'
  BY <1>0, <1>3, <1>4, <1>9 DEF ChangeRead, Begin, BeginWith, Took, Goto, LocalsOK
<1>10. ASSUME DeleteRead(w, a) PROVE GuessOK(w)'
  BY <1>0, <1>3, <1>4, <1>10 DEF DeleteRead, Begin, BeginWith, Took, Goto, LocalsOK
<1>11. ASSUME SuspendRead(w, a) PROVE GuessOK(w)'
  BY <1>0, <1>3, <1>4, <1>11 DEF SuspendRead, Begin, BeginWith, Took, Goto, LocalsOK
<1>12. ASSUME UnsuspendRead(w, a) PROVE GuessOK(w)'
  BY <1>0, <1>3, <1>4, <1>12 DEF UnsuspendRead, Begin, BeginWith, Took, Goto, LocalsOK
<1>13. ASSUME NEW p, DecideRead(w, a, p) PROVE GuessOK(w)'
  BY <1>0, <1>3, <1>4, <1>13 DEF DecideRead, Begin, BeginWith, Took, Goto, LocalsOK
<1>14. RequestReset(w, a) => GuessOK(w)'
  BY <1>3 DEF RequestReset
<1> QED
  BY <1>2, <1>5, <1>6, <1>7, <1>8, <1>9, <1>10, <1>11, <1>12, <1>13, <1>14
     DEF Arrival, UserRoutes, SuspensionRoutes, VerificationRoutes

\* Time passes for a row and its copies alike.
LEMMA LockoutElapsesEarned ==
  ASSUME TypeInv, GuessInv, NEW a \in Users, LockoutElapses(a)
  PROVE  GuessInv'
<1>0. TablesOK /\ LocalsOK
  BY PartsOfType
<1>1. UNCHANGED <<pc, job, then, guesses>>
  BY DEF LockoutElapses, history
<1>2. \A n : \A row \in UserRow : row.until = "future" /\ Earned(row, n) => Earned([row EXCEPT !.until = "past"], n)
  <2> SUFFICES ASSUME NEW row \in UserRow, NEW n, row.until = "future", Earned(row, n)
               PROVE  Earned([row EXCEPT !.until = "past"], n)
    OBVIOUS
  <2>1. DOMAIN row = Columns
    BY DEF UserRow, Columns
  <2>2. [row EXCEPT !.until = "past"].until = "past" /\ [row EXCEPT !.until = "past"].failed = row.failed
    BY <2>1 DEF Columns
  <2> QED BY <2>2 DEF Earned
<1>3. ASSUME NEW u \in Users PROVE Earned(user'[u], guesses'[u])
  <2>1. user'[u] = IF u = a THEN [user[u] EXCEPT !.until = "past"] ELSE user[u]
    BY <1>0 DEF LockoutElapses, TablesOK
  <2>2. u = a => user[u].until = "future"
    BY DEF LockoutElapses
  <2> QED BY <1>0, <1>1, <1>2, <2>1, <2>2 DEF TablesOK, GuessInv
<1>4. ASSUME NEW v \in Workers PROVE GuessOK(v)'
  <2>1. mem'[v] = mem[v] \/ (mem[v].until = "future" /\ mem'[v] = [mem[v] EXCEPT !.until = "past"])
    BY DEF LockoutElapses
  <2>2. mem[v] \in UserRow
    BY <1>0 DEF LocalsOK
  <2> QED BY <1>1, <1>2, <2>1, <2>2 DEF GuessInv, GuessOK, Saves
<1> QED BY <1>3, <1>4 DEF GuessInv

\* Every step keeps what is earned.
LEMMA GuessStep == TypeInv /\ TypeInv' /\ GuessInv /\ [Next]_vars => GuessInv'
<1> SUFFICES ASSUME TypeInv, TypeInv', GuessInv, [Next]_vars PROVE GuessInv'
  OBVIOUS
<1>1. ASSUME NEW w \in Workers, Step(w) PROVE GuessInv'
  <2>1. \A u \in Users : Earned(user'[u], guesses'[u])
    BY <1>1, StepRowsEarned
  <2>2. \A v \in Workers : GuessOK(v)'
    BY <1>1, StepHeldEarned, OthersKept, OthersEarned
  <2> QED BY <2>1, <2>2 DEF GuessInv
<1>2. ASSUME NEW w \in Workers, NEW a \in Users, Arrival(w, a) PROVE GuessInv'
  <2>1. UNCHANGED user /\ GuessOK(w)'
    BY <1>2, ArrivalEarned
  <2>2. \A u \in Users : Earned(user'[u], guesses'[u])
    BY <2>1, RowsEarned
  <2>3. \A v \in Workers : GuessOK(v)'
    BY <1>2, <2>1, OthersKept, OthersEarned
  <2> QED BY <2>2, <2>3 DEF GuessInv
<1>3. ASSUME NEW w \in Workers, Fail(w) PROVE GuessInv'
  <2>1. UNCHANGED user /\ GuessOK(w)'
    BY <1>3, PartsOfType DEF Fail, Finish, Goto, GuessOK, LocalsOK, tables
  <2>2. \A u \in Users : Earned(user'[u], guesses'[u])
    BY <2>1, RowsEarned
  <2>3. \A v \in Workers : GuessOK(v)'
    BY <1>3, <2>1, OthersKept, OthersEarned
  <2> QED BY <2>2, <2>3 DEF GuessInv
<1>4. ASSUME NEW a \in Users, NEW t, TokenExpires(a, t) \/ Submit(a) PROVE GuessInv'
  BY <1>4 DEF TokenExpires, Submit, locals, history, GuessInv, GuessOK, Saves
<1>5. ASSUME Restart PROVE GuessInv'
  BY <1>5 DEF Restart, history, GuessInv, GuessOK
<1>6. CASE UNCHANGED vars
  BY <1>6 DEF vars, tables, locals, history, GuessInv, GuessOK, Saves
<1> QED BY <1>1, <1>2, <1>3, <1>4, <1>5, <1>6, LockoutElapsesEarned DEF Next

LEMMA GuessStarts == Init => GuessInv
<1> SUFFICES ASSUME Init PROVE GuessInv
  OBVIOUS
<1>1. \A u \in Users : user[u] = NoUser /\ guesses[u] = 0
  BY DEF Init
<1>2. \A w \in Workers : pc[w] = "idle"
  BY DEF Init
<1> QED BY <1>1, <1>2, EarnedRows DEF GuessInv, GuessOK

\* No row is locked out, and none counts failures, without as many wrong
\* passwords: any number of requests may overlap.
THEOREM NobodyLockedOutUnearned == Spec => [](TypeInv /\ GuessInv)
BY TypeStarts, TypeStep, GuessStarts, GuessStep, PTL DEF Spec

-----------------------------------------------------------------------------
(* One request at a time. The invariant ties the entity a request holds to *)
(* the row it was read from: as nobody else writes, what save() writes is  *)
(* what the request meant.                                                 *)

\* What the tables and the history say of one account.
AccountOK(u) ==
  /\ user[u].state = "absent" => streak[u] = 0 /\ chosen[u] = None /\ request[u] = "none" /\ token[u] = {}
  /\ user[u].state = "active" => user[u].password = chosen[u]
  /\ user[u].state = "deleted" => profile[u] # "personal"
  /\ streak[u] <= user[u].failed
  /\ streak[u] = MaxFailedAttempts => user[u].until # "null"
  /\ user[u].state = "active" /\ user[u].locked => suspended[u] \/ user[u].until # "null"
  /\ request[u] # "none" /\ user[u].state = "active" => (user[u].verified <=> request[u] = "approved")
  /\ badge[u] # "none" => badge[u] = request[u]
  /\ request[u] = "pending" => badge[u] = "none"

\* A token that is still there has not been used, but by a request that is
\* about to delete it.
TokenOK(u) ==
  \A t \in token[u] \cap redeemed[u] :
    \E w \in Workers : pc[w] = "redeem" /\ job[w].user = u /\ job[w].key = t

\* The entity a request holds, against the row.
EntityOK(w, row) ==
  /\ pc[w] \in {"compare", "hash", "anonymize"} => mem[w] = row
  /\ Saves(w, "compare") \/ Saves(w, "grant") => mem[w] = Reset(row)
  /\ Saves(w, "refuse") => mem[w] = IF row.failed + 1 >= MaxFailedAttempts
                                    THEN LockedOut(row, row.failed + 1) ELSE Counted(row, row.failed + 1)
  /\ Saves(w, "redeem") => mem[w] = WithPassword(row, job[w].word)
  /\ Saves(w, "idle") => mem[w] = Erased(row)
  /\ pc[w] = "update" => dirty[w] = Changed(mem[w], row)

\* What has been checked is still so.
RequestInOrder(w) ==
  LET u == job[w].user IN
  /\ EntityOK(w, user[u])
  /\ pc[w] \notin {"register", "adopt"} => user[u].state # "absent"
  /\ pc[w] = "profile" => user[u].state = "active"
  /\ pc[w] = "compare" \/ Saves(w, "refuse") \/ Saves(w, "grant") => user[u].until # "future"
  /\ Saves(w, "compare") => user[u].until = "past"
  /\ pc[w] \in {"photo", "anonymize"} => job[w].word = profile[u]
  /\ pc[w] = "decide" => request[u] = "pending"
  /\ pc[w] = "hash" \/ Saves(w, "redeem") => job[w].key \notin redeemed[u]
  /\ Saves(w, "idle") => profile[u] # "personal"
  /\ pc[w] \in {"select", "update"} => then[w] \in {"compare", "grant", "refuse", "redeem", "idle"}

Alone == \A v, w \in Workers : pc[v] # "idle" /\ pc[w] # "idle" => v = w

SerialInv ==
  width = 1 =>
    /\ Alone
    /\ \A u \in Users : AccountOK(u) /\ TokenOK(u)
    /\ \A w \in Workers : pc[w] # "idle" => RequestInOrder(w)

-----------------------------------------------------------------------------
(* One request at a time.                                                  *)

\* A request begins when there is no other.
LEMMA NobodyElse ==
  ASSUME Alone, width = 1, NEW w \in Workers, Free(w), NEW v \in Workers
  PROVE  pc[v] = "idle"
<1> SUFFICES ASSUME pc[v] # "idle" PROVE FALSE
  OBVIOUS
<1>1. Busy = {v}
  BY DEF Alone, Busy
<1>2. Cardinality(Busy) = 1
  BY <1>1, FS_Singleton
<1> QED BY <1>2 DEF Free

\* Who steps is the only one there is.
LEMMA AloneKept ==
  ASSUME TypeInv, Alone, NEW w \in Workers, \A v \in Workers \ {w} : pc[v] = "idle",
         \A v \in Workers \ {w} : SameWorker(v)
  PROVE  Alone'
BY DEF Alone, SameWorker

\* A request is between two of its steps whenever it takes one.
LEMMA StepsAreBusy ==
  ASSUME NEW w \in Workers, Step(w) \/ Fail(w)
  PROVE  pc[w] # "idle"
BY DEF Step, SaveSelect, SaveUpdate, RegisterInsert, RegisterProfile, LoginCompare, CompareWith, Grant,
       OAuthInsert, OAuthPhoto, ChangeHash, ChangeRedeem, DeleteProfile, Suspend, Unsuspend, Decide, Fail

-----------------------------------------------------------------------------
(* Accounts that a step does not touch.                                    *)

SameAccount(x) ==
  /\ user'[x] = user[x] /\ profile'[x] = profile[x] /\ badge'[x] = badge[x] /\ request'[x] = request[x]
  /\ token'[x] \subseteq token[x]
  /\ suspended'[x] = suspended[x] /\ chosen'[x] = chosen[x] /\ streak'[x] = streak[x]
  /\ redeemed'[x] = redeemed[x]

LEMMA SameAccountOK ==
  ASSUME NEW x \in Users, AccountOK(x), SameAccount(x)
  PROVE  AccountOK(x)'
BY DEF AccountOK, SameAccount

\* A request writes about its own user.
LEMMA OtherAccounts ==
  ASSUME TypeInv, NEW w \in Workers, Step(w) \/ Fail(w), NEW x \in Users, x # job[w].user
  PROVE  SameAccount(x)
<1>0. TablesOK /\ HistoryOK
  BY PartsOfType
<1>1. UNCHANGED <<tables, history>> => SameAccount(x)
  BY DEF SameAccount, tables, history
<1>2. CASE SaveUpdate(w)
  BY <1>0, <1>2 DEF TablesOK, HistoryOK, SaveUpdate, SameAccount
<1>3. CASE RegisterInsert(w) \/ OAuthInsert(w)
  BY <1>0, <1>3 DEF TablesOK, HistoryOK, RegisterInsert, OAuthInsert, SameAccount, history
<1>4. CASE RegisterProfile(w) \/ OAuthPhoto(w) \/ DeleteProfile(w) \/ ChangeRedeem(w)
  BY <1>0, <1>4 DEF TablesOK, RegisterProfile, OAuthPhoto, DeleteProfile, ChangeRedeem, SameAccount, history
<1>5. CASE Suspend(w) \/ Unsuspend(w)
  BY <1>0, <1>5 DEF TablesOK, HistoryOK, Suspend, Unsuspend, SameAccount
<1>6. CASE Decide(w)
  BY <1>0, <1>6 DEF TablesOK, Decide, SameAccount, history
<1> QED
  BY <1>1, <1>2, <1>3, <1>4, <1>5, <1>6
     DEF Step, SaveSelect, LoginCompare, CompareWith, Grant, ChangeHash, Fail

\* A token that was not used is not used, unless its user's request saves.
LEMMA OtherTokens ==
  ASSUME TypeInv, Alone, NEW w \in Workers, pc[w] # "idle", NEW x \in Users, x # job[w].user,
         TokenOK(x), SameAccount(x)
  PROVE  TokenOK(x)'
<1>1. token[x] \cap redeemed[x] = {}
  BY DEF TokenOK, Alone
<1> QED BY <1>1 DEF TokenOK, SameAccount

\* What is left to show of a request's step: its own user and itself.
LEMMA OwnStep ==
  ASSUME TypeInv, SerialInv, width = 1, NEW w \in Workers, Step(w) \/ Fail(w),
         NEW u \in Users, u = job[w].user,
         AccountOK(u)', TokenOK(u)', pc'[w] # "idle" => RequestInOrder(w)'
  PROVE  SerialInv'
<1>1. pc[w] # "idle" /\ Alone
  BY StepsAreBusy DEF SerialInv
<1>2. \A v \in Workers \ {w} : pc[v] = "idle" /\ SameWorker(v)
  BY <1>1, OthersKept DEF Alone
<1>3. Alone'
  BY <1>1, <1>2, AloneKept
<1>4. ASSUME NEW x \in Users PROVE AccountOK(x)' /\ TokenOK(x)'
  <2>1. CASE x # u
    <3>1. SameAccount(x) /\ AccountOK(x) /\ TokenOK(x)
      BY <2>1, OtherAccounts DEF SerialInv
    <3> QED BY <1>1, <2>1, <3>1, SameAccountOK, OtherTokens
  <2>2. CASE x = u
    BY <2>2
  <2> QED BY <2>1, <2>2
<1>5. ASSUME NEW v \in Workers, pc'[v] # "idle" PROVE RequestInOrder(v)'
  <2>1. CASE v = w
    BY <1>5, <2>1
  <2>2. CASE v # w
    BY <1>2, <1>5, <2>2 DEF SameWorker
  <2> QED BY <2>1, <2>2
<1> QED BY <1>3, <1>4, <1>5 DEF SerialInv

-----------------------------------------------------------------------------
(* A request's own steps.                                                  *)

\* What is known of the request and its row before the step.
LEMMA Before ==
  ASSUME TypeInv, SerialInv, width = 1, NEW w \in Workers, pc[w] # "idle", NEW u, u = job[w].user
  PROVE  /\ u \in Users /\ user[u] \in UserRow /\ mem[w] \in UserRow
         /\ AccountOK(u) /\ TokenOK(u) /\ RequestInOrder(w) /\ RequestOK(w)
         /\ TablesOK /\ LocalsOK /\ HistoryOK
         /\ streak[u] \in Nat /\ user[u].failed \in Nat /\ streak[u] <= MaxFailedAttempts
<1>1. RequestOK(w) /\ TablesOK /\ LocalsOK /\ HistoryOK
  BY PartsOfType DEF TypeInv
<1>2. u \in Users
  BY <1>1 DEF RequestOK
<1>3. user[u] \in UserRow /\ mem[w] \in UserRow
  BY <1>1, <1>2 DEF TablesOK, LocalsOK
<1>4. streak[u] \in Nat /\ streak[u] <= MaxFailedAttempts
  BY <1>1, <1>2, AccountsAssumption DEF HistoryOK
<1>5. AccountOK(u) /\ TokenOK(u) /\ RequestInOrder(w)
  BY <1>2 DEF SerialInv
<1> QED BY <1>1, <1>2, <1>3, <1>4, <1>5, RowFacts

\* save() finds out what differs.
LEMMA SelectSerial ==
  ASSUME TypeInv, SerialInv, width = 1, NEW w \in Workers, SaveSelect(w)
  PROVE  SerialInv'
<1> DEFINE u0 == job[w].user
<1> SUFFICES ASSUME NEW u, u = u0 PROVE SerialInv'
  OBVIOUS
<1>1. pc[w] = "select" /\ UNCHANGED <<tables, job, mem, then, width, history>>
  BY DEF SaveSelect
<1>2. u \in Users /\ AccountOK(u) /\ TokenOK(u) /\ RequestInOrder(w) /\ LocalsOK
  BY <1>1, Before
<1>3. pc'[w] = "update" /\ dirty'[w] = Changed(mem[w], user[u])
  BY <1>2 DEF SaveSelect, Goto, LocalsOK
<1>4. \A l : Saves(w, l)' <=> Saves(w, l)
  BY <1>1, <1>3 DEF Saves
<1>5. AccountOK(u)'
  BY <1>1, <1>2 DEF AccountOK, tables, history
<1>6. TokenOK(u)'
  <2>1. \A v \in Workers : pc[v] = "redeem" => pc'[v] = "redeem"
    BY <1>1, <1>2 DEF LocalsOK, SaveSelect, Goto
  <2> QED BY <1>1, <1>2, <2>1 DEF TokenOK, tables, history
<1>7. EntityOK(w, user[u])'
  BY <1>1, <1>2, <1>3, <1>4 DEF RequestInOrder, EntityOK, tables
<1>8. RequestInOrder(w)'
  BY <1>1, <1>2, <1>3, <1>4, <1>7 DEF RequestInOrder, tables, history
<1> QED BY <1>2, <1>5, <1>6, <1>8, OwnStep DEF Step

\* The row becomes the entity that was saved.
LEMMA UpdateSerial ==
  ASSUME TypeInv, SerialInv, width = 1, NEW w \in Workers, SaveUpdate(w)
  PROVE  SerialInv'
<1> DEFINE u0 == job[w].user
<1> SUFFICES ASSUME NEW u, u = u0 PROVE SerialInv'
  OBVIOUS
<1>1. pc[w] = "update" /\ UNCHANGED <<profile, badge, request, token, width, suspended>>
  BY DEF SaveUpdate
<1>2. /\ u \in Users /\ AccountOK(u) /\ TokenOK(u) /\ RequestInOrder(w) /\ LocalsOK /\ HistoryOK /\ TablesOK
      /\ user[u] \in UserRow /\ mem[w] \in UserRow
      /\ streak[u] \in Nat /\ user[u].failed \in Nat /\ streak[u] <= MaxFailedAttempts
  BY <1>1, Before
<1> DEFINE row == user[u]
<1>3. user'[u] = mem[w]
  <2>1. dirty[w] = Changed(mem[w], row)
    BY <1>1, <1>2 DEF RequestInOrder, EntityOK
  <2>2. user'[u] = Merge(row, mem[w], dirty[w])
    BY <1>2 DEF TablesOK, SaveUpdate
  <2> QED BY <1>2, <2>1, <2>2, SaveWritesEntity
<1>4. row.state # "absent" /\ then[w] \in {"compare", "grant", "refuse", "redeem", "idle"}
  BY <1>1, <1>2 DEF RequestInOrder
<1>5. \A l : Saves(w, l) <=> then[w] = l
  BY <1>1 DEF Saves
<1>6. then[w] \notin {"grant", "redeem", "compare"} => Finish(w) /\ pc'[w] = "idle"
  BY <1>2 DEF SaveUpdate, Finish, Goto, LocalsOK
<1>7. then[w] \in {"grant", "redeem", "compare"} =>
        pc'[w] = then[w] /\ (\A l : ~Saves(w, l)') /\ UNCHANGED <<job, mem, dirty, then>>
  BY <1>2 DEF SaveUpdate, Goto, LocalsOK, Saves
<1>8. SaveUpdate(w) /\ Step(w)
  BY DEF Step
<1>9. TokenOK(u) => (redeemed'[u] = redeemed[u] => TokenOK(u)')
  <2> SUFFICES ASSUME token[u] \cap redeemed[u] # {} PROVE FALSE
    BY <1>1 DEF TokenOK
  <2> QED BY <1>1, <1>2 DEF TokenOK, SerialInv, Alone
<1>10. CASE then[w] \in {"compare", "grant"}
  <2>1. mem[w] = Reset(row) /\ row.until # "future"
    BY <1>2, <1>5, <1>10 DEF RequestInOrder, EntityOK
  <2>2. /\ mem[w].state = row.state /\ mem[w].password = row.password /\ mem[w].verified = row.verified
        /\ mem[w].failed = 0 /\ mem[w].until = "null" /\ mem[w].locked = FALSE
    BY <1>2, <2>1, ResetColumns
  <2>3. streak'[u] = 0 /\ chosen'[u] = chosen[u] /\ redeemed'[u] = redeemed[u]
    BY <1>2, <1>8, <1>10 DEF SaveUpdate, HistoryOK
  <2>4. AccountOK(u)'
    BY <1>1, <1>2, <1>3, <1>4, <2>2, <2>3, AccountsAssumption DEF AccountOK
  <2>5. RequestInOrder(w)'
    BY <1>1, <1>3, <1>4, <1>7, <1>10, <2>2 DEF RequestInOrder, EntityOK
  <2> QED BY <1>2, <1>8, <1>9, <2>3, <2>4, <2>5, OwnStep
<1>11. CASE then[w] = "refuse"
  <2> DEFINE n == row.failed + 1
  <2>1. mem[w] = IF n >= MaxFailedAttempts THEN LockedOut(row, n) ELSE Counted(row, n)
    BY <1>2, <1>5, <1>11 DEF RequestInOrder, EntityOK
  <2>2. /\ mem[w].state = row.state /\ mem[w].password = row.password /\ mem[w].verified = row.verified
        /\ mem[w].failed = n
        /\ IF n >= MaxFailedAttempts THEN mem[w].until = "future"
           ELSE mem[w].until = row.until /\ mem[w].locked = row.locked
    <3>1. CASE n >= MaxFailedAttempts
      <4>1. mem[w] = LockedOut(row, n)
        BY <2>1, <3>1
      <4>2. /\ LockedOut(row, n).state = row.state /\ LockedOut(row, n).password = row.password
            /\ LockedOut(row, n).verified = row.verified
            /\ LockedOut(row, n).failed = n /\ LockedOut(row, n).until = "future"
        <5>1. row \in UserRow
          BY <1>2
        <5>2. LockedOut(row, n).failed = n
          BY <5>1, LockedOutColumns
        <5>3. LockedOut(row, n).until = "future"
          BY <5>1, LockedOutColumns
        <5>4. LockedOut(row, n).state = row.state
          BY <5>1, LockedOutColumns
        <5>5. LockedOut(row, n).password = row.password
          BY <5>1, LockedOutColumns
        <5>6. LockedOut(row, n).verified = row.verified
          BY <5>1, LockedOutColumns
        <5> QED BY <5>2, <5>3, <5>4, <5>5, <5>6
      <4> QED BY <3>1, <4>1, <4>2
    <3>2. CASE ~(n >= MaxFailedAttempts)
      <4>1. mem[w] = Counted(row, n)
        BY <2>1, <3>2
      <4> QED BY <1>2, <3>2, <4>1, CountedColumns
    <3> QED BY <3>1, <3>2
  <2>3. /\ streak'[u] = IF streak[u] < MaxFailedAttempts THEN streak[u] + 1 ELSE streak[u]
        /\ chosen'[u] = chosen[u] /\ redeemed'[u] = redeemed[u]
    BY <1>2, <1>8, <1>11 DEF SaveUpdate, HistoryOK
  <2>4. AccountOK(u)'
    BY <1>1, <1>2, <1>3, <1>4, <2>2, <2>3, AccountsAssumption DEF AccountOK
  <2> QED BY <1>2, <1>6, <1>8, <1>9, <1>11, <2>3, <2>4, OwnStep
<1>12. CASE then[w] = "redeem"
  <2>1. mem[w] = WithPassword(row, job[w].word)
    BY <1>2, <1>5, <1>12 DEF RequestInOrder, EntityOK
  <2>2. /\ mem[w].state = row.state /\ mem[w].password = job[w].word /\ mem[w].verified = row.verified
        /\ mem[w].failed = row.failed /\ mem[w].until = row.until /\ mem[w].locked = row.locked
    BY <1>2, <2>1, PasswordColumns
  <2>3. streak'[u] = streak[u] /\ chosen'[u] = job[w].word
    BY <1>2, <1>8, <1>12 DEF SaveUpdate, HistoryOK
  <2>4. AccountOK(u)'
    BY <1>1, <1>2, <1>3, <1>4, <2>2, <2>3, AccountsAssumption DEF AccountOK
  <2>5. RequestInOrder(w)'
    BY <1>1, <1>3, <1>4, <1>7, <1>12, <2>2 DEF RequestInOrder, EntityOK
  <2>6. TokenOK(u)'
    <3>1. token[u] \cap redeemed[u] = {}
      BY <1>1, <1>2 DEF TokenOK, SerialInv, Alone
    <3>2. redeemed'[u] = redeemed[u] \cup {job[w].key}
      BY <1>2, <1>8, <1>12 DEF SaveUpdate, HistoryOK
    <3> QED BY <1>1, <1>7, <1>12, <3>1, <3>2 DEF TokenOK
  <2> QED BY <1>2, <1>8, <2>4, <2>5, <2>6, OwnStep
<1>13. CASE then[w] = "idle"
  <2>1. mem[w] = Erased(row) /\ profile[u] # "personal"
    BY <1>2, <1>5, <1>13 DEF RequestInOrder, EntityOK
  <2>2. mem[w].state = "deleted" /\ mem[w].failed = row.failed /\ mem[w].until = row.until
    BY <1>2, <2>1, ErasedColumns
  <2>3. streak'[u] = streak[u] /\ chosen'[u] = chosen[u] /\ redeemed'[u] = redeemed[u]
    BY <1>2, <1>8, <1>13 DEF SaveUpdate, HistoryOK
  <2>4. AccountOK(u)'
    BY <1>1, <1>2, <1>3, <1>4, <2>1, <2>2, <2>3, AccountsAssumption DEF AccountOK
  <2> QED BY <1>2, <1>6, <1>8, <1>9, <1>13, <2>3, <2>4, OwnStep
<1> QED BY <1>4, <1>10, <1>11, <1>12, <1>13

\* The rows are put in place.
LEMMA EntrySerial ==
  ASSUME TypeInv, SerialInv, width = 1, NEW w \in Workers,
         RegisterInsert(w) \/ RegisterProfile(w) \/ OAuthInsert(w) \/ OAuthPhoto(w)
  PROVE  SerialInv'
<1> DEFINE u0 == job[w].user
<1> SUFFICES ASSUME NEW u, u = u0 PROVE SerialInv'
  OBVIOUS
<1>1. pc[w] \in {"register", "profile", "adopt", "photo"} /\ UNCHANGED <<badge, request, token, streak, redeemed>>
  BY DEF RegisterInsert, RegisterProfile, OAuthInsert, OAuthPhoto, history
<1>2. /\ u \in Users /\ AccountOK(u) /\ TokenOK(u) /\ RequestInOrder(w) /\ LocalsOK /\ HistoryOK /\ TablesOK
      /\ user[u] \in UserRow /\ streak[u] \in Nat
  BY <1>1, Before
<1>3. Step(w)
  BY DEF Step
<1>4. TokenOK(u)'
  <2>1. token[u] \cap redeemed[u] = {}
    BY <1>1, <1>2 DEF TokenOK, SerialInv, Alone
  <2> QED BY <1>1, <2>1 DEF TokenOK
<1>5. ASSUME Goto(w, "grant"), UNCHANGED <<job, then>>, user'[u].state # "absent" PROVE RequestInOrder(w)'
  <2>1. pc'[w] = "grant" /\ \A l : ~Saves(w, l)'
    BY <1>2, <1>5 DEF Goto, LocalsOK, Saves
  <2> QED BY <1>5, <2>1 DEF RequestInOrder, EntityOK
<1>6. ASSUME Goto(w, "profile"), UNCHANGED <<job, then>>, user'[u].state = "active" PROVE RequestInOrder(w)'
  <2>1. pc'[w] = "profile" /\ \A l : ~Saves(w, l)'
    BY <1>2, <1>6 DEF Goto, LocalsOK, Saves
  <2> QED BY <1>6, <2>1 DEF RequestInOrder, EntityOK
<1>7. Finish(w) => pc'[w] = "idle"
  BY <1>2 DEF Finish, Goto, LocalsOK
<1>8. ASSUME NEW p, NEW v \in BOOLEAN, user'[u] = NewUser(p, v), chosen'[u] = p, profile'[u] = profile[u],
             user[u].state = "absent"
      PROVE  AccountOK(u)' /\ user'[u].state = "active"
  <2>1. /\ user'[u].state = "active" /\ user'[u].password = p /\ user'[u].verified = v
        /\ user'[u].locked = FALSE /\ user'[u].until = "null" /\ user'[u].failed = 0
    BY <1>8 DEF NewUser, Row
  <2>2. streak[u] = 0 /\ request[u] = "none"
    BY <1>2, <1>8 DEF AccountOK
  <2> QED BY <1>1, <1>2, <1>8, <2>1, <2>2, AccountsAssumption DEF AccountOK
<1>9. ASSUME RegisterInsert(w) PROVE SerialInv'
  <2>1. CASE user[u].state = "absent"
    <3>1. user'[u] = NewUser(job[w].word, FALSE) /\ chosen'[u] = job[w].word /\ profile'[u] = profile[u]
      BY <1>2, <1>9, <2>1 DEF RegisterInsert, TablesOK, HistoryOK
    <3>2. AccountOK(u)' /\ user'[u].state = "active"
      <4> DEFINE p0 == job[w].word
      <4> SUFFICES ASSUME NEW p, p = p0 PROVE AccountOK(u)' /\ user'[u].state = "active"
        OBVIOUS
      <4> QED BY <1>8, <2>1, <3>1
    <3>3. RequestInOrder(w)'
      BY <1>6, <1>9, <2>1, <3>2 DEF RegisterInsert
    <3> QED BY <1>2, <1>3, <1>4, <3>2, <3>3, OwnStep
  <2>2. CASE user[u].state # "absent"
    <3>1. pc'[w] = "idle" /\ UNCHANGED <<user, chosen, profile, suspended>>
      BY <1>7, <1>9, <2>2 DEF RegisterInsert
    <3>2. AccountOK(u)'
      BY <1>1, <1>2, <3>1 DEF AccountOK
    <3> QED BY <1>2, <1>3, <1>4, <3>1, <3>2, OwnStep
  <2> QED BY <2>1, <2>2
<1>10. ASSUME OAuthInsert(w) PROVE SerialInv'
  <2>0. UNCHANGED <<chosen, profile, suspended>>
    BY <1>10 DEF OAuthInsert, history
  <2>1. CASE user[u].state = "absent"
    <3>1. user'[u] = NewUser(None, TRUE) /\ chosen'[u] = None /\ profile'[u] = profile[u]
      BY <1>2, <1>10, <2>0, <2>1 DEF OAuthInsert, TablesOK, AccountOK
    <3>2. AccountOK(u)' /\ user'[u].state = "active"
      BY <1>8, <2>1, <3>1
    <3>3. RequestInOrder(w)'
      BY <1>6, <1>10, <2>1, <3>2 DEF OAuthInsert
    <3> QED BY <1>2, <1>3, <1>4, <3>2, <3>3, OwnStep
  <2>2. CASE user[u].state # "absent"
    <3>1. pc'[w] = "idle" /\ UNCHANGED user
      BY <1>7, <1>10, <2>2 DEF OAuthInsert
    <3>2. AccountOK(u)'
      BY <1>1, <1>2, <2>0, <3>1 DEF AccountOK
    <3> QED BY <1>2, <1>3, <1>4, <3>1, <3>2, OwnStep
  <2> QED BY <2>1, <2>2
<1>11. ASSUME RegisterProfile(w) PROVE SerialInv'
  <2>1. user[u].state = "active" /\ UNCHANGED <<user, chosen, suspended>>
    BY <1>2, <1>11 DEF RegisterProfile, RequestInOrder, history
  <2>2. AccountOK(u)'
    BY <1>1, <1>2, <2>1 DEF AccountOK
  <2>3. RequestInOrder(w)'
    BY <1>5, <1>11, <2>1 DEF RegisterProfile
  <2> QED BY <1>2, <1>3, <1>4, <2>2, <2>3, OwnStep
<1>12. ASSUME OAuthPhoto(w) PROVE SerialInv'
  <2>1. user[u].state # "absent" /\ job[w].word = profile[u] /\ UNCHANGED <<user, chosen, suspended>>
    BY <1>2, <1>12 DEF OAuthPhoto, RequestInOrder, history
  <2>2. profile'[u] = profile[u]
    BY <1>2, <1>12, <2>1 DEF OAuthPhoto, TablesOK
  <2>3. AccountOK(u)'
    BY <1>1, <1>2, <2>1, <2>2 DEF AccountOK
  <2>4. RequestInOrder(w)'
    BY <1>5, <1>12, <2>1 DEF OAuthPhoto
  <2> QED BY <1>2, <1>3, <1>4, <2>3, <2>4, OwnStep
<1> QED BY <1>9, <1>10, <1>11, <1>12

\* A request makes the entity it is going to save.
LEMMA EntitySerial ==
  ASSUME TypeInv, SerialInv, width = 1, NEW w \in Workers,
         LoginCompare(w) \/ ChangeHash(w) \/ DeleteProfile(w)
  PROVE  SerialInv'
<1> DEFINE u0 == job[w].user
<1> SUFFICES ASSUME NEW u, u = u0 PROVE SerialInv'
  OBVIOUS
<1>1. /\ pc[w] \in {"compare", "hash", "anonymize"}
      /\ UNCHANGED <<user, badge, request, token, job, dirty, width, history>>
  BY DEF LoginCompare, CompareWith, ChangeHash, DeleteProfile, tables
<1>2. /\ u \in Users /\ AccountOK(u) /\ TokenOK(u) /\ RequestInOrder(w) /\ LocalsOK /\ TablesOK
      /\ user[u] \in UserRow
  BY <1>1, Before
<1> DEFINE row == user[u]
<1>3. Step(w) /\ mem[w] = row /\ row.state # "absent"
  BY <1>1, <1>2 DEF Step, RequestInOrder, EntityOK
<1>4. TokenOK(u)'
  <2>1. token[u] \cap redeemed[u] = {}
    BY <1>1, <1>2 DEF TokenOK, SerialInv, Alone
  <2> QED BY <1>1, <2>1 DEF TokenOK, history
<1>5. ASSUME NEW entity, NEW label, Save(w, entity, label)
      PROVE  /\ pc'[w] = "select" /\ mem'[w] = entity /\ then'[w] = label
             /\ \A l : Saves(w, l)' <=> label = l
  BY <1>2, <1>5 DEF Save, Goto, LocalsOK, Saves
<1>6. ASSUME LoginCompare(w) PROVE SerialInv'
  <2>1. row.until # "future" /\ UNCHANGED tables
    BY <1>2, <1>6 DEF LoginCompare, CompareWith, RequestInOrder
  <2>2. AccountOK(u)'
    BY <1>1, <1>2, <2>1 DEF AccountOK, tables, history
  <2> DEFINE n == row.failed + 1
  <2>3. ASSUME Save(w, Reset(row), "grant") PROVE RequestInOrder(w)'
    BY <1>1, <1>3, <1>5, <2>1, <2>3 DEF RequestInOrder, EntityOK, tables
  <2>4. ASSUME NEW entity, entity = IF n >= MaxFailedAttempts THEN LockedOut(row, n) ELSE Counted(row, n),
               Save(w, entity, "refuse")
        PROVE  RequestInOrder(w)'
    BY <1>1, <1>3, <1>5, <2>1, <2>4 DEF RequestInOrder, EntityOK, tables
  <2>5. RequestInOrder(w)'
    <3>1. CASE job[w].word = mem[w].password
      BY <1>3, <1>6, <2>3, <3>1 DEF LoginCompare, CompareWith
    <3>2. CASE job[w].word # mem[w].password
      <4> DEFINE e0 == IF n >= MaxFailedAttempts THEN LockedOut(row, n) ELSE Counted(row, n)
      <4>1. Save(w, e0, "refuse")
        BY <1>3, <1>6, <3>2 DEF LoginCompare, CompareWith
      <4> SUFFICES ASSUME NEW entity, entity = e0 PROVE RequestInOrder(w)'
        OBVIOUS
      <4> QED BY <2>4, <4>1
    <3> QED BY <3>1, <3>2
  <2> QED BY <1>2, <1>3, <1>4, <2>2, <2>5, OwnStep
<1>7. ASSUME ChangeHash(w) PROVE SerialInv'
  <2>1. job[w].key \notin redeemed[u] /\ UNCHANGED tables
    BY <1>2, <1>7 DEF ChangeHash, RequestInOrder
  <2>2. AccountOK(u)'
    BY <1>1, <1>2, <2>1 DEF AccountOK, tables, history
  <2>3. Save(w, WithPassword(row, job[w].word), "redeem")
    BY <1>3, <1>7 DEF ChangeHash
  <2>4. RequestInOrder(w)'
    BY <1>1, <1>3, <1>5, <2>1, <2>3 DEF RequestInOrder, EntityOK, tables, history
  <2> QED BY <1>2, <1>3, <1>4, <2>2, <2>4, OwnStep
<1>8. ASSUME DeleteProfile(w) PROVE SerialInv'
  <2>1. job[w].word = profile[u] /\ Save(w, Erased(row), "idle")
    BY <1>2, <1>3, <1>8 DEF DeleteProfile, RequestInOrder
  <2>2. profile'[u] # "personal"
    BY <1>2, <1>8, <2>1 DEF DeleteProfile, TablesOK
  <2>3. AccountOK(u)'
    BY <1>1, <1>2, <2>2 DEF AccountOK, history
  <2>4. RequestInOrder(w)'
    BY <1>1, <1>3, <1>5, <2>1, <2>2 DEF RequestInOrder, EntityOK, history
  <2> QED BY <1>2, <1>3, <1>4, <2>3, <2>4, OwnStep
<1> QED BY <1>6, <1>7, <1>8

\* The answer of a request.
LEMMA LastSerial ==
  ASSUME TypeInv, SerialInv, width = 1, NEW w \in Workers,
         Grant(w) \/ ChangeRedeem(w) \/ Suspend(w) \/ Unsuspend(w) \/ Decide(w) \/ Fail(w)
  PROVE  SerialInv'
<1> DEFINE u0 == job[w].user
<1> SUFFICES ASSUME NEW u, u = u0 PROVE SerialInv'
  OBVIOUS
<1>1. pc[w] # "idle" /\ (Step(w) \/ Fail(w)) /\ Finish(w)
  BY StepsAreBusy DEF Step, Grant, ChangeRedeem, Suspend, Unsuspend, Decide, Fail
<1>2. /\ u \in Users /\ AccountOK(u) /\ TokenOK(u) /\ RequestInOrder(w) /\ LocalsOK /\ TablesOK /\ HistoryOK
      /\ user[u] \in UserRow /\ streak[u] \in Nat /\ user[u].failed \in Nat
  BY <1>1, Before
<1>3. pc'[w] = "idle"
  BY <1>1, <1>2 DEF Finish, Goto, LocalsOK
<1>4. ASSUME pc[w] # "redeem", UNCHANGED <<token, redeemed>> PROVE TokenOK(u)'
  <2>1. token[u] \cap redeemed[u] = {}
    BY <1>1, <1>2, <1>4 DEF TokenOK, SerialInv, Alone
  <2> QED BY <1>4, <2>1 DEF TokenOK
<1>5. DOMAIN user[u] = Columns
  BY <1>2 DEF UserRow, Columns
<1>6. CASE Grant(w) \/ Fail(w)
  <2>1. AccountOK(u)'
    BY <1>2, <1>6 DEF Grant, Fail, AccountOK, tables, history
  <2>2. TokenOK(u)'
    BY <1>4, <1>6 DEF Grant, Fail, tables, history
  <2> QED BY <1>1, <1>2, <1>3, <2>1, <2>2, OwnStep
<1>7. CASE ChangeRedeem(w)
  <2>1. AccountOK(u)'
    BY <1>2, <1>7 DEF ChangeRedeem, AccountOK, history
  <2>2. TokenOK(u)'
    <3>1. token'[u] = token[u] \ {job[w].key} /\ redeemed' = redeemed
      BY <1>2, <1>7 DEF ChangeRedeem, TablesOK, history
    <3>2. \A t \in token[u] \cap redeemed[u] : t = job[w].key
      BY <1>1, <1>2 DEF TokenOK, SerialInv, Alone
    <3> QED BY <3>1, <3>2 DEF TokenOK
  <2> QED BY <1>1, <1>2, <1>3, <2>1, <2>2, OwnStep
<1>8. CASE Suspend(w)
  <2>1. user'[u] = [user[u] EXCEPT !.locked = TRUE] /\ suspended'[u] = TRUE
    BY <1>2, <1>8 DEF Suspend, TablesOK, HistoryOK
  <2>2. /\ user'[u].state = user[u].state /\ user'[u].password = user[u].password
        /\ user'[u].verified = user[u].verified
        /\ user'[u].failed = user[u].failed /\ user'[u].until = user[u].until
    BY <1>5, <2>1 DEF Columns
  <2>3. AccountOK(u)'
    BY <1>2, <1>8, <2>1, <2>2 DEF Suspend, AccountOK
  <2>4. TokenOK(u)'
    BY <1>4, <1>8 DEF Suspend
  <2> QED BY <1>1, <1>2, <1>3, <2>3, <2>4, OwnStep
<1>9. CASE Unsuspend(w)
  <2>1. user'[u] = [user[u] EXCEPT !.locked = FALSE, !.until = "null"] /\ streak'[u] = 0
    BY <1>2, <1>9 DEF Unsuspend, TablesOK, HistoryOK
  <2>2. /\ user'[u].state = user[u].state /\ user'[u].password = user[u].password
        /\ user'[u].verified = user[u].verified
        /\ user'[u].failed = user[u].failed /\ user'[u].locked = FALSE
    BY <1>5, <2>1 DEF Columns
  <2>3. AccountOK(u)'
    BY <1>2, <1>9, <2>1, <2>2, AccountsAssumption DEF Unsuspend, AccountOK
  <2>4. TokenOK(u)'
    BY <1>4, <1>9 DEF Unsuspend
  <2> QED BY <1>1, <1>2, <1>3, <2>3, <2>4, OwnStep
<1>10. CASE Decide(w)
  <2> DEFINE b0 == user[u].verified \/ job[w].word = "approved"
  <2>0. job[w].word \in {"approved", "rejected"} /\ request[u] = "pending" /\ user[u].state # "absent"
    BY <1>1, <1>2, <1>10 DEF Decide, TypeInv, RequestOK, RequestInOrder
  <2>1. user'[u] = [user[u] EXCEPT !.verified = b0]
    BY <1>2, <1>10 DEF Decide, TablesOK
  <2>2. /\ user'[u].state = user[u].state /\ user'[u].password = user[u].password
        /\ user'[u].failed = user[u].failed /\ user'[u].until = user[u].until
        /\ user'[u].locked = user[u].locked
    <3> SUFFICES ASSUME NEW b, b = b0
                 PROVE  /\ user'[u].state = user[u].state /\ user'[u].password = user[u].password
                        /\ user'[u].failed = user[u].failed /\ user'[u].until = user[u].until
                        /\ user'[u].locked = user[u].locked
      OBVIOUS
    <3>1. user'[u] = [user[u] EXCEPT !.verified = b]
      BY <2>1
    <3> HIDE DEF b0
    <3> QED BY <1>5, <3>1 DEF Columns
  <2>3. user'[u].verified <=> b0
    BY <1>5, <2>1, Zenon DEF Columns
  <2>4. /\ request'[u] = job[w].word /\ badge'[u] \in {badge[u], job[w].word}
        /\ UNCHANGED <<profile, token, suspended, chosen, streak, redeemed>>
    BY <1>2, <1>10 DEF Decide, TablesOK, history
  <2>5. badge[u] = "none"
    BY <1>2, <2>0 DEF AccountOK
  <2>6. user[u].state = "active" => ~user[u].verified
    BY <1>2, <2>0 DEF AccountOK
  <2>7. user'[u].state = "active" => (user'[u].verified <=> request'[u] = "approved")
    BY <2>0, <2>2, <2>3, <2>4, <2>6
  <2>8. AccountOK(u)'
    BY <1>2, <2>0, <2>2, <2>4, <2>5, <2>7 DEF AccountOK
  <2>9. TokenOK(u)'
    BY <1>4, <1>10, <2>4 DEF Decide
  <2> QED BY <1>1, <1>2, <1>3, <2>8, <2>9, OwnStep
<1> QED BY <1>6, <1>7, <1>8, <1>9, <1>10

-----------------------------------------------------------------------------
(* Arrivals and the environment.                                           *)

\* A request that begins is in order: it is alone, and holds the row as it is.
LEMMA ArrivalSerial ==
  ASSUME TypeInv, SerialInv, width = 1, NEW w \in Workers, NEW a \in Users, Arrival(w, a)
  PROVE  SerialInv'
<1>0. TablesOK /\ LocalsOK /\ HistoryOK /\ Alone
  BY PartsOfType DEF SerialInv
<1>1. Free(w)
  BY DEF Arrival, UserRoutes, SuspensionRoutes, VerificationRoutes, RegisterRead, LoginRead, Refresh,
         OAuthRead, RequestReset, ChangeRead, DeleteRead, SuspendRead, UnsuspendRead, DecideRead, Begin, BeginWith
<1>2. \A v \in Workers : pc[v] = "idle"
  BY <1>0, <1>1, NobodyElse
<1>3. \A v \in Workers \ {w} : SameWorker(v) /\ pc'[v] = "idle"
  BY <1>2, OthersKept DEF SameWorker
<1>4. Alone'
  BY <1>3 DEF Alone
<1>5. user[a] \in UserRow /\ \A u \in Users : AccountOK(u) /\ token[u] \cap redeemed[u] = {}
  BY <1>0, <1>2 DEF TablesOK, SerialInv, TokenOK
<1>6. ASSUME UNCHANGED <<tables, history>>, pc'[w] # "idle" => RequestInOrder(w)' PROVE SerialInv'
  <2>1. \A u \in Users : AccountOK(u)' /\ TokenOK(u)'
    BY <1>5, <1>6 DEF AccountOK, TokenOK, tables, history
  <2> QED BY <1>3, <1>4, <1>6, <2>1 DEF SerialInv
<1>7. ASSUME UNCHANGED <<tables, history, locals>> PROVE SerialInv'
  <2>1. pc'[w] = "idle"
    BY <1>2, <1>7 DEF locals
  <2> QED BY <1>6, <1>7, <2>1
<1>8. ASSUME NEW label, pc'[w] = label, job'[w].user = a, mem'[w] = user[a], UNCHANGED <<tables, history>>,
             label \in {"register", "adopt", "grant", "photo", "hash", "anonymize", "suspend", "unsuspend", "decide"},
             label \notin {"register", "adopt"} => user[a].state # "absent",
             label \in {"photo", "anonymize"} => job'[w].word = profile[a],
             label = "decide" => request[a] = "pending",
             label = "hash" => job'[w].key \notin redeemed[a]
      PROVE  SerialInv'
  <2>1. \A l : ~Saves(w, l)'
    BY <1>8 DEF Saves
  <2>2. RequestInOrder(w)'
    BY <1>8, <2>1 DEF RequestInOrder, EntityOK, tables, history
  <2> QED BY <1>6, <1>8, <2>2
<1>9. ASSUME NEW p, RegisterRead(w, a, p) PROVE SerialInv'
  BY <1>0, <1>7, <1>8, <1>9 DEF RegisterRead, Begin, BeginWith, Took, Goto, LocalsOK
<1>10. ASSUME Refresh(w, a) PROVE SerialInv'
  BY <1>0, <1>7, <1>8, <1>10 DEF Refresh, Begin, BeginWith, Took, Goto, LocalsOK
<1>11. ASSUME OAuthRead(w, a) PROVE SerialInv'
  BY <1>0, <1>7, <1>8, <1>11 DEF OAuthRead, Begin, BeginWith, Took, Goto, LocalsOK
<1>12. ASSUME NEW t, NEW p, ChangeRead(w, a, t, p) PROVE SerialInv'
  <2>1. CASE t \in token[a]
    <3>1. t \notin redeemed[a] /\ user[a].state # "absent"
      BY <1>5, <2>1 DEF AccountOK
    <3>2. pc'[w] = "hash" /\ job'[w].user = a /\ job'[w].key = t /\ mem'[w] = user[a] /\ UNCHANGED <<tables, history>>
      BY <1>0, <1>12, <2>1 DEF ChangeRead, Begin, BeginWith, Took, Goto, LocalsOK
    <3> QED BY <1>8, <3>1, <3>2
  <2>2. CASE t \notin token[a]
    BY <1>7, <1>12, <2>2 DEF ChangeRead, Begin, BeginWith
  <2> QED BY <2>1, <2>2
<1>13. ASSUME DeleteRead(w, a) PROVE SerialInv'
  BY <1>0, <1>7, <1>8, <1>13 DEF DeleteRead, Begin, BeginWith, Took, Goto, LocalsOK
<1>14. ASSUME SuspendRead(w, a) PROVE SerialInv'
  BY <1>0, <1>7, <1>8, <1>14 DEF SuspendRead, Begin, BeginWith, Took, Goto, LocalsOK
<1>15. ASSUME UnsuspendRead(w, a) PROVE SerialInv'
  BY <1>0, <1>7, <1>8, <1>15 DEF UnsuspendRead, Begin, BeginWith, Took, Goto, LocalsOK
<1>16. ASSUME NEW verdict, DecideRead(w, a, verdict) PROVE SerialInv'
  <2>1. CASE request[a] = "pending"
    <3>1. user[a].state # "absent"
      BY <1>5, <2>1 DEF AccountOK
    <3>2. pc'[w] = "decide" /\ job'[w].user = a /\ mem'[w] = user[a] /\ UNCHANGED <<tables, history>>
      BY <1>0, <1>16, <2>1 DEF DecideRead, Begin, BeginWith, Took, Goto, LocalsOK
    <3> QED BY <1>8, <2>1, <3>1, <3>2
  <2>2. CASE request[a] # "pending"
    BY <1>7, <1>16, <2>2 DEF DecideRead, Begin, BeginWith
  <2> QED BY <2>1, <2>2
<1>17. ASSUME NEW p, LoginRead(w, a, p) PROVE SerialInv'
  <2>0. UNCHANGED <<tables, history>>
    BY <1>17 DEF LoginRead
  <2>1. CASE UNCHANGED locals
    BY <1>7, <2>0, <2>1
  <2>2. CASE ~UNCHANGED locals
    <3>0. user[a].state = "active" /\ user[a].until # "future" /\ job'[w].user = a
      BY <1>0, <1>17, <2>2 DEF LoginRead, Took, LocalsOK
    <3>1. CASE user[a].locked /\ user[a].until = "past"
      <4>1. pc'[w] = "select" /\ then'[w] = "compare" /\ mem'[w] = Reset(user[a])
        BY <1>0, <1>17, <2>2, <3>1 DEF LoginRead, Save, Goto, LocalsOK
      <4>2. RequestInOrder(w)'
        BY <2>0, <3>0, <3>1, <4>1 DEF RequestInOrder, EntityOK, Saves, tables, history
      <4> QED BY <1>6, <2>0, <4>2
    <3>2. CASE ~(user[a].locked /\ user[a].until = "past")
      <4>1. pc'[w] = "compare" /\ mem'[w] = user[a]
        BY <1>0, <1>17, <2>2, <3>2 DEF LoginRead, Goto, LocalsOK
      <4>2. RequestInOrder(w)'
        BY <2>0, <3>0, <3>2, <4>1 DEF RequestInOrder, EntityOK, Saves, tables, history
      <4> QED BY <1>6, <2>0, <4>2
    <3> QED BY <3>1, <3>2
  <2> QED BY <2>1, <2>2
<1>18. ASSUME RequestReset(w, a) PROVE SerialInv'
  <2>0. UNCHANGED <<user, profile, badge, request, locals, width, suspended, chosen, guesses, streak>>
    BY <1>18 DEF RequestReset
  <2>1. \A u \in Users : token'[u] \cap redeemed'[u] \subseteq token[u] \cap redeemed[u]
    BY <1>0, <1>18 DEF RequestReset, TablesOK, HistoryOK
  <2>2. \A u \in Users : user[u].state = "absent" => token'[u] = token[u]
    BY <1>0, <1>18 DEF RequestReset, TablesOK
  <2>4. ASSUME NEW u \in Users PROVE AccountOK(u)' /\ TokenOK(u)'
    <3>1. AccountOK(u)'
      BY <1>5, <2>0, <2>2 DEF AccountOK
    <3>2. token'[u] \cap redeemed'[u] = {}
      BY <1>5, <2>1
    <3> QED BY <3>1, <3>2 DEF TokenOK
  <2> QED BY <1>2, <1>4, <2>0, <2>4 DEF SerialInv, locals
<1> QED
  BY <1>9, <1>10, <1>11, <1>12, <1>13, <1>14, <1>15, <1>16, <1>17, <1>18
     DEF Arrival, UserRoutes, SuspensionRoutes, VerificationRoutes

\* A lockout that runs out does so for the row and for every copy of it.
LEMMA ElapsedRows ==
  ASSUME NEW row \in UserRow
  PROVE  LET later == [row EXCEPT !.until = "past"] IN
         /\ later \in UserRow /\ later.until = "past"
         /\ later.state = row.state /\ later.password = row.password /\ later.verified = row.verified
         /\ later.locked = row.locked /\ later.failed = row.failed
<1>1. DOMAIN row = Columns
  BY DEF UserRow, Columns
<1>2. [row EXCEPT !.until = "past"] \in UserRow
  BY Zenon DEF UserRow
<1> QED BY <1>1, <1>2 DEF Columns

\* Rows with the same columns are the same.
LEMMA RowEquality ==
  ASSUME NEW row \in UserRow, NEW other \in UserRow,
         row.state = other.state, row.password = other.password, row.verified = other.verified,
         row.locked = other.locked, row.until = other.until, row.failed = other.failed
  PROVE  row = other
BY DEF UserRow

\* Time passes for the entity that is about to be saved as for the row it was
\* made from.
LEMMA ElapsedPassword ==
  ASSUME NEW row \in UserRow, NEW p \in Passwords, row.until = "future"
  PROVE  /\ [WithPassword(row, p) EXCEPT !.until = "past"] = WithPassword([row EXCEPT !.until = "past"], p)
         /\ WithPassword(row, p).until = "future"
<1> DEFINE later == [row EXCEPT !.until = "past"]
<1>1. later \in UserRow
  BY ElapsedRows
<1>2. WithPassword(row, p) \in UserRow /\ WithPassword(later, p) \in UserRow
  BY <1>1, UpdatesTyped
<1>3. [WithPassword(row, p) EXCEPT !.until = "past"] = WithPassword(later, p)
  <2> DEFINE a == [WithPassword(row, p) EXCEPT !.until = "past"]
             b == WithPassword(later, p)
  <2>1. /\ a \in UserRow /\ a.until = "past" /\ a.state = WithPassword(row, p).state
        /\ a.password = WithPassword(row, p).password /\ a.verified = WithPassword(row, p).verified
        /\ a.locked = WithPassword(row, p).locked /\ a.failed = WithPassword(row, p).failed
    BY <1>2, ElapsedRows
  <2>2. /\ b.until = later.until /\ b.state = later.state /\ b.password = p /\ b.verified = later.verified
        /\ b.locked = later.locked /\ b.failed = later.failed
    BY <1>1, PasswordColumns
  <2>3. /\ WithPassword(row, p).state = row.state /\ WithPassword(row, p).password = p
        /\ WithPassword(row, p).verified = row.verified /\ WithPassword(row, p).locked = row.locked
        /\ WithPassword(row, p).failed = row.failed
    BY PasswordColumns
  <2>4. /\ later.until = "past" /\ later.state = row.state /\ later.verified = row.verified
        /\ later.locked = row.locked /\ later.failed = row.failed
    BY ElapsedRows
  <2> HIDE DEF a, b, later
  <2>5. /\ a.state = b.state /\ a.password = b.password /\ a.verified = b.verified
        /\ a.locked = b.locked /\ a.until = b.until /\ a.failed = b.failed
    BY <2>1, <2>2, <2>3, <2>4
  <2> QED BY <1>2, <2>1, <2>5, RowEquality DEF a, b
<1>4. WithPassword(row, p).until = row.until
  BY PasswordColumns
<1> QED BY <1>3, <1>4

LEMMA ElapsedErased ==
  ASSUME NEW row \in UserRow, row.until = "future"
  PROVE  /\ [Erased(row) EXCEPT !.until = "past"] = Erased([row EXCEPT !.until = "past"])
         /\ Erased(row).until = "future"
<1> DEFINE later == [row EXCEPT !.until = "past"]
<1>1. later \in UserRow
  BY ElapsedRows
<1>2. Erased(row) \in UserRow /\ Erased(later) \in UserRow
  BY <1>1, UpdatesTyped
<1>3. [Erased(row) EXCEPT !.until = "past"] = Erased(later)
  <2> DEFINE a == [Erased(row) EXCEPT !.until = "past"]
             b == Erased(later)
  <2>1. /\ a \in UserRow /\ a.until = "past" /\ a.state = Erased(row).state
        /\ a.password = Erased(row).password /\ a.verified = Erased(row).verified
        /\ a.locked = Erased(row).locked /\ a.failed = Erased(row).failed
    BY <1>2, ElapsedRows
  <2>2. /\ b.until = later.until /\ b.state = "deleted" /\ b.password = None /\ b.verified = FALSE
        /\ b.locked = TRUE /\ b.failed = later.failed
    BY <1>1, ErasedColumns
  <2>3. /\ Erased(row).state = "deleted" /\ Erased(row).password = None
        /\ Erased(row).verified = FALSE /\ Erased(row).locked = TRUE
        /\ Erased(row).failed = row.failed
    BY ErasedColumns
  <2>4. later.until = "past" /\ later.failed = row.failed
    BY ElapsedRows
  <2> HIDE DEF a, b, later
  <2>5. /\ a.state = b.state /\ a.password = b.password /\ a.verified = b.verified
        /\ a.locked = b.locked /\ a.until = b.until /\ a.failed = b.failed
    BY <2>1, <2>2, <2>3, <2>4
  <2> QED BY <1>2, <2>1, <2>5, RowEquality DEF a, b
<1>4. Erased(row).until = row.until
  BY ErasedColumns
<1> QED BY <1>3, <1>4

\* The columns that differ are the same ones.
LEMMA ElapsedChanges ==
  ASSUME NEW row \in UserRow, NEW entity \in UserRow, row.until = "future", entity.until = "future"
  PROVE  Changed([entity EXCEPT !.until = "past"], [row EXCEPT !.until = "past"]) = Changed(entity, row)
<1>1. DOMAIN row = Columns /\ DOMAIN entity = Columns
  BY DEF UserRow, Columns
<1> QED BY <1>1 DEF Changed, Columns

LEMMA LockoutElapsesSerial ==
  ASSUME TypeInv, SerialInv, width = 1, NEW a \in Users, LockoutElapses(a)
  PROVE  SerialInv'
<1>0. TablesOK /\ LocalsOK /\ Alone
  BY PartsOfType DEF SerialInv
<1>1. /\ user[a].until = "future"
      /\ UNCHANGED <<profile, badge, request, token, pc, job, dirty, then, width>>
      /\ UNCHANGED <<suspended, chosen, guesses, streak, redeemed>>
  BY DEF LockoutElapses, history
<1>2. user[a] \in UserRow
  BY <1>0 DEF TablesOK
<1> DEFINE later == [user[a] EXCEPT !.until = "past"]
<1>3. user'[a] = later /\ \A u \in Users : u # a => user'[u] = user[u]
  BY <1>0 DEF LockoutElapses, TablesOK
<1>4. /\ later \in UserRow /\ later.until = "past" /\ later.state = user[a].state
      /\ later.password = user[a].password /\ later.verified = user[a].verified
      /\ later.locked = user[a].locked /\ later.failed = user[a].failed
  BY <1>2, ElapsedRows
<1>5. ASSUME NEW u \in Users PROVE AccountOK(u)' /\ TokenOK(u)'
  <2>0. AccountOK(u) /\ TokenOK(u)
    BY DEF SerialInv
  <2>1. TokenOK(u)'
    BY <1>1, <2>0 DEF TokenOK
  <2>2. CASE u = a
    <3> HIDE DEF later
    <3>1. AccountOK(a)'
      BY <1>1, <1>3, <1>4, <2>0, <2>2 DEF AccountOK
    <3> QED BY <2>1, <2>2, <3>1
  <2>3. CASE u # a
    BY <1>1, <1>3, <2>0, <2>1, <2>3 DEF AccountOK
  <2> QED BY <2>2, <2>3
<1>6. ASSUME NEW w \in Workers, pc[w] # "idle" PROVE RequestInOrder(w)'
  <2>0. /\ RequestInOrder(w) /\ RequestOK(w) /\ job[w].user \in Users /\ mem[w] \in UserRow
    BY <1>0, <1>6 DEF SerialInv, TypeInv, RequestOK, LocalsOK
  <2>1. \A l : Saves(w, l)' <=> Saves(w, l)
    BY <1>1 DEF Saves
  <2>2. CASE job[w].user # a
    <3>1. mem'[w] = mem[w] /\ user'[job[w].user] = user[job[w].user]
      BY <1>3, <2>0, <2>2 DEF LockoutElapses
    <3>2. EntityOK(w, user[job[w].user])'
      BY <1>1, <2>0, <2>1, <3>1 DEF RequestInOrder, EntityOK
    <3> QED BY <1>1, <2>0, <2>1, <3>1, <3>2 DEF RequestInOrder
  <2>3. CASE job[w].user = a
    <3>1. mem'[w] = IF mem[w].until = "future" THEN [mem[w] EXCEPT !.until = "past"] ELSE mem[w]
      BY <2>3 DEF LockoutElapses
    <3>2. pc[w] # "compare" /\ ~Saves(w, "compare") /\ ~Saves(w, "grant") /\ ~Saves(w, "refuse")
      BY <1>1, <2>0, <2>3 DEF RequestInOrder
    <3>3. pc[w] \in {"hash", "anonymize"} => mem'[w] = later
      BY <1>1, <2>0, <2>3, <3>1 DEF RequestInOrder, EntityOK
    <3>4. ASSUME Saves(w, "redeem")
          PROVE  mem[w].until = "future" /\ mem'[w] = WithPassword(later, job[w].word)
      <4>1. mem[w] = WithPassword(user[a], job[w].word) /\ job[w].word \in Passwords
        BY <2>0, <2>3, <3>4 DEF RequestInOrder, EntityOK, RequestOK
      <4>2. /\ [WithPassword(user[a], job[w].word) EXCEPT !.until = "past"] = WithPassword(later, job[w].word)
            /\ WithPassword(user[a], job[w].word).until = "future"
        BY <1>1, <1>2, <4>1, ElapsedPassword
      <4> QED BY <3>1, <4>1, <4>2
    <3>5. ASSUME Saves(w, "idle")
          PROVE  mem[w].until = "future" /\ mem'[w] = Erased(later)
      <4>1. mem[w] = Erased(user[a])
        BY <2>0, <2>3, <3>5 DEF RequestInOrder, EntityOK
      <4>2. [Erased(user[a]) EXCEPT !.until = "past"] = Erased(later) /\ Erased(user[a]).until = "future"
        BY <1>1, <1>2, ElapsedErased
      <4> QED BY <3>1, <4>1, <4>2
    <3>6. ASSUME pc[w] = "update" PROVE dirty[w] = Changed(mem'[w], later)
      <4>1. dirty[w] = Changed(mem[w], user[a])
        BY <2>0, <2>3, <3>6 DEF RequestInOrder, EntityOK
      <4>2. mem[w].until = "future"
        BY <2>0, <3>2, <3>4, <3>5, <3>6 DEF RequestInOrder, Saves
      <4> QED BY <1>1, <1>2, <2>0, <3>1, <4>1, <4>2, ElapsedChanges
    <3> HIDE DEF later
    <3>7. EntityOK(w, user[a])'
      BY <1>1, <1>3, <2>1, <3>2, <3>3, <3>4, <3>5, <3>6 DEF EntityOK
    <3> QED BY <1>1, <1>3, <1>4, <2>0, <2>1, <2>3, <3>2, <3>7 DEF RequestInOrder
  <2> QED BY <2>2, <2>3
<1>7. Alone'
  BY <1>0, <1>1 DEF Alone
<1> QED BY <1>1, <1>5, <1>6, <1>7 DEF SerialInv

\* The rest of the environment.
LEMMA EnvironmentSerial ==
  ASSUME TypeInv, SerialInv, width = 1, (\E a \in Users : Submit(a) \/ \E t \in Tokens : TokenExpires(a, t)) \/ Restart
  PROVE  SerialInv'
<1>0. TablesOK /\ LocalsOK /\ Alone
  BY PartsOfType DEF SerialInv
<1>1. ASSUME NEW a \in Users, NEW t, TokenExpires(a, t) PROVE SerialInv'
  <2>1. /\ UNCHANGED <<user, profile, badge, request, locals, width, history>>
        /\ \A u \in Users : token'[u] \subseteq token[u]
    BY <1>0, <1>1 DEF TokenExpires, TablesOK
  <2>2. \A u \in Users : AccountOK(u)' /\ TokenOK(u)'
    BY <2>1 DEF SerialInv, AccountOK, TokenOK, locals, history
  <2>3. \A w \in Workers : RequestInOrder(w) => RequestInOrder(w)'
    BY <2>1 DEF RequestInOrder, EntityOK, Saves, locals, history
  <2> QED BY <1>0, <2>1, <2>2, <2>3 DEF SerialInv, Alone, locals
<1>2. ASSUME NEW a \in Users, Submit(a) PROVE SerialInv'
  <2>1. /\ UNCHANGED <<user, profile, badge, token, locals, width, history>>
        /\ user[a].state = "active" /\ ~user[a].verified /\ request[a] = "none"
        /\ request'[a] = "pending" /\ \A u \in Users : u # a => request'[u] = request[u]
    BY <1>0, <1>2 DEF Submit, TablesOK
  <2>2. ASSUME NEW u \in Users PROVE AccountOK(u)' /\ TokenOK(u)'
    <3>1. TokenOK(u)'
      BY <2>1 DEF SerialInv, TokenOK, locals, history
    <3>2. AccountOK(u)'
      <4>1. CASE u # a
        BY <2>1, <4>1 DEF SerialInv, AccountOK, history
      <4>2. CASE u = a
        <5>1. badge[a] = "none"
          BY <2>1 DEF SerialInv, AccountOK
        <5> QED BY <2>1, <4>2, <5>1 DEF SerialInv, AccountOK, history
      <4> QED BY <4>1, <4>2
    <3> QED BY <3>1, <3>2
  <2>3. ASSUME NEW w \in Workers, pc[w] # "idle" PROVE RequestInOrder(w)'
    <3>1. RequestInOrder(w) /\ job[w].user \in Users
      BY <2>3 DEF SerialInv, TypeInv, RequestOK
    <3>2. pc[w] = "decide" => job[w].user # a
      BY <2>1, <3>1 DEF RequestInOrder
    <3> QED BY <2>1, <3>1, <3>2 DEF RequestInOrder, EntityOK, Saves, locals, history
  <2> QED BY <1>0, <2>1, <2>2, <2>3 DEF SerialInv, Alone, locals
<1>3. ASSUME Restart PROVE SerialInv'
  <2>1. /\ UNCHANGED <<user, profile, badge, request, history>> /\ \A u \in Users : token'[u] = {}
        /\ \A w \in Workers : pc'[w] = "idle"
    BY <1>3 DEF Restart
  <2> QED BY <2>1 DEF SerialInv, Alone, AccountOK, TokenOK, history
<1> QED BY <1>1, <1>2, <1>3

-----------------------------------------------------------------------------
(* The theorems.                                                           *)

LEMMA SerialStarts == Init => SerialInv
<1> SUFFICES ASSUME Init PROVE SerialInv
  OBVIOUS
<1>1. \A w \in Workers : pc[w] = "idle"
  BY DEF Init
<1>2. ASSUME NEW u \in Users PROVE AccountOK(u) /\ TokenOK(u)
  <2>1. /\ user[u].state = "absent" /\ user[u].failed = 0 /\ streak[u] = 0 /\ chosen[u] = None
        /\ request[u] = "none" /\ badge[u] = "none" /\ token[u] = {}
    BY DEF Init, NoUser, Row
  <2> QED BY <2>1, AccountsAssumption DEF AccountOK, TokenOK
<1> QED BY <1>1, <1>2 DEF SerialInv, Alone

\* How many requests may overlap never changes.
LEMMA WidthStays == [Next]_vars => width' = width
<1>1. ASSUME NEW w \in Workers, Step(w) \/ Fail(w) PROVE width' = width
  BY <1>1
     DEF Step, SaveSelect, SaveUpdate, RegisterInsert, RegisterProfile, LoginCompare, CompareWith, Grant, Fail,
         OAuthInsert, OAuthPhoto, ChangeHash, ChangeRedeem, DeleteProfile, Suspend, Unsuspend, Decide
<1>2. ASSUME NEW w \in Workers, NEW u \in Users, Arrival(w, u) PROVE width' = width
  BY <1>2
     DEF Arrival, UserRoutes, SuspensionRoutes, VerificationRoutes, RegisterRead, LoginRead, Refresh,
         OAuthRead, RequestReset, ChangeRead, DeleteRead, SuspendRead, UnsuspendRead, DecideRead, Begin, BeginWith
<1> QED BY <1>1, <1>2 DEF Next, TokenExpires, Submit, LockoutElapses, Restart, vars

LEMMA SerialStep == TypeInv /\ SerialInv /\ [Next]_vars => SerialInv'
<1> SUFFICES ASSUME TypeInv, SerialInv, [Next]_vars, width' = 1 PROVE SerialInv'
  BY DEF SerialInv
<1>0. width = 1
  BY WidthStays
<1>1. ASSUME NEW w \in Workers, Step(w) \/ Fail(w) PROVE SerialInv'
  BY <1>0, <1>1, SelectSerial, UpdateSerial, EntrySerial, EntitySerial, LastSerial DEF Step
<1>2. CASE UNCHANGED vars
  BY <1>2 DEF vars, tables, locals, history, SerialInv, Alone, AccountOK, TokenOK, RequestInOrder, EntityOK, Saves
<1> QED BY <1>0, <1>1, <1>2, ArrivalSerial, LockoutElapsesSerial, EnvironmentSerial DEF Next

LEMMA AccountsInvariant == Spec => [](TypeInv /\ GuessInv /\ SerialInv)
BY TypeStarts, TypeStep, GuessStarts, GuessStep, SerialStarts, SerialStep, PTL DEF Spec

\* Nobody is locked out who has not had that many wrong passwords, with any
\* number of requests at once; one at a time, that many in a row do lock, and
\* an account is marked locked by them or by an administrator only.
THEOREM LockoutsAreEarned == Spec => []LocksAreEarned
<1>1. TypeInv /\ GuessInv /\ SerialInv => LocksAreEarned
  <2> SUFFICES ASSUME TypeInv, GuessInv, SerialInv, NEW u \in Users
               PROVE  /\ user[u].until # "null" => guesses[u] = MaxFailedAttempts
                      /\ OneByOne =>
                           /\ streak[u] = MaxFailedAttempts => user[u].until # "null"
                           /\ user[u].state = "active" /\ user[u].locked =>
                                suspended[u] \/ user[u].until # "null"
    BY DEF LocksAreEarned
  <2>1. guesses[u] \in 0..MaxFailedAttempts
    BY PartsOfType DEF HistoryOK
  <2>2. user[u].until # "null" => guesses[u] = MaxFailedAttempts
    BY <2>1, AccountsAssumption DEF GuessInv, Earned
  <2> QED BY <2>2 DEF SerialInv, AccountOK, OneByOne
<1> QED BY <1>1, AccountsInvariant, PTL

\* One request at a time, no stale save brings an old password back.
THEOREM LatestPasswordCounts == Spec => []PasswordIsLatest
<1>1. SerialInv => PasswordIsLatest
  BY DEF SerialInv, AccountOK, PasswordIsLatest, OneByOne
<1> QED BY <1>1, AccountsInvariant, PTL

\* One request at a time, deletion leaves no personal data wherever it stops.
THEOREM DeletionIsThorough == Spec => []DeletedIsAnonymous
<1>1. SerialInv => DeletedIsAnonymous
  BY DEF SerialInv, AccountOK, DeletedIsAnonymous, OneByOne
<1> QED BY <1>1, AccountsInvariant, PTL

\* One request at a time, request, badge and flag tell the same decision.
THEOREM DecisionsAgree == Spec => []DecisionIsConsistent
<1>1. SerialInv => DecisionIsConsistent
  BY DEF SerialInv, AccountOK, DecisionIsConsistent, OneByOne
<1> QED BY <1>1, AccountsInvariant, PTL

\* One request at a time, a reset token is good for one change of password.
THEOREM ResetTokenIsGoodOnce == Spec => TokenWorksOnce
<1>1. SerialInv => (OneByOne => \A w \in Workers : pc[w] = "hash" => job[w].key \notin redeemed[job[w].user])
  BY DEF SerialInv, RequestInOrder, OneByOne
<1>2. (OneByOne => \A w \in Workers : pc[w] = "hash" => job[w].key \notin redeemed[job[w].user])
      => (OneByOne => \A w \in Workers : pc[w] = "hash" /\ pc'[w] = "select" => job[w].key \notin redeemed[job[w].user])
  OBVIOUS
<1>3. SerialInv /\ [Next]_vars =>
        [OneByOne => \A w \in Workers : pc[w] = "hash" /\ pc'[w] = "select" => job[w].key \notin redeemed[job[w].user]]_vars
  BY <1>1, <1>2
<1> QED BY <1>3, AccountsInvariant, PTL DEF Spec, TokenWorksOnce
=============================================================================
