--------------------------- MODULE CatalogueProofs ---------------------------
(* Theorems of the catalogue, for every value of the constants, and of the  *)
(* instance that has the itineraries beside it.                            *)
EXTENDS MCCatalogue, FiniteSetTheorems, TLAPS

-----------------------------------------------------------------------------
(* Rows and what requests hold.                                            *)

Statuses == {"pending_approval", "active", "inactive"}
Args     == Texts \cup Images \cup Stays \cup {None}
Holdings ==
  [row : Listing, loaded : SUBSET {"images", "slots"}, children : SUBSET (Images \cup Slots),
   dirty : SUBSET Columns, arg : Args]

\* A row with one column changed is a row, with the other columns as they were.
LEMMA StateChanged ==
  ASSUME NEW row \in Listing, NEW x \in {"unborn", "here", "deleted"}
  PROVE  /\ [row EXCEPT !.state = x] \in Listing
         /\ [row EXCEPT !.state = x].state = x /\ [row EXCEPT !.state = x].rated = row.rated
<1>1. DOMAIN row = Columns
  BY DEF Listing, Columns
<1>2. [row EXCEPT !.state = x] \in Listing
  BY Zenon DEF Listing
<1> QED BY <1>1, <1>2 DEF Columns

LEMMA StatusChanged ==
  ASSUME NEW row \in Listing, NEW x \in Statuses
  PROVE  /\ [row EXCEPT !.status = x] \in Listing
         /\ [row EXCEPT !.status = x].state = row.state /\ [row EXCEPT !.status = x].rated = row.rated
<1>1. DOMAIN row = Columns
  BY DEF Listing, Columns
<1>2. [row EXCEPT !.status = x] \in Listing
  BY Zenon DEF Listing, Statuses
<1> QED BY <1>1, <1>2 DEF Columns

LEMMA TextChanged ==
  ASSUME NEW row \in Listing, NEW x \in Texts
  PROVE  /\ [row EXCEPT !.text = x] \in Listing
         /\ [row EXCEPT !.text = x].state = row.state /\ [row EXCEPT !.text = x].rated = row.rated
<1>1. DOMAIN row = Columns
  BY DEF Listing, Columns
<1>2. [row EXCEPT !.text = x] \in Listing
  BY Zenon DEF Listing
<1> QED BY <1>1, <1>2 DEF Columns

LEMMA PrimaryChanged ==
  ASSUME NEW row \in Listing, NEW x \in Images
  PROVE  /\ [row EXCEPT !.primary = x] \in Listing
         /\ [row EXCEPT !.primary = x].state = row.state /\ [row EXCEPT !.primary = x].rated = row.rated
<1>1. DOMAIN row = Columns
  BY DEF Listing, Columns
<1>2. [row EXCEPT !.primary = x] \in Listing
  BY Zenon DEF Listing
<1> QED BY <1>1, <1>2 DEF Columns

LEMMA RatedChanged ==
  ASSUME NEW row \in Listing, NEW x \in SUBSET Stays
  PROVE  /\ [row EXCEPT !.rated = x] \in Listing
         /\ [row EXCEPT !.rated = x].state = row.state /\ [row EXCEPT !.rated = x].rated = x
<1>1. DOMAIN row = Columns
  BY DEF Listing, Columns
<1>2. [row EXCEPT !.rated = x] \in Listing
  BY Zenon DEF Listing
<1> QED BY <1>1, <1>2 DEF Columns

\* The row a save() leaves behind: of each column, what was held or what was there.
LEMMA SavedRow ==
  ASSUME NEW row \in Listing, NEW entity \in Listing, NEW saved,
         saved = [c \in Columns |-> saved[c]], \A c \in Columns : saved[c] \in {entity[c], row[c]}
  PROVE  /\ saved \in Listing
         /\ saved.state \in {entity.state, row.state} /\ saved.rated \in {entity.rated, row.rated}
BY DEF Columns, Listing

\* What a request holds when it begins, and what its steps make of that.
LEMMA HoldingTyped ==
  ASSUME NEW row \in Listing, NEW loaded \in SUBSET {"images", "slots"},
         NEW children \in SUBSET (Images \cup Slots), NEW arg \in Args
  PROVE  /\ Holding(row, loaded, children, arg) \in Holdings
         /\ Holding(row, loaded, children, arg).row = row /\ Holding(row, loaded, children, arg).arg = arg
BY DEF Holding, Holdings

LEMMA BlankTyped == Unborn \in Listing /\ Blank \in Holdings
<1>1. Unborn \in Listing
  BY DEF Unborn, Listing
<1> QED BY <1>1, HoldingTyped DEF Blank, Args

LEMMA HeldChanged ==
  ASSUME NEW h \in Holdings
  PROVE  /\ h.row \in Listing /\ h.arg \in Args
         /\ \A d \in SUBSET Columns : /\ [h EXCEPT !.dirty = d] \in Holdings
                                      /\ [h EXCEPT !.dirty = d].row = h.row
                                      /\ [h EXCEPT !.dirty = d].arg = h.arg
         /\ \A r \in Listing : /\ [h EXCEPT !.row = r] \in Holdings
                               /\ [h EXCEPT !.row = r].row = r
                               /\ [h EXCEPT !.row = r].arg = h.arg
<1>1. DOMAIN h = {"row", "loaded", "children", "dirty", "arg"} /\ h.row \in Listing /\ h.arg \in Args
  BY DEF Holdings
<1>2. ASSUME NEW d \in SUBSET Columns PROVE [h EXCEPT !.dirty = d] \in Holdings
  BY Zenon DEF Holdings
<1>3. ASSUME NEW r \in Listing PROVE [h EXCEPT !.row = r] \in Holdings
  BY Zenon DEF Holdings
<1> QED BY <1>1, <1>2, <1>3

-----------------------------------------------------------------------------
(* Type correctness.                                                       *)

Labels == {"idle", "select", "update", "upload", "delete", "decide", "average", "publish", "flag",
           "remove", "hide", "recount", "rate"}

\* A request holds a listing that was there, and what its next step needs.
RequestOK(w) ==
  /\ at[w] # "idle" => held[w].row.state = "here"
  /\ at[w] \in {"average", "publish", "flag", "remove", "hide"} => held[w].arg \in Stays
  /\ at[w] = "upload" => held[w].arg \in Images

TypeInv == TypeOK /\ \A w \in Workers : RequestOK(w)

TablesOK ==
  /\ listing \in Listing
  /\ images \subseteq Images /\ slots \subseteq Slots
  /\ stay \in [Stays -> {"none", "booked", "completed", "long ago", "cancelled"}]
  /\ review \in [Stays -> {"none", "published", "flagged", "removed"}]
IndexOK ==
  /\ index \in Texts \cup {None}
  /\ tasks \subseteq [kind : {"index", "remove"}, text : Texts \cup {None}]
LocalsOK ==
  /\ at \in [Workers -> Labels]
  /\ held \in [Workers -> Holdings]
  /\ \A w \in Workers : RequestOK(w)

LEMMA PartsOfType == TypeInv <=> TablesOK /\ IndexOK /\ LocalsOK
BY DEF TypeInv, TypeOK, TablesOK, IndexOK, LocalsOK, Labels, Holdings, Args

LEMMA FinishTyped ==
  ASSUME LocalsOK, NEW w \in Workers, Finish(w)
  PROVE  LocalsOK'
BY BlankTyped DEF LocalsOK, Finish, Goto, Labels, RequestOK

LEMMA PutTyped ==
  ASSUME IndexOK, NEW kind \in {"index", "remove"}, NEW text \in Texts \cup {None}, Put(kind, text),
         index' = index
  PROVE  IndexOK'
BY DEF IndexOK, Put

\* A request that begins holds a listing that is there.
LEMMA FindTyped ==
  ASSUME TypeInv, NEW w \in Workers, NEW loaded \in SUBSET {"images", "slots"}, NEW arg \in Args,
         NEW row \in Listing, NEW label \in Labels, Find(w, loaded, arg, row, label),
         row.state = listing.state,
         label \in {"average", "publish", "flag", "remove", "hide"} => arg \in Stays,
         label = "upload" => arg \in Images
  PROVE  TypeInv'
<1>0. TablesOK /\ IndexOK /\ LocalsOK
  BY PartsOfType
<1>1. Children(loaded) \in SUBSET (Images \cup Slots)
  BY <1>0 DEF Children, TablesOK
<1> DEFINE h0 == Holding(row, loaded, Children(loaded), arg)
<1>2. h0 \in Holdings /\ h0.row = row /\ h0.arg = arg
  BY <1>1, HoldingTyped
<1>3. at' = [at EXCEPT ![w] = label] /\ held' = [held EXCEPT ![w] = h0] /\ row.state = "here"
  BY DEF Find, Goto, Here
<1> HIDE DEF h0
<1>4. at' \in [Workers -> Labels] /\ held' \in [Workers -> Holdings]
  BY <1>0, <1>2, <1>3 DEF LocalsOK
<1>5. \A v \in Workers : RequestOK(v)'
  BY <1>0, <1>2, <1>3 DEF LocalsOK, RequestOK
<1>6. TablesOK' /\ IndexOK'
  BY <1>0 DEF Find, TablesOK, IndexOK, tables
<1>7. LocalsOK'
  BY <1>4, <1>5 DEF LocalsOK
<1> QED BY <1>6, <1>7, PartsOfType, PTL

\* A request that goes on with another row.
LEMMA GoesOnTyped ==
  ASSUME LocalsOK, NEW w \in Workers, NEW label \in Labels, NEW h \in Holdings,
         at' = [at EXCEPT ![w] = label], held' = [held EXCEPT ![w] = h],
         h.row.state = "here", h.arg = held[w].arg,
         label \in {"average", "publish", "flag", "remove", "hide"} => held[w].arg \in Stays,
         label # "upload"
  PROVE  LocalsOK'
BY DEF LocalsOK, RequestOK

\* The guide's requests.
LEMMA GuideTyped ==
  ASSUME TypeInv, NEW w \in Workers, GuideRoutes(w) \/ AdminRoutes(w)
  PROVE  TypeInv'
<1>0. listing \in Listing /\ images \subseteq Images
  BY PartsOfType DEF TablesOK
<1>1. /\ "select" \in Labels /\ "upload" \in Labels /\ "delete" \in Labels /\ "decide" \in Labels
      /\ None \in Args /\ Texts \subseteq Args /\ Images \subseteq Args
      /\ {"images", "slots"} \in SUBSET {"images", "slots"} /\ {"images"} \in SUBSET {"images", "slots"}
      /\ {} \in SUBSET {"images", "slots"} /\ {"active", "inactive"} \subseteq Statuses
  BY DEF Labels, Args, Statuses
<1>2. ASSUME NEW t \in Texts, Find(w, {"images", "slots"}, t, [listing EXCEPT !.text = t], "select")
      PROVE  TypeInv'
  BY <1>0, <1>1, <1>2, FindTyped, TextChanged
<1>3. ASSUME NEW s \in {"active", "inactive"},
             Find(w, {"images", "slots"}, None, [listing EXCEPT !.status = s], "select")
      PROVE  TypeInv'
  BY <1>0, <1>1, <1>3, FindTyped, StatusChanged
<1>4. ASSUME NEW i \in Images, Find(w, {"images"}, i, listing, "upload")
      PROVE  TypeInv'
  BY <1>0, <1>1, <1>4, FindTyped
<1>5. ASSUME NEW i \in Images, Find(w, {}, None, [listing EXCEPT !.primary = i], "select")
      PROVE  TypeInv'
  BY <1>0, <1>1, <1>5, FindTyped, PrimaryChanged
<1>6. ASSUME Find(w, {}, None, listing, "delete")
      PROVE  TypeInv'
  BY <1>0, <1>1, <1>6, FindTyped
<1>7. ASSUME NEW s \in {"active", "inactive"}, Find(w, {}, None, [listing EXCEPT !.status = s], "decide")
      PROVE  TypeInv'
  BY <1>0, <1>1, <1>7, FindTyped, StatusChanged
<1> QED
  BY <1>0, <1>2, <1>3, <1>4, <1>5, <1>6, <1>7
     DEF GuideRoutes, AdminRoutes, UpdateRead, UploadRead, NewImages, SetPrimaryImage, DeleteRead, DecideRead

\* The reviewers' requests.
LEMMA ReviewTyped ==
  ASSUME TypeInv, NEW w \in Workers, NEW b \in Stays, ReviewRoutes(w, b)
  PROVE  TypeInv'
<1>0. listing \in Listing
  BY PartsOfType DEF TablesOK
<1>1. /\ {"average", "flag", "remove", "hide"} \subseteq Labels /\ b \in Args
      /\ {} \in SUBSET {"images", "slots"}
  BY DEF Labels, Args
<1>2. PICK label \in {"average", "flag", "remove", "hide"} : Find(w, {}, b, listing, label)
  BY DEF ReviewRoutes, ReviewCheck, FlagRead, RemoveRead
<1> QED BY <1>0, <1>1, <1>2, FindTyped

\* The steps of save().
LEMMA SaveTyped ==
  ASSUME TypeInv, NEW w \in Workers, SaveSelect(w) \/ SaveUpdate(w)
  PROVE  TypeInv'
<1>0. TablesOK /\ IndexOK /\ LocalsOK /\ RequestOK(w)
  BY PartsOfType DEF TypeInv
<1>1. at[w] \in {"select", "update"}
  BY DEF SaveSelect, SaveUpdate
<1>2. held[w] \in Holdings /\ held[w].row.state = "here" /\ held[w].row \in Listing /\ held[w].arg \in Args
  BY <1>0, <1>1, HeldChanged DEF LocalsOK, RequestOK
<1>3. CASE SaveSelect(w)
  <2>1. TablesOK' /\ IndexOK'
    BY <1>0, <1>3 DEF SaveSelect, TablesOK, IndexOK, tables
  <2>2. CASE Finish(w)
    BY <1>0, <2>1, <2>2, FinishTyped, PartsOfType, PTL
  <2>3. CASE ~Finish(w)
    <3> DEFINE d0 == IF Here THEN {c \in Columns : held[w].row[c] # listing[c]} ELSE Columns
               h0 == [held[w] EXCEPT !.dirty = d0]
    <3>1. h0 \in Holdings /\ h0.row = held[w].row /\ h0.arg = held[w].arg
      <4>1. d0 \in SUBSET Columns
        OBVIOUS
      <4> HIDE DEF d0
      <4> QED BY <1>2, <4>1, HeldChanged
    <3>2. at' = [at EXCEPT ![w] = "update"] /\ held' = [held EXCEPT ![w] = h0]
      BY <1>3, <2>3 DEF SaveSelect, Goto
    <3>3. "update" \in Labels
      BY DEF Labels
    <3> HIDE DEF h0
    <3>4. LocalsOK'
      BY <1>0, <1>2, <3>1, <3>2, <3>3, GoesOnTyped
    <3> QED BY <2>1, <3>4, PartsOfType, PTL
  <2> QED BY <2>2, <2>3
<1>4. CASE SaveUpdate(w)
  <2>1. LocalsOK'
    BY <1>0, <1>4, FinishTyped DEF SaveUpdate
  <2>2. listing' \in Listing
    <3> DEFINE saved0 == [c \in Columns |-> IF c \in held[w].dirty THEN held[w].row[c] ELSE listing[c]]
    <3>1. listing \in Listing /\ (listing' = saved0 \/ listing' = listing)
      BY <1>0, <1>4 DEF SaveUpdate, TablesOK
    <3>2. saved0 \in Listing
      <4>1. /\ saved0 = [c \in Columns |-> saved0[c]]
            /\ \A c \in Columns : saved0[c] \in {held[w].row[c], listing[c]}
        OBVIOUS
      <4> HIDE DEF saved0
      <4> QED BY <1>2, <3>1, <4>1, SavedRow
    <3> QED BY <3>1, <3>2
  <2>3. TablesOK'
    BY <1>0, <1>4, <2>2 DEF SaveUpdate, TablesOK
  <2>4. held[w].row.text \in Texts \cup {None}
    BY <1>2 DEF Listing
  <2>5. IndexOK'
    BY <1>0, <1>4, <2>4 DEF SaveUpdate, IndexOK, Put
  <2> QED BY <2>1, <2>3, <2>5, PartsOfType, PTL
<1> QED BY <1>3, <1>4

\* Uploads, deletions, decisions.
LEMMA GuideStepsTyped ==
  ASSUME TypeInv, NEW w \in Workers, UploadInsert(w) \/ DeleteRow(w) \/ DecideUpdate(w)
  PROVE  TypeInv'
<1>0. TablesOK /\ IndexOK /\ LocalsOK /\ RequestOK(w)
  BY PartsOfType DEF TypeInv
<1>1. at[w] \in {"upload", "delete", "decide"}
  BY DEF UploadInsert, DeleteRow, DecideUpdate
<1>2. held[w] \in Holdings /\ held[w].row.state = "here" /\ held[w].row \in Listing /\ held[w].arg \in Args
  BY <1>0, <1>1, HeldChanged DEF LocalsOK, RequestOK
<1>3. CASE UploadInsert(w)
  <2>1. held[w].arg \in Images
    BY <1>0, <1>3 DEF UploadInsert, RequestOK
  <2>2. TablesOK' /\ IndexOK'
    BY <1>0, <1>3, <2>1 DEF UploadInsert, TablesOK, IndexOK
  <2>3. CASE Finish(w)
    BY <1>0, <2>2, <2>3, FinishTyped, PartsOfType, PTL
  <2>4. CASE ~Finish(w)
    <3> DEFINE r0 == [held[w].row EXCEPT !.primary = held[w].arg]
               h0 == [held[w] EXCEPT !.row = r0]
    <3>1. r0 \in Listing /\ r0.state = "here"
      BY <1>2, <2>1, PrimaryChanged
    <3>2. h0 \in Holdings /\ h0.row = r0 /\ h0.arg = held[w].arg
      <4> HIDE DEF r0
      <4> QED BY <1>2, <3>1, HeldChanged
    <3>3. at' = [at EXCEPT ![w] = "select"] /\ held' = [held EXCEPT ![w] = h0]
      BY <1>3, <2>4 DEF UploadInsert, Goto
    <3>4. "select" \in Labels
      BY DEF Labels
    <3> HIDE DEF h0, r0
    <3>5. LocalsOK'
      BY <1>0, <1>2, <3>1, <3>2, <3>3, <3>4, GoesOnTyped
    <3> QED BY <2>2, <3>5, PartsOfType, PTL
  <2> QED BY <2>3, <2>4
<1>4. CASE DeleteRow(w)
  <2>1. [listing EXCEPT !.state = "deleted"] \in Listing
    BY <1>0, StateChanged DEF TablesOK
  <2>2. TablesOK'
    BY <1>0, <1>4, <2>1 DEF DeleteRow, TablesOK
  <2>3. IndexOK'
    BY <1>0, <1>4 DEF DeleteRow, IndexOK, Put
  <2>4. LocalsOK'
    BY <1>0, <1>4, FinishTyped DEF DeleteRow
  <2> QED BY <2>2, <2>3, <2>4, PartsOfType, PTL
<1>5. CASE DecideUpdate(w)
  <2>1. held[w].row.status \in Statuses
    BY <1>2 DEF Listing, Statuses
  <2>2. [listing EXCEPT !.status = held[w].row.status] \in Listing
    <3> DEFINE s0 == held[w].row.status
    <3> HIDE DEF s0
    <3>1. [listing EXCEPT !.status = s0] \in Listing
      BY <1>0, <2>1, StatusChanged DEF TablesOK, s0
    <3> QED BY <3>1 DEF s0
  <2>3. TablesOK' /\ IndexOK'
    BY <1>0, <1>5, <2>2 DEF DecideUpdate, TablesOK, IndexOK
  <2>4. LocalsOK'
    BY <1>0, <1>5, FinishTyped DEF DecideUpdate
  <2> QED BY <2>3, <2>4, PartsOfType, PTL
<1> QED BY <1>3, <1>4, <1>5

\* Reviews and their average.
LEMMA ReviewStepsTyped ==
  ASSUME TypeInv, NEW w \in Workers,
         ReviewAverage(w) \/ ReviewCommit(w) \/ FlagSave(w) \/ RemoveSave(w) \/ RecalculateRead(w)
           \/ RecalculateUpdate(w)
  PROVE  TypeInv'
<1>0. TablesOK /\ IndexOK /\ LocalsOK /\ RequestOK(w)
  BY PartsOfType DEF TypeInv
<1>1. at[w] \in {"average", "publish", "flag", "remove", "hide", "recount", "rate"}
  BY DEF ReviewAverage, ReviewCommit, FlagSave, RemoveSave, RecalculateRead, RecalculateUpdate
<1>2. /\ held[w] \in Holdings /\ held[w].row.state = "here" /\ held[w].row \in Listing
      /\ held[w].arg \in Args /\ held[w].row.rated \in SUBSET Stays
      /\ at[w] \in {"average", "publish", "flag", "remove", "hide"} => held[w].arg \in Stays
  BY <1>0, <1>1, HeldChanged DEF LocalsOK, RequestOK, Listing
<1>3. IndexOK'
  BY <1>0 DEF ReviewAverage, ReviewCommit, FlagSave, RemoveSave, RecalculateRead, RecalculateUpdate, IndexOK
<1>4. TablesOK'
  <2>1. CASE ReviewAverage(w) \/ RecalculateRead(w)
    BY <1>0, <2>1 DEF ReviewAverage, RecalculateRead, TablesOK, tables
  <2>2. CASE ReviewCommit(w) \/ RecalculateUpdate(w)
    <3>1. [listing EXCEPT !.rated = held[w].row.rated] \in Listing
      BY <1>0, <1>2, RatedChanged DEF TablesOK
    <3>2. review' \in [Stays -> {"none", "published", "flagged", "removed"}]
      BY <1>0, <2>2 DEF ReviewCommit, RecalculateUpdate, TablesOK
    <3> QED BY <1>0, <2>2, <3>1, <3>2 DEF ReviewCommit, RecalculateUpdate, TablesOK
  <2>3. CASE FlagSave(w) \/ RemoveSave(w)
    BY <1>0, <2>3 DEF FlagSave, RemoveSave, TablesOK
  <2> QED BY <2>1, <2>2, <2>3
<1>5. LocalsOK'
  <2>1. CASE Finish(w)
    BY <1>0, <2>1, FinishTyped
  <2>2. CASE RemoveSave(w) /\ ~Finish(w)
    <3>1. at' = [at EXCEPT ![w] = "recount"] /\ held' = held
      BY <2>2 DEF RemoveSave, Goto
    <3> QED BY <1>0, <1>1, <1>2, <3>1 DEF LocalsOK, RequestOK, Labels
  <2>3. ASSUME NEW r \in SUBSET Stays, NEW label \in {"publish", "rate"}, Goto(w, label),
               held' = [held EXCEPT ![w].row.rated = r], label = "publish" => held[w].arg \in Stays
        PROVE  LocalsOK'
    <3> DEFINE r0 == [held[w].row EXCEPT !.rated = r]
               h0 == [held[w] EXCEPT !.row = r0]
    <3>1. r0 \in Listing /\ r0.state = "here"
      BY <1>2, RatedChanged
    <3>2. h0 \in Holdings /\ h0.row = r0 /\ h0.arg = held[w].arg
      <4> HIDE DEF r0
      <4> QED BY <1>2, <3>1, HeldChanged
    <3>3. at' = [at EXCEPT ![w] = label] /\ held' = [held EXCEPT ![w] = h0]
      BY <2>3 DEF Goto
    <3>4. label \in Labels
      BY DEF Labels
    <3> HIDE DEF h0, r0
    <3> QED BY <1>0, <2>3, <3>1, <3>2, <3>3, <3>4, GoesOnTyped
  <2>4. Published \in SUBSET Stays
    BY DEF Published
  <2>5. CASE ReviewAverage(w) /\ ~Finish(w)
    <3>1. held[w].arg \in Stays /\ Published \cup {held[w].arg} \in SUBSET Stays
      BY <1>2, <2>4, <2>5 DEF ReviewAverage
    <3> QED BY <2>3, <2>5, <3>1 DEF ReviewAverage
  <2>6. CASE RecalculateRead(w)
    BY <2>3, <2>4, <2>6 DEF RecalculateRead
  <2> QED
    BY <2>1, <2>2, <2>5, <2>6
       DEF ReviewAverage, ReviewCommit, FlagSave, RemoveSave, RecalculateRead, RecalculateUpdate
<1> QED BY <1>3, <1>4, <1>5, PartsOfType, PTL

\* Everything else.
LEMMA OthersTyped ==
  ASSUME TypeInv,
         \/ \E t \in Texts : CreateExperience(t)
         \/ CalendarRoute
         \/ \E b \in Stays : Book(b) \/ EndStay(b)
         \/ \E task \in tasks : IndexTask(task)
         \/ \E w \in Workers : Fail(w)
         \/ UNCHANGED vars
  PROVE  TypeInv'
<1>0. TablesOK /\ IndexOK /\ LocalsOK
  BY PartsOfType
<1>1. UNCHANGED locals => LocalsOK'
  BY <1>0 DEF LocalsOK, locals, RequestOK
<1>2. ASSUME NEW t \in Texts, CreateExperience(t) PROVE TypeInv'
  <2>1. /\ [listing EXCEPT !.state = "here"] \in Listing
        /\ [[listing EXCEPT !.state = "here"] EXCEPT !.text = t] \in Listing
    <3>1. [listing EXCEPT !.state = "here"] \in Listing
      BY <1>0, StateChanged DEF TablesOK
    <3> QED BY <3>1, TextChanged
  <2>2. TablesOK'
    BY <1>0, <1>2, <2>1 DEF CreateExperience, TablesOK
  <2>3. IndexOK'
    BY <1>0, <1>2, PutTyped DEF CreateExperience
  <2>4. LocalsOK'
    BY <1>1, <1>2 DEF CreateExperience
  <2> QED BY <2>2, <2>3, <2>4, PartsOfType, PTL
<1>3. ASSUME CalendarRoute PROVE TypeInv'
  <2>1. TablesOK' /\ IndexOK' /\ LocalsOK'
    BY <1>0, <1>1, <1>3 DEF CalendarRoute, UpdateAvailability, TablesOK, IndexOK
  <2> QED BY <2>1, PartsOfType, PTL
<1>4. ASSUME NEW b \in Stays, Book(b) \/ EndStay(b) PROVE TypeInv'
  <2>1. TablesOK' /\ IndexOK' /\ LocalsOK'
    BY <1>0, <1>1, <1>4 DEF Book, EndStay, TablesOK, IndexOK
  <2> QED BY <2>1, PartsOfType, PTL
<1>5. ASSUME NEW task \in tasks, IndexTask(task) PROVE TypeInv'
  <2>1. TablesOK' /\ LocalsOK'
    BY <1>0, <1>1, <1>5 DEF IndexTask, TablesOK, tables
  <2>2. task \in [kind : {"index", "remove"}, text : Texts \cup {None}]
    BY <1>0 DEF IndexOK
  <2>3. IndexOK'
    BY <1>0, <1>5, <2>2 DEF IndexTask, IndexOK
  <2> QED BY <2>1, <2>3, PartsOfType, PTL
<1>6. ASSUME NEW w \in Workers, Fail(w) PROVE TypeInv'
  <2>1. TablesOK' /\ IndexOK' /\ LocalsOK'
    BY <1>0, <1>6, FinishTyped DEF Fail, TablesOK, IndexOK, tables
  <2> QED BY <2>1, PartsOfType, PTL
<1>7. CASE UNCHANGED vars
  BY <1>7 DEF vars, tables, locals, TypeInv, TypeOK, RequestOK
<1> QED BY <1>2, <1>3, <1>4, <1>5, <1>6, <1>7

LEMMA TypeStarts == Init => TypeInv
<1> SUFFICES ASSUME Init PROVE TypeInv
  OBVIOUS
<1>1. TablesOK /\ IndexOK /\ LocalsOK
  BY BlankTyped DEF Init, TablesOK, IndexOK, LocalsOK, RequestOK, Labels
<1> QED BY <1>1, PartsOfType

LEMMA TypeStep == TypeInv /\ [Next]_vars => TypeInv'
<1> SUFFICES ASSUME TypeInv, [Next]_vars PROVE TypeInv'
  OBVIOUS
<1>1. ASSUME NEW w \in Workers, Arrival(w) PROVE TypeInv'
  BY <1>1, GuideTyped, ReviewTyped DEF Arrival
<1>2. ASSUME NEW w \in Workers, Step(w) PROVE TypeInv'
  BY <1>2, SaveTyped, GuideStepsTyped, ReviewStepsTyped DEF Step
<1> QED BY <1>1, <1>2, OthersTyped DEF Next

\* Every variable keeps its type, and what a request holds is what its next step
\* needs: a listing that was there, an image or a stay.
THEOREM CatalogueTyped == Spec => []TypeOK
<1>1. Spec => []TypeInv
  BY TypeStarts, TypeStep, PTL DEF Spec
<1>2. TypeInv => TypeOK
  BY DEF TypeInv
<1> QED BY <1>1, <1>2, PTL

-----------------------------------------------------------------------------
(* Bookings keep their listing.                                            *)

\* A request that begins only reads.
LEMMA ArrivalReads ==
  ASSUME NEW w \in Workers, Arrival(w)
  PROVE  UNCHANGED <<tables, index, tasks, scope>> /\ Free(w) /\ Here
BY DEF Arrival, GuideRoutes, AdminRoutes, ReviewRoutes, UpdateRead, UploadRead, SetPrimaryImage, DeleteRead,
       DecideRead, ReviewCheck, FlagRead, RemoveRead, Find

\* What save() writes is a row that is there, if it writes at all: a row that was
\* deleted under it comes back.
LEMMA SaveWrites ==
  ASSUME TypeInv, NEW w \in Workers, SaveUpdate(w)
  PROVE  /\ listing'.state \in {"here", listing.state}
         /\ listing'.rated \in {held[w].row.rated, listing.rated}
<1>1. RequestOK(w) /\ at[w] = "update" /\ listing \in Listing /\ held[w] \in Holdings
  BY PartsOfType DEF TypeInv, SaveUpdate, TablesOK, LocalsOK
<1>2. held[w].row.state = "here" /\ held[w].row \in Listing
  BY <1>1, HeldChanged DEF RequestOK
<1> DEFINE saved0 == [c \in Columns |-> IF c \in held[w].dirty THEN held[w].row[c] ELSE listing[c]]
<1>3. listing' = saved0 \/ listing' = listing
  BY DEF SaveUpdate
<1>4. /\ saved0 = [c \in Columns |-> saved0[c]]
      /\ \A c \in Columns : saved0[c] \in {held[w].row[c], listing[c]}
  OBVIOUS
<1> HIDE DEF saved0
<1>5. saved0.state \in {"here", listing.state} /\ saved0.rated \in {held[w].row.rated, listing.rated}
  BY <1>1, <1>2, <1>4, SavedRow
<1> QED BY <1>3, <1>5

\* The only step that takes a listing away finds no booking, in any status.
LEMMA ListingStays ==
  ASSUME TypeInv, NEW w \in Workers, Step(w)
  PROVE  /\ stay' = stay
         /\ listing'.state \in {"here", listing.state} \/ \A b \in Stays : stay[b] = "none"
<1>0. listing \in Listing
  BY PartsOfType DEF TablesOK
<1>1. CASE SaveUpdate(w)
  BY <1>1, SaveWrites DEF SaveUpdate
<1>2. CASE DecideUpdate(w)
  <2>1. held[w].row.status \in Statuses
    BY PartsOfType, HeldChanged DEF LocalsOK, Listing, Statuses
  <2> DEFINE s0 == held[w].row.status
  <2>2. listing' \in {listing, [listing EXCEPT !.status = s0]} /\ stay' = stay
    BY <1>2 DEF DecideUpdate
  <2> HIDE DEF s0
  <2>3. [listing EXCEPT !.status = s0].state = listing.state
    BY <1>0, <2>1, StatusChanged DEF s0
  <2> QED BY <2>2, <2>3
<1>3. CASE ReviewCommit(w) \/ RecalculateUpdate(w)
  <2>1. held[w].row.rated \in SUBSET Stays
    BY PartsOfType, HeldChanged DEF LocalsOK, Listing
  <2> DEFINE r0 == held[w].row.rated
  <2>2. listing' = [listing EXCEPT !.rated = r0] /\ stay' = stay
    BY <1>3 DEF ReviewCommit, RecalculateUpdate
  <2> HIDE DEF r0
  <2>3. [listing EXCEPT !.rated = r0].state = listing.state
    BY <1>0, <2>1, RatedChanged DEF r0
  <2> QED BY <2>2, <2>3
<1>4. CASE DeleteRow(w)
  BY <1>4 DEF DeleteRow
<1>5. CASE SaveSelect(w) \/ UploadInsert(w) \/ ReviewAverage(w) \/ FlagSave(w) \/ RemoveSave(w) \/ RecalculateRead(w)
  BY <1>5 DEF SaveSelect, UploadInsert, ReviewAverage, FlagSave, RemoveSave, RecalculateRead, tables
<1> QED BY <1>1, <1>2, <1>3, <1>4, <1>5 DEF Step

LEMMA BookedStep == TypeInv /\ BookedStays /\ [Next]_vars => BookedStays'
<1> SUFFICES ASSUME TypeInv, BookedStays, [Next]_vars PROVE BookedStays'
  OBVIOUS
<1>0. listing \in Listing /\ stay \in [Stays -> {"none", "booked", "completed", "long ago", "cancelled"}]
  BY PartsOfType DEF TablesOK
<1>1. ASSUME NEW w \in Workers, Arrival(w) PROVE BookedStays'
  BY <1>1, ArrivalReads DEF BookedStays, tables, Here
<1>2. ASSUME NEW w \in Workers, Step(w) PROVE BookedStays'
  BY <1>2, ListingStays DEF BookedStays, Here
<1>3. ASSUME NEW t \in Texts, CreateExperience(t) PROVE BookedStays'
  BY <1>0, <1>3 DEF CreateExperience, BookedStays, Here, Listing
<1>4. ASSUME NEW b \in Stays, Book(b) \/ EndStay(b) PROVE BookedStays'
  BY <1>0, <1>4 DEF Book, EndStay, BookedStays, Here
<1>5. CASE CalendarRoute \/ (\E task \in tasks : IndexTask(task)) \/ (\E w \in Workers : Fail(w)) \/ UNCHANGED vars
  BY <1>5 DEF CalendarRoute, UpdateAvailability, IndexTask, Fail, vars, tables, BookedStays, Here
<1> QED BY <1>1, <1>2, <1>3, <1>4, <1>5 DEF Next

\* A listing anybody has ever booked is there, whatever overlaps: the DELETE of
\* deleteExperience meets the bookings' foreign key, and save() only brings back.
THEOREM BookedListingsStay == Spec => []BookedStays
<1>1. Init => BookedStays
  BY DEF Init, BookedStays
<1> QED BY <1>1, TypeStarts, TypeStep, BookedStep, PTL DEF Spec

-----------------------------------------------------------------------------
(* The limit of the images.                                                *)

Uploading == {w \in Workers : at[w] = "upload"}
Busy      == {w \in Workers : at[w] # "idle"}

\* Whoever has passed the check and not inserted yet counts as an image; of those
\* there are no more than requests overlap.
ImageInv ==
  /\ scope \in Scopes
  /\ IsFiniteSet(images)
  /\ Cardinality(images) + Cardinality(Uploading) + 1 <= MaxImages + scope.width
  /\ Cardinality(Busy) <= scope.width

\* Sets of workers are finite, and their sizes follow their inclusion.
LEMMA WorkersCounted ==
  ASSUME NEW big \in SUBSET Workers, NEW small \in SUBSET big
  PROVE  Cardinality(small) \in Nat /\ Cardinality(big) \in Nat /\ Cardinality(small) <= Cardinality(big)
<1>1. IsFiniteSet(big)
  BY CatalogueAssumption, FS_Subset
<1> QED BY <1>1, FS_Subset, FS_CardinalityType

\* A step that starts nothing and uploads nothing leaves the sums as they are.
LEMMA CountsKept ==
  ASSUME ImageInv, Busy' \subseteq Busy, Uploading' \subseteq Uploading, images' = images \/ images' = {},
         scope' = scope
  PROVE  ImageInv'
<1>1. Cardinality(images) \in Nat /\ scope.width \in Nat
  BY CatalogueAssumption, FS_CardinalityType DEF ImageInv
<1>2. IsFiniteSet(images') /\ Cardinality(images') \in Nat /\ Cardinality(images') <= Cardinality(images)
  BY <1>1, FS_EmptySet DEF ImageInv
<1>3. /\ Cardinality(Uploading') \in Nat /\ Cardinality(Uploading) \in Nat
      /\ Cardinality(Uploading') <= Cardinality(Uploading)
  BY WorkersCounted DEF Uploading
<1>4. Cardinality(Busy') \in Nat /\ Cardinality(Busy) \in Nat /\ Cardinality(Busy') <= Cardinality(Busy)
  BY WorkersCounted DEF Busy
<1>5. Cardinality(images') + Cardinality(Uploading') + 1 <= MaxImages + scope'.width
  BY <1>1, <1>2, <1>3, CatalogueAssumption DEF ImageInv
<1>6. Cardinality(Busy') <= scope'.width
  BY <1>1, <1>4 DEF ImageInv
<1> QED BY <1>2, <1>5, <1>6 DEF ImageInv

\* A request begins: one more is busy, and if it uploads the limit was not reached.
LEMMA ArrivalCounted ==
  ASSUME TypeInv, ImageInv, NEW w \in Workers, Arrival(w)
  PROVE  ImageInv'
<1>0. /\ images' = images /\ scope' = scope /\ at \in [Workers -> Labels] /\ w \notin Busy
      /\ Cardinality(Busy) < scope.width
  BY ArrivalReads, PartsOfType DEF tables, LocalsOK, Free, Busy
<1>1. PICK label \in Labels : /\ at' = [at EXCEPT ![w] = label]
                              /\ label = "upload" => Cardinality(images) < MaxImages
  BY DEF Labels, Arrival, GuideRoutes, AdminRoutes, ReviewRoutes, UpdateRead, UploadRead, SetPrimaryImage,
         DeleteRead, DecideRead, ReviewCheck, FlagRead, RemoveRead, Find, Goto
<1>2. Busy' \subseteq Busy \cup {w} /\ Uploading' \subseteq Uploading \cup {w}
  BY <1>0, <1>1 DEF Busy, Uploading
<1>3. Cardinality(images) \in Nat /\ scope.width \in Nat /\ MaxImages \in Nat
  BY CatalogueAssumption, FS_CardinalityType DEF ImageInv
<1>4. IsFiniteSet(Busy) /\ Cardinality(Busy \cup {w}) = Cardinality(Busy) + 1 /\ Cardinality(Busy) \in Nat
  <2>1. IsFiniteSet(Busy)
    BY CatalogueAssumption, FS_Subset DEF Busy
  <2> QED BY <1>0, <2>1, FS_AddElement, FS_CardinalityType
<1>5. Cardinality(Busy') \in Nat /\ Cardinality(Busy') <= scope.width
  <2>1. Busy \cup {w} \in SUBSET Workers
    BY DEF Busy
  <2> QED BY <1>0, <1>2, <1>3, <1>4, <2>1, WorkersCounted
<1>6. Cardinality(images) + Cardinality(Uploading') + 1 <= MaxImages + scope.width
  <2>1. CASE label = "upload"
    <3>1. Uploading' \subseteq Busy' /\ Busy' \in SUBSET Workers
      BY DEF Uploading, Busy
    <3>2. Cardinality(Uploading') \in Nat /\ Cardinality(Uploading') <= Cardinality(Busy')
      BY <3>1, WorkersCounted
    <3> QED BY <1>1, <1>3, <1>5, <2>1, <3>2
  <2>2. CASE label # "upload"
    <3>1. Uploading' \subseteq Uploading /\ Uploading \in SUBSET Workers
      BY <1>0, <1>1, <2>2 DEF Uploading
    <3>2. /\ Cardinality(Uploading') \in Nat /\ Cardinality(Uploading) \in Nat
          /\ Cardinality(Uploading') <= Cardinality(Uploading)
      BY <3>1, WorkersCounted
    <3> QED BY <1>3, <3>2 DEF ImageInv
  <2> QED BY <2>1, <2>2
<1> QED BY <1>0, <1>5, <1>6 DEF ImageInv

\* The step that inserts an image is done with uploading.
LEMMA InsertCounted ==
  ASSUME TypeInv, ImageInv, NEW w \in Workers, UploadInsert(w)
  PROVE  ImageInv'
<1>0. /\ scope' = scope /\ at \in [Workers -> Labels] /\ at[w] = "upload"
      /\ at' \in {[at EXCEPT ![w] = "idle"], [at EXCEPT ![w] = "select"]}
      /\ images' \in {images, images \cup {held[w].arg}}
  BY PartsOfType DEF LocalsOK, UploadInsert, Finish, Goto
<1>1. Busy' \subseteq Busy /\ Uploading' = Uploading \ {w} /\ w \in Uploading
  BY <1>0 DEF Busy, Uploading
<1>2. Cardinality(images) \in Nat /\ scope.width \in Nat /\ MaxImages \in Nat
  BY CatalogueAssumption, FS_CardinalityType DEF ImageInv
<1>3. /\ IsFiniteSet(images') /\ Cardinality(images') \in Nat
      /\ Cardinality(images') <= Cardinality(images) + 1
  <2>1. CASE images' = images
    BY <1>2, <2>1 DEF ImageInv
  <2>2. ASSUME NEW i, images' = images \cup {i}
        PROVE  /\ IsFiniteSet(images') /\ Cardinality(images') \in Nat
               /\ Cardinality(images') <= Cardinality(images) + 1
    <3>1. IsFiniteSet(images)
      BY DEF ImageInv
    <3>2. /\ IsFiniteSet(images \cup {i})
          /\ Cardinality(images \cup {i}) \in {Cardinality(images), Cardinality(images) + 1}
      BY <3>1, FS_AddElement
    <3> QED BY <1>2, <2>2, <3>2
  <2> QED BY <1>0, <2>1, <2>2
<1>4. Cardinality(Uploading') = Cardinality(Uploading) - 1 /\ Cardinality(Uploading) \in Nat
  <2>1. IsFiniteSet(Uploading)
    BY CatalogueAssumption, FS_Subset DEF Uploading
  <2> QED BY <1>1, <2>1, FS_RemoveElement, FS_CardinalityType
<1>5. Cardinality(Busy') \in Nat /\ Cardinality(Busy) \in Nat /\ Cardinality(Busy') <= Cardinality(Busy)
  BY <1>1, WorkersCounted DEF Busy
<1>6. Cardinality(images') + Cardinality(Uploading') + 1 <= MaxImages + scope'.width
  <2>1. Cardinality(images) + Cardinality(Uploading) + 1 <= MaxImages + scope.width
    BY DEF ImageInv
  <2> QED BY <1>0, <1>2, <1>3, <1>4, <2>1
<1>7. Cardinality(Busy') <= scope'.width
  BY <1>0, <1>2, <1>5 DEF ImageInv
<1> QED BY <1>0, <1>3, <1>6, <1>7 DEF ImageInv

\* Every other step of a request.
LEMMA StepCounted ==
  ASSUME TypeInv, ImageInv, NEW w \in Workers, Step(w) \/ Fail(w)
  PROVE  ImageInv'
<1>1. CASE UploadInsert(w)
  BY <1>1, InsertCounted
<1>2. CASE ~ UploadInsert(w)
  <2>1. /\ at[w] # "idle" /\ scope' = scope /\ at \in [Workers -> Labels]
        /\ \E label \in Labels \ {"upload"} : at' = [at EXCEPT ![w] = label]
    BY <1>2, PartsOfType
       DEF Step, Fail, SaveSelect, SaveUpdate, DeleteRow, DecideUpdate, ReviewAverage, ReviewCommit, FlagSave,
           RemoveSave, RecalculateRead, RecalculateUpdate, Finish, Goto, LocalsOK, Labels
  <2>2. images' \in {images, {}}
    BY <1>2
       DEF Step, Fail, SaveSelect, SaveUpdate, DeleteRow, DecideUpdate, ReviewAverage, ReviewCommit, FlagSave,
           RemoveSave, RecalculateRead, RecalculateUpdate, tables
  <2>3. Busy' \subseteq Busy /\ Uploading' \subseteq Uploading
    BY <2>1 DEF Busy, Uploading
  <2> QED BY <2>1, <2>2, <2>3, CountsKept
<1> QED BY <1>1, <1>2

LEMMA ImageStep == TypeInv /\ ImageInv /\ [Next]_vars => ImageInv'
<1> SUFFICES ASSUME TypeInv, ImageInv, [Next]_vars PROVE ImageInv'
  OBVIOUS
<1>1. ASSUME UNCHANGED <<images, at, scope>> PROVE ImageInv'
  BY <1>1, CountsKept DEF Busy, Uploading
<1>2. CASE \/ \E t \in Texts : CreateExperience(t)
           \/ CalendarRoute
           \/ \E b \in Stays : Book(b) \/ EndStay(b)
           \/ \E task \in tasks : IndexTask(task)
           \/ UNCHANGED vars
  BY <1>1, <1>2
     DEF CreateExperience, CalendarRoute, UpdateAvailability, Book, EndStay, IndexTask, vars, tables, locals
<1> QED BY <1>2, ArrivalCounted, StepCounted DEF Next

\* Overlapping uploads exceed the ten images by no more than the other requests
\* that have passed uploadImage's check.
THEOREM ImagesStayNearLimit == Spec => []ImagesWithinLimit
<1>1. ASSUME Init PROVE ImageInv
  <2>1. Uploading = {} /\ Busy = {} /\ images = {} /\ scope \in Scopes
    BY <1>1 DEF Init, Uploading, Busy
  <2>2. scope.width \in Nat \ {0} /\ MaxImages \in Nat
    BY <2>1, CatalogueAssumption
  <2>3. IsFiniteSet({}) /\ Cardinality({}) = 0
    BY FS_EmptySet
  <2> QED BY <2>1, <2>2, <2>3 DEF ImageInv
<1>2. ImageInv => ImagesWithinLimit
  <2> SUFFICES ASSUME ImageInv PROVE ImagesWithinLimit
    OBVIOUS
  <2>1. Cardinality(Uploading) \in Nat
    BY WorkersCounted DEF Uploading
  <2>2. Cardinality(images) \in Nat /\ scope.width \in Nat /\ MaxImages \in Nat
    BY CatalogueAssumption, FS_CardinalityType DEF ImageInv
  <2> QED BY <2>1, <2>2 DEF ImageInv, ImagesWithinLimit
<1> QED BY <1>1, <1>2, TypeStarts, TypeStep, ImageStep, PTL DEF Spec

-----------------------------------------------------------------------------
(* The rating, one request at a time.                                      *)

Alone == \A v, w \in Workers : at[v] # "idle" /\ at[w] # "idle" => v = w

\* The row a request will save has the rating of the table, and an average is
\* that of what is published, with the review that is being inserted.
RatedOK(w) ==
  /\ at[w] \in {"select", "update", "upload"} => Here /\ held[w].row.rated = listing.rated
  /\ at[w] = "publish" => held[w].row.rated = Published \cup {held[w].arg}
  /\ at[w] = "rate" => held[w].row.rated = Published

RatedInv ==
  OneByOne => Alone /\ Published \subseteq listing.rated /\ \A w \in Workers : RatedOK(w)

\* What RatingIsAverage says of a step.
Recalculated == listing'.rated # listing.rated => listing'.rated = Published'

WorkerKept(v) == at'[v] = at[v] /\ held'[v] = held[v]

\* One request at a time, a request begins when there is no other.
LEMMA NobodyElse ==
  ASSUME Alone, OneByOne, NEW w \in Workers, Free(w), NEW v \in Workers
  PROVE  at[v] = "idle"
<1> SUFFICES ASSUME at[v] # "idle" PROVE FALSE
  OBVIOUS
<1>1. {u \in Workers : at[u] # "idle"} = {v}
  BY DEF Alone
<1>2. Cardinality({u \in Workers : at[u] # "idle"}) = 1
  BY <1>1, FS_Singleton
<1> QED BY <1>2 DEF Free, OneByOne

\* A request moves itself only.
LEMMA OwnMoves ==
  ASSUME TypeInv, NEW w \in Workers, Arrival(w) \/ Step(w) \/ Fail(w), NEW v \in Workers \ {w}
  PROVE  WorkerKept(v)
<1>0. at \in [Workers -> Labels] /\ held \in [Workers -> Holdings]
  BY PartsOfType DEF LocalsOK
<1>1. CASE Arrival(w)
  BY <1>0, <1>1
     DEF Arrival, GuideRoutes, AdminRoutes, ReviewRoutes, UpdateRead, UploadRead, SetPrimaryImage, DeleteRead,
         DecideRead, ReviewCheck, FlagRead, RemoveRead, Find, Goto, WorkerKept
<1>2. CASE Fail(w)
  BY <1>0, <1>2 DEF Fail, Finish, Goto, WorkerKept
<1>3. CASE Step(w)
  BY <1>0, <1>3
     DEF Step, SaveSelect, SaveUpdate, UploadInsert, DeleteRow, DecideUpdate, ReviewAverage, ReviewCommit,
         FlagSave, RemoveSave, RecalculateRead, RecalculateUpdate, Finish, Goto, WorkerKept
<1> QED BY <1>1, <1>2, <1>3

LEMMA StepsAreBusy ==
  ASSUME NEW w \in Workers, Step(w) \/ Fail(w)
  PROVE  at[w] # "idle" /\ scope' = scope
BY DEF Step, Fail, SaveSelect, SaveUpdate, UploadInsert, DeleteRow, DecideUpdate, ReviewAverage, ReviewCommit,
       FlagSave, RemoveSave, RecalculateRead, RecalculateUpdate

\* The one request there is keeps the invariant if its own part holds.
LEMMA OwnPartIsEnough ==
  ASSUME TypeInv, RatedInv, NEW w \in Workers, Arrival(w) \/ Step(w) \/ Fail(w),
         OneByOne => RatedOK(w)' /\ Published' \subseteq listing'.rated
  PROVE  RatedInv'
<1> SUFFICES ASSUME scope'.width = 1 PROVE RatedInv'
  BY DEF RatedInv, OneByOne
<1>1. scope' = scope /\ OneByOne /\ Alone
  BY ArrivalReads, StepsAreBusy DEF OneByOne, RatedInv
<1>2. \A v \in Workers \ {w} : at[v] = "idle"
  BY <1>1, NobodyElse, ArrivalReads, StepsAreBusy DEF Alone
<1>3. \A v \in Workers \ {w} : at'[v] = "idle"
  BY <1>2, OwnMoves DEF WorkerKept
<1>4. Alone'
  BY <1>3 DEF Alone
<1>5. \A v \in Workers : RatedOK(v)'
  BY <1>1, <1>3 DEF RatedOK
<1> QED BY <1>1, <1>4, <1>5 DEF RatedInv

\* A request begins with the rating it finds, whatever it means to change.
LEMMA ArrivalRated ==
  ASSUME TypeInv, RatedInv, NEW w \in Workers, Arrival(w)
  PROVE  RatedInv' /\ Recalculated
<1>0. /\ UNCHANGED <<tables, scope>> /\ listing \in Listing /\ images \subseteq Images /\ Here
      /\ at \in [Workers -> Labels] /\ held \in [Workers -> Holdings]
  BY ArrivalReads, PartsOfType DEF TablesOK, LocalsOK
<1>1. ASSUME NEW loaded, NEW arg, NEW row, NEW label, Find(w, loaded, arg, row, label),
             row.rated = listing.rated, label \notin {"publish", "rate"}
      PROVE  RatedOK(w)'
  <2>1. at'[w] = label /\ held'[w].row = row
    BY <1>0, <1>1 DEF Find, Goto, Holding
  <2> QED BY <1>0, <1>1, <2>1 DEF RatedOK, Here, tables
<1>2. {"active", "inactive"} \subseteq Statuses
  BY DEF Statuses
<1>3. ASSUME NEW t \in Texts, Find(w, {"images", "slots"}, t, [listing EXCEPT !.text = t], "select")
      PROVE  RatedOK(w)'
  <2> DEFINE row0 == [listing EXCEPT !.text = t]
  <2>1. row0.rated = listing.rated
    BY <1>0, TextChanged
  <2>2. Find(w, {"images", "slots"}, t, row0, "select")
    BY <1>3
  <2> HIDE DEF row0
  <2> QED BY <1>1, <2>1, <2>2
<1>4. ASSUME NEW s \in {"active", "inactive"},
             Find(w, {"images", "slots"}, None, [listing EXCEPT !.status = s], "select")
      PROVE  RatedOK(w)'
  <2> DEFINE row0 == [listing EXCEPT !.status = s]
  <2>1. row0.rated = listing.rated
    BY <1>0, <1>2, StatusChanged
  <2>2. Find(w, {"images", "slots"}, None, row0, "select")
    BY <1>4
  <2> HIDE DEF row0
  <2> QED BY <1>1, <2>1, <2>2
<1>5. ASSUME NEW i \in Images, Find(w, {}, None, [listing EXCEPT !.primary = i], "select")
      PROVE  RatedOK(w)'
  <2> DEFINE row0 == [listing EXCEPT !.primary = i]
  <2>1. row0.rated = listing.rated
    BY <1>0, PrimaryChanged
  <2>2. Find(w, {}, None, row0, "select")
    BY <1>5
  <2> HIDE DEF row0
  <2> QED BY <1>1, <2>1, <2>2
<1>6. ASSUME NEW s \in {"active", "inactive"}, Find(w, {}, None, [listing EXCEPT !.status = s], "decide")
      PROVE  RatedOK(w)'
  <2> DEFINE row0 == [listing EXCEPT !.status = s]
  <2>1. row0.rated = listing.rated
    BY <1>0, <1>2, StatusChanged
  <2>2. Find(w, {}, None, row0, "decide")
    BY <1>6
  <2> HIDE DEF row0
  <2> QED BY <1>1, <2>1, <2>2
<1>7. ASSUME NEW i, Find(w, {"images"}, i, listing, "upload")
      PROVE  RatedOK(w)'
  BY <1>1, <1>7
<1>8. ASSUME Find(w, {}, None, listing, "delete")
      PROVE  RatedOK(w)'
  BY <1>1, <1>8
<1>9. CASE GuideRoutes(w) \/ AdminRoutes(w)
  <2>1. RatedOK(w)'
    BY <1>0, <1>3, <1>4, <1>5, <1>6, <1>7, <1>8, <1>9
       DEF GuideRoutes, AdminRoutes, UpdateRead, UploadRead, SetPrimaryImage, DeleteRead, DecideRead
  <2> QED BY <1>0, <2>1, OwnPartIsEnough DEF RatedInv, Published, Recalculated, tables
<1>10. CASE \E b \in Stays : ReviewRoutes(w, b)
  <2>1. PICK b \in Stays, label \in {"average", "flag", "remove", "hide"} : Find(w, {}, b, listing, label)
    BY <1>10 DEF ReviewRoutes, ReviewCheck, FlagRead, RemoveRead
  <2>2. RatedOK(w)'
    BY <1>1, <2>1
  <2> QED BY <1>0, <2>2, OwnPartIsEnough DEF RatedInv, Published, Recalculated, tables
<1> QED BY <1>9, <1>10 DEF Arrival

\* What save() does not mean to change it leaves: the rating among it.
LEMMA SaveRated ==
  ASSUME TypeInv, RatedInv, NEW w \in Workers, SaveSelect(w) \/ SaveUpdate(w) \/ UploadInsert(w), OneByOne
  PROVE  RatedOK(w)' /\ Published' \subseteq listing'.rated /\ Recalculated
<1>0. /\ at \in [Workers -> Labels] /\ held \in [Workers -> Holdings] /\ held[w] \in Holdings
      /\ RatedOK(w) /\ Published \subseteq listing.rated
  BY PartsOfType DEF LocalsOK, RatedInv
<1>1. CASE SaveUpdate(w)
  <2>1. listing'.rated = listing.rated /\ review' = review /\ at'[w] = "idle"
    BY <1>0, <1>1, SaveWrites DEF SaveUpdate, RatedOK, Finish, Goto
  <2> QED BY <1>0, <2>1 DEF RatedOK, Published, Recalculated
<1>2. CASE SaveSelect(w)
  <2>1. listing' = listing /\ review' = review
    BY <1>2 DEF SaveSelect, tables
  <2>2. at'[w] \in {"idle", "update"} /\ (at'[w] = "update" => held'[w].row = held[w].row)
    <3>1. CASE Finish(w)
      BY <1>0, <3>1 DEF Finish, Goto
    <3>2. CASE ~ Finish(w)
      <4> DEFINE d0 == IF Here THEN {c \in Columns : held[w].row[c] # listing[c]} ELSE Columns
      <4>1. at'[w] = "update" /\ held' = [held EXCEPT ![w] = [held[w] EXCEPT !.dirty = d0]]
        BY <1>0, <1>2, <3>2 DEF SaveSelect, Goto
      <4>2. d0 \in SUBSET Columns
        OBVIOUS
      <4> HIDE DEF d0
      <4> QED BY <1>0, <4>1, <4>2, HeldChanged
    <3> QED BY <3>1, <3>2
  <2>3. at[w] = "select"
    BY <1>2 DEF SaveSelect
  <2> QED BY <1>0, <2>1, <2>2, <2>3 DEF RatedOK, Published, Recalculated, Here
<1>3. CASE UploadInsert(w)
  <2>1. listing' = listing /\ review' = review /\ at[w] = "upload"
    BY <1>3 DEF UploadInsert
  <2>2. at'[w] \in {"idle", "select"} /\ (at'[w] = "select" => held'[w].row.rated = held[w].row.rated)
    <3>1. CASE Finish(w)
      BY <1>0, <3>1 DEF Finish, Goto
    <3>2. CASE ~ Finish(w)
      <4>1. held[w].arg \in Images /\ held[w].row \in Listing
        BY <1>0, <2>1, HeldChanged DEF TypeInv, RequestOK
      <4> DEFINE r0 == [held[w].row EXCEPT !.primary = held[w].arg]
      <4>2. at'[w] = "select" /\ held' = [held EXCEPT ![w] = [held[w] EXCEPT !.row = r0]]
        BY <1>0, <1>3, <3>2 DEF UploadInsert, Goto
      <4>3. r0 \in Listing /\ r0.rated = held[w].row.rated
        BY <4>1, PrimaryChanged
      <4> HIDE DEF r0
      <4> QED BY <1>0, <4>2, <4>3, HeldChanged
    <3> QED BY <3>1, <3>2
  <2> QED BY <1>0, <2>1, <2>2 DEF RatedOK, Published, Recalculated, Here
<1> QED BY <1>1, <1>2, <1>3

LEMMA GuideStepsRated ==
  ASSUME TypeInv, RatedInv, NEW w \in Workers, DeleteRow(w) \/ DecideUpdate(w) \/ Fail(w), OneByOne
  PROVE  RatedOK(w)' /\ Published' \subseteq listing'.rated /\ Recalculated
<1>0. /\ at \in [Workers -> Labels] /\ held \in [Workers -> Holdings] /\ held[w] \in Holdings
      /\ listing \in Listing /\ Published \subseteq listing.rated
  BY PartsOfType DEF LocalsOK, TablesOK, RatedInv
<1>1. at'[w] = "idle" /\ review' = review
  BY <1>0 DEF DeleteRow, DecideUpdate, Fail, Finish, Goto, tables
<1>2. listing'.rated = listing.rated
  <2>1. CASE DeleteRow(w) \/ Fail(w)
    BY <1>0, <2>1, StateChanged DEF DeleteRow, Fail, tables
  <2>2. CASE DecideUpdate(w)
    <3> DEFINE s0 == held[w].row.status
    <3>1. s0 \in Statuses /\ listing' \in {listing, [listing EXCEPT !.status = s0]}
      BY <1>0, <2>2, HeldChanged DEF DecideUpdate, Listing, Statuses
    <3> HIDE DEF s0
    <3> QED BY <1>0, <3>1, StatusChanged
  <2> QED BY <2>1, <2>2
<1> QED BY <1>0, <1>1, <1>2 DEF RatedOK, Published, Recalculated

\* An average is taken of the published reviews, and written while it is still so.
LEMMA ReviewStepsRated ==
  ASSUME TypeInv, RatedInv, NEW w \in Workers, OneByOne,
         ReviewAverage(w) \/ ReviewCommit(w) \/ FlagSave(w) \/ RemoveSave(w) \/ RecalculateRead(w)
           \/ RecalculateUpdate(w)
  PROVE  RatedOK(w)' /\ Published' \subseteq listing'.rated /\ Recalculated
<1>0. /\ at \in [Workers -> Labels] /\ held \in [Workers -> Holdings] /\ held[w] \in Holdings
      /\ listing \in Listing /\ Published \subseteq listing.rated /\ RatedOK(w)
      /\ review \in [Stays -> {"none", "published", "flagged", "removed"}]
      /\ held[w].row \in Listing
  BY PartsOfType, HeldChanged DEF LocalsOK, TablesOK, RatedInv
<1>1. at[w] \in {"publish", "flag", "remove", "hide", "average"} => held[w].arg \in Stays
  BY DEF TypeInv, RequestOK
<1>2. CASE ReviewAverage(w)
  <2>1. listing' = listing /\ review' = review /\ at[w] = "average"
    BY <1>2 DEF ReviewAverage, tables
  <2>2. \/ at'[w] = "idle"
        \/ at'[w] = "publish" /\ held'[w].row.rated = Published \cup {held[w].arg} /\ held'[w].arg = held[w].arg
    <3>1. CASE Finish(w)
      BY <1>0, <3>1 DEF Finish, Goto
    <3>2. CASE ~ Finish(w)
      <4> DEFINE p0 == Published \cup {held[w].arg}
                 r0 == [held[w].row EXCEPT !.rated = p0]
      <4>1. at'[w] = "publish" /\ held' = [held EXCEPT ![w] = [held[w] EXCEPT !.row = r0]]
        BY <1>0, <1>2, <3>2 DEF ReviewAverage, Goto
      <4>2. p0 \in SUBSET Stays
        BY <1>1, <2>1 DEF Published
      <4> HIDE DEF p0
      <4>3. r0 \in Listing /\ r0.rated = p0
        BY <1>0, <4>2, RatedChanged
      <4> HIDE DEF r0
      <4>4. held'[w].row.rated = p0 /\ held'[w].arg = held[w].arg
        BY <1>0, <4>1, <4>3, HeldChanged
      <4> QED BY <4>1, <4>4 DEF p0
    <3> QED BY <3>1, <3>2
  <2> QED BY <1>0, <2>1, <2>2 DEF RatedOK, Published, Recalculated
<1>3. CASE ReviewCommit(w)
  <2>1. at[w] = "publish" /\ at'[w] = "idle" /\ review' = [review EXCEPT ![held[w].arg] = "published"]
    BY <1>0, <1>3 DEF ReviewCommit, Finish, Goto
  <2>2. Published' = Published \cup {held[w].arg}
    BY <1>0, <1>1, <2>1 DEF Published
  <2>3. listing'.rated = held[w].row.rated
    BY <1>0, <1>3, RatedChanged DEF ReviewCommit, Listing
  <2> QED BY <1>0, <2>1, <2>2, <2>3 DEF RatedOK, Recalculated
<1>4. CASE FlagSave(w) \/ RemoveSave(w)
  <2>1. /\ listing' = listing /\ at'[w] \in {"idle", "recount"} /\ held[w].arg \in Stays
        /\ review' \in {[review EXCEPT ![held[w].arg] = "flagged"], [review EXCEPT ![held[w].arg] = "removed"]}
    BY <1>0, <1>1, <1>4 DEF FlagSave, RemoveSave, Finish, Goto
  <2>2. Published' \subseteq Published
    BY <1>0, <2>1 DEF Published
  <2> QED BY <1>0, <2>1, <2>2 DEF RatedOK, Recalculated
<1>5. CASE RecalculateRead(w)
  <2>1. listing' = listing /\ review' = review
    BY <1>5 DEF RecalculateRead, tables
  <2> DEFINE p0 == Published
             r0 == [held[w].row EXCEPT !.rated = p0]
  <2>2. at'[w] = "rate" /\ held' = [held EXCEPT ![w] = [held[w] EXCEPT !.row = r0]]
    BY <1>0, <1>5 DEF RecalculateRead, Goto
  <2>3. p0 \in SUBSET Stays
    BY DEF Published
  <2> HIDE DEF p0
  <2>4. r0 \in Listing /\ r0.rated = p0
    BY <1>0, <2>3, RatedChanged
  <2> HIDE DEF r0
  <2>5. held'[w].row.rated = p0
    BY <1>0, <2>2, <2>4, HeldChanged
  <2>6. Published' = Published /\ held'[w].row.rated = Published
    BY <2>1, <2>5 DEF p0, Published
  <2> QED BY <1>0, <2>1, <2>2, <2>6 DEF RatedOK, Recalculated
<1>6. CASE RecalculateUpdate(w)
  <2>1. at[w] = "rate" /\ at'[w] = "idle" /\ review' = review
    BY <1>0, <1>6 DEF RecalculateUpdate, Finish, Goto
  <2>2. listing'.rated = held[w].row.rated
    BY <1>0, <1>6, RatedChanged DEF RecalculateUpdate, Listing
  <2> QED BY <1>0, <2>1, <2>2 DEF RatedOK, Published, Recalculated
<1> QED BY <1>2, <1>3, <1>4, <1>5, <1>6

LEMMA RatedStep == TypeInv /\ RatedInv /\ [Next]_vars => RatedInv' /\ (OneByOne => Recalculated)
<1> SUFFICES ASSUME TypeInv, RatedInv, [Next]_vars PROVE RatedInv' /\ (OneByOne => Recalculated)
  OBVIOUS
<1>1. ASSUME NEW w \in Workers, Arrival(w) PROVE RatedInv' /\ Recalculated
  BY <1>1, ArrivalRated
<1>2. ASSUME NEW w \in Workers, Step(w) \/ Fail(w) PROVE RatedInv' /\ (OneByOne => Recalculated)
  BY <1>2, SaveRated, GuideStepsRated, ReviewStepsRated, OwnPartIsEnough DEF Step
<1>3. ASSUME NEW t \in Texts, CreateExperience(t) PROVE RatedInv' /\ Recalculated
  <2>1. listing'.rated = listing.rated /\ ~Here /\ UNCHANGED <<review, locals, scope>>
    BY <1>3, PartsOfType DEF CreateExperience, TablesOK, Listing, Here
  <2> QED BY <2>1 DEF RatedInv, OneByOne, Alone, RatedOK, Published, Recalculated, locals
<1>4. ASSUME UNCHANGED <<listing, review, locals, scope>> PROVE RatedInv' /\ Recalculated
  BY <1>4 DEF RatedInv, OneByOne, Alone, RatedOK, Here, Published, Recalculated, locals
<1>5. CASE \/ CalendarRoute
           \/ \E b \in Stays : Book(b) \/ EndStay(b)
           \/ \E task \in tasks : IndexTask(task)
           \/ UNCHANGED vars
  BY <1>4, <1>5 DEF CalendarRoute, UpdateAvailability, Book, EndStay, IndexTask, vars, tables
<1> QED BY <1>1, <1>2, <1>3, <1>5 DEF Next

LEMMA RatedStarts == Init => RatedInv
BY DEF Init, RatedInv, Alone, RatedOK, Published, Unborn

\* One request at a time, a published review counts in the listing's rating,
\* whatever failed, was flagged or was removed around it.
THEOREM PublishedReviewsCount == Spec => []PublishedCounts
<1>1. RatedInv => PublishedCounts
  BY DEF RatedInv, PublishedCounts
<1> QED BY <1>1, TypeStarts, TypeStep, RatedStarts, RatedStep, PTL DEF Spec

\* One request at a time, a rating is written as that of the reviews published
\* at that moment: no edit of the listing brings an older one back.
THEOREM RatingFollowsReviews == Spec => RatingIsAverage
<1>1. TypeInv /\ RatedInv /\ [Next]_vars =>
      [OneByOne /\ listing'.rated # listing.rated => listing'.rated = Published']_vars
  BY RatedStep DEF Recalculated
<1>2. Spec => [](TypeInv /\ RatedInv)
  BY TypeStarts, TypeStep, RatedStarts, RatedStep, PTL DEF Spec
<1> QED BY <1>1, <1>2, PTL DEF Spec, RatingIsAverage

-----------------------------------------------------------------------------
(* The itineraries beside it: each part of the instance behaves as its own *)
(* module says, whether it is its turn or not.                             *)

IP == INSTANCE ItinerariesProofs WITH Parameters <- MCParameters, Price <- MCPrice, Crowds <- {1, 2}

LEMMA CatalogueIsPart == MCSpec => Spec
<1>1. MCInit => Init
  BY DEF MCInit
<1>2. [MCNext]_mcVars => [Next]_vars
  BY DEF MCNext, mcVars
<1> QED BY <1>1, <1>2, PTL DEF MCSpec, Spec

LEMMA ItinerariesArePart == MCSpec => IP!Spec
<1>1. MCInit => IP!Init
  BY DEF MCInit, I!Init, IP!Init, I!Absent, IP!Absent, I!EmptyDraft, IP!EmptyDraft, I!Draft, IP!Draft
<1>2. I!Next => IP!Next
  <2>1. ASSUME NEW r \in Planners, NEW p \in MCParameters, I!Generate(r, p) PROVE IP!Generate(r, p)
    BY <2>1 DEF I!Generate, IP!Generate, I!Idle, IP!Idle, I!Goes, IP!Goes, I!Answer, IP!Answer, I!Absent, IP!Absent, I!EmptyDraft, IP!EmptyDraft, I!Draft, IP!Draft, I!Cardinality, IP!Cardinality, I!Matches, IP!Matches, I!MaxFound, IP!MaxFound, I!Affordable, IP!Affordable, I!Cost, IP!Cost, I!FoldSet, IP!FoldSet, I!MapThenFoldSet, IP!MapThenFoldSet
  <2>2. ASSUME NEW r \in Planners, NEW p \in MCParameters, I!ModifyRead(r, p) PROVE IP!ModifyRead(r, p)
    BY <2>2 DEF I!ModifyRead, IP!ModifyRead, I!Idle, IP!Idle, I!Goes, IP!Goes, I!Answer, IP!Answer, I!Absent, IP!Absent, I!EmptyDraft, IP!EmptyDraft, I!Draft, IP!Draft, I!Cardinality, IP!Cardinality, I!Parsed, IP!Parsed, I!Merged, IP!Merged
  <2>3. ASSUME NEW r \in Planners, I!ModifyClear(r) PROVE IP!ModifyClear(r)
    BY <2>3 DEF I!ModifyClear, IP!ModifyClear, I!Idle, IP!Idle, I!Goes, IP!Goes, I!Answer, IP!Answer, I!Absent, IP!Absent, I!EmptyDraft, IP!EmptyDraft, I!Draft, IP!Draft, I!Cardinality, IP!Cardinality
  <2>4. ASSUME NEW r \in Planners, I!ModifySearch(r) PROVE IP!ModifySearch(r)
    BY <2>4 DEF I!ModifySearch, IP!ModifySearch, I!Idle, IP!Idle, I!Goes, IP!Goes, I!Answer, IP!Answer, I!Absent, IP!Absent, I!EmptyDraft, IP!EmptyDraft, I!Draft, IP!Draft, I!Cardinality, IP!Cardinality, I!Matches, IP!Matches, I!MaxFound, IP!MaxFound, I!Affordable, IP!Affordable, I!Cost, IP!Cost, I!FoldSet, IP!FoldSet, I!MapThenFoldSet, IP!MapThenFoldSet
  <2>5. ASSUME NEW r \in Planners, I!SaveRow(r) PROVE IP!SaveRow(r)
    BY <2>5 DEF I!SaveRow, IP!SaveRow, I!Idle, IP!Idle, I!Goes, IP!Goes, I!Answer, IP!Answer, I!Absent, IP!Absent, I!EmptyDraft, IP!EmptyDraft, I!Draft, IP!Draft, I!Cardinality, IP!Cardinality
  <2>6. ASSUME NEW r \in Planners, I!SaveList(r) PROVE IP!SaveList(r)
    BY <2>6 DEF I!SaveList, IP!SaveList, I!Idle, IP!Idle, I!Goes, IP!Goes, I!Answer, IP!Answer, I!Absent, IP!Absent, I!EmptyDraft, IP!EmptyDraft, I!Draft, IP!Draft, I!Cardinality, IP!Cardinality, I!Rows, IP!Rows
  <2>7. ASSUME NEW r \in Planners, I!PlannerFails(r) PROVE IP!PlannerFails(r)
    BY <2>7 DEF I!PlannerFails, IP!PlannerFails, I!Idle, IP!Idle, I!Goes, IP!Goes, I!Answer, IP!Answer, I!Absent, IP!Absent, I!EmptyDraft, IP!EmptyDraft, I!Draft, IP!Draft, I!Cardinality, IP!Cardinality
  <2> QED BY <2>1, <2>2, <2>3, <2>4, <2>5, <2>6, <2>7 DEF I!Next, IP!Next
<1>3. [MCNext]_mcVars => [IP!Next]_(IP!vars)
  BY <1>2 DEF MCNext, mcVars, tripVars, IP!vars
<1> QED BY <1>1, <1>3, PTL DEF MCSpec, IP!Spec

LEMMA ItinerariesHold ==
  MCSpec => [](IP!TypeOK /\ IP!StopsFitParameters /\ IP!CostFitsStops /\ IP!StopsWithinBudget)
<1>1. IP!TripAssumption
  BY TripAssumption DEF I!TripAssumption, IP!TripAssumption, I!Wanted, IP!Wanted, I!IsFiniteSet, IP!IsFiniteSet
<1>2. IP!Spec => []IP!TypeOK
  BY <1>1, IP!TypeCorrect
<1>3. IP!Spec => []IP!StopsFitParameters
  BY <1>1, IP!ListsFitParameters
<1>4. IP!Spec => []IP!CostFitsStops
  BY <1>1, IP!CostsFitLists
<1>5. IP!Spec => []IP!StopsWithinBudget
  BY <1>1, IP!BudgetsAreKept
<1> QED BY <1>2, <1>3, <1>4, <1>5, ItinerariesArePart, PTL

\* One modification at a time, a stored itinerary is whole: its list is that of the
\* stored parameters and its cost that of the list.
THEOREM ItinerariesAreWhole == MCSpec => []ItineraryIsWhole
<1>1. IP!TypeOK => I!TypeOK
  BY DEF I!TypeOK, IP!TypeOK, I!Wanted, IP!Wanted, I!Stop, IP!Stop, I!Costs, IP!Costs, I!Cost, IP!Cost,
         I!FoldSet, IP!FoldSet, I!MapThenFoldSet, IP!MapThenFoldSet
<1>2. IP!StopsFitParameters => I!StopsFitParameters
  BY DEF I!StopsFitParameters, IP!StopsFitParameters, I!OnePlanner, IP!OnePlanner
<1>3. IP!CostFitsStops => I!CostFitsStops
  BY DEF I!CostFitsStops, IP!CostFitsStops, I!OnePlanner, IP!OnePlanner, I!Rests, IP!Rests, I!Cost, IP!Cost,
         I!FoldSet, IP!FoldSet, I!MapThenFoldSet, IP!MapThenFoldSet
<1> QED BY <1>1, <1>2, <1>3, ItinerariesHold, PTL DEF ItineraryIsWhole

\* Nothing is proposed over budget, nor more than the days allow, however many
\* modifications overlap or fail.
THEOREM PlansKeepBudgets == MCSpec => []StopsWithinBudget
<1>1. IP!StopsWithinBudget => StopsWithinBudget
  BY DEF StopsWithinBudget, I!StopsWithinBudget, IP!StopsWithinBudget, I!MaxFound, IP!MaxFound, I!Cardinality,
         IP!Cardinality
<1> QED BY <1>1, ItinerariesHold, PTL
=============================================================================
