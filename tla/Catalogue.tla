----------------------------- MODULE Catalogue -----------------------------
(***************************************************************************)
(* One listing of a guide and everybody who writes it: the guide who edits *)
(* it, uploads images and deletes it (experiences.service.ts), the         *)
(* administrator who approves it (admin.service.ts), the travellers who    *)
(* review their stays and the moderation of reviews (reviews.service.ts),  *)
(* and the tasks that copy its text into the vector index and that nobody  *)
(* waits for.                                                              *)
(*                                                                         *)
(* A worker is a request in progress.  "scope", chosen in Init, says which *)
(* operations are requested and how many of them may overlap.              *)
(*                                                                         *)
(* experienceRepo.save(entity) is a SELECT of the row and an UPDATE of the *)
(* columns that differ; a row that is gone is inserted again.  When the    *)
(* entity was read with its images and slots, rows that were added since   *)
(* are taken for removed ones: save() unlinks them, their column           *)
(* experience_id is NOT NULL, and the save is rolled back.                 *)
(***************************************************************************)
EXTENDS Naturals, FiniteSets

CONSTANTS
  Stays,      \* bookings of the listing, each with at most one review
  Images,     \* rows of table images
  Slots,      \* rows of availability_slots: dates and start times
  Texts,      \* title, description and categories, as far as they differ
  Workers,    \* requests in progress at the same time
  Scopes,     \* records [width, operations]
  None,       \* no image, no stay, no text
  MaxImages,  \* "Maximum 10 images per experience"
  MaxTasks    \* bound on the index tasks in progress

ASSUME CatalogueAssumption ==
  /\ IsFiniteSet(Workers)
  /\ MaxImages \in Nat
  /\ \A s \in Scopes : s.width \in Nat \ {0}

VARIABLES
  listing,  \* row of table experiences
  images,   \* its rows of table images
  slots,    \* its rows of table availability_slots
  stay,     \* status of the bookings
  review,   \* status of the bookings' reviews
  index,    \* the text its vector stands for
  tasks,    \* index tasks nobody waits for
  at,       \* where each worker is
  held,     \* what it has read: the row, the images and slots, the argument
  scope     \* what is requested; never changes

tables == <<listing, images, slots, stay, review>>
locals == <<at, held>>
vars   == <<tables, index, tasks, locals, scope>>

-----------------------------------------------------------------------------
Columns == {"state", "status", "text", "primary", "rated"}

\* "rated" stands for average_rating and review_count: the reviews they count.
Listing ==
  [state : {"unborn", "here", "deleted"}, status : {"pending_approval", "active", "inactive"},
   text : Texts \cup {None}, primary : Images \cup {None}, rated : SUBSET Stays]

Unborn == [state |-> "unborn", status |-> "pending_approval", text |-> None, primary |-> None, rated |-> {}]
Holding(row, loaded, children, arg) ==
  [row |-> row, loaded |-> loaded, children |-> children, dirty |-> {}, arg |-> arg]
Blank  == Holding(Unborn, {}, {}, None)
Here   == listing.state = "here"
Published == {b \in Stays : review[b] = "published"}
NewImages == {i \in Images \ images : \A w \in Workers : held[w].arg # i}
Children(loaded) == (IF "images" \in loaded THEN images ELSE {}) \cup (IF "slots" \in loaded THEN slots ELSE {})

Asked(op)      == op \in scope.operations
Free(w)        == at[w] = "idle" /\ Cardinality({v \in Workers : at[v] # "idle"}) < scope.width
Goto(w, label) == at' = [at EXCEPT ![w] = label]
Finish(w)      == Goto(w, "idle") /\ held' = [held EXCEPT ![w] = Blank]

\* A task is started where there is a vector search service at all.
Put(kind, text) ==
  tasks' = IF Asked("index") /\ Cardinality(tasks) < MaxTasks
           THEN tasks \cup {[kind |-> kind, text |-> text]} ELSE tasks

\* findOne with the relations named; "Experience not found" answers at once.
Find(w, loaded, arg, row, label) ==
  /\ Free(w) /\ Here
  /\ held' = [held EXCEPT ![w] = Holding(row, loaded, Children(loaded), arg)]
  /\ Goto(w, label)
  /\ UNCHANGED <<tables, index, tasks, scope>>

-----------------------------------------------------------------------------
(* The guide.                                                              *)

CreateExperience(t) ==
  /\ listing.state = "unborn"
  /\ listing' = [listing EXCEPT !.state = "here", !.text = t]
  /\ Put("index", t)
  /\ UNCHANGED <<images, slots, stay, review, index, locals, scope>>

\* updateExperience: the DTO may hold a text or a status, and of the statuses
\* "active" and "inactive".
UpdateRead(w) ==
  \/ \E t \in Texts : Find(w, {"images", "slots"}, t, [listing EXCEPT !.text = t], "select")
  \/ \E s \in {"active", "inactive"} : Find(w, {"images", "slots"}, None, [listing EXCEPT !.status = s], "select")

\* save(): SELECT, the columns that differ, the children to unlink ...
SaveSelect(w) ==
  LET h == held[w] IN
  /\ at[w] = "select"
  /\ IF Here /\ ~ Children(h.loaded) \subseteq h.children
     THEN Finish(w)
     ELSE /\ held' = [held EXCEPT ![w].dirty =
                        IF Here THEN {c \in Columns : h.row[c] # listing[c]} ELSE Columns]
          /\ Goto(w, "update")
  /\ UNCHANGED <<tables, index, tasks, scope>>

\* ... and the UPDATE or INSERT.  A new text is sent to the index.
SaveUpdate(w) ==
  LET h == held[w] IN
  /\ at[w] = "update" /\ Finish(w)
  /\ IF Here \/ h.dirty = Columns
     THEN listing' = [c \in Columns |-> IF c \in h.dirty THEN h.row[c] ELSE listing[c]]
     ELSE UNCHANGED listing
  /\ IF h.arg \in Texts THEN Put("index", h.row.text) ELSE UNCHANGED tasks
  /\ UNCHANGED <<images, slots, stay, review, index, scope>>

\* Mutant: one image more than the limit.
UploadReadOneMore(w) ==
  /\ Cardinality(images) <= MaxImages
  /\ \E i \in NewImages : Find(w, {"images"}, i, listing, "upload")

\* uploadImage: the limit is checked on the images read ...
UploadRead(w) ==
  /\ Cardinality(images) < MaxImages
  /\ \E i \in NewImages : Find(w, {"images"}, i, listing, "upload")

\* ... the file goes to S3, the row is inserted, and the first image becomes
\* the primary one with a save of the listing as it was read.
UploadInsert(w) ==
  LET i == held[w].arg IN
  /\ at[w] = "upload"
  /\ IF Here
     THEN /\ images' = images \cup {i}
          /\ IF held[w].row.primary = None
             THEN held' = [held EXCEPT ![w].row.primary = i] /\ Goto(w, "select")
             ELSE Finish(w)
     ELSE UNCHANGED images /\ Finish(w)
  /\ UNCHANGED <<listing, slots, stay, review, index, tasks, scope>>

SetPrimaryImage(w) ==
  \E i \in images : Find(w, {}, None, [listing EXCEPT !.primary = i], "select")

\* updateAvailability: one INSERT ... ON CONFLICT.
UpdateAvailability(s) ==
  /\ Here
  /\ slots' = slots \cup {s}
  /\ UNCHANGED <<listing, images, stay, review, index, tasks, locals, scope>>

\* deleteExperience: refused while a booking is pending or confirmed.
DeleteRead(w) ==
  /\ \A b \in Stays : stay[b] # "booked"
  /\ Find(w, {}, None, listing, "delete")

\* Mutant: the bookings table does not refer to the listing.
DeleteRowCascade(w) ==
  /\ at[w] = "delete" /\ Finish(w)
  /\ listing' = [listing EXCEPT !.state = "deleted"]
  /\ images' = {} /\ slots' = {}
  /\ Put("remove", None)
  /\ UNCHANGED <<stay, review, index, scope>>

\* The DELETE takes images and slots with it; a booking in any status refers
\* to the listing and turns it into an error.
DeleteRow(w) ==
  /\ at[w] = "delete" /\ Finish(w)
  /\ IF \E b \in Stays : stay[b] # "none"
     THEN UNCHANGED <<listing, images, slots, tasks>>
     ELSE /\ listing' = [listing EXCEPT !.state = "deleted"]
          /\ images' = {} /\ slots' = {}
          /\ Put("remove", None)
  /\ UNCHANGED <<stay, review, index, scope>>

-----------------------------------------------------------------------------
(* The administrator's decision: check, then update of the status.         *)

DecideRead(w) ==
  /\ listing.status = "pending_approval"
  /\ \E s \in {"active", "inactive"} : Find(w, {}, None, [listing EXCEPT !.status = s], "decide")
DecideUpdate(w) ==
  /\ at[w] = "decide" /\ Finish(w)
  /\ listing' = IF Here THEN [listing EXCEPT !.status = held[w].row.status] ELSE listing
  /\ UNCHANGED <<images, slots, stay, review, index, tasks, scope>>

-----------------------------------------------------------------------------
(* Reviews.                                                                *)

\* createReview: of a completed booking, in its window, without a review.
ReviewCheck(w, b) ==
  /\ stay[b] = "completed" /\ review[b] = "none"
  /\ Find(w, {}, b, listing, "average")

\* Mutants: the average is taken before the insert, or counts hidden reviews.
ReviewAverageEarly(w) ==
  /\ at[w] = "average"
  /\ IF review[held[w].arg] = "none"
     THEN held' = [held EXCEPT ![w].row.rated = Published] /\ Goto(w, "publish")
     ELSE Finish(w)
  /\ UNCHANGED <<tables, index, tasks, scope>>
ReviewAverageAll(w) ==
  /\ at[w] = "average"
  /\ IF review[held[w].arg] = "none"
     THEN /\ held' = [held EXCEPT ![w].row.rated = {b \in Stays : review[b] # "none"} \cup {held[w].arg}]
          /\ Goto(w, "publish")
     ELSE Finish(w)
  /\ UNCHANGED <<tables, index, tasks, scope>>

\* The transaction: INSERT (a second review of a booking waits for the first
\* and fails), and the average of what is committed and its own ...
ReviewAverage(w) ==
  LET b == held[w].arg IN
  /\ at[w] = "average"
  /\ \A v \in Workers : ~ (at[v] = "publish" /\ held[v].arg = b)
  /\ IF review[b] = "none"
     THEN held' = [held EXCEPT ![w].row.rated = Published \cup {b}] /\ Goto(w, "publish")
     ELSE Finish(w)
  /\ UNCHANGED <<tables, index, tasks, scope>>

\* ... which is written to the listing, and COMMIT.
ReviewCommit(w) ==
  /\ at[w] = "publish" /\ Finish(w)
  /\ review' = [review EXCEPT ![held[w].arg] = "published"]
  /\ listing' = [listing EXCEPT !.rated = held[w].row.rated]
  /\ UNCHANGED <<images, slots, stay, index, tasks, scope>>

\* flagReview: whatever its status was, unless removed.  The average stays.
FlagRead(w, b) ==
  /\ review[b] \in {"published", "flagged"}
  /\ Find(w, {}, b, listing, "flag")
FlagSave(w) ==
  /\ at[w] = "flag" /\ Finish(w)
  /\ review' = [review EXCEPT ![held[w].arg] = "flagged"]
  /\ UNCHANGED <<listing, images, slots, stay, index, tasks, scope>>

\* removeReview: recalculated only if the review was published when read.
RemoveRead(w, b) ==
  /\ review[b] # "none"
  /\ Find(w, {}, b, listing, IF review[b] = "published" THEN "remove" ELSE "hide")
\* Mutant: a status the table does not know.
RemoveSaveDeleted(w) ==
  /\ at[w] \in {"remove", "hide"} /\ Finish(w)
  /\ review' = [review EXCEPT ![held[w].arg] = "deleted"]
  /\ UNCHANGED <<listing, images, slots, stay, index, tasks, scope>>

RemoveSave(w) ==
  /\ at[w] \in {"remove", "hide"}
  /\ review' = [review EXCEPT ![held[w].arg] = "removed"]
  /\ IF at[w] = "remove" THEN Goto(w, "recount") /\ UNCHANGED held ELSE Finish(w)
  /\ UNCHANGED <<listing, images, slots, stay, index, tasks, scope>>
RecalculateRead(w) ==
  /\ at[w] = "recount"
  /\ held' = [held EXCEPT ![w].row.rated = Published]
  /\ Goto(w, "rate")
  /\ UNCHANGED <<tables, index, tasks, scope>>
RecalculateUpdate(w) ==
  /\ at[w] = "rate" /\ Finish(w)
  /\ listing' = [listing EXCEPT !.rated = held[w].row.rated]
  /\ UNCHANGED <<images, slots, stay, review, index, tasks, scope>>

-----------------------------------------------------------------------------
(* The vector index.  Tasks end in any order, or fail and are forgotten.   *)

IndexTask(task) ==
  /\ task \in tasks
  /\ tasks' = tasks \ {task}
  /\ index' \in {index, IF task.kind = "index" THEN task.text ELSE None}
  /\ UNCHANGED <<tables, locals, scope>>

-----------------------------------------------------------------------------
(* Bookings as this module sees them: a row refers to the listing.         *)

Book(b) ==
  /\ stay[b] = "none" /\ Here /\ slots # {}
  /\ stay' = [stay EXCEPT ![b] = "booked"]
  /\ UNCHANGED <<listing, images, slots, review, index, tasks, locals, scope>>
EndStay(b) ==
  /\ \/ stay[b] = "booked" /\ \E s \in {"completed", "cancelled"} : stay' = [stay EXCEPT ![b] = s]
     \/ stay[b] = "completed" /\ stay' = [stay EXCEPT ![b] = "long ago"]
  /\ UNCHANGED <<listing, images, slots, review, index, tasks, locals, scope>>

\* An await throws; a transaction that has not committed leaves no trace.
Fail(w) ==
  /\ at[w] # "idle" /\ Finish(w)
  /\ UNCHANGED <<tables, index, tasks, scope>>

-----------------------------------------------------------------------------
Init ==
  /\ listing = Unborn
  /\ images = {} /\ slots = {}
  /\ stay = [b \in Stays |-> "none"]
  /\ review = [b \in Stays |-> "none"]
  /\ index = None /\ tasks = {}
  /\ at = [w \in Workers |-> "idle"]
  /\ held = [w \in Workers |-> Blank]
  /\ scope \in Scopes

\* The routes of the guide, the administrator, and the reviewers.
GuideRoutes(w) ==
  \/ Asked("edit") /\ UpdateRead(w)
  \/ Asked("upload") /\ UploadRead(w)
  \/ Asked("primary") /\ SetPrimaryImage(w)
  \/ Asked("delete") /\ DeleteRead(w)

AdminRoutes(w) == Asked("decide") /\ DecideRead(w)

ReviewRoutes(w, b) ==
  \/ Asked("review") /\ ReviewCheck(w, b)
  \/ Asked("moderate") /\ (FlagRead(w, b) \/ RemoveRead(w, b))

Arrival(w) == GuideRoutes(w) \/ AdminRoutes(w) \/ \E b \in Stays : ReviewRoutes(w, b)

Step(w) ==
  \/ SaveSelect(w) \/ SaveUpdate(w) \/ UploadInsert(w) \/ DeleteRow(w) \/ DecideUpdate(w)
  \/ ReviewAverage(w) \/ ReviewCommit(w) \/ FlagSave(w) \/ RemoveSave(w)
  \/ RecalculateRead(w) \/ RecalculateUpdate(w)

CalendarRoute == Asked("slots") /\ \E s \in Slots : UpdateAvailability(s)

Next ==
  \/ \E t \in Texts : CreateExperience(t)
  \/ \E w \in Workers : Arrival(w) \/ Step(w) \/ Fail(w)
  \/ CalendarRoute
  \/ Asked("review") /\ \E b \in Stays : Book(b) \/ EndStay(b)
  \/ \E task \in tasks : IndexTask(task)

Spec == Init /\ [][Next]_vars

-----------------------------------------------------------------------------
(* Properties.                                                             *)

OneByOne == scope.width = 1
Quiet    == \A w \in Workers : at[w] = "idle"

\* Every variable has its type.
TypeOK ==
  /\ listing \in Listing
  /\ images \subseteq Images /\ slots \subseteq Slots
  /\ stay \in [Stays -> {"none", "booked", "completed", "long ago", "cancelled"}]
  /\ review \in [Stays -> {"none", "published", "flagged", "removed"}]
  /\ index \in Texts \cup {None}
  /\ tasks \subseteq [kind : {"index", "remove"}, text : Texts \cup {None}]
  /\ at \in [Workers -> {"idle", "select", "update", "upload", "delete", "decide", "average",
                         "publish", "flag", "remove", "hide", "recount", "rate"}]
  /\ held \in [Workers -> [row : Listing, loaded : SUBSET {"images", "slots"},
                           children : SUBSET (Images \cup Slots), dirty : SUBSET Columns,
                           arg : Texts \cup Images \cup Stays \cup {None}]]

\* A listing that anybody has ever booked is there, also when the booking is
\* made between the guide's check and the DELETE.
BookedStays == (\E b \in Stays : stay[b] # "none") => Here

\* Overlapping uploads exceed the limit by no more than the other requests
\* that have passed the check.
ImagesWithinLimit == Cardinality(images) + 1 <= MaxImages + scope.width

\* One request at a time, a published review counts in the rating, whatever
\* failed, was flagged or removed around it.
PublishedCounts == OneByOne /\ Quiet => Published \subseteq listing.rated

\* One request at a time, a rating that is written is that of the published
\* reviews at this moment.
RatingIsAverage ==
  [][OneByOne /\ listing'.rated # listing.rated => listing'.rated = Published']_vars
=============================================================================
