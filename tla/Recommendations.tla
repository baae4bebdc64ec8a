--------------------------- MODULE Recommendations ---------------------------
(***************************************************************************)
(* Recommendations (vector/*.ts and experiences.service.ts): the texts of  *)
(* the experiences are embedded through a cache, written to the index by   *)
(* tasks that nobody waits for, and searched for what is similar; the rows *)
(* of what is found are then read one by one.                              *)
(*                                                                         *)
(* The cache goes by the first 24 bytes of a text, so texts that begin the *)
(* same get one embedding, and an edit that keeps the title keeps it too.  *)
(***************************************************************************)
EXTENDS Integers, FiniteSets

CONSTANTS
  None,
  Experiences,
  Texts,       \* numbers: the nearer, the more similar
  getCacheKey, \* of each text
  threshold,   \* the distance of what is similar enough
  limit,
  MaxChanges   \* bound on edits, deletions and expirations

VARIABLES
  row,      \* each experience: its text, or None
  cache,    \* the embedding kept under each key
  indexed,  \* experience_embeddings
  tasks,    \* tasks under way: the experience, its text, whether OpenAI is asked, the embedding
  asked,    \* a request for similar experiences: where it is, and for what
  found,    \* what the search found, less the experience itself
  shown,    \* the last answer
  used,     \* history: the texts embedded so far
  dropped,  \* history: the experiences whose task failed
  crossed,  \* history: the experiences with two tasks at once
  changes

vars == <<row, cache, indexed, tasks, asked, found, shown, used, dropped, crossed, changes>>

Keys == {getCacheKey[t] : t \in Texts}
Here == {e \in Experiences : row[e] # None}
NotAsked == [step |-> "idle", on |-> None, at |-> None]
Distance(a, b) == IF a < b THEN b - a ELSE a - b

\* createExperience, updateExperience and deleteExperience end with a task.
Start(e, text) ==
  /\ tasks' = tasks \cup {[on |-> e, text |-> text, called |-> FALSE, embedding |-> None]}
  /\ crossed' = IF \E k \in tasks : k.on = e THEN crossed \cup {e} ELSE crossed

-----------------------------------------------------------------------------
\* The experience is created or edited (a text), or deleted (None).
Save(e, text) ==
  /\ changes < MaxChanges /\ changes' = changes + 1
  /\ text # row[e]
  /\ row' = [row EXCEPT ![e] = text]
  /\ Start(e, text)
  /\ UNCHANGED <<cache, indexed, asked, found, shown, used, dropped>>

\* generateEmbedding looks into the cache, and asks OpenAI for what is not there.
generateEmbedding(k) ==
  /\ k.text # None /\ k.embedding = None /\ ~k.called
  /\ LET kept == cache[getCacheKey[k.text]]
     IN tasks' = (tasks \ {k}) \cup {[k EXCEPT !.called = kept = None, !.embedding = kept]}
  /\ used' = used \cup {k.text}
  /\ UNCHANGED <<row, cache, indexed, asked, found, shown, dropped, crossed, changes>>

\* What OpenAI answers goes into the cache, whatever is there by now.
callOpenAIEmbeddings(k) ==
  /\ k.called
  /\ cache' = [cache EXCEPT ![getCacheKey[k.text]] = k.text]
  /\ tasks' = (tasks \ {k}) \cup {[k EXCEPT !.called = FALSE, !.embedding = k.text]}
  /\ UNCHANGED <<row, indexed, asked, found, shown, used, dropped, crossed, changes>>

upsertExperienceEmbedding(k) ==
  /\ k.embedding # None
  /\ indexed' = [indexed EXCEPT ![k.on] = k.embedding]
  /\ tasks' = tasks \ {k}
  /\ UNCHANGED <<row, cache, asked, found, shown, used, dropped, crossed, changes>>

deleteExperienceEmbedding(k) ==
  /\ k.text = None
  /\ indexed' = [indexed EXCEPT ![k.on] = None]
  /\ tasks' = tasks \ {k}
  /\ UNCHANGED <<row, cache, asked, found, shown, used, dropped, crossed, changes>>

\* A task that fails is logged and forgotten.
Fail(k) ==
  /\ tasks' = tasks \ {k} /\ dropped' = dropped \cup {k.on}
  /\ UNCHANGED <<row, cache, indexed, asked, found, shown, used, crossed, changes>>

Expire(key) ==
  /\ changes < MaxChanges /\ changes' = changes + 1
  /\ cache[key] # None /\ cache' = [cache EXCEPT ![key] = None]
  /\ UNCHANGED <<row, indexed, tasks, asked, found, shown, used, dropped, crossed>>

-----------------------------------------------------------------------------
\* getRecommendations of an experience that is there, and getSimilarExperiences:
\* one that is not indexed has none.
Ask(e) ==
  /\ asked = NotAsked /\ e \in Here
  /\ asked' = IF indexed[e] = None THEN NotAsked ELSE [step |-> "search", on |-> e, at |-> indexed[e]]
  /\ shown' = {}
  /\ UNCHANGED <<row, cache, indexed, tasks, found, used, dropped, crossed, changes>>

\* Experiences near enough, and the sets that hold the nearest n of them.
Similar(at) == {e \in Experiences : indexed[e] # None /\ Distance(indexed[e], at) <= threshold}
NearestOf(at, n) ==
  {S \in SUBSET Similar(at) :
     /\ Cardinality(S) = IF Cardinality(Similar(at)) < n THEN Cardinality(Similar(at)) ELSE n
     /\ \A e \in S, f \in Similar(at) \ S : Distance(indexed[e], at) <= Distance(indexed[f], at)}

\* One more than asked for, since the experience itself is near.
searchSimilarExperiences ==
  /\ asked.step = "search"
  /\ \E S \in NearestOf(asked.at, limit + 1) :
       \E kept \in SUBSET (S \ {asked.on}) :
         /\ Cardinality(kept) = IF asked.on \in S THEN Cardinality(S) - 1
                                ELSE IF Cardinality(S) < limit THEN Cardinality(S) ELSE limit
         /\ \A e \in kept, f \in (S \ {asked.on}) \ kept :
              Distance(indexed[e], asked.at) <= Distance(indexed[f], asked.at)
         /\ found' = kept
  /\ asked' = [asked EXCEPT !.step = "rows"]
  /\ UNCHANGED <<row, cache, indexed, tasks, shown, used, dropped, crossed, changes>>

\* A row that is read, and left out if it is gone.
ReadRow(e) ==
  /\ asked.step = "rows" /\ e \in found
  /\ found' = found \ {e}
  /\ shown' = IF e \in Here THEN shown \cup {e} ELSE shown
  /\ UNCHANGED <<row, cache, indexed, tasks, asked, used, dropped, crossed, changes>>

Answer ==
  /\ asked.step = "rows" /\ found = {}
  /\ asked' = NotAsked
  /\ UNCHANGED <<row, cache, indexed, tasks, found, shown, used, dropped, crossed, changes>>

Init ==
  /\ row \in [Experiences -> Texts] /\ indexed = row
  /\ cache = [key \in Keys |-> None]
  /\ tasks = {} /\ asked = NotAsked /\ found = {} /\ shown = {}
  /\ used = {} /\ dropped = {} /\ crossed = {} /\ changes = 0

Next ==
  \/ \E e \in Experiences : Ask(e) \/ ReadRow(e) \/ \E t \in Texts \cup {None} : Save(e, t)
  \/ \E k \in tasks :
       \/ generateEmbedding(k) \/ callOpenAIEmbeddings(k) \/ upsertExperienceEmbedding(k)
       \/ deleteExperienceEmbedding(k) \/ Fail(k)
  \/ \E key \in Keys : Expire(key)
  \/ searchSimilarExperiences \/ Answer

Spec == Init /\ [][Next]_vars

-----------------------------------------------------------------------------
(* Properties.                                                             *)

\* Every variable has its type.
TypeOK ==
  /\ row \in [Experiences -> Texts \cup {None}] /\ indexed \in [Experiences -> Texts \cup {None}]
  /\ cache \in [Keys -> Texts \cup {None}]
  /\ tasks \subseteq [on : Experiences, text : Texts \cup {None}, called : BOOLEAN,
                    embedding : Texts \cup {None}]
  /\ asked \in [step : {"idle", "search", "rows"}, on : Experiences \cup {None}, at : Texts \cup {None}]
  /\ {found, shown, dropped, crossed} \subseteq SUBSET Experiences
  /\ used \subseteq Texts /\ changes \in 0..MaxChanges

\* Once its tasks have ended an experience is indexed by its own text, and not at
\* all when it is gone: unless a task failed, or two of them overlapped, or two
\* texts that begin the same were embedded.
IndexFollowsRows ==
  \A e \in Experiences :
    /\ e \notin dropped \cup crossed /\ \A k \in tasks : k.on # e
    /\ \A s, t \in used : getCacheKey[s] = getCacheKey[t] => s = t
    => indexed[e] = row[e]

\* Nobody is recommended the experience that is looked at, nor more than asked
\* for; and of a database that nobody changes, nothing nearer is left out.
NearestAreShown ==
  /\ asked.step = "rows" => asked.on \notin shown \cup found
  /\ Cardinality(shown \cup found) <= limit
  /\ changes = 0 /\ asked.step = "rows" =>
       \A f \in Similar(asked.at) \ ({asked.on} \cup shown \cup found) :
         /\ Cardinality(shown \cup found) = limit
         /\ \A e \in shown \cup found :
              Distance(indexed[e], asked.at) <= Distance(indexed[f], asked.at)
=============================================================================
