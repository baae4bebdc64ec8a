------------------------------- MODULE Search -------------------------------
(***************************************************************************)
(* How the experience service lists experiences: searchExperiences, page   *)
(* after page for somebody who reads on, while experiences come, go and    *)
(* change their rating.                                                    *)
(*                                                                         *)
(* A page takes three queries that are not one transaction: the ids of the *)
(* page, the rows of these ids, and the total.  The order is that of one   *)
(* column, and then, since the rows are joined with their images, that of  *)
(* the primary key, which TypeORM adds when it selects the ids of a page.  *)
(***************************************************************************)
EXTENDS Integers, Sequences, FiniteSets

CONSTANTS
  Experiences, \* numbers: their ids, which are compared
  Ranks,       \* values of the column of the order
  PageSize,
  MaxChanges   \* bound on the changes while somebody reads

VARIABLES
  active,   \* experiences with the status ACTIVE that fit the filters
  rank,     \* the column of the order: price, averageRating or reviewCount
  pages,    \* the pages read so far: sets of experiences
  total,    \* the total of the last page
  asked,    \* the page being read: its ids, its rows, and how far it is
  changes   \* history: how often something changed since the first page

vars == <<active, rank, pages, total, asked, changes>>

NotAsked == [at |-> "idle", rows |-> {}]

Lesser(a, b) == IF a < b THEN a ELSE b

-----------------------------------------------------------------------------
\* e comes before f: by the column, or else by the primary key.
Precedes(e, f) == rank[e] > rank[f] \/ (rank[e] = rank[f] /\ e < f)

\* The experiences in the order the database gives them.
Orders ==
  {s \in [1..Cardinality(active) -> active] :
     /\ {s[i] : i \in DOMAIN s} = active
     /\ \A i, j \in DOMAIN s : i < j => Precedes(s[i], s[j])}

Skip(page) == (page - 1) * PageSize

\* The ids of a page: skip and take.
PageOf(order, page) ==
  {order[i] : i \in (Skip(page) + 1)..Lesser(Skip(page) + PageSize, Len(order))}

\* A client asks for the next page of the same search.
SelectIds ==
  /\ asked.at = "idle"
  /\ Len(pages) * PageSize < Lesser(total, Cardinality(Experiences))
  /\ \E order \in Orders : asked' = [at |-> "rows", rows |-> PageOf(order, Len(pages) + 1)]
  /\ UNCHANGED <<active, rank, pages, total, changes>>

\* The rows, where they still fit.
SelectRows ==
  /\ asked.at = "rows"
  /\ asked' = [at |-> "count", rows |-> asked.rows \cap active]
  /\ UNCHANGED <<active, rank, pages, total, changes>>

Count ==
  /\ asked.at = "count"
  /\ pages' = Append(pages, asked.rows)
  /\ total' = Cardinality(active)
  /\ asked' = NotAsked
  /\ UNCHANGED <<active, rank, changes>>

-----------------------------------------------------------------------------
Toggled(e) == IF e \in active THEN active \ {e} ELSE active \cup {e}

\* Between any two queries: an approval, an end, a review.
Change ==
  /\ changes < MaxChanges
  /\ changes' = changes + 1
  /\ \/ /\ \E e \in Experiences : active' = Toggled(e)
        /\ UNCHANGED rank
     \/ /\ \E e \in active, r \in Ranks : rank' = [rank EXCEPT ![e] = r]
        /\ UNCHANGED active
  /\ UNCHANGED <<pages, total, asked>>

Init ==
  /\ active \in SUBSET Experiences
  /\ rank \in [Experiences -> Ranks]
  /\ pages = <<>> /\ total = Cardinality(Experiences)
  /\ asked = NotAsked /\ changes = 0

Next == SelectIds \/ SelectRows \/ Count \/ Change

Spec == Init /\ [][Next]_vars

-----------------------------------------------------------------------------
(* Properties.                                                             *)

\* Every variable has its type.
TypeOK ==
  /\ active \subseteq Experiences /\ rank \in [Experiences -> Ranks]
  /\ asked \in [at : {"idle", "rows", "count"}, rows : SUBSET Experiences]
  /\ \A i \in DOMAIN pages : pages[i] \subseteq Experiences
  /\ total \in 0..Cardinality(Experiences) /\ changes \in 0..MaxChanges

Read == UNION {pages[i] : i \in DOMAIN pages}

\* Who reads all pages of a search sees every experience once, also of those that
\* are equal in the column of the order: unless something changes meanwhile.
PagesPartition ==
  changes = 0 =>
    /\ \A i, j \in DOMAIN pages : i # j => pages[i] \cap pages[j] = {}
    /\ asked.at = "idle" /\ Len(pages) * PageSize >= total => Read = active
=============================================================================
