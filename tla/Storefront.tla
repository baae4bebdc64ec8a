----------------------------- MODULE Storefront -----------------------------
(***************************************************************************)
(* The search page of the web client, experiences/page.tsx: a search is asked *)
(* for whenever the controls or the page change, answers are applied as they *)
(* arrive, and the buttons below the results come from getPaginationRange. *)
(*                                                                         *)
(* The service refuses some controls: SearchExperiencesDto knows no priceMin, *)
(* priceMax, durationMin or durationMax, and wants categories as an array. *)
(* What a search finds does not change while the page is followed.         *)
(***************************************************************************)
EXTENDS Integers, Sequences, FiniteSets

CONSTANTS
  Texts,      \* what the search box and the order may say
  Filters,    \* what the filters may ask for; one of them is
  NoFilter,   \* nothing
  Refusals,   \* the filters the service answers with an error
  Totals,     \* in how many pages the results of a search may come
  MaxHurries  \* bound on how often the user overtakes an answer

VARIABLES
  found,     \* service: how many pages each search finds
  controls,  \* what the controls say
  page,      \* the page asked for
  total,     \* totalPages, from the last answer
  shown,     \* the search and page of the experiences shown, or Nothing
  loading,   \* the skeleton is shown in place of the list
  asks,      \* searches in flight
  failed,    \* history: the last answer was an error
  hurries    \* how often the user acted before every answer was in

vars == <<found, controls, page, total, shown, loading, asks, failed, hurries>>

Controls == [text : Texts, filter : Filters]
Accepted == {c \in Controls : c.filter \notin Refusals}

MAX_PAGE_BUTTONS == 7

Lesser(a, b)  == IF a < b THEN a ELSE b
Greater(a, b) == IF a > b THEN a ELSE b

\* 0 stands for the three dots.
Dots == 0
Nothing == <<>>

\* The pages from one to another, in order.
Pages(from, to) == [i \in 1..(to - from + 1) |-> from + i - 1]

-----------------------------------------------------------------------------
PaginationRange(current, of) ==
  IF of <= MAX_PAGE_BUTTONS THEN Pages(1, of)
  ELSE LET left  == Greater(2, current - 2)
           right == Lesser(of - 1, current + 2)
       IN <<1>> \o (IF left > 2 THEN <<Dots>> ELSE <<>>)
            \o Pages(left, right) \o (IF right < of - 1 THEN <<Dots>> ELSE <<>>) \o <<of>>

\* The pages with a button, shown below a list of more than one page.
Buttons ==
  IF loading \/ shown = Nothing \/ total <= 1 THEN {}
  ELSE {PaginationRange(page, total)[i] : i \in DOMAIN PaginationRange(page, total)} \ {Dots}

Act ==
  \/ asks = {} /\ UNCHANGED hurries
  \/ asks # {} /\ hurries < MaxHurries /\ hurries' = hurries + 1

\* The effect that depends on the controls and the page.
Fetch(c, p) == loading' = TRUE /\ asks' = asks \cup {<<c, p>>}

-----------------------------------------------------------------------------
FirstPage(c) == page' = 1 /\ Fetch(c, 1)

Change(c) ==
  /\ Act
  /\ controls' = c
  /\ FirstPage(c)
  /\ UNCHANGED <<found, total, shown, failed>>

\* The search box and the order.
SearchBar(t) == t # controls.text /\ Change([controls EXCEPT !.text = t])

\* A category, or a field of the filter drawer.
FilterDrawer(f) == f # controls.filter /\ Change([controls EXCEPT !.filter = f])

\* clearFilters; setting an empty list of categories searches anew even if there
\* was no filter.
ClearFilters == Change([controls EXCEPT !.filter = NoFilter])

\* The buttons below the list: a page, the previous, the next.
Turn(p) ==
  /\ Act /\ Buttons # {} /\ p # page
  /\ \/ p \in Buttons
     \/ p = Greater(1, page - 1)
     \/ p = Lesser(total, page + 1)
  /\ page' = p
  /\ Fetch(controls, p)
  /\ UNCHANGED <<found, controls, total, shown, failed>>

\* What is not found leaves the list empty, with the total of the answer.
Answered(a) ==
  /\ a[1] \in Accepted
  /\ asks' = asks \ {a}
  /\ total' = found[a[1]]
  /\ shown' = IF a[2] <= found[a[1]] THEN a ELSE Nothing
  /\ loading' = FALSE /\ failed' = FALSE
  /\ UNCHANGED <<found, controls, page, hurries>>

\* An error empties the list and keeps the total.
Failed(a) ==
  /\ asks' = asks \ {a}
  /\ shown' = Nothing /\ loading' = FALSE /\ failed' = TRUE
  /\ UNCHANGED <<found, controls, page, total, hurries>>

-----------------------------------------------------------------------------
Init ==
  /\ found \in [Accepted -> Totals]
  /\ controls \in Controls
  /\ page = 1 /\ total = 0 /\ shown = Nothing /\ loading = TRUE
  /\ asks = {<<controls, 1>>}
  /\ failed = FALSE /\ hurries = 0

Next ==
  \/ \E t \in Texts : SearchBar(t)
  \/ \E f \in Filters : FilterDrawer(f)
  \/ ClearFilters
  \/ \E p \in 1..(total + 1) : Turn(p)
  \/ \E a \in asks : Answered(a) \/ Failed(a)

Spec == Init /\ [][Next]_vars

-----------------------------------------------------------------------------
(* Properties.                                                             *)

\* Every variable has its type.
TypeOK ==
  /\ found \in [Accepted -> Totals] /\ controls \in Controls
  /\ page \in Nat \ {0} /\ total \in Totals \cup {0}
  /\ shown = Nothing \/ shown \in Controls \X Nat
  /\ asks \subseteq Controls \X Nat /\ {failed, loading} \subseteq BOOLEAN /\ hurries \in 0..MaxHurries

\* With the answers in, the list is that of the controls and of the page, and it
\* is empty only if nothing is found: unless the user overtook an answer, for a
\* late one replaces the list and its buttons, or the last answer was an error,
\* for that shows as if nothing were found.
ResultsFitControls ==
  hurries = 0 /\ ~failed /\ asks = {} =>
    /\ shown # Nothing => shown = <<controls, page>>
    /\ shown = Nothing => controls \in Accepted /\ found[controls] = 0

\* Whatever the total, the buttons name the first, the last and the current
\* page, in order, with dots exactly where pages are left out.
ButtonsSpanPages ==
  total > 0 /\ page <= total =>
    LET r == PaginationRange(page, total) IN
      /\ r[1] = 1 /\ r[Len(r)] = total
      /\ \E i \in DOMAIN r : r[i] = page
      /\ \A i \in 1..(Len(r) - 1) :
           /\ r[i] # Dots /\ r[i + 1] # Dots => r[i + 1] = r[i] + 1
           /\ r[i + 1] = Dots => i + 2 <= Len(r) /\ r[i + 2] > r[i] + 1
=============================================================================
