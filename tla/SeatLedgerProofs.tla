-------------------------- MODULE SeatLedgerProofs --------------------------
(* The ledger keeps its books: the count of every slot is what its live    *)
(* bookings hold, for any number of slots, bookings and participants.      *)
EXTENDS SeatLedger, FiniteSetTheorems, TLAPS

\* A booking holds as many seats as it has participants.
LEMMA SeatsOfBooking ==
  ASSUME LedgerAssumption, LedgerTypeOK, NEW b \in Bookings
  PROVE  IsFiniteSet(Seats(b)) /\ Cardinality(Seats(b)) = want[b].party
<1> DEFINE p == want[b].party
<1>1. p \in Nat /\ p > 0
  BY DEF LedgerAssumption, LedgerTypeOK
<1> HIDE DEF p
<1>2. IsFiniteSet(1..p) /\ Cardinality(1..p) = p
  <2>1. 1 \in Int /\ p \in Int
    BY <1>1
  <2>2. IsFiniteSet(1..p) /\ Cardinality(1..p) = IF 1 > p THEN 0 ELSE p - 1 + 1
    BY <2>1, FS_Interval, Zenon
  <2> QED BY <1>1, <2>2
<1>3. IsFiniteSet({b}) /\ Cardinality({b}) = 1
  BY FS_Singleton
<1>4. /\ IsFiniteSet({b} \X (1..p))
      /\ Cardinality({b} \X (1..p)) = Cardinality({b}) * Cardinality(1..p)
  BY <1>2, <1>3, FS_Product, Zenon
<1>5. Cardinality({b} \X (1..p)) = p
  BY <1>1, <1>2, <1>3, <1>4
<1> QED BY <1>4, <1>5 DEF Seats, p

\* The seats sold on a slot are finitely many.
LEMMA SoldIsFinite ==
  ASSUME LedgerAssumption, LedgerTypeOK, NEW s \in Slots
  PROVE  IsFiniteSet(SeatsSold(s)) /\ Cardinality(SeatsSold(s)) \in Nat
<1>1. IsFiniteSet(1..MaxParty)
  BY FS_Interval DEF LedgerAssumption
<1>2. IsFiniteSet(Bookings \X (1..MaxParty))
  BY <1>1, FS_Product DEF LedgerAssumption
<1>3. SeatsSold(s) \subseteq Bookings \X (1..MaxParty)
  <2> SUFFICES ASSUME NEW b \in Bookings PROVE Seats(b) \subseteq Bookings \X (1..MaxParty)
    BY DEF SeatsSold, Holders
  <2>1. want[b].party \in 1..MaxParty
    BY DEF LedgerTypeOK
  <2>2. 1..want[b].party \subseteq 1..MaxParty
    BY <2>1 DEF LedgerAssumption
  <2> QED BY <2>2 DEF Seats
<1> QED BY <1>2, <1>3, FS_Subset, FS_CardinalityType

\* Selling b's seats on a slot where it held none adds its party to the seats
\* sold there.
LEMMA SellAddsParty ==
  ASSUME LedgerAssumption, LedgerTypeOK, NEW b \in Bookings, NEW H \in SUBSET Bookings, b \notin H,
         IsFiniteSet(UNION {Seats(h) : h \in H})
  PROVE  Cardinality(UNION {Seats(h) : h \in H \cup {b}})
           = Cardinality(UNION {Seats(h) : h \in H}) + want[b].party
<1> DEFINE Old == UNION {Seats(h) : h \in H}
<1>1. UNION {Seats(h) : h \in H \cup {b}} = Old \cup Seats(b)
  OBVIOUS
<1>2. Old \cap Seats(b) = {}
  BY DEF Seats
<1>3. IsFiniteSet(Seats(b)) /\ Cardinality(Seats(b)) = want[b].party
  BY SeatsOfBooking
<1>4. Cardinality(Old \cup Seats(b))
        = Cardinality(Old) + Cardinality(Seats(b)) - Cardinality(Old \cap Seats(b))
  BY <1>3, FS_Union
<1>5. Cardinality(Old \cap Seats(b)) = 0
  BY <1>2, FS_EmptySet
<1>6. Cardinality(Old) \in Nat /\ want[b].party \in Nat
  BY FS_CardinalityType DEF LedgerAssumption, LedgerTypeOK
<1>7. Cardinality(Old \cup Seats(b)) = Cardinality(Old) + want[b].party
  <2> HIDE DEF Old
  <2> QED BY <1>3, <1>4, <1>5, <1>6
<1> QED BY <1>1, <1>7, Zenon

LedgerInv == LedgerTypeOK /\ CountIsSeats

\* At the start no seat is sold.
LEMMA LedgerStarts == LedgerInit => LedgerInv
<1> SUFFICES ASSUME LedgerInit PROVE LedgerInv
  OBVIOUS
<1>1. \A s \in Slots : SeatsSold(s) = {}
  BY DEF LedgerInit, SeatsSold, Holders
<1> QED BY <1>1, FS_EmptySet DEF LedgerInit, LedgerInv, CountIsSeats

\* Booking, cancelling, completing and publishing keep the count right.
LEMMA LedgerStep ==
  ASSUME LedgerAssumption
  PROVE  LedgerInv /\ [LedgerNext]_ledgerVars => LedgerInv'
<1> SUFFICES ASSUME LedgerInv, [LedgerNext]_ledgerVars PROVE LedgerInv'
  OBVIOUS
<1> USE DEF LedgerInv, LedgerTypeOK
<1>t. \A b \in Bookings : /\ want[b].slot \in Slots
                          /\ want[b].party \in Nat /\ want[b].party > 0
  BY DEF LedgerAssumption
<1>1. ASSUME NEW b \in Bookings, Book(b) PROVE LedgerInv'
  <2> DEFINE s == want[b].slot
  <2>1. LedgerTypeOK'
    BY <1>1, <1>t DEF Book
  <2>2. ASSUME NEW r \in Slots, r # s PROVE SeatsSold(r)' = SeatsSold(r)
    BY <2>2, <1>1 DEF Book, SeatsSold, Holders, Seats
  <2>3. Cardinality(SeatsSold(s)') = Cardinality(SeatsSold(s)) + want[b].party
    <3>1. Holders(s)' = Holders(s) \cup {b} /\ b \notin Holders(s)
      BY <1>1, <1>t DEF Book, Holders
    <3>2. \A h \in Bookings : Seats(h)' = Seats(h)
      BY <1>1 DEF Book, Seats
    <3>3. SeatsSold(s)' = UNION {Seats(h) : h \in Holders(s) \cup {b}}
      BY <3>1, <3>2, <1>1 DEF SeatsSold, Book, Holders
    <3>4. IsFiniteSet(SeatsSold(s))
      BY <1>t, SoldIsFinite
    <3> QED BY <3>1, <3>3, <3>4, SellAddsParty DEF SeatsSold, Holders
  <2> QED BY <1>1, <1>t, <2>1, <2>2, <2>3 DEF Book, CountIsSeats
<1>2. ASSUME NEW b \in Bookings, Cancel(b) PROVE LedgerInv'
  <2> DEFINE s == want[b].slot
  <2>1. ASSUME NEW r \in Slots, r # s PROVE SeatsSold(r)' = SeatsSold(r)
    BY <2>1, <1>2 DEF Cancel, SeatsSold, Holders, Seats
  <2>2. /\ Cardinality(SeatsSold(s)) = Cardinality(SeatsSold(s)') + want[b].party
        /\ Cardinality(SeatsSold(s)') \in Nat
    <3> DEFINE Left == Holders(s) \ {b}
    <3>1. Holders(s)' = Left /\ Holders(s) = Left \cup {b}
      BY <1>2, <1>t DEF Cancel, Holders
    <3>2. \A h \in Bookings : Seats(h)' = Seats(h)
      BY <1>2 DEF Cancel, Seats
    <3>3. SeatsSold(s)' = UNION {Seats(h) : h \in Left}
      BY <3>1, <3>2, <1>2 DEF SeatsSold, Cancel, Holders
    <3>4. IsFiniteSet(SeatsSold(s)) /\ UNION {Seats(h) : h \in Left} \subseteq SeatsSold(s)
      BY <1>t, SoldIsFinite DEF SeatsSold
    <3>5. IsFiniteSet(UNION {Seats(h) : h \in Left})
      BY <3>4, FS_Subset
    <3>6. Left \in SUBSET Bookings /\ b \notin Left
      BY DEF Holders
    <3>7. Cardinality(UNION {Seats(h) : h \in Left \cup {b}})
            = Cardinality(UNION {Seats(h) : h \in Left}) + want[b].party
      BY <3>5, <3>6, SellAddsParty
    <3>8. SeatsSold(s) = UNION {Seats(h) : h \in Left \cup {b}}
      BY <3>1 DEF SeatsSold
    <3> QED BY <3>3, <3>5, <3>7, <3>8, FS_CardinalityType
  <2>3. booked[s] - want[b].party = Cardinality(SeatsSold(s)')
    BY <2>2, <1>t DEF CountIsSeats
  <2>4. LedgerTypeOK'
    BY <1>2, <1>t, <2>2, <2>3 DEF Cancel
  <2> QED BY <1>2, <1>t, <2>1, <2>3, <2>4 DEF Cancel, CountIsSeats
<1>3. ASSUME NEW b \in Bookings, Complete(b) PROVE LedgerInv'
  <2>1. \A s \in Slots : SeatsSold(s)' = SeatsSold(s)
    BY <1>3 DEF Complete, SeatsSold, Holders, Seats
  <2> QED BY <1>3, <2>1 DEF Complete, CountIsSeats
<1>4. ASSUME NEW s \in Slots, Publish(s) PROVE LedgerInv'
  <2>1. \A r \in Slots : SeatsSold(r)' = SeatsSold(r)
    BY <1>4 DEF Publish, SeatsSold, Holders, Seats
  <2> QED BY <1>4, <2>1 DEF Publish, CountIsSeats
<1>5. ASSUME UNCHANGED ledgerVars PROVE LedgerInv'
  <2>1. \A s \in Slots : SeatsSold(s)' = SeatsSold(s)
    BY <1>5 DEF ledgerVars, SeatsSold, Holders, Seats
  <2> QED BY <1>5, <2>1 DEF ledgerVars, CountIsSeats
<1> QED BY <1>1, <1>2, <1>3, <1>4, <1>5 DEF LedgerNext

\* A booking that holds seats is in the count of its slot.
LEMMA HeldIsCounted ==
  ASSUME LedgerAssumption, LedgerInv, NEW b \in Bookings, status[b] \in {"confirmed", "completed"}
  PROVE  want[b].party <= booked[want[b].slot]
<1> DEFINE s == want[b].slot
<1>1. s \in Slots /\ Seats(b) \subseteq SeatsSold(s)
  BY DEF LedgerInv, LedgerTypeOK, SeatsSold, Holders
<1>2. IsFiniteSet(SeatsSold(s)) /\ Cardinality(SeatsSold(s)) = booked[s]
  BY <1>1, SoldIsFinite DEF LedgerInv, CountIsSeats
<1>3. Cardinality(Seats(b)) <= Cardinality(SeatsSold(s))
  BY <1>1, <1>2, FS_Subset
<1>4. Cardinality(Seats(b)) = want[b].party
  BY SeatsOfBooking DEF LedgerInv
<1> QED BY <1>2, <1>3, <1>4

\* The count of a slot is the number of seats its live bookings hold.
THEOREM LedgerCounts ==
  ASSUME LedgerAssumption
  PROVE  LedgerSpec => []CountIsSeats
BY LedgerStarts, LedgerStep, PTL DEF LedgerSpec, LedgerInv
=============================================================================
