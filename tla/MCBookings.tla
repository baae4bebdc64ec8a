----------------------------- MODULE MCBookings -----------------------------
(* Instances of Bookings for TLC. *)
EXTENDS Bookings, TLC

CONSTANTS c1, c2, c3

\* Create requests are interchangeable: Init ranges over all values of req
\* and target.
CreatorSymmetry == Permutations({c1, c2, c3} \cap Creators)
=============================================================================
