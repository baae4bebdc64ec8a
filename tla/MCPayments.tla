----------------------------- MODULE MCPayments -----------------------------
(* Instances of Payments for TLC. *)
EXTENDS Payments, TLC

CONSTANTS f1, f2

\* Refund requests are interchangeable when there is one payment to refund.
RefundSymmetry == Permutations({f1, f2} \cap Refunds)
=============================================================================
