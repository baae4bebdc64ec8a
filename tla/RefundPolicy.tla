---------------------------- MODULE RefundPolicy ----------------------------
(***************************************************************************)
(* What a cancellation promises to pay back: calculateRefund of the        *)
(* booking service, beside calculateRefundAmount of the payment service,   *)
(* which states the same policy in days and has no caller but its tests.   *)
(*                                                                         *)
(* The booking service counts the hours to the midnight (UTC) that begins  *)
(* the day of the booking, and not to the hour at which the experience     *)
(* starts.  A booking may be cancelled after its day, too.                 *)
(***************************************************************************)
EXTENDS Integers

CONSTANTS
  None,      \* nothing was answered yet
  Starts,    \* hours of the day at which experiences start
  MaxLeft,   \* bound: hours before the day at which a booking is made
  MinLeft    \* bound: hours (negative) after its beginning

VARIABLES
  policy,    \* the booking's copy of the experience's cancellation policy
  start,     \* the hour of the day in startTime
  left,      \* hours until the day of the booking begins
  answer     \* who cancelled, and the share promised

vars == <<policy, start, left, answer>>

Policies == {"flexible", "moderate", "strict"}
Roles    == {"traveler", "guide", "admin"}

cutoffHours == [flexible |-> 24, moderate |-> 7 * 24, strict |-> 14 * 24]
thresholds  == [flexible |-> 1, moderate |-> 7, strict |-> 14]

\* calculateRefund, a percentage.
calculateRefund(by) ==
  IF by = "guide" \/ left >= cutoffHours[policy] THEN 100 ELSE 50

\* calculateRefundAmount, as the percentage of any amount.
calculateRefundAmount(daysBefore) == IF daysBefore >= thresholds[policy] THEN 100 ELSE 50

Cancel(by) ==
  /\ answer = None
  /\ answer' = [by |-> by, refundPercentage |-> calculateRefund(by)]
  /\ UNCHANGED <<policy, start, left>>

\* An hour passes before the booking is cancelled.
Pass ==
  /\ answer = None /\ left > MinLeft
  /\ left' = left - 1
  /\ UNCHANGED <<policy, start, answer>>

Init ==
  /\ policy \in Policies /\ start \in Starts
  /\ left = MaxLeft /\ answer = None

Next == Pass \/ \E by \in Roles : Cancel(by)

Spec == Init /\ [][Next]_vars

-----------------------------------------------------------------------------
(* Properties.                                                             *)

\* Every variable has its type.
TypeOK ==
  /\ policy \in Policies /\ start \in Starts /\ left \in MinLeft..MaxLeft
  /\ answer = None \/ answer \in [by : Roles, refundPercentage : {50, 100}]

untilStart == left + start

\* A guide who cancels pays all back. A traveller gets all back only before the
\* deadline, counted to the start of the experience; and half only after it, or
\* earlier by the hour of the start: the service counts to midnight, so that a
\* start at nine moves the deadline nine hours forward. The payment service, told
\* whole days, says the same.
RefundKeepsDeadline ==
  answer # None =>
    /\ answer.by = "guide" => answer.refundPercentage = 100
    /\ answer.by # "guide" =>
         /\ answer.refundPercentage = 100 => untilStart >= cutoffHours[policy]
         /\ answer.refundPercentage = 50 => untilStart < cutoffHours[policy] + start
         /\ answer.refundPercentage = calculateRefundAmount(left \div 24)
=============================================================================
