--------------------------- MODULE PaymentsProofs ---------------------------
(* Theorems of the payment service, for every value of the constants. *)
EXTENDS Payments, FiniteSetTheorems, TLAPS

\* Columns of two payment rows make a payment row.
LEMMA MergeIsRow ==
  ASSUME NEW r \in PaymentRow, NEW entity \in PaymentRow, NEW cols
  PROVE  Merge(r, entity, cols) \in PaymentRow
BY DEF Merge, PaymentRow

\* An entity with another status is a payment row.
LEMMA WithStatusIsRow ==
  ASSUME NEW entity \in PaymentRow, NEW s \in PaymentStatus
  PROVE  /\ WithStatus(entity, s) \in PaymentRow
         /\ Escrowed(entity) \in PaymentRow
         /\ WithGateway(entity) \in PaymentRow
BY DEF WithStatus, Escrowed, WithGateway, PaymentRow, PaymentStatus

\* A handler is about one payment.
LEMMA OfIsPayment ==
  ASSUME TypeOK, NEW h \in Handlers
  PROVE  Of(h) \in Payments
BY DEF Of, TypeOK, Handlers

-----------------------------------------------------------------------------
(* Type correctness.                                                       *)

\* The initial tables, Stripe and handlers have their types.
LEMMA TypeOKStarts == Init => TypeOK
BY BoundsAssumption DEF Init, TypeOK, PaymentRow, NoRow, Labels

\* Every step of every handler keeps the types.
LEMMA TypeOKStep == TypeOK /\ [Next]_vars => TypeOK'
<1> SUFFICES ASSUME TypeOK, [Next]_vars PROVE TypeOK'
  OBVIOUS
<1> DEFINE
      RowOK    == row' \in [Payments -> PaymentRow]
      LogOK    == log' \in [Payments -> [PaymentStatus -> Nat]]
      StripeOK == /\ intent' \in [Payments -> {"none", "action", "unsettled", "charged", "declined"}]
                  /\ refunds' \in [Payments -> 0..Whole]
                  /\ events' \in [Payments -> SUBSET {"succeeded", "payment_failed", "refunded"}]
      PcOK     == pc' \in [Handlers -> Labels] /\ then' \in [Handlers -> Labels]
      MemOK    == mem' \in [Handlers -> PaymentRow] /\ dirty' \in [Handlers -> SUBSET Columns]
<1>h. /\ Payments \subseteq Handlers /\ Confirms \subseteq Handlers /\ Escrows \subseteq Handlers
      /\ Releases \subseteq Handlers /\ Crons \subseteq Handlers /\ Refunds \subseteq Handlers
      /\ Receipts \subseteq Handlers /\ Admins \subseteq Handlers /\ Hooks \subseteq Handlers
  BY DEF Handlers, Requests
<1>t. /\ row \in [Payments -> PaymentRow] /\ mem \in [Handlers -> PaymentRow]
      /\ log \in [Payments -> [PaymentStatus -> Nat]]
      /\ pc \in [Handlers -> Labels] /\ then \in [Handlers -> Labels]
      /\ dirty \in [Handlers -> SUBSET Columns] /\ target \in [Requests -> Payments]
  BY DEF TypeOK
<1>s. UNCHANGED stripe => StripeOK
  BY DEF TypeOK, stripe
<1>stripe. /\ intent \in [Payments -> {"none", "action", "unsettled", "charged", "declined"}]
           /\ refunds \in [Payments -> 0..Whole]
           /\ events \in [Payments -> SUBSET {"succeeded", "payment_failed", "refunded"}]
  BY DEF TypeOK
<1>o. \A h \in Handlers : Of(h) \in Payments /\ row[Of(h)] \in PaymentRow
  BY <1>t, OfIsPayment
<1>e. \A h \in Handlers : End(h) \in Labels
  BY DEF End, Labels
<1>save. ASSUME NEW h \in Handlers, NEW entity \in PaymentRow, NEW label \in Labels,
                Save(h, entity, label), dirty' = dirty
         PROVE  PcOK /\ MemOK
  BY <1>save, <1>t DEF Save, Goto, Labels
<1>log. ASSUME NEW h \in Handlers, NEW s \in PaymentStatus, Log(h, s) PROVE LogOK
  <2>1. [log[Of(h)] EXCEPT ![s] = log[Of(h)][s] + 1] \in [PaymentStatus -> Nat]
    BY <1>t, <1>o
  <2> QED BY <1>log, <1>t, <1>o, <2>1 DEF Log
<1>all. ASSUME RowOK, LogOK, StripeOK, PcOK, MemOK, target' = target PROVE TypeOK'
  BY <1>all, <1>t DEF TypeOK
<1>answer. ASSUME NEW p \in Payments, NEW outcome \in Outcomes, StripeAnswers(p, outcome),
                  refunds' = refunds
           PROVE  StripeOK
  <2>1. outcome \in {"none", "action", "unsettled", "charged", "declined"}
    BY BoundsAssumption
  <2> QED BY <1>answer, <1>stripe, <2>1 DEF StripeAnswers, StripeOK
<1>refund. ASSUME NEW p \in Payments, StripeRefunds(p), intent' = intent PROVE StripeOK
  <2>1. PICK n \in 1..(Whole - refunds[p]) : refunds' = [refunds EXCEPT ![p] = refunds[p] + n]
    BY <1>refund DEF StripeRefunds
  <2>2. refunds[p] \in 0..Whole
    BY <1>stripe
  <2>3. refunds[p] + n \in 0..Whole
    BY <2>2, BoundsAssumption
  <2>4. refunds' \in [Payments -> 0..Whole]
    BY <1>stripe, <2>1, <2>3
  <2> QED BY <1>refund, <1>stripe, <2>4 DEF StripeRefunds, StripeOK
<1> HIDE DEF RowOK, LogOK, StripeOK, PcOK, MemOK
<1>1. ASSUME NEW h \in Handlers, SaveSelect(h) PROVE TypeOK'
  <2>1. PcOK /\ MemOK
    BY <1>1, <1>t DEF SaveSelect, Goto, Labels, Changed, PcOK, MemOK
  <2>2. RowOK /\ LogOK
    BY <1>1, <1>t DEF SaveSelect, RowOK, LogOK
  <2> QED BY <1>1, <2>1, <2>2, <1>s, <1>all DEF SaveSelect
<1>2. ASSUME NEW h \in Handlers, SaveUpdate(h) PROVE TypeOK'
  <2>1. PcOK /\ MemOK
    BY <1>2, <1>t DEF SaveUpdate, Goto, PcOK, MemOK
  <2>2. Merge(row[Of(h)], mem[h], dirty[h]) \in PaymentRow
    BY <1>t, <1>o, MergeIsRow
  <2>3. RowOK /\ LogOK
    BY <1>2, <1>t, <2>2 DEF SaveUpdate, RowOK, LogOK
  <2> QED BY <1>2, <2>1, <2>3, <1>s, <1>all DEF SaveUpdate
<1>3. ASSUME NEW p \in Payments, ProcessInsert(p) PROVE TypeOK'
  <2>1. PendingRow \in PaymentRow
    BY DEF PendingRow, PaymentRow, PaymentStatus
  <2>2. RowOK /\ LogOK /\ PcOK /\ MemOK
    BY <1>3, <1>t, <1>h, <2>1 DEF ProcessInsert, Goto, Labels, RowOK, LogOK, PcOK, MemOK
  <2> QED BY <1>3, <2>2, <1>s, <1>all DEF ProcessInsert
<1>4. ASSUME NEW p \in Payments, ProcessIntent(p) PROVE TypeOK'
  <2>1. RowOK /\ LogOK /\ PcOK /\ target' = target
    BY <1>4, <1>t, <1>h DEF ProcessIntent, Goto, Labels, RowOK, LogOK, PcOK
  <2>2. MemOK
    <3>1. WithGateway(mem[p]) \in PaymentRow
      BY <1>t, <1>h, WithStatusIsRow DEF PaymentStatus
    <3> QED BY <1>4, <1>t, <3>1 DEF ProcessIntent, MemOK
  <2>3. StripeOK
    BY <1>4, <1>answer DEF ProcessIntent
  <2> QED BY <2>1, <2>2, <2>3, <1>all
<1>5. ASSUME NEW p \in Payments, ProcessDeclined(p) PROVE TypeOK'
  <2>1. RowOK /\ LogOK /\ PcOK /\ MemOK /\ target' = target
    BY <1>5, <1>t, <1>h DEF ProcessDeclined, Goto, Labels, RowOK, LogOK, PcOK, MemOK
  <2>2. StripeOK
    BY <1>5 DEF ProcessDeclined, TypeOK, StripeOK
  <2> QED BY <2>1, <2>2, <1>all
<1>6. ASSUME NEW h \in Payments, ProcessAuthorize(h) PROVE TypeOK'
  <2>1. LogOK
    BY <1>6, <1>h, <1>log DEF ProcessAuthorize, PaymentStatus
  <2>2. PcOK /\ MemOK
    BY <1>6, <1>h, <1>t, <1>save, WithStatusIsRow DEF ProcessAuthorize, PaymentStatus, Labels
  <2> QED BY <1>6, <1>t, <2>1, <2>2, <1>s, <1>all DEF ProcessAuthorize, RowOK
<1>7. ASSUME NEW h \in Handlers, Capture(h) PROVE TypeOK'
  <2>1. LogOK
    BY <1>7, <1>log DEF Capture, PaymentStatus
  <2>2. PcOK /\ MemOK
    BY <1>7, <1>t, <1>save, WithStatusIsRow DEF Capture, PaymentStatus, Labels
  <2> QED BY <1>7, <1>t, <2>1, <2>2, <1>s, <1>all DEF Capture, RowOK
<1>8. ASSUME NEW h \in Handlers, Escrow(h) PROVE TypeOK'
  <2>1. Escrowed(mem[h]) \in PaymentRow
    BY <1>t, WithStatusIsRow DEF PaymentStatus
  <2>2. PcOK /\ MemOK
    BY <1>8, <2>1, <1>save DEF Escrow, Labels
  <2> QED BY <1>8, <1>t, <2>2, <1>s, <1>all DEF Escrow, RowOK, LogOK
<1>9. ASSUME NEW h \in Handlers, LogEscrow(h) PROVE TypeOK'
  <2>1. LogOK
    BY <1>9, <1>log DEF LogEscrow, PaymentStatus
  <2>2. CASE h \in Payments
    <3>1. PcOK /\ MemOK
      BY <1>9, <2>2, <1>t, <1>save DEF LogEscrow, Labels
    <3> QED BY <1>9, <1>t, <2>1, <3>1, <1>s, <1>all DEF LogEscrow, RowOK
  <2>3. CASE h \notin Payments
    <3>1. PcOK /\ MemOK
      BY <1>9, <2>3, <1>t DEF LogEscrow, Goto, Labels, PcOK, MemOK
    <3> QED BY <1>9, <1>t, <2>1, <3>1, <1>s, <1>all DEF LogEscrow, RowOK
  <2> QED BY <2>2, <2>3
<1>10. ASSUME NEW h \in Handlers, Fail(h) PROVE TypeOK'
  <2>1. PcOK /\ MemOK
    BY <1>10, <1>t, <1>save, WithStatusIsRow DEF Fail, PaymentStatus, Labels
  <2> QED BY <1>10, <1>t, <2>1, <1>s, <1>all DEF Fail, RowOK, LogOK
<1>11. ASSUME NEW h \in Handlers, LogFail(h) \/ LogRelease(h) \/ LogRefund(h) PROVE TypeOK'
  <2>1. LogOK
    BY <1>11, <1>log DEF LogFail, LogRelease, LogRefund, PaymentStatus
  <2>2. PcOK /\ MemOK
    BY <1>11, <1>t, <1>e DEF LogFail, LogRelease, LogRefund, Goto, Labels, PcOK, MemOK
  <2> QED BY <1>11, <1>t, <2>1, <2>2, <1>s, <1>all DEF LogFail, LogRelease, LogRefund, RowOK
<1>12. ASSUME NEW h \in Handlers,
              \/ ConfirmRead(h) \/ ConfirmRefused(h) \/ EscrowRead(h) \/ CronFind(h)
              \/ RefundRead(h) \/ RefundRefused(h) \/ AdminRead(h)
       PROVE  TypeOK'
  <2>1. PcOK /\ MemOK
    BY <1>12, <1>t, <1>o DEF ConfirmRead, ConfirmRefused, EscrowRead, CronFind, RefundRead,
       RefundRefused, AdminRead, Goto, Labels, PcOK, MemOK
  <2> QED BY <1>12, <1>t, <2>1, <1>s, <1>all DEF ConfirmRead, ConfirmRefused, EscrowRead,
         CronFind, RefundRead, RefundRefused, AdminRead, RowOK, LogOK
<1>13. ASSUME NEW h \in Handlers, ConfirmIntent(h) \/ LostConfirm(h) PROVE TypeOK'
  <2>1. RowOK /\ LogOK /\ PcOK /\ MemOK /\ target' = target
    BY <1>13, <1>t DEF ConfirmIntent, LostConfirm, Goto, Labels, RowOK, LogOK, PcOK, MemOK
  <2>2. StripeOK
    BY <1>13, <1>o, <1>answer DEF ConfirmIntent, LostConfirm
  <2> QED BY <2>1, <2>2, <1>all
<1>lost. ASSUME NEW p \in Payments, LostProcess(p) PROVE TypeOK'
  <2>1. RowOK /\ LogOK /\ PcOK /\ MemOK /\ target' = target
    BY <1>lost, <1>t DEF LostProcess, Goto, Labels, RowOK, LogOK, PcOK, MemOK
  <2>2. StripeOK
    BY <1>lost, <1>answer DEF LostProcess
  <2> QED BY <2>1, <2>2, <1>all
<1>14. ASSUME NEW h \in Handlers, ReleaseRead(h) PROVE TypeOK'
  <2>1. CASE IsValidPaymentTransition(row[Of(h)].status, "released")
    <3>1. PcOK /\ MemOK
      BY <1>14, <2>1, <1>o, <1>save, WithStatusIsRow DEF ReleaseRead, PaymentStatus, Labels
    <3> QED BY <1>14, <1>t, <3>1, <1>s, <1>all DEF ReleaseRead, RowOK, LogOK
  <2>2. CASE ~IsValidPaymentTransition(row[Of(h)].status, "released")
    <3>1. PcOK /\ MemOK
      BY <1>14, <2>2, <1>t, <1>e DEF ReleaseRead, Goto, PcOK, MemOK
    <3> QED BY <1>14, <1>t, <3>1, <1>s, <1>all DEF ReleaseRead, RowOK, LogOK
  <2> QED BY <2>1, <2>2
<1>15. ASSUME NEW h \in Handlers, RefundStripe(h) \/ LostRefund(h) PROVE TypeOK'
  <2>1. PcOK /\ MemOK
    <3>1. CASE RefundStripe(h)
      BY <3>1, <1>t, <1>save, WithStatusIsRow DEF RefundStripe, PaymentStatus, Labels
    <3>2. CASE LostRefund(h)
      BY <3>2, <1>t DEF LostRefund, Goto, Labels, PcOK, MemOK
    <3> QED BY <1>15, <3>1, <3>2
  <2>2. StripeOK
    BY <1>15, <1>o, <1>refund DEF RefundStripe, LostRefund
  <2> QED BY <1>15, <1>t, <2>1, <2>2, <1>all DEF RefundStripe, LostRefund, RowOK, LogOK
<1>16. ASSUME NEW h \in Receipts, ReceiptRead(h) PROVE TypeOK'
  <2>1. PcOK /\ MemOK
    BY <1>16, <1>h, <1>o, <1>save DEF ReceiptRead, Labels
  <2> QED BY <1>16, <1>t, <2>1, <1>s, <1>all DEF ReceiptRead, RowOK, LogOK
<1>17. ASSUME NEW h \in Admins, AdminUpdate(h) PROVE TypeOK'
  <2>1. WithStatus(row[Of(h)], "refunded") \in PaymentRow
    BY <1>h, <1>o, WithStatusIsRow DEF PaymentStatus
  <2>2. RowOK /\ LogOK /\ PcOK /\ MemOK
    BY <1>17, <1>t, <2>1 DEF AdminUpdate, Goto, Labels, RowOK, LogOK, PcOK, MemOK
  <2> QED BY <1>17, <2>2, <1>s, <1>all DEF AdminUpdate
<1>18. ASSUME NEW h \in Hooks, HookRead(h) PROVE TypeOK'
  <2>1. \A e \in events[Of(h)] : WithStatus(row[Of(h)], EventStatus(e)) \in PaymentRow
    <3>1. events[Of(h)] \subseteq {"succeeded", "payment_failed", "refunded"}
      BY <1>h, <1>o DEF TypeOK
    <3>2. \A e \in events[Of(h)] : EventStatus(e) \in PaymentStatus
      BY <3>1 DEF EventStatus, PaymentStatus
    <3> QED BY <3>2, <1>h, <1>o, WithStatusIsRow
  <2>2. PICK e \in events[Of(h)] :
          IF row[Of(h)].gateway
          THEN Save(h, WithStatus(row[Of(h)], EventStatus(e)), "done")
          ELSE Goto(h, "done") /\ UNCHANGED <<then, mem>>
    BY <1>18 DEF HookRead
  <2>3. CASE row[Of(h)].gateway
    <3>1. PcOK /\ MemOK
      BY <1>18, <2>1, <2>2, <2>3, <1>h, <1>save DEF HookRead, Labels
    <3> QED BY <1>18, <1>t, <3>1, <1>s, <1>all DEF HookRead, RowOK, LogOK
  <2>4. CASE ~row[Of(h)].gateway
    <3>1. PcOK /\ MemOK
      BY <1>18, <2>2, <2>4, <1>t DEF HookRead, Goto, Labels, PcOK, MemOK
    <3> QED BY <1>18, <1>t, <3>1, <1>s, <1>all DEF HookRead, RowOK, LogOK
  <2> QED BY <2>3, <2>4
<1>19. ASSUME NEW p \in Payments, StripeSettle(p) PROVE TypeOK'
  <2>1. RowOK /\ LogOK /\ PcOK /\ MemOK /\ target' = target
    BY <1>19, <1>t DEF StripeSettle, RowOK, LogOK, PcOK, MemOK
  <2>2. StripeOK
    BY <1>19, <1>stripe DEF StripeSettle, StripeOK
  <2> QED BY <2>1, <2>2, <1>all
<1>20. ASSUME NEW h \in Handlers, Throw(h) \/ Die(h) PROVE TypeOK'
  <2>1. PcOK /\ MemOK
    BY <1>20, <1>t, <1>e DEF Throw, Die, Goto, Labels, PcOK, MemOK
  <2> QED BY <1>20, <1>t, <2>1, <1>s, <1>all DEF Throw, Die, RowOK, LogOK
<1>21. ASSUME UNCHANGED vars PROVE TypeOK'
  BY <1>21 DEF vars, TypeOK
<1> QED
  BY <1>1, <1>2, <1>3, <1>4, <1>5, <1>6, <1>7, <1>8, <1>9, <1>10, <1>11, <1>12, <1>13, <1>14,
     <1>15, <1>16, <1>17, <1>18, <1>19, <1>20, <1>21, <1>lost, <1>h
     DEF Next, SaveStep, ProcessStep, CaptureStep, ConfirmStep, RefundStep, CronStep

\* The tables, Stripe and the handlers keep their types.
THEOREM TypeCorrect == Spec => []TypeOK
BY TypeOKStarts, TypeOKStep, PTL DEF Spec
-----------------------------------------------------------------------------
(* A refunded status is Stripe's: nothing but refundPayment and Stripe's own *)
(* event brings it into memory, whatever is saved over what.               *)

RefundedRow    == \A p \in Payments : row[p].status = "refunded" => refunds[p] > 0
RefundedMem    == \A h \in Handlers : mem[h].status = "refunded" => refunds[Of(h)] > 0
RefundedEvents == \A p \in Payments : "refunded" \in events[p] => refunds[p] > 0
RefundInv == RefundedRow /\ RefundedMem /\ RefundedEvents

\* Nothing is refunded at first.
LEMMA RefundInvStarts == Init => RefundInv
BY DEF Init, RefundInv, RefundedRow, RefundedMem, RefundedEvents, NoRow

\* A handler that takes an entity into memory keeps RefundInv if the entity does.
LEMMA RefundInvEntity ==
  ASSUME TypeOK, RefundInv, NEW h \in Handlers, NEW entity,
         entity.status = "refunded" => refunds[Of(h)] > 0,
         mem' = [mem EXCEPT ![h] = entity], UNCHANGED <<row, refunds, events, target>>
  PROVE  RefundInv'
BY DEF TypeOK, RefundInv, RefundedRow, RefundedMem, RefundedEvents, Of

\* Every step keeps RefundInv, when the administrator's refund is not used.
LEMMA RefundInvStep ==
  ASSUME Admins = {}
  PROVE  TypeOK /\ RefundInv /\ [Next]_vars => RefundInv'
<1> SUFFICES ASSUME TypeOK, RefundInv, [Next]_vars PROVE RefundInv'
  OBVIOUS
<1>h. /\ Payments \subseteq Handlers /\ Confirms \subseteq Handlers /\ Escrows \subseteq Handlers
      /\ Releases \subseteq Handlers /\ Crons \subseteq Handlers /\ Refunds \subseteq Handlers
      /\ Receipts \subseteq Handlers /\ Hooks \subseteq Handlers
  BY DEF Handlers, Requests
<1>t. /\ mem \in [Handlers -> PaymentRow] /\ row \in [Payments -> PaymentRow]
      /\ refunds \in [Payments -> 0..Whole]
      /\ events \in [Payments -> SUBSET {"succeeded", "payment_failed", "refunded"}]
  BY DEF TypeOK
<1>o. \A h \in Handlers : Of(h) \in Payments
  BY OfIsPayment
<1>r. \A h \in Handlers : row[Of(h)].status = "refunded" => refunds[Of(h)] > 0
  BY <1>o DEF RefundInv, RefundedRow
<1>m. \A h \in Handlers : mem[h].status = "refunded" => refunds[Of(h)] > 0
  BY DEF RefundInv, RefundedMem
<1>ev. \A h \in Handlers : "refunded" \in events[Of(h)] => refunds[Of(h)] > 0
  BY <1>o DEF RefundInv, RefundedEvents
<1>same. ASSUME UNCHANGED <<row, refunds, events, target, mem>> PROVE RefundInv'
  BY <1>same DEF RefundInv, RefundedRow, RefundedMem, RefundedEvents, Of
<1>1. ASSUME NEW h \in Handlers, SaveUpdate(h) PROVE RefundInv'
  <2>1. Merge(row[Of(h)], mem[h], dirty[h]).status \in {row[Of(h)].status, mem[h].status}
    BY DEF Merge
  <2> QED BY <1>1, <1>t, <1>o, <1>r, <1>m, <2>1
         DEF SaveUpdate, stripe, RefundInv, RefundedRow, RefundedMem, RefundedEvents, Of
<1>2. ASSUME NEW p \in Payments, ProcessInsert(p) PROVE RefundInv'
  BY <1>2, <1>t, <1>h DEF ProcessInsert, PendingRow, stripe, RefundInv, RefundedRow,
     RefundedMem, RefundedEvents, Of
<1>3. ASSUME NEW p \in Payments, ProcessIntent(p) PROVE RefundInv'
  <2>1. WithGateway(mem[p]).status = mem[p].status
    BY DEF WithGateway
  <2>2. \A q \in Payments : "refunded" \in events'[q] => "refunded" \in events[q]
    BY <1>3, <1>t DEF ProcessIntent, StripeAnswers
  <2> QED BY <1>3, <1>t, <1>h, <2>1, <2>2 DEF ProcessIntent, RefundInv, RefundedRow,
         RefundedMem, RefundedEvents, Of
<1>4. ASSUME NEW p \in Payments, ProcessDeclined(p) \/ StripeSettle(p) \/ LostProcess(p)
      PROVE  RefundInv'
  <2>1. \A q \in Payments : "refunded" \in events'[q] => "refunded" \in events[q]
    BY <1>4, <1>t DEF ProcessDeclined, StripeSettle, LostProcess, StripeAnswers
  <2> QED BY <1>4, <2>1 DEF ProcessDeclined, StripeSettle, LostProcess, RefundInv, RefundedRow,
         RefundedMem, RefundedEvents, Of
<1>5. ASSUME NEW h \in Handlers, ProcessAuthorize(h) \/ Capture(h) \/ Escrow(h) \/ Fail(h)
      PROVE  RefundInv'
  <2>1. PICK entity : /\ entity.status # "refunded"
                      /\ mem' = [mem EXCEPT ![h] = entity]
                      /\ UNCHANGED <<row, refunds, events, target>>
    BY <1>5 DEF ProcessAuthorize, Capture, Escrow, Fail, Save, WithStatus, Escrowed, stripe
  <2> QED BY <2>1, RefundInvEntity
<1>6. ASSUME NEW h \in Handlers, LogEscrow(h) PROVE RefundInv'
  <2>1. mem' = mem
    BY <1>6, <1>t DEF LogEscrow, Save
  <2> QED BY <1>6, <2>1, <1>same DEF LogEscrow, stripe
<1>7. ASSUME NEW h \in Handlers,
             \/ ConfirmRead(h) \/ EscrowRead(h) \/ RefundRead(h) \/ ReceiptRead(h)
             \/ ReleaseRead(h)
      PROVE  RefundInv'
  <2>1. CASE mem' = mem
    BY <1>7, <2>1, <1>same DEF ConfirmRead, EscrowRead, RefundRead, ReceiptRead, ReleaseRead,
       stripe
  <2>2. CASE mem' # mem
    <3>1. PICK entity : /\ entity.status = "refunded" => refunds[Of(h)] > 0
                        /\ mem' = [mem EXCEPT ![h] = entity]
                        /\ UNCHANGED <<row, refunds, events, target>>
      BY <1>7, <2>2, <1>r DEF ConfirmRead, EscrowRead, RefundRead, ReceiptRead, ReleaseRead,
         Save, WithStatus, stripe
    <3> QED BY <3>1, RefundInvEntity
  <2> QED BY <2>1, <2>2
<1>8. ASSUME NEW h \in Handlers, HookRead(h) PROVE RefundInv'
  <2>1. PICK e \in events[Of(h)] :
          IF row[Of(h)].gateway
          THEN Save(h, WithStatus(row[Of(h)], EventStatus(e)), "done")
          ELSE Goto(h, "done") /\ UNCHANGED <<then, mem>>
    BY <1>8 DEF HookRead
  <2>2. UNCHANGED <<row, refunds, events, target>>
    BY <1>8 DEF HookRead, stripe
  <2>3. CASE row[Of(h)].gateway
    <3>1. e \in {"succeeded", "payment_failed", "refunded"}
      BY <1>o, <1>t
    <3>2. EventStatus(e) = "refunded" => refunds[Of(h)] > 0
      BY <3>1, <1>ev DEF EventStatus
    <3>3. WithStatus(row[Of(h)], EventStatus(e)).status = EventStatus(e)
      BY DEF WithStatus
    <3> QED BY <2>1, <2>2, <2>3, <3>2, <3>3, RefundInvEntity DEF Save
  <2>4. CASE ~row[Of(h)].gateway
    BY <2>1, <2>2, <2>4, <1>same
  <2> QED BY <2>3, <2>4
<1>9. ASSUME NEW h \in Handlers, ConfirmIntent(h) \/ LostConfirm(h) PROVE RefundInv'
  <2>1. \A q \in Payments : "refunded" \in events'[q] => "refunded" \in events[q]
    BY <1>9, <1>t, <1>o DEF ConfirmIntent, LostConfirm, StripeAnswers
  <2> QED BY <1>9, <2>1 DEF ConfirmIntent, LostConfirm, RefundInv, RefundedRow, RefundedMem,
         RefundedEvents, Of
<1>10. ASSUME NEW h \in Handlers, RefundStripe(h) \/ LostRefund(h) PROVE RefundInv'
  <2>1. PICK n \in 1..(Whole - refunds[Of(h)]) :
          refunds' = [refunds EXCEPT ![Of(h)] = refunds[Of(h)] + n]
    BY <1>10 DEF RefundStripe, LostRefund, StripeRefunds
  <2>2. refunds'[Of(h)] > 0 /\ \A q \in Payments : refunds[q] > 0 => refunds'[q] > 0
    BY <1>t, <1>o, <2>1, BoundsAssumption
  <2>3. \A q \in Payments : q # Of(h) => events'[q] = events[q]
    BY <1>10, <1>t DEF RefundStripe, LostRefund, StripeRefunds
  <2>4. \A g \in Handlers : g # h => mem'[g] = mem[g]
    BY <1>10, <1>t DEF RefundStripe, LostRefund, Save
  <2>5. row' = row /\ target' = target
    BY <1>10 DEF RefundStripe, LostRefund
  <2>6. RefundedRow'
    BY <2>2, <2>5 DEF RefundInv, RefundedRow
  <2>7. RefundedEvents'
    BY <2>2, <2>3 DEF RefundInv, RefundedEvents
  <2>8. RefundedMem'
    BY <2>2, <2>4, <2>5, <1>m, <1>o DEF RefundedMem, Of
  <2> QED BY <2>6, <2>7, <2>8 DEF RefundInv
<1>11. ASSUME NEW h \in Handlers,
              \/ SaveSelect(h) \/ LogFail(h) \/ ConfirmRefused(h) \/ CronFind(h)
              \/ LogRelease(h) \/ RefundRefused(h) \/ LogRefund(h) \/ Throw(h) \/ Die(h)
       PROVE  RefundInv'
  BY <1>11, <1>same DEF SaveSelect, LogFail, ConfirmRefused, CronFind, LogRelease,
     RefundRefused, LogRefund, Throw, Die, stripe
<1>12. ASSUME UNCHANGED vars PROVE RefundInv'
  BY <1>12, <1>same DEF vars
<1> QED
  BY <1>1, <1>2, <1>3, <1>4, <1>5, <1>6, <1>7, <1>8, <1>9, <1>10, <1>11, <1>12, <1>h
     DEF Next, SaveStep, ProcessStep, CaptureStep, ConfirmStep, RefundStep, CronStep

\* While administrators do not write the status themselves, a payment is called
\* refunded only if Stripe has refunded some of it.
THEOREM RefundsAreReal ==
  ASSUME Admins = {}
  PROVE  Spec => []RefundIsReal
<1>1. RefundInv => RefundIsReal
  BY DEF RefundInv, RefundedRow, RefundIsReal
<1> QED BY <1>1, TypeCorrect, RefundInvStarts, RefundInvStep, PTL DEF Spec
-----------------------------------------------------------------------------
(* Money in escrow has been charged, when Stripe answers every confirmation  *)
(* with a charge, a redirect or a refusal.  The row alone says too little:   *)
(* the entities in memory and the events under way may be saved any time     *)
(* later, and a handler about to capture has no charge in its row yet.       *)

Held == {"captured", "escrowed", "released"}
MoneyRow    == \A p \in Payments : row[p].status \in Held => intent[p] = "charged"
MoneyMem    == \A h \in Handlers : mem[h].status \in Held => intent[Of(h)] = "charged"
MoneyEvents == \A p \in Payments : "succeeded" \in events[p] => intent[p] = "charged"
Capturing(h) == \/ pc[h] \in {"authorize", "capture", "escrow"}
                \/ pc[h] \in {"select", "update"} /\ then[h] \in {"authorize", "capture", "escrow"}
MoneyPc  == \A h \in Handlers : Capturing(h) => intent[Of(h)] = "charged"
MoneyNew == \A p \in Payments : /\ pc[p] \in {"idle", "intent"} => intent[p] = "none"
                                /\ then[p] \notin {"idle", "intent"}
MoneyInv == MoneyRow /\ MoneyMem /\ MoneyEvents /\ MoneyPc /\ MoneyNew

\* Nothing is charged at first.
LEMMA MoneyInvStarts == Init => MoneyInv
BY DEF Init, MoneyInv, MoneyRow, MoneyMem, MoneyEvents, MoneyPc, MoneyNew, Capturing, Held,
   NoRow, Handlers

\* A handler that goes on without Stripe keeps MoneyInv, if the entity it now
\* holds and the place it is at call for no charge that has not been made.
LEMMA MoneyInvHandler ==
  ASSUME TypeOK, MoneyInv, NEW h \in Handlers,
         mem' = [mem EXCEPT ![h] = mem'[h]], then' = [then EXCEPT ![h] = then'[h]],
         pc' = [pc EXCEPT ![h] = pc'[h]],
         mem'[h].status \in Held => intent[Of(h)] = "charged",
         Capturing(h)' => intent[Of(h)] = "charged",
         h \in Payments => pc'[h] \notin {"idle", "intent"} /\ then'[h] \notin {"idle", "intent"},
         \A q \in Payments : "succeeded" \in events'[q] => "succeeded" \in events[q],
         UNCHANGED <<row, intent, target>>
  PROVE  MoneyInv'
<1>t. /\ mem \in [Handlers -> PaymentRow] /\ pc \in [Handlers -> Labels]
      /\ then \in [Handlers -> Labels] /\ Payments \subseteq Handlers
  BY DEF TypeOK, Handlers
<1>1. \A g \in Handlers \ {h} : mem'[g] = mem[g] /\ pc'[g] = pc[g] /\ then'[g] = then[g]
  BY <1>t
<1>2. MoneyRow' /\ MoneyEvents'
  BY DEF MoneyInv, MoneyRow, MoneyEvents
<1>3. MoneyMem'
  BY <1>1 DEF MoneyInv, MoneyMem, Of
<1>4. MoneyPc'
  BY <1>1 DEF MoneyInv, MoneyPc, Capturing, Of
<1>5. MoneyNew'
  BY <1>1, <1>t DEF MoneyInv, MoneyNew
<1> QED BY <1>2, <1>3, <1>4, <1>5 DEF MoneyInv

\* A step of Stripe on payment p by which nothing charged stops being so keeps
\* MoneyInv, if a "succeeded" event comes with a charge and the handler that
\* asked, if any, goes on to capture only after a charge.
LEMMA MoneyInvStripe ==
  ASSUME TypeOK, MoneyInv, NEW p \in Payments, intent[p] # "charged",
         intent' = [intent EXCEPT ![p] = intent'[p]], events' = [events EXCEPT ![p] = events'[p]],
         "succeeded" \in events'[p] => intent'[p] = "charged",
         NEW h \in Handlers, Of(h) = p, pc' = [pc EXCEPT ![h] = pc'[h]],
         mem' = [mem EXCEPT ![h] = mem'[h]], mem'[h].status = mem[h].status,
         Capturing(h)' => intent'[p] = "charged",
         pc'[p] \notin {"idle", "intent"},
         UNCHANGED <<row, then, target>>
  PROVE  MoneyInv'
<1>t. /\ mem \in [Handlers -> PaymentRow] /\ pc \in [Handlers -> Labels]
      /\ intent \in [Payments -> {"none", "action", "unsettled", "charged", "declined"}]
      /\ events \in [Payments -> SUBSET {"succeeded", "payment_failed", "refunded"}]
      /\ Payments \subseteq Handlers
  BY DEF TypeOK, Handlers
<1>1. /\ \A g \in Handlers \ {h} : mem'[g] = mem[g] /\ pc'[g] = pc[g]
      /\ \A q \in Payments \ {p} : intent'[q] = intent[q] /\ events'[q] = events[q]
  BY <1>t
<1>o. /\ \A g \in Handlers : Of(g) \in Payments
      /\ \A g \in Handlers : Of(g)' = Of(g)
  BY OfIsPayment DEF Of
<1>2. \A q \in Payments : intent[q] = "charged" => intent'[q] = "charged"
  BY <1>1
<1>3. MoneyRow' /\ MoneyEvents'
  BY <1>1, <1>2 DEF MoneyInv, MoneyRow, MoneyEvents
<1>4. MoneyMem'
  BY <1>1, <1>2, <1>o DEF MoneyInv, MoneyMem
<1>5. MoneyPc'
  BY <1>1, <1>2, <1>o DEF MoneyInv, MoneyPc, Capturing
<1>6. MoneyNew'
  <2> SUFFICES ASSUME NEW q \in Payments, pc'[q] \in {"idle", "intent"} PROVE intent'[q] = "none"
    BY DEF MoneyInv, MoneyNew
  <2>1. q # p
    OBVIOUS
  <2>2. q # h
    BY <2>1 DEF Of
  <2> QED BY <2>1, <2>2, <1>1, <1>t DEF MoneyInv, MoneyNew
<1> QED BY <1>3, <1>4, <1>5, <1>6 DEF MoneyInv

\* Every step keeps MoneyInv.
LEMMA MoneyInvStep ==
  ASSUME Outcomes \subseteq {"charged", "action"}
  PROVE  TypeOK /\ MoneyInv /\ [Next]_vars => MoneyInv'
<1> SUFFICES ASSUME TypeOK, MoneyInv, [Next]_vars PROVE MoneyInv'
  OBVIOUS
<1>h. /\ Payments \subseteq Handlers /\ Confirms \subseteq Handlers /\ Escrows \subseteq Handlers
      /\ Releases \subseteq Handlers /\ Crons \subseteq Handlers /\ Refunds \subseteq Handlers
      /\ Receipts \subseteq Handlers /\ Admins \subseteq Handlers /\ Hooks \subseteq Handlers
  BY DEF Handlers, Requests
<1>t. /\ mem \in [Handlers -> PaymentRow] /\ row \in [Payments -> PaymentRow]
      /\ pc \in [Handlers -> Labels] /\ then \in [Handlers -> Labels]
      /\ intent \in [Payments -> {"none", "action", "unsettled", "charged", "declined"}]
      /\ events \in [Payments -> SUBSET {"succeeded", "payment_failed", "refunded"}]
  BY DEF TypeOK
<1>o. \A h \in Handlers : Of(h) \in Payments
  BY OfIsPayment
<1>p. \A p \in Payments : Of(p) = p
  BY DEF Of
<1>r. \A h \in Handlers : row[Of(h)].status \in Held => intent[Of(h)] = "charged"
  BY <1>o DEF MoneyInv, MoneyRow
<1>m. \A h \in Handlers : mem[h].status \in Held => intent[Of(h)] = "charged"
  BY DEF MoneyInv, MoneyMem
<1>pc. \A h \in Handlers : Capturing(h) => intent[Of(h)] = "charged"
  BY DEF MoneyInv, MoneyPc
<1>c. \A h \in Handlers : h \in Payments => End(h) = "done"
  BY KindsAssumption DEF End, Apart, Requests
<1>n. \A h \in Handlers : h \in Payments => then[h] \notin {"idle", "intent"}
  BY DEF MoneyInv, MoneyNew
<1> DEFINE Charging == {"authorize", "capture", "escrow"}
<1>move. ASSUME NEW h \in Handlers, NEW label \in Labels, NEW entity \in PaymentRow,
                Goto(h, label), mem' = mem \/ mem' = [mem EXCEPT ![h] = entity],
                entity.status \in Held => intent[Of(h)] = "charged",
                label \notin {"select", "update"},
                label \in Charging => intent[Of(h)] = "charged",
                h \in Payments => label \notin {"idle", "intent"},
                UNCHANGED <<row, intent, events, target, then>>
         PROVE  MoneyInv'
  <2>1. pc'[h] = label /\ mem'[h] \in {mem[h], entity}
    BY <1>move, <1>t DEF Goto
  <2>2. mem'[h].status \in Held => intent[Of(h)] = "charged"
    BY <1>move, <1>m, <2>1
  <2>3. Capturing(h)' => intent[Of(h)] = "charged"
    BY <1>move, <2>1 DEF Capturing
  <2>4. /\ mem' = [mem EXCEPT ![h] = mem'[h]] /\ then' = [then EXCEPT ![h] = then'[h]]
        /\ pc' = [pc EXCEPT ![h] = pc'[h]]
    BY <1>move, <1>t DEF Goto
  <2> QED BY <1>move, <1>n, <2>1, <2>2, <2>3, <2>4, MoneyInvHandler
<1>save. ASSUME NEW h \in Handlers, NEW entity, NEW next \in Labels, Save(h, entity, next),
                entity.status \in Held => intent[Of(h)] = "charged",
                next \in Charging => intent[Of(h)] = "charged",
                next \notin {"idle", "intent"},
                \A q \in Payments : "succeeded" \in events'[q] => "succeeded" \in events[q],
                UNCHANGED <<row, intent, target>>
         PROVE  MoneyInv'
  <2>1. pc'[h] = "select" /\ mem'[h] = entity /\ then'[h] = next
    BY <1>save, <1>t DEF Save, Goto
  <2>2. Capturing(h)' => intent[Of(h)] = "charged"
    BY <1>save, <2>1 DEF Capturing
  <2>3. /\ mem' = [mem EXCEPT ![h] = mem'[h]] /\ then' = [then EXCEPT ![h] = then'[h]]
        /\ pc' = [pc EXCEPT ![h] = pc'[h]]
    BY <1>save, <1>t DEF Save, Goto
  <2> QED BY <1>save, <2>1, <2>2, <2>3, MoneyInvHandler
<1>1. ASSUME NEW h \in Handlers, SaveSelect(h) PROVE MoneyInv'
  <2>1. /\ pc[h] = "select" /\ pc' = [pc EXCEPT ![h] = "update"]
        /\ UNCHANGED <<row, intent, events, then, target, mem>>
    BY <1>1 DEF SaveSelect, Goto, stripe
  <2>2. Capturing(h)' => intent[Of(h)] = "charged"
    BY <2>1, <1>t, <1>pc DEF Capturing
  <2> QED BY <2>1, <2>2, <1>t, <1>m, <1>n, MoneyInvHandler
<1>2. ASSUME NEW h \in Handlers, SaveUpdate(h) PROVE MoneyInv'
  <2>1. /\ pc[h] = "update" /\ pc' = [pc EXCEPT ![h] = then[h]]
        /\ row' = [row EXCEPT ![Of(h)] = Merge(row[Of(h)], mem[h], dirty[h])]
        /\ UNCHANGED <<intent, events, then, target, mem>>
    BY <1>2 DEF SaveUpdate, Goto, stripe
  <2>2. Merge(row[Of(h)], mem[h], dirty[h]).status \in {row[Of(h)].status, mem[h].status}
    BY DEF Merge
  <2>3. MoneyRow'
    BY <2>1, <2>2, <1>t, <1>o, <1>r, <1>m DEF MoneyInv, MoneyRow
  <2>4. MoneyMem' /\ MoneyEvents'
    BY <2>1 DEF MoneyInv, MoneyMem, MoneyEvents, Of
  <2>5. MoneyPc'
    BY <2>1, <1>t DEF MoneyInv, MoneyPc, Capturing, Of
  <2>6. MoneyNew'
    BY <2>1, <1>t, <1>h DEF MoneyInv, MoneyNew
  <2> QED BY <2>3, <2>4, <2>5, <2>6 DEF MoneyInv
<1>3. ASSUME NEW p \in Payments, ProcessInsert(p) PROVE MoneyInv'
  <2>1. /\ pc[p] = "idle" /\ pc' = [pc EXCEPT ![p] = "intent"]
        /\ row' = [row EXCEPT ![p] = PendingRow] /\ mem' = [mem EXCEPT ![p] = PendingRow]
        /\ UNCHANGED <<intent, events, then, target>>
    BY <1>3 DEF ProcessInsert, Goto, stripe
  <2>2. MoneyRow' /\ MoneyEvents'
    BY <2>1, <1>t DEF MoneyInv, MoneyRow, MoneyEvents, PendingRow, Held
  <2>3. MoneyMem'
    BY <2>1, <1>t, <1>h DEF MoneyInv, MoneyMem, PendingRow, Held, Of
  <2>4. MoneyPc' /\ MoneyNew'
    BY <2>1, <1>t, <1>h DEF MoneyInv, MoneyPc, MoneyNew, Capturing, Of
  <2> QED BY <2>2, <2>3, <2>4 DEF MoneyInv
<1>answer. ASSUME NEW p \in Payments, NEW outcome, StripeAnswers(p, outcome),
                  intent[p] # "charged", "succeeded" \in events'[p]
           PROVE  intent'[p] = "charged"
  BY <1>answer, <1>t DEF StripeAnswers, MoneyInv, MoneyEvents
<1>4. ASSUME NEW p \in Payments, ProcessIntent(p) PROVE MoneyInv'
  <2>1. intent[p] = "none"
    BY <1>4 DEF ProcessIntent, MoneyInv, MoneyNew
  <2>2. PICK outcome \in Outcomes :
          /\ StripeAnswers(p, outcome)
          /\ pc' = [pc EXCEPT ![p] = IF outcome = "action" THEN "redirect" ELSE "authorize"]
    BY <1>4 DEF ProcessIntent, Goto
  <2>3. pc[p] = "intent" /\ mem' = [mem EXCEPT ![p] = WithGateway(mem[p])]
        /\ UNCHANGED <<row, then, target>>
    BY <1>4 DEF ProcessIntent
  <2>4. mem'[p].status = mem[p].status
    BY <2>3, <1>t, <1>h DEF WithGateway
  <2>5. Capturing(p)' => intent'[p] = "charged"
    BY <2>2, <1>t, <1>h DEF Capturing, StripeAnswers
  <2>6. "succeeded" \in events'[p] => intent'[p] = "charged"
    BY <2>1, <2>2, <1>answer
  <2>7. /\ intent' = [intent EXCEPT ![p] = intent'[p]] /\ events' = [events EXCEPT ![p] = events'[p]]
        /\ pc' = [pc EXCEPT ![p] = pc'[p]] /\ mem' = [mem EXCEPT ![p] = mem'[p]]
        /\ pc'[p] \notin {"idle", "intent"}
    BY <2>2, <2>3, <1>t, <1>h DEF StripeAnswers
  <2> QED BY <2>1, <2>3, <2>4, <2>5, <2>6, <2>7, <1>h, <1>p, MoneyInvStripe
<1>5. ASSUME NEW p \in Payments, ProcessDeclined(p) PROVE MoneyInv'
  <2>1. intent[p] = "none"
    BY <1>5 DEF ProcessDeclined, MoneyInv, MoneyNew
  <2>2. /\ intent' = [intent EXCEPT ![p] = "declined"]
        /\ events' = [events EXCEPT ![p] = {"payment_failed"}]
        /\ pc' = [pc EXCEPT ![p] = "fail"] /\ UNCHANGED <<row, then, target, mem>>
    BY <1>5 DEF ProcessDeclined, Goto
  <2>3. ~Capturing(p)' /\ "succeeded" \notin events'[p]
    BY <2>2, <1>t, <1>h DEF Capturing
  <2>4. /\ intent' = [intent EXCEPT ![p] = intent'[p]] /\ events' = [events EXCEPT ![p] = events'[p]]
        /\ pc' = [pc EXCEPT ![p] = pc'[p]] /\ mem' = [mem EXCEPT ![p] = mem'[p]]
        /\ mem'[p].status = mem[p].status /\ pc'[p] \notin {"idle", "intent"}
    BY <2>2, <1>t, <1>h
  <2> QED BY <2>1, <2>2, <2>3, <2>4, <1>h, <1>p, MoneyInvStripe
<1>lost. ASSUME NEW p \in Payments, LostProcess(p) PROVE MoneyInv'
  <2>1. intent[p] = "none"
    BY <1>lost DEF LostProcess, MoneyInv, MoneyNew
  <2>2. PICK outcome \in Outcomes : StripeAnswers(p, outcome)
    BY <1>lost DEF LostProcess
  <2>3. pc' = [pc EXCEPT ![p] = "fail"] /\ UNCHANGED <<row, then, target, mem>>
    BY <1>lost DEF LostProcess, Goto
  <2>4. ~Capturing(p)' /\ pc'[p] = "fail"
    BY <2>3, <1>t, <1>h DEF Capturing
  <2>5. "succeeded" \in events'[p] => intent'[p] = "charged"
    BY <2>1, <2>2, <1>answer
  <2>6. /\ intent' = [intent EXCEPT ![p] = intent'[p]] /\ events' = [events EXCEPT ![p] = events'[p]]
        /\ pc' = [pc EXCEPT ![p] = pc'[p]] /\ mem' = [mem EXCEPT ![p] = mem'[p]]
        /\ mem'[p].status = mem[p].status
    BY <2>2, <2>3, <1>t, <1>h DEF StripeAnswers
  <2> QED BY <2>1, <2>3, <2>4, <2>5, <2>6, <1>h, <1>p, MoneyInvStripe
<1>6. ASSUME NEW p \in Payments, ProcessAuthorize(p) PROVE MoneyInv'
  <2> DEFINE next == IF pc[p] = "redirect" THEN "done" ELSE "capture"
  <2>1. next \in Charging => intent[Of(p)] = "charged"
    BY <1>6, <1>h, <1>pc DEF ProcessAuthorize, Capturing
  <2>2. WithStatus(mem[p], "authorized").status \notin Held
    BY DEF WithStatus, Held
  <2> QED BY <1>6, <2>1, <2>2, <1>h, <1>save DEF ProcessAuthorize, Labels, stripe
<1>7. ASSUME NEW h \in Handlers, Capture(h) \/ Escrow(h) PROVE MoneyInv'
  <2>1. intent[Of(h)] = "charged"
    BY <1>7, <1>pc DEF Capture, Escrow, Capturing
  <2> QED BY <1>7, <2>1, <1>save DEF Capture, Escrow, Labels, stripe
<1>8. ASSUME NEW h \in Handlers, LogEscrow(h) PROVE MoneyInv'
  <2>1. CASE h \in Payments
    BY <1>8, <2>1, <1>m, <1>save DEF LogEscrow, Labels, stripe
  <2>2. CASE h \notin Payments
    BY <1>8, <2>2, <1>t, <1>m, <1>move DEF LogEscrow, Labels, stripe
  <2> QED BY <2>1, <2>2
<1>9. ASSUME NEW h \in Handlers, Fail(h) PROVE MoneyInv'
  BY <1>9, <1>save DEF Fail, Labels, WithStatus, Held, stripe
<1>10. ASSUME NEW h \in Handlers, LogFail(h) \/ ConfirmRefused(h) \/ CronFind(h) \/ RefundRefused(h)
              \/ LogRefund(h) \/ AdminRead(h)
       PROVE  MoneyInv'
  <2>1. PICK label \in {"done", "fail", "release", "admin"} : Goto(h, label)
    BY <1>10 DEF LogFail, ConfirmRefused, CronFind, RefundRefused, LogRefund, AdminRead
  <2>2. UNCHANGED <<row, intent, events, target, then, mem>>
    BY <1>10 DEF LogFail, ConfirmRefused, CronFind, RefundRefused, LogRefund, AdminRead, stripe
  <2> QED BY <2>1, <2>2, <1>t, <1>m, <1>move DEF Labels
<1>11. ASSUME NEW h \in Handlers, ConfirmRead(h) \/ EscrowRead(h) \/ RefundRead(h)
       PROVE  MoneyInv'
  <2>1. UNCHANGED <<row, intent, events, target, then>>
    BY <1>11 DEF ConfirmRead, EscrowRead, RefundRead, stripe
  <2>2. \/ Goto(h, "done") /\ mem' = mem
        \/ /\ mem' = [mem EXCEPT ![h] = row[Of(h)]]
           /\ \/ Goto(h, "confirm")
              \/ Goto(h, "refund")
              \/ Goto(h, "escrow") /\ row[Of(h)].status = "captured"
    BY <1>11 DEF ConfirmRead, EscrowRead, RefundRead, IsValidPaymentTransition, Transitions
  <2>3. row[Of(h)] \in PaymentRow /\ mem[h] \in PaymentRow
    BY <1>t, <1>o
  <2>4. row[Of(h)].status = "captured" => intent[Of(h)] = "charged"
    BY <1>r DEF Held
  <2>5. CASE Goto(h, "done") /\ mem' = mem
    BY <2>1, <2>3, <2>5, <1>m, <1>move DEF Labels
  <2>6. ASSUME NEW label \in {"confirm", "refund", "escrow"}, Goto(h, label),
               mem' = [mem EXCEPT ![h] = row[Of(h)]],
               label = "escrow" => row[Of(h)].status = "captured"
        PROVE  MoneyInv'
    BY <2>1, <2>3, <2>4, <2>6, <1>r, <1>move DEF Labels
  <2> QED BY <2>2, <2>5, <2>6
<1>12. ASSUME NEW h \in Confirms, ConfirmIntent(h) \/ LostConfirm(h) PROVE MoneyInv'
  <2> DEFINE p == Of(h)
  <2>1. PICK outcome \in Outcomes :
          /\ StripeAnswers(p, outcome)
          /\ \/ pc' = [pc EXCEPT ![h] = IF outcome = "action" THEN "done" ELSE "capture"]
             \/ pc' = [pc EXCEPT ![h] = "fail"]
    BY <1>12 DEF ConfirmIntent, LostConfirm, Goto
  <2>2. intent[p] = "action" /\ pc[h] = "confirm" /\ UNCHANGED <<row, then, target, mem>>
    BY <1>12 DEF ConfirmIntent, LostConfirm
  <2>3. p \in Payments /\ h \in Handlers /\ h \notin Payments
    BY <1>h, <1>o, KindsAssumption DEF Apart, Requests
  <2>4. Capturing(h)' => intent'[p] = "charged"
    BY <2>1, <2>3, <1>t DEF Capturing, StripeAnswers
  <2>5. "succeeded" \in events'[p] => intent'[p] = "charged"
    BY <2>1, <2>2, <2>3, <1>answer
  <2>6. pc'[p] \notin {"idle", "intent"}
    BY <2>1, <2>2, <2>3, <1>t, <1>h DEF MoneyInv, MoneyNew
  <2>7. /\ intent' = [intent EXCEPT ![p] = intent'[p]] /\ events' = [events EXCEPT ![p] = events'[p]]
        /\ pc' = [pc EXCEPT ![h] = pc'[h]] /\ mem' = [mem EXCEPT ![h] = mem'[h]]
        /\ mem'[h].status = mem[h].status
    BY <2>1, <2>2, <2>3, <1>t DEF StripeAnswers
  <2> HIDE DEF p
  <2> QED BY <2>2, <2>3, <2>4, <2>5, <2>6, <2>7, MoneyInvStripe DEF p
<1>13. ASSUME NEW h \in Handlers, ReleaseRead(h) PROVE MoneyInv'
  <2>1. CASE IsValidPaymentTransition(row[Of(h)].status, "released")
    <3>1. intent[Of(h)] = "charged"
      BY <2>1, <1>r DEF IsValidPaymentTransition, Transitions, Held
    <3> QED BY <1>13, <2>1, <3>1, <1>save DEF ReleaseRead, Labels, stripe
  <2>2. CASE ~IsValidPaymentTransition(row[Of(h)].status, "released")
    <3>1. Goto(h, End(h)) /\ UNCHANGED <<row, intent, events, target, then, mem>>
      BY <1>13, <2>2 DEF ReleaseRead, stripe
    <3> QED BY <3>1, <1>c, <1>t, <1>m, <1>move DEF End, Labels
  <2> QED BY <2>1, <2>2
<1>14. ASSUME NEW h \in Handlers, LogRelease(h) \/ Die(h) PROVE MoneyInv'
  BY <1>14, <1>c, <1>t, <1>m, <1>move DEF LogRelease, Die, End, Labels, stripe
<1>15. ASSUME NEW h \in Handlers, RefundStripe(h) \/ LostRefund(h) PROVE MoneyInv'
  <2>1. \A q \in Payments : "succeeded" \in events'[q] => "succeeded" \in events[q]
    BY <1>15, <1>t, <1>o DEF RefundStripe, LostRefund, StripeRefunds
  <2>2. CASE RefundStripe(h)
    BY <2>1, <2>2, <1>save DEF RefundStripe, WithStatus, Held, Labels
  <2>3. CASE LostRefund(h)
    <3>1. pc' = [pc EXCEPT ![h] = "done"] /\ UNCHANGED <<row, intent, then, target, mem>>
      BY <2>3 DEF LostRefund, Goto
    <3>2. ~Capturing(h)' /\ pc'[h] = "done"
      BY <3>1, <1>t DEF Capturing
    <3> QED BY <2>1, <3>1, <3>2, <1>t, <1>m, <1>n, MoneyInvHandler
  <2> QED BY <1>15, <2>2, <2>3
<1>16. ASSUME NEW h \in Handlers, ReceiptRead(h) PROVE MoneyInv'
  BY <1>16, <1>r, <1>save DEF ReceiptRead, Labels, stripe
<1>17. ASSUME NEW h \in Admins, AdminUpdate(h) PROVE MoneyInv'
  <2>1. /\ pc' = [pc EXCEPT ![h] = "done"]
        /\ row' = [row EXCEPT ![Of(h)] = WithStatus(row[Of(h)], "refunded")]
        /\ UNCHANGED <<intent, events, then, target, mem>>
    BY <1>17 DEF AdminUpdate, Goto, stripe
  <2>2. MoneyRow'
    BY <2>1, <1>t, <1>o, <1>h DEF MoneyInv, MoneyRow, WithStatus, Held
  <2>3. MoneyMem' /\ MoneyEvents'
    BY <2>1 DEF MoneyInv, MoneyMem, MoneyEvents, Of
  <2>4. MoneyPc' /\ MoneyNew'
    BY <2>1, <1>t, <1>h DEF MoneyInv, MoneyPc, MoneyNew, Capturing, Of
  <2> QED BY <2>2, <2>3, <2>4 DEF MoneyInv
<1>18. ASSUME NEW h \in Handlers, HookRead(h) PROVE MoneyInv'
  <2>1. PICK e \in events[Of(h)] :
          IF row[Of(h)].gateway
          THEN Save(h, WithStatus(row[Of(h)], EventStatus(e)), "done")
          ELSE Goto(h, "done") /\ UNCHANGED <<then, mem>>
    BY <1>18 DEF HookRead
  <2>2. UNCHANGED <<row, intent, events, target>>
    BY <1>18 DEF HookRead, stripe
  <2>3. CASE row[Of(h)].gateway
    <3>1. EventStatus(e) \in Held => e = "succeeded"
      BY DEF EventStatus, Held
    <3>2. e = "succeeded" => intent[Of(h)] = "charged"
      BY <1>o DEF MoneyInv, MoneyEvents
    <3>3. WithStatus(row[Of(h)], EventStatus(e)).status = EventStatus(e)
      BY DEF WithStatus
    <3> QED BY <2>1, <2>2, <2>3, <3>1, <3>2, <3>3, <1>save DEF Labels
  <2>4. CASE ~row[Of(h)].gateway
    BY <2>1, <2>2, <2>4, <1>t, <1>m, <1>move DEF Labels
  <2> QED BY <2>3, <2>4
<1>19. ASSUME NEW p \in Payments, StripeSettle(p) PROVE MoneyInv'
  <2>1. intent[p] \in {"action", "unsettled"} /\ UNCHANGED <<row, pc, then, target, mem>>
    BY <1>19 DEF StripeSettle
  <2>2. /\ intent' = [intent EXCEPT ![p] = intent'[p]] /\ events' = [events EXCEPT ![p] = events'[p]]
        /\ pc' = [pc EXCEPT ![p] = pc'[p]] /\ mem' = [mem EXCEPT ![p] = mem'[p]]
        /\ mem'[p].status = mem[p].status
    BY <1>19, <2>1, <1>t, <1>h DEF StripeSettle
  <2>3. "succeeded" \in events'[p] => intent'[p] = "charged"
    BY <1>19, <2>1, <1>t DEF StripeSettle, MoneyInv, MoneyEvents
  <2>4. ~Capturing(p)'
    BY <2>1, <1>pc, <1>p, <1>h DEF Capturing
  <2>5. pc'[p] \notin {"idle", "intent"}
    BY <2>1 DEF MoneyInv, MoneyNew
  <2> QED BY <2>1, <2>2, <2>3, <2>4, <2>5, <1>h, <1>p, MoneyInvStripe
<1>20. ASSUME NEW h \in Handlers, Throw(h) PROVE MoneyInv'
  <2>1. PICK label \in {"logFail", "fail", End(h)} : Goto(h, label)
    BY <1>20 DEF Throw
  <2>2. UNCHANGED <<row, intent, events, target, then, mem>>
    BY <1>20 DEF Throw, stripe
  <2> QED BY <2>1, <2>2, <1>c, <1>t, <1>m, <1>move DEF End, Labels
<1>21. ASSUME UNCHANGED vars PROVE MoneyInv'
  BY <1>21 DEF vars, MoneyInv, MoneyRow, MoneyMem, MoneyEvents, MoneyPc, MoneyNew, Capturing, Of
<1> QED
  BY <1>1, <1>2, <1>3, <1>4, <1>5, <1>6, <1>7, <1>8, <1>9, <1>10, <1>11, <1>12, <1>13, <1>14,
     <1>15, <1>16, <1>17, <1>18, <1>19, <1>20, <1>21, <1>lost, <1>h
     DEF Next, SaveStep, ProcessStep, CaptureStep, ConfirmStep, RefundStep, CronStep

\* When Stripe answers a confirmation with a charge, a redirect or a refusal, what
\* the table says is captured, held or released has been charged, whatever stale
\* entity was saved and whatever event came late.
THEOREM EscrowIsCharged ==
  ASSUME Outcomes \subseteq {"charged", "action"}
  PROVE  Spec => []EscrowHoldsMoney
<1>1. MoneyInv => EscrowHoldsMoney
  BY DEF MoneyInv, MoneyRow, Held, EscrowHoldsMoney
<1> QED BY <1>1, TypeCorrect, MoneyInvStarts, MoneyInvStep, PTL DEF Spec

-----------------------------------------------------------------------------
(* Theorems of the payment service when its handlers run one at a time and *)
(* the database answers: without the webhook, which sets any status, and   *)
(* without the administrator's refund, which logs nothing.                 *)

OneAtATime == MaxInFlight = 1 /\ ~MayFail /\ Admins = {} /\ Hooks = {}

-----------------------------------------------------------------------------
(* The inductive invariant.                                                *)

\* At most one handler is running.
Alone == \A g, h \in InFlight : g = h

\* Nothing was released or refunded, as far as the log knows.
Unpaid(p) == log[p]["released"] = 0 /\ log[p]["refunded"] = 0

\* A payment on which no handler is at work: its log tells of its status, of a
\* release and of a refund just if that is the status, and Stripe has refunded
\* nothing of a payment that is not called refunded.
Quiet(p) ==
  /\ row[p].status \notin {"none", "pending"} => log[p][row[p].status] > 0
  /\ log[p]["released"] = IF row[p].status = "released" THEN 1 ELSE 0
  /\ log[p]["refunded"] = IF row[p].status = "refunded" THEN 1 ELSE 0
  /\ row[p].status # "refunded" => refunds[p] = 0

\* A handler in a save(): what the table says, what it is about to say, and
\* whether the log has told of it already.
Saving(h) ==
  LET p == Of(h)
      from == row[p].status
      to == mem[h].status
  IN
  \/ /\ then[h] = "done" /\ Quiet(p)
     /\ \/ from = to /\ from # "none"
        \/ from = "pending" /\ to = "authorized" /\ log[p][to] > 0
  \/ then[h] = "capture" /\ Quiet(p) /\ from = "pending" /\ to = "authorized" /\ log[p][to] > 0
  \/ then[h] = "escrow" /\ Quiet(p) /\ from = "authorized" /\ to = "captured" /\ log[p][to] > 0
  \/ then[h] = "logEscrow" /\ Quiet(p) /\ from = "captured" /\ to = "escrowed"
  \/ then[h] = "logFail" /\ Quiet(p) /\ from \in {"pending", "authorized"} /\ to = "failed"
  \/ then[h] = "logRelease" /\ Quiet(p) /\ from = "escrowed" /\ to = "released"
  \/ then[h] = "logRefund" /\ Unpaid(p) /\ from = "escrowed" /\ to = "refunded"

\* A handler at work: what it has in memory is what the table says.
Running(h) ==
  LET p == Of(h)
      r == row[p].status
      m == mem[h].status
  IN
  \/ pc[h] \in {"intent", "authorize", "redirect"} /\ Quiet(p) /\ r = "pending" /\ m = "pending"
  \/ pc[h] \in {"capture", "confirm"} /\ Quiet(p) /\ r = "authorized" /\ m = "authorized"
  \/ pc[h] = "escrow" /\ Quiet(p) /\ r = "captured" /\ m = "captured"
  \/ pc[h] = "refund" /\ Quiet(p) /\ r = "escrowed" /\ m = "escrowed"
  \/ pc[h] = "release" /\ Quiet(p) /\ r # "none"
  \/ pc[h] = "fail" /\ Quiet(p) /\ r \in {"pending", "authorized"}
  \/ pc[h] = "select" /\ Saving(h)
  \/ pc[h] = "update" /\ Saving(h) /\ dirty[h] = Changed(mem[h], row[p])
  \/ pc[h] = "logEscrow" /\ Unpaid(p) /\ refunds[p] = 0 /\ r = "escrowed" /\ m = "escrowed"
  \/ pc[h] = "logFail" /\ Unpaid(p) /\ refunds[p] = 0 /\ r = "failed"
  \/ pc[h] = "logRelease" /\ Unpaid(p) /\ refunds[p] = 0 /\ r = "released"
  \/ pc[h] = "logRefund" /\ Unpaid(p) /\ r = "refunded"

\* processPayment inserts a row that was not there.
Fresh == \A p \in Payments : pc[p] = "idle" => row[p].status = "none"

SerialInv ==
  /\ Alone
  /\ \A p \in Payments : (\A h \in InFlight : Of(h) # p) => Quiet(p)
  /\ \A h \in InFlight : Running(h)
  /\ Fresh

\* Nothing is at work and nothing is told at first.
LEMMA SerialStarts == Init => SerialInv
BY DEF Init, SerialInv, Alone, InFlight, Quiet, Fresh, NoRow, Handlers, PaymentStatus

-----------------------------------------------------------------------------
(* Steps.                                                                  *)

\* A handler starts only when none is running.
LEMMA StartsAlone ==
  ASSUME MaxInFlight = 1, Alone, Cardinality(InFlight) < MaxInFlight
  PROVE  InFlight = {}
<1> SUFFICES ASSUME NEW h \in InFlight PROVE FALSE
  OBVIOUS
<1>1. InFlight = {h}
  BY DEF Alone
<1>2. Cardinality(InFlight) = 1
  BY <1>1, FS_Singleton
<1> QED BY <1>2

\* A payment nobody is at work on is Quiet.
LEMMA OthersQuiet ==
  ASSUME SerialInv, NEW h \in Handlers, \A g \in InFlight : g = h, NEW p \in Payments,
         p # Of(h) \/ h \notin InFlight
  PROVE  Quiet(p)
BY DEF SerialInv

\* A step of the only handler keeps the invariant if it touches no payment but
\* its own and leaves that one Quiet or under its hands.
LEMMA HandlerStep ==
  ASSUME TypeOK, SerialInv, NEW h \in Handlers, \A g \in InFlight : g = h,
         NEW l, pc' = [pc EXCEPT ![h] = l], target' = target,
         \A p \in Payments : p # Of(h) => /\ row'[p] = row[p] /\ log'[p] = log[p]
                                          /\ refunds'[p] = refunds[p],
         l \in {"idle", "done"} => Quiet(Of(h))',
         l \notin {"idle", "done"} => Running(h)',
         row'[Of(h)].status = "none" => row[Of(h)].status = "none",
         h \in Payments => l # "idle",
         Of(h) # h /\ Of(h) \in Payments /\ pc[Of(h)] = "idle" => row'[Of(h)] = row[Of(h)]
  PROVE  SerialInv'
<1>t. pc \in [Handlers -> Labels] /\ Payments \subseteq Handlers
  BY DEF TypeOK, Handlers
<1>1. \A g \in Handlers : Of(g)' = Of(g)
  BY DEF Of
<1>2. InFlight' = IF l \in {"idle", "done"} THEN {} ELSE {h}
  BY <1>t DEF InFlight
<1>3. Alone'
  BY <1>2 DEF Alone
<1>4. ASSUME NEW p \in Payments, \A g \in InFlight' : Of(g)' # p PROVE Quiet(p)'
  <2>1. CASE p = Of(h)
    BY <2>1, <1>1, <1>2, <1>4
  <2>2. CASE p # Of(h)
    BY <2>2, OthersQuiet DEF Quiet
  <2> QED BY <2>1, <2>2
<1>5. \A g \in InFlight' : Running(g)'
  BY <1>2
<1>6. Fresh'
  BY <1>t DEF Fresh, SerialInv, Of
<1> QED BY <1>3, <1>4, <1>5, <1>6 DEF SerialInv

\* What save() writes is the entity: the columns it leaves out did not differ.
LEMMA SaveWritesEntity ==
  ASSUME NEW r \in PaymentRow, NEW entity \in PaymentRow
  PROVE  Merge(r, entity, Changed(entity, r)) = entity
BY DEF Merge, Changed, Columns, PaymentRow

\* Every step of the only handler keeps the inductive invariant.
LEMMA SerialStep ==
  ASSUME OneAtATime, TypeOK, TypeOK', SerialInv, [Next]_vars
  PROVE  SerialInv'
<1>h. /\ Payments \subseteq Handlers /\ Confirms \subseteq Handlers /\ Escrows \subseteq Handlers
      /\ Releases \subseteq Handlers /\ Crons \subseteq Handlers /\ Refunds \subseteq Handlers
      /\ Receipts \subseteq Handlers
  BY DEF Handlers, Requests
<1>k. \A p \in Payments : p \notin Requests /\ Of(p) = p
  BY KindsAssumption DEF Apart, Of
<1>t. /\ row \in [Payments -> PaymentRow] /\ mem \in [Handlers -> PaymentRow]
      /\ log \in [Payments -> [PaymentStatus -> Nat]]
      /\ pc \in [Handlers -> Labels] /\ then \in [Handlers -> Labels]
      /\ dirty \in [Handlers -> SUBSET Columns] /\ refunds \in [Payments -> 0..Whole]
  BY DEF TypeOK
<1>o. \A h \in Handlers : Of(h) \in Payments
  BY OfIsPayment
<1>run. ASSUME NEW h \in Handlers, pc[h] \notin {"idle", "done"}
        PROVE  (\A g \in InFlight : g = h) /\ Running(h)
  BY <1>run DEF SerialInv, Alone, InFlight
<1>start. ASSUME NEW h \in Handlers, Cardinality(InFlight) < MaxInFlight
          PROVE  (\A g \in InFlight : g = h) /\ Quiet(Of(h))
  <2>1. InFlight = {}
    BY <1>start, StartsAlone DEF OneAtATime, SerialInv
  <2> QED BY <2>1, <1>o DEF SerialInv
<1> USE DEF Goto
\* A step that moves only pc and mem, and neither ends nor starts a payment.
<1>quiet. ASSUME UNCHANGED <<row, log, refunds, target>>, NEW h \in Handlers
          PROVE  Of(h)' = Of(h) /\ (Quiet(Of(h))' <=> Quiet(Of(h)))
  BY <1>quiet DEF Of, Quiet
<1>1. ASSUME NEW h \in Handlers, SaveSelect(h) PROVE SerialInv'
  <2>1. (\A g \in InFlight : g = h) /\ Running(h)
    BY <1>1, <1>run DEF SaveSelect
  <2>2. Of(h)' = Of(h) /\ (Quiet(Of(h))' <=> Quiet(Of(h)))
    BY <1>1, <1>quiet DEF SaveSelect, stripe
  <2>3. Saving(h)'
    BY <1>1, <2>1, <2>2 DEF SaveSelect, Running, Saving, Unpaid, stripe
  <2>4. Running(h)'
    BY <1>1, <2>2, <2>3, <1>t DEF SaveSelect, Running
  <2> QED BY <1>1, <2>1, <2>4, HandlerStep DEF SaveSelect, stripe
<1>2. ASSUME NEW h \in Handlers, SaveUpdate(h) PROVE SerialInv'
  <2> DEFINE p == Of(h)
  <2>1. /\ \A g \in InFlight : g = h
        /\ Saving(h) /\ dirty[h] = Changed(mem[h], row[p])
    BY <1>2, <1>run DEF SaveUpdate, Running
  <2>2. row' = [row EXCEPT ![p] = mem[h]]
    BY <1>2, <2>1, <1>t, <1>o, SaveWritesEntity DEF SaveUpdate
  <2>3. p' = p
    BY <1>2 DEF SaveUpdate, Of
  <2>4. then[h] \in {"idle", "done"} => Quiet(p)'
    BY <1>2, <2>1, <2>2, <2>3, <1>o, <1>t DEF SaveUpdate, stripe, Saving, Quiet, PaymentRow
  <2>5. then[h] \notin {"idle", "done"} => Running(h)'
    BY <1>2, <2>1, <2>2, <2>3, <1>o, <1>t
       DEF SaveUpdate, stripe, Saving, Running, Quiet, Unpaid, PaymentRow
  <2>6. row'[p].status # "none" /\ then[h] # "idle"
    BY <2>1, <2>2, <1>o, <1>t DEF Saving
  <2> QED BY <1>2, <2>1, <2>2, <2>3, <2>4, <2>5, <2>6, <1>t, <1>o, HandlerStep
          DEF SaveUpdate, stripe, SerialInv, Fresh, Saving, Quiet
<1>3. ASSUME NEW h \in Payments, ProcessInsert(h) PROVE SerialInv'
  <2>1. (\A g \in InFlight : g = h) /\ Quiet(h)
    BY <1>3, <1>h, <1>k, <1>start DEF ProcessInsert
  <2>2. row[h].status = "none" /\ row' = [row EXCEPT ![h] = PendingRow]
    BY <1>3 DEF ProcessInsert, SerialInv, Fresh
  <2>3. Of(h)' = h /\ Of(h) = h
    BY <1>3, <1>k DEF ProcessInsert, Of
  <2>4. Running(h)'
    BY <1>3, <1>h, <1>t, <2>1, <2>2, <2>3 DEF ProcessInsert, stripe, PendingRow, Running, Quiet
  <2> QED BY <1>3, <1>h, <1>t, <2>1, <2>2, <2>3, <2>4, HandlerStep
          DEF ProcessInsert, stripe, PendingRow
\* What follows leaves the row, and the refunds but for refundPayment's, alone.
<1>4. ASSUME NEW h \in Payments, ProcessIntent(h) \/ ProcessDeclined(h) PROVE SerialInv'
  <2>1. (\A g \in InFlight : g = h) /\ Running(h)
    BY <1>4, <1>h, <1>run DEF ProcessIntent, ProcessDeclined
  <2>2. Of(h)' = Of(h) /\ (Quiet(Of(h))' <=> Quiet(Of(h)))
    BY <1>4, <1>h, <1>quiet DEF ProcessIntent, ProcessDeclined
  <2>3. Running(h)'
    BY <1>4, <1>h, <1>t, <2>1, <2>2 DEF ProcessIntent, ProcessDeclined, WithGateway, Running
  <2>4. \E l \in {"authorize", "redirect", "fail"} : pc' = [pc EXCEPT ![h] = l]
    BY <1>4 DEF ProcessIntent, ProcessDeclined
  <2> QED BY <1>4, <1>h, <2>1, <2>3, <2>4, HandlerStep DEF ProcessIntent, ProcessDeclined
<1>5. ASSUME NEW h \in Payments, ProcessAuthorize(h) PROVE SerialInv'
  <2>1. (\A g \in InFlight : g = h) /\ Running(h)
    BY <1>5, <1>h, <1>run DEF ProcessAuthorize
  <2>2. Of(h)' = Of(h)
    BY <1>5 DEF ProcessAuthorize, Of
  <2>3. Saving(h)'
    BY <1>5, <1>h, <1>t, <1>o, <2>1, <2>2
       DEF ProcessAuthorize, stripe, Log, Save, WithStatus, Running, Saving, Quiet, PaymentStatus
  <2>4. pc' = [pc EXCEPT ![h] = "select"] /\ Running(h)'
    BY <1>5, <1>h, <1>t, <2>3 DEF ProcessAuthorize, Save, Running
  <2> QED BY <1>5, <1>h, <1>t, <1>o, <2>1, <2>4, HandlerStep DEF ProcessAuthorize, Log, stripe
<1>6. ASSUME NEW h \in Handlers, Capture(h) PROVE SerialInv'
  <2>1. (\A g \in InFlight : g = h) /\ Running(h)
    BY <1>6, <1>run DEF Capture
  <2>2. Of(h)' = Of(h)
    BY <1>6 DEF Capture, Of
  <2>3. Saving(h)'
    BY <1>6, <1>t, <1>o, <2>1, <2>2
       DEF Capture, stripe, Log, Save, WithStatus, Running, Saving, Quiet, PaymentStatus
  <2>4. pc' = [pc EXCEPT ![h] = "select"] /\ Running(h)'
    BY <1>6, <1>t, <2>3 DEF Capture, Save, Running
  <2> QED BY <1>6, <1>t, <1>o, <2>1, <2>4, HandlerStep DEF Capture, Log, stripe
<1>7. ASSUME NEW h \in Handlers, Escrow(h) \/ Fail(h) PROVE SerialInv'
  <2>1. (\A g \in InFlight : g = h) /\ Running(h)
    BY <1>7, <1>run DEF Escrow, Fail
  <2>2. Of(h)' = Of(h) /\ (Quiet(Of(h))' <=> Quiet(Of(h)))
    BY <1>7, <1>quiet DEF Escrow, Fail, stripe
  <2>3. Saving(h)'
    BY <1>7, <1>t, <2>1, <2>2 DEF Escrow, Fail, Save, Escrowed, WithStatus, Running, Saving
  <2>4. pc' = [pc EXCEPT ![h] = "select"] /\ Running(h)'
    BY <1>7, <1>t, <2>3 DEF Escrow, Fail, Save, Running
  <2> QED BY <1>7, <2>1, <2>4, HandlerStep DEF Escrow, Fail, stripe
<1>8. ASSUME NEW h \in Handlers, LogEscrow(h) PROVE SerialInv'
  <2>1. (\A g \in InFlight : g = h) /\ Running(h)
    BY <1>8, <1>run DEF LogEscrow
  <2>2. Of(h)' = Of(h)
    BY <1>8 DEF LogEscrow, Of
  <2>3. Quiet(Of(h))'
    BY <1>8, <1>t, <1>o, <2>1, <2>2 DEF LogEscrow, stripe, Log, Running, Quiet, Unpaid, PaymentStatus
  <2>4. CASE h \in Payments
    <3>1. Saving(h)'
      BY <1>8, <1>t, <2>1, <2>2, <2>3, <2>4 DEF LogEscrow, stripe, Save, Running, Saving
    <3>2. pc' = [pc EXCEPT ![h] = "select"] /\ Running(h)'
      BY <1>8, <1>t, <2>4, <3>1 DEF LogEscrow, Save, Running
    <3> QED BY <1>8, <1>t, <1>o, <2>1, <3>2, HandlerStep DEF LogEscrow, Log, stripe
  <2>5. CASE h \notin Payments
    BY <1>8, <1>t, <1>o, <2>1, <2>3, <2>5, HandlerStep DEF LogEscrow, Log, stripe
  <2> QED BY <2>4, <2>5
<1>9. ASSUME NEW h \in Handlers, \/ LogFail(h)
                                 \/ LogRelease(h) /\ h \notin Payments
                                 \/ LogRefund(h)
      PROVE  SerialInv'
  <2>1. (\A g \in InFlight : g = h) /\ Running(h)
    BY <1>9, <1>run DEF LogFail, LogRelease, LogRefund
  <2>2. Of(h)' = Of(h)
    BY <1>9 DEF LogFail, LogRelease, LogRefund, Of
  <2>3. Quiet(Of(h))'
    BY <1>9, <1>t, <1>o, <2>1, <2>2
       DEF LogFail, LogRelease, LogRefund, stripe, Log, Running, Quiet, Unpaid, PaymentStatus
  <2>4. PICK l \in {"idle", "done"} : pc' = [pc EXCEPT ![h] = l] /\ (h \in Payments => l = "done")
    BY <1>9 DEF LogFail, LogRelease, LogRefund, End
  <2>5. /\ UNCHANGED <<row, refunds, target>>
        /\ \A p \in Payments : p # Of(h) => log'[p] = log[p]
    BY <1>9, <1>t, <1>o DEF LogFail, LogRelease, LogRefund, Log, stripe
  <2> QED BY <2>1, <2>3, <2>4, <2>5, HandlerStep
<1>10. ASSUME NEW h \in Handlers, h \notin Payments,
              \/ ConfirmRead(h) \/ EscrowRead(h) \/ CronFind(h) \/ RefundRead(h)
       PROVE  SerialInv'
  <2>1. (\A g \in InFlight : g = h) /\ Quiet(Of(h))
    BY <1>10, <1>start DEF ConfirmRead, EscrowRead, CronFind, RefundRead, Starts
  <2>2. Of(h)' = Of(h) /\ (Quiet(Of(h))' <=> Quiet(Of(h)))
    BY <1>10, <1>quiet DEF ConfirmRead, EscrowRead, CronFind, RefundRead, stripe
  <2>3. PICK l \in {"done", "confirm", "escrow", "release", "refund"} : pc' = [pc EXCEPT ![h] = l]
    BY <1>10 DEF ConfirmRead, EscrowRead, CronFind, RefundRead
  <2>4. l # "done" => Running(h)'
    BY <1>10, <1>t, <2>1, <2>2, <2>3
       DEF ConfirmRead, EscrowRead, CronFind, RefundRead, Running, IsValidPaymentTransition,
           Transitions, Starts
  <2> QED BY <1>10, <2>1, <2>2, <2>3, <2>4, HandlerStep
          DEF ConfirmRead, EscrowRead, CronFind, RefundRead, stripe
<1>11. ASSUME NEW h \in Handlers, h \notin Payments,
              ConfirmIntent(h) \/ ConfirmRefused(h) \/ RefundRefused(h)
       PROVE  SerialInv'
  <2>1. (\A g \in InFlight : g = h) /\ Running(h)
    BY <1>11, <1>run DEF ConfirmIntent, ConfirmRefused, RefundRefused
  <2>2. Of(h)' = Of(h) /\ (Quiet(Of(h))' <=> Quiet(Of(h)))
    BY <1>11, <1>quiet DEF ConfirmIntent, ConfirmRefused, RefundRefused, stripe
  <2>3. PICK l \in {"done", "capture", "fail"} : pc' = [pc EXCEPT ![h] = l]
    BY <1>11 DEF ConfirmIntent, ConfirmRefused, RefundRefused
  <2>4. (l # "done" => Running(h)') /\ Quiet(Of(h))'
    BY <1>11, <1>t, <2>1, <2>2, <2>3 DEF ConfirmIntent, ConfirmRefused, RefundRefused, Running
  <2> QED BY <1>11, <2>1, <2>3, <2>4, HandlerStep
          DEF ConfirmIntent, ConfirmRefused, RefundRefused, stripe
<1>12. ASSUME NEW h \in Handlers, h \notin Payments, ReleaseRead(h) \/ ReceiptRead(h)
       PROVE  SerialInv'
  <2>1. (\A g \in InFlight : g = h) /\ Quiet(Of(h)) /\ row[Of(h)].status # "none"
    <3>1. CASE pc[h] = "release"
      BY <3>1, <1>run DEF Running
    <3>2. CASE pc[h] # "release"
      BY <3>2, <1>12, <1>start DEF ReleaseRead, ReceiptRead, Starts
    <3> QED BY <3>1, <3>2
  <2>2. Of(h)' = Of(h) /\ (Quiet(Of(h))' <=> Quiet(Of(h)))
    BY <1>12, <1>quiet DEF ReleaseRead, ReceiptRead, stripe
  <2>3. PICK l \in {"idle", "done", "select"} : pc' = [pc EXCEPT ![h] = l]
    BY <1>12 DEF ReleaseRead, ReceiptRead, Save, End
  <2>4. l = "select" => Saving(h)'
    BY <1>12, <1>t, <2>1, <2>2, <2>3
       DEF ReleaseRead, ReceiptRead, Save, WithStatus, Saving, IsValidPaymentTransition,
           Transitions, End
  <2>5. l = "select" => Running(h)'
    BY <1>t, <2>3, <2>4 DEF Running
  <2> QED BY <1>12, <2>1, <2>2, <2>3, <2>5, HandlerStep DEF ReleaseRead, ReceiptRead, stripe
<1>13. ASSUME NEW h \in Handlers, RefundStripe(h) PROVE SerialInv'
  <2>1. (\A g \in InFlight : g = h) /\ Running(h)
    BY <1>13, <1>run DEF RefundStripe
  <2>2. Of(h)' = Of(h)
    BY <1>13 DEF RefundStripe, Of
  <2>3. Saving(h)'
    BY <1>13, <1>t, <1>o, <2>1, <2>2
       DEF RefundStripe, Save, WithStatus, Running, Saving, Quiet, Unpaid
  <2>4. pc' = [pc EXCEPT ![h] = "select"] /\ Running(h)'
    BY <1>13, <1>t, <2>3 DEF RefundStripe, Save, Running
  <2>5. \A p \in Payments : p # Of(h) => refunds'[p] = refunds[p]
    BY <1>13, <1>t, <1>o DEF RefundStripe, StripeRefunds
  <2> QED BY <1>13, <2>1, <2>4, <2>5, HandlerStep DEF RefundStripe
<1>14. ASSUME UNCHANGED <<row, log, refunds, pc, then, target, mem, dirty>> PROVE SerialInv'
  <2>1. InFlight' = InFlight
    BY <1>14 DEF InFlight
  <2>2. \A h \in Handlers : Of(h)' = Of(h) /\ (Saving(h)' <=> Saving(h))
    BY <1>14 DEF Of, Saving, Quiet, Unpaid
  <2>3. \A h \in Handlers : Running(h)' <=> Running(h)
    BY <1>14, <2>2 DEF Running, Quiet, Unpaid
  <2>4. \A p \in Payments : Quiet(p)' <=> Quiet(p)
    BY <1>14 DEF Quiet
  <2>5. Alone' /\ Fresh'
    BY <1>14, <2>1 DEF SerialInv, Alone, Fresh
  <2> QED BY <2>1, <2>2, <2>3, <2>4, <2>5 DEF SerialInv, InFlight
<1>15. (\E p \in Payments : StripeSettle(p)) \/ UNCHANGED vars
         => UNCHANGED <<row, log, refunds, pc, then, target, mem, dirty>>
  BY DEF StripeSettle, vars
\* The database answers and no server dies.
<1>16. \A h \in Handlers : /\ ~Throw(h) /\ ~Die(h) /\ ~LostProcess(h) /\ ~LostConfirm(h)
                           /\ ~LostRefund(h)
  BY DEF OneAtATime, Throw, Die, LostProcess, LostConfirm, LostRefund
<1>17. \A h \in Confirms \cup Escrows \cup Releases \cup Crons \cup Refunds \cup Receipts :
         h \notin Payments
  BY <1>k DEF Requests
<1>cap. ASSUME NEW h \in Handlers, CaptureStep(h) PROVE SerialInv'
  BY <1>cap, <1>6, <1>7, <1>8, <1>9 DEF CaptureStep
<1>18. ASSUME NEW p \in Payments, ProcessInsert(p) \/ ProcessStep(p) \/ CaptureStep(p)
       PROVE  SerialInv'
  BY <1>18, <1>3, <1>4, <1>5, <1>cap, <1>h DEF ProcessStep
<1>19. ASSUME NEW h \in Confirms, ConfirmRead(h) \/ ConfirmStep(h) \/ CaptureStep(h)
       PROVE  SerialInv'
  BY <1>19, <1>10, <1>11, <1>cap, <1>17, <1>h DEF ConfirmStep
<1>20. ASSUME NEW h \in Escrows, EscrowRead(h) \/ Escrow(h) \/ LogEscrow(h) PROVE SerialInv'
  BY <1>20, <1>7, <1>8, <1>10, <1>17, <1>h
<1>21. ASSUME NEW h \in Releases \cup Crons, CronFind(h) \/ ReleaseRead(h) \/ LogRelease(h)
       PROVE  SerialInv'
  BY <1>21, <1>9, <1>10, <1>12, <1>17, <1>h
<1>22. ASSUME NEW h \in Refunds, RefundRead(h) \/ RefundStep(h) PROVE SerialInv'
  BY <1>22, <1>9, <1>10, <1>11, <1>13, <1>17, <1>h DEF RefundStep
<1>23. ASSUME NEW h \in Receipts, ReceiptRead(h) PROVE SerialInv'
  BY <1>23, <1>12, <1>17, <1>h
<1>24. ASSUME NEW h \in Handlers, SaveStep(h) PROVE SerialInv'
  BY <1>24, <1>1, <1>2 DEF SaveStep
<1> QED
  BY <1>14, <1>15, <1>16, <1>18, <1>19, <1>20, <1>21, <1>22, <1>23, <1>24, <1>h
     DEF Next, OneAtATime, CronStep

\* One handler at a time keeps the inductive invariant.
LEMMA SerialInvariant ==
  ASSUME OneAtATime
  PROVE  Spec => [](TypeOK /\ SerialInv)
<1>1. TypeOK /\ SerialInv /\ [Next]_vars => SerialInv'
  BY TypeOKStep, SerialStep
<1> QED BY <1>1, SerialStarts, TypeCorrect, PTL DEF Spec

-----------------------------------------------------------------------------
(* What follows from it.                                                   *)

\* In a save, and at any other label, the books of the handler's payment close.
LEMMA BooksClose ==
  ASSUME TypeOK, SerialInv, NEW p \in Payments
  PROVE  /\ log[p]["released"] <= 1 /\ log[p]["refunded"] <= 1
         /\ log[p]["released"] > 0 => refunds[p] = 0
<1>t. /\ row \in [Payments -> PaymentRow] /\ log \in [Payments -> [PaymentStatus -> Nat]]
  BY DEF TypeOK
<1>1. Quiet(p) \/ Unpaid(p)
  <2>1. CASE \A h \in InFlight : Of(h) # p
    BY <2>1 DEF SerialInv
  <2>2. CASE \E h \in InFlight : Of(h) = p
    BY <2>2 DEF SerialInv, Running, Saving
  <2> QED BY <2>1, <2>2
<1> QED BY <1>1, <1>t DEF Quiet, Unpaid

\* One handler at a time, the same money moves once: it is not released twice,
\* not given back twice, and not both released to the guide and given back.
THEOREM MoneyMovesOnceSerially ==
  ASSUME OneAtATime
  PROVE  Spec => []MoneyMovesOnce
<1>1. TypeOK /\ SerialInv => MoneyMovesOnce
  <2> SUFFICES ASSUME TypeOK, SerialInv, NEW p \in Payments
               PROVE  /\ log[p]["released"] <= 1 /\ log[p]["refunded"] <= 1
                      /\ ~(log[p]["released"] > 0 /\ refunds[p] > 0)
    BY DEF MoneyMovesOnce
  <2> QED BY BooksClose
<1> QED BY <1>1, SerialInvariant, PTL

\* One handler at a time, and none at work, every status the table shows is one
\* the transaction log tells of.
THEOREM StatusIsLoggedSerially ==
  ASSUME OneAtATime
  PROVE  Spec => []StatusIsLogged
<1>1. SerialInv => StatusIsLogged
  BY DEF SerialInv, StatusIsLogged, Quiet
<1> QED BY <1>1, SerialInvariant, PTL

\* One handler at a time, the status of a payment moves along
\* PAYMENT_STATE_TRANSITIONS, or to "failed".
THEOREM StatusFollowsMachine ==
  ASSUME OneAtATime
  PROVE  Spec => FollowsMachine
<1> DEFINE Moves(p) == row[p].status # "none" /\ row'[p].status # row[p].status =>
                         \/ IsValidPaymentTransition(row[p].status, row'[p].status)
                         \/ row'[p].status = "failed"
           A == \A p \in Payments : Moves(p)
<1>1. ASSUME TypeOK, SerialInv, [Next]_vars PROVE A
  <2> SUFFICES ASSUME NEW p \in Payments PROVE Moves(p)
    OBVIOUS
  <2>t. row \in [Payments -> PaymentRow] /\ mem \in [Handlers -> PaymentRow]
    BY <1>1 DEF TypeOK
  <2>1. ASSUME NEW h \in Handlers, SaveUpdate(h) PROVE Moves(p)
    <3>1. Saving(h) /\ dirty[h] = Changed(mem[h], row[Of(h)]) /\ Of(h) \in Payments
      BY <1>1, <2>1, OfIsPayment DEF SaveUpdate, SerialInv, InFlight, Running
    <3>2. row' = [row EXCEPT ![Of(h)] = mem[h]]
      BY <2>1, <2>t, <3>1, SaveWritesEntity DEF SaveUpdate
    <3> QED BY <2>t, <3>1, <3>2 DEF Saving, IsValidPaymentTransition, Transitions
  <2>2. ASSUME NEW q \in Payments, ProcessInsert(q) PROVE Moves(p)
    BY <1>1, <2>2, <2>t DEF ProcessInsert, SerialInv, Fresh
  <2>3. ASSUME row' = row PROVE Moves(p)
    BY <2>3
  <2>4. \A h \in Handlers : SaveSelect(h) \/ Throw(h) \/ Die(h) => row' = row
    BY DEF SaveSelect, Throw, Die
  <2>5. \A h : ProcessStep(h) \/ CaptureStep(h) \/ LostProcess(h) \/ StripeSettle(h) => row' = row
    BY DEF ProcessStep, ProcessIntent, ProcessDeclined, ProcessAuthorize, CaptureStep, Capture,
           Escrow, LogEscrow, Fail, LogFail, LostProcess, StripeSettle
  <2>6. \A h : ConfirmRead(h) \/ ConfirmStep(h) \/ LostConfirm(h) \/ EscrowRead(h) \/ CronStep(h)
                 => row' = row
    BY DEF ConfirmRead, ConfirmStep, ConfirmIntent, ConfirmRefused, LostConfirm, EscrowRead,
           CronStep, CronFind, ReleaseRead, LogRelease
  <2>7. \A h : \/ RefundRead(h) \/ RefundStep(h) \/ LostRefund(h) \/ ReceiptRead(h)
                 => row' = row
    BY DEF RefundRead, RefundStep, RefundStripe, RefundRefused, LogRefund, LostRefund, ReceiptRead
  <2>8. UNCHANGED vars => row' = row
    BY DEF vars
  <2> QED
    BY <1>1, <2>1, <2>2, <2>3, <2>4, <2>5, <2>6, <2>7, <2>8
       DEF Next, OneAtATime, SaveStep, CaptureStep, CronStep
<1>2. TypeOK /\ SerialInv /\ [Next]_vars => [A]_vars
  BY <1>1
<1>3. FollowsMachine <=> [][A]_vars
  BY DEF FollowsMachine
<1> QED BY <1>2, <1>3, SerialInvariant, PTL DEF Spec
=============================================================================
