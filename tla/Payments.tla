------------------------------ MODULE Payments ------------------------------
(***************************************************************************)
(* The payment service: payments.service.ts, the Stripe webhook, the hourly*)
(* escrow release and the administrator's refund, as concurrent handlers   *)
(* over the table payments, and Stripe, which settles, refunds and notifies*)
(* at its own pace.                                                        *)
(*                                                                         *)
(* No handler locks a row or opens a transaction.  Each reads an entity,   *)
(* works on it across awaits and saves it: save() reads the row again and  *)
(* updates the columns in which the two differ, in a step of its own.      *)
(*                                                                         *)
(* A payment is named after the processPayment request that inserts it;    *)
(* all of them are payments for one booking.                               *)
(***************************************************************************)
EXTENDS Integers, FiniteSets

CONSTANTS
  Payments,     \* processPayment requests, and the rows they insert
  Confirms,     \* confirmPayment requests, after a 3-D Secure redirect
  Escrows,      \* escrowFunds requests
  Releases,     \* releaseFunds requests
  Crons,        \* servers that run the hourly release
  Refunds,      \* refundPayment requests
  Receipts,     \* generateReceipt requests
  Admins,       \* issueRefund requests of an administrator
  Hooks,        \* webhook deliveries
  Outcomes,     \* what a PaymentIntent can be when Stripe answers: see Settled
  Whole,        \* the charge, in the units in which refunds are requested
  MaxInFlight,  \* bound on the handlers running at the same time
  MayFail       \* whether database calls fail and servers die

Requests == Confirms \cup Escrows \cup Releases \cup Crons \cup Refunds \cup Receipts
              \cup Admins \cup Hooks
Handlers == Payments \cup Requests

\* The handlers are of one kind each.
Apart(A, B) == A \cap B = {}
ASSUME KindsAssumption ==
  /\ Apart(Payments, Requests)
  /\ Apart(Confirms, Escrows \cup Releases \cup Crons \cup Refunds \cup Receipts \cup Admins \cup Hooks)
  /\ Apart(Escrows, Releases \cup Crons \cup Refunds \cup Receipts \cup Admins \cup Hooks)
  /\ Apart(Releases, Crons \cup Refunds \cup Receipts \cup Admins \cup Hooks)
  /\ Apart(Crons, Refunds \cup Receipts \cup Admins \cup Hooks)
  /\ Apart(Refunds, Receipts \cup Admins \cup Hooks)
  /\ Apart(Receipts, Admins \cup Hooks)
  /\ Apart(Admins, Hooks)

\* "charged": the money is there.  "action": a redirect is asked for.
\* "unsettled": processing, or an action that is not a redirect.
ASSUME BoundsAssumption ==
  /\ Outcomes \subseteq {"charged", "action", "unsettled"}
  /\ Whole \in Nat /\ MaxInFlight \in Nat
  /\ MayFail \in BOOLEAN

VARIABLES
  row,     \* table payments
  log,     \* table transaction_logs: entries of each payment by newStatus
  intent,  \* Stripe: the PaymentIntent of each payment
  refunds, \* Stripe: units of the charge refunded
  events,  \* Stripe: the events it delivers, at least once and in any order
  pc,      \* where each handler is
  then,    \* where it goes after the save it is in
  target,  \* the payment a request names; never changes
  mem,     \* the entity it holds in memory
  dirty    \* the columns its save() found changed

vars == <<row, log, intent, refunds, events, pc, then, target, mem, dirty>>
stripe == <<intent, refunds, events>>

-----------------------------------------------------------------------------
(* Rows, transitions and helpers.                                          *)

PaymentStatus == {"pending", "authorized", "captured", "escrowed", "released", "refunded",
                  "failed"}
Columns == {"status", "gateway", "escrowedAt"}

\* gateway, escrowedAt: whether the column is set.
PaymentRow == [status : PaymentStatus \cup {"none"}, gateway : BOOLEAN, escrowedAt : BOOLEAN]
NoRow      == [status |-> "none", gateway |-> FALSE, escrowedAt |-> FALSE]
PendingRow == [status |-> "pending", gateway |-> FALSE, escrowedAt |-> FALSE]

\* Mutant: the final states are not final.
TransitionsLoose ==
  {<<"pending", "authorized">>, <<"pending", "failed">>,
   <<"authorized", "captured">>, <<"authorized", "failed">>,
   <<"captured", "escrowed">>, <<"captured", "failed">>,
   <<"escrowed", "released">>, <<"escrowed", "refunded">>,
   <<"released", "released">>, <<"released", "refunded">>, <<"refunded", "refunded">>}

\* PAYMENT_STATE_TRANSITIONS.
Transitions ==
  {<<"pending", "authorized">>, <<"pending", "failed">>,
   <<"authorized", "captured">>, <<"authorized", "failed">>,
   <<"captured", "escrowed">>, <<"captured", "failed">>,
   <<"escrowed", "released">>, <<"escrowed", "refunded">>}
IsValidPaymentTransition(from, to) == <<from, to>> \in Transitions

\* Mutant: Stripe's own word is taken for a status.
EventStatusRaw(e) == e

\* The status a webhook event stands for.
EventStatus(e) == IF e = "succeeded" THEN "captured"
                  ELSE IF e = "payment_failed" THEN "failed" ELSE "refunded"

Changed(entity, r) ==
  {col \in Columns : \/ col = "status"     /\ entity.status     # r.status
                     \/ col = "gateway"    /\ entity.gateway    # r.gateway
                     \/ col = "escrowedAt" /\ entity.escrowedAt # r.escrowedAt}
Merge(r, entity, cols) ==
  [status     |-> IF "status"     \in cols THEN entity.status     ELSE r.status,
   gateway    |-> IF "gateway"    \in cols THEN entity.gateway    ELSE r.gateway,
   escrowedAt |-> IF "escrowedAt" \in cols THEN entity.escrowedAt ELSE r.escrowedAt]

Of(h) == IF h \in Payments THEN h ELSE target[h]
InFlight == {h \in Handlers : pc[h] \notin {"idle", "done"}}
Starts(h) == pc[h] = "idle" /\ Cardinality(InFlight) < MaxInFlight /\ row[Of(h)].status # "none"

Goto(h, label) == pc' = [pc EXCEPT ![h] = label]
\* A cron is idle until its next hour; any other handler has ended.
End(h) == IF h \in Crons THEN "idle" ELSE "done"

\* "await paymentRepo.save(entity)", and then on to label.
Save(h, entity, label) ==
  /\ mem' = [mem EXCEPT ![h] = entity]
  /\ then' = [then EXCEPT ![h] = label]
  /\ Goto(h, "select")
\* "await this.logTransaction(...)" with newStatus s.
Log(h, s) == log' = [log EXCEPT ![Of(h)][s] = @ + 1]

WithGateway(entity) ==
  [status |-> entity.status, gateway |-> TRUE, escrowedAt |-> entity.escrowedAt]
WithStatus(entity, s) ==
  [status |-> s, gateway |-> entity.gateway, escrowedAt |-> entity.escrowedAt]
\* Stripe answers a confirmation of p ("action" and "unsettled" are no charge yet),
\* or refunds a part of its charge.
StripeAnswers(p, outcome) ==
  /\ intent' = [intent EXCEPT ![p] = outcome]
  /\ events' = [events EXCEPT ![p] = IF outcome = "charged" THEN @ \cup {"succeeded"} ELSE @]
StripeRefunds(p) ==
  /\ intent[p] = "charged"
  /\ \E n \in 1..(Whole - refunds[p]) : refunds' = [refunds EXCEPT ![p] = @ + n]
  /\ events' = [events EXCEPT ![p] = @ \cup {"refunded"}]

\* Mutant: escrowedAt is not set.
EscrowedUndated(entity) ==
  [status |-> "escrowed", gateway |-> entity.gateway, escrowedAt |-> entity.escrowedAt]
Escrowed(entity) ==
  [status |-> "escrowed", gateway |-> entity.gateway, escrowedAt |-> TRUE]

-----------------------------------------------------------------------------
(* save(): the SELECT, and the UPDATE of what differs.                     *)

SaveSelect(h) ==
  /\ pc[h] = "select"
  /\ dirty' = [dirty EXCEPT ![h] = Changed(mem[h], row[Of(h)])]
  /\ Goto(h, "update")
  /\ UNCHANGED <<row, log, stripe, then, target, mem>>

SaveUpdate(h) ==
  /\ pc[h] = "update"
  /\ row' = [row EXCEPT ![Of(h)] = Merge(@, mem[h], dirty[h])]
  /\ dirty' = [dirty EXCEPT ![h] = {}]
  /\ Goto(h, then[h])
  /\ UNCHANGED <<log, stripe, then, target, mem>>

-----------------------------------------------------------------------------
(* processPayment.                                                         *)

ProcessInsert(p) ==
  /\ pc[p] = "idle" /\ Cardinality(InFlight) < MaxInFlight
  /\ row' = [row EXCEPT ![p] = PendingRow]
  /\ mem' = [mem EXCEPT ![p] = PendingRow]
  /\ Goto(p, "intent")
  /\ UNCHANGED <<log, stripe, then, target, dirty>>

\* Stripe creates and confirms the intent; only a redirect URL is looked at.
ProcessIntent(p) ==
  /\ pc[p] = "intent"
  /\ \E outcome \in Outcomes :
       /\ StripeAnswers(p, outcome)
       /\ Goto(p, IF outcome = "action" THEN "redirect" ELSE "authorize")
  /\ mem' = [mem EXCEPT ![p] = WithGateway(@)]
  /\ UNCHANGED <<row, log, refunds, then, target, dirty>>

\* The card is declined, which is an exception.
ProcessDeclined(p) ==
  /\ pc[p] = "intent"
  /\ intent' = [intent EXCEPT ![p] = "declined"]
  /\ events' = [events EXCEPT ![p] = {"payment_failed"}]
  /\ Goto(p, "fail")
  /\ UNCHANGED <<row, log, refunds, then, target, mem, dirty>>

\* Log AUTHORIZE, save; a 3-D Secure payment then waits for confirmPayment.
ProcessAuthorize(p) ==
  /\ pc[p] \in {"authorize", "redirect"}
  /\ Log(p, "authorized")
  /\ Save(p, WithStatus(mem[p], "authorized"), IF pc[p] = "redirect" THEN "done" ELSE "capture")
  /\ UNCHANGED <<row, stripe, target, dirty>>

-----------------------------------------------------------------------------
(* Capture and escrow, as processPayment, confirmPayment and escrowFunds   *)
(* share them, and the catch block of the first two.                       *)

\* Log CAPTURE, save.
Capture(h) ==
  /\ pc[h] = "capture"
  /\ Log(h, "captured")
  /\ Save(h, WithStatus(mem[h], "captured"), "escrow")
  /\ UNCHANGED <<row, stripe, target, dirty>>

\* Mutant: the escrow is not logged.
EscrowUnlogged(h) ==
  /\ pc[h] = "escrow"
  /\ Save(h, Escrowed(mem[h]), "done")
  /\ UNCHANGED <<row, log, stripe, target, dirty>>

\* Save with escrowedAt ...
Escrow(h) ==
  /\ pc[h] = "escrow"
  /\ Save(h, Escrowed(mem[h]), "logEscrow")
  /\ UNCHANGED <<row, log, stripe, target, dirty>>

\* ... and log ESCROW; processPayment saves once more, for the receipt URL.
LogEscrow(h) ==
  /\ pc[h] = "logEscrow"
  /\ Log(h, "escrowed")
  /\ IF h \in Payments THEN Save(h, mem[h], "done")
     ELSE Goto(h, "done") /\ UNCHANGED <<then, mem>>
  /\ UNCHANGED <<row, stripe, target, dirty>>

\* catch: FAILED is saved, and then logged, over whatever the row says.
Fail(h) ==
  /\ pc[h] = "fail"
  /\ Save(h, WithStatus(mem[h], "failed"), "logFail")
  /\ UNCHANGED <<row, log, stripe, target, dirty>>

LogFail(h) ==
  /\ pc[h] = "logFail"
  /\ Log(h, "failed")
  /\ Goto(h, "done")
  /\ UNCHANGED <<row, stripe, then, target, mem, dirty>>

-----------------------------------------------------------------------------
(* confirmPayment.                                                         *)

ConfirmRead(h) ==
  /\ Starts(h)
  /\ IF row[Of(h)].status = "authorized"
     THEN mem' = [mem EXCEPT ![h] = row[Of(h)]] /\ Goto(h, "confirm")
     ELSE Goto(h, "done") /\ UNCHANGED mem
  /\ UNCHANGED <<row, log, stripe, then, target, dirty>>

\* Mutant: the redirect URL is not looked at.
ConfirmIntentBlind(h) ==
  /\ pc[h] = "confirm" /\ mem[h].gateway /\ intent[Of(h)] = "action"
  /\ \E outcome \in Outcomes : StripeAnswers(Of(h), outcome)
  /\ Goto(h, "capture")
  /\ UNCHANGED <<row, log, refunds, then, target, mem, dirty>>

\* Stripe confirms an intent that waits for the redirect: it may ask for it
\* again (which is an answer), or it settles.
ConfirmIntent(h) ==
  /\ pc[h] = "confirm" /\ mem[h].gateway /\ intent[Of(h)] = "action"
  /\ \E outcome \in Outcomes :
       /\ StripeAnswers(Of(h), outcome)
       /\ Goto(h, IF outcome = "action" THEN "done" ELSE "capture")
  /\ UNCHANGED <<row, log, refunds, then, target, mem, dirty>>

\* Stripe refuses to confirm any other intent, also one it has charged, or an
\* entity that names none.
ConfirmRefused(h) ==
  /\ pc[h] = "confirm" /\ (~mem[h].gateway \/ intent[Of(h)] # "action")
  /\ Goto(h, "fail")
  /\ UNCHANGED <<row, log, stripe, then, target, mem, dirty>>

-----------------------------------------------------------------------------
(* escrowFunds, releaseFunds, refundPayment, generateReceipt.              *)

\* Mutant: no check of the status.
EscrowReadUnchecked(h) ==
  /\ Starts(h)
  /\ mem' = [mem EXCEPT ![h] = row[Of(h)]] /\ Goto(h, "escrow")
  /\ UNCHANGED <<row, log, stripe, then, target, dirty>>

EscrowRead(h) ==
  /\ Starts(h)
  /\ IF IsValidPaymentTransition(row[Of(h)].status, "escrowed")
     THEN mem' = [mem EXCEPT ![h] = row[Of(h)]] /\ Goto(h, "escrow")
     ELSE Goto(h, "done") /\ UNCHANGED mem
  /\ UNCHANGED <<row, log, stripe, then, target, dirty>>

\* The hourly job lists the payments escrowed long enough ago ...
CronFind(h) ==
  /\ Starts(h)
  /\ row[Of(h)].status = "escrowed" /\ row[Of(h)].escrowedAt
  /\ Goto(h, "release")
  /\ UNCHANGED <<row, log, stripe, then, target, mem, dirty>>

\* ... and calls releaseFunds for each, which reads it again.
ReleaseRead(h) ==
  LET entity == row[Of(h)] IN
  /\ IF h \in Crons THEN pc[h] = "release" ELSE Starts(h)
  /\ IF IsValidPaymentTransition(entity.status, "released")
     THEN Save(h, WithStatus(entity, "released"), "logRelease")
     ELSE Goto(h, End(h)) /\ UNCHANGED <<then, mem>>
  /\ UNCHANGED <<row, log, stripe, target, dirty>>

LogRelease(h) ==
  /\ pc[h] = "logRelease"
  /\ Log(h, "released")
  /\ Goto(h, End(h))
  /\ UNCHANGED <<row, stripe, then, target, mem, dirty>>

RefundRead(h) ==
  /\ Starts(h)
  /\ IF IsValidPaymentTransition(row[Of(h)].status, "refunded")
     THEN mem' = [mem EXCEPT ![h] = row[Of(h)]] /\ Goto(h, "refund")
     ELSE Goto(h, "done") /\ UNCHANGED mem
  /\ UNCHANGED <<row, log, stripe, then, target, dirty>>

\* Stripe refunds the requested part of the charge ...
RefundStripe(h) ==
  /\ pc[h] = "refund" /\ mem[h].gateway
  /\ StripeRefunds(Of(h))
  /\ Save(h, WithStatus(mem[h], "refunded"), "logRefund")
  /\ UNCHANGED <<row, log, intent, target, dirty>>

\* Mutant: the error of Stripe is swallowed.
RefundRefusedIgnored(h) ==
  /\ pc[h] = "refund"
  /\ Save(h, WithStatus(mem[h], "refunded"), "logRefund")
  /\ UNCHANGED <<row, log, stripe, target, dirty>>

\* ... or refuses: there is no such charge, not so much left of it, or it cannot.
RefundRefused(h) ==
  /\ pc[h] = "refund"
  /\ Goto(h, "done")
  /\ UNCHANGED <<row, log, stripe, then, target, mem, dirty>>

LogRefund(h) ==
  /\ pc[h] = "logRefund"
  /\ Log(h, "refunded")
  /\ Goto(h, "done")
  /\ UNCHANGED <<row, stripe, then, target, mem, dirty>>

\* The entity is read, the PDF made, and the entity saved with its receipt URL.
ReceiptRead(h) ==
  /\ Starts(h)
  /\ Save(h, row[Of(h)], "done")
  /\ UNCHANGED <<row, log, stripe, target, dirty>>

-----------------------------------------------------------------------------
(* The administrator's refund: no call to Stripe, no transaction log.      *)

AdminRead(h) ==
  /\ Starts(h)
  /\ Goto(h, IF row[Of(h)].status \in {"escrowed", "captured", "released"} THEN "admin" ELSE "done")
  /\ UNCHANGED <<row, log, stripe, then, target, mem, dirty>>

AdminUpdate(h) ==
  /\ pc[h] = "admin"
  /\ row' = [row EXCEPT ![Of(h)] = WithStatus(@, "refunded")]
  /\ Goto(h, "done")
  /\ UNCHANGED <<log, stripe, then, target, mem, dirty>>

-----------------------------------------------------------------------------
(* The webhook.                                                            *)

\* The row is looked up by gatewayTransactionId; an event about none is
\* dropped, any other sets the status, whatever it is.
HookRead(h) ==
  LET p == Of(h) IN
  /\ Starts(h)
  /\ \E e \in events[p] :
       IF row[p].gateway
       THEN Save(h, WithStatus(row[p], EventStatus(e)), "done")
       ELSE Goto(h, "done") /\ UNCHANGED <<then, mem>>
  /\ UNCHANGED <<row, log, stripe, target, dirty>>

-----------------------------------------------------------------------------
(* Stripe and the faults.                                                  *)

\* An intent that waits for the customer, or is processing, settles.
StripeSettle(p) ==
  /\ intent[p] \in {"action", "unsettled"}
  /\ \/ /\ intent' = [intent EXCEPT ![p] = "charged"]
        /\ events' = [events EXCEPT ![p] = @ \cup {"succeeded"}]
     \/ /\ intent' = [intent EXCEPT ![p] = "declined"]
        /\ events' = [events EXCEPT ![p] = @ \cup {"payment_failed"}]
  /\ UNCHANGED <<row, log, refunds, pc, then, target, mem, dirty>>

\* A save or a log entry throws.  processPayment and confirmPayment go to their
\* catch block, where such an error is swallowed; the others end.
Awaits == {"authorize", "redirect", "capture", "escrow", "select", "update", "logEscrow",
           "logRelease", "logRefund", "admin"}
Throw(h) ==
  /\ MayFail /\ pc[h] \in Awaits
  /\ dirty' = [dirty EXCEPT ![h] = {}]
  /\ Goto(h, IF pc[h] \in {"select", "update"} /\ then[h] = "logFail" THEN "logFail"
             ELSE IF h \in Payments \cup Confirms THEN "fail" ELSE End(h))
  /\ UNCHANGED <<row, log, stripe, then, target, mem>>

\* Stripe does what it is asked and its answer is lost: an exception, as if it
\* had refused.
LostProcess(p) ==
  /\ MayFail /\ pc[p] = "intent"
  /\ \E outcome \in Outcomes : StripeAnswers(p, outcome)
  /\ Goto(p, "fail")
  /\ UNCHANGED <<row, log, refunds, then, target, mem, dirty>>
LostConfirm(h) ==
  /\ MayFail /\ pc[h] = "confirm" /\ mem[h].gateway /\ intent[Of(h)] = "action"
  /\ \E outcome \in Outcomes : StripeAnswers(Of(h), outcome)
  /\ Goto(h, "fail")
  /\ UNCHANGED <<row, log, refunds, then, target, mem, dirty>>
LostRefund(h) ==
  /\ MayFail /\ pc[h] = "refund" /\ mem[h].gateway
  /\ StripeRefunds(Of(h))
  /\ Goto(h, "done")
  /\ UNCHANGED <<row, log, intent, then, target, mem, dirty>>

\* The server dies; the entity in memory is gone.
Die(h) ==
  /\ MayFail /\ h \in InFlight
  /\ Goto(h, End(h))
  /\ dirty' = [dirty EXCEPT ![h] = {}]
  /\ UNCHANGED <<row, log, stripe, then, target, mem>>

-----------------------------------------------------------------------------
Init ==
  /\ row = [p \in Payments |-> NoRow]
  /\ log = [p \in Payments |-> [s \in PaymentStatus |-> 0]]
  /\ intent = [p \in Payments |-> "none"]
  /\ refunds = [p \in Payments |-> 0]
  /\ events = [p \in Payments |-> {}]
  /\ pc = [h \in Handlers |-> "idle"]
  /\ then = [h \in Handlers |-> "done"]
  /\ target \in [Requests -> Payments]
  /\ mem = [h \in Handlers |-> NoRow]
  /\ dirty = [h \in Handlers |-> {}]

\* What a handler does by itself, once it has started.
SaveStep(h)    == SaveSelect(h) \/ SaveUpdate(h)
ProcessStep(p) == ProcessIntent(p) \/ ProcessDeclined(p) \/ ProcessAuthorize(p)
CaptureStep(h) == Capture(h) \/ Escrow(h) \/ LogEscrow(h) \/ Fail(h) \/ LogFail(h)
ConfirmStep(h) == ConfirmIntent(h) \/ ConfirmRefused(h)
RefundStep(h)  == RefundStripe(h) \/ RefundRefused(h) \/ LogRefund(h)
CronStep(h)    == CronFind(h) \/ ReleaseRead(h) \/ LogRelease(h)

Next ==
  \/ \E p \in Payments : ProcessInsert(p) \/ ProcessStep(p) \/ CaptureStep(p) \/ LostProcess(p)
  \/ \E p \in Payments : StripeSettle(p)
  \/ \E h \in Confirms : ConfirmRead(h) \/ ConfirmStep(h) \/ CaptureStep(h) \/ LostConfirm(h)
  \/ \E h \in Escrows  : EscrowRead(h) \/ Escrow(h) \/ LogEscrow(h)
  \/ \E h \in Releases : ReleaseRead(h) \/ LogRelease(h)
  \/ \E h \in Crons    : CronStep(h)
  \/ \E h \in Refunds  : RefundRead(h) \/ RefundStep(h) \/ LostRefund(h)
  \/ \E h \in Receipts : ReceiptRead(h)
  \/ \E h \in Admins   : AdminRead(h) \/ AdminUpdate(h)
  \/ \E h \in Hooks    : HookRead(h)
  \/ \E h \in Handlers : SaveStep(h) \/ Throw(h) \/ Die(h)

Spec == Init /\ [][Next]_vars

\* Scheduling: a started handler goes on, and the hourly job keeps running.
\* Nothing is assumed of the clients, of the customer or of the webhook.
FairSpec ==
  /\ Spec
  /\ \A h \in Handlers : WF_vars(SaveStep(h))
  /\ \A p \in Payments : WF_vars(ProcessStep(p)) /\ WF_vars(CaptureStep(p))
  /\ \A h \in Confirms : WF_vars(ConfirmStep(h)) /\ WF_vars(CaptureStep(h))
  /\ \A h \in Escrows  : WF_vars(Escrow(h) \/ LogEscrow(h))
  /\ \A h \in Releases : WF_vars(LogRelease(h))
  /\ \A h \in Crons    : WF_vars(CronStep(h))
  /\ \A h \in Refunds  : WF_vars(RefundStep(h))
  /\ \A h \in Admins   : WF_vars(AdminUpdate(h))

-----------------------------------------------------------------------------
(* Properties.                                                             *)

Labels == {"idle", "intent", "authorize", "redirect", "capture", "escrow", "logEscrow", "fail",
           "logFail", "confirm", "release", "logRelease", "refund", "logRefund", "admin",
           "select", "update", "done"}

\* Every variable has its type.
TypeOK ==
  /\ row \in [Payments -> PaymentRow]
  /\ log \in [Payments -> [PaymentStatus -> Nat]]
  /\ intent \in [Payments -> {"none", "action", "unsettled", "charged", "declined"}]
  /\ refunds \in [Payments -> 0..Whole]
  /\ events \in [Payments -> SUBSET {"succeeded", "payment_failed", "refunded"}]
  /\ pc \in [Handlers -> Labels]
  /\ then \in [Handlers -> Labels]
  /\ target \in [Requests -> Payments]
  /\ mem \in [Handlers -> PaymentRow]
  /\ dirty \in [Handlers -> SUBSET Columns]

\* Money that the table says is captured, held or released has been charged,
\* whatever stale entity was saved last.
EscrowHoldsMoney ==
  \A p \in Payments :
    row[p].status \in {"captured", "escrowed", "released"} => intent[p] = "charged"

\* A payment the table calls refunded has been refunded by Stripe (without
\* the administrator's refund, which does not ask Stripe).
RefundIsReal ==
  \A p \in Payments : row[p].status = "refunded" => refunds[p] > 0

\* The same money moves once: it is not released twice, not given back twice,
\* and not both released to the guide and given back.
MoneyMovesOnce ==
  \A p \in Payments :
    /\ log[p]["released"] <= 1
    /\ log[p]["refunded"] <= 1
    /\ ~(log[p]["released"] > 0 /\ refunds[p] > 0)

\* While no handler is at work, the status of a payment is one the transaction
\* log tells of.
StatusIsLogged ==
  InFlight = {} =>
    \A p \in Payments :
      row[p].status \notin {"none", "pending"} => log[p][row[p].status] > 0

\* The status moves as the state machine says, or to "failed".
FollowsMachine ==
  [][\A p \in Payments :
       row[p].status # "none" /\ row'[p].status # row[p].status =>
         \/ IsValidPaymentTransition(row[p].status, row'[p].status)
         \/ row'[p].status = "failed"]_vars

\* Funds in escrow do not stay there: they are released or given back.
EscrowIsSettled ==
  \A p \in Payments :
    row[p].status = "escrowed" ~> row[p].status \in {"released", "refunded", "failed"}
=============================================================================
