------------------------------ MODULE Refunds -------------------------------
(***************************************************************************)
(* apps/payments/refund_service.py: refunds of one captured payment.       *)
(*                                                                         *)
(* Staff ask for refunds (create_refund): with the payment's row locked,   *)
(* the gateway is asked to send the money, and the answer is applied in    *)
(* the same transaction.  The gateway tells of every refund, also of those *)
(* made on its own pages, by webhooks, which come late, repeatedly and in  *)
(* any order (handle_refund_webhook, apply_refund).  Meanwhile the order   *)
(* may be cancelled.  Amounts are units of money; what a transaction       *)
(* writes becomes visible when it commits.                                 *)
(***************************************************************************)
EXTENDS OrderStates, UnitSums

CONSTANTS
    Workers,    \* concurrent requests and webhook deliveries
    Total,      \* the payment's total_amount
    Amounts,    \* bound: amounts staff ask to refund
    MaxRefunds, \* bound: refunds of the payment
    Stages,     \* bound: the statuses the paid order may have come to
    Nothing     \* no event

ASSUME RefundsAssumption ==
    /\ Total \in Nat \ {0}
    /\ Amounts \subseteq 1 .. Total
    /\ MaxRefunds \in Nat
    /\ Stages \subseteq Statuses \ {"draft", "cancelled", "partially_refunded", "refunded"}

VARIABLES
    order,      \* status and payment_status of the order's row
    payment,    \* refunded_amount and status of the PaymentTransaction
    rows,       \* the Refund rows, by refund_id
    gateway,    \* the refunds the gateway knows of
    events,     \* each webhook sent: whether its WebhookEvent is processed
    work        \* each worker's transaction

vars == <<order, payment, rows, gateway, events, work>>

Ids == 1 .. MaxRefunds
PaymentState == {"success", "partially_refunded", "refunded"}
Events == [id : Ids, says : {"initiated", "success", "failed"}]

\* doing   "refund": create_refund; "webhook"; "cancel": cancel_order
\* phase   "ask" the gateway; "failed": it has said no, or nothing;
\*         "read" the order; "write": all that is left is to write
\* seen    refunded_amount when the payment was locked; status: of the order's copy
NoWork == [doing |-> "none", phase |-> "read", id |-> 0, amount |-> 0, event |-> Nothing,
           seen |-> 0, status |-> "draft"]
Work ==
    [doing : {"none", "refund", "webhook", "cancel"}, phase : {"ask", "failed", "read", "write"},
     id : Ids \cup {0}, amount : 0 .. Total, event : Events \cup {Nothing},
     seen : 0 .. Total, status : Statuses]

RefundsTypeOK ==
    /\ order \in [status : Statuses, payment : {"paid", "partially_refunded", "refunded"}]
    /\ payment \in [refunded : 0 .. Total, status : PaymentState]
    /\ DOMAIN rows \subseteq Ids
    /\ rows \in [DOMAIN rows -> [amount : 1 .. Total, status : {"initiated", "success", "failed"}]]
    /\ DOMAIN gateway \subseteq Ids
    /\ gateway \in [DOMAIN gateway -> [amount : 1 .. Total, state : {"pending", "success", "failed"}]]
    /\ DOMAIN events \subseteq Events /\ events \in [DOMAIN events -> {"new", "processed"}]
    /\ work \in [Workers -> Work]

Init ==
    /\ order \in [status : Stages, payment : {"paid"}]
    /\ payment = [refunded |-> 0, status |-> "success"]
    /\ rows = [n \in {} |-> Nothing]
    /\ gateway = [n \in {} |-> Nothing]
    /\ events = [e \in {} |-> "new"]
    /\ work = [w \in Workers |-> NoWork]

\* f with f[x] = y.
With(f, x, y) == [z \in DOMAIN f \cup {x} |-> IF z = x THEN y ELSE f[z]]

-----------------------------------------------------------------------------
(* The gateway: it refunds no more than it has captured.                    *)

Tell(says) == events' = [e \in DOMAIN events \cup says |->
                            IF e \in DOMAIN events THEN events[e] ELSE "new"]

Amount(f) == [n \in DOMAIN f |-> f[n].amount]
Sent == SumOver(Amount(gateway), {n \in DOMAIN gateway : gateway[n].state # "failed"})

\* Refund n is under way; a webhook says that it is initiated.
Accepts(n, amount) ==
    /\ Sent + amount <= Total
    /\ gateway' = With(gateway, n, [amount |-> amount, state |-> "pending"])
    /\ Tell({[id |-> n, says |-> "initiated"]})

\* Ids are drawn at random: the next that is not in use.
Used == DOMAIN rows \cup DOMAIN gateway \cup {work[w].id : w \in Workers}
Fresh == {n \in Ids : n \notin Used /\ 1 .. n - 1 \subseteq Used}

\* A refund that is made on the gateway's own pages.
RefundsByItself(amount) ==
    /\ \E n \in Fresh : Accepts(n, amount)
    /\ UNCHANGED <<order, payment, rows, work>>

\* The money has arrived, or it has come back.
Concludes(n, state) ==
    /\ gateway[n].state = "pending"
    /\ gateway' = [gateway EXCEPT ![n].state = state]
    /\ Tell({[id |-> n, says |-> state]})
    /\ UNCHANGED <<order, payment, rows, work>>

-----------------------------------------------------------------------------
(* create_refund                                                            *)

Free(w) == work[w] = NoWork
Ends(w) == work' = [work EXCEPT ![w] = NoWork]

\* Mutant of LocksPayment: the payment is read without a lock.
ReadsPayment(w) == w \in Workers

\* PaymentTransaction.objects.select_for_update(): no other transaction is at it.
LocksPayment(w) == \A v \in Workers \ {w} : work[v].doing \notin {"refund", "webhook"}

\* Mutant of Outstanding: what has been refunded is forgotten.
OutstandingOfTotal(refunded) == Total

Outstanding(refunded) == Total - refunded

\* Initiated refunds do not count against what may be refunded.
CreateRefund(w, amount) ==
    /\ Free(w) /\ LocksPayment(w)
    /\ amount <= Outstanding(payment.refunded)
    /\ \E n \in Fresh :
         work' = [work EXCEPT ![w] = [NoWork EXCEPT !.doing = "refund", !.phase = "ask", !.id = n,
                                        !.amount = amount, !.seen = payment.refunded]]
    /\ UNCHANGED <<order, payment, rows, gateway, events>>

\* provider.refund: the gateway refuses, or it accepts; its answer may be lost.
CallsGateway(w) ==
    /\ work[w].phase = "ask"
    /\ \/ /\ Accepts(work[w].id, work[w].amount)
          /\ \E phase \in {"read", "failed"} : work' = [work EXCEPT ![w].phase = phase]
       \/ work' = [work EXCEPT ![w].phase = "failed"] /\ UNCHANGED <<gateway, events>>
    /\ UNCHANGED <<order, payment, rows>>

Unsuccessful(amount) == [amount |-> amount, status |-> "failed"]

\* result.success is false.
RecordsFailure(w) ==
    /\ work[w].phase = "failed"
    /\ rows' = With(rows, work[w].id, Unsuccessful(work[w].amount))
    /\ Ends(w)
    /\ UNCHANGED <<order, payment, gateway, events>>
-----------------------------------------------------------------------------
(* handle_refund_webhook, with its WebhookEvent's row locked.               *)

AppliedAlready(n) == n \in DOMAIN rows /\ rows[n].status = "success"

Delivers(w, e) ==
    /\ Free(w)
    /\ e \in DOMAIN events /\ events[e] = "new"
    /\ LocksPayment(w)

\* An event that is not SUCCESS is stored; so is one that comes too late.
StoresEvent(w, e) ==
    /\ Delivers(w, e) /\ e.says # "success"
    /\ rows' = With(rows, e.id, [amount |-> gateway[e.id].amount, status |-> e.says])
    /\ events' = [events EXCEPT ![e] = "processed"]
    /\ UNCHANGED <<order, payment, gateway, work>>

\* Idempotent re-delivery.
IgnoresEvent(w, e) ==
    /\ Delivers(w, e) /\ e.says = "success"
    /\ AppliedAlready(e.id)
    /\ events' = [events EXCEPT ![e] = "processed"]
    /\ UNCHANGED <<order, payment, rows, gateway, work>>

\* A SUCCESS to be applied; what exceeds the balance is refused, and comes again.
AcceptsEvent(w, e) ==
    /\ Delivers(w, e) /\ e.says = "success"
    /\ ~AppliedAlready(e.id)
    /\ gateway[e.id].amount <= Outstanding(payment.refunded)
    /\ work' = [work EXCEPT ![w] =
         [NoWork EXCEPT !.doing = "webhook", !.event = e, !.id = e.id,
                        !.amount = gateway[e.id].amount, !.seen = payment.refunded]]
    /\ UNCHANGED <<order, payment, rows, gateway, events>>

\* get_successful_transaction does not find a payment that is refunded; unless the
\* event names the payment by its provider_ref, nothing is done about it.
FindsNoPayment(w, e) ==
    /\ Free(w)
    /\ e \in DOMAIN events /\ events[e] = "new"
    /\ payment.status = "refunded"
    /\ events' = [events EXCEPT ![e] = "processed"]
    /\ UNCHANGED <<order, payment, rows, gateway, work>>

HandleRefundWebhook(w, e) ==
    StoresEvent(w, e) \/ IgnoresEvent(w, e) \/ AcceptsEvent(w, e) \/ FindsNoPayment(w, e)

-----------------------------------------------------------------------------
(* apply_refund of a success.                                               *)

\* payment.order: read, not locked.
ReadsOrder(w) ==
    /\ work[w].doing \in {"refund", "webhook"} /\ work[w].phase = "read"
    /\ work' = [work EXCEPT ![w].phase = "write", ![w].status = order.status]
    /\ UNCHANGED <<order, payment, rows, gateway, events>>

\* Mutant of Aggregate: a payment that is refunded exactly is still partly refunded.
AggregateIfMore(refunded) ==
    IF refunded > Total THEN "refunded" ELSE IF refunded > 0 THEN "partially_refunded" ELSE "success"

\* The status that goes with an amount.
Aggregate(refunded) ==
    IF refunded >= Total THEN "refunded" ELSE IF refunded > 0 THEN "partially_refunded" ELSE "success"

\* mark_refunded and mark_partially_refunded leave an order's status that is there.
StaysAs(status, target) ==
    status = target \/ (target = "partially_refunded" /\ status = "refunded")

\* All the rest, with the order's row locked, to the COMMIT.
AppliesRefund(w) ==
    LET refunded == work[w].seen + work[w].amount
        target == Aggregate(refunded)
    IN  /\ work[w].doing \in {"refund", "webhook"} /\ work[w].phase = "write"
        /\ StaysAs(work[w].status, target) \/ CanMove(FALSE, work[w].status, target)
        /\ order' = [status |-> IF StaysAs(work[w].status, target) THEN order.status ELSE target,
                     payment |-> target]
        /\ payment' = [refunded |-> refunded, status |-> target]
        /\ rows' = With(rows, work[w].id, [amount |-> work[w].amount, status |-> "success"])
        /\ events' = IF work[w].event = Nothing THEN events
                     ELSE [events EXCEPT ![work[w].event] = "processed"]
        /\ Ends(w)
        /\ UNCHANGED gateway

\* The order may not move there - it is cancelled: everything is rolled back, but for
\* what the gateway has been asked.
RaisesTransitionError(w) ==
    LET target == Aggregate(work[w].seen + work[w].amount)
    IN  /\ work[w].doing \in {"refund", "webhook"} /\ work[w].phase = "write"
        /\ ~(StaysAs(work[w].status, target) \/ CanMove(FALSE, work[w].status, target))
        /\ Ends(w)
        /\ UNCHANGED <<order, payment, rows, gateway, events>>

-----------------------------------------------------------------------------
(* cancel_order, and crashes.                                               *)

ReadsToCancel(w) ==
    /\ Free(w) /\ order.status \in CANCELLABLE_STATUSES
    /\ work' = [work EXCEPT ![w] = [NoWork EXCEPT !.doing = "cancel", !.phase = "write"]]
    /\ UNCHANGED <<order, payment, rows, gateway, events>>

Cancels(w) ==
    /\ work[w].doing = "cancel"
    /\ order' = [order EXCEPT !.status = "cancelled"]
    /\ Ends(w)
    /\ UNCHANGED <<payment, rows, gateway, events>>

Dies(w) ==
    /\ ~Free(w)
    /\ Ends(w)
    /\ UNCHANGED <<order, payment, rows, gateway, events>>

Next ==
    \/ \E amount \in Amounts : RefundsByItself(amount)
    \/ \E n \in DOMAIN gateway, state \in {"success", "failed"} : Concludes(n, state)
    \/ \E w \in Workers :
         \/ \E amount \in Amounts : CreateRefund(w, amount)
         \/ \E e \in Events : HandleRefundWebhook(w, e)
         \/ CallsGateway(w) \/ RecordsFailure(w)
         \/ ReadsOrder(w) \/ AppliesRefund(w) \/ RaisesTransitionError(w)
         \/ ReadsToCancel(w) \/ Cancels(w) \/ Dies(w)

Spec == Init /\ [][Next]_vars

-----------------------------------------------------------------------------
(* Properties.                                                              *)

\* However refunds, webhooks and cancellations overlap, fail and are rolled back, the
\* payment's status, the order's payment status and the order's status agree with the
\* amount refunded: they are written in one transaction.  A cancellation that has
\* read the order before may close it under another name.  And every refund that a row
\* calls successful is in that amount: no concurrent refund overwrites what another one
\* has added.
AggregatesAgree ==
    /\ payment.status = "success" <=> payment.refunded = 0
    /\ payment.status = "refunded" <=> payment.refunded = Total
    /\ order.payment = (IF payment.status = "success" THEN "paid" ELSE payment.status)
    /\ payment.status = "refunded" => order.status \in {"refunded", "cancelled"}
    /\ SumOver(Amount(rows), {n \in DOMAIN rows : rows[n].status = "success"}) <= payment.refunded

\* The refunded amount moves only when a row becomes successful, and by that row's
\* amount, whether create_refund, or a webhook that has overtaken it, applies it.
CountedWithItsRow ==
    [][payment'.refunded # payment.refunded =>
         \E n \in DOMAIN rows' :
            /\ rows'[n].status = "success" /\ ~AppliedAlready(n)
            /\ payment'.refunded = payment.refunded + rows'[n].amount]_vars

-----------------------------------------------------------------------------
(* The inductive invariant.                                                 *)

\* What a transaction under way has read or asked still holds: whoever is at the
\* payment has its amount and may add to it, by a row that is not successful yet.
AtPayment(r) == r.doing \in {"refund", "webhook"}
WorkFits(r) ==
    /\ r.phase \in {"ask", "failed"} => r.doing = "refund"
    /\ AtPayment(r) =>
         /\ r.id \in Ids /\ ~AppliedAlready(r.id)
         /\ r.amount > 0 /\ r.seen = payment.refunded /\ r.seen + r.amount <= Total
         /\ r.phase = "write" /\ r.status = "refunded" => order.status \in {"refunded", "cancelled"}

\* The payment's row is locked by one transaction at a time, and the gateway tells of
\* refunds it knows.
RefundsInv ==
    /\ RefundsTypeOK
    /\ AggregatesAgree
    /\ \A w \in Workers : WorkFits(work[w])
    /\ \A v, w \in Workers : AtPayment(work[v]) /\ AtPayment(work[w]) => v = w
    /\ \A e \in DOMAIN events : e.id \in DOMAIN gateway

-----------------------------------------------------------------------------
(* A statement of the code's documentation that the code does not keep.     *)

\* apply_refund applies a refund outcome idempotently: no more is counted as refunded
\* than the gateway has been asked to refund, whether it succeeds or not.
AppliedOnce ==
    payment.refunded <= SumOver(Amount(gateway), DOMAIN gateway)
=============================================================================
