---------------------------- MODULE TenderLedger ----------------------------
(***************************************************************************)
(* apps/payments/tender_service.py and its callers at the counter: how one *)
(* counter sale is paid in several legs, discounted or abandoned while     *)
(* tills and gateway webhooks work on it concurrently.                     *)
(*                                                                         *)
(* Every request reads the order before its transaction begins.            *)
(* record_tender locks the order's row and reads it again; the manual      *)
(* discount and the voiding of a sale work on the copy they have.  A save  *)
(* writes only the columns it names: what a request has written is held in *)
(* `wrote' and `legs' until it commits, and the order's row is locked from *)
(* the first such write (or SELECT FOR UPDATE) on.                         *)
(*                                                                         *)
(* One order is modelled: nothing here relates two orders but the unique   *)
(* provider_ref, and a gateway payment is of one order.  Money is counted  *)
(* in indivisible units.                                                   *)
(***************************************************************************)
EXTENDS Integers, FiniteSets, UnitSums

CONSTANTS
    Requests,    \* concurrent requests and tasks
    Refs,        \* gateway payments, by provider_ref
    NoRef,       \* no provider_ref
    Price,       \* the order's grand_total when it is placed
    MaxTenders   \* bound: OrderTender rows ever created

ASSUME PriceAssumption == Price \in Nat \ {0}
ASSUME TendersAssumption == MaxTenders \in Nat

VARIABLES
    order,       \* the Order row
    tenders,     \* OrderTender, by id
    req,         \* each request's copy of the order and uncommitted writes
    settled,     \* how often mark_paid has been run for the order
    drifted      \* history: a race has left the order behind its ledger

vars == <<order, tenders, req, settled, drifted>>

Ids == 1 .. MaxTenders
Amounts == 1 .. Price

-----------------------------------------------------------------------------
(* The order and its ledger.                                               *)

Order ==
    [status : {"placed", "paid", "completed", "cancelled"},
     payment_status : {"pending", "failed", "part_paid", "paid"},
     grand_total : Int, manual_discount : Int, carry_away : BOOLEAN]

Columns == {"status", "payment_status", "grand_total", "manual_discount"}

NoTender == [status |-> "none"]
Methods == {"cash", "upi", "gateway"}
Leg == [status : {"captured", "voided"}, method : Methods, amount : Amounts,
        ref : Refs \cup {NoRef}]

AtLeastZero(n) == IF n < 0 THEN 0 ELSE n

Captured(ts) == {t \in Ids : ts[t].status = "captured"}

\* amount_paid.
AmountPaid(ts) == SumOver([t \in Captured(ts) |-> ts[t].amount], Captured(ts))

\* balance_due.
BalanceDue(o, ts) == AtLeastZero(o.grand_total - AmountPaid(ts))

\* derive_payment_status (the refund states are not reached here).
DerivePaymentStatus(o, ts) ==
    LET paid == AmountPaid(ts)
    IN  CASE paid <= 0 -> IF o.payment_status = "failed" THEN "failed" ELSE "pending"
          [] paid > 0 /\ paid >= o.grand_total -> "paid"
          [] OTHER -> "part_paid"

\* Mutant of Settles: mark_paid is run whatever the order's status is.
SettlesAlways(o, ts) ==
    DerivePaymentStatus(o, ts) = "paid" /\ o.payment_status # "paid"

\* Mutant of Settles: the first money settles the order.
SettlesOnAnyMoney(o, ts) ==
    AmountPaid(ts) > 0 /\ o.payment_status # "paid" /\ o.status = "placed"

\* sync_payment_status runs mark_paid.
Settles(o, ts) ==
    /\ DerivePaymentStatus(o, ts) = "paid"
    /\ o.payment_status # "paid"
    /\ o.status = "placed"

\* mark_paid: a carry-away sale is completed at once.
MarkPaid(o) ==
    [o EXCEPT !.payment_status = "paid",
              !.status = IF o.carry_away THEN "completed" ELSE "paid"]

\* Mutant of Synced: only full settlement is written to the order.
SyncedIfSettled(o, ts) == IF Settles(o, ts) THEN MarkPaid(o) ELSE o

\* sync_payment_status.
Synced(o, ts) ==
    IF Settles(o, ts) THEN MarkPaid(o)
    ELSE [o EXCEPT !.payment_status = DerivePaymentStatus(o, ts)]

\* CANCELLABLE_STATUSES.
Cancellable == {"placed", "paid"}

Changed(o, p) == {c \in Columns : o[c] # p[c]}

-----------------------------------------------------------------------------
(* Requests.                                                               *)

\* at        what the request does next
\* copy      the order as the request has it in memory
\* due       the amount the next tender is for; ref its provider_ref
\* todo      the legs still to be voided
\* save      columns of the copy an UPDATE is about to write
\* wrote     columns written, not committed;   legs  tenders written, not committed
\* locks     the request has locked the order's row
\* paid      it has run mark_paid
\* overtaken history: a tender was committed or voided since it read the ledger
Points == {"idle", "upi", "gateway", "record", "void", "void_upi", "cancel",
           "discount", "expire", "expired", "expire_cancel", "done"}

Idle(o) ==
    [at |-> "idle", method |-> "cash", copy |-> o, due |-> 0, ref |-> NoRef,
     todo |-> {}, save |-> {}, wrote |-> <<>>, legs |-> <<>>,
     locks |-> FALSE, paid |-> FALSE, overtaken |-> FALSE]

\* An idle request has no copy: a fixed one stands for it.
NewOrder(carry_away) ==
    [status |-> "placed", payment_status |-> "pending", grand_total |-> Price,
     manual_discount |-> 0, carry_away |-> carry_away]

Off(r) == r.at = "idle"
Rest == Idle(NewOrder(FALSE))

\* Mutant of CanLock: the order is read without FOR UPDATE.
CanAlwaysRead(w) == w \in Requests

\* Nobody else has locked the order's row.
CanLock(w) == \A v \in Requests \ {w} : ~req[v].locks

\* No other request has written leg t.
CanLockLeg(w, t) == \A v \in Requests \ {w} : t \notin DOMAIN req[v].legs

\* What request r reads: its own writes over what is committed.
SeenOrder(r) ==
    [c \in DOMAIN order |-> IF c \in DOMAIN r.wrote THEN r.wrote[c] ELSE order[c]]
SeenTenders(r) ==
    [t \in Ids |-> IF t \in DOMAIN r.legs THEN r.legs[t] ELSE tenders[t]]

Put(f, S, g) == [x \in DOMAIN f \cup S |-> IF x \in S THEN g[x] ELSE f[x]]

\* A request that has written the legs of ids.
RequestOver(wrote, ids) ==
    [at : Points, method : Methods, copy : Order, due : Nat, ref : Refs \cup {NoRef},
     todo : SUBSET Ids, save : SUBSET Columns, wrote : {wrote}, legs : [ids -> Leg],
     locks : BOOLEAN, paid : BOOLEAN, overtaken : BOOLEAN]

IsRequest(r) ==
    /\ DOMAIN r.wrote \subseteq Columns
    /\ DOMAIN r.legs \subseteq Ids
    /\ r \in RequestOver(r.wrote, DOMAIN r.legs)

TypeOK ==
    /\ order \in Order
    /\ tenders \in [Ids -> Leg \cup {NoTender}]
    /\ req = [w \in Requests |-> req[w]]
    /\ \A w \in Requests : IsRequest(req[w]) /\ SeenOrder(req[w]) \in Order
    /\ settled \in Nat
    /\ drifted \in BOOLEAN

Init ==
    /\ order \in {NewOrder(carry_away) : carry_away \in BOOLEAN}
    /\ tenders = [t \in Ids |-> NoTender]
    /\ req = [w \in Requests |-> Rest]
    /\ settled = 0
    /\ drifted = FALSE

-----------------------------------------------------------------------------
(* How requests begin: the view, or the task, loads the order.             *)

Begin(w, at, method, due, ref) ==
    /\ Off(req[w])
    /\ req' = [req EXCEPT ![w] =
                 [Rest EXCEPT !.at = at, !.method = method, !.copy = order,
                              !.due = due, !.ref = ref]]
    /\ UNCHANGED <<order, tenders, settled, drifted>>

\* take_cash_tender: the amount comes from the till.
TakeCashTender(w, amount) == Begin(w, "record", "cash", amount, NoRef)

\* take_upi_tender: the amount will be the outstanding balance.
TakeUpiTender(w) == Begin(w, "upi", "upi", 0, NoRef)

\* settle_gateway_payment: a webhook, the checkout's verifier or the reconciler
\* reports the payment `ref' of `amount'; each of them may, any number of times.
SettleGatewayPayment(w, ref, amount) == Begin(w, "gateway", "gateway", amount, ref)

VoidSale(w) == Begin(w, "void", "cash", 0, NoRef)

ApplyManualDiscount(w, off) == Begin(w, "discount", "cash", off, NoRef)

\* expire_stale_razorpay_orders_task comes to the order: it has a gateway
\* transaction that has been open for too long and that the gateway does not
\* report as paid.
ExpireStaleOrder(w) == Begin(w, "expire", "gateway", 0, NoRef)

-----------------------------------------------------------------------------
(* Recording a tender.                                                     *)

\* The balance, read before the order is locked: from the copy's total and the
\* ledger.  A UPI tender is for all of it, a gateway tender for no more.
ReadBalance(w) ==
    LET r == req[w]
        outstanding == BalanceDue(r.copy, tenders)
    IN  /\ r.at \in {"upi", "gateway"}
        /\ outstanding > 0
        /\ req' = [req EXCEPT ![w] =
             [r EXCEPT !.at = "record",
                       !.due = IF r.at = "gateway" /\ r.due < outstanding
                               THEN r.due ELSE outstanding]]
        /\ UNCHANGED <<order, tenders, settled, drifted>>

\* Nothing is outstanding: take_upi_tender raises, settle_gateway_payment returns None.
NothingDue(w) ==
    /\ req[w].at \in {"upi", "gateway"}
    /\ BalanceDue(req[w].copy, tenders) <= 0
    /\ req' = [req EXCEPT ![w] = Rest]
    /\ UNCHANGED <<order, tenders, settled, drifted>>

\* Mutant of Known: redelivery is not recognised.
NeverKnown(ref) == ref \notin Refs \cup {NoRef}

\* A tender with this provider_ref has been recorded.
Known(ref) ==
    ref # NoRef /\ \E t \in Ids : tenders[t] # NoTender /\ tenders[t].ref = ref

\* The row is created under the order's lock: one request at a time.
FreshId == {t \in Ids : tenders[t] = NoTender /\ \A u \in Ids : u < t => tenders[u] # NoTender}

\* record_tender, from SELECT FOR UPDATE to sync_payment_status.  The order is
\* read again, the tender is checked against what is outstanding now, created,
\* and payment_status derived from the ledger.  Only a sale being voided can
\* change the ledger meanwhile, and it can only lower what is paid.
RecordTender(w) ==
    LET r == req[w]
    IN  /\ r.at = "record" /\ CanLock(w)
        /\ ~Known(r.ref)
        /\ r.due <= BalanceDue(order, tenders)
        /\ \E t \in FreshId :
             LET leg == [status |-> "captured", method |-> r.method,
                         amount |-> r.due, ref |-> r.ref]
                 ledger == [tenders EXCEPT ![t] = leg]
                 synced == Synced(order, ledger)
             IN  req' = [req EXCEPT ![w] =
                   [r EXCEPT !.at = "done", !.locks = TRUE, !.copy = synced,
                             !.legs = [u \in {t} |-> leg],
                             !.wrote = [c \in Changed(order, synced) |-> synced[c]],
                             !.paid = Settles(order, ledger),
                             !.overtaken = FALSE]]
        /\ UNCHANGED <<order, tenders, settled, drifted>>

\* record_tender finds the payment recorded, or more than is outstanding.
RefuseTender(w) ==
    /\ req[w].at = "record" /\ CanLock(w)
    /\ Known(req[w].ref) \/ req[w].due > BalanceDue(order, tenders)
    /\ req' = [req EXCEPT ![w] = Rest]
    /\ UNCHANGED <<order, tenders, settled, drifted>>

-----------------------------------------------------------------------------
(* Voiding a sale.                                                         *)

CapturedBy(w, method) ==
    {t \in Captured(SeenTenders(req[w])) : SeenTenders(req[w])[t].method = method}

\* The cash legs are read, unless there is a gateway leg.
ReadCashLegs(w) ==
    /\ req[w].at = "void" /\ CapturedBy(w, "gateway") = {}
    /\ req' = [req EXCEPT ![w] =
                 [req[w] EXCEPT !.at = "void_upi", !.todo = CapturedBy(w, "cash")]]
    /\ UNCHANGED <<order, tenders, settled, drifted>>

\* The cash legs are voided: now the manual UPI legs are read.
ReadUpiLegs(w) ==
    /\ req[w].at = "void_upi" /\ req[w].todo = {} /\ req[w].save = {}
    /\ req' = [req EXCEPT ![w] =
                 [req[w] EXCEPT !.at = "cancel", !.todo = CapturedBy(w, "upi")]]
    /\ UNCHANGED <<order, tenders, settled, drifted>>

\* void_tender: the leg is taken out whatever it is by now, and payment_status
\* derived for the request's own copy of the order.
VoidTender(w, t) ==
    LET r == req[w]
        leg == [SeenTenders(req[w])[t] EXCEPT !.status = "voided"]
        ledger == [SeenTenders(req[w]) EXCEPT ![t] = leg]
        synced == Synced(r.copy, ledger)
    IN  /\ t \in r.todo /\ r.save = {} /\ CanLockLeg(w, t)
        /\ req' = [req EXCEPT ![w] =
             [r EXCEPT !.todo = @ \ {t},
                       !.legs = Put(r.legs, {t}, [u \in {t} |-> leg]),
                       !.copy = synced,
                       !.save = Changed(r.copy, synced),
                       !.paid = @ \/ Settles(r.copy, ledger)]]
        /\ UNCHANGED <<order, tenders, settled, drifted>>

\* refresh_from_db and cancel_order.  Releasing the stock is Inventory's part.
CancelOrder(w) ==
    LET fresh == SeenOrder(req[w])
    IN  /\ req[w].at = "cancel" /\ req[w].todo = {} /\ req[w].save = {}
        /\ fresh.status \in Cancellable
        /\ req' = [req EXCEPT ![w] =
             [req[w] EXCEPT !.at = "done", !.save = {"status"},
                            !.copy = [fresh EXCEPT !.status = "cancelled"]]]
        /\ UNCHANGED <<order, tenders, settled, drifted>>

\* void_sale raises: a gateway leg must be refunded, or the order is past cancelling.
RefuseVoid(w) ==
    /\ \/ req[w].at = "void" /\ CapturedBy(w, "gateway") # {}
       \/ /\ req[w].at = "cancel" /\ req[w].todo = {} /\ req[w].save = {}
          /\ SeenOrder(req[w]).status \notin Cancellable
    /\ req' = [req EXCEPT ![w] = Rest]
    /\ UNCHANGED <<order, tenders, settled, drifted>>

-----------------------------------------------------------------------------
(* A manual discount.                                                      *)

\* apply_manual_discount's guards: the copy is unpaid, the ledger empty.
Discountable(w) ==
    /\ req[w].copy.payment_status \in {"pending", "failed"}
    /\ \A t \in Ids : tenders[t] = NoTender

\* The new total, from the copy: an earlier discount is given back first.
Discount(w) ==
    LET o == req[w].copy
        off == req[w].due
    IN  /\ req[w].at = "discount" /\ Discountable(w)
        /\ req' = [req EXCEPT ![w] =
             [req[w] EXCEPT !.at = "done", !.save = {"grand_total", "manual_discount"},
                            !.copy = [o EXCEPT !.grand_total = @ + o.manual_discount - off,
                                               !.manual_discount = off]]]
        /\ UNCHANGED <<order, tenders, settled, drifted>>

RefuseDiscount(w) ==
    /\ req[w].at = "discount" /\ ~Discountable(w)
    /\ req' = [req EXCEPT ![w] = Rest]
    /\ UNCHANGED <<order, tenders, settled, drifted>>

-----------------------------------------------------------------------------
(* Expiring an unpaid order: two transactions.                             *)

\* Unless the order holds money, it is marked FAILED ...
ExpirePayment(w) ==
    LET o == [req[w].copy EXCEPT !.payment_status = "failed"]
    IN  /\ req[w].at = "expire" /\ Captured(tenders) = {}
        /\ req' = [req EXCEPT ![w] =
             [req[w] EXCEPT !.at = "expired", !.copy = o, !.save = Changed(req[w].copy, o)]]
        /\ UNCHANGED <<order, tenders, settled, drifted>>

\* ... and then, in a transaction of its own, cancelled.
ExpireCancel(w) ==
    LET o == req[w].copy
    IN  /\ req[w].at = "expire_cancel" /\ o.status \in Cancellable
        /\ req' = [req EXCEPT ![w] =
             [req[w] EXCEPT !.at = "done", !.save = {"status"},
                            !.copy = [o EXCEPT !.status = "cancelled"]]]
        /\ UNCHANGED <<order, tenders, settled, drifted>>

\* The order holds money, or is past cancelling.
SkipExpired(w) ==
    /\ \/ req[w].at = "expire" /\ Captured(tenders) # {}
       \/ req[w].at = "expire_cancel" /\ req[w].copy.status \notin Cancellable
    /\ req' = [req EXCEPT ![w] = Rest]
    /\ UNCHANGED <<order, tenders, settled, drifted>>

-----------------------------------------------------------------------------
(* What all requests do.                                                   *)

\* order.save(update_fields=...): an UPDATE waits for the order's row.
SaveOrder(w) ==
    LET r == req[w]
    IN  /\ r.save # {} /\ CanLock(w)
        /\ req' = [req EXCEPT ![w] =
             [r EXCEPT !.wrote = Put(r.wrote, r.save, r.copy),
                       !.save = {}, !.locks = TRUE]]
        /\ UNCHANGED <<order, tenders, settled, drifted>>

\* The request has written what depends on the ledger.
Derives(r) == r.legs # <<>> \/ DOMAIN r.wrote \cap {"payment_status", "grand_total"} # {}

\* COMMIT: what the request wrote becomes visible, and other requests that have
\* read the ledger have read an old one.  Expiring an order goes on after it.
Commit(w) ==
    LET r == req[w]
        tendered == r.legs # <<>>
    IN  /\ r.at \in {"expired", "done"} /\ r.save = {}
        /\ order' = SeenOrder(req[w])
        /\ tenders' = SeenTenders(req[w])
        /\ settled' = settled + (IF r.paid THEN 1 ELSE 0)
        /\ drifted' = IF r.overtaken /\ Derives(r) THEN TRUE
                      ELSE IF tendered THEN FALSE ELSE drifted
        /\ req' = [v \in Requests |->
                     IF v = w
                     THEN IF r.at = "done" THEN Rest
                          ELSE [r EXCEPT !.at = "expire_cancel", !.wrote = <<>>, !.locks = FALSE]
                     ELSE IF tendered /\ ~Off(req[v])
                     THEN [req[v] EXCEPT !.overtaken = TRUE] ELSE req[v]]

\* The request dies, or the database ends a deadlock over the rows of two legs
\* by failing it: its transaction is rolled back.
Die(w) ==
    /\ ~Off(req[w])
    /\ req' = [req EXCEPT ![w] = Rest]
    /\ UNCHANGED <<order, tenders, settled, drifted>>

BeginNext(w) ==
    \/ \E amount \in Amounts : TakeCashTender(w, amount)
    \/ TakeUpiTender(w)
    \/ \E ref \in Refs, amount \in Amounts : SettleGatewayPayment(w, ref, amount)
    \/ VoidSale(w)
    \/ \E off \in 1 .. Price : ApplyManualDiscount(w, off)
    \/ ExpireStaleOrder(w)

Proceed(w) ==
    \/ ReadBalance(w) \/ NothingDue(w) \/ RecordTender(w) \/ RefuseTender(w)
    \/ ReadCashLegs(w) \/ ReadUpiLegs(w) \/ (\E t \in Ids : VoidTender(w, t))
    \/ CancelOrder(w) \/ RefuseVoid(w)
    \/ Discount(w) \/ RefuseDiscount(w)
    \/ ExpirePayment(w) \/ ExpireCancel(w) \/ SkipExpired(w)
    \/ SaveOrder(w) \/ Commit(w)

Next == \E w \in Requests : BeginNext(w) \/ Proceed(w) \/ Die(w)

Spec == Init /\ [][Next]_vars

-----------------------------------------------------------------------------
(* Properties.                                                             *)

\* No two tills, webhooks or reconcilers collect the last rupee twice: a tender
\* never takes what is captured beyond the order's total, whatever discounts and
\* voids overlap with it.
NeverOverCollects ==
    [][AmountPaid(tenders') > AmountPaid(tenders)
         => AmountPaid(tenders') <= order'.grand_total]_vars

\* The order's payment_status is what its ledger says, unless a void or a
\* discount has overlapped with a tender and no tender was recorded since.
StatusFollowsLedger ==
    drifted \/ order.payment_status = DerivePaymentStatus(order, tenders)

\* Goods are handed over, or the sale goes on to shipping, only when the ledger
\* covers the total.
GoodsOnlyForMoney ==
    [][order'.status # order.status /\ order'.status \in {"paid", "completed"}
         => drifted' \/ AmountPaid(tenders') >= order'.grand_total]_vars

\* mark_paid, with its mail to the customer and its new account, is not run again
\* however often the sale is paid, voided and paid again, but for a void that was
\* overtaken and settles the order from its old copy.
SettledOnce == [][settled' > settled => settled = 0 \/ drifted']_vars

\* A gateway payment lands in the ledger at most once, whoever reports it.
PaymentRecordedOnce ==
    \A t, u \in Ids :
        /\ tenders[t] # NoTender /\ tenders[u] # NoTender
        /\ tenders[t].ref = tenders[u].ref /\ tenders[t].ref # NoRef
        => t = u

-----------------------------------------------------------------------------
(* Why the ledger is safe: the invariant of the proofs.                    *)

\* The discount is part of the price, in the order and in every copy of it.
PriceKept(o) ==
    o.manual_discount \in 0 .. Price /\ o.grand_total + o.manual_discount = Price

\* Columns that are written together or not at all.
PriceColumns == {"grand_total", "manual_discount"}

\* Request r is about to commit a new tender t.  It has locked the order since it
\* checked the tender: nobody records the payment, takes what is outstanding or
\* changes the total meanwhile.
Tendering(r, t) ==
    /\ r.at = "done" /\ r.locks /\ r.save = {}
    /\ DOMAIN r.legs = {t} /\ r.legs[t].status = "captured" /\ tenders[t] = NoTender
    /\ ~Known(r.legs[t].ref)
    /\ AmountPaid(tenders) + r.legs[t].amount <= order.grand_total
    /\ DOMAIN r.wrote \cap PriceColumns = {}

\* Request r voids leg t, whatever has become of it.
Voiding(r, t) ==
    tenders[t] # NoTender /\ r.legs[t] = [tenders[t] EXCEPT !.status = "voided"]

\* A request's copy, the amount it asks for and its unsaved and uncommitted writes.
RequestSound(r) ==
    /\ PriceKept(r.copy) /\ PriceKept(SeenOrder(r))
    /\ r.at \in {"record", "gateway", "discount"} => r.due \in Amounts
    /\ \A t \in r.todo : tenders[t] # NoTender
    /\ r.todo # {} => r.at \in {"void_upi", "cancel"}
    /\ r.at \in {"upi", "gateway", "record"} => r.save = {}
    /\ r.save = PriceColumns \/ r.save \cap PriceColumns = {}
    /\ DOMAIN r.wrote # {} => r.locks
    /\ \A t \in DOMAIN r.legs : Voiding(r, t) \/ Tendering(r, t)

OneLock == \A v, w \in Requests : req[v].locks /\ req[w].locks => v = w

\* Only the request that has locked the order has a new tender or a new total to
\* commit; what any other one commits can only take money out of the ledger.
LedgerInv ==
    /\ TypeOK
    /\ PriceKept(order)
    /\ OneLock
    /\ \A w \in Requests : RequestSound(req[w])
    /\ PaymentRecordedOnce

-----------------------------------------------------------------------------
(* Why the order follows its ledger: what each request has yet to save and   *)
(* to commit, and on which ledger it relies unless it has been overtaken.    *)

Writes(r) == r.save \cup DOMAIN r.wrote

\* The order once request r has saved its copy and committed.
WillBe(r) == [c \in DOMAIN order |-> IF c \in r.save THEN r.copy[c] ELSE SeenOrder(r)[c]]

StatusColumns == {"status", "payment_status"}
Unpaid == {"pending", "failed"}

NothingWritten(r) == Writes(r) = {} /\ DOMAIN r.legs = {} /\ ~r.paid

\* A sale is being voided: every leg it has not voided is on its list, or will be.
\* Until then its copy's payment_status may differ from the ledger's.
EmptiesLedger(r) ==
    /\ Writes(r) \subseteq StatusColumns
    /\ DOMAIN r.legs = {} => Writes(r) = {}
    /\ ~r.overtaken =>
         /\ WillBe(r).payment_status \in {r.copy.payment_status, "failed"}
         /\ \A t \in Captured(SeenTenders(r)) :
              /\ r.at # "void" => SeenTenders(r)[t].method # "gateway"
              /\ r.at = "void_upi" /\ SeenTenders(r)[t].method = "cash" => t \in r.todo
              /\ r.at = "cancel" => t \in r.todo
         /\ DOMAIN r.legs # {} /\ Captured(SeenTenders(r)) = {}
              => r.copy.payment_status \in Unpaid

\* An unpaid order is being marked FAILED.
MarksFailed(r) ==
    /\ Writes(r) \subseteq {"payment_status"} /\ DOMAIN r.legs = {}
    /\ "payment_status" \in Writes(r) => WillBe(r).payment_status = "failed"
    /\ ~r.overtaken => Captured(tenders) = {}

\* What a request that is ready to commit has done: it has cancelled the order,
Cancels(r) ==
    /\ "status" \in Writes(r) /\ Writes(r) \subseteq StatusColumns
    /\ WillBe(r).status = "cancelled"
    /\ DOMAIN r.legs = {} => "payment_status" \notin Writes(r)
    /\ ~r.overtaken /\ DOMAIN r.legs # {}
         => Captured(SeenTenders(r)) = {} /\ WillBe(r).payment_status \in Unpaid

\* or given a discount on an order without tenders,
Discounts(r) ==
    /\ Writes(r) = PriceColumns /\ DOMAIN r.legs = {}
    /\ ~r.overtaken => \A t \in Ids : tenders[t] = NoTender

\* or recorded a tender and what follows from it.
Tenders(r) ==
    /\ r.locks /\ r.save = {} /\ Writes(r) \subseteq StatusColumns /\ DOMAIN r.legs # {}
    /\ ~r.overtaken =>
         /\ WillBe(r).payment_status = DerivePaymentStatus(WillBe(r), SeenTenders(r))
         /\ "status" \in Writes(r) => AmountPaid(SeenTenders(r)) >= WillBe(r).grand_total

\* Request r settles the order, if it does, for the first time, and never makes a
\* placed order of it again.
SettlesNow(r) ==
    /\ "status" \in Writes(r) => WillBe(r).status # "placed"
    /\ r.paid => "status" \in Writes(r) /\ DOMAIN r.legs # {}
    /\ ~Off(r) /\ ~r.overtaken /\ settled > 0 => r.copy.status # "placed" /\ ~r.paid

Follows(r) ==
    /\ r.at \in Points \ {"void_upi", "cancel", "expired", "done"} => NothingWritten(r)
    /\ r.at \in {"void", "void_upi", "cancel"} => EmptiesLedger(r)
    /\ r.at = "expired" => MarksFailed(r)
    /\ r.at = "done" => Cancels(r) \/ Discounts(r) \/ Tenders(r)
    /\ SettlesNow(r)

BooksInv ==
    /\ LedgerInv
    /\ StatusFollowsLedger
    /\ settled > 0 => order.status # "placed"
    /\ \A w \in Requests : Follows(req[w])
=============================================================================
