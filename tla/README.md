# Aurora Blings: formal models of the backend

TLA+ specifications, TLC runs and TLAPS proofs about `src/backend`, the Django
backend of the Aurora Blings shop: web shop and counter (POS) on one PostgreSQL
database, with gunicorn request workers, Celery workers and payment and courier
webhooks acting on the same rows at the same time.

Contents: 1 the system, 2 assumptions, 3 the modules, 4 runs, 5 proofs,
6 findings, 7 what is not modelled, 8 plan.

## 1. The system

State is in the database. Every service function is one database transaction
(`@transaction.atomic`; a request as a whole is not: `ATOMIC_REQUESTS` is off).
The views and the Celery tasks load objects *before* they call a service, and
most services go on working with the object they were given. Where a service
takes `select_for_update()` it re-reads the row; where it does not, it acts on an
old copy, and `save(update_fields=...)` writes just the columns it names.

| Component | State | Operations | Interacts with | Hard behaviour | What makes it correct |
|---|---|---|---|---|---|
| **cart, coupons** | `Cart`, `CartItem`, `CouponUsage` | find or reopen, add, remove, clear, merge, place; validate a coupon, record its usage | orders | a converted cart reopened in three statements; a session's cart that expires; checks answered by a prefetched copy; count, then insert | a cart becomes one order; nothing put into it is forgotten; a coupon on its terms |
| **inventory** | `WarehouseStock` (on_hand, reserved, available), `StockReservation`, `StockLedger` | receive, reserve, release, commit, return, exchange, adjust, transfer, recompute, bulk delete | called by orders, payments (failed payment), returns, its own views | row locks taken in request order, reads before locks, several rows per transaction | counters agree with reservations and ledger; nothing is promised twice; one active hold per order and row; what is moved between rows is neither made nor lost |
| **orders** | `Order.status`, `payment_status`, history | place, pay, process, ship, deliver, complete, cancel, refund; the panel's update and deletion | inventory (hold, release, commit), payments, shipping | transitions checked on stale copies; order row and stock rows locked in opposite orders; releases that leave the order as it is | only legal transitions, earned in order; what a cancellation frees is not shipped; stock follows the status |
| **payments: tender ledger** | `OrderTender`, `Order.payment_status` | record, void, settle a gateway payment, derive the payment status | called by pos and by gateway webhooks; calls orders.mark_paid | several tills and webhooks on one order, redelivery, stale copies | never more captured than owed; a payment recorded once; payment_status follows the ledger; mark_paid once |
| **payments: gateway** | `PaymentTransaction`, `WebhookLog` | initiate, webhooks, verify, reconcile, retry | tender ledger, orders, inventory, Celery | duplicate, late and reordered events; several transactions per order; workers killed between two commits | taken once; only captured money counts; captured money is collected |
| **payments: refunds** | `Refund`, `refunded_amount`, `WebhookEvent` | create, apply, webhooks | gateway, orders | the provider's call inside the transaction; PENDING and FAILED after SUCCESS | amount, rows and statuses agree; each refund counted once, with its row |
| **pos** | `POSShift`, `POSCashMovement`, `POSExpense`, `POSQuickItem`, orders of channel POS | open and close a shift, tenders, movements, expenses, discount, void a sale; pieces without a barcode: count, sell, restock; a UPI code for what is due: raise, replace, pay | tender ledger, orders (a signal on every save), inventory, gateway webhooks | closing while cash is taken; a code paid while it is replaced; voiding while paying; several paths that cancel, and saves of a cancelled copy | the count has every row; expenses balance; each piece goes back on the shelf exactly once; a code that is paid counts once and in full |
| **shipping** | `Shipment`, courier events | approve, book, request pickup, track, reconcile, webhooks, cancel | orders | events late, repeated, out of order; an external call inside a transaction; statuses entered by hand | delivered is a courier's report or entered by hand; one booking at a time; cancelled orders free their stock; tracking catches up |
| **returns** | `ReturnRequest`, `ExchangeRequest`, items | create, decide, receive, inspect, reintegrate, refund, complete, update, delete | inventory | every service on a stale copy, no locks | refunds are earned by an inspection; items come back once |
| **notifications** | `Notification`, `NotificationAttempt`, `NotificationLog`, queued tasks | create, send, resend, retry a log, retry what failed | called by everything, in its transaction; Celery, the beat | a task begun before its row is committed, or repeated while it runs; mail sent, then the worker dies | the record tells what was sent; a second mail only for a named reason |
| accounts, catalog, reviews, invoices, features, surcharge, health, privacy, audit | single rows | CRUD, mail, PDF, settings | | | not modelled, section 7 |

The money's way: a cart becomes an order (`Checkout`), which is paid at the
counter (`TenderLedger`, `Register`) or through a gateway (`GatewayPayments`), lives
(`OrderLifecycle`), is sent (`Shipping`), returned (`Returns`) and refunded
(`Refunds`), with the stock behind all of it (`Inventory`).

`PROJECT.json` lists the components with their sources and the hazards at their
lines: each is covered by a property, or says why none covers it.

## 2. Assumptions about what is not in `src/`

* PostgreSQL, isolation READ COMMITTED (Django's default): a statement sees what
  was committed when it began, and the transaction's own writes. `SELECT ... FOR
  UPDATE` and `UPDATE` wait for a row another transaction has written or locked.
  A deadlock is detected, and one of its transactions fails.
* A worker may die at any time; its transaction is rolled back. What it has asked
  of a gateway or a courier is not undone.
* Gateways and couriers: a webhook may come late, repeatedly and out of order; what
  liveness needs of it is in section 4. A gateway refuses to refund more than it has captured, and repeats
  our `refund_id` in its refund webhooks, as the tests' payloads do. A failed
  attempt to pay may be followed by a captured one of the same gateway order.
* Logging and audit entries change nothing that is modelled; a mail changes nothing but its own rows.
* A task in Celery's queue is not lost; one that a worker has begun is, if the worker dies
  (no `acks_late`).

## 3. The modules

State is committed state, unless it belongs to a request. A request is a record: how
far it has come, the copies it has read, what it has written and not yet committed.
History variables and fields are named as such; no guard of the code's reads them.

### UnitSums, UnitSumsTheorems
`SumOver(f, S)`, the `SUM(column)` of the database for natural numbers, defined
by counting units, so that the theorems on finite cardinalities apply: a sum over
one more element, one element less, one element changed, no elements, a part.

### Checkout (`apps/cart`, `place_order`, `apps/pricing/coupons`)
One customer's carts: that of the account (one row for ever, reopened after each
order) and that of the session. An item is a row and a variant.

| Model | Code |
|---|---|
| `carts`, `items`, `orders` | `Cart.status`, `CartItem` rows, the orders with the items they were made of and whether a `CouponUsage` goes with them |
| `Resolves` | `_resolve_cart`, with the items prefetched: `exists()` in `place_order` is answered by this copy |
| `FindsNone`, `Empties`, `Reopens` | `get_or_create_user_cart` on a converted cart: three statements outside a transaction |
| `Expires` | `get_cart_by_session`: a session's cart is ABANDONED 30 days on, at any time for the model, and is not found again |
| `Adds`, `RemoveItem`, `ClearCart` | the services of the same names |
| `ReadsLines`, `PricesCoupon`, `Places` | `place_order`: the items; the coupon, for which the cart is read again and usages are counted; the order, the conversion, the usage, COMMIT |
| `StartsMerge`, `FindsUserCart`, `Merges`, `ReopensAndMerges` | `merge_guest_cart` |
| `overtaken`, `missed` of a request; `wanted`, `mixed` | history: what overlapped; what the customer was told is in a cart; items a request that was overtaken has left in a cart |

### Inventory (`apps/inventory/services.py`)
| Model | Code |
|---|---|
| `stock[k]` | the `WarehouseStock` row of a (variant, warehouse) pair; `physical` is the sum of its physical `StockLedger` entries, which is all the code ever computes from the ledger |
| `resv[h]` | `StockReservation`, ids in order of creation; a settled one keeps only status and row |
| `txn[w]` | the open transaction of worker `w`: lines still to work off, rows and reservations written and not committed. A row in `txn[w].rows` is locked |
| `raced` | history: rows on which a release, commit or recompute has acted on something out of date |
| `ReceiveStock`, `ProcessReturn`, `AdjustStock`, `BulkDeleteStockRecords` | the services that lock, decide and write under the lock: one step each |
| `PlaceOrder`, `ReleaseReservation`, `CommitReservation` + `CommitFetch`, `MoveStock` (exchange, transfer), `RecomputeStock` + `RecomputeReserved` | how the services of several steps begin: each query that is evaluated *before* a lock is a step of its own |
| `WorkOff` | `_lock` the next row, re-read it, validate, write row, reservation and ledger |
| `Refuse`, `Die`, `BreakDeadlock`, `Commit` | the ways a transaction ends |

`release_reservation` is called by `cancel_order`, by the inventory view and by
`handle_payment_failed`, so releases of one order do meet. `commit_reservation`
has one caller, `mark_shipped`, which has written the order's row before: two
commits of one order do not overlap.

### TenderLedger (`apps/payments/tender_service.py`, counter and sweeper)
One order. `order` and `tenders` are what is committed; `req[w]` is a request:
`copy` the order as it was loaded, `legs` and `wrote` what it has written and not
committed, `save` the columns an UPDATE is about to write, `locks` whether it has
the order's row. Columns are written one by one as `update_fields` says, so that
a status and a payment status of different origin can meet in one row.

| Action | Code |
|---|---|
| `TakeCashTender`, `TakeUpiTender`, `SettleGatewayPayment`, `VoidSale`, `ApplyManualDiscount`, `ExpireStaleOrder` | the view or task loads the order |
| `ReadBalance`, `NothingDue` | `balance_due` before the lock (UPI: all of it; gateway: at most it) |
| `RecordTender`, `RefuseTender` | `record_tender` under the order's lock, up to and with `sync_payment_status` and `mark_paid` |
| `ReadCashLegs`, `ReadUpiLegs`, `VoidTender`, `CancelOrder`, `RefuseVoid` | `void_sale` |
| `Discount`, `RefuseDiscount` | `apply_manual_discount` |
| `ExpirePayment`, `ExpireCancel`, `SkipExpired` | `expire_stale_razorpay_orders_task`: two transactions with a crash possible between them |
| `SaveOrder`, `Commit`, `Die` | UPDATE of the order, COMMIT, rollback |

`drifted` is a history variable: set when a request commits something it derived
from the ledger although a tender was committed or voided since it read it,
cleared when a tender is recorded (which derives everything afresh under lock).

`record_tender`'s handler for `IntegrityError` is not an action: with the order's
lock held the duplicate check before it always finds the row. Stock released by
`cancel_order` is `Inventory`'s part.

### OrderStates, OrderSpec, OrderLifecycle (`apps/orders/services.py`, `models.py`)
`OrderStates` is the state machine of `models.py`, with the carry-away sale's short
cut. `OrderSpec` is what an order promises, in three actions: it `Advance`s to a status
that follows from the one it has, it is `Delete`d while it may be, or a request that read
it before another changed it `Overtake`s, and writes what follows from the status *it* read.

`OrderLifecycle` is the code: one order, and the reservations of its lines.

| Model | Code |
|---|---|
| `order`, `lines` | the committed `Order` row; the status of each line's reservation. RELEASED is told apart by who wrote it: `"released"` by a service that takes the order on as well, `"dropped"` by one that leaves it as it is |
| `req[w]` | a request: the copy its view has read, and the `script` of statements its service has yet to run on it; `handler`, what an enclosing `except` goes on with |
| `MarkPaid`, `SettlePaid`, `MarkShipped`, `MarkDelivered`, `MarkCompleted`, `MarkRefunded`, `MarkPartiallyRefunded`, `CancelOrder`, `TransitionOrder`, `UpdateAdminOrder`, `DeleteAdminOrder` | the services, each as its script; `SettlePaid` begins under the order's lock (`record_tender`) |
| `ReleaseReservation`, `HandlePaymentFailed` | the staff's release of an order's reservations (`inventory/views.py:319`), and that of a failed payment (`payment_service.py:257`): neither writes the order's row |
| `Pays`, `Touches`, `SavesAll`, `Moves`, `Deletes` | statements on the order's row: `update_fields`, `save()` of all columns (which inserts the row again), `_apply_transition`, `delete()` |
| `Checks`, `Queries`, `Settles` | `release_reservation` and `commit_reservation`: `exists()`, which only the latter asks; the query of the ACTIVE lines, which may find fewer by then; then each line in any order under its stock row's lock |
| `Commits`, `Refused`, `Dies`, `BreaksDeadlock` | the ways a transaction ends |
| `past`, `overtaken` | history: the statuses the order has been in; whether a commit has overwritten what it had not read |

A statement waits (`WaitsFor`) for the order's row or a line another transaction has written.
`mark_shipped` takes the row and then the lines, `cancel_order` the lines and then
the row: they deadlock, and the database breaks it. A release that leaves the order alone
needs no row, so it can come between the query of `mark_shipped` and its locks, and what it
has freed is shipped: `ShipsHeldStock` and `HeldUntilShipped` are about everybody else, and
name the lines so freed `"dropped"`.

### Shipping (`apps/shipping/services.py`, `tasks.py`), composed with OrderLifecycle
| Model | Code |
|---|---|
| `shipment`, `courier`, `bookings`, `events` | the `Shipment` row; what the courier knows of the parcel; the parcels ever booked; the stored events |
| `job[w]` | the shipping task of request `w`; the order it moves is in `req[w]` |
| `ApproveOrderShipping`, `CreateShipment`, `BookParcel`, `BookingFails` | approval; `create_or_update_shipment_for_order` around the courier's call, with shipment and order locked |
| `RequestPickup`, `SyncTracking` (`Reconcile` by the beat, `Refresh` by hand), `CancelShipment` | the services that lock, ask the courier, save, and move the order |
| `CourierReports`, `ProcessEvent`, `MoveOrder`, `EventLost` | the webhook stores an event; the task works it off statement by statement, any number of times, and may be lost |
| `OrderBegins` | what begins about the order apart from its shipment: its payment, its cancellation, `mark_shipped`, the two releases |
| `StaffEnters`, `byHand` | `MarkDeliveredView` and `GenericTransitionView`: staff enter the order's status, which does nothing else; history: the statuses entered so |
| `LeadsTo`, `ToOrder` | `_update_order_for_shipment_status`: the order is led transition by transition; a cancellation is `cancel_order` |
| `ShippingStep`, `ShippingCommits`, `ShippingFails` | a statement of the order's script, COMMIT of both, rollback of both |

`CancelledFreesStock` leaves out an order that staff have taken to CANCELLED by hand:
`transition_order` releases nothing. (The admin site's `action_mark_cancelled` is not that: it
calls `cancel_order`, `orders/admin.py:145`.) `DeliveredIsTrue` accepts a status entered by hand. It
asks for the courier's report, not for where the parcel is now: a courier go on to report of a delivered parcel (a return), and the order stays DELIVERED. On
the journey of the run, which ends with the delivery, the two are the same.

### GatewayPayments (`apps/payments/services.py`, `payment_service.py`), composed with OrderLifecycle
| Model | Code |
|---|---|
| `txns`, `gateway`, `logs`, `ledger` | the status of each `PaymentTransaction`; what the gateway knows of each attempt; `WebhookLog` rows; the references of the captured tenders |
| `job[w]` | route, the transaction read, the copy's status, the status to save, the reference to settle under |
| `InitiatePayment`, `Authorises`, `Captures`, `Fails` | `create_checkout_order`, `initiate_payment`; the gateway |
| `HandleWebhook`, `HandleCashfreeWebhook`, `VerifyCheckoutPayment`, `ReconcileOrderPayment`, `RetryPayment` | the routes by which news of an attempt arrives |
| `Skips`, `Saves`, `Finishes` | the status guard on the copy, `txn.save()`, the log |
| `SettlesGatewayPayment`, `RecordsTender`, `FindsTender`, `RefusesTender` | `settle_gateway_payment` and `record_tender` under the order's lock (in detail: `TenderLedger`) |
| `Releases`, `Reinitiates` | `handle_payment_failed` frees the stock; `retry_payment` opens a new transaction |
| `GatewayStep`, `GatewayCommits`, `GatewayDies`, `CancelUnpaid` | the order's script; COMMIT; a killed worker; a cancellation meanwhile |

Razorpay's `handle_webhook` commits each statement by itself; the other routes are one
transaction each and keep what they save in `job` until it commits.

### Refunds (`apps/payments/refund_service.py`)
| Model | Code |
|---|---|
| `order`, `payment`, `rows`, `gateway`, `events` | status and payment status; `refunded_amount` and status; `Refund` rows; the refunds the gateway knows; `WebhookEvent` rows |
| `CreateRefund`, `CallsGateway`, `RecordsFailure` | `create_refund` under the payment's lock; the gateway's answer may be lost |
| `HandleRefundWebhook` = `StoresEvent`, `IgnoresEvent`, `AcceptsEvent`, `FindsNoPayment` | the webhook by what it says and what the row says |
| `ReadsOrder`, `AppliesRefund`, `RaisesTransitionError` | `apply_refund`: the order is read, then written under its row's lock; an order that may not move rolls everything back, with the money sent |
| `RefundsByItself`, `Concludes` | a refund made on the gateway's pages; the money arrives or comes back |
| `ReadsToCancel`, `Cancels`, `Dies` | `cancel_order` on a stale copy; a killed worker |

### Returns (`apps/returns/services.py`)
One request of either kind; nothing in it is locked, so that each service is a step that reads
and decides on the copy (`ReadsRequest`) and one that writes: `Moves` (approve,
reject, receive, send, refund, complete), `Inspects`, `Reintegrates`,
`RejectsAfterInspection`, `Updates` (every column of the copy), `Deletes`; or `Abandons`.
`given` and `shelf` count how often an item went to `process_return` and
`process_exchange`, and how often to be sold again; `reached`, `found` and `raced`
are history.

### Register (`apps/pos/services.py`, `expenses.py`)
The drawer of one till: `shifts`, `rows` (cash tenders and movements), `expenses`. A
clerk's request reads the shift (`ReadsShift`) and acts on the copy: `TakesCash`, or closes it
by two sums and a save (`SumsTenders`, `SumsMovements`, `CloseShift`).
`RecordExpense` locks the shift, `ReadsToVoid` and `VoidsExpense` the expense. A sum is the set
of the rows it is taken over. `late` is history: rows of requests a close has overlapped with.

### QuickItems (`apps/pos/quick_items.py`, `signals.py`)
| Model | Code |
|---|---|
| `shelf`, `sales` | `POSQuickItem.quantity`; the orders with their `POSQuickSaleLine` rows, and which of these have `restocked_at` |
| `desk[d]` | a request: the status of the order in its copy, the pieces it takes or puts back, the rows it has locked |
| `CreateQuickItem`, `UpdateQuickItem` | the services of the same names; a new count is taken as it is typed |
| `RingsUp`, `LocksPiece`, `CreatePosOrder` | the quote's check; `add_quick_lines`: lock the rows newest first, check again, take the pieces |
| `ReadsSale`, `SavesSale`, `CommitSale` | `mark_paid`, `cancel_order` or `update_admin_order` on the view's copy; the signal `restock_quick_items_on_cancel` after the save; `restock_order`, row after row in the order of the sale |
| `DeleteAdminOrder` | the order and its lines |
| `GivesUpDesk` | a refusal, a deadlock, a killed worker: rolled back |
| `stocked` | history: the pieces last counted, with those then sold |

### Collections (`apps/pos/collection_service.py`, webhooks of `apps/payments/services.py`)
| Model | Code |
|---|---|
| `codes` | in order of creation: the `PaymentTransaction`, its QR or payment link, the `WebhookLog` of its payment, `amount_applied` of its tender |
| `byHand`, `voided` | what cash and confirmed UPI brought in; a voided sale |
| `errand[w]` | a request of the counter or of the gateway: the copy it has read, the amount it has read |
| `CreateUpiCollection`, `CancelCollection`, `SavesCancelled` | the view, with or without `replaces`; the close may fail, CANCELLED is decided on the copy |
| `ReadsQuote`, `CreatesTransaction`, `AsksProvider` | `create_upi_collection`, which holds no transaction while it asks |
| `PaysCode`, `Expires` | the customer; `close_by` |
| `HandlesNotice`, `SavesSuccess`, `ReadsApplied`, `RecordsCredit`, `LogsNotice` | `handle_webhook`, matched to the order's latest transaction; `settle_gateway_payment` |
| `TakesByHand`, `VoidsWholeSale`, `GoesDown` | the other tenders and `void_sale`, in detail in `TenderLedger`; a killed worker |
| `excused`, `other` | history: a payment may not count in full, and for an amount just read, other money came in |

### Notifications (`apps/notifications`)
| Model | Code |
|---|---|
| `mail`, `attempts`, `failures` | the `Notification` row; `NotificationAttempt` by `attempt_no`; FAILED `NotificationLog` rows by `attempts_count` |
| `tasks`, `mailer[w]` | queued `send_notification` tasks; what a worker is doing, with its copy of `retry_count` |
| `CreateNotification`, `CommitCaller` | `create_notification` queues the task in its caller's transaction |
| `TakesTask`, `Provider`, `Records`, `RecordedBefore` | `send_notification`: the check on an unlocked copy, the provider, the rows; or the attempt's number is taken and all is rolled back |
| `Again`, `RetryPending`, `ReadsToResend` | Celery's retry, `retry_pending_notifications_task`, `resend_failed_notification` |
| `ReadsLog`, `Resets`, `SendsForLog` | `retry_notification`: the log is RETRYING, the mail PENDING whatever it was, and sent at once |
| `delivered`, `excused` | what the provider sent; history: a reason to send twice has occurred |

### Composition
`Shipping` and `GatewayPayments` extend `OrderLifecycle`: a shipping or payment task runs
the order's scripts. `MCCounter` (ledger, drawer, pieces), `MCOrders` (checkout and order), `MCPayments`
(online attempts, counter codes) and `MCAfterSales` (refunds, returns, a mail) put modules that share no row side by side, one at a
time. Stock is abstracted to one reservation per line in `OrderLifecycle` and is
detailed in `Inventory`.

## 4. Runs

| Run | Instance | Shows |
|---|---|---|
| `inventory` | 1 row, 2 orders, 2 workers, 2 reservations, quantities 1..2, up to 2 units received | `CountersSound`, `BookkeepingExact`, `OneActiveHold`, `NewHoldsFit`, and `Inductive`, what their proofs rest on |
| `inventory_rows` | 2 rows, 2 workers, 2 orders of up to 2 lines, 3 reservations, exchanges and transfers of 1 unit | transactions over two rows that are refused, killed or lose a deadlock half way: `BookkeepingExact`, `TransfersConserve` |
| `inventory_doublespend` | 2 workers, 2 orders, 3 reservations, no administrator | *violation* of `HoldsFitOnHand`: more is held than is on the shelf |
| `counter` | ledger: 2 requests, price 2, 3 tenders, 1 gateway payment; drawer: 2 clerks, 2 shifts, 3 rows; pieces: 2 requests, 2 rows of 1 piece, 2 sales | `NeverOverCollects`, `StatusFollowsLedger`, `GoodsOnlyForMoney`, `SettledOnce`, `PaymentRecordedOnce`; `CountedOrOvertaken`, `ExpensesBalance`; `PiecesBalance`; and `CounterInv`, what their proofs rest on |
| `orders` | checkout: 2 requests, 2 items, 2 orders, a coupon for one use on two lines; order: 2 requests, 2 lines | `CouponOnItsTerms`, `OrderedOnce`, `NothingForgotten`; `LinesTogether`, `HeldUntilShipped`, `EarnedInOrder`, `ShipsHeldStock`, and `KeepsPromise`: the order implements `OrderSpec`; and `OrdersInv`, what their proofs rest on |
| `shipping` | 2 requests, 1 line, 2 bookings, in transit - delivered, staff who enter PROCESSING, CANCELLED or DELIVERED | `DeliveredIsTrue`, `OneBookingAtATime`, `CancelledFreesStock`; and `ShippingInv`, what their proofs rest on |
| `tracking` | 2 requests, 1 booking | liveness: `TrackingCatchesUp` |
| `gateway` | attempts: 2 requests, 2 attempts, both gateways; codes: 2 requests, a total of 2, 2 codes | `TakenOnce`, `PaidIsCaptured`; `PaidCodesCount` |
| `gateway_live` | 2 requests, 1 attempt | liveness: `CapturedIsCollected` |
| `gateway_lost` | as above | *violation* of `ConfirmedIsSettled`: a confirmed payment never reaches the ledger |
| `after_sales` | refunds: 2 workers, total 3, three refunds of 1 or 2; returns: 2 of the staff, 1 item; a mail: 2 workers, 3 retries, 2 queued tasks | `AggregatesAgree`, `CountedWithItsRow`; `RefundIsEarned`, `GivenBackOnce`; `MailsAccountedFor`; and `AfterSalesInv`, what their proofs rest on |
| `refund_twice` | refunds, small | *violation* of `AppliedOnce`: an amount counted twice |

**Bounds.** Every race here is between two requests on one row, so two requests, with
as many rows as the race needs, are enough; a third actor is the environment
(gateway, courier), which acts at any time.
* `Inventory`: two orders and quantities 1..2 are enough for partial availability,
  for an exhausted row and for a second hold after a released one. `MaxHolds` bounds
  reservations ever created; when it is reached no new order begins. `MaxOnHand` bounds
  inbound movements. `MaxDrift` (a state constraint) bounds how far repeated races
  carry counters away from ledger and reservations: states one unit away are explored in
  full, those further away are checked but not extended. `RowsSpec` has the services that
  lock several rows, and receipts; `TransfersConserve` compares the sum over both warehouses
  before and after every step.
* Counter: a price of 2 splits into two legs, three tenders allow paid - voided - paid
  again; at `MaxTenders` `record_tender` is not taken. Two shifts: what a request that read
  the first writes after the second was opened. Two rows of one piece each are locked in
  opposite orders by a sale and a restock; with one piece, every check of the count decides.
* Checkout: two items are of one variant (a merge that folds) or of two (the coupon's
  minimum). A session has one cart: when it is not active, the guest is done.
* Order: no request begins that its copy is certain to refuse, or that is certain to find no
  line to drop or to ship; once a request has been overtaken, or nothing leads out of the
  order's status, those under way finish and none begins. Two lines: something can fail between them.
* Shipping: two bookings let a cancelled parcel be booked again. Once a request has been
  overtaken only the shipment's tasks go on. `ByHand`, the statuses of the generic transition,
  is the one an order passes on its way to the courier and the one that should free stock; DELIVERED has a
  view of its own. `tracking` looks at a parcel that is sent and not called back.
* Gateway: the first attempt is a checkout and may fail, the second a success if it ends;
  one worker is killed, when it has something to lose; beside webhooks, `MaxTasks`
  tasks begin (verification, reconciliation, retry, cancellation). `Announced`: the attempts
  that are authorised before they are captured. Codes: one and its replacement, for all or half of what is due.
* After sales: a total of 3 in amounts of 1 and 2 has partial, exact and excessive
  refunds. Returns have also been run with two items (1.75 million states, no violation).
  A mail fails up to three times, the shop's `NOTIFICATION_MAX_RETRY`; two tasks and two workers overlap.

**Symmetry** of rows, lines, workers and requests is used in runs that check safety
only.

**Deadlock checking** is on where the system never rests: `inventory`, `inventory_doublespend`, and `counter`,
whose end - every shift closed - is a step of its own. It is off in the others, whose
order, payment or parcel comes to an end, or whose bounds are exhausted.

**Fairness.** Nothing makes a request begin or a worker die.
* `Inventory` and the orders: strong fairness of the steps of a request under way - the
  database queues lock waiters, so a transaction that finds its row free again and again gets
  it - and weak fairness of PostgreSQL's deadlock detector, which looks after a second of
  waiting. That every transaction ends follows from these alone, in whatever order the
  code locks, and is no property here.
* Shipping: the same. `TrackingCatchesUp` needs the beat besides, which starts
  `reconcile_stuck_shipments` every so often (strong fairness of `Reconcile`), and that
  workers are not killed for ever. The courier's events may all be lost.
* Payments: every webhook is worked off once (the gateway repeats it until it is answered),
  and tasks go on. `CapturedIsCollected` says nothing once a worker was killed: `gateway_lost` shows why.

**What could be wrong.** For every property of a passing run `PROJECT.json` names
a mutant of a definition (the modules hold them next to what they mutate:
`ReleasedUnclamped`, `CommitThenTouch`, `StatusForAuthorised`, `MovedFirst`, ...) with
which TLC finds the property violated.

## 5. Proofs

`InventoryProofs` proves, for all rows, orders, workers and bounds:

* `TypeCorrect`: `Spec => []TypeOK`
* `Invariance`: `Spec => []Inductive`
* `SoundCounters`: `Spec => []CountersSound`
* `ExactBookkeeping`: `Spec => []BookkeepingExact`
* `OneActiveHoldAlways`: `Spec => []OneActiveHold`
* `PromisesFitTheShelf`: `Spec => NewHoldsFit`

from the assumptions `HoldsAssumption`, `QtyAssumption` (bounds are numbers).

**Why an inductive invariant.** That committed counters are sound and exact says
nothing about what an open transaction is going to commit. `IndInv`, a part of
`Inductive`, adds, as named conjuncts: `LocksExclusive` (rows are written by one transaction at a
time); `LinesFit` (what is left to do refers to reservations that are as they
were read, or settled or erased since); `WritesFit` (what is written is on
locked rows and creates or settles reservations of those rows); `ClaimsApart`
(two transactions may settle the same reservation, never create it); `RowsFit`
(an uncommitted row has sound counters, and exact ones against the reservations
*as its transaction sees them* unless it wrote from something out of date).
The heart of the proof is `Held`: a line changes the sum of the active
reservations of its row by exactly what it adds to or takes from `reserved`, and
leaves the sums of the other rows alone; on commit each row's counters meet the
reservations they were exact against, because nobody else could write
reservations of a locked row. `HoldsInv` is the other part of `Inductive`: what each
transaction would see if it committed has one ACTIVE reservation per order and row - so
`OneActiveHold` is stated of the committed rows and of every `SeenHolds(w)` -, only
`place_order` makes reservations, and it has written rows that are not over-committed
(`PromisesFit`). On a row nothing has raced on, `reserved` is the sum of the reservations,
so that the check of `available` before the commit bounds that sum after it.
The facts about sums are in `UnitSumsTheorems`.

`CounterProofs` proves, for any requests, gateway payments, price and number of
tenders; any clerks, shifts and rows; any desks, pieces and sales:

* of the ledger, `LedgerTypeCorrect`: `Spec => []TypeOK`; `LedgerInvariance`: `Spec =>
  []LedgerInv`; `RecordedOnce`: `Spec => []PaymentRecordedOnce`; `NoOverCollection`: `Spec =>
  NeverOverCollects`
* of the order it is for, `BooksInvariance`: `Spec => []BooksInv`; `StatusIsDerived`: `Spec
  => []StatusFollowsLedger`; `NoGoodsUnpaid`: `Spec => GoodsOnlyForMoney`; `MarkedPaidOnce`:
  `Spec => SettledOnce`
* of the drawer, `DrawerInvariance`: `RegisterSpec => []DrawerInv`; `ClosedIsCounted`:
  `RegisterSpec => []CountedOrOvertaken`; `VoidedOnce`: `RegisterSpec => []ExpensesBalance`
* of the pieces, `PiecesInvariance`: `QuickSpec => []PiecesInv`; `PiecesAlwaysBalance`:
  `QuickSpec => []PiecesBalance`
* `CounterInvariance`: `CounterSpec => []CounterInv`, the three side by side

from `PriceAssumption` (an order has a positive price), `TendersAssumption`,
`ShiftsAssumption`, `RowsAssumption`, `CountAssumption` and `SalesAssumption` (bounds are
numbers, and there is a shift).

`record_tender` decides under the order's lock and commits later; `LedgerInv`
says why the decision still holds then. For each request, every uncommitted leg
is either a void of a tender of the ledger or *the* new tender of a request that
holds the order's lock (`Tendering`): its payment is not known, it fits under the
total, and the request does not write the total. Another request's commit
cannot disturb that: without the lock it has written no column of the order
(`DOMAIN r.wrote # {} => r.locks`), so the total stays, and its legs are voids,
which only lower what is paid (`VoidsLower`) and never free an id or change a
provider_ref (`CommitKeeps`). `PriceKept` - the discount is part of the price in
every copy, because its two columns are written together - bounds what a UPI
tender may be for.

That the order follows its ledger needs the other half of each request. `BooksInv` says
of each what the order will be once it has saved its copy and committed (`WillBe`), which
columns it may still write (`Writes`), and, unless it was overtaken, on which ledger that
rests: a void has every captured leg on its list until there is none left
(`EmptiesLedger`), a sweep and a discount have seen no money (`MarksFailed`, `Discounts`),
and a tender has derived the payment status from the ledger as it will be, under the
order's lock (`Tenders`). A commit makes every other request that relied on the old
ledger overtaken, and sets `drifted` if it was overtaken itself; this is why the
theorems except a drifted order and nothing else. `SettlesNow` keeps a settled
order from being PLACED again in anybody's copy, so that `mark_paid` finds nothing to do.

A closed shift was counted in two sums taken at different times: `SumsAreFresh` says of a
close under way that what its first sum, or both, did not see is late already, because
whoever adds a row between the sums is overlapped by the close. An expense is voided by
the one request that has locked it while it was live (`OneVoids`). A request that has
saved a sale holds the sale's row until it commits (`OneSaves`), so what it is about
to put back (`Restocks`) is still what had not gone back; a commit then moves
exactly one term of `OutOf` to the shelf for each piece it puts back.

`AfterSalesProofs` proves, for any workers, staff, items, total and limits:

* `RefundsInvariance`: `Spec => []RefundsInv`; `AggregatesAgreeAlways`:
  `Spec => []AggregatesAgree`; `RefundsCounted`: `Spec => CountedWithItsRow`
* `ReturnsInvariance`: `ReturnsSpec => []ReturnsInv`; `RefundsAreEarned`:
  `ReturnsSpec => []RefundIsEarned`; `ItemsGivenBackOnce`: `ReturnsSpec => []GivenBackOnce`
* `MailsInvariance`: `NotificationsSpec => []MailsInv`; `MailsAreAccountedFor`:
  `NotificationsSpec => []MailsAccountedFor`
* `AfterSalesInvariance`: `AfterSalesSpec => []AfterSalesInv`

from `RefundsAssumption` (the total is positive, a refund is for a part of it, and the order
was paid). A refund is decided and
applied under the payment's lock: what a request at the payment has read of it is still
so, and its row is not SUCCESS yet (`WorkFits`); hence the sum of the
successful rows never exceeds what is counted. Nothing locks a return, so the proof
is about copies: every copy is what the statuses reached so far allow (`RowFits`), and a
service that decided on one was right for a status the request has had (`TaskFits`);
two of the staff who have one item in hand have raced. A worker's copy of the retry
count is never ahead of the row's, and as long as no second mail is excused a single worker
sends, on a current copy (`NothingToExcuse`): the unique number of an attempt is what
refuses the second record.

`OrderLifecycleProofs` proves, for any requests, any lines and each panel table:

* `LifecycleTypeCorrect`: `Spec => []TypeOK`
* `LifecycleInvariance`: `Spec => []LifecycleInv`
* `LinesSettledTogether`: `Spec => []LinesTogether`
* `StockHeld`: `Spec => []HeldUntilShipped`
* `StatusesEarned`: `Spec => []EarnedInOrder`
* `HeldWhenShipped`: `Spec => ShipsHeldStock`
* `Implementation`: `Spec => KeepsPromise`, that is, `OrderLifecycle` implements `OrderSpec`

from `PanelAssumption`, `LinesAssumption` and `NothingAssumption`.

The committed row says nothing of what an open transaction will commit, so
`LifecycleInv` follows each request: its script is a list of statements in
an order some service writes them (`ScriptInOrder`); its copy follows from a status the
order has had (`CopyFollows`); who deletes writes nothing else (`DeletesAlone`); who
settles lines settles all of them in one way (`SettlesAll`) and, unless it only drops them
(`ForGood`), moves the order in the same transaction beyond the statuses that need held
stock (`MovesBeyond`); who ships has the order's row before it queries the lines, so that no
cancellation can commit before it does (`ShipsUnderLock`); one transaction at a time has the row; and
each status has those before it in `past` (`Earned`). The refinement takes the
committed row as the abstract state: a commit of a request whose copy is current is
an `Advance`, of one that was overtaken an `Overtake`, a deletion is `Delete`; every
other step, the statements of open transactions with it, stutters.

`PaymentsProofs` proves, for any requests, gateways, attempts, total and codes:

* `GatewayInvariance`: `GatewaySpec => []GatewayInv`
* `PaymentsTakenOnce`: `GatewaySpec => []TakenOnce`; `OnlyCapturedIsPaid`: `GatewaySpec => []PaidIsCaptured`
* `CollectInvariance`: `CollectSpec => []CollectInv`
* `PaidCodesAreCounted`: `CollectSpec => []PaidCodesCount`

from the assumptions of `OrderLifecycle`, `ProvidersAssumption`, `AttemptsAssumption` and
`SaleTotalAssumption`. The gateway's half rests on what `OrderLifecycleProofs` shows of a
request's steps whatever its script is. `TakenOnce` needs the lock: from the step that finds
the ledger empty to the commit the request has the order's row (`TendersUnderLock`), and one
request has it at a time. `PaidIsCaptured` cannot be seen in the committed state: an old copy
that says "paid" could be saved at any time. `NothingPaidYet` is about everything on its
way: as long as nothing is captured no log reports a success, no job wants one, and no
script has a statement that writes a payment (`PaysNothing`).

A code's payment is worked off in statements that commit by themselves, while money comes in
by other ways and the code is replaced. `CollectInv` follows the one code that may still count
in full: it has no excuse, hence it is the order's latest, its amount fits what is due
(`CodeInv`), and between SUCCESS and its credit there is a webhook with an amount that is
exactly the code's (`Counts`, `WebhookErrandInv`); whatever takes other money, adds a code
or kills that webhook excuses it in the same step. TLC has checked `GatewayInv` and `CollectInv` on the
instance of run `gateway`.

`ShippingProofs` proves, for any requests, lines, journey and number of bookings:

* `ShippingInvariance`: `ShippingSpec => []ShippingInv`, the types included
* `DeliveredAsReported`: `ShippingSpec => []DeliveredIsTrue`
* `BookingsApart`: `ShippingSpec => []OneBookingAtATime`
* `CancellationFreesStock`: `ShippingSpec => []CancelledFreesStock`

from the assumptions of `OrderLifecycle`, `JourneyAssumption`, `BookingsAssumption` and `ByHandAssumption`; like the
gateway's, it rests on `OrderLifecycleProofs` for the steps of a request. A booking keeps the
order's row from its check to its end, since its script has one COMMIT, the last, and no
handler catches its failure (`UnderLock`). A cancellation is visible when it commits, so
`FreesStock` is about scripts: where one cancels, each line is settled already, or statements
before that one settle it; a commit by somebody else can only settle more, which is why
the property needs no exception for requests that were overtaken. Staff who enter a status are
a task of their own (`"hand"`), of which nothing of the kind is claimed: what they
write is in their trail (`OwnMoves`), and goes to `byHand` as it commits. Events come in any
order, so nothing in the order's own state says that a delivery was reported:
`NothingDelivered` says of everything on its way, tasks, scripts and trails, that without a
report, and unless staff enter it, it is not about a delivery. What the status of a shipment does to the order
(`ToOrder`) is put together from lists of statements; `Proper` and `NoDelivery` hold of the
parts and are kept by `\o`. TLC has checked `ShippingInv` in run `shipping`.

`CheckoutProofs` proves, for any requests, goods, items, orders and terms of the coupon:

* `CheckoutInvariance`: `CheckoutSpec => []CheckoutInv`
* `CouponsOnTheirTerms`: `CheckoutSpec => []CouponOnItsTerms`
* `CartsOrderedOnce`: `CheckoutSpec => []OrderedOnce`
* `CartsForgetNothing`: `CheckoutSpec => []NothingForgotten`
* `OrdersInvariance`: `OrdersSpec => []OrdersInv`, with `LifecycleInv` of the order

from `CheckoutAssumption` (limits and bounds are numbers) and those of `OrderLifecycle`. No
cart is ever locked, so the invariant says what a request may rely on although everything
may have changed since it looked. `Knows` holds whoever has overtaken it: what is in its
cart and not in the items it read was put there since, and is in `missed`; hence a coupon
priced on a cart that is fuller than the order is excused, and closing the cart
forgets only what it takes out of `wanted`. While a reopening has found the cart closed and not
emptied it, everything wanted and not missed is in the guest's cart: only that lets it
delete what is in the account's. `Undisturbed` holds until a checkout, a
merge or a reopening overtakes the request: the cart is still active, the items it read are
still in that cart or deleted, no other timely order owns them (`Unowned`), and no coupon has been used
since it counted. What is proved about requests that look on is proved once, of any step
(`Bystander`). When a session's cart expires, what was wanted in it is forgotten with it. TLC has checked `CheckoutInv` and `LifecycleInv`, as `OrdersInv`, in run `orders`.

**Only model-checked**: all liveness (`TrackingCatchesUp`, `CapturedIsCollected`), which is
beyond the prover, as is `ENABLED`; and `TransfersConserve`, of the instance of two rows. No module declares a recursive operator.

## 6. Findings

Statements in the code's comments that the runs refute; `PROJECT.json` quotes them.

1. `inventory_doublespend`: two releases of one order's reservation read it before
   they lock the row, and both give its units back. Units another order holds
   become available and are reserved again.
2. `gateway_lost`: a worker killed between saving a transaction as SUCCESS and
   settling it leaves captured money out of the ledger; every later route
   returns early because the transaction is SUCCESS.
3. `refund_twice`: the PENDING event of a refund that was applied already sets its row
   back, and the SUCCESS event after it counts the amount again.

Seen while modelling, without a run of their own. The models have the steps, and the
passing properties leave out exactly what these make untrue:

* **Stock.** `available` is not always `on_hand - reserved`: recompute clamps it at 0
  (`inventory/services.py:787`). Nothing acts on a reservation's `expires_at`
  (`inventory/models.py:288`).
* **Orders.** A carry-away sale never commits its reservations (`orders/services.py:912`);
  deleting an order leaves them ACTIVE. The courier's webhook moves an order to
  SHIPPED without `commit_reservation` (`shipping/services.py:469`). The generic transition to
  CANCELLED releases no stock (`orders/views.py:538`). A release by the staff or by a failed
  payment between the query of `mark_shipped` and its locks is overwritten: the units
  are shipped, and had been available again. The panel's
  update saves every column of an old copy.
* **Checkout.** `place_order` is to raise an error "if cart is empty"
  (`orders/services.py:625`), but the check is answered by the view's prefetched
  copy: an order without items can be placed. Two checkouts of one cart place two
  orders. Reopening a converted cart is three statements without a transaction; a
  slow one brings ordered items back or deletes new ones. What is added during a
  checkout is converted with the cart. Overlapping orders exceed a coupon's limit.
* **Counter.** A discount, a void or the stale-order sweep that overlaps a tender leaves
  `payment_status` out of step with the ledger. Cash taken or an expense recorded while a
  shift is closed is missing in `expected_cash`, which `pos/models.py:53` calls
  "the record of what was expected at that moment"; two closes overwrite each
  other; voiding a sale changes a shift that is closed.
* **Codes.** "An expired QR and its replacement can never both be paid"
  (`collection_service.py:308`): closing the old one may fail, a payment link is never
  closed, and the view does not look at the result. CANCELLED is decided on a copy and
  may overwrite SUCCESS. A late payment is matched to the order's latest transaction:
  with the same amount it is credited under that, with another it is dropped, its log
  processed. Voiding a sale closes no code.
* **Pieces.** A note saved from a copy read before a cancellation makes the sale PLACED
  again while its pieces are back on the shelf. Deleting a placed sale loses its pieces.
* **Payments.** "Only one transaction should ever be in SUCCESS" (`payments/models.py:31`):
  a retry can leave two. A failure event frees the stock and a success after it makes
  a PAID order without stock. A late pending webhook takes SUCCESS back. A log of a
  webhook that failed is not worked off when it is delivered again.
* **Refunds.** Refunding a cancelled order fails after the gateway was called: the row
  is rolled back, the money is gone.
* **Returns.** `inspect_exchange_items` passes `notes=` to `reserve_stock`, which has no
  such parameter (`returns/services.py:524`): an exchange with a replacement cannot be
  inspected. `update_return_request` saves every column of an old copy: it undoes a
  decision or brings back a deleted request. The services that put items back
  into stock check no status, and two of them may do so at once.
* **Mails.** `retry_notification` looks at its log only: a mail that was SENT meanwhile is made
  PENDING and sent again; the attempt's number is taken, so this is rolled back, and the
  mail stays PENDING. A task that begins before its row is committed finds nothing; a
  PENDING mail whose task is gone is not looked for by any periodic task.

How far this goes, the passing runs say: `BookkeepingExact` holds on every row no
such race has touched, counters never turn negative even then, `NeverOverCollects`
holds through all of it, and an order is never brought into a status it has not earned.

## 7. Not modelled, and why

* Cart: quantities and prices, the coupon stored in a cart, personal and occasion
  coupons (data that the modelled steps pass on); a session's second cart, the one after an expired
  one included.
* Point of sale: Paytm's codes, which leave no row, and UPI
  references; opening float and amounts; how `create_pos_order` builds an order.
* Payments: signatures, mismatching amounts, provider APIs; cash received and change of
  one tender (checked and stored in one step); the handler of an `IntegrityError` in
  `record_tender`, which the lock makes unreachable.
* Refunds: the AUTO source, which nothing calls; a refund the gateway reports as failed
  after it has accepted it at once.
* Orders: reservations that staff add to an order that has been placed (`ReserveStockView`).
* Shipping: rates, labels, manifests; that the poller asks for the 200 oldest shipments only
  (`shipping/services.py:621`): with more than these on their way the others wait until some of
  them have arrived; the order's other services - the panel's update, deletion, refunds -
  which are in `OrderLifecycle` and meet no shipment. Returns: eligibility, amounts, two requests for the
  same units.
* Inventory: `create_warehouse`, selectors, alerts.
* Accounts: authentication and addresses; the one concurrent counter, OTP attempts, is locked.
* Notifications: templates, providers, skipped mails, mails sent without the queue,
  newsletters and subscriptions. Invoices: PDF whose outcome nothing depends on.
* Catalog, banners, reviews, address, privacy, features, surcharge, health: rows edited
  one at a time, and price arithmetic without a protocol.
* Audit, core, config, the React frontends and the deployment files.

## 8. Plan

Every safety property the passing runs check is a theorem, but for `TransfersConserve`. What is left is an abstract
specification of a checkout - a cart becomes one order or none - that `Checkout` implements
as `OrderLifecycle` implements `OrderSpec`.
