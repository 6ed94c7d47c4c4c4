------------------------------ MODULE Shipping ------------------------------
(***************************************************************************)
(* apps/shipping/services.py: the shipment of an order, the courier's      *)
(* events and the poller, composed with the order they move.               *)
(*                                                                         *)
(* A webhook stores the courier's event and queues a task; a redelivered   *)
(* event finds the stored one and queues it again, so that an event may be *)
(* worked off any number of times, late, and in any order.  The task       *)
(* commits every statement on its own.  The other services lock the        *)
(* shipment and its order first and are one transaction; what they write   *)
(* to the shipment is kept in job until they commit.                       *)
(***************************************************************************)
EXTENDS OrderLifecycle

CONSTANTS
    Journey,    \* what the courier reports of one parcel, in order
    MaxBookings, \* bound: parcels ever booked with the courier
    ByHand      \* bound: the statuses staff take the order to by a generic transition

ShipmentStatus ==
    {"none", "pending_approval", "approved", "created", "booked", "assigned",
     "awb_assigned", "pickup_requested", "picked_up", "in_transit", "out_for_delivery",
     "delivered", "rto", "returned", "cancelled", "failed", "exception"}

ASSUME JourneyAssumption == Journey \in Seq(ShipmentStatus) /\ Len(Journey) > 0
ASSUME BookingsAssumption == MaxBookings \in Nat
ASSUME ByHandAssumption == ByHand \subseteq Statuses

VARIABLES
    shipment,   \* the shipment's row, as committed; status "none": there is no row
    courier,    \* what the courier knows of the parcel: a status, "none" before booking
    bookings,   \* parcels booked with the courier
    events,     \* the courier's events stored so far
    job,        \* each request's shipping task
    byHand      \* history: the statuses staff have taken the order to by hand

shippingVars == <<shipment, courier, bookings, events, job, byHand>>
allVars == <<order, lines, carry_away, req, past, overtaken,
             shipment, courier, bookings, events, job, byHand>>

\* external  the row has the courier's id of the parcel
NoShipment == [status |-> "none", external |-> FALSE]

\* task   what the request is doing: to_book and booked are create_or_update_shipment;
\*        hand is staff who enter the order's status, and touch no shipment
\* status the status it has given, or is going to give, the shipment
NoJob == [task |-> "none", status |-> "none"]
Tasks == {"none", "event", "poll", "pickup", "cancel", "to_book", "booked", "hand"}

ShippingTypeOK ==
    /\ TypeOK
    /\ shipment \in [status : ShipmentStatus, external : BOOLEAN]
    /\ courier \in ShipmentStatus
    /\ bookings \in 0 .. MaxBookings
    /\ events \in SUBSET ShipmentStatus
    /\ job \in [Requests -> [task : Tasks, status : ShipmentStatus]]
    /\ byHand \in SUBSET Statuses

ShippingInit ==
    /\ Init
    /\ shipment = NoShipment
    /\ courier = "none"
    /\ bookings = 0
    /\ events = {}
    /\ job = [w \in Requests |-> NoJob]
    /\ byHand = {}

-----------------------------------------------------------------------------
(* What a shipment's status does to the order.                              *)

\* _map_shipping_status_to_order_status
OrderStatusFor(status) ==
    IF status \in {"booked", "assigned", "picked_up", "in_transit", "out_for_delivery"}
    THEN "shipped"
    ELSE IF status = "delivered" THEN "delivered"
    ELSE IF status \in {"cancelled", "failed"} THEN "cancelled"
    ELSE Nothing

\* Mutant of LeadsTo: a parcel that is under way is led on to DELIVERED.
LeadsToEnd(s, t) ==
    LET way == <<"paid", "processing", "shipped", "delivered">>
        here == {i \in 1 .. 3 : way[i] = s}
    IN  IF t \notin {"shipped", "delivered"} \/ here = {} THEN <<>>
        ELSE SubSeq(way, (CHOOSE i \in here : TRUE) + 1, 4)

\* The statuses an order that is in status s is led through on its way to t.
LeadsTo(s, t) ==
    LET way == <<"paid", "processing", "shipped", "delivered">>
        end == IF t = "shipped" THEN 3 ELSE 4
        here == {i \in 1 .. end - 1 : way[i] = s}
    IN  IF t \notin {"shipped", "delivered"} \/ here = {} THEN <<>>
        ELSE SubSeq(way, (CHOOSE i \in here : TRUE) + 1, end)

\* Mutant of ToOrder: a cancellation is a transition like the others.
ToOrderByTransition(status, copy, end) ==
    IF OrderStatusFor(status) \in {Nothing, copy.status} THEN <<>>
    ELSE MoveTo(OrderStatusFor(status)) \o end

\* _update_order_for_shipment_status, on a copy of the order: `end' is what
\* follows each transition_order, a COMMIT unless the caller is atomic.
ToOrder(status, copy, end) ==
    LET target == OrderStatusFor(status)
        way == LeadsTo(copy.status, target)
        move == [i \in DOMAIN way |-> MoveTo(way[i]) \o end]
        moves == IF way = <<>> THEN <<>>
                 ELSE IF Len(way) = 1 THEN move[1]
                 ELSE IF Len(way) = 2 THEN move[1] \o move[2]
                 ELSE move[1] \o move[2] \o move[3]
    IN  IF target = copy.status THEN <<>>
        ELSE IF target = "cancelled"
             THEN IF copy.status \in CANCELLABLE_STATUSES THEN CancelSteps \o end ELSE <<>>
        ELSE moves \o (IF way = <<>> THEN <<>> ELSE Do("touch") \o end)

\* The tracking fields are saved last, by _set_order_shipping_fields, and also
\* after an exception in what moves the order.
Tracking == Do("touch")

-----------------------------------------------------------------------------
(* Administrators and tasks.                                                *)

Free(w) == req[w] = Idle /\ job[w] = NoJob
Starts(w, task, status) == job' = [job EXCEPT ![w] = [task |-> task, status |-> status]]

\* Somebody has locked the order, and the shipment with it.
RowsFree == \A v \in Requests : ~HasRow(v)

\* approve_order_shipping: one transaction over both rows.
ApproveOrderShipping ==
    /\ order.exists /\ ~carry_away /\ RowsFree
    /\ shipment' = [shipment EXCEPT !.status = "approved"]
    /\ UNCHANGED <<orderVars, req, courier, bookings, events, job, byHand>>

\* preflight_validate_order: an approved shipment, and no active one.
ActiveShipment ==
    shipment.status \notin {"none", "cancelled", "failed", "pending_approval", "approved"}
Preflight ==
    /\ ~carry_away /\ shipment.status # "none"
    /\ order.status \in {"paid", "processing", "shipped", "delivered", "completed"}

MayBook(force) ==
    Preflight /\ IF shipment.external THEN force ELSE ~ActiveShipment

\* Mutant of CreateShipment: the order is read without FOR UPDATE.
CreateShipmentUnlocked(w, force) ==
    /\ Free(w)
    /\ MayBook(force)
    /\ Begin(w, Tracking, <<>>)
    /\ Starts(w, "to_book", "created")
    /\ UNCHANGED <<shipment, courier, bookings, events, byHand>>

\* create_or_update_shipment_for_order, until the courier is called.
CreateShipment(w, force) ==
    /\ Free(w)
    /\ MayBook(force)
    /\ BeginLocked(w, Tracking, <<>>)
    /\ Starts(w, "to_book", "created")
    /\ UNCHANGED <<shipment, courier, bookings, events, byHand>>

\* The courier books a parcel: no rollback undoes that.
BookParcel(w) ==
    /\ job[w].task = "to_book"
    /\ bookings < MaxBookings
    /\ bookings' = bookings + 1
    /\ courier' = IF courier = "none" THEN "created" ELSE courier
    /\ Starts(w, "booked", "created")
    /\ UNCHANGED <<orderVars, req, shipment, events, byHand>>

\* The courier refuses: the service raises, and all it has saved is rolled back.
BookingFails(w) ==
    /\ job[w].task = "to_book"
    /\ RollsBack(w)
    /\ Starts(w, "none", "none")
    /\ UNCHANGED <<shipment, courier, bookings, events, byHand>>

\* Services that lock shipment and order, ask the courier, save the shipment, and
\* may move the order.
Locking(w, task, status, steps, handler) ==
    /\ Free(w) /\ shipment.external
    /\ BeginLocked(w, steps, handler)
    /\ Starts(w, task, status)
    /\ UNCHANGED <<shipment, bookings, byHand>>

RequestPickup(w) ==
    Locking(w, "pickup", "pickup_requested", <<>>, <<>>) /\ UNCHANGED <<courier, events>>

\* sync_tracking: the courier tells how far the parcel is.  What goes wrong with the
\* order is only logged.
SyncTracking(w) ==
    /\ Locking(w, "poll", courier, ToOrder(courier, order, <<>>) \o Tracking,
               Tracking \o Do("end"))
    /\ UNCHANGED <<courier, events>>

\* Mutant of Polled: the courier is asked until it has the parcel.
PolledUntilPickup == {"created", "awb_assigned", "pickup_requested"}

\* The shipments reconcile_stuck_shipments asks for.
Polled == {"created", "awb_assigned", "pickup_requested", "picked_up", "in_transit",
           "out_for_delivery"}

\* The beat task; an administrator may refresh any shipment.
Reconcile(w) == shipment.status \in Polled /\ SyncTracking(w)
Refresh(w) == SyncTracking(w)

\* cancel_shipment: the courier takes the parcel back, whatever becomes of the
\* transaction, and reports it.  An exception in cancel_order takes all of it back here.
CancelShipment(w) ==
    /\ courier \notin {"delivered", "cancelled"}
    /\ Locking(w, "cancel", "cancelled",
               IF order.status \in CANCELLABLE_STATUSES THEN CancelSteps ELSE <<>>, <<>>)
    /\ courier' = "cancelled"
    /\ events' = events \cup {"cancelled"}

-----------------------------------------------------------------------------
(* The courier and its webhook.                                             *)

\* The parcel gets on, and the courier's webhook is stored.
CourierReports ==
    /\ courier \notin {"none", "cancelled"}
    /\ \E i \in DOMAIN Journey :
         /\ courier = IF i = 1 THEN "created" ELSE Journey[i - 1]
         /\ courier' = Journey[i]
         /\ events' = events \cup {Journey[i]}
    /\ UNCHANGED <<orderVars, req, shipment, bookings, job, byHand>>

\* process_webhook_event: save the event's status, if the shipment is found.
ProcessEvent(w, status) ==
    /\ Free(w) /\ shipment.external
    /\ status \in events
    /\ RowsFree
    /\ shipment' = [shipment EXCEPT !.status = status]
    /\ Starts(w, "event", status)
    /\ UNCHANGED <<orderVars, req, courier, bookings, events, byHand>>

\* Then read the order, move it transition by transition, and save its tracking.
MoveOrder(w) ==
    /\ job[w].task = "event" /\ req[w] = Idle
    /\ Begin(w, ToOrder(job[w].status, order, Do("end")) \o Tracking, Tracking \o Do("end"))
    /\ Starts(w, "none", "none")
    /\ UNCHANGED <<shipment, courier, bookings, events, byHand>>

EventLost(w) ==
    /\ job[w].task = "event"
    /\ Starts(w, "none", "none")
    /\ UNCHANGED <<orderVars, req, shipment, courier, bookings, events, byHand>>

-----------------------------------------------------------------------------
(* Going on, committing and failing, as the order's requests do.            *)

\* The status a task has given the shipment becomes visible as it commits.
Saved(w) ==
    CASE job[w].task \in {"poll", "pickup", "cancel"} -> [shipment EXCEPT !.status = job[w].status]
      [] job[w].task = "booked" -> [status |-> "created", external |-> TRUE]
      [] OTHER -> shipment

ShippingCommits(w) ==
    /\ job[w].task # "to_book"
    /\ Commits(w)
    /\ shipment' = Saved(w)
    /\ byHand' = IF job[w].task = "hand" THEN byHand \cup req[w].trail ELSE byHand
    /\ job' = IF req'[w] = Idle THEN [job EXCEPT ![w] = NoJob] ELSE job
    /\ UNCHANGED <<courier, bookings, events>>

ShippingStep(w) ==
    /\ job[w].task # "to_book"
    /\ \/ Pays(w) \/ Touches(w) \/ SavesAll(w) \/ Moves(w) \/ Deletes(w) \/ Checks(w)
       \/ Queries(w) \/ Settles(w) \/ Refused(w)
    /\ job' = IF req'[w] = Idle THEN [job EXCEPT ![w] = NoJob] ELSE job
    /\ UNCHANGED <<shipment, courier, bookings, events, byHand>>

ShippingFails(w) ==
    /\ Dies(w) \/ BreaksDeadlock(w)
    /\ job' = IF req'[w] = Idle THEN [job EXCEPT ![w] = NoJob] ELSE job
    /\ UNCHANGED <<shipment, courier, bookings, events, byHand>>

ShippingProceeds(w) ==
    \/ MoveOrder(w) \/ BookParcel(w) \/ BookingFails(w) \/ ShippingStep(w) \/ ShippingCommits(w)

\* What begins about the order apart from its shipment: here, its payment, what frees or
\* ships its stock, and its cancellation.
OrderBegins(w) ==
    /\ Free(w)
    /\ \/ SettlePaid(w) \/ CancelOrder(w) \/ MarkShipped(w)
       \/ ReleaseReservation(w) \/ HandlePaymentFailed(w)
    /\ UNCHANGED shippingVars

\* MarkDeliveredView and GenericTransitionView: staff enter the order's status, which does
\* nothing else, whatever the status: a cancellation by hand frees no stock.
StaffEnters(w) ==
    /\ Free(w)
    /\ MarkDelivered(w) \/ \E s \in ByHand : TransitionOrder(w, s)
    /\ Starts(w, "hand", "none")
    /\ UNCHANGED <<shipment, courier, bookings, events, byHand>>

ShippingNext ==
    \/ ApproveOrderShipping \/ CourierReports
    \/ \E w \in Requests :
         \/ OrderBegins(w) \/ StaffEnters(w)
         \/ \E force \in BOOLEAN : CreateShipment(w, force)
         \/ RequestPickup(w) \/ Refresh(w) \/ Reconcile(w) \/ CancelShipment(w)
         \/ \E status \in ShipmentStatus : ProcessEvent(w, status)
         \/ ShippingProceeds(w) \/ EventLost(w) \/ ShippingFails(w)

\* A worker is killed: the step is none that it takes itself.
Killed(w) == Dies(w) /\ ~ShippingProceeds(w) /\ ~BreaksDeadlock(w)

\* The task queue works off what is queued, and the beat schedules the poller; a
\* poller that waits for the rows gets its turn, and is not killed each time.
ShippingFairness ==
    /\ \A w \in Requests :
         SF_allVars(ShippingProceeds(w)) /\ WF_allVars(ShippingFails(w) /\ InDeadlock(w))
    /\ SF_allVars(\E w \in Requests : Reconcile(w))
    /\ <>[][\A w \in Requests : ~Killed(w)]_allVars

ShippingSpec == ShippingInit /\ [][ShippingNext]_allVars /\ ShippingFairness

-----------------------------------------------------------------------------
(* Properties.                                                              *)

\* However late, often and out of order the courier's events are worked off, and
\* whichever tasks race, an order is DELIVERED only if the courier has reported so or
\* staff have said so themselves.
DeliveredIsTrue == "delivered" \in past => "delivered" \in events \cup byHand

Booking == {"to_book", "booked"}

\* Retried tasks and an administrator's click never book a parcel side by side:
\* the order's row keeps them apart for as long as the courier takes to answer.
OneBookingAtATime ==
    \A v, w \in Requests :
        job[v].task \in Booking /\ job[w].task \in Booking => v = w

\* Whoever cancels the order (the customer, the courier's event, the poller, who calls the
\* parcel back) frees its stock, although what fails is only logged.  Staff who enter
\* CANCELLED by hand do not: transition_order releases nothing.
CancelledFreesStock ==
    order.status = "cancelled" /\ "cancelled" \notin byHand
    => \A k \in Lines : lines[k] # "active"

\* A shipment shown on its way does not stay so once the courier has delivered it:
\* even if the event is lost or overwritten by an older one, the poller asks.
UnderWay == shipment.status \in {"created", "pickup_requested", "picked_up", "in_transit"}
TrackingCatchesUp == courier = "delivered" /\ UnderWay ~> ~UnderWay

-----------------------------------------------------------------------------
(* The inductive invariant of the proofs.                                   *)

Quiet(s) == \A i \in DOMAIN s : s[i].do \in {"touch", "end"}

\* Who books a parcel has locked the order, and keeps it locked to the end.
UnderLock(j, r) ==
    j.task \in Booking =>
        /\ r.locked /\ r.handler = <<>> /\ Quiet(r.script)
        /\ \A i \in DOMAIN r.script : r.script[i].do = "end" => i = Len(r.script)

\* Line k is settled, or the first n statements of the script settle it.
Settled(r, k) == lines[k] # "active" \/ k \in DOMAIN r.settled
SettledBy(s, n, k) ==
    \E j \in 1 .. n : s[j].do = "release" \/ (s[j].do \in OnLine /\ s[j].arg = k)

\* The status a request writes is one that it has moved the order to; what is done after
\* an exception moves it nowhere.
OwnMoves(r) ==
    /\ Quiet(r.handler)
    /\ \A i \in DOMAIN r.script : r.script[i].do # "all"
    /\ "status" \in r.wrote => r.copy.status \in r.trail

\* Who cancels the order, and not by hand, has settled its lines before, in the same
\* transaction.
FreesStock(r) ==
    /\ \A i \in DOMAIN r.script :
         r.script[i].do = "move" /\ r.script[i].arg = "cancelled" =>
           \A k \in Lines : Settled(r, k) \/ SettledBy(r.script, i - 1, k)
    /\ r.copy.status = "cancelled" /\ "status" \in r.wrote => \A k \in Lines : Settled(r, k)

\* Nobody takes the parcel to be delivered, unless it is staff who enter that.
NoDelivery(s) == \A i \in DOMAIN s : s[i].do = "move" => s[i].arg # "delivered"
NothingDelivered ==
    /\ "delivered" \notin past
    /\ \A w \in Requests :
         /\ job[w].status # "delivered"
         /\ job[w].task = "hand" \/ ("delivered" \notin req[w].trail /\ NoDelivery(req[w].script))

\* One request at a time has the order's row, parcels are booked under its lock, the
\* lines of an order that was not cancelled by hand are settled when it is cancelled, and
\* no task is ahead of the courier's reports.
ShippingInv ==
    /\ ShippingTypeOK
    /\ \A v, w \in Requests : HasRow(v) /\ HasRow(w) => v = w
    /\ \A w \in Requests : UnderLock(job[w], req[w]) /\ OwnMoves(req[w])
    /\ \A w \in Requests : job[w].task = "hand" \/ FreesStock(req[w])
    /\ CancelledFreesStock
    /\ courier = "delivered" => "delivered" \in events
    /\ "delivered" \in events \cup byHand \/ NothingDelivered
=============================================================================
