----------------------------- MODULE MCShipping -----------------------------
(* Instances of Shipping for TLC.                                           *)
EXTENDS Shipping, TLC

CONSTANTS r1, r2, l1

\* What the courier reports of a parcel.
ToTheDoor == <<"in_transit", "delivered">>

Symmetry == Permutations(Requests)

\* Bound: once a request about the order has been overtaken, only the shipment's tasks go on.
BoundedNext ==
    \/ ApproveOrderShipping \/ CourierReports
    \/ \E w \in Requests :
         \/ ~overtaken /\ (OrderBegins(w) \/ StaffEnters(w))
         \/ \E force \in BOOLEAN : CreateShipment(w, force)
         \/ RequestPickup(w) \/ Refresh(w) \/ Reconcile(w) \/ CancelShipment(w)
         \/ \E status \in ShipmentStatus : ProcessEvent(w, status)
         \/ ShippingProceeds(w) \/ EventLost(w) \/ ShippingFails(w)

BoundedSpec == ShippingInit /\ [][BoundedNext]_allVars

\* Bound, for liveness: besides, a parcel that is sent and not called back.
TrackingNext ==
    \/ ApproveOrderShipping \/ CourierReports
    \/ \E w \in Requests :
         \/ ~overtaken /\ bookings = 0
              /\ (OrderBegins(w) \/ StaffEnters(w) \/ CreateShipment(w, FALSE))
         \/ Reconcile(w)
         \/ \E status \in ShipmentStatus : ProcessEvent(w, status)
         \/ ShippingProceeds(w) \/ EventLost(w) \/ ShippingFails(w)

TrackingSpec == ShippingInit /\ [][TrackingNext]_allVars /\ ShippingFairness
=============================================================================
