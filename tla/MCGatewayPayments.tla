------------------------- MODULE MCGatewayPayments --------------------------
(* Instances of GatewayPayments for TLC.                                    *)
EXTENDS GatewayPayments, TLC

CONSTANTS
    r1, r2, l1,
    MaxTasks    \* bound: tasks begun by anything but a webhook

VARIABLE begun  \* such tasks begun so far
mcVars == <<allVars, begun>>

Counted(A) == begun < MaxTasks /\ A /\ begun' = begun + 1
Uncounted(A) == A /\ UNCHANGED begun

\* Bounds: the first attempt is a checkout and may fail, another is a success if it
\* ends; one worker is killed, when it has something to lose.
BoundedNext ==
    \/ Uncounted(InitiatePayment) /\ (Latest = 0 <=> txns'[Latest + 1] = "created")
    \/ \E a \in DOMAIN txns : Uncounted(Authorises(a) \/ Captures(a))
    \/ 1 \in DOMAIN txns /\ Uncounted(Fails(1))
    \/ \E w \in Requests :
         \/ Counted(CancelUnpaid(w))
         \/ \E e \in Events : Uncounted(Handles(w, e))
         \/ \E t \in DOMAIN txns : Counted(VerifyCheckoutPayment(w, t) \/ RetryPayment(w, t))
         \/ \E id \in {"payment", "order"} : Counted(ReconcileOrderPayment(w, id))
         \/ Uncounted(GatewayProceeds(w))
         \/ ~killed /\ job[w].phase # "read" /\ Uncounted(GatewayDies(w))

BoundedInit == GatewayInit /\ begun = 0
BoundedSpec == BoundedInit /\ [][BoundedNext]_mcVars /\ GatewayFairness

Symmetry == Permutations(Requests)
=============================================================================
