---------------------------- MODULE OrderStates -----------------------------
(* The statuses of an order and the moves between them: what                *)
(* apps/orders/models.py declares.                                          *)

Statuses ==
    {"draft", "placed", "paid", "processing", "shipped", "delivered", "completed",
     "partially_refunded", "refunded", "cancelled"}

PaymentStatuses ==
    {"pending", "partially_paid", "paid", "failed", "refunded", "partially_refunded"}

STATE_TRANSITIONS ==
    LET refunds == {"partially_refunded", "refunded"}
    IN  [draft              |-> {"placed", "cancelled"},
         placed             |-> {"paid", "cancelled"} \cup refunds,
         paid               |-> {"processing", "cancelled"} \cup refunds,
         processing         |-> {"shipped", "cancelled"} \cup refunds,
         shipped            |-> {"delivered"} \cup refunds,
         delivered          |-> {"completed"} \cup refunds,
         completed          |-> refunds,
         partially_refunded |-> {"refunded"},
         cancelled          |-> {},
         refunded           |-> {}]

CANCELLABLE_STATUSES == {"draft", "placed", "paid", "processing"}

\* Mutant of CanMove: any paid sale may close.
CanCloseOncePaid(carry, s, t) ==
    t \in STATE_TRANSITIONS[s] \/ (s = "paid" /\ t = "completed")

\* can_transition_to: the map, and a carry-away sale may close once it is paid.
CanMove(carry, s, t) ==
    t \in STATE_TRANSITIONS[s] \/ (carry /\ s = "paid" /\ t = "completed")

\* Statuses no move leads out of.
Closed(carry, C) == \A s \in C, t \in Statuses : CanMove(carry, s, t) => t \in C

\* The statuses an order in status s may come to by any number of moves.
After ==
    [carry \in BOOLEAN |-> [s \in Statuses |->
        {t \in Statuses :
            \A C \in SUBSET Statuses : s \in C /\ Closed(carry, C) => t \in C}]]
=============================================================================
