----------------------------- MODULE OrderSpec ------------------------------
(***************************************************************************)
(* What an order promises, whoever works on it: its status moves along the *)
(* state machine of apps/orders/models.py, and it is not deleted once it   *)
(* is paid or fulfilled.  The code keeps the promise for requests that do  *)
(* not overtake one another; one that has read the order before another    *)
(* changed it writes what follows from the status it has read, so that     *)
(* what is left is: no status is ever written that does not follow, move   *)
(* by move, from one the order has had.                                    *)
(***************************************************************************)
CONSTANTS
    Statuses,   \* of an order
    After,      \* [BOOLEAN -> [Statuses -> SUBSET Statuses]]: where a status leads to
    Kept,       \* statuses in which an order may not be deleted
    Gone        \* the status of an order that was deleted

VARIABLES
    status,     \* of the order, or Gone
    past,       \* the statuses the order has been in
    carry_away, \* whether the sale is handed over at the counter
    overtaken   \* whether a request has written over what it had not read

vars == <<status, past, carry_away, overtaken>>

Init ==
    /\ status = "placed"
    /\ past = {"draft", "placed"}
    /\ carry_away \in BOOLEAN
    /\ overtaken = FALSE

\* What a request that has read s may leave: a status that follows from s, having
\* passed through others that do.
Follows(s) ==
    /\ status' \in After[carry_away][s]
    /\ past' \in SUBSET Statuses
    /\ past \subseteq past' /\ past' \ past \subseteq After[carry_away][s]

\* The order moves on from the status it is in.
Advance ==
    /\ status # Gone
    /\ Follows(status)
    /\ UNCHANGED <<carry_away, overtaken>>

Delete ==
    /\ status # Gone /\ status \notin Kept
    /\ status' = Gone
    /\ UNCHANGED <<past, carry_away, overtaken>>

\* A request writes what follows from a status the order was in before, or
\* deletes the order because of that status.
Overtake ==
    /\ overtaken' = TRUE
    /\ \E s \in past :
         \/ Follows(s)
         \/ s \notin Kept /\ status' = Gone /\ past' = past
    /\ UNCHANGED carry_away

Next == Advance \/ Delete \/ Overtake

Spec == Init /\ [][Next]_vars
=============================================================================
