------------------------------ MODULE MCOrders ------------------------------
(* A customer's checkout, or what becomes of one order, for TLC: the two    *)
(* share no row but those a placement creates.                              *)
EXTENDS OrderLifecycle, Checkout, TLC

CONSTANTS r1, r2, l1, l2, v1, v2, g1, g2

Symmetry == Permutations(Requests) \cup Permutations(Lines) \cup Permutations(Visits)

\* What the proofs about the two rest on: every request about the order is on a path that
\* ends well, and every visit knows of its cart what it has read or been made to miss.
OrdersInv == LifecycleInv /\ CheckoutInv

\* Bound: but for payments, no request begins that the copy it has just read is certain to
\* refuse, or that is certain to find no line to drop or to ship: none becomes active again.
FirstMove(script) == LET moves == SelectSeq(script, LAMBDA s : s.do = "move")
                     IN  IF moves = <<>> THEN Nothing ELSE Head(moves).arg
Worthwhile(r) ==
    /\ \/ FirstMove(r.script) \in {Nothing, "paid"}
       \/ CanMove(carry_away, r.copy.status, FirstMove(r.script))
    /\ (\E s \in Says(r) : s.do \in {"drop", "check"}) => ActiveLines # {}

\* Bound: once a request has been overtaken, or the order is in a status nothing leads out
\* of, those under way finish and no further one begins.
BoundedNext ==
    \E w \in Requests :
        \/ ~overtaken /\ STATE_TRANSITIONS[order.status] # {} /\ BeginNext(w) /\ Worthwhile(req'[w])
        \/ Proceeds(w) \/ Dies(w) \/ BreaksDeadlock(w)

\* Bound: the first item is of the first variant.
OrdersInit == Init /\ CheckoutInit /\ items[1].good = g1

\* Bound: the one or the other.
NothingBought ==
    /\ orders = <<>> /\ Active("guest") /\ \A v \in Visits : visit[v] = Away
    /\ \A i, j \in Items : items[i].good = items[j].good /\ items[i].cart = "none"
NothingDone ==
    /\ order.payment = "pending" /\ past = {"draft", "placed"} /\ ~overtaken /\ ~carry_away
    /\ ActiveLines = Lines /\ \A w \in Requests : req[w] = Idle

OrdersNext ==
    \/ NothingBought /\ BoundedNext /\ UNCHANGED checkoutVars
    \/ NothingDone /\ CheckoutNext /\ UNCHANGED vars

OrdersSpec == OrdersInit /\ [][OrdersNext]_<<vars, checkoutVars>>
=============================================================================
