---------------------------- MODULE MCInventory -----------------------------
(* Instances of Inventory for TLC. *)
EXTENDS Inventory, TLC

CONSTANTS shelf, store, o1, o2, w1, w2

Symmetry == Permutations(Keys) \cup Permutations(Refs) \cup Permutations(Workers)

CONSTANT MaxDrift

\* Bound: how far races may carry a row's counters from its ledger and its
\* reservations.  States beyond the bound are checked and not extended.
DriftBounded ==
    \A k \in Keys :
        LET ledger == stock[k].physical - stock[k].on_hand
            holds == Held(resv, k) - stock[k].reserved
        IN  \A a \in {-ledger, ledger}, b \in {-holds, holds} : a + b <= MaxDrift

\* What locks several rows, of two warehouses: orders of two lines, placed, cancelled and
\* shipped, exchanges and transfers.
RowsNext ==
    \/ \E k \in Keys, q \in Qty : ReceiveStock(k, q)
    \/ \E w \in Workers :
         \/ \E ref \in Refs, n \in 1 .. MaxLines :
              \E keys \in KeyLists(n), qtys \in Quantities(n) :
                PlaceOrder(w, ref, keys, qtys)
         \/ \E ref \in Refs : ReleaseReservation(w, ref) \/ CommitReservation(w, ref)
         \/ \E out, in \in Keys, q \in Qty : MoveStock(w, out, q, in, q)
         \/ Proceed(w) \/ Die(w) \/ BreakDeadlock(w)

RowsSpec == Init /\ [][RowsNext]_vars

\* The units of all warehouses, by the ledger.
AllUnits == SumOver([k \in Keys |-> stock[k].physical], Keys)

\* A transfer neither loses nor makes units, whatever it races with and wherever it fails,
\* is killed or loses a deadlock between its two rows: all that a worker's transaction
\* makes of the total is what it ships, a unit a line.  (What a receipt brings in is no
\* transaction here.)
TransfersConserve ==
    [][txn' # txn => AllUnits - AllUnits' = Cardinality({h \in Holds :
           resv[h].status # "committed" /\ resv'[h].status = "committed"})]_vars

\* Orders being placed, cancelled and shipped, and nothing an administrator does:
\* no adjustment and no recompute.
OrdersNext ==
    \/ \E k \in Keys, q \in Qty : ReceiveStock(k, q)
    \/ \E w \in Workers :
         \/ \E ref \in Refs, n \in 1 .. MaxLines :
              \E keys \in KeyLists(n), qtys \in Quantities(n) :
                PlaceOrder(w, ref, keys, qtys)
         \/ \E ref \in Refs : ReleaseReservation(w, ref) \/ CommitReservation(w, ref)
         \/ Proceed(w)

OrdersSpec == Init /\ [][OrdersNext]_vars
=============================================================================
