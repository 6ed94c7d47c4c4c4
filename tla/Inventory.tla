----------------------------- MODULE Inventory ------------------------------
(***************************************************************************)
(* apps/inventory: warehouse stock rows, reservations and the stock ledger *)
(* under concurrent requests.                                              *)
(*                                                                         *)
(* A WarehouseStock row caches on_hand, reserved and available for one     *)
(* (variant, warehouse) pair; every service locks the row with SELECT FOR  *)
(* UPDATE, re-reads it, validates, writes it and appends a ledger entry.   *)
(* A worker runs one transaction at a time.  A service that locks several  *)
(* rows, or that reads something before it locks, is a transaction of      *)
(* several steps: its lines are worked off one at a time, what it has      *)
(* written is visible to nobody else until it commits, and a row is locked *)
(* for as long as the transaction has an uncommitted version of it.        *)
(* A service that locks a single row and reads nothing before is a single  *)
(* step that needs the row unlocked.                                       *)
(*                                                                         *)
(* The ledger is represented by what the code computes from it: the sum of *)
(* the physical movements of a row, kept in the row as `physical'.         *)
(***************************************************************************)
EXTENDS Integers, FiniteSets, Sequences, UnitSums

CONSTANTS
    Keys,       \* (variant, warehouse) pairs
    Refs,       \* reference ids: the orders stock is held for
    Workers,    \* concurrent requests and tasks
    MaxHolds,   \* bound: StockReservation rows ever created
    MaxQty,     \* bound: largest quantity of one line
    MaxLines,   \* bound: lines of one order
    MaxOnHand,  \* bound: units an inbound movement may bring a row to
    NoRef       \* no reference

ASSUME HoldsAssumption == MaxHolds \in Nat
ASSUME QtyAssumption == MaxQty \in Nat \ {0}

VARIABLES
    stock,      \* WarehouseStock, with the sum of the row's physical ledger entries
    resv,       \* StockReservation, by id
    txn,        \* each worker's open transaction
    raced       \* history: rows whose counters a race has made inexact

vars == <<stock, resv, txn, raced>>

\* Reservation ids, in order of creation.
Holds == 1 .. MaxHolds
Qty == 1 .. MaxQty

\* The larger of 0 and n: max(0, n).
AtLeastZero(n) == IF n < 0 THEN 0 ELSE n

-----------------------------------------------------------------------------
(* Stock rows.                                                             *)

Row == [on_hand : Int, reserved : Int, available : Int, physical : Int]

\* A row as get_or_create makes it.
EmptyRow == [on_hand |-> 0, reserved |-> 0, available |-> 0, physical |-> 0]

\* The counters as every service but recompute_stock saves them.
Saved(on_hand, reserved, physical) ==
    [on_hand |-> on_hand, reserved |-> reserved,
     available |-> on_hand - reserved, physical |-> physical]

\* receive_stock, a restocked return, EXCHANGE_IN, TRANSFER_IN, ADJUSTMENT_*.
Moved(row, delta) ==
    Saved(row.on_hand + delta, row.reserved, row.physical + delta)

Reserved(row, q) == Saved(row.on_hand, row.reserved + q, row.physical)

\* Mutant of Released: the release forgets max(0, ...).
ReleasedUnclamped(row, q) == Saved(row.on_hand, row.reserved - q, row.physical)

Released(row, q) ==
    Saved(row.on_hand, AtLeastZero(row.reserved - q), row.physical)

\* Mutant of Committed: shipping deducts the units but keeps them reserved.
CommittedStillReserved(row, q) ==
    Saved(row.on_hand - q, row.reserved, row.physical - q)

Committed(row, q) ==
    Saved(row.on_hand - q, AtLeastZero(row.reserved - q), row.physical - q)

\* recompute_stock, from the two sums it read: available is clamped too.
Recomputed(row, sums) ==
    LET on_hand == AtLeastZero(sums.physical)
        reserved == AtLeastZero(sums.held)
    IN  [on_hand |-> on_hand, reserved |-> reserved,
         available |-> AtLeastZero(on_hand - reserved), physical |-> row.physical]

-----------------------------------------------------------------------------
(* Reservations.                                                           *)

NoHold == [status |-> "none"]
ErasedHold == [status |-> "deleted"]

\* Nothing reads the order or the quantity of a settled reservation again.
ActiveHold == [status : {"active"}, key : Keys, ref : Refs, qty : Qty]
SettledHold == [status : {"committed", "released"}, key : Keys]
HoldRecord == ActiveHold \cup SettledHold

Hold == HoldRecord \cup {NoHold, ErasedHold}

ActiveHolds(rv, k) == {h \in Holds : rv[h].status = "active" /\ rv[h].key = k}

\* SUM(quantity) over the ACTIVE reservations of row k.
Held(rv, k) == SumOver([h \in ActiveHolds(rv, k) |-> rv[h].qty], ActiveHolds(rv, k))

-----------------------------------------------------------------------------
(* Transactions.                                                           *)

\* One row to lock and change: by how much, and for which reservation.
\* A line that is about no reservation has hold 0.
Kinds == {"reserve", "release", "commit", "deduct", "add", "recompute"}
Line == [kind : Kinds, key : Keys, qty : Qty, hold : 0 .. MaxHolds]

NoSums == [physical |-> 0, held |-> 0]
Ops == {"idle", "reserve", "release", "commit_checked", "commit",
        "move", "recompute_begun", "recompute"}

\* op    the service the worker runs
\* ref   the order a reservation service works for
\* todo  the lines not yet worked off
\* rows  the rows locked, as the transaction has (not yet visibly) written them
\* holds the reservations it has written
\* sums  what recompute_stock has read before locking
\* stale history: rows written from a reservation or a sum that was out of date
Idle ==
    [op |-> "idle", ref |-> NoRef, todo |-> <<>>, rows |-> <<>>,
     holds |-> <<>>, sums |-> NoSums, stale |-> {}]

\* A transaction that has written the rows of keys and the reservations ids.
TxnOver(keys, ids) ==
    [op : Ops, ref : Refs \cup {NoRef}, todo : Seq(Line),
     rows : [keys -> Row], holds : [ids -> HoldRecord],
     sums : [physical : Int, held : Int], stale : SUBSET Keys]

IsTxn(t) ==
    /\ DOMAIN t.rows \subseteq Keys
    /\ DOMAIN t.holds \subseteq Holds
    /\ t \in TxnOver(DOMAIN t.rows, DOMAIN t.holds)

Locked(w, k) == k \in DOMAIN txn[w].rows

\* Mutant of CanLock: the row is read without FOR UPDATE.
CanAlwaysRead(w, k) == w \in Workers /\ k \in Keys

\* Nobody but w has locked row k.
CanLock(w, k) == \A v \in Workers \ {w} : ~Locked(v, k)

Unlocked(k) == \A v \in Workers : ~Locked(v, k)

\* What worker w reads: its own writes over what is committed.
SeenRow(w, k) == IF Locked(w, k) THEN txn[w].rows[k] ELSE stock[k]
SeenHolds(w) ==
    [h \in Holds |-> IF h \in DOMAIN txn[w].holds THEN txn[w].holds[h] ELSE resv[h]]

Put(f, x, v) == [y \in DOMAIN f \cup {x} |-> IF y = x THEN v ELSE f[y]]

-----------------------------------------------------------------------------
TypeOK ==
    /\ stock \in [Keys -> Row]
    /\ resv \in [Holds -> Hold]
    /\ txn = [w \in Workers |-> txn[w]]
    /\ \A w \in Workers : IsTxn(txn[w])
    /\ raced \in SUBSET Keys

Init ==
    /\ stock = [k \in Keys |-> EmptyRow]
    /\ resv = [h \in Holds |-> NoHold]
    /\ txn = [w \in Workers |-> Idle]
    /\ raced = {}
-----------------------------------------------------------------------------
(* Services that lock one row and decide only on what they read under that *)
(* lock: one step each.                                                    *)

\* receive_stock.
ReceiveStock(k, q) ==
    /\ Unlocked(k)
    /\ stock[k].on_hand + q <= MaxOnHand
    /\ stock' = [stock EXCEPT ![k] = Moved(@, q)]
    /\ UNCHANGED <<resv, txn, raced>>

\* process_return.  A quarantined return locks the row too, and leaves it as it is: its
\* DAMAGE entry is of quantity 0.
ProcessReturn(k, q, return_to_stock) ==
    /\ Unlocked(k)
    /\ return_to_stock => stock[k].on_hand + q <= MaxOnHand
    /\ stock' = [stock EXCEPT ![k] = IF return_to_stock THEN Moved(@, q) ELSE @]
    /\ UNCHANGED <<resv, txn, raced>>

\* adjust_stock: on_hand may not become negative, but may go below reserved.
AdjustStock(k, delta) ==
    /\ Unlocked(k)
    /\ delta # 0
    /\ stock[k].on_hand + delta \in 0 .. MaxOnHand
    /\ stock' = [stock EXCEPT ![k] = Moved(@, delta)]
    /\ UNCHANGED <<resv, txn, raced>>

\* The rows of keys bulk_delete_stock_records deletes: no stock is held on them.
Deletable(keys) ==
    {k \in keys : ActiveHolds(resv, k) = {} /\ stock[k].reserved = 0}

\* bulk_delete_stock_records: one query locks all the rows asked for; those that
\* can be go with their ledger and reservations, the others are blocked.  A
\* recompute_stock that has not locked its row yet finds none to lock, and fails.
BulkDeleteStockRecords(keys) ==
    /\ \A k \in keys : Unlocked(k)
    /\ stock' = [k \in Keys |-> IF k \in Deletable(keys) THEN EmptyRow ELSE stock[k]]
    /\ resv' = [h \in Holds |->
                   IF resv[h] \in HoldRecord /\ resv[h].key \in Deletable(keys)
                   THEN ErasedHold ELSE resv[h]]
    /\ txn' = [w \in Workers |->
                  IF /\ txn[w].op \in {"recompute_begun", "recompute"}
                     /\ \E i \in DOMAIN txn[w].todo :
                           txn[w].todo[i].key \in Deletable(keys)
                  THEN Idle ELSE txn[w]]
    /\ raced' = raced \ Deletable(keys)

-----------------------------------------------------------------------------
(* Services of several steps: how each begins.                             *)

Begin(w, op, ref, lines) ==
    txn' = [txn EXCEPT ![w] = [Idle EXCEPT !.op = op, !.ref = ref, !.todo = lines]]

\* Reservation ids no row has and no open transaction is about to create.
FreshHolds ==
    {h \in Holds :
        /\ resv[h] = NoHold
        /\ \A v \in Workers :
              /\ h \notin DOMAIN txn[v].holds
              /\ \A i \in DOMAIN txn[v].todo : txn[v].todo[i].hold # h}

\* place_order and its like: reserve_stock for each line, in one transaction.
\* reserve_stock called by itself is an order of one line.
PlaceOrder(w, ref, keys, qtys) ==
    /\ txn[w].op = "idle"
    /\ \E h \in FreshHolds :
         /\ h .. (h + Len(keys) - 1) \subseteq FreshHolds
         /\ \A g \in FreshHolds : h <= g
         /\ Begin(w, "reserve", ref,
                  [i \in 1 .. Len(keys) |->
                     [kind |-> "reserve", key |-> keys[i], qty |-> qtys[i],
                      hold |-> h + i - 1]])
    /\ UNCHANGED <<stock, resv, raced>>

\* The ACTIVE reservations of an order, as a query sees them: only what is
\* committed, in the model's default order, the newest first.
ActiveFor(ref) == {h \in Holds : resv[h].status = "active" /\ resv[h].ref = ref}

NewestFirst(S) ==
    {s \in [1 .. Cardinality(S) -> S] : \A i, j \in DOMAIN s : i < j => s[i] > s[j]}

\* Evaluate the queryset and start working through it.
Fetch(w, kind, ref) ==
    \E s \in NewestFirst(ActiveFor(ref)) :
        Begin(w, kind, ref,
              [i \in DOMAIN s |->
                 [kind |-> kind, key |-> resv[s[i]].key, qty |-> resv[s[i]].qty,
                  hold |-> s[i]]])

\* release_reservation: the reservations are read before any row is locked.
ReleaseReservation(w, ref) ==
    /\ txn[w].op = "idle"
    /\ Fetch(w, "release", ref)
    /\ UNCHANGED <<stock, resv, raced>>

\* commit_reservation, the exists() query.  Its caller mark_shipped has updated
\* the order's row before, which admits one such call for an order at a time.
CommitReservation(w, ref) ==
    /\ txn[w].op = "idle"
    /\ \A v \in Workers : ~(txn[v].op \in {"commit_checked", "commit"} /\ txn[v].ref = ref)
    /\ ActiveFor(ref) # {}
    /\ Begin(w, "commit_checked", ref, <<>>)
    /\ UNCHANGED <<stock, resv, raced>>

\* commit_reservation, the loop's query: it may see fewer than exists() saw.
CommitFetch(w) ==
    /\ txn[w].op = "commit_checked"
    /\ Fetch(w, "commit", txn[w].ref)
    /\ UNCHANGED <<stock, resv, raced>>

\* process_exchange (out and in at one warehouse, the same variant allowed) and
\* transfer_stock (one variant, two warehouses): out first, then in.
MoveStock(w, out, q_out, in, q_in) ==
    /\ txn[w].op = "idle"
    /\ stock[in].on_hand + q_in <= MaxOnHand
    /\ Begin(w, "move", NoRef,
             <<[kind |-> "deduct", key |-> out, qty |-> q_out, hold |-> 0],
               [kind |-> "add", key |-> in, qty |-> q_in, hold |-> 0]>>)
    /\ UNCHANGED <<stock, resv, raced>>

\* recompute_stock, its first query: the physical movements of the row.
RecomputeStock(w, k) ==
    /\ txn[w].op = "idle"
    /\ txn' = [txn EXCEPT ![w] =
                 [Idle EXCEPT
                    !.op = "recompute_begun",
                    !.todo = <<[kind |-> "recompute", key |-> k, qty |-> 1, hold |-> 0]>>,
                    !.sums = [physical |-> stock[k].physical, held |-> 0]]]
    /\ UNCHANGED <<stock, resv, raced>>

\* recompute_stock, its second query: the ACTIVE reservations of the row.
RecomputeReserved(w) ==
    /\ txn[w].op = "recompute_begun"
    /\ txn' = [txn EXCEPT ![w].op = "recompute",
                         ![w].sums.held = Held(resv, Head(txn[w].todo).key)]
    /\ UNCHANGED <<stock, resv, raced>>
-----------------------------------------------------------------------------
(* Services of several steps: working off a line.                          *)

\* No ACTIVE reservation of the order on the row yet (reserve_stock's guard).
NotYetHeld(w, k) ==
    \A h \in ActiveHolds(SeenHolds(w), k) : SeenHolds(w)[h].ref # txn[w].ref

\* Mutant of Admits: reserve_stock does not look for an existing reservation.
AdmitsSecondHold(w, line) ==
    LET row == SeenRow(w, line.key)
    IN  /\ line.kind \in {"reserve", "deduct"} => row.available >= line.qty
        /\ line.kind = "commit" => row.on_hand >= line.qty
        /\ line.kind \in {"release", "commit"} => resv[line.hold] # ErasedHold

\* Mutant of Admits: reserve_stock compares with on_hand instead of available.
AdmitsAgainstOnHand(w, line) ==
    LET row == SeenRow(w, line.key)
    IN  /\ line.kind = "reserve" =>
              row.on_hand >= line.qty /\ NotYetHeld(w, line.key)
        /\ line.kind = "deduct" => row.available >= line.qty
        /\ line.kind = "commit" => row.on_hand >= line.qty
        /\ line.kind \in {"release", "commit"} => resv[line.hold] # ErasedHold

\* The validation after the lock.  A reservation that bulk_delete_stock_records
\* has erased took its row along: there is nothing to lock.
Admits(w, line) ==
    LET row == SeenRow(w, line.key)
    IN  /\ line.kind = "reserve" => NotYetHeld(w, line.key)
        /\ line.kind \in {"reserve", "deduct"} => row.available >= line.qty
        /\ line.kind = "commit" => row.on_hand >= line.qty
        /\ line.kind \in {"release", "commit"} => resv[line.hold] # ErasedHold

\* The row as the line leaves it.
RowAfter(w, line) ==
    LET row == SeenRow(w, line.key)
    IN  CASE line.kind = "reserve"   -> Reserved(row, line.qty)
          [] line.kind = "release"   -> Released(row, line.qty)
          [] line.kind = "commit"    -> Committed(row, line.qty)
          [] line.kind = "deduct"    -> Moved(row, -line.qty)
          [] line.kind = "add"       -> Moved(row, line.qty)
          [] line.kind = "recompute" -> Recomputed(row, txn[w].sums)

\* The reservations as the line leaves them: a release or a commit saves the
\* status over whatever it has become since it was read.
HoldsAfter(w, line) ==
    LET save(hold) == Put(txn[w].holds, line.hold, hold)
    IN  CASE line.kind = "reserve" ->
               save([status |-> "active", key |-> line.key, ref |-> txn[w].ref,
                     qty |-> line.qty])
          [] line.kind = "release" -> save([status |-> "released", key |-> line.key])
          [] line.kind = "commit"  -> save([status |-> "committed", key |-> line.key])
          [] OTHER -> txn[w].holds

\* History: the line acts on a reservation that is no longer ACTIVE, or writes
\* sums that no longer hold.
OutOfDate(w, line) ==
    \/ /\ line.kind \in {"release", "commit"}
       /\ resv[line.hold].status # "active"
    \/ /\ line.kind = "recompute"
       /\ \/ txn[w].sums.physical # stock[line.key].physical
          \/ txn[w].sums.held # Held(resv, line.key)
          \/ txn[w].sums.physical < 0

\* Mutant of WorkOff: each row is committed as it is written.
WorkOffAutocommit(w) ==
    /\ txn[w].op # "recompute_begun" /\ txn[w].todo # <<>>
    /\ LET line == Head(txn[w].todo)
       IN  /\ CanLock(w, line.key)
           /\ Admits(w, line)
           /\ stock' = [stock EXCEPT ![line.key] = RowAfter(w, line)]
           /\ resv' = [h \in Holds |-> IF h = line.hold THEN HoldsAfter(w, line)[h] ELSE resv[h]]
           /\ txn' = [txn EXCEPT ![w].todo = Tail(@)]
           /\ raced' = IF OutOfDate(w, line) THEN raced \cup {line.key} ELSE raced

\* _lock the row of the next line, validate, and write.
WorkOff(w) ==
    /\ txn[w].op # "recompute_begun" /\ txn[w].todo # <<>>
    /\ LET line == Head(txn[w].todo)
       IN  /\ CanLock(w, line.key)
           /\ Admits(w, line)
           /\ txn' = [txn EXCEPT
                ![w].todo = Tail(@),
                ![w].rows = Put(@, line.key, RowAfter(w, line)),
                ![w].holds = HoldsAfter(w, line),
                ![w].stale = IF OutOfDate(w, line) THEN @ \cup {line.key} ELSE @]
    /\ UNCHANGED <<stock, resv, raced>>

\* The transaction is rolled back: none of its writes were ever visible.
Rollback(w) ==
    /\ txn' = [txn EXCEPT ![w] = Idle]
    /\ UNCHANGED <<stock, resv, raced>>

\* The validation raises.
Refuse(w) ==
    /\ txn[w].op # "recompute_begun" /\ txn[w].todo # <<>>
    /\ CanLock(w, Head(txn[w].todo).key)
    /\ ~Admits(w, Head(txn[w].todo))
    /\ Rollback(w)

\* The request dies (its worker is killed, its connection drops).
Die(w) ==
    /\ txn[w].op # "idle"
    /\ Rollback(w)

\* v has locked the row w needs next.
WaitsFor(w, v) ==
    /\ v # w
    /\ txn[w].op # "recompute_begun" /\ txn[w].todo # <<>>
    /\ Locked(v, Head(txn[w].todo).key)

\* w is on a cycle of workers that wait for one another.
InDeadlock(w) ==
    \E S \in SUBSET Workers :
        /\ w \in S
        /\ \A v \in S : (\E u \in S : WaitsFor(v, u)) /\ (\E u \in S : WaitsFor(u, v))

\* The database ends a deadlock by failing one of the transactions in it.
BreakDeadlock(w) ==
    /\ InDeadlock(w)
    /\ Rollback(w)

\* The rows a recompute_stock with current sums has made exact again.
Repaired(w) ==
    IF txn[w].op = "recompute" THEN DOMAIN txn[w].rows \ txn[w].stale ELSE {}

\* COMMIT: everything the transaction wrote becomes visible at once.
Commit(w) ==
    /\ txn[w].op \notin {"idle", "commit_checked", "recompute_begun"}
    /\ txn[w].todo = <<>>
    /\ stock' = [k \in Keys |-> SeenRow(w, k)]
    /\ resv' = SeenHolds(w)
    /\ raced' = (raced \cup txn[w].stale) \ Repaired(w)
    /\ txn' = [txn EXCEPT ![w] = Idle]

-----------------------------------------------------------------------------
Quantities(n) == [1 .. n -> Qty]
KeyLists(n) == [1 .. n -> Keys]

OneStepNext ==
    \/ \E k \in Keys, q \in Qty : ReceiveStock(k, q)
    \/ \E k \in Keys, q \in Qty, back \in BOOLEAN : ProcessReturn(k, q, back)
    \/ \E k \in Keys, delta \in -MaxQty .. MaxQty : AdjustStock(k, delta)
    \/ \E keys \in (SUBSET Keys) \ {{}} : BulkDeleteStockRecords(keys)

BeginNext(w) ==
    \/ \E ref \in Refs, n \in 1 .. MaxLines :
         \E keys \in KeyLists(n), qtys \in Quantities(n) : PlaceOrder(w, ref, keys, qtys)
    \/ \E ref \in Refs : ReleaseReservation(w, ref) \/ CommitReservation(w, ref)
    \/ \E out, in \in Keys, q_out, q_in \in Qty : MoveStock(w, out, q_out, in, q_in)
    \/ \E k \in Keys : RecomputeStock(w, k)

\* What a worker does once it has begun.
Proceed(w) ==
    CommitFetch(w) \/ RecomputeReserved(w) \/ WorkOff(w) \/ Refuse(w) \/ Commit(w)

Next ==
    \/ OneStepNext
    \/ \E w \in Workers : BeginNext(w) \/ Proceed(w) \/ Die(w) \/ BreakDeadlock(w)

\* A worker that can go on does: strongly fair, because the database queues the
\* transactions waiting for a row, so that one which finds the row unlocked again
\* and again gets its turn.  Beginning, dying and the one-step services are not fair.
Fairness ==
    \A w \in Workers : SF_vars(Proceed(w)) /\ WF_vars(BreakDeadlock(w))

Spec == Init /\ [][Next]_vars /\ Fairness

-----------------------------------------------------------------------------
(* Properties.                                                             *)

\* The counters of one row make sense: nothing negative, and available is
\* on_hand - reserved, or 0 where a recompute clamped it.
Sound(row) ==
    /\ row.on_hand >= 0
    /\ row.reserved >= 0
    /\ \/ row.available = row.on_hand - row.reserved
       \/ row.available = 0 /\ row.on_hand < row.reserved

\* No order of racing services makes a committed counter negative or lets
\* `available' promise more than on_hand - reserved.
CountersSound == \A k \in Keys : Sound(stock[k])

\* The counters agree with what they summarise.
Exact(row, rv, k) == row.reserved = Held(rv, k) /\ row.on_hand = row.physical

\* Bookkeeping is exact on every row no race has touched: reserved is the sum of
\* the row's ACTIVE reservations and on_hand the sum of its physical ledger
\* entries.  The only races that break it are a release or commit of a
\* reservation someone else has settled since it was read, and a recompute of
\* sums that changed since they were read; a recompute without a race repairs it.
BookkeepingExact == \A k \in Keys \ raced : Exact(stock[k], resv, k)

OneActive(rv) ==
    \A g, h \in Holds :
        /\ rv[g].status = "active" /\ rv[h].status = "active"
        /\ rv[g].key = rv[h].key /\ rv[g].ref = rv[h].ref
        => g = h

\* At most one ACTIVE reservation per (stock row, reference), in the database and as any
\* open transaction has written it: the guard of reserve_stock is enough to keep the
\* partial unique constraint from firing.
OneActiveHold == OneActive(resv) /\ \A w \in Workers : OneActive(SeenHolds(w))

\* No over-sell: stock is only ever promised to a further order if, with all that
\* is promised already, it is on the shelf (on rows no race has touched).
NewHoldsFit ==
    [][\A k \in Keys :
         k \notin raced /\ Held(resv', k) > Held(resv, k)
         => Held(resv', k) <= stock'[k].on_hand]_vars

-----------------------------------------------------------------------------
(* The inductive invariant behind CountersSound and BookkeepingExact.      *)

\* A row is locked by one transaction at a time.
LocksExclusive ==
    \A w, v \in Workers : w # v => DOMAIN txn[w].rows \cap DOMAIN txn[v].rows = {}

\* What is left to do still refers to what it referred to when it was read: a
\* reservation to be created does not exist, one to be settled exists on its row
\* (or was erased with it) and has its quantity for as long as it is ACTIVE.
LineFits(w, line) ==
    /\ line.kind \in {"reserve", "release", "commit"} =>
         line.hold \in Holds /\ txn[w].ref \in Refs
    /\ line.kind = "reserve" => resv[line.hold] = NoHold
    /\ line.kind \in {"release", "commit"} =>
         \/ resv[line.hold] = ErasedHold
         \/ /\ resv[line.hold] \in HoldRecord
            /\ resv[line.hold].key = line.key
            /\ resv[line.hold].status = "active" => resv[line.hold].qty = line.qty
    /\ line.hold \notin DOMAIN txn[w].holds
    /\ line.kind = "recompute" <=> txn[w].op \in {"recompute_begun", "recompute"}

LinesFit(w) ==
    \A i \in DOMAIN txn[w].todo :
        /\ LineFits(w, txn[w].todo[i])
        /\ \A j \in DOMAIN txn[w].todo :
             i # j /\ txn[w].todo[i].hold \in Holds
             => txn[w].todo[i].hold # txn[w].todo[j].hold

\* What has been written: reservations of locked rows, created or settled.
WritesFit(w) ==
    /\ txn[w].op \in {"recompute_begun", "recompute"} =>
         /\ DOMAIN txn[w].holds = {}
         /\ txn[w].todo # <<>> => Len(txn[w].todo) = 1 /\ DOMAIN txn[w].rows = {}
    /\ txn[w].op = "recompute_begun" => DOMAIN txn[w].rows = {}
    /\ \A h \in DOMAIN txn[w].holds :
         LET new == txn[w].holds[h]
         IN  /\ Locked(w, new.key)
             /\ \/ new.status = "active" /\ resv[h] = NoHold
                \/ /\ new.status # "active"
                   /\ resv[h] \in HoldRecord /\ resv[h].key = new.key

\* The reservations a transaction writes or is going to write.
Claims(w) ==
    DOMAIN txn[w].holds
      \cup ({txn[w].todo[i].hold : i \in DOMAIN txn[w].todo} \cap Holds)

\* Two transactions may settle the same reservation, never create it.
ClaimsApart ==
    \A w, v \in Workers : w # v => \A h \in Claims(w) \cap Claims(v) : resv[h] # NoHold

\* Uncommitted rows have sound counters, and exact ones unless they were written
\* out of date.
RowsFit(w) ==
    \A k \in DOMAIN txn[w].rows :
        /\ Sound(txn[w].rows[k])
        /\ k \notin txn[w].stale /\ (k \notin raced \/ txn[w].op = "recompute")
           => Exact(txn[w].rows[k], SeenHolds(w), k)

IndInv ==
    /\ LocksExclusive /\ ClaimsApart
    /\ \A w \in Workers : LinesFit(w) /\ WritesFit(w) /\ RowsFit(w)
    /\ CountersSound /\ BookkeepingExact

\* An order that is being placed writes reservations that fit the rows it has locked;
\* no other transaction makes a reservation.
PromisesFit(w) ==
    LET t == txn[w]
    IN  IF t.op = "reserve"
        THEN /\ t.stale = {}
             /\ \A i \in DOMAIN t.todo : t.todo[i].kind = "reserve"
             /\ \A k \in DOMAIN t.rows : t.rows[k].reserved <= t.rows[k].on_hand
        ELSE /\ \A i \in DOMAIN t.todo : t.todo[i].kind # "reserve"
             /\ \A h \in DOMAIN t.holds : t.holds[h].status # "active"

\* What OneActiveHold and NewHoldsFit rest on besides.
HoldsInv == OneActiveHold /\ \A w \in Workers : PromisesFit(w)

Inductive == TypeOK /\ IndInv /\ HoldsInv

-----------------------------------------------------------------------------
(* A statement of the code's documentation that the code does not keep.     *)

\* The docstring of services.py: the locking pattern prevents double-spending.
\* All that orders hold is on the shelf.
HoldsFitOnHand == \A k \in Keys : Held(resv, k) <= stock[k].on_hand
=============================================================================
