----------------------------- MODULE QuickItems -----------------------------
(***************************************************************************)
(* apps/pos/quick_items.py and signals.py: pieces without a barcode, sold  *)
(* from a count of their own.                                              *)
(*                                                                         *)
(* Ringing up takes pieces off the shelf.  No cancelling path knows of     *)
(* them: a signal on every save of an order puts them back if the copy     *)
(* that is saved is cancelled.  Requests act on the copy of the order that *)
(* their view has read; a save locks the order's row until the transaction *)
(* ends, and so does the update of a piece.  Left out: prices, hiding a    *)
(* piece (no basket has it), sales that are not carried away at once.      *)
(***************************************************************************)
EXTENDS Sequences, UnitSums

CONSTANTS
    Desks,      \* concurrent requests
    MaxPieces,  \* bound: POSQuickItem rows
    MaxCount,   \* bound: pieces of one row, on the shelf and sold
    MaxSales    \* bound: sales rung up

ASSUME CountAssumption == MaxCount \in Nat
ASSUME SalesAssumption == MaxSales \in Nat

VARIABLES
    shelf,      \* POSQuickItem.quantity, by row
    sales,      \* Order rows with their POSQuickSaleLine rows
    desk,       \* what each request is doing
    stocked     \* history: the pieces the shelf and the sales should have between them

quickVars == <<shelf, sales, desk, stocked>>

Counts == 0 .. MaxCount

\* lines      quantity, by piece
\* restocked  the pieces whose line has restocked_at
Unsold == [status |-> "none", lines |-> <<>>, restocked |-> {}]
Exists(s) == sales[s].status \notin {"none", "deleted"}

\* copy   the order's status in the request's copy
\* phase  read: before the first write; saved: the order's row is written and locked
\* moves  the pieces this transaction takes or puts back, by row
\* held   the rows of pieces it has locked so far
AtRest == [do |-> "rest", sale |-> 0, copy |-> "none", phase |-> "read", moves |-> <<>>, held |-> {}]

QuickInit ==
    /\ shelf = <<>>
    /\ sales = [s \in 1 .. MaxSales |-> Unsold]
    /\ desk = [d \in Desks |-> AtRest]
    /\ stocked = <<>>

-----------------------------------------------------------------------------
(* Locks.                                                                   *)

LockedPiece(p) == \E d \in Desks : p \in desk[d].held
LockedSale(s) == \E d \in Desks : desk[d].sale = s /\ desk[d].phase = "saved"
ToLock(d) == DOMAIN desk[d].moves \ desk[d].held

\* Rows that are locked by one query are locked newest first; a restock
\* updates row after row, in the order in which the sale was typed in.
LocksPiece(d, p) ==
    /\ p \in ToLock(d) /\ ~LockedPiece(p)
    /\ desk[d].do = "ring" => \A q \in ToLock(d) : q <= p
    /\ desk' = [desk EXCEPT ![d].held = @ \cup {p}]
    /\ UNCHANGED <<shelf, sales, stocked>>

\* The service refuses, the database breaks a deadlock, or the worker dies.
GivesUpDesk(d) ==
    /\ desk[d] # AtRest
    /\ desk' = [desk EXCEPT ![d] = AtRest]
    /\ UNCHANGED <<shelf, sales, stocked>>

-----------------------------------------------------------------------------
(* The pieces.                                                              *)

\* The lines of p that have not gone back on the shelf.
Out(p) == {s \in DOMAIN sales : p \in DOMAIN sales[s].lines \ sales[s].restocked}
OutOf(p) == SumOver([s \in Out(p) |-> sales[s].lines[p]], Out(p))

CreateQuickItem(q) ==
    /\ Len(shelf) < MaxPieces /\ q > 0
    /\ shelf' = Append(shelf, q)
    /\ stocked' = Append(stocked, q)
    /\ UNCHANGED <<sales, desk>>

\* update_quick_item, with the row locked: whatever was counted is the count.
UpdateQuickItem(p, q) ==
    /\ ~LockedPiece(p) /\ q + OutOf(p) <= MaxCount
    /\ shelf' = [shelf EXCEPT ![p] = q]
    /\ stocked' = [stocked EXCEPT ![p] = q + OutOf(p)]
    /\ UNCHANGED <<sales, desk>>

-----------------------------------------------------------------------------
(* Selling.                                                                 *)

\* _load: the row has enough.
Sellable(p, q) == q <= shelf[p]

\* A basket the quote has not refused: the same check, without locks.
RingsUp(d, basket) ==
    /\ desk[d] = AtRest /\ \A p \in DOMAIN basket : Sellable(p, basket[p])
    /\ desk' = [desk EXCEPT ![d] = [AtRest EXCEPT !.do = "ring", !.moves = basket]]
    /\ UNCHANGED <<shelf, sales, stocked>>

\* add_quick_lines and the rest of create_pos_order, as they commit.
CreatePosOrder(d, s) ==
    LET basket == desk[d].moves
    IN  /\ desk[d].do = "ring" /\ ToLock(d) = {}
        /\ \A p \in DOMAIN basket : Sellable(p, basket[p])
        /\ sales[s].status = "none" /\ \A t \in 1 .. s - 1 : sales[t].status # "none"
        /\ sales' = [sales EXCEPT ![s] = [status |-> "placed", lines |-> basket, restocked |-> {}]]
        /\ shelf' = [p \in DOMAIN shelf |-> shelf[p] - IF p \in DOMAIN basket THEN basket[p] ELSE 0]
        /\ desk' = [desk EXCEPT ![d] = AtRest]
        /\ UNCHANGED stocked

-----------------------------------------------------------------------------
(* What becomes of a sale.                                                  *)

\* What mark_paid, cancel_order and delete_admin_order ask of their copy.
Permitted(do, copy) ==
    /\ do \in {"pay", "cancel"} => copy = "placed"
    /\ do = "delete" => copy # "completed"

\* The view reads the order; a request that is refused on this copy changes nothing.
ReadsSale(d, s, do) ==
    /\ desk[d] = AtRest /\ Exists(s) /\ Permitted(do, sales[s].status)
    /\ desk' = [desk EXCEPT ![d] = [AtRest EXCEPT !.do = do, !.sale = s, !.copy = sales[s].status]]
    /\ UNCHANGED <<shelf, sales, stocked>>

\* The status that is saved; a note (update_admin_order) saves its copy as it is.
StatusAfter(do, copy) == CASE do = "pay" -> "completed" [] do = "cancel" -> "cancelled" [] OTHER -> copy

\* Mutant of Unrestocked: the lines of the order, whether they went back or not.
EveryLine(s) == DOMAIN sales[s].lines

\* filter(order=order, restocked_at__isnull=True)
Unrestocked(s) == DOMAIN sales[s].lines \ sales[s].restocked

\* order.save(); a save of all columns inserts the row if it has been deleted.  Then the
\* signal, which finds the lines to restock if the copy is now cancelled.
SavesSale(d) ==
    LET r == desk[d]
        saved == StatusAfter(r.do, r.copy)
        back == IF saved = "cancelled" THEN Unrestocked(r.sale) ELSE {}
    IN  /\ r.do \in {"pay", "cancel", "note"} /\ r.phase = "read"
        /\ ~LockedSale(r.sale)
        /\ Exists(r.sale) \/ r.do = "note"
        /\ desk' = [desk EXCEPT ![d].copy = saved, ![d].phase = "saved",
                               ![d].moves = [p \in back |-> sales[r.sale].lines[p]]]
        /\ UNCHANGED <<shelf, sales, stocked>>

\* The transaction commits: the order, the counts and restocked_at together.
CommitSale(d) ==
    LET r == desk[d]
    IN  /\ r.phase = "saved" /\ ToLock(d) = {}
        /\ sales' = [sales EXCEPT ![r.sale].status = r.copy,
                                 ![r.sale].restocked = @ \cup DOMAIN r.moves]
        /\ shelf' = [p \in DOMAIN shelf |-> shelf[p] + IF p \in DOMAIN r.moves THEN r.moves[p] ELSE 0]
        /\ desk' = [desk EXCEPT ![d] = AtRest]
        /\ UNCHANGED stocked

\* delete_admin_order: the lines go with the order, and what was not restocked with them.
DeleteAdminOrder(d) ==
    LET s == desk[d].sale
    IN  /\ desk[d].do = "delete" /\ ~LockedSale(s) /\ Exists(s)
        /\ sales' = [sales EXCEPT ![s] = [Unsold EXCEPT !.status = "deleted"]]
        /\ stocked' = [p \in DOMAIN stocked |->
                         stocked[p] - IF s \in Out(p) THEN sales[s].lines[p] ELSE 0]
        /\ desk' = [desk EXCEPT ![d] = AtRest]
        /\ UNCHANGED shelf

Baskets == UNION {[ps -> 1 .. MaxCount] : ps \in SUBSET DOMAIN shelf \ {{}}}

QuickNext ==
    \/ \E q \in Counts : CreateQuickItem(q)
    \/ \E p \in DOMAIN shelf, q \in Counts : UpdateQuickItem(p, q)
    \/ \E d \in Desks :
         \/ \E basket \in Baskets : RingsUp(d, basket)
         \/ \E p \in DOMAIN shelf : LocksPiece(d, p)
         \/ \E s \in DOMAIN sales :
              CreatePosOrder(d, s) \/ \E do \in {"pay", "cancel", "note", "delete"} : ReadsSale(d, s, do)
         \/ SavesSale(d) \/ CommitSale(d) \/ DeleteAdminOrder(d) \/ GivesUpDesk(d)

QuickSpec == QuickInit /\ [][QuickNext]_quickVars

-----------------------------------------------------------------------------
(* Properties.                                                              *)

\* The count goes down on a sale and up again on its cancellation, exactly once, whoever
\* cancels, saves again or revives the order, and whatever is rung up meanwhile: the
\* shelf never owes a piece, it and the sales have between them what was last counted,
\* and a cancelled sale keeps none.
PiecesBalance ==
    /\ \A p \in DOMAIN shelf : shelf[p] \in Nat /\ shelf[p] + OutOf(p) = stocked[p]
    /\ \A s \in DOMAIN sales : sales[s].status = "cancelled" => DOMAIN sales[s].lines = sales[s].restocked

-----------------------------------------------------------------------------
(* Why it holds: the invariant of the proofs.                               *)

Jobs == {"rest", "ring", "pay", "cancel", "note", "delete"}
SaleStatus == {"none", "placed", "completed", "cancelled", "deleted"}

\* Pieces and how many of each.
Pieces(f) == DOMAIN f \subseteq DOMAIN shelf /\ \A p \in DOMAIN f : f[p] \in Nat

IsSale(x) ==
    /\ x = [status |-> x.status, lines |-> x.lines, restocked |-> x.restocked]
    /\ x.status \in SaleStatus /\ Pieces(x.lines) /\ x.restocked \subseteq DOMAIN x.lines
    /\ x.status \in {"none", "deleted"} => DOMAIN x.lines = {}

\* A request that has saved a sale holds its row: its lines are as they were, and what
\* it is about to put back is what had not gone back.
Restocks(r) ==
    /\ r.do \in {"pay", "cancel", "note"}
    /\ r.moves = [p \in IF r.copy = "cancelled" THEN Unrestocked(r.sale) ELSE {} |->
                    sales[r.sale].lines[p]]

IsDesk(r) ==
    /\ r = [do |-> r.do, sale |-> r.sale, copy |-> r.copy, phase |-> r.phase,
            moves |-> r.moves, held |-> r.held]
    /\ r.do \in Jobs /\ r.phase \in {"read", "saved"} /\ Pieces(r.moves)
    /\ r.do \in {"pay", "cancel", "note", "delete"} =>
         /\ r.sale \in DOMAIN sales /\ sales[r.sale].status # "none"
         /\ r.copy \in SaleStatus \ {"none", "deleted"}
    /\ r.phase = "saved" => Restocks(r)

OneSaves ==
    \A d, e \in Desks :
        desk[d].phase = "saved" /\ desk[e].phase = "saved" /\ desk[d].sale = desk[e].sale => d = e

PiecesInv ==
    /\ shelf \in Seq(Nat) /\ stocked \in Seq(Nat) /\ DOMAIN stocked = DOMAIN shelf
    /\ sales = [s \in 1 .. MaxSales |-> sales[s]] /\ \A s \in 1 .. MaxSales : IsSale(sales[s])
    /\ desk = [d \in Desks |-> desk[d]] /\ \A d \in Desks : IsDesk(desk[d])
    /\ OneSaves
    /\ PiecesBalance
=============================================================================
