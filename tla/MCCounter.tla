------------------------------ MODULE MCCounter -----------------------------
(* The counter for TLC: the ledger of one sale, the drawer of its till, and  *)
(* the pieces it sells without a barcode.  Bound: one of the three at a      *)
(* time, as none of them reads what the others write.                        *)
EXTENDS TenderLedger, Register, QuickItems, TLC

CONSTANTS till, webhook, pay, c1, c2

Symmetry == Permutations(Requests) \cup Permutations(Clerks)

counterVars == <<vars, registerVars, quickVars>>

CounterInit == Init /\ RegisterInit /\ QuickInit

NothingSold == order = NewOrder(FALSE) /\ tenders = [t \in Ids |-> NoTender] /\ \A w \in Requests : Off(req[w])
NeverOpened == \A s \in Shifts : shifts[s].status = "none"
NothingStocked == shelf = <<>>

\* The bound is reached: every shift is closed and the counter rests.
DayIsOver == (\A s \in Shifts : shifts[s].status = "closed") /\ UNCHANGED counterVars

CounterNext ==
    \/ NeverOpened /\ NothingStocked /\ Next /\ UNCHANGED <<registerVars, quickVars>>
    \/ NothingSold /\ NothingStocked /\ RegisterNext /\ UNCHANGED <<vars, quickVars>>
    \/ NothingSold /\ NeverOpened /\ QuickNext /\ UNCHANGED <<vars, registerVars>>
    \/ DayIsOver

CounterSpec == CounterInit /\ [][CounterNext]_counterVars

\* Everything the proofs rest on.
CounterInv == BooksInv /\ DrawerInv /\ PiecesInv
=============================================================================
