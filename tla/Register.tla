------------------------------ MODULE Register ------------------------------
(***************************************************************************)
(* apps/pos/services.py, apps/pos/expenses.py: the drawer of one terminal. *)
(*                                                                         *)
(* What the drawer should hold is derived from the rows of its shift: the  *)
(* cash tenders and the cash movements.  Closing the shift stores the sum. *)
(* Nothing but an expense locks the shift's row; the others decide on the  *)
(* copy their view has read.  Amounts are left out: a sum is the set of    *)
(* the rows it is taken over.  The ledger of a sale is in TenderLedger.    *)
(***************************************************************************)
EXTENDS Naturals

CONSTANTS
    Clerks,     \* concurrent requests at the counter
    MaxShifts,  \* bound: shifts of the terminal
    MaxRows     \* bound: cash tenders and cash movements

ASSUME ShiftsAssumption == MaxShifts \in Nat \ {0}
ASSUME RowsAssumption == MaxRows \in Nat

VARIABLES
    shifts,     \* POSShift rows: status, and the rows that expected_cash was summed over
    rows,       \* cash tenders and cash movements
    expenses,   \* POSExpense rows, by the movement they paid out
    clerk,      \* what each clerk's request is doing
    late        \* history: rows written by a request that overlapped with a close

registerVars == <<shifts, rows, expenses, clerk, late>>

Shifts == 1 .. MaxShifts
Rows == 1 .. MaxRows

\* A row: its shift; its kind, cash (an OrderTender taken in cash), move (a
\* POSCashMovement of the staff), out or in (the movements that pay an expense and put
\* it back); whether it is live, which a voided tender is not; its expense.

\* phase  read: the view has read the shift; tenders, movements: so far summed
\* open   is_open of that copy
\* seen   the rows summed
\* spent  the expense whose row is locked, or 0
NoErrand == [job |-> "none", phase |-> "read", shift |-> 1, open |-> FALSE, seen |-> {}, spent |-> 0]

RegisterInit ==
    /\ shifts = [s \in Shifts |-> [status |-> "none", counted |-> {}]]
    /\ rows = [r \in {} |-> 0]
    /\ expenses = [r \in {} |-> "live"]
    /\ clerk = [c \in Clerks |-> NoErrand]
    /\ late = {}

-----------------------------------------------------------------------------

Open(s) == shifts[s].status = "open"

\* open_shift; the database keeps a second open shift away.
OpenShift(s) ==
    /\ shifts[s].status = "none"
    /\ \A t \in Shifts : ~Open(t) /\ (t < s => shifts[t].status = "closed")
    /\ shifts' = [shifts EXCEPT ![s].status = "open"]
    /\ UNCHANGED <<rows, expenses, clerk, late>>

\* Mutant of FoundOpen: the shift may be closed.
FoundAtAll(s) == shifts[s].status # "none"

\* if not shift.is_open: raise ShiftError
FoundOpen(s) == Open(s)

\* POSShift.objects.get(pk=shift_id): the service decides on this copy, and ends here if
\* it refuses.
ReadsShift(c, job, s) ==
    /\ clerk[c] = NoErrand /\ FoundOpen(s)
    /\ clerk' = [clerk EXCEPT ![c] = [NoErrand EXCEPT !.job = job, !.shift = s, !.open = Open(s)]]
    /\ UNCHANGED <<shifts, rows, expenses, late>>

\* A request that found the shift open is overlapped by a close of it.
Overlapped(s) ==
    \/ ~Open(s)
    \/ \E c \in Clerks : clerk[c].job = "close" /\ clerk[c].shift = s /\ clerk[c].phase # "read"

Returns(c) == clerk' = [clerk EXCEPT ![c] = NoErrand]

\* One more row, written by a request that has found its shift open if found.
Adds(s, kind, expense, found) ==
    LET r == CHOOSE r \in Rows : r \notin DOMAIN rows /\ 1 .. r - 1 \subseteq DOMAIN rows
    IN  /\ DOMAIN rows # Rows
        /\ rows' = [q \in DOMAIN rows \cup {r} |->
                      IF q = r THEN [shift |-> s, kind |-> kind, live |-> TRUE,
                                     expense |-> IF kind = "in" THEN expense ELSE r]
                      ELSE rows[q]]
        /\ late' = IF found /\ Overlapped(s) THEN late \cup {r} ELSE late

\* take_cash_tender, record_cash_movement: what else they write is in TenderLedger.
TakesCash(c) ==
    /\ clerk[c].job \in {"cash", "move"}
    /\ Adds(clerk[c].shift, clerk[c].job, 0, clerk[c].open)
    /\ Returns(c)
    /\ UNCHANGED <<shifts, expenses>>

\* record_expense, in cash, with the shift's row locked.
RecordExpense(s) ==
    /\ Open(s)
    /\ Adds(s, "out", 0, TRUE)
    /\ expenses' = [r \in DOMAIN expenses \cup (DOMAIN rows' \ DOMAIN rows) |->
                      IF r \in DOMAIN expenses THEN expenses[r] ELSE "live"]
    /\ UNCHANGED <<shifts, clerk>>

\* Mutant of LocksExpense: the expense is read and not locked.
ReadsExpense(e) == e \in DOMAIN expenses

\* POSExpense.objects.select_for_update()
LocksExpense(e) == \A c \in Clerks : clerk[c].spent # e

\* void_expense as far as its checks: the expense is locked, its shift is read.
ReadsToVoid(c, e) ==
    /\ clerk[c] = NoErrand
    /\ LocksExpense(e)
    /\ expenses[e] = "live" /\ Open(rows[e].shift)
    /\ clerk' = [clerk EXCEPT ![c] = [NoErrand EXCEPT !.job = "void_expense",
                   !.shift = rows[e].shift, !.open = TRUE, !.spent = e]]
    /\ UNCHANGED <<shifts, rows, expenses, late>>

\* void_expense: the money goes back into the drawer.
VoidsExpense(c) ==
    LET e == clerk[c].spent
    IN  /\ clerk[c].job = "void_expense"
        /\ Adds(rows[e].shift, "in", e, TRUE)
        /\ expenses' = [expenses EXCEPT ![e] = "voided"]
        /\ Returns(c)
        /\ UNCHANGED shifts

\* void_sale: a cash tender no longer counts, whatever has become of its shift.
VoidsSale(r) ==
    /\ rows[r].kind = "cash" /\ rows[r].live
    /\ rows' = [rows EXCEPT ![r].live = FALSE]
    /\ UNCHANGED <<shifts, expenses, clerk, late>>

CashOf(s) == {r \in DOMAIN rows : rows[r].shift = s /\ rows[r].kind = "cash" /\ rows[r].live}
MovementsOf(s) == {r \in DOMAIN rows : rows[r].shift = s /\ rows[r].kind # "cash"}

\* expected_cash sums the tenders by one statement, and the movements by another.
SumsTenders(c) ==
    LET s == clerk[c].shift
    IN  /\ clerk[c].job = "close" /\ clerk[c].phase = "read"
        /\ clerk' = [clerk EXCEPT ![c].phase = "tenders", ![c].seen = CashOf(s)]
        /\ UNCHANGED <<shifts, rows, expenses, late>>

SumsMovements(c) ==
    /\ clerk[c].job = "close" /\ clerk[c].phase = "tenders"
    /\ clerk' = [clerk EXCEPT ![c].phase = "movements", ![c].seen = @ \cup MovementsOf(clerk[c].shift)]
    /\ UNCHANGED <<shifts, rows, expenses, late>>

\* close_shift: shift.save of its columns, also by a second request to close it.
\* It may refuse before that, for sales that are paid in part.
CloseShift(c) ==
    /\ clerk[c].job = "close" /\ clerk[c].phase = "movements"
    /\ shifts' = [shifts EXCEPT ![clerk[c].shift] = [status |-> "closed", counted |-> clerk[c].seen]]
    /\ Returns(c)
    /\ UNCHANGED <<rows, expenses, late>>

\* The service refuses, or the request dies.
GivesUp(c) ==
    /\ clerk[c] # NoErrand
    /\ Returns(c)
    /\ UNCHANGED <<shifts, rows, expenses, late>>

RegisterNext ==
    \/ \E s \in Shifts :
         \/ OpenShift(s) \/ RecordExpense(s)
         \/ \E c \in Clerks, job \in {"cash", "move", "close"} : ReadsShift(c, job, s)
    \/ \E r \in DOMAIN rows : VoidsSale(r)
    \/ \E c \in Clerks :
         \/ TakesCash(c) \/ VoidsExpense(c)
         \/ \E e \in DOMAIN expenses : ReadsToVoid(c, e)
         \/ SumsTenders(c) \/ SumsMovements(c) \/ CloseShift(c) \/ GivesUp(c)

RegisterSpec == RegisterInit /\ [][RegisterNext]_registerVars

-----------------------------------------------------------------------------
(* Properties.                                                              *)

\* close_shift stores what was expected at that moment: whatever was recorded for a
\* closed shift is in the count, unless the request that wrote it had found the shift
\* open and a close overtook it.  Nothing that begins after the close adds cash to it.
CountedOrOvertaken ==
    \A s \in Shifts : shifts[s].status = "closed" =>
        (CashOf(s) \cup MovementsOf(s)) \ shifts[s].counted \subseteq late

\* Expenses leave the drawer balanced, however often and by whomever they are voided:
\* a voided expense was put back once, into the shift it was paid from, and one that
\* is not was not.
ExpensesBalance ==
    \A e \in DOMAIN expenses :
        LET back == {r \in DOMAIN rows : rows[r].kind = "in" /\ rows[r].expense = e}
        IN  /\ expenses[e] = "voided" <=> back # {}
            /\ \A r, q \in back : r = q /\ rows[r].shift = rows[e].shift

-----------------------------------------------------------------------------
(* Why they hold: the invariant of the proofs.                              *)

Row == [shift : Shifts, kind : {"cash", "move", "out", "in"}, live : BOOLEAN, expense : Rows]
Errand == [job : {"none", "cash", "move", "close", "void_expense"},
           phase : {"read", "tenders", "movements"}, shift : Shifts, open : BOOLEAN,
           seen : SUBSET Rows, spent : {0} \cup Rows]

RegisterTypeOK ==
    /\ shifts \in [Shifts -> [status : {"none", "open", "closed"}, counted : SUBSET Rows]]
    /\ \E n \in 0 .. MaxRows : DOMAIN rows = 1 .. n
    /\ rows \in [DOMAIN rows -> Row]
    /\ expenses \in [DOMAIN expenses -> {"live", "voided"}]
    /\ clerk \in [Clerks -> Errand]

\* A request that closes a shift has seen every row of it that is not late: whoever
\* writes one from its first sum on is overlapped by it.
SumsAreFresh ==
    \A c \in Clerks : clerk[c].job = "close" =>
        /\ clerk[c].phase # "read" => CashOf(clerk[c].shift) \ clerk[c].seen \subseteq late
        /\ clerk[c].phase = "movements" => MovementsOf(clerk[c].shift) \ clerk[c].seen \subseteq late

\* Whoever writes a row has found its shift open.
WritersFoundOpen == \A c \in Clerks : clerk[c].job \in {"cash", "move"} => clerk[c].open

\* An expense is an "out" row; an "in" row puts one back.
ExpensesHaveRows ==
    /\ \A e \in DOMAIN expenses : e \in DOMAIN rows /\ rows[e].kind = "out"
    /\ \A r \in DOMAIN rows : rows[r].kind = "in" => rows[r].expense \in DOMAIN expenses

\* An expense is voided by the one request that has locked it since it was live.
OneVoids ==
    /\ \A c \in Clerks : clerk[c].job = "void_expense" =>
         clerk[c].spent \in DOMAIN expenses /\ expenses[clerk[c].spent] = "live"
    /\ \A c, d \in Clerks : clerk[c].spent = clerk[d].spent /\ clerk[c].spent # 0 => c = d
    /\ \A c \in Clerks : clerk[c].spent # 0 => clerk[c].job = "void_expense"

DrawerInv ==
    /\ RegisterTypeOK /\ SumsAreFresh /\ WritersFoundOpen /\ ExpensesHaveRows /\ OneVoids
    /\ CountedOrOvertaken /\ ExpensesBalance
=============================================================================
