--------------------------- MODULE OrderLifecycle ---------------------------
(***************************************************************************)
(* apps/orders/services.py: what concurrent requests do to one order that  *)
(* place_order has placed, and to the stock reserved for its lines.        *)
(*                                                                         *)
(* A view reads the order without locking it, and hands its copy to a      *)
(* service.  The service decides on the copy alone: every save writes the  *)
(* copy's columns over the row, which it locks until the transaction ends. *)
(* A service is the list of its statements (steps), worked off one at a    *)
(* time; the view and the statements of other requests come in between.    *)
(* Nothing a transaction writes is visible before it commits.              *)
(***************************************************************************)
EXTENDS OrderStates, Naturals, Sequences, FiniteSets

CONSTANTS
    Requests,   \* concurrent requests about the order
    Lines,      \* the order's lines; the stock row of each is locked to settle it
    PanelPayments, \* bound: the payment statuses the admin panel sets
    Nothing     \* no argument

ASSUME PanelAssumption == PanelPayments \subseteq PaymentStatuses
ASSUME LinesAssumption == IsFiniteSet(Lines)
ASSUME NothingAssumption == Nothing \notin Statuses

VARIABLES
    order,      \* the order's row, as committed
    lines,      \* the reservation of each line: active, committed, or RELEASED, which
                \* is told apart (history) as released by a service that takes the
                \* order on as well, and dropped by one that does not
    carry_away, \* the order's fulfilment type is CARRY_AWAY
    req,        \* each request's progress
    past,       \* history: the statuses the order has been in
    overtaken   \* history: a request has written over what it had not read

orderVars == <<order, lines, carry_away, past, overtaken>>
vars == <<order, lines, carry_away, req, past, overtaken>>

-----------------------------------------------------------------------------
(* Statements.                                                              *)

\* pay     save(update_fields=[payment_status, ...]), having set payment_status
\* touch   save() of timestamps or tracking fields
\* all     save() of every column, having set payment_status
\* move    _apply_transition
\* release, drop  the query of release_reservation, for the service that takes the order
\*         on with it, and for one that leaves the order as it is
\* check, commit  the two queries of commit_reservation
\* released, dropped, committed  the loop's body for one line
\* delete  order.delete()
\* end     COMMIT
OnLine == {"released", "dropped", "committed"}
Query == {"release", "drop", "commit"}
Steps ==
    [do : {"pay", "all"}, arg : PaymentStatuses]
      \cup [do : {"move"}, arg : Statuses]
      \cup [do : OnLine, arg : Lines]
      \cup [do : Query \cup {"touch", "check", "delete", "end"}, arg : {Nothing}]

Do(what) == <<[do |-> what, arg |-> Nothing]>>
Pay(payment) == <<[do |-> "pay", arg |-> payment]>>
MoveTo(status) == <<[do |-> "move", arg |-> status]>>

\* What a request can have written to the order's row.
Columns == {"status", "payment", "other", "row", "deleted"}

Copy == [status : Statuses, payment : PaymentStatuses]

\* script   the statements still to be worked off
\* handler  the statements after an exception (none: the request ends)
\* copy     the order in the request's memory
\* base     the status the copy had when it was read or last committed
\* locked   the row was locked by SELECT FOR UPDATE before anything was written
\* wrote    the columns of the order's row its transaction has written
\* trail    the statuses its transaction has moved the order through
\* settled  the lines its transaction has settled, and how
Idle ==
    [script |-> <<>>, handler |-> <<>>, copy |-> [status |-> "draft", payment |-> "pending"],
     base |-> "draft", locked |-> FALSE, wrote |-> {}, trail |-> {}, settled |-> <<>>]

RequestOver(settledLines) ==
    [script : Seq(Steps), handler : Seq(Steps), copy : Copy, base : Statuses,
     locked : BOOLEAN, wrote : SUBSET Columns, trail : SUBSET Statuses,
     settled : [settledLines -> OnLine]]

IsRequest(r) == DOMAIN r.settled \subseteq Lines /\ r \in RequestOver(DOMAIN r.settled)

TypeOK ==
    /\ order \in [exists : BOOLEAN, status : Statuses, payment : PaymentStatuses]
    /\ lines \in [Lines -> OnLine \cup {"active"}]
    /\ carry_away \in BOOLEAN
    /\ req = [w \in Requests |-> req[w]]
    /\ \A w \in Requests : IsRequest(req[w])
    /\ past \in SUBSET Statuses
    /\ overtaken \in BOOLEAN

\* What place_order leaves: a PLACED order, a reservation for each line.
Init ==
    /\ order = [exists |-> TRUE, status |-> "placed", payment |-> "pending"]
    /\ lines = [k \in Lines |-> "active"]
    /\ carry_away \in BOOLEAN
    /\ req = [w \in Requests |-> Idle]
    /\ past = {"draft", "placed"}
    /\ overtaken = FALSE
-----------------------------------------------------------------------------
(* Services: the statements each runs on the copy it is given.              *)

\* Mutant of MarkPaidSteps: the order's status goes to payment_status.
PayWithStatus == Pay("placed") \o MoveTo("paid")

MarkPaidSteps ==
    Pay("paid") \o MoveTo("paid")
      \o (IF carry_away THEN Do("touch") \o MoveTo("completed") ELSE <<>>)

\* Mutant of MarkShippedSteps: the tracking fields are saved last.
CommitThenTouch == Do("check") \o Do("commit") \o Do("touch") \o MoveTo("shipped")

MarkShippedSteps == Do("touch") \o Do("check") \o Do("commit") \o MoveTo("shipped")

\* Mutant of CancelSteps: the service is not atomic.
ReleaseThenCancel == Do("release") \o Do("end") \o MoveTo("cancelled")

CancelSteps == Do("release") \o MoveTo("cancelled")

MarkDeliveredSteps == Do("touch") \o MoveTo("delivered")

MarkCompletedSteps(copy) ==
    MoveTo("completed") \o (IF copy.payment = "pending" THEN Pay("paid") ELSE <<>>)

MarkRefundedSteps(copy) ==
    Pay("refunded") \o (IF copy.status = "refunded" THEN <<>> ELSE MoveTo("refunded"))

MarkPartiallyRefundedSteps(copy) ==
    Pay("partially_refunded")
      \o (IF copy.status \in {"partially_refunded", "refunded"} THEN <<>>
          ELSE MoveTo("partially_refunded"))

-----------------------------------------------------------------------------
(* Requests: the view reads the order and calls the service.                *)

HasRow(w) == req[w].locked \/ req[w].wrote # {}
HasLine(w, k) == k \in DOMAIN req[w].settled

\* A request that has read the order and is about to run steps on its copy.
Reader(steps, handler) ==
    [Idle EXCEPT !.script = steps \o Do("end"), !.handler = handler, !.base = order.status,
                 !.copy = [status |-> order.status, payment |-> order.payment]]

Begin(w, steps, handler) ==
    /\ req[w] = Idle
    /\ order.exists
    /\ req' = [req EXCEPT ![w] = Reader(steps, handler)]
    /\ UNCHANGED orderVars

\* The same with SELECT FOR UPDATE: it waits for the row, and reads it as it is.
BeginLocked(w, steps, handler) ==
    /\ req[w] = Idle
    /\ order.exists
    /\ \A v \in Requests : ~HasRow(v)
    /\ req' = [req EXCEPT ![w] = [Reader(steps, handler) EXCEPT !.locked = TRUE]]
    /\ UNCHANGED orderVars

MarkPaid(w) == Begin(w, MarkPaidSteps, <<>>)
MarkShipped(w) == Begin(w, MarkShippedSteps, <<>>)
MarkDelivered(w) == Begin(w, MarkDeliveredSteps, <<>>)
MarkCompleted(w) == Begin(w, MarkCompletedSteps(order), <<>>)
MarkRefunded(w) == Begin(w, MarkRefundedSteps(order), <<>>)
MarkPartiallyRefunded(w) == Begin(w, MarkPartiallyRefundedSteps(order), <<>>)

\* sync_payment_status, called by record_tender for the last tender of an order.
SettlePaid(w) ==
    BeginLocked(w, IF order.payment \in {"paid", "refunded", "partially_refunded"} THEN <<>>
                   ELSE IF order.status \in {"draft", "placed"} THEN MarkPaidSteps
                   ELSE Pay("paid"), <<>>)

CancelOrder(w) ==
    order.status \in CANCELLABLE_STATUSES /\ Begin(w, CancelSteps, <<>>)

\* GenericTransitionView, and the admin site's bulk action: any status.
TransitionOrder(w, s) == Begin(w, MoveTo(s), <<>>)

\* The admin panel saves the order, with a payment status of the admin's choice.
UpdateAdminOrder(w, p) == Begin(w, <<[do |-> "all", arg |-> p]>>, <<>>)

\* The statuses delete_admin_order refuses.
Kept == {"paid", "shipped", "delivered", "completed"}

DeleteAdminOrder(w) ==
    /\ order.status \notin Kept
    /\ Begin(w, Do("delete"), <<>>)

\* ReleaseReservationView: the order's reservations are released, whatever the order is.
ReleaseReservation(w) ==
    /\ req[w] = Idle
    /\ req' = [req EXCEPT ![w].script = Do("drop") \o Do("end")]
    /\ UNCHANGED orderVars

\* handle_payment_failed frees the stock of an order that is still to be paid, and leaves
\* the order as it is: its customer may pay yet.
HandlePaymentFailed(w) ==
    /\ order.status \in {"draft", "placed"}
    /\ Begin(w, Do("drop"), <<>>)

BeginNext(w) ==
    \/ MarkPaid(w) \/ SettlePaid(w) \/ MarkShipped(w) \/ MarkDelivered(w) \/ MarkCompleted(w)
    \/ MarkRefunded(w) \/ MarkPartiallyRefunded(w) \/ CancelOrder(w)
    \/ DeleteAdminOrder(w) \/ ReleaseReservation(w) \/ HandlePaymentFailed(w)
    \/ \E s \in Statuses : TransitionOrder(w, s)
    \/ \E p \in PanelPayments : UpdateAdminOrder(w, p)
-----------------------------------------------------------------------------
(* Working off a statement.                                                 *)

Busy(w) == req[w].script # <<>>
Now(w) == Head(req[w].script)
OnRow == {"pay", "touch", "all", "move", "delete"}

\* Request w waits for v to end: v has locked what w's statement writes.
WaitsFor(w, v) ==
    /\ v # w /\ Busy(w)
    /\ \/ Now(w).do \in OnRow /\ HasRow(v)
       \/ Now(w).do \in OnLine /\ HasLine(v, Now(w).arg)

Unblocked(w) == \A v \in Requests : ~WaitsFor(w, v)

\* The statement succeeds; the rest of the script is still to be done.
Done(w, r) ==
    /\ Busy(w) /\ Unblocked(w)
    /\ req' = [req EXCEPT ![w] = [r EXCEPT !.script = Tail(@)]]
    /\ UNCHANGED orderVars

\* An UPDATE of the order's row: it has to be there.
Pays(w) ==
    LET r == req[w]
    IN  /\ Busy(w) /\ Now(w).do = "pay" /\ order.exists
        /\ Done(w, [r EXCEPT !.copy.payment = Now(w).arg, !.wrote = @ \cup {"payment"}])

Touches(w) ==
    LET r == req[w]
    IN  /\ Busy(w) /\ Now(w).do = "touch" /\ order.exists
        /\ Done(w, [r EXCEPT !.wrote = @ \cup {"other"}])

\* order.save() without update_fields inserts the row if it is no longer there.
SavesAll(w) ==
    LET r == req[w]
    IN  /\ Busy(w) /\ Now(w).do = "all"
        /\ Done(w, [r EXCEPT !.copy.payment = Now(w).arg,
                             !.wrote = @ \cup {"status", "payment", "other", "row"}])

\* Mutant of Moves: the transition is saved without asking the order.
MovesUnchecked(w) ==
    LET r == req[w]
    IN  /\ Busy(w) /\ Now(w).do = "move" /\ order.exists
        /\ Done(w, [r EXCEPT !.copy.status = Now(w).arg, !.trail = @ \cup {Now(w).arg},
                             !.wrote = @ \cup {"status"}])

\* _apply_transition, its check on the copy and its save.
Moves(w) ==
    LET r == req[w]
    IN  /\ Busy(w) /\ Now(w).do = "move" /\ order.exists
        /\ CanMove(carry_away, r.copy.status, Now(w).arg)
        /\ Done(w, [r EXCEPT !.copy.status = Now(w).arg, !.trail = @ \cup {Now(w).arg},
                             !.wrote = @ \cup {"status"}])

Deletes(w) ==
    LET r == req[w]
    IN  /\ Busy(w) /\ Now(w).do = "delete" /\ order.exists
        /\ Done(w, [r EXCEPT !.wrote = @ \cup {"deleted"}])

\* The ACTIVE reservations.
ActiveLines == {k \in Lines : lines[k] = "active"}

\* commit_reservation's exists(): it raises if there is none.
Checks(w) ==
    /\ Busy(w) /\ Now(w).do = "check" /\ ActiveLines # {}
    /\ Done(w, req[w])

Orders(S) == {s \in [1 .. Cardinality(S) -> S] : \A k \in S : \E i \in DOMAIN s : s[i] = k}

Outcome(query) ==
    CASE query = "release" -> "released" [] query = "drop" -> "dropped"
      [] query = "commit" -> "committed"

\* Mutant of Queries: each line is settled in a transaction of its own.
QueriesAutocommit(w) ==
    /\ Busy(w) /\ Now(w).do \in Query
    /\ \E s \in Orders(ActiveLines) :
         req' = [req EXCEPT ![w].script =
                   [i \in 1 .. 2 * Len(s) |->
                      [do |-> IF i % 2 = 0 THEN "end" ELSE Outcome(Now(w).do),
                       arg |-> IF i % 2 = 0 THEN Nothing ELSE s[(i + 1) \div 2]]] \o Tail(@)]
    /\ UNCHANGED orderVars

\* The reservations to settle, each in turn, are queried before any stock row is locked;
\* the loop of commit_reservation may find fewer than exists() did.
Queries(w) ==
    /\ Busy(w) /\ Now(w).do \in Query
    /\ \E s \in Orders(ActiveLines) :
         req' = [req EXCEPT ![w].script =
                   [i \in DOMAIN s |-> [do |-> Outcome(Now(w).do), arg |-> s[i]]] \o Tail(@)]
    /\ UNCHANGED orderVars

\* The loop's body: lock the stock row, write it, save the reservation's status.
Settles(w) ==
    LET r == req[w]
    IN  /\ Busy(w) /\ Now(w).do \in OnLine
        /\ Done(w, [r EXCEPT !.settled =
                      [k \in DOMAIN @ \cup {Now(w).arg} |->
                         IF k = Now(w).arg THEN Now(w).do ELSE @[k]]])

Wrote(w, column) == column \in req[w].wrote

\* History: the row has changed since the copy was read, and is written over.
Overtakes(w) ==
    /\ Wrote(w, "status") \/ Wrote(w, "deleted")
    /\ ~order.exists \/ req[w].base # order.status

\* COMMIT: what the transaction wrote becomes visible, and its locks are freed.
Commits(w) ==
    LET r == req[w]
    IN  /\ Busy(w) /\ Now(w).do = "end"
        /\ order' =
             [exists |-> (order.exists \/ Wrote(w, "row")) /\ ~Wrote(w, "deleted"),
              status |-> IF Wrote(w, "status") THEN r.copy.status ELSE order.status,
              payment |-> IF Wrote(w, "payment") THEN r.copy.payment ELSE order.payment]
        /\ lines' = [k \in Lines |-> IF HasLine(w, k) THEN r.settled[k] ELSE lines[k]]
        /\ past' = past \cup r.trail
        /\ overtaken' = (overtaken \/ Overtakes(w))
        /\ req' = [req EXCEPT ![w] =
             IF Len(r.script) = 1 THEN Idle
             ELSE [r EXCEPT !.script = Tail(@), !.locked = FALSE, !.wrote = {}, !.trail = {},
                            !.settled = <<>>, !.base = IF Wrote(w, "status") THEN r.copy.status ELSE @]]
        /\ UNCHANGED carry_away

\* The transaction is rolled back; a caller that catches the exception goes on
\* with what its handler does.
RollsBack(w) ==
    /\ req' = [req EXCEPT ![w] =
         IF req[w].handler = <<>> THEN Idle
         ELSE [req[w] EXCEPT !.script = req[w].handler, !.handler = <<>>,
                             !.wrote = {}, !.trail = {}, !.settled = <<>>]]
    /\ UNCHANGED orderVars

\* The statement raises: the copy may not move there, there is no reservation to
\* commit, or there is no row to update.
Refused(w) ==
    /\ Busy(w)
    /\ \/ Now(w).do = "move" /\ ~CanMove(carry_away, req[w].copy.status, Now(w).arg)
       \/ Now(w).do = "check" /\ ActiveLines = {}
       \/ Now(w).do \in OnRow \ {"all"} /\ Unblocked(w) /\ ~order.exists
    /\ RollsBack(w)

\* The worker is killed, its connection drops, or there is less on hand than a
\* line is to be shipped.
Dies(w) ==
    /\ Busy(w)
    /\ req' = [req EXCEPT ![w] = Idle]
    /\ UNCHANGED orderVars

\* w is on a cycle of requests that wait for one another.
InDeadlock(w) ==
    \E S \in SUBSET Requests :
        /\ w \in S
        /\ \A v \in S : (\E u \in S : WaitsFor(v, u)) /\ (\E u \in S : WaitsFor(u, v))

\* The database ends a deadlock by failing one of the statements in it.
BreaksDeadlock(w) == InDeadlock(w) /\ RollsBack(w)

Proceeds(w) ==
    \/ Pays(w) \/ Touches(w) \/ SavesAll(w) \/ Moves(w) \/ Deletes(w) \/ Checks(w)
    \/ Queries(w) \/ Settles(w) \/ Commits(w) \/ Refused(w)

Next ==
    \E w \in Requests : BeginNext(w) \/ Proceeds(w) \/ Dies(w) \/ BreaksDeadlock(w)

\* A request that can go on does, and gets its turn at a row others keep locking:
\* the database queues those who wait.  No one has to begin anything, or to die.
Fairness == \A w \in Requests : SF_vars(Proceeds(w)) /\ WF_vars(BreaksDeadlock(w))

Spec == Init /\ [][Next]_vars /\ Fairness

-----------------------------------------------------------------------------
(* Properties.                                                              *)

\* The reservations of an order are released or shipped all together: a service
\* that fails, is killed or loses a deadlock between two of its lines has settled
\* none of them, and services that race settle one after the other.
LinesTogether == \A k, l \in Lines : lines[k] = lines[l]

\* What a cancellation has freed is never shipped, although commit_reservation does not
\* look again after it has locked the stock row: mark_shipped has locked the order's row
\* before, and cancel_order has to write that row before what it released is released for
\* good.  A release that leaves the order alone needs no such row: a line that it drops
\* between the query and the lock is shipped all the same.
ShipsHeldStock ==
    [][\A k \in Lines : lines'[k] = "committed" => lines[k] # "released"]_vars

\* As long as no request has overtaken another, the stock of an order that is to be paid
\* or sent is held for it, but for what a failed payment or the staff's own release has
\* dropped: no failure, no deadlock and no service that is killed separates the status
\* from the stock.
HeldUntilShipped ==
    order.exists /\ ~overtaken /\ order.status \in {"placed", "paid", "processing"}
    => \A k \in Lines : lines[k] \in {"active", "dropped"}

\* Each status of a set comes with one that has to come before it.
Earned(statuses) ==
    /\ "processing" \in statuses => "paid" \in statuses
    /\ "shipped" \in statuses => "processing" \in statuses
    /\ "delivered" \in statuses => "shipped" \in statuses
    /\ "completed" \in statuses => "delivered" \in statuses \/ (carry_away /\ "paid" \in statuses)

\* However requests race, an order gets to no status without having been in those
\* that have to come before it; the counter sale's short cut is the only one.
EarnedInOrder == Earned(past) /\ order.status \in past

\* The abstract specification, with a deleted order's status being Nothing.
Promise ==
    INSTANCE OrderSpec
        WITH status <- IF order.exists THEN order.status ELSE Nothing, Gone <- Nothing

\* The order moves as OrderSpec says.
KeepsPromise == Promise!Spec
-----------------------------------------------------------------------------
(* The inductive invariant of the proofs.                                   *)

Says(r) == {r.script[i] : i \in DOMAIN r.script}

\* The statuses from which an order does not come back to be paid or sent.
Beyond == {"shipped", "delivered", "completed", "partially_refunded", "refunded", "cancelled"}

\* COMMIT is last; a query is first, but for what mark_shipped does before.
ScriptInOrder(r) ==
    /\ r.handler = <<>>
    /\ \A i \in DOMAIN r.script :
         /\ r.script[i].do = "end" => i = Len(r.script)
         /\ r.script[i].do = "delete" => i = 1
         /\ r.script[i].do \in Query => \A j \in 1 .. i - 1 : r.script[j].do \in {"touch", "check"}

\* The copy is where the request's own moves have taken it; they are written, to a
\* row that is there or that the save inserts.
CopyFollows(r) ==
    /\ r.copy.status \in r.trail \cup {r.base}
    /\ r.trail # {} \/ "row" \in r.wrote => "status" \in r.wrote
    /\ r.wrote # {} => order.exists \/ "row" \in r.wrote
    /\ r.base \in past
    /\ r.copy.status \in After[carry_away][r.base]
    /\ r.trail \subseteq After[carry_away][r.base]

\* A deletion is a transaction of its own, decided on the status that was read.
DeletesAlone(r) ==
    /\ (\E s \in Says(r) : s.do = "delete") =>
         r.base \notin Kept /\ r.wrote = {} /\ \A s \in Says(r) : s.do \in {"delete", "end"}
    /\ "deleted" \in r.wrote =>
         r.base \notin Kept /\ r.wrote = {"deleted"} /\ \A s \in Says(r) : s.do = "end"

\* Who settles lines settles all of them, in one way.
LinesOf(r) == {s.arg : s \in {t \in Says(r) : t.do \in OnLine}} \cup DOMAIN r.settled
SettlesAll(r) ==
    /\ LinesOf(r) \in {{}, Lines}
    /\ (\E s \in Says(r) : s.do \in Query) => LinesOf(r) = {}
    /\ \E how \in OnLine :
         /\ \A s \in Says(r) : s.do \in OnLine => s.do = how
         /\ \A k \in DOMAIN r.settled : r.settled[k] = how

\* Who settles lines, and does not just drop them, takes the order beyond being paid or
\* sent, in the same transaction.
ForGood == {"release", "released", "commit", "committed"}
MovesBeyond(r) ==
    (\E s \in Says(r) : s.do \in ForGood) \/ (\E k \in DOMAIN r.settled : r.settled[k] # "dropped") =>
        \/ \E s \in Says(r) : s.do = "move" /\ s.arg \in Beyond
        \/ r.copy.status \in Beyond /\ "status" \in r.wrote

\* Who ships has written the order's row before it queries the lines.
Ships(r, k) ==
    \/ \E s \in Says(r) : s.do = "committed" /\ s.arg = k
    \/ k \in DOMAIN r.settled /\ r.settled[k] = "committed"
ShipsUnderLock(r) ==
    /\ (\E s \in Says(r) : s.do \in {"check", "commit"}) => r.wrote # {} \/ r.script[1].do = "touch"
    /\ \A k \in Lines : Ships(r, k) => r.wrote # {} /\ lines[k] # "released"

RequestInv(r) ==
    /\ ScriptInOrder(r) /\ CopyFollows(r) /\ DeletesAlone(r)
    /\ SettlesAll(r) /\ MovesBeyond(r) /\ ShipsUnderLock(r)
    /\ Earned(past \cup r.trail)

\* Every request is on a path that ends well, one at a time has the order's row, and
\* the stock of an order that is to be paid or sent is held or dropped unless it was overtaken.
LifecycleInv ==
    /\ TypeOK
    /\ \A w \in Requests : req[w] # Idle => RequestInv(req[w])
    /\ \A v, w \in Requests : HasRow(v) /\ HasRow(w) => v = w
    /\ EarnedInOrder /\ "draft" \in past
    /\ LinesTogether
    /\ order.exists /\ ~overtaken =>
         order.status \in Beyond \/ \A k \in Lines : lines[k] \in {"active", "dropped"}
=============================================================================
