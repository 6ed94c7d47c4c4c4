------------------------------ MODULE Returns -------------------------------
(***************************************************************************)
(* apps/returns/services.py: a request to return an order's items, or to   *)
(* exchange them, on its way through the hands of the staff.               *)
(*                                                                         *)
(* A view reads the request and calls a service, which is one transaction  *)
(* and decides on the view's copy; nobody locks the request or its items.  *)
(* What a service writes depends on nothing it reads after that, but for   *)
(* the items that are to go back to stock: so each service is a step that  *)
(* reads and a step that writes and commits, or does not.                  *)
(***************************************************************************)
EXTENDS Naturals, Sequences

CONSTANTS
    Staff,      \* concurrent requests of the staff
    Items       \* the items that are sent back

VARIABLES
    kind,       \* "return" or "exchange"
    tracked,    \* the items whose variants and warehouse are still known
    ret,        \* the request's row: status and is_refund_ready
    items,      \* the rows of its items: condition and stock_reintegrated
    given,      \* how often each item was handed to the inventory ...
    shelf,      \* ... and how often to be sold again
    task,       \* what each of the staff is doing
    reached,    \* history: the statuses the request has been in
    found,      \* history: the conditions each item was found in
    raced       \* history: items two of the staff gave back at once

returnsVars == <<kind, tracked, ret, items, given, shelf, task, reached, found, raced>>

ReturnStatus ==
    {"submitted", "under_review", "approved", "rejected", "items_received", "inspected",
     "rejected_after_inspection", "refund_initiated", "exchange_shipped", "completed"}

\* Mutant of TRANSITIONS: what was received need not be inspected.
TransitionsUninspected(k) ==
    LET sent == IF k = "return" THEN "refund_initiated" ELSE "exchange_shipped"
    IN  [s \in ReturnStatus |->
           CASE s = "submitted" -> {"under_review", "rejected"}
             [] s = "under_review" -> {"approved", "rejected"}
             [] s = "approved" -> {"items_received"}
             [] s = "items_received" -> {"inspected", sent}
             [] s = "inspected" -> {sent, "rejected_after_inspection"}
             [] s = sent -> {"completed"}
             [] OTHER -> {}]

\* RETURN_TRANSITIONS and EXCHANGE_TRANSITIONS.
TRANSITIONS(k) ==
    LET sent == IF k = "return" THEN "refund_initiated" ELSE "exchange_shipped"
    IN  [s \in ReturnStatus |->
           CASE s = "submitted" -> {"under_review", "rejected"}
             [] s = "under_review" -> {"approved", "rejected"}
             [] s = "approved" -> {"items_received"}
             [] s = "items_received" -> {"inspected"}
             [] s = "inspected" -> {sent, "rejected_after_inspection"}
             [] s = sent -> {"completed"}
             [] OTHER -> {}]

\* good: GOOD or MINOR_DAMAGE; bad: the others; none: not inspected.
Conditions == {"none", "good", "bad"}
Item == [condition : Conditions, reintegrated : BOOLEAN]
Request == [exists : BOOLEAN, status : ReturnStatus, ready : BOOLEAN]

Services == {"approve", "reject", "receive", "inspect", "reintegrate", "send", "complete",
             "reject_inspected", "update", "delete"}

\* copy  the request as the view has read it, where all of it is written back
\* batch the items to be given back, in the condition they were read in
Blank == [exists |-> FALSE, status |-> "submitted", ready |-> FALSE]
NoTask == [service |-> "none", copy |-> Blank, batch |-> [i \in {} |-> "none"]]

Task == [service : Services \cup {"none"}, copy : Request,
         batch : UNION {[S -> Conditions] : S \in SUBSET Items}]

ReturnsTypeOK ==
    /\ kind \in {"return", "exchange"} /\ tracked \in SUBSET Items
    /\ ret \in Request
    /\ DOMAIN items \in {{}, Items} /\ items \in [DOMAIN items -> Item]
    /\ given \in [Items -> Nat] /\ shelf \in [Items -> Nat]
    /\ task \in [Staff -> Task]
    /\ reached \in SUBSET ReturnStatus
    /\ found \in [Items -> SUBSET Conditions]
    /\ raced \in SUBSET Items

ReturnsInit ==
    /\ kind = "return" /\ tracked = {}
    /\ ret = Blank
    /\ items = [i \in {} |-> "none"]
    /\ given = [i \in Items |-> 0] /\ shelf = [i \in Items |-> 0]
    /\ task = [w \in Staff |-> NoTask]
    /\ reached = {}
    /\ found = [i \in Items |-> {}]
    /\ raced = {}

-----------------------------------------------------------------------------
(* Reading.                                                                 *)

\* create_return_request, create_exchange_request; bound: once.  An item's variant or
\* warehouse may be deleted before its stock is looked for.
CreateRequest ==
    /\ reached = {}
    /\ kind' \in {"return", "exchange"} /\ tracked' \in SUBSET Items
    /\ ret' = [exists |-> TRUE, status |-> "submitted", ready |-> FALSE]
    /\ items' = [i \in Items |-> [condition |-> "none", reintegrated |-> FALSE]]
    /\ reached' = {"submitted"}
    /\ UNCHANGED <<given, shelf, task, found, raced>>

\* Mutant of ToReintegrate: what was given back is not remembered.
ToReintegrateAll == DOMAIN items \cap tracked

\* rr.items.filter(stock_reintegrated=False)
ToReintegrate == {i \in DOMAIN items \cap tracked : ~items[i].reintegrated}

\* The statuses a service moves a request along.
Way(service) ==
    CASE service = "approve" -> <<"under_review", "approved">>
      [] service = "reject" -> <<"rejected">>
      [] service = "receive" -> <<"items_received">>
      [] service = "inspect" -> <<"inspected">>
      [] service = "send" -> <<IF kind = "return" THEN "refund_initiated" ELSE "exchange_shipped">>
      [] service = "complete" -> <<"completed">>
      [] service = "reject_inspected" -> <<"rejected_after_inspection">>
      [] OTHER -> <<>>

\* can_transition_to, each time.
Leads(from, way) == \A n \in DOMAIN way : way[n] \in TRANSITIONS(kind)[IF n = 1 THEN from ELSE way[n - 1]]

\* What else a service asks of the view's copy.  A refund has to be ready.  Returns can
\* be rejected after inspection; exchanges have no such service.  To inspect an exchange,
\* inspect_exchange_items calls reserve_stock for the replacements with an argument it
\* does not take: only one whose replacements are all gone passes.
Allows(service) ==
    CASE service = "send" -> kind = "return" => ret.ready
      [] service = "reject_inspected" -> kind = "return"
      [] service = "inspect" -> kind = "exchange" => tracked = {}
      [] service = "reintegrate" -> ToReintegrate # {}
      [] service = "delete" -> ret.status \in {"submitted", "under_review", "rejected"}
      [] OTHER -> TRUE

\* The view reads the request and the service decides on that copy; it ends here if it
\* refuses, and what it writes after that is decided.  Reintegration does not look at
\* the status.
ReadsRequest(w, service) ==
    /\ task[w] = NoTask /\ ret.exists
    /\ Leads(ret.status, Way(service)) /\ Allows(service)
    /\ task' = [task EXCEPT ![w] =
         [service |-> service, copy |-> IF service = "update" THEN ret ELSE Blank,
          batch |-> [i \in IF service = "reintegrate" THEN ToReintegrate ELSE {} |->
                       items[i].condition]]]
    /\ UNCHANGED <<kind, tracked, ret, items, given, shelf, reached, found, raced>>

-----------------------------------------------------------------------------
(* Writing.                                                                 *)

Finishes(w) == task' = [task EXCEPT ![w] = NoTask]
Doing(w, service) == task[w].service = service

\* _transition_return: each save names the columns it writes, so the row has to be
\* there, whatever has become of it.
MovesAlong(w, service, ready) ==
    LET way == Way(service)
    IN  /\ Doing(w, service) /\ ret.exists
        /\ ret' = [ret EXCEPT !.status = way[Len(way)], !.ready = ready]
        /\ reached' = reached \cup {way[n] : n \in DOMAIN way}
        /\ Finishes(w)

\* approve_return, reject_return, mark_items_received, initiate_refund_for_return and
\* ship_exchange, complete_return.
Moves(w) ==
    /\ \E service \in {"approve", "reject", "receive", "send", "complete"} :
         MovesAlong(w, service, ret.ready)
    /\ UNCHANGED <<kind, tracked, items, given, shelf, found, raced>>

\* inspect_return_items, inspect_exchange_items: a condition for each item, and for a
\* return its refund.
Inspects(w) ==
    /\ MovesAlong(w, "inspect", kind = "return")
    /\ \E c \in [DOMAIN items -> {"good", "bad"}] :
         /\ items' = [i \in DOMAIN items |-> [items[i] EXCEPT !.condition = c[i]]]
         /\ found' = [i \in Items |-> IF i \in DOMAIN items THEN found[i] \cup {c[i]} ELSE found[i]]
    /\ UNCHANGED <<kind, tracked, given, shelf, raced>>

\* reintegrate_stock_for_return, reintegrate_stock_for_exchange: process_return or
\* process_exchange for each item that was read; they lock the stock rows only.
Reintegrates(w) ==
    LET batch == task[w].batch
    IN  /\ Doing(w, "reintegrate")
        /\ DOMAIN batch \subseteq DOMAIN items
        /\ items' = [i \in DOMAIN items |->
                       IF i \in DOMAIN batch THEN [items[i] EXCEPT !.reintegrated = TRUE] ELSE items[i]]
        /\ given' = [i \in Items |-> given[i] + (IF i \in DOMAIN batch THEN 1 ELSE 0)]
        /\ shelf' = [i \in Items |->
                       shelf[i] + (IF /\ i \in DOMAIN batch
                                      /\ kind = "return" => batch[i] = "good" THEN 1 ELSE 0)]
        /\ raced' = raced \cup {i \in DOMAIN batch : \E v \in Staff \ {w} : i \in DOMAIN task[v].batch}
        /\ Finishes(w)
        /\ UNCHANGED <<kind, tracked, ret, reached, found>>

\* Mutant of RejectsAfterInspection: the refund stays ready.
RejectsAfterInspectionReady(w) ==
    /\ MovesAlong(w, "reject_inspected", ret.ready)
    /\ UNCHANGED <<kind, tracked, items, given, shelf, found, raced>>

RejectsAfterInspection(w) ==
    /\ MovesAlong(w, "reject_inspected", FALSE)
    /\ UNCHANGED <<kind, tracked, items, given, shelf, found, raced>>

\* update_return_request: rr.save() of all columns, which inserts the row again if
\* it was deleted; its items do not come back.
Updates(w) ==
    /\ Doing(w, "update")
    /\ ret' = task[w].copy
    /\ Finishes(w)
    /\ UNCHANGED <<kind, tracked, items, given, shelf, reached, found, raced>>

\* delete_return_request, and its items by cascade.
Deletes(w) ==
    /\ Doing(w, "delete")
    /\ ret' = [ret EXCEPT !.exists = FALSE]
    /\ items' = [i \in {} |-> "none"]
    /\ Finishes(w)
    /\ UNCHANGED <<kind, tracked, given, shelf, reached, found, raced>>

\* An exception, a deadlock or a killed worker: nothing is written.
Abandons(w) ==
    /\ task[w] # NoTask
    /\ Finishes(w)
    /\ UNCHANGED <<kind, tracked, ret, items, given, shelf, reached, found, raced>>

ReturnsNext ==
    \/ CreateRequest
    \/ \E w \in Staff :
         \/ \E service \in Services : ReadsRequest(w, service)
         \/ Moves(w) \/ Inspects(w) \/ RejectsAfterInspection(w)
         \/ Reintegrates(w) \/ Updates(w) \/ Deletes(w) \/ Abandons(w)

ReturnsSpec == ReturnsInit /\ [][ReturnsNext]_returnsVars

-----------------------------------------------------------------------------
(* Properties.                                                              *)

\* However the staff's requests race - two decisions on one copy, a note saved over a
\* decision, a decision about a request that was deleted and came back - no refund is
\* made ready, initiated or completed but for items that were received and inspected,
\* and what was rejected after its inspection is not ready to be refunded.
RefundIsEarned ==
    LET handled == {"approved", "items_received", "inspected"}
    IN  /\ ret.exists => ret.status \in reached
        /\ ret.ready \/ ret.status = "rejected_after_inspection" => handled \subseteq reached
        /\ reached \cap {"refund_initiated", "exchange_shipped", "completed"} # {} =>
             handled \subseteq reached
        /\ ret.status = "inspected" /\ kind = "return" => ret.ready
        /\ ret.status = "rejected_after_inspection" => ~ret.ready

\* The mark on an item and the stock agree, whatever fails in between: an item is
\* marked if it was given back, once unless two of the staff have raced, and nothing
\* is sold again that no inspection has found to be good.
GivenBackOnce ==
    \A i \in Items :
        /\ i \in DOMAIN items => (items[i].reintegrated <=> given[i] > 0)
        /\ given[i] > 1 => i \in raced
        /\ kind = "return" /\ shelf[i] > 0 => "good" \in found[i]

-----------------------------------------------------------------------------
(* The inductive invariant.                                                 *)

\* The statuses a request comes through.
WayIsWhole ==
    /\ "items_received" \in reached => "approved" \in reached
    /\ "inspected" \in reached => "items_received" \in reached
    /\ reached \cap {"refund_initiated", "exchange_shipped", "rejected_after_inspection"} # {} =>
         "inspected" \in reached
    /\ "completed" \in reached => reached \cap {"refund_initiated", "exchange_shipped"} # {}

\* A row of the request, the view's old copy among them, is what the statuses allow.
RowFits(r) ==
    /\ r.exists => r.status \in reached
    /\ r.ready => "inspected" \in reached
    /\ r.status = "rejected_after_inspection" => "inspected" \in reached /\ ~r.ready
    /\ r.status = "inspected" /\ kind = "return" => r.ready

\* A decision was right for a status the request has been in, and an item to be given
\* back was not given back, unless another of the staff has it in hand as well.
TaskFits(t) ==
    /\ t.service = "receive" => "approved" \in reached
    /\ t.service = "inspect" => "items_received" \in reached
    /\ t.service \in {"send", "reject_inspected"} => "inspected" \in reached
    /\ t.service = "complete" => reached \cap {"refund_initiated", "exchange_shipped"} # {}
    /\ t.service = "update" => t.copy.exists /\ RowFits(t.copy)
    /\ \A i \in DOMAIN t.batch :
         /\ given[i] > 0 => i \in raced
         /\ t.batch[i] = "good" => "good" \in found[i]

\* Nothing happens before the request is made; its items are gone once it is deleted,
\* and what their rows say was found.
ReturnsInv ==
    /\ ReturnsTypeOK
    /\ WayIsWhole /\ RowFits(ret)
    /\ \A w \in Staff : TaskFits(task[w])
    /\ reached = {} => ~ret.exists /\ \A w \in Staff : task[w] = NoTask
    /\ \A i \in Items : reached = {} => given[i] = 0 /\ shelf[i] = 0
    /\ ~ret.exists => DOMAIN items = {}
    /\ \A i \in DOMAIN items : items[i].condition = "good" => "good" \in found[i]
    /\ GivenBackOnce
=============================================================================
