-------------------------- MODULE GatewayPayments ---------------------------
(***************************************************************************)
(* apps/payments/services.py and payment_service.py: the attempts to pay   *)
(* one order through a gateway, composed with the order.                   *)
(*                                                                         *)
(* What the gateway says of an attempt arrives as webhooks, any number of  *)
(* times and in any order, as the answer to the reconciler, or with the    *)
(* customer who returns from the checkout.  Each of these routes reads a   *)
(* transaction, decides on its copy, saves the status without looking      *)
(* again, and settles the order through the tender ledger.  Razorpay's     *)
(* webhook commits every statement on its own; the other routes are one    *)
(* transaction each, and keep what they save in job until they commit.     *)
(* Every payment is for the order's total; parts of it are in TenderLedger.*)
(***************************************************************************)
EXTENDS OrderLifecycle

CONSTANTS
    Providers,  \* gateways an order may be paid through
    MaxAttempts, \* bound: transactions of the order
    Announced   \* bound: the attempts that are authorised before they are captured

ASSUME ProvidersAssumption == Providers \subseteq {"razorpay", "cashfree"}
ASSUME AttemptsAssumption == MaxAttempts \in Nat

VARIABLES
    provider,   \* the gateway the customer has chosen
    txns,       \* status of each PaymentTransaction, in order of creation:
                \* created, pending, success, failed or retry
    gateway,    \* what the gateway knows of each attempt: none, open, authorised,
                \* failed, captured
    logs,       \* each webhook sent so far: what its row of the log says
    ledger,     \* references of the captured tenders: an attempt, by the id of its
                \* payment or of the gateway's order
    job,        \* each request's payment task
    killed      \* history: a worker was killed in a payment task

gatewayVars == <<provider, txns, gateway, logs, ledger, job, killed>>
allVars == <<order, lines, carry_away, req, past, overtaken,
             provider, txns, gateway, logs, ledger, job, killed>>

Attempts == 1 .. MaxAttempts
Events == [attempt : Attempts, says : {"pending", "failed", "success"}]

\* route  which code runs; event: the webhook it works off
\* txn    the transaction it has read; seen: its copy's status; want: the status to save
\* phase  "read"; "saved": the status is written; "tender": record_tender has begun
\* ref    the reference to settle under
NoJob == [route |-> "none", event |-> Nothing, txn |-> 0, seen |-> "created",
          want |-> "created", phase |-> "read", ref |-> Nothing]

GatewayInit ==
    /\ Init /\ ~carry_away
    /\ provider \in Providers
    /\ txns = <<>> /\ gateway = <<>>
    /\ logs = [e \in {} |-> "new"]
    /\ ledger = {}
    /\ job = [w \in Requests |-> NoJob]
    /\ killed = FALSE

-----------------------------------------------------------------------------
(* The customer and the gateway.                                            *)

\* create_checkout_order (created) and initiate_payment (pending): nobody asks
\* whether the order is still to be paid.  The gateway may refuse (failed).
Opened(status) ==
    /\ Len(txns) < MaxAttempts
    /\ txns' = Append(txns, status)
    /\ gateway' = Append(gateway, IF status = "failed" THEN "none" ELSE "open")

InitiatePayment ==
    /\ \E status \in {"created", "pending", "failed"} : Opened(status)
    /\ UNCHANGED <<orderVars, req, provider, logs, ledger, job, killed>>

Sends(E) == logs' = [e \in DOMAIN logs \cup E |-> IF e \in DOMAIN logs THEN logs[e] ELSE "new"]

\* A payment may be authorised before it is captured.
Authorises(a) ==
    /\ gateway[a] = "open" /\ a \in Announced
    /\ gateway' = [gateway EXCEPT ![a] = "authorised"]
    /\ Sends([attempt : {a}, says : {"pending"}])
    /\ UNCHANGED <<orderVars, req, provider, txns, ledger, job, killed>>

\* A failed payment may be followed by one that is captured.
Captures(a) ==
    /\ gateway[a] \in {"open", "authorised", "failed"}
    /\ gateway' = [gateway EXCEPT ![a] = "captured"]
    /\ Sends([attempt : {a}, says : {"success"}])
    /\ UNCHANGED <<orderVars, req, provider, txns, ledger, job, killed>>

Fails(a) ==
    /\ gateway[a] \in {"open", "authorised"}
    /\ gateway' = [gateway EXCEPT ![a] = "failed"]
    /\ Sends([attempt : {a}, says : {"failed"}])
    /\ UNCHANGED <<orderVars, req, provider, txns, ledger, job, killed>>

-----------------------------------------------------------------------------
(* The routes: each reads a transaction.                                    *)

Free(w) == req[w] = Idle /\ job[w] = NoJob
OneTransaction(w) == job[w].route \in {"handler", "verify", "reconcile"}

\* A transaction's row is locked from its UPDATE to the COMMIT.
LocksTransaction(w, t) ==
    /\ OneTransaction(w) /\ job[w].txn = t
    /\ job[w].phase # "read" \/ job[w].route = "verify"

Latest == Len(txns)

Reads(w, route, event, t, want, ref) ==
    /\ Free(w) /\ order.exists
    /\ job' = [job EXCEPT ![w] = [route |-> route, event |-> event, txn |-> t, seen |-> txns[t],
                                  want |-> want, phase |-> "read",
                                  ref |-> IF want = "success" THEN ref ELSE Nothing]]
    /\ UNCHANGED <<orderVars, req, provider, txns, gateway, logs, ledger, killed>>

\* Mutant of StatusFor: an authorised payment counts as paid.
StatusForAuthorised(says) == IF says = "failed" THEN "failed" ELSE "success"

\* status_map
StatusFor(says) == says

\* handle_webhook: a webhook that was processed is not processed again; it is
\* about the latest transaction of its order, whichever attempt it reports.
HandleWebhook(w, e) ==
    /\ provider = "razorpay"
    /\ e \in DOMAIN logs /\ logs[e] # "processed"
    /\ Reads(w, "webhook", e, Latest, StatusFor(e.says), [of |-> e.attempt, id |-> "payment"])

\* process_cashfree_webhook_payload: the row of the event is locked first.
HandleCashfreeWebhook(w, e) ==
    /\ provider = "cashfree"
    /\ e \in DOMAIN logs /\ logs[e] # "processed" /\ e.says # "pending"
    /\ \A v \in Requests : job[v].event # e
    /\ Reads(w, "handler", e, Latest, StatusFor(e.says), [of |-> Latest, id |-> "order"])

\* verify_checkout_payment: the customer returns with the gateway's signature, or
\* with one that does not verify.  The transaction's row is written, and locked, first.
VerifyCheckoutPayment(w, a) ==
    /\ provider = "razorpay"
    /\ \A v \in Requests : ~LocksTransaction(v, a)
    /\ \E want \in {"success", "failed"} :
         /\ want = "success" => gateway[a] = "captured"
         /\ Reads(w, "verify", Nothing, a, want, [of |-> a, id |-> "payment"])

\* reconcile_transaction_status: ask the gateway how the latest attempt stands.
ReconcileOrderPayment(w, id) ==
    /\ Latest > 0 /\ gateway[Latest] # "none"
    /\ Reads(w, "reconcile", Nothing, Latest,
             IF gateway[Latest] = "captured" THEN "success"
             ELSE IF gateway[Latest] = "failed" THEN "failed" ELSE "pending",
             [of |-> Latest, id |-> id])

\* retry_payment: can_retry, on the copy.
RetryPayment(w, t) ==
    /\ txns[t] \in {"created", "failed", "retry"}
    /\ Latest < MaxAttempts
    /\ Reads(w, "retry", Nothing, t, "retry", Nothing)
-----------------------------------------------------------------------------
(* Going on with the copy.                                                  *)

AllowedSuccessFrom == {"created", "pending", "retry", "failed"}

\* Mutant of Accepted: a payment that has failed is over.
AcceptedUnlessFailed(seen, want) ==
    want # seen /\ seen \notin {"failed"} /\ (want = "pending" \/ seen # "success")

\* The state machine guard; it lets any status become pending.
Accepted(seen, want) ==
    CASE want = "success" -> seen \in AllowedSuccessFrom
      [] want = "failed" -> seen \in {"created", "pending", "retry"}
      [] OTHER -> TRUE

Written(w) == [txns EXCEPT ![job[w].txn] = job[w].want]

\* The log after a webhook has been processed; the unique key of a row that
\* failed before refuses a second one.
Logged(w) ==
    IF job[w].event = Nothing \/ logs[job[w].event] = "failed" THEN logs
    ELSE [logs EXCEPT ![job[w].event] = "processed"]

Ends(w) == job' = [job EXCEPT ![w] = NoJob]

\* The status may not follow from the one read: nothing is saved.
Skips(w) ==
    /\ job[w].route \notin {"none", "retry"} /\ job[w].phase = "read"
    /\ ~Accepted(job[w].seen, job[w].want)
    /\ Ends(w) /\ logs' = Logged(w)
    /\ UNCHANGED <<orderVars, req, provider, txns, gateway, ledger, killed>>

\* txn.save(): whatever the row has become.
Saves(w) ==
    /\ job[w].route # "none" /\ job[w].phase = "read"
    /\ job[w].route # "retry" => Accepted(job[w].seen, job[w].want)
    /\ \A v \in Requests \ {w} : ~LocksTransaction(v, job[w].txn)
    /\ txns' = IF OneTransaction(w) THEN txns ELSE Written(w)
    /\ job' = [job EXCEPT ![w].phase = "saved", ![w].seen = job[w].want]
    /\ UNCHANGED <<orderVars, req, provider, gateway, logs, ledger, killed>>

\* handle_payment_failed, while the order is still to be paid: release its stock.
FailureReleases(w) == job[w].route \in {"handler", "verify"} /\ order.status \in {"draft", "placed"}

\* What was saved becomes visible, and there is nothing else to do: no success,
\* or settle_gateway_payment finds nothing outstanding.
Finishes(w) ==
    /\ job[w].route \notin {"none", "retry"} /\ job[w].phase = "saved"
    /\ CASE job[w].want = "success" -> ledger # {}
         [] job[w].want = "failed" -> ~FailureReleases(w)
         [] OTHER -> TRUE
    /\ txns' = IF OneTransaction(w) THEN Written(w) ELSE txns
    /\ logs' = Logged(w)
    /\ Ends(w)
    /\ UNCHANGED <<orderVars, req, provider, gateway, ledger, killed>>

\* settle_gateway_payment has found the order unpaid; record_tender locks it.
SettlesGatewayPayment(w) ==
    /\ job[w].phase = "saved" /\ job[w].want = "success"
    /\ ledger = {}
    /\ job' = [job EXCEPT ![w].phase = "tender"]
    /\ UNCHANGED <<orderVars, req, provider, txns, gateway, logs, ledger, killed>>

\* Mutant of Due: the balance read before the lock is good enough.
DueWhenRead(ref) == ref \notin ledger

\* record_tender, under the lock: the balance covers the payment.
Due(ref) == ledger = {}

RecordsTender(w) ==
    /\ job[w].phase = "tender" /\ req[w] = Idle
    /\ Due(job[w].ref)
    /\ SettlePaid(w)
    /\ UNCHANGED gatewayVars

\* The same payment has been recorded meanwhile: its tender is returned.
FindsTender(w) ==
    /\ job[w].phase = "tender" /\ req[w] = Idle
    /\ \A v \in Requests : ~HasRow(v)
    /\ job[w].ref \in ledger
    /\ txns' = IF OneTransaction(w) THEN Written(w) ELSE txns
    /\ logs' = Logged(w)
    /\ Ends(w)
    /\ UNCHANGED <<orderVars, req, provider, gateway, ledger, killed>>

\* The balance does not cover it any more: TenderError.  What is one transaction
\* rolls back; the webhook has saved its status, and logs the error.
RefusesTender(w) ==
    /\ job[w].phase = "tender" /\ req[w] = Idle
    /\ \A v \in Requests : ~HasRow(v)
    /\ job[w].ref \notin ledger /\ ~Due(job[w].ref)
    /\ logs' = IF job[w].route = "webhook" THEN [logs EXCEPT ![job[w].event] = "failed"] ELSE logs
    /\ Ends(w)
    /\ UNCHANGED <<orderVars, req, provider, txns, gateway, ledger, killed>>

\* A failure frees the order's stock, in the same transaction; what goes wrong is
\* only logged.
Releases(w) ==
    /\ job[w].phase = "saved" /\ job[w].want = "failed" /\ FailureReleases(w)
    /\ Begin(w, Do("drop"), Do("end"))
    /\ UNCHANGED gatewayVars

\* retry_payment goes on to initiate_payment.
Reinitiates(w) ==
    /\ job[w].route = "retry" /\ job[w].phase = "saved"
    /\ IF Latest < MaxAttempts THEN \E status \in {"pending", "failed"} : Opened(status)
       ELSE UNCHANGED <<txns, gateway>>
    /\ Ends(w)
    /\ UNCHANGED <<orderVars, req, provider, logs, ledger, killed>>

-----------------------------------------------------------------------------
(* Committing and failing, as the order's requests do.                      *)

GatewayCommits(w) ==
    /\ Commits(w)
    /\ IF job[w] = NoJob THEN UNCHANGED <<txns, logs, ledger>>
       ELSE /\ txns' = IF OneTransaction(w) THEN Written(w) ELSE txns
            /\ logs' = Logged(w)
            /\ ledger' = ledger \cup (IF job[w].phase = "tender" THEN {job[w].ref} ELSE {})
    /\ Ends(w)
    /\ UNCHANGED <<provider, gateway, killed>>

\* An error in mark_paid takes the tender with it.
GatewayStep(w) ==
    /\ Pays(w) \/ Touches(w) \/ Moves(w) \/ Queries(w) \/ Settles(w) \/ Refused(w)
    /\ job' = IF req'[w] = Idle THEN [job EXCEPT ![w] = NoJob] ELSE job
    /\ UNCHANGED <<provider, txns, gateway, logs, ledger, killed>>

GatewayDies(w) ==
    /\ Busy(w) \/ job[w] # NoJob
    /\ req' = [req EXCEPT ![w] = Idle]
    /\ Ends(w)
    /\ killed' = (killed \/ job[w] # NoJob)
    /\ UNCHANGED <<orderVars, provider, txns, gateway, logs, ledger>>

GatewayProceeds(w) ==
    \/ Skips(w) \/ Saves(w) \/ Finishes(w) \/ SettlesGatewayPayment(w) \/ RecordsTender(w)
    \/ FindsTender(w) \/ RefusesTender(w) \/ Releases(w) \/ Reinitiates(w)
    \/ GatewayStep(w) \/ GatewayCommits(w)

CancelUnpaid(w) == Free(w) /\ CancelOrder(w) /\ UNCHANGED gatewayVars

Handles(w, e) == HandleWebhook(w, e) \/ HandleCashfreeWebhook(w, e)

GatewayNext ==
    \/ InitiatePayment
    \/ \E a \in DOMAIN txns : Authorises(a) \/ Captures(a) \/ Fails(a)
    \/ \E w \in Requests :
         \/ CancelUnpaid(w)
         \/ \E e \in Events : Handles(w, e)
         \/ \E t \in DOMAIN txns : VerifyCheckoutPayment(w, t) \/ RetryPayment(w, t)
         \/ \E id \in {"payment", "order"} : ReconcileOrderPayment(w, id)
         \/ GatewayProceeds(w) \/ GatewayDies(w)

\* Every webhook is delivered once - it need not come again - and the tasks that work it
\* off go on; a statement that waits for a row gets its turn.
GatewayFairness ==
    /\ \A w \in Requests : SF_allVars(GatewayProceeds(w))
    /\ \A e \in Events : SF_allVars(e \in DOMAIN logs /\ logs[e] = "new" /\ \E w \in Requests : Handles(w, e))

GatewaySpec == GatewayInit /\ [][GatewayNext]_allVars /\ GatewayFairness

-----------------------------------------------------------------------------
(* Properties.                                                              *)

\* A payment that is confirmed by several routes, under different references and
\* on different transactions, and payments made twice, are taken into the ledger
\* once: the balance is checked again under the order's lock.
TakenOnce == Cardinality(ledger) <= 1

\* Nothing short of a captured payment makes an order paid, although a webhook is
\* applied to the latest transaction whichever attempt it is about.
PaidIsCaptured ==
    order.payment = "paid" \/ ledger # {} => \E a \in DOMAIN gateway : gateway[a] = "captured"

\* Money the gateway has captured reaches the ledger, in whatever order the news of
\* it comes and after any number of failures and retries, unless a worker is killed.
Captured == \E a \in DOMAIN gateway : gateway[a] = "captured"
CapturedIsCollected == Captured ~> ledger # {} \/ killed

-----------------------------------------------------------------------------
(* A statement of the code's documentation that the code does not keep.     *)

\* settle_gateway_payment: a payment confirmed by any of those three routes lands in
\* the ledger exactly once.
ConfirmedIsSettled ==
    (\E t \in DOMAIN txns : txns[t] = "success") /\ (\A w \in Requests : job[w] = NoJob)
    => ledger # {}

-----------------------------------------------------------------------------
(* The inductive invariant of the proofs.                                   *)

TxnStatuses == {"created", "pending", "success", "failed", "retry"}
GatewayStatuses == {"none", "open", "authorised", "failed", "captured"}
References == [of : Nat, id : {"payment", "order"}]
Jobs ==
    [route : {"none", "webhook", "handler", "verify", "reconcile", "retry"},
     event : Events \cup {Nothing}, txn : Nat, seen : TxnStatuses, want : TxnStatuses,
     phase : {"read", "saved", "tender"}, ref : References \cup {Nothing}]

\* Every attempt has a transaction, and what was sent is about an attempt.
GatewayTypeOK ==
    /\ TypeOK
    /\ txns \in Seq(TxnStatuses) /\ Len(txns) <= MaxAttempts
    /\ gateway \in Seq(GatewayStatuses) /\ Len(gateway) = Len(txns)
    /\ DOMAIN logs \subseteq Events /\ \A e \in DOMAIN logs : e.attempt \in DOMAIN txns
    /\ job \in [Requests -> Jobs]

\* A tender is only begun for a success, and after that success has been saved; from
\* then until its commit the row of the order is locked, and the ledger empty.
TendersUnderLock(w) ==
    /\ job[w].phase = "tender" =>
         job[w].want = "success" /\ (req[w] # Idle => req[w].locked /\ ledger = {})
    /\ job[w].want = "success" /\ req[w] # Idle => job[w].phase = "tender"

\* Nothing the request may still do pays the order.
PayStatements == {"pay", "all"}
PaysNothing(r) ==
    /\ "payment" \notin r.wrote
    /\ \A i \in DOMAIN r.script : r.script[i].do \notin PayStatements
    /\ \A i \in DOMAIN r.handler : r.handler[i].do \notin PayStatements

\* As long as nothing is captured, nobody has heard of a success.
NothingPaidYet ==
    /\ order.payment # "paid" /\ ledger = {}
    /\ \A e \in DOMAIN logs : e.says # "success"
    /\ \A w \in Requests : job[w].want # "success" /\ PaysNothing(req[w])

GatewayInv ==
    /\ GatewayTypeOK
    /\ \A v, w \in Requests : HasRow(v) /\ HasRow(w) => v = w
    /\ \A w \in Requests : TendersUnderLock(w)
    /\ ledger = {} \/ \E ref \in References \cup {Nothing} : ledger = {ref}
    /\ Captured \/ NothingPaidYet
=============================================================================
