---------------------------- MODULE Collections -----------------------------
(***************************************************************************)
(* apps/pos/collection_service.py and its view: the codes a counter shows  *)
(* for what is still due on one sale, and the payments made on them.       *)
(*                                                                         *)
(* A code is a PaymentTransaction and a QR, or a payment link shown as     *)
(* one.  The counter may replace it, and closes the old one first; only    *)
(* the gateway's webhook credits it (handle_webhook, statement by          *)
(* statement), by the latest transaction of the order.  Cash and confirmed *)
(* UPI come in meanwhile, and the sale may be voided: one step each here,  *)
(* in detail in TenderLedger.  Left out: Paytm's codes, which leave no     *)
(* row, failure events, the sweep and the reconciler.                      *)
(***************************************************************************)
EXTENDS Sequences, UnitSums

CONSTANTS
    Tills,      \* concurrent requests: the counter's, and webhooks
    SaleTotal,  \* grand_total
    MaxCodes    \* bound: transactions of the sale

ASSUME SaleTotalAssumption == SaleTotal \in Nat

VARIABLES
    codes,      \* in order of creation, each with its transaction and its payment
    byHand,     \* amount of the captured cash and Paytm tenders
    voided,     \* the sale was voided
    errand      \* what each request is doing

collectVars == <<codes, byHand, voided, errand>>

\* txn       status of the PaymentTransaction
\* shown     none: the provider has not made it; open: it can be paid; closed; paid
\* notice    the WebhookLog of its payment: none, new, failed, processed
\* credited  amount_applied of its tender, 0 if there is none
\* excused   history: a reason why its payment may not count in full has occurred
NewCode(amount, excused) ==
    [txn |-> "created", amount |-> amount, shown |-> "none", notice |-> "none",
     credited |-> 0, excused |-> excused]

\* phase  what the request does next
\* code   the code it cancels or shows, or whose payment its webhook reports
\* copy   the status of the transaction it has read
\* txn    the transaction a webhook is matched to
\* due    the amount it has read, or is about to record
\* other  history: other money came in since it read the amount
Waiting == [phase |-> "wait", code |-> 0, copy |-> "created", txn |-> 0, due |-> 0, other |-> FALSE]

CollectInit ==
    /\ codes = <<>>
    /\ byHand = 0
    /\ voided = FALSE
    /\ errand = [w \in Tills |-> Waiting]

\* amount_paid and balance_due
Taken == byHand + SumOver([c \in DOMAIN codes |-> codes[c].credited], DOMAIN codes)
StillDue == SaleTotal - Taken

Rests(w) == errand' = [errand EXCEPT ![w] = Waiting]
Goes(w, phase) == errand' = [errand EXCEPT ![w].phase = phase]

\* The codes f, all but those of C with a reason not to count in full.
ExcusedBut(C, f) == [c \in DOMAIN f |-> IF c \in C THEN f[c] ELSE [f[c] EXCEPT !.excused = TRUE]]
\* The requests g, those about to create a code for an amount they have read.
OtherMoney(g) == [w \in Tills |-> [g[w] EXCEPT !.other = @ \/ g[w].phase = "create"]]

-----------------------------------------------------------------------------
(* Money by other ways.                                                     *)

\* take_cash_tender, take_upi_tender: record_tender, under the order's lock.
TakesByHand(a) ==
    /\ a <= StillDue
    /\ byHand' = byHand + a
    /\ codes' = ExcusedBut({}, codes)
    /\ errand' = OtherMoney(errand)
    /\ UNCHANGED voided

\* void_sale refuses a sale with gateway legs, and closes no code.
VoidsWholeSale ==
    /\ ~voided /\ Taken = byHand
    /\ voided' = TRUE
    /\ byHand' = 0
    /\ UNCHANGED <<codes, errand>>

-----------------------------------------------------------------------------
(* The counter: UpiCollectionView.                                          *)

\* "replaces": cancel_collection reads the transaction and closes the code.  It goes on
\* if that fails, as it does for a payment link.
CancelCollection(w, c) ==
    /\ errand[w] = Waiting /\ codes[c].shown # "none"
    /\ \E shown \in IF codes[c].shown = "open" THEN {"open", "closed"} ELSE {codes[c].shown} :
         codes' = [codes EXCEPT ![c].shown = shown]
    /\ errand' = [errand EXCEPT ![w] = [Waiting EXCEPT !.phase = "cancel", !.code = c, !.copy = codes[c].txn]]
    /\ UNCHANGED <<byHand, voided>>

\* txn.status = CANCELLED, decided on the copy.
SavesCancelled(w) ==
    LET c == errand[w].code
    IN  /\ errand[w].phase = "cancel"
        /\ codes' = IF errand[w].copy \in {"created", "pending"}
                    THEN [codes EXCEPT ![c].txn = "cancelled", ![c].excused = TRUE]
                    ELSE codes
        /\ errand' = [errand EXCEPT ![w] = [Waiting EXCEPT !.phase = "quote"]]
        /\ UNCHANGED <<byHand, voided>>

CreateUpiCollection(w) ==
    /\ errand[w] = Waiting
    /\ Goes(w, "quote")
    /\ UNCHANGED <<codes, byHand, voided>>

\* Mutant of Quoted: the code is for the order's total.
QuotedTotal == SaleTotal

\* The code is always for the balance, never the order total.
Quoted == StillDue

\* balance_due; CollectionError if the order is paid.
ReadsQuote(w) ==
    /\ errand[w].phase = "quote"
    /\ IF StillDue = 0 THEN Rests(w)
       ELSE errand' = [errand EXCEPT ![w] = [Waiting EXCEPT !.phase = "create", !.due = Quoted]]
    /\ UNCHANGED <<codes, byHand, voided>>

\* The row, in a transaction of its own: from now on it is the order's latest.
CreatesTransaction(w) ==
    /\ errand[w].phase = "create" /\ Len(codes) < MaxCodes
    /\ codes' = Append(ExcusedBut({}, codes), NewCode(errand[w].due, errand[w].other))
    /\ errand' = [errand EXCEPT ![w] = [Waiting EXCEPT !.phase = "ask", !.code = Len(codes) + 1]]
    /\ UNCHANGED <<byHand, voided>>

\* create_qr_code, or initiate for a link; the status that is saved overwrites.
AsksProvider(w) ==
    LET c == errand[w].code
    IN  /\ errand[w].phase = "ask"
        /\ \/ codes' = [codes EXCEPT ![c].txn = "pending", ![c].shown = "open"]
           \/ codes' = [codes EXCEPT ![c].txn = "failed"]
        /\ Rests(w)
        /\ UNCHANGED <<byHand, voided>>

-----------------------------------------------------------------------------
(* The customer.                                                            *)

PaysCode(c) ==
    /\ codes[c].shown = "open"
    /\ codes' = [codes EXCEPT ![c].shown = "paid", ![c].notice = "new"]
    /\ UNCHANGED <<byHand, voided, errand>>

\* close_by
Expires(c) ==
    /\ codes[c].shown = "open"
    /\ codes' = [codes EXCEPT ![c].shown = "closed"]
    /\ UNCHANGED <<byHand, voided, errand>>

-----------------------------------------------------------------------------
(* The webhook: handle_webhook.                                             *)

\* allowed_success_from, and _verify_webhook_amount.
Credits(t, c) == codes[t].txn \in {"created", "pending", "failed"} /\ codes[t].amount = codes[c].amount

\* A payment that was worked off is not again.  It is matched to the order's latest
\* transaction, and dropped if that is not to be credited.
HandlesNotice(w, c) ==
    LET t == Len(codes)
    IN  /\ errand[w] = Waiting /\ codes[c].notice \in {"new", "failed"}
        /\ IF Credits(t, c)
           THEN errand' = [errand EXCEPT ![w] = [Waiting EXCEPT !.phase = "save", !.code = c, !.txn = t]]
           ELSE errand' = [errand EXCEPT ![w] = [Waiting EXCEPT !.phase = "log", !.code = c]]
        /\ UNCHANGED <<codes, byHand, voided>>

\* txn.status = SUCCESS, whatever it has become.
SavesSuccess(w) ==
    /\ errand[w].phase = "save"
    /\ codes' = [codes EXCEPT ![errand[w].txn].txn = "success",
                             ![errand[w].txn].excused = @ \/ errand[w].txn # errand[w].code]
    /\ Goes(w, "settle")
    /\ UNCHANGED <<byHand, voided>>

Logs(w) == errand' = [errand EXCEPT ![w] = [Waiting EXCEPT !.phase = "log", !.code = errand[w].code]]

\* settle_gateway_payment: what it applies, read without a lock.
ReadsApplied(w) ==
    LET amount == codes[errand[w].txn].amount
    IN  /\ errand[w].phase = "settle"
        /\ IF StillDue = 0 THEN Logs(w)
           ELSE errand' = [errand EXCEPT ![w].phase = "record", ![w].txn = 0,
                                         ![w].due = IF amount < StillDue THEN amount ELSE StillDue]
        /\ UNCHANGED <<codes, byHand, voided>>

\* record_tender, under the order's lock: a new payment that fits, one that is known, or
\* TenderError, which leaves the log unprocessed.
RecordsCredit(w) ==
    LET c == errand[w].code
    IN  /\ errand[w].phase = "record"
        /\ \/ /\ codes[c].credited > 0
              /\ Logs(w) /\ UNCHANGED codes
           \/ /\ codes[c].credited = 0 /\ errand[w].due > StillDue
              /\ codes' = [codes EXCEPT ![c].notice = "failed"]
              /\ Rests(w)
           \/ /\ codes[c].credited = 0 /\ errand[w].due <= StillDue
              /\ codes' = ExcusedBut({c}, [codes EXCEPT ![c].credited = errand[w].due])
              /\ errand' = OtherMoney([errand EXCEPT ![w] = [Waiting EXCEPT !.phase = "log", !.code = c]])
        /\ UNCHANGED <<byHand, voided>>

\* webhook_log.is_processed = True
LogsNotice(w) ==
    /\ errand[w].phase = "log"
    /\ codes' = [codes EXCEPT ![errand[w].code].notice = "processed"]
    /\ Rests(w)
    /\ UNCHANGED <<byHand, voided>>

\* A worker is killed; what it has saved stays.
GoesDown(w) ==
    /\ errand[w] # Waiting
    /\ codes' = IF errand[w].phase \in {"settle", "record"}
                THEN [codes EXCEPT ![errand[w].code].excused = TRUE] ELSE codes
    /\ Rests(w)
    /\ UNCHANGED <<byHand, voided>>

CollectNext ==
    \/ \E a \in 1 .. SaleTotal : TakesByHand(a)
    \/ VoidsWholeSale
    \/ \E c \in DOMAIN codes : PaysCode(c) \/ Expires(c)
    \/ \E w \in Tills :
         \/ \E c \in DOMAIN codes : CancelCollection(w, c) \/ HandlesNotice(w, c)
         \/ SavesCancelled(w) \/ CreateUpiCollection(w) \/ ReadsQuote(w)
         \/ CreatesTransaction(w) \/ AsksProvider(w)
         \/ SavesSuccess(w) \/ ReadsApplied(w) \/ RecordsCredit(w) \/ LogsNotice(w)
         \/ GoesDown(w)

CollectSpec == CollectInit /\ [][CollectNext]_collectVars

-----------------------------------------------------------------------------
(* Properties.                                                              *)

\* Codes for what is due, their replacements and late webhooks: the sale never has more
\* than its total, a credit is backed by a payment of its own code of at least that
\* much, whichever transaction it was matched to, and a payment that was worked off is
\* credited in full, unless the code was replaced or cancelled, its transaction was
\* taken for the payment of an older code, other money came in since it was quoted, or
\* its worker was killed half way.
PaidCodesCount ==
    /\ Taken <= SaleTotal
    /\ \A c \in DOMAIN codes :
         /\ codes[c].credited > 0 => codes[c].shown = "paid" /\ codes[c].credited <= codes[c].amount
         /\ codes[c].notice = "processed" /\ ~codes[c].excused /\ (\A w \in Tills : errand[w].code # c)
              => codes[c].credited = codes[c].amount

-----------------------------------------------------------------------------
(* The inductive invariant of the proofs.                                   *)

Codes ==
    [txn : {"created", "pending", "failed", "success", "cancelled"}, amount : Nat \ {0},
     shown : {"none", "open", "closed", "paid"}, notice : {"none", "new", "failed", "processed"},
     credited : Nat, excused : BOOLEAN]
Errands ==
    [phase : {"wait", "cancel", "quote", "create", "ask", "save", "settle", "record", "log"},
     code : Nat, copy : {"created", "pending", "failed", "success", "cancelled"}, txn : Nat,
     due : Nat, other : BOOLEAN]

CollectTypeOK ==
    /\ codes \in Seq(Codes)
    /\ byHand \in Nat /\ voided \in BOOLEAN
    /\ errand \in [Tills -> Errands]

\* The webhook of code c's payment has yet to credit it.
Settling(w, c) == errand[w].phase \in {"settle", "record"} /\ errand[w].code = c
Counts(c) == codes[c].credited = codes[c].amount \/ \E w \in Tills : Settling(w, c)

\* A code without an excuse is the latest one, and nothing came in since it was quoted;
\* a payment that was worked off, or whose transaction was, counts.
CodeInv(c) ==
    /\ codes[c].notice # "none" => codes[c].shown = "paid"
    /\ codes[c].credited > 0 => codes[c].shown = "paid" /\ codes[c].credited <= codes[c].amount
    /\ ~codes[c].excused =>
         /\ c = Len(codes)
         /\ IF codes[c].credited = 0 THEN codes[c].amount <= StillDue
            ELSE codes[c].credited = codes[c].amount
         /\ codes[c].txn # "cancelled"
         /\ codes[c].txn = "success" \/ codes[c].notice = "processed" => Counts(c)

\* A code is its request's own until the provider has made it.
CounterErrandInv(w) ==
    /\ errand[w].phase \in {"cancel", "ask"} => errand[w].code \in DOMAIN codes
    /\ errand[w].phase = "create" =>
         errand[w].due > 0 /\ (~errand[w].other => errand[w].due <= StillDue)
    /\ errand[w].phase = "ask" =>
         codes[errand[w].code].shown = "none" /\ codes[errand[w].code].notice = "none"

\* A webhook is about a payment; what it applies is for an amount the code was for.
WebhookErrandInv(w) ==
    /\ errand[w].phase \in {"save", "settle", "record", "log"} =>
         errand[w].code \in DOMAIN codes /\ codes[errand[w].code].notice # "none"
    /\ errand[w].phase \in {"save", "settle"} =>
         /\ errand[w].txn \in DOMAIN codes
         /\ codes[errand[w].txn].amount = codes[errand[w].code].amount
    /\ errand[w].phase = "record" =>
         /\ 0 < errand[w].due /\ errand[w].due <= codes[errand[w].code].amount
         /\ ~codes[errand[w].code].excused /\ codes[errand[w].code].credited = 0 =>
              errand[w].due = codes[errand[w].code].amount
    /\ errand[w].phase = "log" /\ ~codes[errand[w].code].excused => Counts(errand[w].code)

CollectInv ==
    /\ CollectTypeOK
    /\ Taken <= SaleTotal
    /\ \A c \in DOMAIN codes : CodeInv(c)
    /\ \A w \in Tills : CounterErrandInv(w) /\ WebhookErrandInv(w)
    /\ \A v, w \in Tills :
         errand[v].phase = "ask" /\ errand[w].phase = "ask" /\ errand[v].code = errand[w].code => v = w
=============================================================================
