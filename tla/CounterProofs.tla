---------------------------- MODULE CounterProofs ---------------------------
(***************************************************************************)
(* Theorems about the counter: TenderLedger, for any requests, payments    *)
(* and prices; Register, for any clerks, shifts and rows; QuickItems, for  *)
(* any desks, pieces and sales; and the three as MCCounter puts them       *)
(* together.                                                               *)
(***************************************************************************)
EXTENDS MCCounter, UnitSumsTheorems, SequenceTheorems

-----------------------------------------------------------------------------
(* The ledger.                                                             *)

Ledgers == [Ids -> Leg \cup {NoTender}]

Voided(leg) == [leg EXCEPT !.status = "voided"]

\* A tender is told from no tender by its status.
LEMMA LegFields ==
    ASSUME NEW leg \in Leg
    PROVE  /\ leg # NoTender /\ leg.status \in {"captured", "voided"}
           /\ leg.amount \in Nat /\ leg.ref \in Refs \cup {NoRef}
           /\ Voided(leg) \in Leg /\ Voided(leg).ref = leg.ref
           /\ Voided(leg).status = "voided" /\ Voided(Voided(leg)) = Voided(leg)
<1>1. leg.status # NoTender.status
  BY DEF Leg, NoTender
<1>2. leg.amount \in Nat
  BY PriceAssumption DEF Leg, Amounts
<1> QED
  BY <1>1, <1>2 DEF Leg, Voided

LEMMA CapturedSound ==
    ASSUME NEW ts \in Ledgers
    PROVE  /\ IsFiniteSet(Captured(ts))
           /\ \A t \in Captured(ts) : t \in Ids /\ ts[t] \in Leg /\ ts[t].amount \in Nat
           /\ AmountPaid(ts) \in Nat
<1>1. IsFiniteSet(Ids)
  BY FS_Interval, TendersAssumption DEF Ids
<1>2. IsFiniteSet(Captured(ts))
  BY <1>1, FS_Subset DEF Captured
<1>3. \A t \in Captured(ts) : t \in Ids /\ ts[t] \in Leg
  BY DEF Captured, Ledgers, NoTender
<1>4. \A t \in Captured(ts) : ts[t].amount \in Nat
  BY <1>3, LegFields
<1> DEFINE f == [t \in Captured(ts) |-> ts[t].amount]
<1>5. SumOver(f, Captured(ts)) \in Nat
  BY <1>2, <1>4, SumType
<1> QED
  BY <1>2, <1>3, <1>4, <1>5 DEF AmountPaid

\* A new tender adds its amount to what is paid.
LEMMA TenderAdds ==
    ASSUME NEW ts \in Ledgers, NEW us \in Ledgers, NEW t \in Ids,
           ts[t] = NoTender, us[t].status = "captured", us[t] \in Leg,
           \A u \in Ids \ {t} : us[u] = ts[u]
    PROVE  AmountPaid(us) = AmountPaid(ts) + us[t].amount
<1> DEFINE f == [u \in Captured(ts) |-> ts[u].amount]
           g == [u \in Captured(us) |-> us[u].amount]
<1>1. t \notin Captured(ts) /\ Captured(us) = Captured(ts) \cup {t}
  BY DEF Captured, NoTender
<1>2. \A u \in Captured(ts) : f[u] = g[u]
  BY <1>1 DEF Captured
<1>3. /\ IsFiniteSet(Captured(ts))
      /\ \A u \in Captured(ts) : g[u] \in Nat
  BY <1>1, <1>2, CapturedSound
<1>4. g[t] = us[t].amount /\ us[t].amount \in Nat
  BY <1>1, LegFields
<1>5. SumOver(g, Captured(ts) \cup {t}) = SumOver(g, Captured(ts)) + g[t]
  BY <1>1, <1>3, <1>4, SumAdd
<1>6. SumOver(f, Captured(ts)) = SumOver(g, Captured(ts))
  BY <1>2, SumCongruent
<1> QED
  BY <1>1, <1>4, <1>5, <1>6 DEF AmountPaid

\* Voiding tenders never raises what is paid.
LEMMA VoidsLower ==
    ASSUME NEW ts \in Ledgers, NEW us \in Ledgers,
           \A t \in Ids : us[t] = ts[t] \/ us[t].status = "voided"
    PROVE  AmountPaid(us) <= AmountPaid(ts)
<1> DEFINE f == [u \in Captured(ts) |-> ts[u].amount]
           g == [u \in Captured(us) |-> us[u].amount]
<1>1. Captured(us) \in SUBSET Captured(ts)
  BY DEF Captured
<1>2. \A u \in Captured(us) : f[u] = g[u]
  BY <1>1 DEF Captured
<1>3. IsFiniteSet(Captured(ts)) /\ \A u \in Captured(ts) : f[u] \in Nat
  BY CapturedSound
<1>4. SumOver(f, Captured(us)) <= SumOver(f, Captured(ts))
  BY <1>1, <1>3, SumMonotone
<1>5. SumOver(f, Captured(us)) = SumOver(g, Captured(us))
  BY <1>2, SumCongruent
<1> QED
  BY <1>4, <1>5 DEF AmountPaid

-----------------------------------------------------------------------------
(* Orders and requests.                                                    *)

\* Writing some columns of one order over another gives an order, and its price is
\* kept when the price's columns are written together.
LEMMA Overwritten ==
    ASSUME NEW o \in Order, NEW p \in Order, NEW S \in SUBSET Columns
    PROVE  LET q == [c \in DOMAIN o |-> IF c \in S THEN p[c] ELSE o[c]]
           IN  /\ q \in Order
               /\ /\ PriceColumns \subseteq S \/ S \cap PriceColumns = {}
                  /\ PriceKept(o) /\ PriceKept(p)
                  => PriceKept(q)
<1> DEFINE q == [c \in DOMAIN o |-> IF c \in S THEN p[c] ELSE o[c]]
<1>1. DOMAIN o = {"status", "payment_status", "grand_total", "manual_discount", "carry_away"}
  BY DEF Order
<1>2. q = [status |-> q["status"], payment_status |-> q["payment_status"],
           grand_total |-> q["grand_total"], manual_discount |-> q["manual_discount"],
           carry_away |-> q["carry_away"]]
  BY <1>1
<1>3. /\ q["status"] \in {"placed", "paid", "completed", "cancelled"}
      /\ q["payment_status"] \in {"pending", "failed", "part_paid", "paid"}
      /\ q["grand_total"] \in Int /\ q["manual_discount"] \in Int
      /\ q["carry_away"] \in BOOLEAN
  BY <1>1 DEF Order, Columns
<1>4. q \in Order
  BY <1>2, <1>3 DEF Order
<1>5. ASSUME PriceColumns \subseteq S \/ S \cap PriceColumns = {},
             PriceKept(o), PriceKept(p)
      PROVE  PriceKept(q)
  BY <1>1, <1>5 DEF PriceKept, PriceColumns
<1> QED
  BY <1>4, <1>5

\* sync_payment_status leaves the price alone.
LEMMA SyncedSound ==
    ASSUME NEW o \in Order, NEW ts
    PROVE  /\ Synced(o, ts) \in Order
           /\ Synced(o, ts).grand_total = o.grand_total
           /\ Synced(o, ts).manual_discount = o.manual_discount
           /\ Changed(o, Synced(o, ts)) \in SUBSET Columns
           /\ Changed(o, Synced(o, ts)) \cap PriceColumns = {}
<1>1. DerivePaymentStatus(o, ts) \in {"pending", "failed", "part_paid", "paid"}
  BY DEF DerivePaymentStatus
<1>2. MarkPaid(o) \in Order /\ MarkPaid(o).grand_total = o.grand_total
      /\ MarkPaid(o).manual_discount = o.manual_discount
  BY DEF MarkPaid, Order
<1>3. /\ Synced(o, ts) \in Order
      /\ Synced(o, ts).grand_total = o.grand_total
      /\ Synced(o, ts).manual_discount = o.manual_discount
  BY <1>1, <1>2 DEF Synced, Order
<1> QED
  BY <1>3 DEF Changed, PriceColumns

LEMMA RequestFields ==
    ASSUME NEW r, IsRequest(r)
    PROVE  /\ r.at \in Points /\ r.method \in Methods /\ r.copy \in Order /\ r.due \in Nat
           /\ r.ref \in Refs \cup {NoRef} /\ r.todo \in SUBSET Ids
           /\ r.save \in SUBSET Columns /\ DOMAIN r.wrote \in SUBSET Columns
           /\ DOMAIN r.legs \in SUBSET Ids /\ r.legs \in [DOMAIN r.legs -> Leg]
           /\ r.locks \in BOOLEAN /\ r.paid \in BOOLEAN /\ r.overtaken \in BOOLEAN
BY DEF IsRequest, RequestOver

LEMMA NewOrderSound ==
    ASSUME NEW carry_away \in BOOLEAN
    PROVE  NewOrder(carry_away) \in Order /\ PriceKept(NewOrder(carry_away))
BY PriceAssumption DEF NewOrder, Order, PriceKept

LEMMA RestFields ==
    /\ Rest \in RequestOver(<<>>, {}) /\ Rest.at = "idle"
    /\ Rest.copy = NewOrder(FALSE) /\ Rest.todo = {} /\ Rest.save = {}
    /\ Rest.wrote = <<>> /\ Rest.legs = <<>> /\ Rest.locks = FALSE
<1>1. <<>> \in [{} -> Leg]
  OBVIOUS
<1>2. NewOrder(FALSE) \in Order
  BY NewOrderSound
<1> QED
  BY <1>1, <1>2 DEF Rest, Idle, RequestOver, Points, Methods

\* A request with nothing in hand but a copy of the order.
Fresh(at, method, copy, due, ref) ==
    [Rest EXCEPT !.at = at, !.method = method, !.copy = copy, !.due = due, !.ref = ref]

LEMMA FreshRequest ==
    ASSUME NEW at \in Points, NEW method \in Methods, NEW copy \in Order, NEW due \in Nat,
           NEW ref \in Refs \cup {NoRef},
           NEW r, r = Fresh(at, method, copy, due, ref)
    PROVE  IsRequest(r)
<1>1. DOMAIN <<>> = {}
  OBVIOUS
<1>2. r \in RequestOver(<<>>, {})
  BY RestFields DEF RequestOver, Fresh
<1>3. r.wrote = <<>> /\ r.legs = <<>>
  BY RestFields DEF RequestOver, Fresh
<1> QED
  BY <1>1, <1>2, <1>3 DEF IsRequest

-----------------------------------------------------------------------------
(* Steps of one request that change nothing but the request.               *)

\* What is said of a request depends on the order and the tenders only.
LEMMA StillSound ==
    ASSUME NEW r, RequestSound(r), order' = order, tenders' = tenders
    PROVE  RequestSound(r)' /\ SeenOrder(r)' = SeenOrder(r)
<1>1. SeenOrder(r)' = SeenOrder(r)
  BY DEF SeenOrder
<1>2. \A t : Voiding(r, t)' <=> Voiding(r, t)
  BY DEF Voiding
<1>3. \A ref : Known(ref)' <=> Known(ref)
  BY DEF Known
<1>4. \A t : Tendering(r, t)' <=> Tendering(r, t)
  BY <1>3 DEF Tendering
<1> QED
  BY <1>1, <1>2, <1>4 DEF RequestSound, PriceKept

LEMMA RequestStep ==
    ASSUME LedgerInv, NEW w \in Requests, NEW r,
           IsRequest(r), SeenOrder(r) \in Order, RequestSound(r),
           r.locks => req[w].locks \/ CanLock(w),
           req' = [req EXCEPT ![w] = r], UNCHANGED <<order, tenders, settled, drifted>>
    PROVE  LedgerInv'
<1>1. /\ req' = [v \in Requests |-> req'[v]] /\ req'[w] = r
      /\ \A v \in Requests \ {w} : req'[v] = req[v]
  BY DEF LedgerInv, TypeOK
<1>2. ASSUME NEW v \in Requests
      PROVE  IsRequest(req'[v]) /\ SeenOrder(req'[v]) \in Order /\ RequestSound(req'[v])
  BY <1>1 DEF LedgerInv, TypeOK
<1>3. ASSUME NEW v \in Requests
      PROVE  RequestSound(req[v])' /\ SeenOrder(req[v])' \in Order
  BY <1>2, StillSound
<1>4. TypeOK'
  BY <1>1, <1>2, <1>3 DEF LedgerInv, TypeOK, IsRequest
<1>5. OneLock'
  <2> SUFFICES ASSUME NEW u \in Requests, NEW v \in Requests, req'[u].locks, req'[v].locks
               PROVE  u = v
    BY DEF OneLock
  <2>1. \A x \in Requests \ {w} : r.locks => ~req[x].locks
    BY DEF LedgerInv, OneLock, CanLock
  <2> QED
    BY <1>1, <2>1 DEF LedgerInv, OneLock
<1>6. PriceKept(order)' /\ PaymentRecordedOnce'
  BY DEF LedgerInv, PriceKept, PaymentRecordedOnce
<1> QED
  BY <1>3, <1>4, <1>5, <1>6 DEF LedgerInv

\* The request thinks: what it has written stays as it is.
LEMMA ThinkStep ==
    ASSUME LedgerInv, NEW w \in Requests, NEW r, IsRequest(r),
           req[w].at # "done",
           r.wrote = req[w].wrote, r.legs = req[w].legs, r.locks = req[w].locks,
           PriceKept(r.copy),
           r.at \in {"record", "gateway", "discount"} => r.due \in Amounts,
           \A t \in r.todo : tenders[t] # NoTender,
           r.todo # {} => r.at \in {"void_upi", "cancel"},
           r.at \in {"upi", "gateway", "record"} => r.save = {},
           r.save = PriceColumns \/ r.save \cap PriceColumns = {},
           req' = [req EXCEPT ![w] = r], UNCHANGED <<order, tenders, settled, drifted>>
    PROVE  LedgerInv'
<1>1. SeenOrder(r) = SeenOrder(req[w])
  BY DEF SeenOrder
<1>2. RequestSound(req[w]) /\ SeenOrder(req[w]) \in Order
  BY DEF LedgerInv, TypeOK
<1>3. \A t \in DOMAIN r.legs : Voiding(r, t)
  BY <1>2 DEF RequestSound, Tendering, Voiding
<1>4. RequestSound(r)
  BY <1>1, <1>2, <1>3 DEF RequestSound
<1> QED
  BY <1>1, <1>2, <1>4, RequestStep

\* The request begins, or is over.
LEMMA FreshStep ==
    ASSUME LedgerInv, NEW w \in Requests, NEW r, IsRequest(r),
           r.todo = {}, r.save = {}, DOMAIN r.wrote = {}, DOMAIN r.legs = {}, r.locks = FALSE,
           PriceKept(r.copy),
           r.at \in {"record", "gateway", "discount"} => r.due \in Amounts,
           req' = [req EXCEPT ![w] = r], UNCHANGED <<order, tenders, settled, drifted>>
    PROVE  LedgerInv'
<1>1. order \in Order /\ PriceKept(order)
  BY DEF LedgerInv, TypeOK
<1>2. SeenOrder(r) = order
  BY <1>1 DEF SeenOrder, Order
<1>3. RequestSound(r)
  BY <1>1, <1>2 DEF RequestSound
<1> QED
  BY <1>1, <1>2, <1>3, RequestStep

LEMMA RestStep ==
    ASSUME LedgerInv, NEW w \in Requests, req' = [req EXCEPT ![w] = Rest],
           UNCHANGED <<order, tenders, settled, drifted>>
    PROVE  LedgerInv'
<1>1. DOMAIN <<>> = {}
  OBVIOUS
<1>2. IsRequest(Rest)
  BY <1>1, RestFields DEF IsRequest
<1>3. PriceKept(Rest.copy)
  BY RestFields, NewOrderSound
<1> QED
  BY <1>1, <1>2, <1>3, RestFields, FreshStep

LEMMA BeginStep ==
    ASSUME LedgerInv, NEW w \in Requests, BeginNext(w)
    PROVE  LedgerInv'
<1>1. PICK at \in Points, method \in Methods, due \in Nat, ref \in Refs \cup {NoRef} :
         /\ Begin(w, at, method, due, ref)
         /\ at \in {"record", "gateway", "discount"} => due \in Amounts
  BY PriceAssumption DEF BeginNext, TakeCashTender, TakeUpiTender, SettleGatewayPayment,
     VoidSale, ApplyManualDiscount, ExpireStaleOrder, Points, Methods, Amounts
<1>2. PICK r :
         /\ r = Fresh(at, method, order, due, ref)
         /\ req' = [req EXCEPT ![w] = r] /\ UNCHANGED <<order, tenders, settled, drifted>>
  BY <1>1 DEF Begin, Fresh
<1>3. order \in Order /\ PriceKept(order)
  BY DEF LedgerInv, TypeOK
<1>4. at \in Points /\ method \in Methods /\ due \in Nat /\ ref \in Refs \cup {NoRef}
  OBVIOUS
<1>5. IsRequest(r)
  BY <1>2, <1>3, <1>4, FreshRequest
<1>6. /\ r.at = at /\ r.copy = order /\ r.due = due /\ r.todo = {} /\ r.save = {}
      /\ r.wrote = <<>> /\ r.legs = <<>> /\ r.locks = FALSE
  BY <1>2, RestFields DEF RequestOver, Fresh
<1>7. DOMAIN <<>> = {}
  OBVIOUS
<1> QED
  BY <1>1, <1>2, <1>3, <1>5, <1>6, <1>7, FreshStep

\* A request that has read or decided something.
LEMMA Thought ==
    ASSUME NEW q, IsRequest(q), NEW r,
           \/ \E at \in Points, due \in Nat : r = [q EXCEPT !.at = at, !.due = due]
           \/ \E at \in Points, todo \in SUBSET Ids : r = [q EXCEPT !.at = at, !.todo = todo]
           \/ \E at \in Points, copy \in Order, save \in SUBSET Columns :
                r = [q EXCEPT !.at = at, !.save = save, !.copy = copy]
    PROVE  IsRequest(r) /\ r.wrote = q.wrote /\ r.legs = q.legs /\ r.locks = q.locks
<1>1. q \in RequestOver(q.wrote, DOMAIN q.legs)
  BY DEF IsRequest
<1>2. r \in RequestOver(q.wrote, DOMAIN q.legs)
  <2>1. CASE \E at \in Points, due \in Nat : r = [q EXCEPT !.at = at, !.due = due]
    BY <1>1, <2>1 DEF RequestOver
  <2>2. CASE \E at \in Points, todo \in SUBSET Ids : r = [q EXCEPT !.at = at, !.todo = todo]
    BY <1>1, <2>2 DEF RequestOver
  <2>3. CASE \E at \in Points, copy \in Order, save \in SUBSET Columns :
               r = [q EXCEPT !.at = at, !.save = save, !.copy = copy]
    BY <1>1, <2>3 DEF RequestOver
  <2> QED  BY <2>1, <2>2, <2>3
<1>3. r.wrote = q.wrote /\ r.legs = q.legs /\ r.locks = q.locks
  BY <1>1 DEF RequestOver
<1> QED
  BY <1>2, <1>3 DEF IsRequest

\* What holds of a request and its order.
LEMMA Sound ==
    ASSUME LedgerInv, NEW w \in Requests
    PROVE  /\ IsRequest(req[w]) /\ SeenOrder(req[w]) \in Order /\ RequestSound(req[w])
           /\ order \in Order /\ PriceKept(order)
           /\ tenders \in Ledgers
BY DEF LedgerInv, TypeOK, Ledgers

LEMMA ReadBalanceStep ==
    ASSUME LedgerInv, NEW w \in Requests, ReadBalance(w)
    PROVE  LedgerInv'
<1> DEFINE q == req[w]
           outstanding == BalanceDue(q.copy, tenders)
           due == IF q.at = "gateway" /\ q.due < outstanding THEN q.due ELSE outstanding
<1>1. PICK r :
         /\ r = [q EXCEPT !.at = "record", !.due = due]
         /\ req' = [req EXCEPT ![w] = r] /\ UNCHANGED <<order, tenders, settled, drifted>>
  BY DEF ReadBalance
<1>2. IsRequest(q) /\ RequestSound(q) /\ q.at \in {"upi", "gateway"} /\ outstanding > 0
  BY Sound DEF ReadBalance
<1>3. q.copy \in Order /\ PriceKept(q.copy) /\ AmountPaid(tenders) \in Nat
  BY <1>2, Sound, RequestFields, CapturedSound DEF RequestSound
<1>4. outstanding \in Amounts
  BY <1>2, <1>3, PriceAssumption DEF BalanceDue, AtLeastZero, Amounts, PriceKept, Order
<1>5. due \in Amounts /\ due \in Nat
  BY <1>2, <1>4, PriceAssumption DEF RequestSound, Amounts
<1> HIDE DEF due
<1>6. "record" \in Points
  BY DEF Points
<1>7. IsRequest(r) /\ r.wrote = q.wrote /\ r.legs = q.legs /\ r.locks = q.locks
  BY <1>1, <1>2, <1>5, <1>6, Thought
<1>8. r.at = "record" /\ r.due = due /\ r.copy = q.copy /\ r.todo = q.todo /\ r.save = q.save
  BY <1>1, <1>2 DEF IsRequest, RequestOver
<1>9. q.todo = {} /\ q.save = {}
  BY <1>2 DEF RequestSound
<1> QED
  BY <1>1, <1>2, <1>3, <1>5, <1>7, <1>8, <1>9, ThinkStep DEF RequestSound

\* The legs a void reads are in the ledger.
LEMMA CapturedByExists ==
    ASSUME LedgerInv, NEW w \in Requests, NEW method, req[w].at # "done"
    PROVE  /\ CapturedBy(w, method) \in SUBSET Ids
           /\ \A t \in CapturedBy(w, method) : tenders[t] # NoTender
<1>1. ASSUME NEW t \in Ids, SeenTenders(req[w])[t].status = "captured"
      PROVE  tenders[t] # NoTender
  <2>1. CASE t \in DOMAIN req[w].legs
    BY <2>1, Sound DEF RequestSound, Tendering, Voiding
  <2>2. CASE t \notin DOMAIN req[w].legs
    BY <1>1, <2>2 DEF SeenTenders, NoTender
  <2> QED  BY <2>1, <2>2
<1> QED
  BY <1>1 DEF CapturedBy, Captured

\* The request reads the legs it is going to void.
LEMMA ReadLegsStep ==
    ASSUME LedgerInv, NEW w \in Requests, ReadCashLegs(w) \/ ReadUpiLegs(w)
    PROVE  LedgerInv'
<1> DEFINE q == req[w]
<1>1. q.at \in {"void", "void_upi"}
  BY DEF ReadCashLegs, ReadUpiLegs
<1>0. PICK at \in {"void_upi", "cancel"}, method \in Methods :
          /\ req' = [req EXCEPT ![w] = [q EXCEPT !.at = at, !.todo = CapturedBy(w, method)]]
          /\ UNCHANGED <<order, tenders, settled, drifted>>
  BY DEF ReadCashLegs, ReadUpiLegs, Methods
<1>2. PICK r :
         /\ r = [q EXCEPT !.at = at, !.todo = CapturedBy(w, method)]
         /\ req' = [req EXCEPT ![w] = r] /\ UNCHANGED <<order, tenders, settled, drifted>>
  BY <1>0
<1> DEFINE todo == CapturedBy(w, method)
<1>3. IsRequest(q) /\ RequestSound(q)
  BY Sound
<1>4. /\ at \in Points
      /\ todo \in SUBSET Ids /\ \A t \in todo : tenders[t] # NoTender
  BY <1>1, CapturedByExists DEF Points
<1> HIDE DEF todo
<1>5. IsRequest(r) /\ r.wrote = q.wrote /\ r.legs = q.legs /\ r.locks = q.locks
  BY <1>2, <1>3, <1>4, Thought DEF todo
<1>6. r.at = at /\ r.todo = todo /\ r.copy = q.copy /\ r.save = q.save
  BY <1>2, <1>3 DEF IsRequest, RequestOver, todo
<1> QED
  BY <1>1, <1>2, <1>3, <1>4, <1>5, <1>6, ThinkStep DEF RequestSound

\* The request has changed its copy and is going to save it.
LEMMA CopyStep ==
    ASSUME LedgerInv, NEW w \in Requests, req[w].at # "done", req[w].todo = {},
           NEW at \in {"done", "expired"}, NEW copy \in Order, NEW save \in SUBSET Columns,
           PriceKept(copy), save = PriceColumns \/ save \cap PriceColumns = {},
           req' = [req EXCEPT ![w] = [req[w] EXCEPT !.at = at, !.save = save, !.copy = copy]],
           UNCHANGED <<order, tenders, settled, drifted>>
    PROVE  LedgerInv'
<1> DEFINE q == req[w]
<1>1. PICK r :
         /\ r = [q EXCEPT !.at = at, !.save = save, !.copy = copy]
         /\ req' = [req EXCEPT ![w] = r]
  OBVIOUS
<1>2. IsRequest(q) /\ RequestSound(q)
  BY Sound
<1>3. at \in Points
  BY DEF Points
<1>4. IsRequest(r) /\ r.wrote = q.wrote /\ r.legs = q.legs /\ r.locks = q.locks
  BY <1>1, <1>2, <1>3, Thought
<1>5. r.at = at /\ r.todo = {} /\ r.copy = copy /\ r.save = save
  BY <1>1, <1>2 DEF IsRequest, RequestOver
<1> QED
  BY <1>1, <1>4, <1>5, ThinkStep

LEMMA CancelOrderStep ==
    ASSUME LedgerInv, NEW w \in Requests, CancelOrder(w) \/ ExpireCancel(w)
    PROVE  LedgerInv'
<1>1. PICK o \in {SeenOrder(req[w]), req[w].copy} :
         /\ req[w].at # "done"
         /\ req' = [req EXCEPT ![w] =
              [req[w] EXCEPT !.at = "done", !.save = {"status"},
                             !.copy = [o EXCEPT !.status = "cancelled"]]]
         /\ UNCHANGED <<order, tenders, settled, drifted>>
  BY DEF CancelOrder, ExpireCancel
<1>2. req[w].todo = {}
  BY Sound DEF RequestSound, CancelOrder, ExpireCancel
<1>3. o \in Order /\ PriceKept(o)
  BY Sound, RequestFields DEF RequestSound
<1> DEFINE copy == [o EXCEPT !.status = "cancelled"]
<1>4. copy \in Order /\ PriceKept(copy)
  BY <1>3 DEF Order, PriceKept
<1>5. {"status"} \in SUBSET Columns /\ {"status"} \cap PriceColumns = {}
  BY DEF Columns, PriceColumns
<1> HIDE DEF copy
<1>6. req' = [req EXCEPT ![w] =
                [req[w] EXCEPT !.at = "done", !.save = {"status"}, !.copy = copy]]
  BY <1>1 DEF copy
<1> QED
  BY <1>1, <1>2, <1>4, <1>5, <1>6, CopyStep

LEMMA DiscountStep ==
    ASSUME LedgerInv, NEW w \in Requests, Discount(w)
    PROVE  LedgerInv'
<1> DEFINE o == req[w].copy
           off == req[w].due
           total == o.grand_total + o.manual_discount - off
           copy == [o EXCEPT !.grand_total = total, !.manual_discount = off]
<1>1. /\ req[w].at = "discount" /\ UNCHANGED <<order, tenders, settled, drifted>>
      /\ req' = [req EXCEPT ![w] =
           [req[w] EXCEPT !.at = "done", !.save = PriceColumns, !.copy = copy]]
  BY DEF Discount, PriceColumns
<1>2. req[w].todo = {} /\ req[w].due \in Amounts
  BY <1>1, Sound DEF RequestSound
<1>3. o \in Order /\ PriceKept(o)
  BY Sound, RequestFields DEF RequestSound
<1>4. /\ off \in Int /\ total \in Int
      /\ off \in 0 .. Price /\ total + off = Price
  BY <1>2, <1>3, PriceAssumption DEF Order, Amounts, PriceKept
<1> HIDE DEF off, total
<1>5. copy \in Order /\ PriceKept(copy)
  BY <1>3, <1>4 DEF Order, PriceKept
<1>6. PriceColumns \in SUBSET Columns
  BY DEF Columns, PriceColumns
<1> HIDE DEF copy
<1> QED
  BY <1>1, <1>2, <1>5, <1>6, CopyStep

LEMMA ExpirePaymentStep ==
    ASSUME LedgerInv, NEW w \in Requests, ExpirePayment(w)
    PROVE  LedgerInv'
<1> DEFINE o == req[w].copy
           copy == [o EXCEPT !.payment_status = "failed"]
           save == Changed(o, copy)
<1>1. /\ req[w].at = "expire" /\ UNCHANGED <<order, tenders, settled, drifted>>
      /\ req' = [req EXCEPT ![w] =
           [req[w] EXCEPT !.at = "expired", !.save = save, !.copy = copy]]
  BY DEF ExpirePayment
<1>2. req[w].todo = {}
  BY <1>1, Sound DEF RequestSound
<1>3. o \in Order /\ PriceKept(o)
  BY Sound, RequestFields DEF RequestSound
<1>4. copy \in Order /\ PriceKept(copy)
  BY <1>3 DEF Order, PriceKept
<1>5. save \in SUBSET Columns /\ save \cap PriceColumns = {}
  BY <1>3 DEF Changed, PriceColumns, Order
<1> HIDE DEF copy, save
<1> QED
  BY <1>1, <1>2, <1>4, <1>5, CopyStep

-----------------------------------------------------------------------------
(* Steps that write.                                                       *)

LEMMA SaveOrderStep ==
    ASSUME LedgerInv, NEW w \in Requests, SaveOrder(w)
    PROVE  LedgerInv'
<1> DEFINE q == req[w]
           wrote == Put(q.wrote, q.save, q.copy)
<1>1. PICK r :
         /\ r = [q EXCEPT !.wrote = wrote, !.save = {}, !.locks = TRUE]
         /\ req' = [req EXCEPT ![w] = r] /\ UNCHANGED <<order, tenders, settled, drifted>>
  BY DEF SaveOrder
<1>2. q.save # {} /\ CanLock(w)
  BY DEF SaveOrder
<1>3. /\ IsRequest(q) /\ RequestSound(q) /\ SeenOrder(q) \in Order
      /\ q.copy \in Order /\ q.save \in SUBSET Columns /\ DOMAIN q.wrote \in SUBSET Columns
      /\ DOMAIN q.legs \in SUBSET Ids
  BY Sound, RequestFields
<1>4. /\ DOMAIN wrote = DOMAIN q.wrote \cup q.save
      /\ \A c \in DOMAIN wrote : wrote[c] = IF c \in q.save THEN q.copy[c] ELSE q.wrote[c]
  BY DEF Put
<1> HIDE DEF wrote
<1>5. /\ r.at = q.at /\ r.copy = q.copy /\ r.due = q.due /\ r.todo = q.todo /\ r.save = {}
      /\ r.wrote = wrote /\ r.legs = q.legs /\ r.locks = TRUE
  BY <1>1, <1>3 DEF IsRequest, RequestOver
<1>6. IsRequest(r)
  <2>1. r \in RequestOver(wrote, DOMAIN q.legs)
    BY <1>1, <1>3 DEF IsRequest, RequestOver
  <2> QED  BY <2>1, <1>3, <1>4, <1>5 DEF IsRequest
<1> DEFINE seen == SeenOrder(q)
           over == [c \in DOMAIN seen |-> IF c \in q.save THEN q.copy[c] ELSE seen[c]]
<1>7. DOMAIN seen = DOMAIN order /\ DOMAIN order = Columns \cup {"carry_away"}
  BY Sound DEF SeenOrder, Order, Columns
<1>8. SeenOrder(r) = over
  <2>1. ASSUME NEW c \in DOMAIN order
        PROVE  (IF c \in DOMAIN r.wrote THEN r.wrote[c] ELSE order[c])
                 = IF c \in q.save THEN q.copy[c] ELSE seen[c]
    BY <1>4, <1>5 DEF SeenOrder
  <2> QED  BY <2>1, <1>7 DEF SeenOrder
<1>9. over \in Order /\ PriceKept(over)
  <2>1. PriceColumns \subseteq q.save \/ q.save \cap PriceColumns = {}
    BY <1>3 DEF RequestSound
  <2>2. seen \in Order /\ PriceKept(seen) /\ PriceKept(q.copy)
    BY <1>3 DEF RequestSound
  <2> HIDE DEF seen
  <2> QED  BY <1>3, <2>1, <2>2, Overwritten
<1>10. ASSUME NEW t \in DOMAIN r.legs
       PROVE  Voiding(r, t)
  BY <1>2, <1>3, <1>5 DEF RequestSound, Tendering, Voiding
<1>11. RequestSound(r)
  BY <1>3, <1>5, <1>8, <1>9, <1>10 DEF RequestSound
<1> QED
  BY <1>1, <1>2, <1>6, <1>8, <1>9, <1>11, RequestStep

LEMMA VoidTenderStep ==
    ASSUME LedgerInv, NEW w \in Requests, NEW t \in Ids, VoidTender(w, t)
    PROVE  LedgerInv'
<1> DEFINE q == req[w]
           leg == [SeenTenders(q)[t] EXCEPT !.status = "voided"]
           ledger == [SeenTenders(q) EXCEPT ![t] = leg]
           synced == Synced(q.copy, ledger)
           save == Changed(q.copy, synced)
           paid == q.paid \/ Settles(q.copy, ledger)
           legs == Put(q.legs, {t}, [u \in {t} |-> leg])
<1>1. PICK r :
         /\ r = [q EXCEPT !.todo = q.todo \ {t}, !.legs = legs, !.copy = synced,
                          !.save = save, !.paid = paid]
         /\ req' = [req EXCEPT ![w] = r] /\ UNCHANGED <<order, tenders, settled, drifted>>
  BY DEF VoidTender
<1>2. t \in q.todo /\ q.save = {}
  BY DEF VoidTender
<1>3. /\ IsRequest(q) /\ RequestSound(q) /\ SeenOrder(q) \in Order
      /\ q.copy \in Order /\ q.todo \in SUBSET Ids /\ DOMAIN q.wrote \in SUBSET Columns
      /\ DOMAIN q.legs \in SUBSET Ids /\ q.legs \in [DOMAIN q.legs -> Leg] /\ q.paid \in BOOLEAN
      /\ tenders \in Ledgers
  BY Sound, RequestFields
<1>4. q.at \in {"void_upi", "cancel"} /\ tenders[t] # NoTender /\ tenders[t] \in Leg
  BY <1>2, <1>3 DEF RequestSound, Ledgers
<1>5. \A u \in DOMAIN q.legs : Voiding(q, u)
  BY <1>3, <1>4 DEF RequestSound, Tendering
<1>6. leg = [tenders[t] EXCEPT !.status = "voided"] /\ leg \in Leg
  <2>1. SeenTenders(q)[t] \in {tenders[t], [tenders[t] EXCEPT !.status = "voided"]}
    BY <1>5 DEF SeenTenders, Voiding
  <2> QED  BY <2>1, <1>4, LegFields DEF Voided
<1> HIDE DEF leg, ledger
<1>7. /\ DOMAIN legs = DOMAIN q.legs \cup {t} /\ legs[t] = leg
      /\ \A u \in DOMAIN q.legs : u # t => legs[u] = q.legs[u]
  BY DEF Put
<1>8. legs \in [DOMAIN q.legs \cup {t} -> Leg]
  BY <1>3, <1>6 DEF Put
<1>9. synced \in Order /\ PriceKept(synced)
      /\ save \in SUBSET Columns /\ save \cap PriceColumns = {}
  BY <1>3, SyncedSound DEF RequestSound, PriceKept
<1>10. paid \in BOOLEAN
  OBVIOUS
<1> HIDE DEF synced, save, paid, legs
<1>11. /\ r.at = q.at /\ r.copy = synced /\ r.due = q.due /\ r.todo = q.todo \ {t}
       /\ r.save = save /\ r.wrote = q.wrote /\ r.legs = legs /\ r.locks = q.locks
  BY <1>1, <1>3 DEF IsRequest, RequestOver
<1>12. IsRequest(r)
  <2>1. q \in RequestOver(q.wrote, DOMAIN q.legs)
    BY <1>3 DEF IsRequest
  <2>2. r \in RequestOver(q.wrote, DOMAIN q.legs \cup {t})
    BY <1>1, <1>8, <1>9, <1>10, <2>1 DEF RequestOver
  <2> QED  BY <2>2, <1>3, <1>7, <1>11 DEF IsRequest
<1>13. SeenOrder(r) = SeenOrder(q)
  BY <1>11 DEF SeenOrder
<1>14. ASSUME NEW u \in DOMAIN r.legs
       PROVE  Voiding(r, u)
  <2>1. CASE u = t
    BY <1>4, <1>6, <1>7, <1>11, <2>1 DEF Voiding
  <2>2. CASE u # t
    <3>1. u \in DOMAIN q.legs /\ r.legs[u] = q.legs[u]
      BY <1>7, <1>11, <2>2
    <3> QED  BY <1>5, <3>1 DEF Voiding
  <2> QED  BY <2>1, <2>2
<1>15. RequestSound(r)
  BY <1>3, <1>4, <1>9, <1>11, <1>13, <1>14 DEF RequestSound
<1> QED
  BY <1>1, <1>3, <1>11, <1>12, <1>13, <1>15, RequestStep

LEMMA RecordTenderStep ==
    ASSUME LedgerInv, NEW w \in Requests, RecordTender(w)
    PROVE  LedgerInv'
<1> DEFINE q == req[w]
           Made(t) == [status |-> "captured", method |-> q.method, amount |-> q.due, ref |-> q.ref]
           ledger(t) == [tenders EXCEPT ![t] = Made(t)]
           synced(t) == Synced(order, ledger(t))
           wrote(t) == [c \in Changed(order, synced(t)) |-> synced(t)[c]]
           legs(t) == [u \in {t} |-> Made(t)]
           paid(t) == Settles(order, ledger(t))
<1>1. /\ q.at = "record" /\ CanLock(w) /\ ~Known(q.ref) /\ q.due <= BalanceDue(order, tenders)
      /\ UNCHANGED <<order, tenders, settled, drifted>>
  BY DEF RecordTender
<1>0. PICK t \in FreshId :
          req' = [req EXCEPT ![w] =
            [q EXCEPT !.at = "done", !.locks = TRUE, !.copy = synced(t), !.legs = legs(t),
                      !.wrote = wrote(t), !.paid = paid(t), !.overtaken = FALSE]]
  BY DEF RecordTender
<1>2. PICK r :
         /\ r = [q EXCEPT !.at = "done", !.locks = TRUE, !.copy = synced(t), !.legs = legs(t),
                          !.wrote = wrote(t), !.paid = paid(t), !.overtaken = FALSE]
         /\ req' = [req EXCEPT ![w] = r]
  BY <1>0
<1>3. /\ IsRequest(q) /\ RequestSound(q) /\ order \in Order /\ PriceKept(order)
      /\ q.method \in Methods /\ q.due \in Amounts /\ q.ref \in Refs \cup {NoRef}
      /\ tenders \in Ledgers
  BY <1>1, Sound, RequestFields DEF RequestSound
<1>4. t \in Ids /\ tenders[t] = NoTender
  BY DEF FreshId
<1>5. Made(t) \in Leg /\ Made(t).status = "captured" /\ Made(t).amount = q.due /\ Made(t).ref = q.ref
  BY <1>3 DEF Leg
<1>6. /\ synced(t) \in Order /\ PriceKept(synced(t))
      /\ Changed(order, synced(t)) \in SUBSET Columns
      /\ Changed(order, synced(t)) \cap PriceColumns = {}
  BY <1>3, SyncedSound DEF PriceKept
<1>7. paid(t) \in BOOLEAN
  BY DEF Settles
<1> HIDE DEF Made, ledger, synced, paid
<1>8. legs(t) \in [{t} -> Leg] /\ DOMAIN legs(t) = {t} /\ legs(t)[t] = Made(t)
  BY <1>5
<1>9. DOMAIN wrote(t) = Changed(order, synced(t))
  OBVIOUS
<1>10. \A c \in DOMAIN wrote(t) : wrote(t)[c] = synced(t)[c]
  OBVIOUS
<1> HIDE DEF wrote, legs
<1>11. /\ r.at = "done" /\ r.copy = synced(t) /\ r.due = q.due /\ r.todo = q.todo
       /\ r.save = q.save /\ r.wrote = wrote(t) /\ r.legs = legs(t) /\ r.locks = TRUE
  BY <1>2, <1>3 DEF IsRequest, RequestOver
<1>12. IsRequest(r)
  <2>1. q \in RequestOver(q.wrote, DOMAIN q.legs) /\ "done" \in Points
    BY <1>3 DEF IsRequest, Points
  <2>2. r \in RequestOver(wrote(t), {t})
    BY <1>2, <1>6, <1>7, <1>8, <2>1 DEF RequestOver
  <2> QED  BY <2>2, <1>4, <1>6, <1>8, <1>9, <1>11 DEF IsRequest
<1>13. SeenOrder(r) \in Order /\ PriceKept(SeenOrder(r))
  <2> DEFINE S == Changed(order, synced(t))
             over == [c \in DOMAIN order |-> IF c \in S THEN synced(t)[c] ELSE order[c]]
  <2>1. SeenOrder(r) = over
    BY <1>9, <1>10, <1>11 DEF SeenOrder
  <2> HIDE DEF S
  <2>2. over \in Order /\ PriceKept(over)
    BY <1>3, <1>6, Overwritten DEF S
  <2> QED  BY <2>1, <2>2
<1>14. q.todo = {} /\ q.save = {}
  BY <1>1, <1>3 DEF RequestSound
<1>15. AmountPaid(tenders) + q.due <= order.grand_total
  <2>1. AmountPaid(tenders) \in Nat
    BY <1>3, CapturedSound
  <2> QED
    BY <1>1, <1>3, <2>1, PriceAssumption DEF BalanceDue, AtLeastZero, Amounts, Order
<1>16. Tendering(r, t)
  BY <1>1, <1>4, <1>5, <1>6, <1>8, <1>9, <1>11, <1>14, <1>15 DEF Tendering
<1>17. RequestSound(r)
  BY <1>6, <1>8, <1>11, <1>13, <1>14, <1>16 DEF RequestSound
<1> QED
  BY <1>1, <1>2, <1>12, <1>13, <1>17, RequestStep

-----------------------------------------------------------------------------
(* COMMIT.                                                                 *)

\* A commit of voids only.
OnlyVoids ==
    \A t \in Ids :
        \/ tenders'[t] = tenders[t]
        \/ tenders[t] # NoTender /\ tenders'[t] = Voided(tenders[t])

\* A commit of the new tender t.
NewTender(r, t) ==
    /\ t \in Ids /\ Tendering(r, t) /\ r.legs[t] \in Leg
    /\ tenders' = [tenders EXCEPT ![t] = r.legs[t]]
    /\ order'.grand_total = order.grand_total

\* What a commit does to the order.
LEMMA CommitOrder ==
    ASSUME LedgerInv, NEW w \in Requests, Commit(w)
    PROVE  /\ order' \in Order /\ PriceKept(order')
           /\ ~req[w].locks => order' = order
           /\ DOMAIN req[w].wrote \cap PriceColumns = {} => order'.grand_total = order.grand_total
<1>1. order' = SeenOrder(req[w])
  BY DEF Commit
<1>2. /\ SeenOrder(req[w]) \in Order /\ RequestSound(req[w]) /\ order \in Order
      /\ PriceKept(SeenOrder(req[w]))
  BY Sound DEF RequestSound
<1>3. ~req[w].locks => SeenOrder(req[w]) = order
  BY <1>2 DEF RequestSound, SeenOrder, Order
<1>4. DOMAIN req[w].wrote \cap PriceColumns = {}
        => SeenOrder(req[w]).grand_total = order.grand_total
  BY <1>2 DEF SeenOrder, PriceColumns, Order
<1> QED
  BY <1>1, <1>2, <1>3, <1>4

\* What a commit does to the ledger.
LEMMA CommitLedger ==
    ASSUME LedgerInv, NEW w \in Requests, Commit(w)
    PROVE  /\ tenders' \in Ledgers
           /\ OnlyVoids \/ \E t : NewTender(req[w], t)
           /\ ~req[w].locks => OnlyVoids
<1> DEFINE r == req[w]
<1>1. tenders' = [t \in Ids |-> IF t \in DOMAIN r.legs THEN r.legs[t] ELSE tenders[t]]
  BY DEF Commit, SeenTenders
<1>2. /\ DOMAIN r.legs \in SUBSET Ids /\ r.legs \in [DOMAIN r.legs -> Leg]
      /\ tenders \in Ledgers /\ RequestSound(r)
  BY Sound, RequestFields
<1>3. tenders' \in Ledgers
  BY <1>1, <1>2 DEF Ledgers
<1>4. CASE \A t \in DOMAIN r.legs : Voiding(r, t)
  <2>1. OnlyVoids
    BY <1>1, <1>2, <1>4 DEF OnlyVoids, Voiding, Voided
  <2> QED  BY <1>3, <2>1
<1>5. CASE \E t \in DOMAIN r.legs : ~Voiding(r, t)
  <2>1. PICK t \in DOMAIN r.legs : Tendering(r, t)
    BY <1>2, <1>5 DEF RequestSound
  <2>2. DOMAIN r.legs = {t} /\ t \in Ids /\ r.legs[t] \in Leg /\ r.locks
        /\ DOMAIN r.wrote \cap PriceColumns = {}
    BY <1>2, <2>1 DEF Tendering
  <2>3. tenders' = [tenders EXCEPT ![t] = r.legs[t]]
    BY <1>1, <1>2, <2>2 DEF Ledgers
  <2>4. NewTender(r, t)
    BY <2>1, <2>2, <2>3, CommitOrder DEF NewTender
  <2> QED  BY <1>3, <2>2, <2>4
<1> QED
  BY <1>4, <1>5

\* What a commit does to what is paid: it lowers it, or keeps it within the total.
LEMMA CommitMoney ==
    ASSUME LedgerInv, NEW w \in Requests, Commit(w)
    PROVE  /\ AmountPaid(tenders) \in Nat /\ AmountPaid(tenders') \in Nat
           /\ OnlyVoids => AmountPaid(tenders') <= AmountPaid(tenders)
           /\ \/ AmountPaid(tenders') <= AmountPaid(tenders)
              \/ AmountPaid(tenders') <= order'.grand_total
<1>1. tenders \in Ledgers /\ tenders' \in Ledgers
  BY Sound, CommitLedger
<1>2. AmountPaid(tenders) \in Nat /\ AmountPaid(tenders') \in Nat
  BY <1>1, CapturedSound
<1>3. ASSUME OnlyVoids
      PROVE  AmountPaid(tenders') <= AmountPaid(tenders)
  <2>1. ASSUME NEW t \in Ids, tenders[t] # NoTender
        PROVE  Voided(tenders[t]).status = "voided"
    BY <1>1, <2>1, LegFields DEF Ledgers
  <2>2. \A t \in Ids : tenders'[t] = tenders[t] \/ tenders'[t].status = "voided"
    BY <1>3, <2>1 DEF OnlyVoids
  <2> QED  BY <1>1, <2>2, VoidsLower
<1>4. ASSUME NEW t, NewTender(req[w], t)
      PROVE  AmountPaid(tenders') <= order'.grand_total
  <2> DEFINE leg == req[w].legs[t]
  <2>1. /\ t \in Ids /\ tenders[t] = NoTender /\ leg \in Leg
        /\ AmountPaid(tenders) + leg.amount <= order.grand_total
        /\ tenders' = [tenders EXCEPT ![t] = leg] /\ order'.grand_total = order.grand_total
    BY <1>4 DEF NewTender, Tendering
  <2>2. leg.status = "captured"
    BY <1>4 DEF NewTender, Tendering
  <2>3. tenders'[t] = leg /\ \A u \in Ids \ {t} : tenders'[u] = tenders[u]
    BY <1>1, <2>1 DEF Ledgers
  <2>4. AmountPaid(tenders') = AmountPaid(tenders) + leg.amount
    BY <1>1, <2>1, <2>2, <2>3, TenderAdds
  <2> QED  BY <2>1, <2>4
<1> QED
  BY <1>2, <1>3, <1>4, CommitLedger

\* No tender is lost by a commit, and an unfinished void of it stays one.
LEMMA CommitKeeps ==
    ASSUME LedgerInv, NEW w \in Requests, Commit(w), NEW t \in Ids, tenders[t] # NoTender
    PROVE  /\ tenders'[t] # NoTender /\ tenders'[t].ref = tenders[t].ref
           /\ Voided(tenders'[t]) = Voided(tenders[t])
<1>1. tenders \in Ledgers /\ tenders[t] \in Leg
  BY Sound DEF Ledgers
<1>2. Voided(tenders[t]) \in Leg
  BY <1>1, LegFields
<1>3. CASE OnlyVoids
  BY <1>1, <1>2, <1>3, LegFields DEF OnlyVoids
<1>4. CASE \E u : NewTender(req[w], u)
  <2>1. tenders'[t] = tenders[t]
    BY <1>1, <1>4 DEF NewTender, Tendering, Ledgers
  <2> QED  BY <2>1
<1> QED
  BY <1>3, <1>4, CommitLedger

\* A commit that only voids leaves free ids free.
LEMMA CommitFree ==
    ASSUME LedgerInv, NEW w \in Requests, Commit(w), OnlyVoids
    PROVE  \A t \in Ids : tenders[t] = NoTender => tenders'[t] = NoTender
BY DEF OnlyVoids

LEMMA CommitOnce ==
    ASSUME LedgerInv, NEW w \in Requests, Commit(w)
    PROVE  PaymentRecordedOnce'
<1>1. PaymentRecordedOnce
  BY DEF LedgerInv
<1> SUFFICES ASSUME NEW t \in Ids, NEW u \in Ids,
                    tenders'[t] # NoTender, tenders'[u] # NoTender,
                    tenders'[t].ref = tenders'[u].ref, tenders'[t].ref # NoRef
             PROVE  t = u
  BY DEF PaymentRecordedOnce
<1>2. CASE OnlyVoids
  BY <1>1, <1>2, CommitFree, CommitKeeps DEF PaymentRecordedOnce
<1>3. CASE \E x : NewTender(req[w], x)
  <2>1. PICK x : NewTender(req[w], x)
    BY <1>3
  <2>2. /\ x \in Ids /\ tenders'[x].ref = req[w].legs[x].ref
        /\ \A y \in Ids \ {x} : tenders'[y] = tenders[y]
    BY <2>1, Sound DEF NewTender, Ledgers
  <2>3. ~Known(req[w].legs[x].ref)
    BY <2>1 DEF NewTender, Tendering
  <2>4. \A y \in Ids \ {x} : tenders[y] # NoTender /\ tenders'[x].ref # NoRef
                               => tenders[y].ref # tenders'[x].ref
    BY <2>2, <2>3 DEF Known
  <2> QED
    BY <1>1, <2>2, <2>4 DEF PaymentRecordedOnce
<1> QED
  BY <1>2, <1>3, CommitLedger

\* The other requests stay sound when request w commits.
LEMMA CommitOthers ==
    ASSUME LedgerInv, NEW w \in Requests, Commit(w), NEW v \in Requests \ {w}, NEW x,
           x = req[v] \/ x = [req[v] EXCEPT !.overtaken = TRUE]
    PROVE  IsRequest(x) /\ SeenOrder(x)' \in Order /\ RequestSound(x)' /\ x.locks = req[v].locks
<1> DEFINE q == req[v]
<1>1. /\ IsRequest(q) /\ RequestSound(q) /\ SeenOrder(q) \in Order
      /\ q.copy \in Order /\ q.todo \in SUBSET Ids /\ DOMAIN q.legs \in SUBSET Ids
      /\ q.locks \in BOOLEAN /\ tenders \in Ledgers
  BY Sound, RequestFields
<1>2. x \in RequestOver(q.wrote, DOMAIN q.legs)
  BY <1>1 DEF IsRequest, RequestOver
<1>3. /\ x.at = q.at /\ x.copy = q.copy /\ x.due = q.due /\ x.todo = q.todo /\ x.save = q.save
      /\ x.wrote = q.wrote /\ x.legs = q.legs /\ x.locks = q.locks
  BY <1>1 DEF IsRequest, RequestOver
<1>4. IsRequest(x)
  BY <1>1, <1>2, <1>3 DEF IsRequest
<1>5. q.locks => ~req[w].locks
  BY DEF LedgerInv, OneLock
<1>6. SeenOrder(x)' \in Order /\ PriceKept(SeenOrder(x)')
  <2>1. CASE q.locks
    <3>1. order' = order
      BY <1>5, <2>1, CommitOrder
    <3>2. SeenOrder(x)' = SeenOrder(q)
      BY <1>3, <3>1 DEF SeenOrder
    <3> QED  BY <1>1, <3>2 DEF RequestSound
  <2>2. CASE ~q.locks
    <3>1. DOMAIN x.wrote = {}
      BY <1>1, <1>3, <2>2 DEF RequestSound
    <3>2. order' \in Order /\ PriceKept(order')
      BY CommitOrder
    <3>3. SeenOrder(x)' = order'
      BY <3>1, <3>2 DEF SeenOrder, Order
    <3> QED  BY <3>2, <3>3
  <2> QED  BY <2>1, <2>2
<1>7. ASSUME NEW t \in DOMAIN x.legs
      PROVE  Voiding(x, t)' \/ Tendering(x, t)'
  <2>1. t \in Ids
    BY <1>1, <1>3
  <2>2. CASE Voiding(q, t)
    <3>1. tenders[t] # NoTender /\ x.legs[t] = Voided(tenders[t])
      BY <1>3, <2>2 DEF Voiding, Voided
    <3>2. tenders'[t] # NoTender /\ x.legs[t] = Voided(tenders'[t])
      BY <2>1, <3>1, CommitKeeps
    <3> QED  BY <3>2 DEF Voiding, Voided
  <2>3. CASE Tendering(q, t)
    <3>1. q.locks /\ ~req[w].locks
      BY <1>5, <2>3 DEF Tendering
    <3>2. order' = order /\ OnlyVoids
      BY <3>1, CommitOrder, CommitLedger
    <3>3. tenders'[t] = NoTender
      BY <2>1, <2>3, <3>2, CommitFree DEF Tendering
    <3>4. ~Known(x.legs[t].ref)'
      <4>1. ~Known(x.legs[t].ref)
        BY <1>3, <2>3 DEF Tendering
      <4>2. \A u \in Ids : tenders'[u] # NoTender
                            => tenders[u] # NoTender /\ tenders'[u].ref = tenders[u].ref
        BY <3>2, CommitFree, CommitKeeps
      <4> QED  BY <4>1, <4>2 DEF Known
    <3>5. q.legs[t].amount \in Nat /\ order.grand_total \in Int
      <4>1. q.legs[t] \in Leg
        BY <1>1, <1>3, RequestFields
      <4> QED  BY <4>1, LegFields, Sound DEF Order
    <3>6. AmountPaid(tenders') + q.legs[t].amount <= order'.grand_total
      BY <2>3, <3>2, <3>5, CommitMoney DEF Tendering
    <3> QED
      BY <1>3, <2>3, <3>3, <3>4, <3>6 DEF Tendering
  <2> QED  BY <1>1, <1>3, <2>2, <2>3 DEF RequestSound
<1>8. \A t \in x.todo : tenders'[t] # NoTender
  BY <1>1, <1>3, CommitKeeps DEF RequestSound
<1>9. RequestSound(x)'
  BY <1>1, <1>3, <1>6, <1>7, <1>8 DEF RequestSound, PriceKept
<1> QED
  BY <1>3, <1>4, <1>6, <1>9

\* Request w itself is at rest after its commit, or, expiring an order, goes on with
\* what it has voided (nothing, in fact) and with nothing written or locked.
LEMMA CommitOwn ==
    ASSUME LedgerInv, NEW w \in Requests, Commit(w), NEW x,
           \/ req[w].at = "done" /\ x = Rest
           \/ /\ req[w].at = "expired"
              /\ x = [req[w] EXCEPT !.at = "expire_cancel", !.wrote = <<>>, !.locks = FALSE]
    PROVE  IsRequest(x) /\ SeenOrder(x)' \in Order /\ RequestSound(x)' /\ x.locks = FALSE
<1> DEFINE q == req[w]
<1>1. DOMAIN <<>> = {}
  OBVIOUS
<1>2. order' \in Order /\ PriceKept(order')
  BY CommitOrder
<1>3. CASE q.at = "done" /\ x = Rest
  <2>1. IsRequest(x)
    BY <1>1, <1>3, RestFields DEF IsRequest
  <2>2. SeenOrder(x)' = order'
    BY <1>1, <1>2, <1>3, RestFields DEF SeenOrder, Order
  <2>3. PriceKept(x.copy)
    BY <1>3, RestFields, NewOrderSound
  <2>4. RequestSound(x)'
    BY <1>1, <1>2, <1>3, <2>2, <2>3, RestFields DEF RequestSound, PriceKept
  <2> QED  BY <1>2, <1>3, <2>1, <2>2, <2>4, RestFields
<1>4. CASE /\ q.at = "expired"
           /\ x = [q EXCEPT !.at = "expire_cancel", !.wrote = <<>>, !.locks = FALSE]
  <2>1. /\ IsRequest(q) /\ RequestSound(q) /\ q.save = {}
        /\ q.todo \in SUBSET Ids /\ DOMAIN q.legs \in SUBSET Ids
    BY Sound, RequestFields DEF Commit
  <2>2. "expire_cancel" \in Points
    BY DEF Points
  <2>3. x \in RequestOver(<<>>, DOMAIN q.legs)
    BY <1>4, <2>1, <2>2 DEF IsRequest, RequestOver
  <2>4. /\ x.at = "expire_cancel" /\ x.copy = q.copy /\ x.todo = q.todo /\ x.save = {}
        /\ x.wrote = <<>> /\ x.legs = q.legs /\ x.locks = FALSE
    BY <1>4, <2>1 DEF IsRequest, RequestOver
  <2>5. IsRequest(x)
    BY <1>1, <2>1, <2>3, <2>4 DEF IsRequest
  <2>6. SeenOrder(x)' = order'
    BY <1>1, <1>2, <2>4 DEF SeenOrder, Order
  <2>7. ASSUME NEW t \in DOMAIN x.legs
        PROVE  Voiding(x, t)'
    <3>1. t \in Ids /\ tenders[t] # NoTender /\ x.legs[t] = Voided(tenders[t])
      BY <1>4, <2>1, <2>4 DEF RequestSound, Tendering, Voiding, Voided
    <3>2. tenders'[t] # NoTender /\ x.legs[t] = Voided(tenders'[t])
      BY <3>1, CommitKeeps
    <3> QED  BY <3>2 DEF Voiding, Voided
  <2>8. q.todo = {} /\ PriceKept(q.copy)
    BY <1>4, <2>1 DEF RequestSound
  <2>9. RequestSound(x)'
    BY <1>1, <1>2, <2>4, <2>6, <2>7, <2>8 DEF RequestSound, PriceKept
  <2> QED  BY <1>2, <2>4, <2>5, <2>6, <2>9
<1> QED
  BY <1>3, <1>4

LEMMA CommitStep ==
    ASSUME LedgerInv, NEW w \in Requests, Commit(w)
    PROVE  LedgerInv'
<1> DEFINE After(v) ==
             IF v = w
             THEN IF req[w].at = "done" THEN Rest
                  ELSE [req[w] EXCEPT !.at = "expire_cancel", !.wrote = <<>>, !.locks = FALSE]
             ELSE IF req[w].legs # <<>> /\ ~Off(req[v])
             THEN [req[v] EXCEPT !.overtaken = TRUE] ELSE req[v]
<1>1. req' = [v \in Requests |-> After(v)] /\ req[w].at \in {"expired", "done"}
  BY DEF Commit
<1>2. PICK x : x = After(w)
  OBVIOUS
<1>3. IsRequest(x) /\ SeenOrder(x)' \in Order /\ RequestSound(x)' /\ x.locks = FALSE
  BY <1>1, <1>2, CommitOwn
<1>4. ASSUME NEW v \in Requests \ {w}, NEW y, y = After(v)
      PROVE  IsRequest(y) /\ SeenOrder(y)' \in Order /\ RequestSound(y)' /\ y.locks = req[v].locks
  BY <1>4, CommitOthers
<1>5. req'[w] = x /\ \A v \in Requests \ {w} : req'[v] = After(v)
  BY <1>1, <1>2
<1> HIDE DEF After
<1>6. ASSUME NEW v \in Requests
      PROVE  IsRequest(req[v])' /\ (SeenOrder(req[v]) \in Order)' /\ RequestSound(req[v])'
  <2>1. CASE v = w
    BY <1>3, <1>5, <2>1 DEF IsRequest, SeenOrder, RequestSound, PriceKept, Voiding, Tendering, Known
  <2>2. CASE v # w
    <3>1. PICK y : y = After(v)
      OBVIOUS
    <3>2. req'[v] = y
      BY <1>5, <2>2, <3>1
    <3>3. IsRequest(y) /\ SeenOrder(y)' \in Order /\ RequestSound(y)'
      BY <1>4, <2>2, <3>1
    <3> QED
      BY <3>2, <3>3 DEF IsRequest, SeenOrder, RequestSound, PriceKept, Voiding, Tendering, Known
  <2> QED  BY <2>1, <2>2
<1>7. OneLock'
  <2>1. req'[w].locks = FALSE
    BY <1>3, <1>5
  <2>2. \A v \in Requests \ {w} : req'[v].locks = req[v].locks
    BY <1>4, <1>5
  <2> QED  BY <2>1, <2>2 DEF LedgerInv, OneLock
<1>8. TypeOK'
  <2>1. req' = [v \in Requests |-> req'[v]]
    BY <1>1
  <2>2. settled' \in Nat
    <3>1. settled' \in {settled, settled + 1, settled + 0}
      BY DEF Commit
    <3> QED  BY <3>1 DEF LedgerInv, TypeOK
  <2>3. drifted' \in BOOLEAN
    <3>1. drifted' \in {TRUE, FALSE, drifted}
      BY Zenon DEF Commit
    <3> QED  BY <3>1, Zenon DEF LedgerInv, TypeOK
  <2> QED  BY <1>6, <2>1, <2>2, <2>3, CommitOrder, CommitLedger DEF TypeOK, Ledgers
<1> QED
  BY <1>6, <1>7, <1>8, CommitOrder, CommitOnce DEF LedgerInv, PriceKept

-----------------------------------------------------------------------------
(* The theorems.                                                           *)

LEMMA InitLedgerInv == Init => LedgerInv
<1> SUFFICES ASSUME Init PROVE LedgerInv
  OBVIOUS
<1>1. order \in Order /\ PriceKept(order)
  BY NewOrderSound DEF Init
<1>2. \A w \in Requests : req[w] = Rest
  BY DEF Init
<1>3. DOMAIN <<>> = {}
  OBVIOUS
<1>4. IsRequest(Rest) /\ PriceKept(Rest.copy)
  BY <1>3, RestFields, NewOrderSound DEF IsRequest
<1>5. SeenOrder(Rest) = order
  BY <1>1, <1>3, RestFields DEF SeenOrder, Order
<1>6. RequestSound(Rest)
  BY <1>1, <1>3, <1>4, <1>5, RestFields DEF RequestSound
<1>7. TypeOK
  BY <1>1, <1>2, <1>4, <1>5 DEF Init, TypeOK
<1>8. OneLock
  BY <1>2, RestFields DEF OneLock
<1>9. PaymentRecordedOnce
  BY DEF Init, PaymentRecordedOnce
<1> QED
  BY <1>1, <1>2, <1>6, <1>7, <1>8, <1>9 DEF LedgerInv

\* Every step of a request but COMMIT leaves the ledger as it is.
LEMMA ProceedInv ==
    ASSUME LedgerInv, NEW w \in Requests, Proceed(w) \/ Die(w)
    PROVE  LedgerInv' /\ (UNCHANGED tenders \/ Commit(w))
<1>1. CASE \/ NothingDue(w) \/ RefuseTender(w) \/ RefuseVoid(w)
           \/ RefuseDiscount(w) \/ SkipExpired(w) \/ Die(w)
  BY <1>1, RestStep DEF NothingDue, RefuseTender, RefuseVoid, RefuseDiscount, SkipExpired, Die
<1>2. CASE ReadBalance(w)
  BY <1>2, ReadBalanceStep DEF ReadBalance
<1>3. CASE RecordTender(w)
  BY <1>3, RecordTenderStep DEF RecordTender
<1>4. CASE ReadCashLegs(w) \/ ReadUpiLegs(w)
  BY <1>4, ReadLegsStep DEF ReadCashLegs, ReadUpiLegs
<1>5. CASE \E t \in Ids : VoidTender(w, t)
  BY <1>5, VoidTenderStep DEF VoidTender
<1>6. CASE CancelOrder(w) \/ ExpireCancel(w)
  BY <1>6, CancelOrderStep DEF CancelOrder, ExpireCancel
<1>7. CASE Discount(w)
  BY <1>7, DiscountStep DEF Discount
<1>8. CASE ExpirePayment(w)
  BY <1>8, ExpirePaymentStep DEF ExpirePayment
<1>9. CASE SaveOrder(w)
  BY <1>9, SaveOrderStep DEF SaveOrder
<1>10. CASE Commit(w)
  BY <1>10, CommitStep
<1> QED
  BY <1>1, <1>2, <1>3, <1>4, <1>5, <1>6, <1>7, <1>8, <1>9, <1>10 DEF Proceed

LEMMA NextLedgerInv ==
    ASSUME LedgerInv, [Next]_vars
    PROVE  LedgerInv' /\ (UNCHANGED tenders \/ \E w \in Requests : Commit(w))
<1>1. CASE UNCHANGED vars
  <2>1. \A r : RequestSound(r) => RequestSound(r)' /\ SeenOrder(r)' = SeenOrder(r)
    BY <1>1, StillSound DEF vars
  <2> QED
    BY <1>1, <2>1 DEF vars, LedgerInv, TypeOK, OneLock, PriceKept, PaymentRecordedOnce
<1>2. CASE Next
  <2>1. PICK w \in Requests : BeginNext(w) \/ Proceed(w) \/ Die(w)
    BY <1>2 DEF Next
  <2>2. CASE BeginNext(w)
    <3>1. UNCHANGED tenders
      BY <2>2 DEF BeginNext, TakeCashTender, TakeUpiTender, SettleGatewayPayment, VoidSale,
         ApplyManualDiscount, ExpireStaleOrder, Begin
    <3> QED  BY <2>2, <3>1, BeginStep
  <2>3. CASE Proceed(w) \/ Die(w)
    BY <2>3, ProceedInv
  <2> QED  BY <2>1, <2>2, <2>3
<1> QED
  BY <1>1, <1>2

\* The inductive invariant: whoever commits a new tender or a new total holds the
\* order's lock since it read the ledger.
THEOREM LedgerInvariance == Spec => []LedgerInv
<1>1. Init => LedgerInv
  BY InitLedgerInv
<1>2. LedgerInv /\ [Next]_vars => LedgerInv'
  BY NextLedgerInv
<1> QED
  BY <1>1, <1>2, PTL DEF Spec

\* What the requests write and what the ledger sums to is well-typed.
THEOREM LedgerTypeCorrect == Spec => []TypeOK
<1>1. LedgerInv => TypeOK
  BY DEF LedgerInv
<1> QED
  BY <1>1, LedgerInvariance, PTL

\* record_tender is idempotent: however often and however concurrently a gateway
\* payment is reported, it is in the ledger at most once.
THEOREM RecordedOnce == Spec => []PaymentRecordedOnce
<1>1. LedgerInv => PaymentRecordedOnce
  BY DEF LedgerInv
<1> QED
  BY <1>1, LedgerInvariance, PTL

\* No till, webhook, discount or void, however they overlap, makes a tender take
\* what is captured beyond the order's total.
THEOREM NoOverCollection == Spec => NeverOverCollects
<1>1. LedgerInv /\ [Next]_vars =>
        [AmountPaid(tenders') > AmountPaid(tenders)
           => AmountPaid(tenders') <= order'.grand_total]_vars
  <2> SUFFICES ASSUME LedgerInv, [Next]_vars, AmountPaid(tenders') > AmountPaid(tenders)
               PROVE  AmountPaid(tenders') <= order'.grand_total
    OBVIOUS
  <2>1. AmountPaid(tenders) \in Nat
    BY CapturedSound DEF LedgerInv, TypeOK, Ledgers
  <2>2. CASE UNCHANGED tenders
    BY <2>1, <2>2
  <2>3. CASE \E w \in Requests : Commit(w)
    BY <2>3, CommitMoney
  <2> QED  BY <2>2, <2>3, NextLedgerInv
<1> QED
  BY <1>1, LedgerInvariance, PTL DEF Spec, NeverOverCollects

-----------------------------------------------------------------------------
(* The order follows its ledger.                                           *)

LEMMA WillBeFields ==
    ASSUME NEW r, order \in Order
    PROVE  /\ \A c \in Columns : WillBe(r)[c] = IF c \in r.save THEN r.copy[c]
                                 ELSE IF c \in DOMAIN r.wrote THEN r.wrote[c] ELSE order[c]
           /\ r.save = {} => WillBe(r) = SeenOrder(r)
<1>1. Columns \subseteq DOMAIN order
  BY DEF Order, Columns
<1>2. r.save = {} => WillBe(r) = SeenOrder(r)
  BY DEF WillBe, SeenOrder
<1> QED
  BY <1>1, <1>2 DEF WillBe, SeenOrder

LEMMA NoLegs ==
    ASSUME NEW r, IsRequest(r)
    PROVE  r.legs = <<>> <=> DOMAIN r.legs = {}
<1>1. DOMAIN <<>> = {} /\ <<>> \in [{} -> Leg]
  OBVIOUS
<1>2. ASSUME DOMAIN r.legs = {}
      PROVE  r.legs = <<>>
  <2>1. r.legs \in [{} -> Leg]
    BY <1>2, RequestFields
  <2>2. r.legs = [t \in {} |-> r.legs[t]] /\ <<>> = [t \in {} |-> <<>>[t]]
    BY <1>1, <2>1, Zenon
  <2> QED  BY <2>2
<1> QED
  BY <1>1, <1>2

LEMMA NothingCaptured ==
    ASSUME NEW ts, Captured(ts) = {}
    PROVE  AmountPaid(ts) = 0
BY SumEmpty DEF AmountPaid

\* sync_payment_status leaves payment_status as it would derive it again, and
\* moves the order only when the ledger covers its total.
LEMMA SyncedFollows ==
    ASSUME NEW o \in Order, NEW ts \in Ledgers
    PROVE  /\ Synced(o, ts).payment_status = DerivePaymentStatus(Synced(o, ts), ts)
           /\ Captured(ts) = {} => Synced(o, ts).payment_status \in Unpaid
           /\ \/ Synced(o, ts).status = o.status /\ ~Settles(o, ts)
              \/ /\ Synced(o, ts).status \in {"paid", "completed"} /\ o.status = "placed"
                 /\ Settles(o, ts) /\ AmountPaid(ts) >= o.grand_total
<1>1. AmountPaid(ts) \in Nat /\ o.grand_total \in Int
  BY CapturedSound DEF Order
<1>2. CASE Settles(o, ts)
  <2>1. Synced(o, ts) = MarkPaid(o)
    BY <1>2 DEF Synced
  <2>2. /\ MarkPaid(o).payment_status = "paid" /\ MarkPaid(o).grand_total = o.grand_total
        /\ MarkPaid(o).status \in {"paid", "completed"}
    BY DEF MarkPaid, Order
  <2>3. AmountPaid(ts) > 0 /\ AmountPaid(ts) >= o.grand_total /\ o.status = "placed"
    BY <1>1, <1>2 DEF Settles, DerivePaymentStatus
  <2>4. Captured(ts) # {}
    BY <2>3, NothingCaptured
  <2> QED
    BY <1>1, <1>2, <2>1, <2>2, <2>3, <2>4 DEF DerivePaymentStatus
<1>3. CASE ~Settles(o, ts)
  <2> DEFINE p == [o EXCEPT !.payment_status = DerivePaymentStatus(o, ts)]
  <2>1. Synced(o, ts) = p
    BY <1>3 DEF Synced
  <2>2. /\ p.payment_status = DerivePaymentStatus(o, ts) /\ p.grand_total = o.grand_total
        /\ p.status = o.status
    BY DEF Order
  <2> HIDE DEF p
  <2>3. DerivePaymentStatus(p, ts) = DerivePaymentStatus(o, ts)
    BY <1>1, <2>2 DEF DerivePaymentStatus
  <2>4. Captured(ts) = {} => DerivePaymentStatus(o, ts) \in Unpaid
    BY NothingCaptured DEF DerivePaymentStatus, Unpaid
  <2> QED
    BY <1>3, <2>1, <2>2, <2>3, <2>4
<1> QED
  BY <1>2, <1>3

\* What is said of a request depends on the committed state only.
LEMMA StillFollows ==
    ASSUME NEW r, order' = order, tenders' = tenders, settled' = settled
    PROVE  Follows(r)' <=> Follows(r)
<1>1. SeenOrder(r)' = SeenOrder(r) /\ SeenTenders(r)' = SeenTenders(r)
  BY DEF SeenOrder, SeenTenders
<1>2. WillBe(r)' = WillBe(r)
  BY <1>1 DEF WillBe
<1>3. /\ EmptiesLedger(r)' <=> EmptiesLedger(r)
      /\ MarksFailed(r)' <=> MarksFailed(r)
      /\ Cancels(r)' <=> Cancels(r)
      /\ Discounts(r)' <=> Discounts(r)
      /\ Tenders(r)' <=> Tenders(r)
      /\ SettlesNow(r)' <=> SettlesNow(r)
  BY <1>1, <1>2 DEF EmptiesLedger, MarksFailed, Cancels, Discounts, Tenders, SettlesNow
<1> QED
  BY <1>3 DEF Follows, NothingWritten, Writes

LEMMA FollowStep ==
    ASSUME BooksInv, LedgerInv', NEW w \in Requests, NEW r, Follows(r),
           req' = [req EXCEPT ![w] = r], UNCHANGED <<order, tenders, settled, drifted>>
    PROVE  BooksInv'
<1>1. req = [v \in Requests |-> req[v]]
  BY DEF BooksInv, LedgerInv, TypeOK
<1>2. req'[w] = r /\ \A v \in Requests \ {w} : req'[v] = req[v]
  BY <1>1
<1>3. ASSUME NEW v \in Requests
      PROVE  Follows(req'[v])
  BY <1>2 DEF BooksInv
<1>4. ASSUME NEW v \in Requests
      PROVE  Follows(req[v])'
  BY <1>3, StillFollows
<1>5. StatusFollowsLedger' /\ (settled > 0 => order.status # "placed")'
  BY DEF BooksInv, StatusFollowsLedger
<1> QED
  BY <1>4, <1>5 DEF BooksInv

LEMMA Following ==
    ASSUME BooksInv, NEW w \in Requests
    PROVE  /\ LedgerInv /\ Follows(req[w]) /\ IsRequest(req[w])
           /\ req[w].copy \in Order /\ req[w].at \in Points
           /\ req[w].save \in SUBSET Columns /\ DOMAIN req[w].wrote \in SUBSET Columns
           /\ order \in Order /\ tenders \in Ledgers /\ settled \in Nat
BY Sound, RequestFields DEF BooksInv, LedgerInv, TypeOK

\* A request that has only read.
LEMMA NothingWrittenFollows ==
    ASSUME NEW r, NothingWritten(r),
           r.at \in Points \ {"void", "void_upi", "cancel", "expired", "done"},
           ~Off(r) /\ ~r.overtaken /\ settled > 0 => r.copy.status # "placed"
    PROVE  Follows(r)
<1>1. SettlesNow(r)
  BY DEF SettlesNow, NothingWritten
<1> QED
  BY <1>1 DEF Follows

LEMMA RestFollows == Follows(Rest)
<1>1. DOMAIN <<>> = {} /\ Rest.paid = FALSE
  BY DEF Rest, Idle
<1>2. NothingWritten(Rest) /\ Off(Rest) /\ Rest.at \in Points
  BY <1>1, RestFields DEF NothingWritten, Writes, Off, Points
<1> QED
  BY <1>2, RestFields, NothingWrittenFollows

LEMMA RestBooks ==
    ASSUME BooksInv, NEW w \in Requests, req' = [req EXCEPT ![w] = Rest],
           UNCHANGED <<order, tenders, settled, drifted>>
    PROVE  BooksInv'
<1>1. LedgerInv'
  BY RestStep DEF BooksInv
<1> QED
  BY <1>1, RestFollows, FollowStep

LEMMA BeginBooks ==
    ASSUME BooksInv, NEW w \in Requests, BeginNext(w)
    PROVE  BooksInv'
<1>1. PICK at \in {"record", "upi", "gateway", "void", "discount", "expire"},
           method \in Methods, due \in Nat, ref \in Refs \cup {NoRef} :
         Begin(w, at, method, due, ref)
  BY PriceAssumption DEF BeginNext, TakeCashTender, TakeUpiTender, SettleGatewayPayment,
     VoidSale, ApplyManualDiscount, ExpireStaleOrder, Methods, Amounts
<1>2. PICK r :
         /\ r = Fresh(at, method, order, due, ref)
         /\ req' = [req EXCEPT ![w] = r] /\ UNCHANGED <<order, tenders, settled, drifted>>
  BY <1>1 DEF Begin, Fresh
<1>3. LedgerInv' /\ order \in Order
  BY BeginStep, Following DEF BooksInv
<1>4. /\ r.at = at /\ r.copy = order /\ r.save = {}
      /\ r.wrote = <<>> /\ r.legs = <<>> /\ r.paid = FALSE /\ r.overtaken = FALSE
  BY <1>2 DEF Rest, Idle, Fresh
<1>5. DOMAIN <<>> = {}
  OBVIOUS
<1>6. NothingWritten(r)
  BY <1>4, <1>5 DEF NothingWritten, Writes
<1>7. settled > 0 => r.copy.status # "placed"
  BY <1>4 DEF BooksInv
<1>8. SettlesNow(r)
  BY <1>4, <1>6, <1>7 DEF SettlesNow, NothingWritten
<1>9. r.at = "void" => EmptiesLedger(r)
  <2>1. WillBe(r).payment_status = order.payment_status
    BY <1>3, <1>4, <1>5, WillBeFields DEF Columns
  <2> QED
    BY <1>4, <1>6, <2>1 DEF EmptiesLedger, NothingWritten
<1>10. Follows(r)
  BY <1>4, <1>6, <1>8, <1>9 DEF Follows
<1> QED
  BY <1>2, <1>3, <1>10, FollowStep

LEMMA ReadBalanceBooks ==
    ASSUME BooksInv, NEW w \in Requests, ReadBalance(w)
    PROVE  BooksInv'
<1> DEFINE q == req[w]
           outstanding == BalanceDue(q.copy, tenders)
           due == IF q.at = "gateway" /\ q.due < outstanding THEN q.due ELSE outstanding
<1>1. PICK r :
         /\ r = [q EXCEPT !.at = "record", !.due = due]
         /\ req' = [req EXCEPT ![w] = r] /\ UNCHANGED <<order, tenders, settled, drifted>>
  BY DEF ReadBalance
<1>2. LedgerInv' /\ Follows(q) /\ q.at \in {"upi", "gateway"} /\ IsRequest(q)
  BY ReadBalanceStep, Following DEF ReadBalance
<1> HIDE DEF due
<1>3. /\ r.at = "record" /\ r.copy = q.copy /\ r.save = q.save /\ r.wrote = q.wrote
      /\ r.legs = q.legs /\ r.paid = q.paid /\ r.overtaken = q.overtaken
  BY <1>1, <1>2 DEF IsRequest, RequestOver
<1>4. NothingWritten(q) /\ SettlesNow(q)
  BY <1>2 DEF Follows, Points
<1>5. NothingWritten(r)
  BY <1>3, <1>4 DEF NothingWritten, Writes
<1>6. ~r.overtaken /\ settled > 0 => r.copy.status # "placed"
  BY <1>2, <1>3, <1>4 DEF SettlesNow, Off
<1>7. Follows(r)
  BY <1>3, <1>5, <1>6, NothingWrittenFollows DEF Points
<1> QED
  BY <1>1, <1>2, <1>7, FollowStep

\* What a request sees of the ledger while it voids: tenders and voided tenders.
LEMMA SeenLedger ==
    ASSUME LedgerInv, NEW w \in Requests
    PROVE  SeenTenders(req[w]) \in Ledgers
BY Sound, RequestFields DEF SeenTenders, Ledgers

LEMMA ReadLegsBooks ==
    ASSUME BooksInv, NEW w \in Requests, ReadCashLegs(w) \/ ReadUpiLegs(w)
    PROVE  BooksInv'
<1> DEFINE q == req[w]
<1>1. LedgerInv' /\ Follows(q) /\ IsRequest(q) /\ SeenTenders(q) \in Ledgers
  BY ReadLegsStep, Following, SeenLedger
<1>2. PICK at \in {"void_upi", "cancel"}, method \in {"cash", "upi"} :
         /\ req' = [req EXCEPT ![w] = [q EXCEPT !.at = at, !.todo = CapturedBy(w, method)]]
         /\ UNCHANGED <<order, tenders, settled, drifted>>
         /\ \/ q.at = "void" /\ at = "void_upi" /\ method = "cash" /\ CapturedBy(w, "gateway") = {}
            \/ q.at = "void_upi" /\ at = "cancel" /\ method = "upi" /\ q.todo = {}
  BY DEF ReadCashLegs, ReadUpiLegs
<1>3. PICK r :
         /\ r = [q EXCEPT !.at = at, !.todo = CapturedBy(w, method)]
         /\ req' = [req EXCEPT ![w] = r]
  BY <1>2
<1>4. /\ r.at = at /\ r.todo = CapturedBy(w, method) /\ r.copy = q.copy /\ r.save = q.save
      /\ r.wrote = q.wrote /\ r.legs = q.legs /\ r.paid = q.paid /\ r.overtaken = q.overtaken
  BY <1>1, <1>3 DEF IsRequest, RequestOver
<1>5. EmptiesLedger(q) /\ SettlesNow(q) /\ ~Off(q)
  BY <1>1, <1>2 DEF Follows, Off
<1>6. SeenOrder(r) = SeenOrder(q) /\ SeenTenders(r) = SeenTenders(q) /\ Writes(r) = Writes(q)
  BY <1>4 DEF SeenOrder, SeenTenders, Writes
<1>7. WillBe(r) = WillBe(q)
  BY <1>4, <1>6 DEF WillBe
<1>8. SettlesNow(r)
  BY <1>4, <1>5, <1>6, <1>7 DEF SettlesNow
<1>9. ASSUME ~r.overtaken, NEW t \in Captured(SeenTenders(r))
      PROVE  /\ SeenTenders(r)[t].method # "gateway"
             /\ at = "void_upi" /\ SeenTenders(r)[t].method = "cash" => t \in r.todo
             /\ at = "cancel" => t \in r.todo
  <2>1. SeenTenders(q)[t] \in Leg
    BY <1>1, <1>6, CapturedSound
  <2>2. SeenTenders(q)[t].method \in {"cash", "upi", "gateway"}
    BY <2>1 DEF Leg, Methods
  <2>3. CASE q.at = "void"
    BY <1>2, <1>4, <1>6, <1>9, <2>3 DEF CapturedBy
  <2>4. CASE q.at = "void_upi"
    <3>1. SeenTenders(q)[t].method # "gateway" /\ SeenTenders(q)[t].method # "cash"
      BY <1>2, <1>4, <1>5, <1>6, <1>9, <2>4 DEF EmptiesLedger
    <3> QED
      BY <1>2, <1>4, <1>6, <1>9, <2>2, <2>4, <3>1 DEF CapturedBy
  <2> QED  BY <1>2, <2>3, <2>4
<1>10. EmptiesLedger(r)
  BY <1>4, <1>5, <1>6, <1>7, <1>9 DEF EmptiesLedger
<1>11. Follows(r)
  BY <1>4, <1>8, <1>10 DEF Follows
<1> QED
  BY <1>1, <1>2, <1>3, <1>11, FollowStep

LEMMA VoidTenderBooks ==
    ASSUME BooksInv, NEW w \in Requests, NEW t \in Ids, VoidTender(w, t)
    PROVE  BooksInv'
<1> DEFINE q == req[w]
           leg == [SeenTenders(q)[t] EXCEPT !.status = "voided"]
           ledger == [SeenTenders(q) EXCEPT ![t] = leg]
           synced == Synced(q.copy, ledger)
           save == Changed(q.copy, synced)
           paid == q.paid \/ Settles(q.copy, ledger)
           legs == Put(q.legs, {t}, [u \in {t} |-> leg])
<1>1. PICK r :
         /\ r = [q EXCEPT !.todo = q.todo \ {t}, !.legs = legs, !.copy = synced,
                          !.save = save, !.paid = paid]
         /\ req' = [req EXCEPT ![w] = r] /\ UNCHANGED <<order, tenders, settled, drifted>>
  BY DEF VoidTender
<1>2. /\ t \in q.todo /\ q.save = {} /\ LedgerInv' /\ Follows(q) /\ IsRequest(q)
      /\ q.copy \in Order /\ order \in Order /\ q.at \in {"void_upi", "cancel"}
      /\ SeenTenders(q) \in Ledgers /\ SeenTenders(q)[t] \in Leg
      /\ q.paid \in BOOLEAN /\ q.overtaken \in BOOLEAN
  <2>1. q.at \in {"void_upi", "cancel"} /\ tenders[t] # NoTender /\ tenders[t] \in Leg
    BY Following, Sound DEF VoidTender, RequestSound, Ledgers
  <2>2. SeenTenders(q)[t] # NoTender
    <3>1. CASE t \in DOMAIN q.legs
      <4>1. q.legs[t] \in Leg
        BY <3>1, Following, RequestFields
      <4> QED  BY <3>1, <4>1, LegFields DEF SeenTenders
    <3>2. CASE t \notin DOMAIN q.legs
      BY <2>1, <3>2 DEF SeenTenders
    <3> QED  BY <3>1, <3>2
  <2>3. SeenTenders(q)[t] \in Leg
    BY <2>2, Following, SeenLedger DEF Ledgers
  <2> QED
    BY <2>1, <2>3, VoidTenderStep, Following, SeenLedger, RequestFields DEF VoidTender
<1>3. leg \in Leg /\ leg.status = "voided"
  BY <1>2, LegFields DEF Voided
<1> HIDE DEF leg
<1>4. /\ ledger \in Ledgers /\ DOMAIN ledger = Ids /\ Captured(ledger) = Captured(SeenTenders(q)) \ {t}
      /\ \A u \in Captured(ledger) : ledger[u] = SeenTenders(q)[u]
  BY <1>2, <1>3 DEF Ledgers, Captured
<1>5. /\ \A u \in Ids : ledger[u] = IF u = t THEN leg ELSE SeenTenders(q)[u]
      /\ DOMAIN legs = DOMAIN q.legs \cup {t}
      /\ \A u \in DOMAIN legs : legs[u] = IF u = t THEN leg ELSE q.legs[u]
  BY <1>2 DEF Ledgers, Put
<1> HIDE DEF ledger
<1>6. /\ Captured(ledger) = {} => synced.payment_status \in Unpaid
      /\ \/ synced.status = q.copy.status /\ ~Settles(q.copy, ledger)
         \/ synced.status \in {"paid", "completed"} /\ q.copy.status = "placed" /\ Settles(q.copy, ledger)
  BY <1>2, <1>4, SyncedFollows
<1>7. /\ save \cap PriceColumns = {} /\ save \in SUBSET Columns
      /\ \A c \in Columns \ save : synced[c] = q.copy[c]
  BY <1>2, SyncedSound DEF Changed
<1>8. paid \in BOOLEAN /\ (Settles(q.copy, ledger) => "status" \in save)
  BY <1>6 DEF Changed, Columns
<1> HIDE DEF synced, save, paid, legs
<1>9. /\ r.at = q.at /\ r.copy = synced /\ r.todo = q.todo \ {t} /\ r.save = save
      /\ r.wrote = q.wrote /\ r.legs = legs /\ r.paid = paid /\ r.overtaken = q.overtaken
  BY <1>1, <1>2 DEF IsRequest, RequestOver
<1>10. SeenTenders(r) = ledger
  <2>1. \A u \in Ids : (IF u \in DOMAIN legs THEN legs[u] ELSE tenders[u]) = ledger[u]
    BY <1>5 DEF SeenTenders
  <2>2. ledger = [u \in Ids |-> ledger[u]]
    BY <1>4 DEF Ledgers
  <2> QED  BY <1>9, <2>1, <2>2 DEF SeenTenders
<1>11. EmptiesLedger(q) /\ SettlesNow(q) /\ ~Off(q)
  BY <1>2 DEF Follows, Off
<1>12. /\ Writes(r) = save \cup DOMAIN q.wrote /\ Writes(q) = DOMAIN q.wrote
       /\ save \subseteq StatusColumns /\ Writes(r) \subseteq StatusColumns
  BY <1>2, <1>7, <1>9, <1>11 DEF Writes, EmptiesLedger, StatusColumns, Columns, PriceColumns
<1>13. /\ WillBe(r)["payment_status"] = IF "payment_status" \in save THEN synced["payment_status"]
                                         ELSE WillBe(q)["payment_status"]
       /\ WillBe(r)["status"] = IF "status" \in save THEN synced["status"] ELSE WillBe(q)["status"]
  <2>1. \A c \in Columns : WillBe(r)[c] = IF c \in save THEN synced[c]
                                ELSE IF c \in DOMAIN q.wrote THEN q.wrote[c] ELSE order[c]
    BY <1>2, <1>9, WillBeFields
  <2>2. \A c \in Columns : WillBe(q)[c] = IF c \in DOMAIN q.wrote THEN q.wrote[c] ELSE order[c]
    BY <1>2, WillBeFields
  <2> QED  BY <2>1, <2>2 DEF Columns
<1>14. "payment_status" \notin save => synced["payment_status"] = q.copy["payment_status"]
  BY <1>7 DEF Columns
<1>15. EmptiesLedger(r)
  <2>1. DOMAIN r.legs # {}
    BY <1>5, <1>9
  <2>2. ASSUME ~r.overtaken
        PROVE  WillBe(r).payment_status \in {r.copy.payment_status, "failed"}
    BY <1>9, <1>11, <1>13, <1>14, <2>2 DEF EmptiesLedger
  <2>3. ASSUME ~r.overtaken, NEW u \in Captured(SeenTenders(r))
        PROVE  /\ SeenTenders(r)[u].method # "gateway"
               /\ r.at = "void_upi" /\ SeenTenders(r)[u].method = "cash" => u \in r.todo
               /\ r.at = "cancel" => u \in r.todo
    BY <1>2, <1>4, <1>9, <1>10, <1>11, <2>3 DEF EmptiesLedger
  <2>4. Captured(SeenTenders(r)) = {} => r.copy.payment_status \in Unpaid
    BY <1>6, <1>9, <1>10
  <2> QED
    BY <1>12, <2>1, <2>2, <2>3, <2>4 DEF EmptiesLedger
<1>16. SettlesNow(r)
  <2>1. "status" \in save => synced.status # "placed"
    BY <1>6, <1>7 DEF Changed, save
  <2>2. "status" \in Writes(r) => WillBe(r).status # "placed"
    BY <1>11, <1>12, <1>13, <2>1 DEF SettlesNow
  <2>3. r.paid => "status" \in Writes(r) /\ DOMAIN r.legs # {}
    BY <1>5, <1>8, <1>9, <1>11, <1>12 DEF SettlesNow, paid
  <2>4. ~r.overtaken /\ settled > 0 => r.copy.status # "placed" /\ ~r.paid
    BY <1>6, <1>9, <1>11 DEF SettlesNow, paid
  <2> QED
    BY <2>2, <2>3, <2>4 DEF SettlesNow
<1>17. Follows(r)
  BY <1>2, <1>9, <1>15, <1>16 DEF Follows
<1> QED
  BY <1>1, <1>2, <1>17, FollowStep

\* The request cancels the order in its copy, having read it again or not.
LEMMA CancelBooks ==
    ASSUME BooksInv, NEW w \in Requests, CancelOrder(w) \/ ExpireCancel(w)
    PROVE  BooksInv'
<1> DEFINE q == req[w]
<1>1. PICK o \in {SeenOrder(q), q.copy} :
         /\ q.at \in {"cancel", "expire_cancel"} /\ q.save = {}
         /\ q.at = "cancel" => o = SeenOrder(q) /\ q.todo = {}
         /\ req' = [req EXCEPT ![w] =
              [q EXCEPT !.at = "done", !.save = {"status"},
                        !.copy = [o EXCEPT !.status = "cancelled"]]]
         /\ UNCHANGED <<order, tenders, settled, drifted>>
  <2>1. CASE CancelOrder(w)
    BY <2>1 DEF CancelOrder
  <2>2. CASE ExpireCancel(w)
    <3>1. NothingWritten(q)
      BY <2>2, Following DEF ExpireCancel, Follows, Points
    <3> QED  BY <2>2, <3>1 DEF ExpireCancel, NothingWritten, Writes
  <2> QED  BY <2>1, <2>2
<1>2. LedgerInv' /\ Follows(q) /\ IsRequest(q) /\ order \in Order /\ o \in Order
  BY CancelOrderStep, Following, Sound
<1> DEFINE copy == [o EXCEPT !.status = "cancelled"]
<1>3. copy \in Order /\ copy.status = "cancelled"
  BY <1>2 DEF Order
<1> HIDE DEF copy
<1>4. PICK r :
         /\ r = [q EXCEPT !.at = "done", !.save = {"status"}, !.copy = copy]
         /\ req' = [req EXCEPT ![w] = r]
  BY <1>1 DEF copy
<1>5. /\ r.at = "done" /\ r.copy = copy /\ r.save = {"status"} /\ r.wrote = q.wrote
      /\ r.legs = q.legs /\ r.paid = q.paid /\ r.overtaken = q.overtaken
  BY <1>2, <1>4 DEF IsRequest, RequestOver
<1>6. SettlesNow(q) /\ ~Off(q)
  BY <1>1, <1>2 DEF Follows, Off
<1>7. Writes(r) = Writes(q) \cup {"status"}
  BY <1>1, <1>5 DEF Writes
<1>8. WillBe(r)["status"] = "cancelled" /\ WillBe(r)["payment_status"] = WillBe(q)["payment_status"]
  <2>1. \A c \in Columns : WillBe(r)[c] = IF c \in {"status"} THEN copy[c]
                                ELSE IF c \in DOMAIN q.wrote THEN q.wrote[c] ELSE order[c]
    BY <1>2, <1>5, WillBeFields
  <2>2. \A c \in Columns : WillBe(q)[c] = IF c \in DOMAIN q.wrote THEN q.wrote[c] ELSE order[c]
    BY <1>1, <1>2, WillBeFields
  <2> QED  BY <1>3, <2>1, <2>2 DEF Columns
<1>9. SettlesNow(r)
  BY <1>3, <1>5, <1>6, <1>7, <1>8 DEF SettlesNow
<1>10. SeenTenders(r) = SeenTenders(q)
  BY <1>5 DEF SeenTenders
<1>11. Cancels(r)
  <2>1. CASE q.at = "cancel"
    <3>1. EmptiesLedger(q) /\ q.todo = {}
      BY <1>1, <1>2, <2>1 DEF Follows
    <3>2. ~q.overtaken => Captured(SeenTenders(q)) = {}
      BY <2>1, <3>1 DEF EmptiesLedger
    <3>3. ~q.overtaken /\ DOMAIN q.legs # {} => WillBe(q).payment_status \in Unpaid
      BY <3>1, <3>2 DEF EmptiesLedger, Unpaid
    <3> QED
      BY <1>5, <1>7, <1>8, <1>10, <3>1, <3>2, <3>3 DEF Cancels, EmptiesLedger, StatusColumns
  <2>2. CASE q.at = "expire_cancel"
    <3>1. NothingWritten(q)
      BY <1>2, <2>2 DEF Follows, Points
    <3> QED  BY <1>5, <1>7, <1>8, <3>1 DEF Cancels, NothingWritten, StatusColumns
  <2> QED  BY <1>1, <2>1, <2>2
<1>12. Follows(r)
  BY <1>5, <1>9, <1>11 DEF Follows
<1> QED
  BY <1>1, <1>2, <1>4, <1>12, FollowStep

LEMMA DiscountBooks ==
    ASSUME BooksInv, NEW w \in Requests, Discount(w)
    PROVE  BooksInv'
<1> DEFINE q == req[w]
           o == q.copy
           off == q.due
           total == o.grand_total + o.manual_discount - off
           copy == [o EXCEPT !.grand_total = total, !.manual_discount = off]
<1>1. PICK r :
         /\ r = [q EXCEPT !.at = "done", !.save = PriceColumns, !.copy = copy]
         /\ req' = [req EXCEPT ![w] = r] /\ UNCHANGED <<order, tenders, settled, drifted>>
         /\ q.at = "discount" /\ \A t \in Ids : tenders[t] = NoTender
  BY DEF Discount, Discountable, PriceColumns
<1>2. LedgerInv' /\ Follows(q) /\ IsRequest(q) /\ order \in Order /\ o \in Order
  BY DiscountStep, Following
<1>3. NothingWritten(q) /\ SettlesNow(q) /\ ~Off(q)
  BY <1>1, <1>2 DEF Follows, Points, Off
<1>4. copy.status = o.status
  BY <1>2 DEF Order
<1> HIDE DEF copy
<1>5. /\ r.at = "done" /\ r.copy = copy /\ r.save = PriceColumns /\ r.wrote = q.wrote
      /\ r.legs = q.legs /\ r.paid = q.paid /\ r.overtaken = q.overtaken
  BY <1>1, <1>2 DEF IsRequest, RequestOver
<1>6. Writes(r) = PriceColumns /\ "status" \notin Writes(r)
  BY <1>3, <1>5 DEF Writes, NothingWritten, PriceColumns
<1>7. Discounts(r)
  BY <1>1, <1>3, <1>5, <1>6 DEF Discounts, NothingWritten
<1>8. SettlesNow(r)
  BY <1>3, <1>4, <1>5, <1>6 DEF SettlesNow, NothingWritten
<1>9. Follows(r)
  BY <1>5, <1>7, <1>8 DEF Follows
<1> QED
  BY <1>1, <1>2, <1>9, FollowStep

LEMMA ExpirePaymentBooks ==
    ASSUME BooksInv, NEW w \in Requests, ExpirePayment(w)
    PROVE  BooksInv'
<1> DEFINE q == req[w]
           copy == [q.copy EXCEPT !.payment_status = "failed"]
           save == Changed(q.copy, copy)
<1>1. PICK r :
         /\ r = [q EXCEPT !.at = "expired", !.copy = copy, !.save = save]
         /\ req' = [req EXCEPT ![w] = r] /\ UNCHANGED <<order, tenders, settled, drifted>>
         /\ q.at = "expire" /\ Captured(tenders) = {}
  BY DEF ExpirePayment
<1>2. LedgerInv' /\ Follows(q) /\ IsRequest(q) /\ order \in Order /\ q.copy \in Order
  BY ExpirePaymentStep, Following
<1>3. NothingWritten(q) /\ SettlesNow(q) /\ ~Off(q)
  BY <1>1, <1>2 DEF Follows, Points, Off
<1>4. /\ copy.status = q.copy.status /\ copy["payment_status"] = "failed"
      /\ save \subseteq {"payment_status"}
  BY <1>2 DEF Order, Changed, Columns
<1> HIDE DEF copy, save
<1>5. /\ r.at = "expired" /\ r.copy = copy /\ r.save = save /\ r.wrote = q.wrote
      /\ r.legs = q.legs /\ r.paid = q.paid /\ r.overtaken = q.overtaken
  BY <1>1, <1>2 DEF IsRequest, RequestOver
<1>6. Writes(r) = save /\ "status" \notin Writes(r)
  BY <1>3, <1>4, <1>5 DEF Writes, NothingWritten
<1>7. "payment_status" \in save => WillBe(r)["payment_status"] = "failed"
  BY <1>2, <1>4, <1>5, WillBeFields DEF Columns
<1>8. MarksFailed(r)
  BY <1>1, <1>3, <1>4, <1>5, <1>6, <1>7 DEF MarksFailed, NothingWritten
<1>9. SettlesNow(r)
  BY <1>3, <1>4, <1>5, <1>6 DEF SettlesNow, NothingWritten
<1>10. Follows(r)
  BY <1>5, <1>8, <1>9 DEF Follows
<1> QED
  BY <1>1, <1>2, <1>10, FollowStep

LEMMA SaveOrderBooks ==
    ASSUME BooksInv, NEW w \in Requests, SaveOrder(w)
    PROVE  BooksInv'
<1> DEFINE q == req[w]
           wrote == Put(q.wrote, q.save, q.copy)
<1>1. PICK r :
         /\ r = [q EXCEPT !.wrote = wrote, !.save = {}, !.locks = TRUE]
         /\ req' = [req EXCEPT ![w] = r] /\ UNCHANGED <<order, tenders, settled, drifted>>
         /\ q.save # {}
  BY DEF SaveOrder
<1>2. LedgerInv' /\ Follows(q) /\ IsRequest(q) /\ order \in Order
  BY SaveOrderStep, Following
<1>3. /\ DOMAIN wrote = DOMAIN q.wrote \cup q.save
      /\ \A c \in DOMAIN wrote : wrote[c] = IF c \in q.save THEN q.copy[c] ELSE q.wrote[c]
  BY DEF Put
<1> HIDE DEF wrote
<1>4. /\ r.at = q.at /\ r.copy = q.copy /\ r.todo = q.todo /\ r.save = {} /\ r.wrote = wrote
      /\ r.legs = q.legs /\ r.paid = q.paid /\ r.overtaken = q.overtaken
  BY <1>1, <1>2 DEF IsRequest, RequestOver
<1>5. Writes(r) = Writes(q)
  BY <1>3, <1>4 DEF Writes
<1>6. SeenTenders(r) = SeenTenders(q)
  BY <1>4 DEF SeenTenders
<1>7. WillBe(r) = WillBe(q)
  <2>1. \A c \in DOMAIN order :
          (IF c \in r.save THEN r.copy[c] ELSE IF c \in DOMAIN r.wrote THEN r.wrote[c] ELSE order[c])
            = IF c \in q.save THEN q.copy[c] ELSE IF c \in DOMAIN q.wrote THEN q.wrote[c] ELSE order[c]
    BY <1>3, <1>4
  <2> QED  BY <2>1 DEF WillBe, SeenOrder
<1>8. q.at \in {"void_upi", "cancel", "expired", "done"}
  BY <1>1, <1>2, RequestFields DEF Follows, NothingWritten, Writes
<1>9. q.at \in {"void_upi", "cancel"} => EmptiesLedger(r)
  BY <1>2, <1>4, <1>5, <1>6, <1>7 DEF Follows, EmptiesLedger
<1>10. q.at = "expired" => MarksFailed(r)
  BY <1>2, <1>4, <1>5, <1>7 DEF Follows, MarksFailed
<1>11. q.at = "done" => Cancels(r) \/ Discounts(r)
  BY <1>1, <1>2, <1>4, <1>5, <1>6, <1>7 DEF Follows, Cancels, Discounts, Tenders
<1>12. SettlesNow(r)
  BY <1>2, <1>4, <1>5, <1>7 DEF Follows, SettlesNow, Off
<1>13. Follows(r)
  BY <1>4, <1>8, <1>9, <1>10, <1>11, <1>12 DEF Follows
<1> QED
  BY <1>1, <1>2, <1>13, FollowStep

LEMMA RecordTenderBooks ==
    ASSUME BooksInv, NEW w \in Requests, RecordTender(w)
    PROVE  BooksInv'
<1> DEFINE q == req[w]
           Made(t) == [status |-> "captured", method |-> q.method, amount |-> q.due, ref |-> q.ref]
           ledger(t) == [tenders EXCEPT ![t] = Made(t)]
           synced(t) == Synced(order, ledger(t))
           wrote(t) == [c \in Changed(order, synced(t)) |-> synced(t)[c]]
           legs(t) == [u \in {t} |-> Made(t)]
           paid(t) == Settles(order, ledger(t))
<1>0. PICK t \in FreshId :
          req' = [req EXCEPT ![w] =
            [q EXCEPT !.at = "done", !.locks = TRUE, !.copy = synced(t), !.legs = legs(t),
                      !.wrote = wrote(t), !.paid = paid(t), !.overtaken = FALSE]]
  BY DEF RecordTender
<1>1. PICK r :
         /\ r = [q EXCEPT !.at = "done", !.locks = TRUE, !.copy = synced(t), !.legs = legs(t),
                          !.wrote = wrote(t), !.paid = paid(t), !.overtaken = FALSE]
         /\ req' = [req EXCEPT ![w] = r]
  BY <1>0
<1>2. /\ LedgerInv' /\ Follows(q) /\ IsRequest(q) /\ order \in Order /\ tenders \in Ledgers
      /\ q.at = "record" /\ UNCHANGED <<order, tenders, settled, drifted>> /\ t \in Ids
  BY RecordTenderStep, Following DEF RecordTender, FreshId
<1>3. ledger(t) \in Ledgers
  <2>1. Made(t) \in Leg
    <3>1. q.method \in Methods /\ q.due \in Amounts /\ q.ref \in Refs \cup {NoRef}
      BY <1>2, Following, Sound, RequestFields DEF RequestSound
    <3> QED  BY <3>1 DEF Leg
  <2> HIDE DEF Made
  <2> QED  BY <1>2, <2>1 DEF Ledgers
<1>4. /\ DOMAIN legs(t) = {t} /\ legs(t)[t] = Made(t)
      /\ \A u \in Ids : ledger(t)[u] = IF u = t THEN Made(t) ELSE tenders[u]
  BY <1>2 DEF Ledgers
<1> HIDE DEF Made, ledger
<1>5. /\ synced(t) \in Order /\ synced(t).grand_total = order.grand_total
      /\ Changed(order, synced(t)) \cap PriceColumns = {}
      /\ Changed(order, synced(t)) \in SUBSET Columns
      /\ synced(t).payment_status = DerivePaymentStatus(synced(t), ledger(t))
      /\ \/ synced(t).status = order.status /\ ~paid(t)
         \/ /\ synced(t).status \in {"paid", "completed"} /\ order.status = "placed"
            /\ paid(t) /\ AmountPaid(ledger(t)) >= order.grand_total
  BY <1>2, <1>3, SyncedSound, SyncedFollows
<1>6. /\ DOMAIN wrote(t) = Changed(order, synced(t))
      /\ \A c \in DOMAIN wrote(t) : wrote(t)[c] = synced(t)[c]
      /\ \A c \in Columns : c \notin DOMAIN wrote(t) => order[c] = synced(t)[c]
  BY DEF Changed
<1>7. "status" \in DOMAIN wrote(t) <=> synced(t).status # order.status
  BY <1>6 DEF Changed, Columns
<1>8. paid(t) \in BOOLEAN
  BY DEF Settles
<1> HIDE DEF synced, wrote, legs, paid
<1>9. /\ r.at = "done" /\ r.copy = synced(t) /\ r.save = q.save /\ r.wrote = wrote(t)
      /\ r.legs = legs(t) /\ r.paid = paid(t) /\ r.overtaken = FALSE /\ r.locks = TRUE
  BY <1>1, <1>2 DEF IsRequest, RequestOver
<1>10. q.save = {}
  BY <1>2 DEF Follows, Points, NothingWritten, Writes
<1>11. SeenTenders(r) = ledger(t)
  <2>1. \A u \in Ids : (IF u \in DOMAIN legs(t) THEN legs(t)[u] ELSE tenders[u]) = ledger(t)[u]
    BY <1>4 DEF legs
  <2>2. ledger(t) = [u \in Ids |-> ledger(t)[u]]
    BY <1>3 DEF Ledgers
  <2> QED  BY <1>9, <2>1, <2>2 DEF SeenTenders
<1>12. \A c \in Columns : WillBe(r)[c] = synced(t)[c]
  BY <1>2, <1>6, <1>9, <1>10, WillBeFields
<1>13. /\ WillBe(r).payment_status = synced(t).payment_status
       /\ WillBe(r).grand_total = synced(t).grand_total /\ WillBe(r).status = synced(t).status
  BY <1>12 DEF Columns
<1>14. Writes(r) = DOMAIN wrote(t)
  BY <1>9, <1>10 DEF Writes
<1>15. Tenders(r)
  <2>1. Writes(r) \subseteq StatusColumns
    BY <1>5, <1>6, <1>14 DEF StatusColumns, Columns, PriceColumns
  <2>2. WillBe(r).payment_status = DerivePaymentStatus(WillBe(r), SeenTenders(r))
    BY <1>5, <1>11, <1>13 DEF DerivePaymentStatus
  <2>3. "status" \in Writes(r) => AmountPaid(SeenTenders(r)) >= WillBe(r).grand_total
    BY <1>5, <1>7, <1>11, <1>13, <1>14
  <2> QED
    BY <1>4, <1>9, <1>10, <2>1, <2>2, <2>3 DEF Tenders, legs
<1>16. SettlesNow(r)
  <2>1. settled > 0 => order.status # "placed"
    BY DEF BooksInv
  <2> QED
    BY <1>4, <1>5, <1>7, <1>9, <1>13, <1>14, <2>1 DEF SettlesNow, legs
<1>17. Follows(r)
  BY <1>9, <1>15, <1>16 DEF Follows
<1> QED
  BY <1>1, <1>2, <1>17, FollowStep

-----------------------------------------------------------------------------
(* The order follows its ledger: COMMIT.                                   *)

LEMMA CommitEffect ==
    ASSUME BooksInv, NEW w \in Requests, Commit(w)
    PROVE  /\ order' = WillBe(req[w]) /\ order' = SeenOrder(req[w])
           /\ tenders' = SeenTenders(req[w]) /\ req[w].save = {}
           /\ settled' = settled + (IF req[w].paid THEN 1 ELSE 0)
           /\ settled' \in Nat /\ ~Off(req[w])
           /\ Cancels(req[w]) \/ Discounts(req[w]) \/ Tenders(req[w]) \/ MarksFailed(req[w])
           /\ SettlesNow(req[w])
           /\ \A c \in Columns : order'[c] = IF c \in DOMAIN req[w].wrote THEN req[w].wrote[c]
                                                                          ELSE order[c]
<1>1. req[w].save = {} /\ req[w].at \in {"expired", "done"} /\ order' = SeenOrder(req[w])
  BY DEF Commit
<1>2. order' = WillBe(req[w])
  BY <1>1, WillBeFields, Following
<1>3. settled' = settled + (IF req[w].paid THEN 1 ELSE 0) /\ tenders' = SeenTenders(req[w])
  BY DEF Commit
<1>4. settled' \in Nat
  <2>1. settled' \in {settled, settled + 1, settled + 0}
    BY <1>3
  <2> QED  BY <2>1, Following
<1>5. Follows(req[w])
  BY Following
<1>6. \A c \in Columns : WillBe(req[w])[c] = IF c \in DOMAIN req[w].wrote THEN req[w].wrote[c]
                                                                          ELSE order[c]
  BY <1>1, WillBeFields, Following
<1> QED
  BY <1>1, <1>2, <1>3, <1>4, <1>5, <1>6 DEF Follows, Off

\* A commit without legs leaves the ledger as it is, settles nothing, and marks an
\* order FAILED if anything.
LEMMA CommitWithoutLegs ==
    ASSUME BooksInv, NEW w \in Requests, Commit(w), DOMAIN req[w].legs = {}
    PROVE  /\ tenders' = tenders /\ settled' = settled /\ ~req[w].paid
           /\ order'["payment_status"] \in {order["payment_status"], "failed"}
<1> DEFINE q == req[w]
<1>1. tenders' = tenders
  <2>1. tenders = [t \in Ids |-> tenders[t]]
    BY Following DEF Ledgers
  <2> QED  BY <2>1, CommitEffect DEF SeenTenders
<1>2. ~q.paid
  BY CommitEffect DEF SettlesNow
<1>3. settled' = settled
  BY <1>2, CommitEffect, Following
<1>4. "payment_status" \in Columns /\ Writes(q) = DOMAIN q.wrote
  BY CommitEffect DEF Columns, Writes
<1>5. CASE Cancels(q) \/ Discounts(q)
  <2>1. "payment_status" \notin DOMAIN q.wrote
    BY <1>4, <1>5 DEF Cancels, Discounts, PriceColumns
  <2> QED  BY <1>1, <1>2, <1>3, <1>4, <2>1, CommitEffect
<1>6. CASE MarksFailed(q)
  <2>1. "payment_status" \in DOMAIN q.wrote => order'["payment_status"] = "failed"
    BY <1>4, <1>6, CommitEffect DEF MarksFailed
  <2> QED  BY <1>1, <1>2, <1>3, <1>4, <2>1, CommitEffect
<1> QED
  BY <1>1, <1>2, <1>3, <1>5, <1>6, CommitEffect DEF Tenders

\* The request that commits rests, or goes on to cancel what it has marked FAILED.
LEMMA CommitOwnBooks ==
    ASSUME BooksInv, NEW w \in Requests, Commit(w), NEW x,
           \/ req[w].at = "done" /\ x = Rest
           \/ /\ req[w].at = "expired"
              /\ x = [req[w] EXCEPT !.at = "expire_cancel", !.wrote = <<>>, !.locks = FALSE]
    PROVE  Follows(x)'
<1> DEFINE q == req[w]
<1>1. CASE x = Rest
  <2>1. Follows(Rest)'
    BY RestFollows, PTL
  <2>2. Follows(x)' <=> Follows(Rest)'
    BY <1>1 DEF Follows, NothingWritten, EmptiesLedger, MarksFailed, Cancels, Discounts, Tenders,
       SettlesNow, Writes, WillBe, SeenOrder, SeenTenders, Off
  <2> QED  BY <2>1, <2>2
<1>2. CASE /\ q.at = "expired"
           /\ x = [q EXCEPT !.at = "expire_cancel", !.wrote = <<>>, !.locks = FALSE]
  <2>1. IsRequest(q) /\ Follows(q) /\ MarksFailed(q) /\ SettlesNow(q) /\ DOMAIN q.legs = {} /\ ~Off(q)
    BY <1>2, Following DEF Follows, MarksFailed, Off
  <2>2. /\ x.at = "expire_cancel" /\ x.copy = q.copy /\ x.save = {} /\ x.wrote = <<>>
        /\ x.legs = q.legs /\ x.paid = q.paid /\ x.overtaken = q.overtaken
    BY <1>2, <2>1, CommitEffect DEF IsRequest, RequestOver
  <2>3. DOMAIN <<>> = {}
    OBVIOUS
  <2>4. NothingWritten(x)
    BY <2>1, <2>2, <2>3, CommitWithoutLegs DEF NothingWritten, Writes
  <2>5. ~x.overtaken /\ settled' > 0 => x.copy.status # "placed"
    BY <2>1, <2>2, CommitWithoutLegs DEF SettlesNow
  <2>6. SettlesNow(x)'
    BY <2>4, <2>5 DEF SettlesNow, NothingWritten, Writes
  <2> QED
    BY <2>2, <2>4, <2>6 DEF Follows, NothingWritten, Writes
<1> QED
  BY <1>1, <1>2

\* Another request relies on what it has read, unless the commit has overtaken it.
LEMMA CommitOthersBooks ==
    ASSUME BooksInv, NEW w \in Requests, Commit(w), NEW v \in Requests \ {w}, NEW x,
           x = IF DOMAIN req[w].legs # {} /\ ~Off(req[v])
               THEN [req[v] EXCEPT !.overtaken = TRUE] ELSE req[v]
    PROVE  Follows(x)'
<1> DEFINE q == req[v]
<1>1. /\ IsRequest(q) /\ Follows(q) /\ q.save \in SUBSET Columns /\ DOMAIN q.wrote \in SUBSET Columns
      /\ q.overtaken \in BOOLEAN /\ order \in Order /\ order' \in Order /\ q.at \in Points
  BY Following, RequestFields, CommitOrder DEF BooksInv
<1>2. /\ x.at = q.at /\ x.copy = q.copy /\ x.todo = q.todo /\ x.save = q.save /\ x.wrote = q.wrote
      /\ x.legs = q.legs /\ x.paid = q.paid /\ x.locks = q.locks
  BY <1>1 DEF IsRequest, RequestOver
<1>3. \/ Off(q) /\ x = q
      \/ DOMAIN req[w].legs # {} /\ x.overtaken = TRUE
      \/ DOMAIN req[w].legs = {} /\ x = q
  BY <1>1 DEF IsRequest, RequestOver
<1>4. /\ Writes(x) = Writes(q) /\ (NothingWritten(x) <=> NothingWritten(q)) /\ (Off(x) <=> Off(q))
  BY <1>2 DEF Writes, NothingWritten, Off
<1>5. ASSUME NEW c \in Columns
      PROVE  /\ c \in Writes(q) => WillBe(x)'[c] = WillBe(q)[c]
             /\ c \notin Writes(q) => WillBe(x)'[c] = order'[c] /\ WillBe(q)[c] = order[c]
  <2>1. WillBe(x)'[c] = IF c \in q.save THEN q.copy[c]
                        ELSE IF c \in DOMAIN q.wrote THEN q.wrote[c] ELSE order'[c]
    BY <1>1, <1>2 DEF WillBe, SeenOrder, Order, Columns
  <2>2. WillBe(q)[c] = IF c \in q.save THEN q.copy[c]
                       ELSE IF c \in DOMAIN q.wrote THEN q.wrote[c] ELSE order[c]
    BY <1>1, WillBeFields
  <2> QED  BY <2>1, <2>2 DEF Writes
<1>6. "status" \in Columns /\ "payment_status" \in Columns /\ "grand_total" \in Columns
  BY DEF Columns
<1> DEFINE relies == ~x.overtaken /\ ~Off(q)
<1>7. relies => /\ x = q /\ tenders' = tenders /\ settled' = settled
                /\ SeenTenders(x)' = SeenTenders(q)
                /\ order'["payment_status"] \in {order["payment_status"], "failed"}
  BY <1>3, CommitWithoutLegs DEF SeenTenders
<1> HIDE DEF relies
<1>8. SettlesNow(x)'
  <2>1. SettlesNow(q)
    BY <1>1 DEF Follows
  <2>2. "status" \in Writes(x) => WillBe(x)'["status"] # "placed"
    BY <1>4, <1>5, <1>6, <2>1 DEF SettlesNow
  <2>3. ~Off(x) /\ ~x.overtaken /\ settled' > 0 => x.copy.status # "placed" /\ ~x.paid
    BY <1>2, <1>4, <1>7, <2>1 DEF SettlesNow, relies
  <2>4. x.paid => "status" \in Writes(x) /\ DOMAIN x.legs # {}
    BY <1>2, <1>4, <2>1 DEF SettlesNow
  <2> QED
    BY <2>2, <2>3, <2>4 DEF SettlesNow, Writes, Off
<1>9. ASSUME q.at \in {"void", "void_upi", "cancel"}
      PROVE  EmptiesLedger(x)'
  <2>1. EmptiesLedger(q) /\ ~Off(q)
    BY <1>1, <1>9 DEF Follows, Off
  <2>2. ASSUME ~x.overtaken
        PROVE  WillBe(x)'["payment_status"] \in {x.copy["payment_status"], "failed"}
    <3>1. WillBe(q)["payment_status"] \in {q.copy["payment_status"], "failed"}
      BY <1>7, <2>1, <2>2 DEF EmptiesLedger, relies
    <3> QED
      BY <1>2, <1>5, <1>6, <1>7, <2>1, <2>2, <3>1 DEF relies
  <2>3. ~x.overtaken => x = q /\ SeenTenders(x)' = SeenTenders(q)
    BY <1>7, <2>1 DEF relies
  <2> QED
    BY <1>2, <1>4, <2>1, <2>2, <2>3 DEF EmptiesLedger, Writes
<1>10. ASSUME q.at = "expired"
       PROVE  MarksFailed(x)'
  <2>1. MarksFailed(q) /\ ~Off(q)
    BY <1>1, <1>10 DEF Follows, Off
  <2>2. ~x.overtaken => x = q /\ tenders' = tenders
    BY <1>7, <2>1 DEF relies
  <2> QED
    BY <1>2, <1>4, <1>5, <1>6, <2>1, <2>2 DEF MarksFailed, Writes
<1>11. ASSUME q.at = "done"
       PROVE  (Cancels(x) \/ Discounts(x) \/ Tenders(x))'
  <2>1. ~Off(q)
    BY <1>11 DEF Off
  <2>2. ~x.overtaken => x = q /\ tenders' = tenders /\ SeenTenders(x)' = SeenTenders(q)
    BY <1>7, <2>1 DEF relies
  <2>3. CASE Cancels(q)
    <3>1. WillBe(x)'["status"] = "cancelled"
      BY <1>5, <1>6, <2>3 DEF Cancels
    <3>2. ~x.overtaken /\ DOMAIN x.legs # {} => WillBe(x)'["payment_status"] \in Unpaid
      BY <1>2, <1>5, <1>6, <1>7, <2>1, <2>3 DEF Cancels, Unpaid, relies
    <3> QED
      BY <1>2, <1>4, <2>2, <2>3, <3>1, <3>2 DEF Cancels, Writes
  <2>4. CASE Discounts(q)
    BY <1>2, <1>4, <2>2, <2>4 DEF Discounts, Writes
  <2>5. CASE Tenders(q)
    <3>1. order' = order
      <4>1. q.locks /\ ~req[w].locks
        BY <2>5 DEF Tenders, BooksInv, LedgerInv, OneLock
      <4> QED  BY <4>1, CommitOrder DEF BooksInv
    <3>2. ~x.overtaken => WillBe(x)' = WillBe(q)
      BY <2>2, <3>1 DEF WillBe, SeenOrder
    <3> QED
      BY <1>2, <1>4, <2>2, <2>5, <3>2 DEF Tenders, Writes
  <2> QED  BY <1>1, <1>11, <2>3, <2>4, <2>5 DEF Follows
<1>12. q.at \in Points \ {"void_upi", "cancel", "expired", "done"} => NothingWritten(x)
  BY <1>1, <1>4 DEF Follows
<1> QED
  BY <1>2, <1>8, <1>9, <1>10, <1>11, <1>12 DEF Follows, NothingWritten, Writes

\* What an overtaken request derives may leave the order behind its ledger.
LEMMA CommitDrifts ==
    ASSUME BooksInv, NEW w \in Requests, Commit(w)
    PROVE  /\ req[w].overtaken /\ Derives(req[w]) => drifted'
           /\ ~drifted' => DOMAIN req[w].legs # {} \/ ~drifted
           /\ DOMAIN req[w].legs # {} => Derives(req[w])
<1>1. drifted' = IF req[w].overtaken /\ Derives(req[w]) THEN TRUE
                 ELSE IF req[w].legs # <<>> THEN FALSE ELSE drifted
  BY DEF Commit
<1>2. req[w].legs = <<>> <=> DOMAIN req[w].legs = {}
  BY NoLegs, Following
<1>3. req[w].overtaken /\ Derives(req[w]) => drifted'
  BY <1>1, Zenon
<1>4. ~drifted' => req[w].legs # <<>> \/ ~drifted
  BY <1>1, Zenon
<1> QED
  BY <1>2, <1>3, <1>4 DEF Derives

LEMMA CommitStatus ==
    ASSUME BooksInv, NEW w \in Requests, Commit(w)
    PROVE  StatusFollowsLedger'
<1> DEFINE q == req[w]
<1> SUFFICES ASSUME ~drifted'
             PROVE  order'.payment_status = DerivePaymentStatus(order', tenders')
  BY DEF StatusFollowsLedger
<1>1. /\ order' = WillBe(q) /\ tenders' = SeenTenders(q) /\ Writes(q) = DOMAIN q.wrote
      /\ Cancels(q) \/ Discounts(q) \/ Tenders(q) \/ MarksFailed(q)
      /\ order \in Order /\ order' \in Order
      /\ \A c \in Columns : order'[c] = IF c \in Writes(q) THEN q.wrote[c] ELSE order[c]
  BY CommitEffect, Following, CommitOrder DEF Writes
<1>2. "payment_status" \in Columns /\ "grand_total" \in Columns
  BY DEF Columns
<1>3. ~(q.overtaken /\ Derives(q))
  BY CommitDrifts
<1>4. ASSUME Captured(tenders') = {}, order'.payment_status \in Unpaid
      PROVE  order'.payment_status = DerivePaymentStatus(order', tenders')
  BY <1>4, NothingCaptured DEF DerivePaymentStatus, Unpaid
<1>5. CASE DOMAIN q.legs # {}
  <2>1. ~q.overtaken
    BY <1>3, <1>5, CommitDrifts
  <2>2. CASE Cancels(q)
    BY <1>1, <1>4, <1>5, <2>1, <2>2 DEF Cancels
  <2>3. CASE Tenders(q)
    BY <1>1, <2>1, <2>3 DEF Tenders
  <2> QED  BY <1>1, <1>5, <2>2, <2>3 DEF Discounts, MarksFailed
<1>6. CASE DOMAIN q.legs = {}
  <2>1. tenders' = tenders
    BY <1>6, CommitWithoutLegs
  <2>2. order.payment_status = DerivePaymentStatus(order, tenders)
    BY <1>6, CommitDrifts DEF BooksInv, StatusFollowsLedger
  <2>3. ASSUME "payment_status" \notin Writes(q), "grand_total" \notin Writes(q)
        PROVE  order'.payment_status = DerivePaymentStatus(order', tenders')
    BY <1>1, <1>2, <2>1, <2>2, <2>3 DEF DerivePaymentStatus
  <2>4. CASE Cancels(q)
    BY <1>6, <2>3, <2>4 DEF Cancels, StatusColumns
  <2>5. CASE Discounts(q)
    <3>1. Derives(q) /\ "payment_status" \notin Writes(q)
      BY <1>1, <2>5 DEF Discounts, Derives, PriceColumns
    <3>2. \A t \in Ids : tenders[t] = NoTender
      BY <1>3, <2>5, <3>1 DEF Discounts
    <3>3. Captured(tenders) = {}
      BY <3>2 DEF Captured, NoTender
    <3>4. order.payment_status \in Unpaid
      BY <2>2, <3>3, NothingCaptured DEF DerivePaymentStatus, Unpaid
    <3> QED  BY <1>1, <1>2, <1>4, <2>1, <3>1, <3>3, <3>4
  <2>6. CASE MarksFailed(q)
    <3>1. CASE "payment_status" \in Writes(q)
      <4>1. Derives(q)
        BY <1>1, <3>1 DEF Derives
      <4> QED  BY <1>1, <1>3, <1>4, <2>1, <2>6, <3>1, <4>1 DEF MarksFailed, Unpaid
    <3>2. CASE "payment_status" \notin Writes(q)
      BY <2>3, <2>6, <3>2 DEF MarksFailed
    <3> QED  BY <3>1, <3>2
  <2> QED  BY <1>1, <1>6, <2>4, <2>5, <2>6 DEF Tenders
<1> QED
  BY <1>5, <1>6

LEMMA CommitBooks ==
    ASSUME BooksInv, NEW w \in Requests, Commit(w)
    PROVE  BooksInv'
<1> DEFINE After(v) ==
             IF v = w
             THEN IF req[w].at = "done" THEN Rest
                  ELSE [req[w] EXCEPT !.at = "expire_cancel", !.wrote = <<>>, !.locks = FALSE]
             ELSE IF DOMAIN req[w].legs # {} /\ ~Off(req[v])
             THEN [req[v] EXCEPT !.overtaken = TRUE] ELSE req[v]
<1>1. LedgerInv'
  BY CommitStep DEF BooksInv
<1>2. req[w].legs = <<>> <=> DOMAIN req[w].legs = {}
  BY NoLegs, Following
<1>3. req' = [v \in Requests |-> After(v)] /\ req[w].at \in {"expired", "done"}
  BY <1>2 DEF Commit
<1>4. \A v \in Requests : req'[v] = After(v)
  BY <1>3
<1>5. ASSUME NEW v \in Requests
      PROVE  Follows(req[v])'
  <2>1. PICK x : x = After(v)
    OBVIOUS
  <2>2. Follows(x)'
    <3>1. CASE v = w
      BY <1>3, <2>1, <3>1, CommitOwnBooks
    <3>2. CASE v # w
      BY <2>1, <3>2, CommitOthersBooks
    <3> QED  BY <3>1, <3>2
  <2>3. req'[v] = x
    BY <1>4, <2>1
  <2> HIDE DEF After
  <2> QED
    BY <2>2, <2>3 DEF Follows, NothingWritten, EmptiesLedger, MarksFailed, Cancels, Discounts,
       Tenders, SettlesNow, Writes, WillBe, SeenOrder, SeenTenders, Off
<1>6. settled' > 0 => order'.status # "placed"
  <2>1. CASE "status" \in Writes(req[w])
    BY <2>1, CommitEffect DEF SettlesNow
  <2>2. CASE "status" \notin Writes(req[w])
    <3>1. settled' = settled /\ order'["status"] = order["status"]
      BY <2>2, CommitEffect, Following DEF SettlesNow, Writes, Columns
    <3> QED  BY <3>1 DEF BooksInv
  <2> QED  BY <2>1, <2>2
<1> QED
  BY <1>1, <1>5, <1>6, CommitStatus DEF BooksInv

-----------------------------------------------------------------------------
(* The theorems on the order.                                              *)

LEMMA InitBooks == Init => BooksInv
<1> SUFFICES ASSUME Init PROVE BooksInv
  OBVIOUS
<1>1. LedgerInv
  BY InitLedgerInv
<1>2. Captured(tenders) = {}
  BY DEF Init, Captured, NoTender
<1>3. StatusFollowsLedger
  BY <1>2, NothingCaptured DEF Init, NewOrder, StatusFollowsLedger, DerivePaymentStatus
<1>4. \A w \in Requests : Follows(req[w])
  BY RestFollows DEF Init
<1>5. ~(settled > 0)
  BY DEF Init
<1> QED
  BY <1>1, <1>3, <1>4, <1>5 DEF BooksInv

LEMMA ProceedBooks ==
    ASSUME BooksInv, NEW w \in Requests, Proceed(w) \/ Die(w)
    PROVE  BooksInv' /\ (UNCHANGED <<order, settled>> \/ Commit(w))
<1>1. CASE \/ NothingDue(w) \/ RefuseTender(w) \/ RefuseVoid(w)
           \/ RefuseDiscount(w) \/ SkipExpired(w) \/ Die(w)
  BY <1>1, RestBooks DEF NothingDue, RefuseTender, RefuseVoid, RefuseDiscount, SkipExpired, Die
<1>2. CASE ReadBalance(w)
  BY <1>2, ReadBalanceBooks DEF ReadBalance
<1>3. CASE RecordTender(w)
  BY <1>3, RecordTenderBooks DEF RecordTender
<1>4. CASE ReadCashLegs(w) \/ ReadUpiLegs(w)
  BY <1>4, ReadLegsBooks DEF ReadCashLegs, ReadUpiLegs
<1>5. CASE \E t \in Ids : VoidTender(w, t)
  BY <1>5, VoidTenderBooks DEF VoidTender
<1>6. CASE CancelOrder(w) \/ ExpireCancel(w)
  BY <1>6, CancelBooks DEF CancelOrder, ExpireCancel
<1>7. CASE Discount(w)
  BY <1>7, DiscountBooks DEF Discount
<1>8. CASE ExpirePayment(w)
  BY <1>8, ExpirePaymentBooks DEF ExpirePayment
<1>9. CASE SaveOrder(w)
  BY <1>9, SaveOrderBooks DEF SaveOrder
<1>10. CASE Commit(w)
  BY <1>10, CommitBooks
<1> QED
  BY <1>1, <1>2, <1>3, <1>4, <1>5, <1>6, <1>7, <1>8, <1>9, <1>10 DEF Proceed

LEMMA NextBooks ==
    ASSUME BooksInv, [Next]_vars
    PROVE  BooksInv' /\ (UNCHANGED <<order, settled>> \/ \E w \in Requests : Commit(w))
<1>1. CASE UNCHANGED vars
  <2>1. LedgerInv'
    BY <1>1, NextLedgerInv DEF BooksInv
  <2>2. ASSUME NEW v \in Requests
        PROVE  Follows(req[v])'
    <3>1. PICK x : x = req[v]
      OBVIOUS
    <3>2. Follows(x)'
      BY <1>1, <3>1, Following, StillFollows DEF vars
    <3>3. req'[v] = x
      BY <1>1, <3>1 DEF vars
    <3> QED
      BY <3>2, <3>3 DEF Follows, NothingWritten, EmptiesLedger, MarksFailed, Cancels, Discounts,
         Tenders, SettlesNow, Writes, WillBe, SeenOrder, SeenTenders, Off
  <2>3. StatusFollowsLedger' /\ (settled > 0 => order.status # "placed")'
    BY <1>1 DEF vars, BooksInv, StatusFollowsLedger
  <2> QED  BY <1>1, <2>1, <2>2, <2>3 DEF BooksInv, vars
<1>2. CASE Next
  <2>1. PICK w \in Requests : BeginNext(w) \/ Proceed(w) \/ Die(w)
    BY <1>2 DEF Next
  <2>2. CASE BeginNext(w)
    <3>1. UNCHANGED <<order, settled>>
      BY <2>2 DEF BeginNext, TakeCashTender, TakeUpiTender, SettleGatewayPayment, VoidSale,
         ApplyManualDiscount, ExpireStaleOrder, Begin
    <3> QED  BY <2>2, <3>1, BeginBooks
  <2>3. CASE Proceed(w) \/ Die(w)
    BY <2>3, ProceedBooks
  <2> QED  BY <2>1, <2>2, <2>3
<1> QED
  BY <1>1, <1>2

\* The inductive invariant: what each request is going to write to the order, and the
\* ledger it has derived it from, which nobody has changed unless it is overtaken.
THEOREM BooksInvariance == Spec => []BooksInv
<1>1. Init => BooksInv
  BY InitBooks
<1>2. BooksInv /\ [Next]_vars => BooksInv'
  BY NextBooks
<1> QED
  BY <1>1, <1>2, PTL DEF Spec

\* payment_status is what the ledger says whenever no overtaken request has written
\* to the order since the last tender: sync_payment_status is called wherever the
\* ledger changes.
THEOREM StatusIsDerived == Spec => []StatusFollowsLedger
<1>1. BooksInv => StatusFollowsLedger
  BY DEF BooksInv
<1> QED
  BY <1>1, BooksInvariance, PTL

\* An order becomes PAID or COMPLETED only in a transaction that leaves a ledger
\* covering its total, or that had been overtaken.
THEOREM NoGoodsUnpaid == Spec => GoodsOnlyForMoney
<1>1. BooksInv /\ [Next]_vars =>
        [order'.status # order.status /\ order'.status \in {"paid", "completed"}
           => drifted' \/ AmountPaid(tenders') >= order'.grand_total]_vars
  <2> SUFFICES ASSUME BooksInv, Next, order'.status # order.status,
                      order'.status \in {"paid", "completed"}, ~drifted'
               PROVE  AmountPaid(tenders') >= order'.grand_total
    OBVIOUS
  <2>1. PICK w \in Requests : Commit(w)
    BY NextBooks
  <2> DEFINE q == req[w]
  <2>2. /\ order' = WillBe(q) /\ tenders' = SeenTenders(q) /\ Writes(q) = DOMAIN q.wrote
        /\ Cancels(q) \/ Discounts(q) \/ Tenders(q) \/ MarksFailed(q)
    BY <2>1, CommitEffect DEF Writes
  <2>3. "status" \in Writes(q)
    BY <2>1, <2>2, CommitEffect DEF Columns
  <2>4. Tenders(q)
    BY <2>2, <2>3 DEF Cancels, Discounts, MarksFailed, PriceColumns
  <2>5. ~q.overtaken
    BY <2>1, <2>4, CommitDrifts DEF Tenders
  <2> QED  BY <2>2, <2>3, <2>4, <2>5 DEF Tenders
<1> QED
  BY <1>1, BooksInvariance, PTL DEF Spec, GoodsOnlyForMoney

\* mark_paid runs once in the life of an order, however its tenders, voids and
\* payments overlap, unless an overtaken void has settled it from an old copy.
THEOREM MarkedPaidOnce == Spec => SettledOnce
<1>1. BooksInv /\ [Next]_vars => [settled' > settled => settled = 0 \/ drifted']_vars
  <2> SUFFICES ASSUME BooksInv, Next, settled' > settled, ~drifted'
               PROVE  settled = 0
    OBVIOUS
  <2>0. settled \in Nat
    BY DEF BooksInv, LedgerInv, TypeOK
  <2>1. PICK w \in Requests : Commit(w)
    BY <2>0, NextBooks
  <2>2. req[w].paid /\ ~Off(req[w]) /\ SettlesNow(req[w])
    BY <2>0, <2>1, CommitEffect
  <2>3. ~req[w].overtaken
    BY <2>1, <2>2, CommitDrifts DEF SettlesNow
  <2> QED  BY <2>0, <2>2, <2>3 DEF SettlesNow
<1> QED
  BY <1>1, BooksInvariance, PTL DEF Spec, SettledOnce
-----------------------------------------------------------------------------
(* Register: the rows of a drawer.                                          *)

LEMMA NoErrandType == NoErrand \in Errand
BY ShiftsAssumption DEF NoErrand, Errand, Shifts

\* One more row, late if a close overlaps.
AddedRow(r, s, kind, expense) ==
    /\ \E n \in 0 .. MaxRows : DOMAIN rows' = 1 .. n
    /\ DOMAIN rows' = DOMAIN rows \cup {r} /\ rows' \in [DOMAIN rows' -> Row]
    /\ rows'[r].shift = s /\ rows'[r].kind = kind
    /\ rows'[r].expense = IF kind = "in" THEN expense ELSE r
    /\ \A q \in DOMAIN rows : rows'[q] = rows[q]
    /\ late \subseteq late' /\ (Overlapped(s) => r \in late')

\* The row that is added is the next one.
LEMMA AddsOne ==
    ASSUME RegisterTypeOK, NEW s \in Shifts, NEW kind \in {"cash", "move", "out", "in"},
           NEW expense, kind = "in" => expense \in Rows,
           \/ Adds(s, kind, expense, TRUE)
           \/ \E c \in Clerks : clerk[c].open /\ Adds(s, kind, expense, clerk[c].open)
    PROVE  \E r \in Rows \ DOMAIN rows : AddedRow(r, s, kind, expense)
<1>1. PICK n \in 0 .. MaxRows : DOMAIN rows = 1 .. n
  BY DEF RegisterTypeOK
<1> DEFINE r == CHOOSE r \in Rows : r \notin DOMAIN rows /\ 1 .. r - 1 \subseteq DOMAIN rows
<1>2. n \in Nat /\ n < MaxRows
  <2>1. DOMAIN rows # Rows
    BY DEF Adds
  <2> QED  BY <1>1, <2>1, RowsAssumption DEF Rows
<1>3. \E x \in Rows : x \notin DOMAIN rows /\ 1 .. x - 1 \subseteq DOMAIN rows
  <2>1. n + 1 \in Rows /\ n + 1 \notin DOMAIN rows /\ 1 .. (n + 1) - 1 \subseteq DOMAIN rows
    BY <1>1, <1>2, RowsAssumption DEF Rows
  <2> QED  BY <2>1
<1>4. r \in Rows /\ r \notin DOMAIN rows /\ 1 .. r - 1 \subseteq DOMAIN rows
  BY <1>3
<1>5. /\ rows' = [q \in DOMAIN rows \cup {r} |->
                    IF q = r THEN [shift |-> s, kind |-> kind, live |-> TRUE,
                                   expense |-> IF kind = "in" THEN expense ELSE r]
                    ELSE rows[q]]
      /\ late' = IF Overlapped(s) THEN late \cup {r} ELSE late
  BY DEF Adds
<1> HIDE DEF r
<1>6. r = n + 1
  <2>1. r - 1 <= n
    BY <1>1, <1>2, <1>4 DEF Rows
  <2>2. r > n
    BY <1>1, <1>2, <1>4 DEF Rows
  <2> QED  BY <1>2, <1>4, <2>1, <2>2 DEF Rows
<1>7. DOMAIN rows' = DOMAIN rows \cup {r}
  BY <1>5
<1>8. DOMAIN rows' = 1 .. (n + 1) /\ n + 1 \in 0 .. MaxRows
  BY <1>1, <1>2, <1>6, <1>7, RowsAssumption
<1>9. rows'[r] = [shift |-> s, kind |-> kind, live |-> TRUE,
                  expense |-> IF kind = "in" THEN expense ELSE r]
      /\ \A q \in DOMAIN rows : rows'[q] = rows[q]
  BY <1>4, <1>5
<1>10. rows'[r] \in Row
  BY <1>4, <1>9 DEF Row
<1>11. rows' \in [DOMAIN rows' -> Row]
  <2>1. \A q \in DOMAIN rows' : rows'[q] \in Row
    BY <1>7, <1>9, <1>10 DEF RegisterTypeOK
  <2>2. rows' = [q \in DOMAIN rows' |-> rows'[q]]
    BY <1>5
  <2> QED  BY <2>1, <2>2
<1>12. late \subseteq late' /\ (Overlapped(s) => r \in late')
  <2>1. CASE Overlapped(s)
    BY <1>5, <2>1
  <2>2. CASE ~Overlapped(s)
    BY <1>5, <2>2
  <2> QED  BY <2>1, <2>2
<1>13. rows'[r].shift = s /\ rows'[r].kind = kind
       /\ rows'[r].expense = IF kind = "in" THEN expense ELSE r
  BY <1>9
<1>14. AddedRow(r, s, kind, expense)
  BY <1>7, <1>8, <1>9, <1>11, <1>12, <1>13 DEF AddedRow
<1> QED
  BY <1>4, <1>14

\* A row whose writer has found its shift open is in every count of the shift, or late.
LEMMA AddedCounts ==
    ASSUME DrawerInv, NEW r \in Rows \ DOMAIN rows, NEW s \in Shifts, NEW kind, NEW expense,
           AddedRow(r, s, kind, expense), shifts' = shifts,
           \A d \in Clerks : clerk'[d] \in {clerk[d], NoErrand}
    PROVE  SumsAreFresh' /\ CountedOrOvertaken'
<1>1. \A t \in Shifts : /\ CashOf(t)' \subseteq CashOf(t) \cup {r}
                        /\ MovementsOf(t)' \subseteq MovementsOf(t) \cup {r}
                        /\ t # s => r \notin CashOf(t)' /\ r \notin MovementsOf(t)'
  BY DEF CashOf, MovementsOf, AddedRow
<1>2. SumsAreFresh'
  <2> SUFFICES ASSUME NEW c \in Clerks, NEW t, clerk'[c].job = "close", clerk'[c].shift = t
               PROVE  /\ clerk'[c].phase # "read" => CashOf(t)' \ clerk'[c].seen \subseteq late'
                      /\ clerk'[c].phase = "movements" =>
                           MovementsOf(t)' \ clerk'[c].seen \subseteq late'
    BY DEF SumsAreFresh, CashOf, MovementsOf
  <2>1. clerk'[c] = clerk[c]
    BY DEF NoErrand
  <2>2. t \in Shifts
    BY <2>1 DEF DrawerInv, RegisterTypeOK, Errand
  <2>3. /\ clerk[c].phase # "read" => CashOf(t) \ clerk[c].seen \subseteq late
        /\ clerk[c].phase = "movements" => MovementsOf(t) \ clerk[c].seen \subseteq late
    BY <2>1 DEF DrawerInv, SumsAreFresh
  <2>4. t = s /\ clerk[c].phase # "read" => r \in late'
    BY <2>1 DEF Overlapped, AddedRow
  <2> QED
    BY <1>1, <2>1, <2>2, <2>3, <2>4 DEF AddedRow
<1>3. CountedOrOvertaken'
  <2> SUFFICES ASSUME NEW t \in Shifts, shifts[t].status = "closed"
               PROVE  (CashOf(t)' \cup MovementsOf(t)') \ shifts[t].counted \subseteq late'
    BY DEF CountedOrOvertaken, CashOf, MovementsOf
  <2>1. t = s => r \in late'
    BY DEF Overlapped, Open, AddedRow
  <2> QED
    BY <1>1, <2>1 DEF DrawerInv, CountedOrOvertaken, AddedRow
<1> QED
  BY <1>2, <1>3

\* The other requests when one is over.
LEMMA OthersStay ==
    ASSUME DrawerInv, \A d \in Clerks : clerk'[d] \in {clerk[d], NoErrand},
           clerk' = [d \in Clerks |-> clerk'[d]]
    PROVE  /\ clerk' \in [Clerks -> Errand] /\ WritersFoundOpen'
           /\ \A c, d \in Clerks : clerk'[c].spent = clerk'[d].spent /\ clerk'[c].spent # 0 => c = d
           /\ \A c \in Clerks : clerk'[c].spent # 0 => clerk'[c].job = "void_expense"
           /\ \A c \in Clerks : clerk'[c].job = "void_expense" => clerk'[c] = clerk[c]
<1>1. clerk' \in [Clerks -> Errand]
  BY NoErrandType DEF DrawerInv, RegisterTypeOK
<1>2. NoErrand.spent = 0 /\ NoErrand.job = "none"
  BY DEF NoErrand
<1>3. WritersFoundOpen'
  BY <1>2 DEF DrawerInv, WritersFoundOpen
<1> QED
  BY <1>1, <1>2, <1>3 DEF DrawerInv, OneVoids

LEMMA ReturnsStay ==
    ASSUME DrawerInv, NEW c \in Clerks, Returns(c)
    PROVE  /\ \A d \in Clerks : clerk'[d] \in {clerk[d], NoErrand}
           /\ clerk'[c] = NoErrand
           /\ clerk' = [d \in Clerks |-> clerk'[d]]
BY DEF Returns, DrawerInv, RegisterTypeOK

\* An expense that is neither voided nor new keeps the rows that put it back.
LEMMA BackStays ==
    ASSUME NEW e, NEW r, r \notin DOMAIN rows, DOMAIN rows' = DOMAIN rows \cup {r},
           \A q \in DOMAIN rows : rows'[q] = rows[q],
           rows'[r].kind # "in" \/ rows'[r].expense # e
    PROVE  {q \in DOMAIN rows' : rows'[q].kind = "in" /\ rows'[q].expense = e}
             = {q \in DOMAIN rows : rows[q].kind = "in" /\ rows[q].expense = e}
OBVIOUS

LEMMA TakesCashInv ==
    ASSUME DrawerInv, NEW c \in Clerks, TakesCash(c)
    PROVE  DrawerInv'
<1> DEFINE s == clerk[c].shift
           kind == clerk[c].job
<1>1. /\ s \in Shifts /\ kind \in {"cash", "move"} /\ clerk[c].open
      /\ Adds(s, kind, 0, clerk[c].open) /\ Returns(c) /\ UNCHANGED <<shifts, expenses>>
  BY DEF TakesCash, DrawerInv, RegisterTypeOK, Errand, WritersFoundOpen
<1>2. RegisterTypeOK
  BY DEF DrawerInv
<1> HIDE DEF s, kind
<1>3. PICK r \in Rows \ DOMAIN rows : AddedRow(r, s, kind, 0)
  BY <1>1, <1>2, AddsOne
<1>4. SumsAreFresh' /\ CountedOrOvertaken'
  BY <1>1, <1>3, AddedCounts, ReturnsStay
<1>5. /\ clerk' \in [Clerks -> Errand] /\ WritersFoundOpen' /\ OneVoids'
  BY <1>1, ReturnsStay, OthersStay DEF DrawerInv, OneVoids
<1>6. RegisterTypeOK'
  BY <1>1, <1>3, <1>5 DEF DrawerInv, RegisterTypeOK, AddedRow
<1>7. ExpensesHaveRows'
  BY <1>1, <1>3 DEF DrawerInv, ExpensesHaveRows, AddedRow
<1>8. ExpensesBalance'
  <2> SUFFICES ASSUME NEW e \in DOMAIN expenses
               PROVE  LET back == {q \in DOMAIN rows' : rows'[q].kind = "in" /\ rows'[q].expense = e}
                      IN  /\ expenses'[e] = "voided" <=> back # {}
                          /\ \A p, q \in back : p = q /\ rows'[p].shift = rows'[e].shift
    BY <1>1 DEF ExpensesBalance
  <2>1. {q \in DOMAIN rows' : rows'[q].kind = "in" /\ rows'[q].expense = e}
          = {q \in DOMAIN rows : rows[q].kind = "in" /\ rows[q].expense = e}
    BY <1>1, <1>3, BackStays DEF AddedRow
  <2>2. rows'[e] = rows[e] /\ \A q \in DOMAIN rows : rows'[q] = rows[q]
    BY <1>3 DEF DrawerInv, ExpensesHaveRows, AddedRow
  <2> QED
    BY <1>1, <2>1, <2>2 DEF DrawerInv, ExpensesBalance
<1> QED
  BY <1>4, <1>5, <1>6, <1>7, <1>8 DEF DrawerInv

LEMMA RecordExpenseInv ==
    ASSUME DrawerInv, NEW s \in Shifts, RecordExpense(s)
    PROVE  DrawerInv'
<1>1. Adds(s, "out", 0, TRUE) /\ UNCHANGED <<shifts, clerk>> /\ RegisterTypeOK
  BY DEF RecordExpense, DrawerInv
<1>2. PICK r \in Rows \ DOMAIN rows : AddedRow(r, s, "out", 0)
  BY <1>1, AddsOne
<1>3. /\ DOMAIN expenses' = DOMAIN expenses \cup {r} /\ r \notin DOMAIN expenses
      /\ expenses'[r] = "live" /\ \A e \in DOMAIN expenses : expenses'[e] = expenses[e]
      /\ expenses' \in [DOMAIN expenses' -> {"live", "voided"}]
  <2>1. r \notin DOMAIN expenses
    BY DEF DrawerInv, ExpensesHaveRows
  <2>2. expenses' = [q \in DOMAIN expenses \cup {r} |->
                       IF q \in DOMAIN expenses THEN expenses[q] ELSE "live"]
    BY <1>2 DEF RecordExpense, AddedRow
  <2> QED  BY <1>1, <2>1, <2>2 DEF RegisterTypeOK
<1>4. SumsAreFresh' /\ CountedOrOvertaken'
  BY <1>1, <1>2, AddedCounts
<1>5. WritersFoundOpen' /\ OneVoids'
  BY <1>1, <1>3 DEF DrawerInv, WritersFoundOpen, OneVoids
<1>6. RegisterTypeOK'
  BY <1>1, <1>2, <1>3 DEF RegisterTypeOK, AddedRow
<1>7. ExpensesHaveRows'
  BY <1>2, <1>3 DEF DrawerInv, ExpensesHaveRows, AddedRow
<1>8. ExpensesBalance'
  <2> SUFFICES ASSUME NEW e \in DOMAIN expenses'
               PROVE  LET back == {q \in DOMAIN rows' : rows'[q].kind = "in" /\ rows'[q].expense = e}
                      IN  /\ expenses'[e] = "voided" <=> back # {}
                          /\ \A p, q \in back : p = q /\ rows'[p].shift = rows'[e].shift
    BY DEF ExpensesBalance
  <2>1. CASE e = r
    <3>1. {q \in DOMAIN rows' : rows'[q].kind = "in" /\ rows'[q].expense = e} = {}
      <4> SUFFICES ASSUME NEW q \in DOMAIN rows', rows'[q].kind = "in", rows'[q].expense = r
                   PROVE  FALSE
        BY <2>1
      <4>1. q \in DOMAIN rows /\ rows'[q] = rows[q]
        BY <1>2 DEF AddedRow
      <4> QED  BY <1>3, <4>1 DEF DrawerInv, ExpensesHaveRows
    <3> QED  BY <1>3, <2>1, <3>1
  <2>2. CASE e # r
    <3>1. {q \in DOMAIN rows' : rows'[q].kind = "in" /\ rows'[q].expense = e}
            = {q \in DOMAIN rows : rows[q].kind = "in" /\ rows[q].expense = e}
      BY <1>2, BackStays DEF AddedRow
    <3>2. e \in DOMAIN expenses /\ rows'[e] = rows[e] /\ \A q \in DOMAIN rows : rows'[q] = rows[q]
      BY <1>2, <1>3, <2>2 DEF DrawerInv, ExpensesHaveRows, AddedRow
    <3> QED  BY <1>3, <3>1, <3>2 DEF DrawerInv, ExpensesBalance
  <2> QED  BY <2>1, <2>2
<1> QED
  BY <1>4, <1>5, <1>6, <1>7, <1>8 DEF DrawerInv

LEMMA VoidsExpenseInv ==
    ASSUME DrawerInv, NEW c \in Clerks, VoidsExpense(c)
    PROVE  DrawerInv'
<1> DEFINE e == clerk[c].spent
           s == rows[e].shift
<1>1. /\ clerk[c].job = "void_expense" /\ Adds(s, "in", e, TRUE) /\ Returns(c)
      /\ expenses' = [expenses EXCEPT ![e] = "voided"] /\ UNCHANGED shifts /\ RegisterTypeOK
  BY DEF VoidsExpense, DrawerInv
<1>2. e \in DOMAIN expenses /\ expenses[e] = "live" /\ e \in DOMAIN rows
  BY <1>1 DEF DrawerInv, OneVoids, ExpensesHaveRows
<1>3. s \in Shifts /\ e \in Rows
  <2>1. e \in Rows
    BY <1>1, <1>2, RowsAssumption DEF RegisterTypeOK, Rows
  <2> QED  BY <1>1, <1>2, <2>1 DEF RegisterTypeOK, Row
<1> HIDE DEF e, s
<1>4. PICK r \in Rows \ DOMAIN rows : AddedRow(r, s, "in", e)
  BY <1>1, <1>3, AddsOne
<1>5. SumsAreFresh' /\ CountedOrOvertaken'
  BY <1>1, <1>3, <1>4, AddedCounts, ReturnsStay
<1>6. /\ DOMAIN expenses' = DOMAIN expenses /\ expenses'[e] = "voided"
      /\ \A x \in DOMAIN expenses : x # e => expenses'[x] = expenses[x]
      /\ expenses' \in [DOMAIN expenses' -> {"live", "voided"}]
  BY <1>1, <1>2 DEF RegisterTypeOK
<1>7. clerk' \in [Clerks -> Errand] /\ WritersFoundOpen' /\ OneVoids'
  <2>1. ASSUME NEW d \in Clerks, clerk'[d].job = "void_expense"
        PROVE  clerk'[d].spent \in DOMAIN expenses /\ clerk'[d].spent # e /\ clerk'[d] = clerk[d]
    <3>1. clerk'[d] = clerk[d] /\ d # c
      BY <1>1, <2>1, ReturnsStay, OthersStay DEF NoErrand
    <3>2. e # 0
      BY <1>3, RowsAssumption DEF Rows
    <3> QED
      BY <2>1, <3>1, <3>2 DEF DrawerInv, OneVoids, e
  <2>2. \A d \in Clerks : clerk'[d].job = "void_expense" => expenses'[clerk'[d].spent] = "live"
    BY <1>6, <2>1 DEF DrawerInv, OneVoids
  <2> QED
    BY <1>1, <1>6, <2>1, <2>2, ReturnsStay, OthersStay DEF OneVoids
<1>8. RegisterTypeOK'
  BY <1>1, <1>4, <1>6, <1>7 DEF RegisterTypeOK, AddedRow
<1>9. ExpensesHaveRows'
  <2>1. /\ DOMAIN rows' = DOMAIN rows \cup {r} /\ rows'[r].expense = e
        /\ \A q \in DOMAIN rows : rows'[q] = rows[q]
    BY <1>4 DEF AddedRow
  <2>2. \A x \in DOMAIN expenses : x \in DOMAIN rows /\ rows[x].kind = "out"
    BY DEF DrawerInv, ExpensesHaveRows
  <2>3. \A q \in DOMAIN rows : rows[q].kind = "in" => rows[q].expense \in DOMAIN expenses
    BY DEF DrawerInv, ExpensesHaveRows
  <2> QED  BY <1>2, <1>6, <2>1, <2>2, <2>3 DEF ExpensesHaveRows
<1>10. ExpensesBalance'
  <2>1. ~ \E q \in DOMAIN rows : rows[q].kind = "in" /\ rows[q].expense = e
    BY <1>2 DEF DrawerInv, ExpensesBalance
  <2>2. \A x \in DOMAIN expenses : rows'[x] = rows[x]
    BY <1>4 DEF DrawerInv, ExpensesHaveRows, AddedRow
  <2>3. rows'[e].shift = s
    BY <1>2, <2>2 DEF s
  <2> SUFFICES ASSUME NEW x \in DOMAIN expenses
               PROVE  LET back == {q \in DOMAIN rows' : rows'[q].kind = "in" /\ rows'[q].expense = x}
                      IN  /\ expenses'[x] = "voided" <=> back # {}
                          /\ \A p, q \in back : p = q /\ rows'[p].shift = rows'[x].shift
    BY <1>6 DEF ExpensesBalance
  <2>4. CASE x = e
    <3>1. {q \in DOMAIN rows' : rows'[q].kind = "in" /\ rows'[q].expense = x} = {r}
      BY <1>4, <2>1, <2>4 DEF AddedRow
    <3> QED  BY <1>4, <1>6, <2>3, <2>4, <3>1 DEF AddedRow
  <2>5. CASE x # e
    <3>1. {q \in DOMAIN rows' : rows'[q].kind = "in" /\ rows'[q].expense = x}
            = {q \in DOMAIN rows : rows[q].kind = "in" /\ rows[q].expense = x}
      BY <1>4, <2>5, BackStays DEF AddedRow
    <3> QED  BY <1>4, <1>6, <2>2, <2>5, <3>1 DEF DrawerInv, ExpensesBalance, AddedRow
  <2> QED  BY <2>4, <2>5
<1> QED
  BY <1>5, <1>7, <1>8, <1>9, <1>10 DEF DrawerInv

\* Steps that leave the rows and the expenses as they are.
LEMMA RowsStay ==
    ASSUME DrawerInv, UNCHANGED <<rows, expenses, late>>,
           shifts' \in [Shifts -> [status : {"none", "open", "closed"}, counted : SUBSET Rows]],
           clerk' \in [Clerks -> Errand], SumsAreFresh', WritersFoundOpen', OneVoids',
           CountedOrOvertaken'
    PROVE  DrawerInv'
BY DEF DrawerInv, RegisterTypeOK, ExpensesHaveRows, ExpensesBalance

LEMMA OpenShiftInv ==
    ASSUME DrawerInv, NEW s \in Shifts, OpenShift(s)
    PROVE  DrawerInv'
<1>1. /\ shifts' = [shifts EXCEPT ![s].status = "open"]
      /\ UNCHANGED <<rows, expenses, clerk, late>>
  BY DEF OpenShift
<1>2. /\ shifts' \in [Shifts -> [status : {"none", "open", "closed"}, counted : SUBSET Rows]]
      /\ \A t \in Shifts : shifts'[t].status = "closed" => shifts'[t] = shifts[t]
  BY <1>1 DEF DrawerInv, RegisterTypeOK
<1>3. CountedOrOvertaken'
  BY <1>1, <1>2 DEF DrawerInv, CountedOrOvertaken, CashOf, MovementsOf
<1>4. SumsAreFresh' /\ WritersFoundOpen' /\ OneVoids'
  BY <1>1 DEF DrawerInv, SumsAreFresh, WritersFoundOpen, OneVoids, CashOf, MovementsOf
<1> QED
  BY <1>1, <1>2, <1>3, <1>4, RowsStay DEF DrawerInv, RegisterTypeOK

\* A request that begins, or goes on, with errand e.
LEMMA ErrandStep ==
    ASSUME DrawerInv, NEW c \in Clerks, NEW e \in Errand,
           clerk' = [clerk EXCEPT ![c] = e], UNCHANGED <<shifts, rows, expenses, late>>,
           e.job = "close" =>
             /\ e.phase # "read" => CashOf(e.shift) \ e.seen \subseteq late
             /\ e.phase = "movements" => MovementsOf(e.shift) \ e.seen \subseteq late,
           e.job \in {"cash", "move"} => e.open,
           e.job = "void_expense" => e.spent \in DOMAIN expenses /\ expenses[e.spent] = "live",
           e.spent # 0 => e.job = "void_expense" /\ \A d \in Clerks \ {c} : clerk[d].spent # e.spent
    PROVE  DrawerInv'
<1>1. clerk' \in [Clerks -> Errand] /\ \A d \in Clerks : clerk'[d] = IF d = c THEN e ELSE clerk[d]
  BY DEF DrawerInv, RegisterTypeOK
<1>2. \A s : CashOf(s)' = CashOf(s) /\ MovementsOf(s)' = MovementsOf(s)
  BY DEF CashOf, MovementsOf
<1>3. SumsAreFresh'
  <2> SUFFICES ASSUME NEW d \in Clerks, NEW t, clerk'[d].job = "close", clerk'[d].shift = t
               PROVE  /\ clerk'[d].phase # "read" => CashOf(t) \ clerk'[d].seen \subseteq late
                      /\ clerk'[d].phase = "movements" =>
                           MovementsOf(t) \ clerk'[d].seen \subseteq late
    BY DEF SumsAreFresh, CashOf, MovementsOf
  <2> QED  BY <1>1 DEF DrawerInv, SumsAreFresh
<1>4. WritersFoundOpen'
  BY <1>1 DEF DrawerInv, WritersFoundOpen
<1>5. OneVoids'
  BY <1>1 DEF DrawerInv, OneVoids
<1>6. CountedOrOvertaken'
  BY <1>2 DEF DrawerInv, CountedOrOvertaken, CashOf, MovementsOf
<1> QED
  BY <1>1, <1>3, <1>4, <1>5, <1>6, RowsStay DEF DrawerInv, RegisterTypeOK

LEMMA ReadsShiftInv ==
    ASSUME DrawerInv, NEW c \in Clerks, NEW s \in Shifts, NEW job \in {"cash", "move", "close"},
           ReadsShift(c, job, s)
    PROVE  DrawerInv'
<1>1. PICK e : /\ e = [NoErrand EXCEPT !.job = job, !.shift = s, !.open = Open(s)]
               /\ clerk' = [clerk EXCEPT ![c] = e] /\ UNCHANGED <<shifts, rows, expenses, late>>
  BY DEF ReadsShift
<1>2. Open(s) = TRUE
  BY DEF ReadsShift, FoundOpen, Open
<1>3. e = [NoErrand EXCEPT !.job = job, !.shift = s, !.open = TRUE]
  BY <1>1, <1>2
<1>4. e \in Errand /\ e.job = job /\ e.phase = "read" /\ e.open = TRUE /\ e.spent = 0
  BY <1>3 DEF NoErrand, Errand
<1> QED
  BY <1>1, <1>4, ErrandStep

LEMMA ReadsToVoidInv ==
    ASSUME DrawerInv, NEW c \in Clerks, NEW x \in DOMAIN expenses, ReadsToVoid(c, x)
    PROVE  DrawerInv'
<1>1. PICK e : /\ e = [NoErrand EXCEPT !.job = "void_expense", !.shift = rows[x].shift,
                                       !.open = TRUE, !.spent = x]
               /\ clerk' = [clerk EXCEPT ![c] = e] /\ UNCHANGED <<shifts, rows, expenses, late>>
  BY DEF ReadsToVoid
<1>2. x \in DOMAIN rows /\ rows[x].shift \in Shifts /\ x \in Rows
  <2>1. x \in DOMAIN rows
    BY DEF DrawerInv, ExpensesHaveRows
  <2> QED  BY <2>1, RowsAssumption DEF DrawerInv, RegisterTypeOK, Row, Rows
<1>3. /\ e \in Errand /\ e.job = "void_expense" /\ e.spent = x
  BY <1>1, <1>2 DEF NoErrand, Errand
<1>4. expenses[x] = "live" /\ \A d \in Clerks : clerk[d].spent # x
  BY DEF ReadsToVoid, LocksExpense
<1> QED
  BY <1>1, <1>3, <1>4, ErrandStep

LEMMA SumsInv ==
    ASSUME DrawerInv, NEW c \in Clerks, SumsTenders(c) \/ SumsMovements(c)
    PROVE  DrawerInv'
<1> DEFINE q == clerk[c]
<1>1. /\ q \in Errand /\ q.shift \in Shifts /\ q.seen \in SUBSET Rows /\ q.job = "close"
      /\ UNCHANGED <<shifts, rows, expenses, late>> /\ q.spent = 0
  BY DEF DrawerInv, RegisterTypeOK, Errand, SumsTenders, SumsMovements, OneVoids
<1>2. DOMAIN rows \subseteq Rows
  BY RowsAssumption DEF DrawerInv, RegisterTypeOK, Rows
<1>3. CASE SumsTenders(c)
  <2>1. PICK e : e = [q EXCEPT !.phase = "tenders", !.seen = CashOf(q.shift)]
    OBVIOUS
  <2>2. clerk' = [clerk EXCEPT ![c] = e]
    BY <1>3, <2>1 DEF SumsTenders
  <2>3. CashOf(q.shift) \in SUBSET Rows
    BY <1>2 DEF CashOf
  <2>4. /\ e \in Errand /\ e.job = "close" /\ e.phase = "tenders" /\ e.shift = q.shift
        /\ e.seen = CashOf(q.shift) /\ e.spent = 0
    BY <1>1, <2>1, <2>3 DEF Errand
  <2> QED  BY <1>1, <2>2, <2>4, ErrandStep
<1>4. CASE SumsMovements(c)
  <2>1. PICK e : e = [q EXCEPT !.phase = "movements", !.seen = q.seen \cup MovementsOf(q.shift)]
    OBVIOUS
  <2>2. clerk' = [clerk EXCEPT ![c] = e]
    BY <1>4, <2>1 DEF SumsMovements
  <2>3. MovementsOf(q.shift) \in SUBSET Rows
    BY <1>2 DEF MovementsOf
  <2>4. /\ e \in Errand /\ e.job = "close" /\ e.phase = "movements" /\ e.shift = q.shift
        /\ e.seen = q.seen \cup MovementsOf(q.shift) /\ e.spent = 0
    BY <1>1, <2>1, <2>3 DEF Errand
  <2>5. CashOf(q.shift) \ q.seen \subseteq late
    BY <1>1, <1>4 DEF DrawerInv, SumsAreFresh, SumsMovements
  <2> QED  BY <1>1, <2>2, <2>4, <2>5, ErrandStep
<1> QED
  BY <1>3, <1>4

LEMMA GivesUpInv ==
    ASSUME DrawerInv, NEW c \in Clerks, GivesUp(c)
    PROVE  DrawerInv'
<1>1. NoErrand.job = "none" /\ NoErrand.spent = 0
  BY DEF NoErrand
<1> QED
  BY <1>1, NoErrandType, ErrandStep DEF GivesUp, Returns

LEMMA CloseShiftInv ==
    ASSUME DrawerInv, NEW c \in Clerks, CloseShift(c)
    PROVE  DrawerInv'
<1> DEFINE s == clerk[c].shift
           seen == clerk[c].seen
<1>1. /\ clerk[c].job = "close" /\ clerk[c].phase = "movements" /\ Returns(c)
      /\ shifts' = [shifts EXCEPT ![s] = [status |-> "closed", counted |-> seen]]
      /\ UNCHANGED <<rows, expenses, late>>
  BY DEF CloseShift
<1>2. s \in Shifts /\ seen \in SUBSET Rows
  BY DEF DrawerInv, RegisterTypeOK, Errand
<1>3. (CashOf(s) \cup MovementsOf(s)) \ seen \subseteq late
  BY <1>1 DEF DrawerInv, SumsAreFresh
<1> HIDE DEF s, seen
<1>4. /\ shifts' \in [Shifts -> [status : {"none", "open", "closed"}, counted : SUBSET Rows]]
      /\ shifts'[s].counted = seen /\ \A t \in Shifts \ {s} : shifts'[t] = shifts[t]
  BY <1>1, <1>2 DEF DrawerInv, RegisterTypeOK
<1>5. \A t : CashOf(t)' = CashOf(t) /\ MovementsOf(t)' = MovementsOf(t)
  BY <1>1 DEF CashOf, MovementsOf
<1>6. CountedOrOvertaken'
  <2> SUFFICES ASSUME NEW t \in Shifts, shifts'[t].status = "closed"
               PROVE  (CashOf(t) \cup MovementsOf(t)) \ shifts'[t].counted \subseteq late
    BY <1>1 DEF CountedOrOvertaken, CashOf, MovementsOf
  <2> QED  BY <1>2, <1>3, <1>4 DEF DrawerInv, CountedOrOvertaken
<1>7. /\ \A d \in Clerks : clerk'[d] \in {clerk[d], NoErrand}
      /\ clerk' \in [Clerks -> Errand] /\ WritersFoundOpen' /\ OneVoids'
  BY <1>1, ReturnsStay, OthersStay DEF DrawerInv, OneVoids
<1>8. SumsAreFresh'
  <2> SUFFICES ASSUME NEW d \in Clerks, NEW t, clerk'[d].job = "close", clerk'[d].shift = t
               PROVE  /\ clerk'[d].phase # "read" => CashOf(t) \ clerk'[d].seen \subseteq late
                      /\ clerk'[d].phase = "movements" =>
                           MovementsOf(t) \ clerk'[d].seen \subseteq late
    BY <1>1 DEF SumsAreFresh, CashOf, MovementsOf
  <2>1. clerk'[d] = clerk[d]
    BY <1>7 DEF NoErrand
  <2> QED  BY <2>1 DEF DrawerInv, SumsAreFresh
<1> QED
  BY <1>1, <1>4, <1>6, <1>7, <1>8, RowsStay

\* A voided tender is no cash of its shift any longer.
LEMMA VoidsSaleInv ==
    ASSUME DrawerInv, NEW r \in DOMAIN rows, VoidsSale(r)
    PROVE  DrawerInv'
<1>1. rows' = [rows EXCEPT ![r].live = FALSE] /\ UNCHANGED <<shifts, expenses, clerk, late>>
  BY DEF VoidsSale
<1>2. /\ DOMAIN rows' = DOMAIN rows /\ rows' \in [DOMAIN rows -> Row]
      /\ \A q \in DOMAIN rows : /\ rows'[q].shift = rows[q].shift /\ rows'[q].kind = rows[q].kind
                                /\ rows'[q].expense = rows[q].expense
                                /\ rows'[q].live => rows[q].live
  BY <1>1 DEF DrawerInv, RegisterTypeOK, Row
<1>3. \A s : CashOf(s)' \subseteq CashOf(s) /\ MovementsOf(s)' = MovementsOf(s)
  BY <1>2 DEF CashOf, MovementsOf
<1>4. SumsAreFresh'
  <2> SUFFICES ASSUME NEW d \in Clerks, NEW t, clerk[d].job = "close", clerk[d].shift = t
               PROVE  /\ clerk[d].phase # "read" => CashOf(t)' \ clerk[d].seen \subseteq late
                      /\ clerk[d].phase = "movements" => MovementsOf(t)' \ clerk[d].seen \subseteq late
    BY <1>1 DEF SumsAreFresh, CashOf, MovementsOf
  <2> QED  BY <1>3 DEF DrawerInv, SumsAreFresh
<1>5. CountedOrOvertaken'
  <2> SUFFICES ASSUME NEW t \in Shifts, shifts[t].status = "closed"
               PROVE  (CashOf(t)' \cup MovementsOf(t)') \ shifts[t].counted \subseteq late
    BY <1>1 DEF CountedOrOvertaken, CashOf, MovementsOf
  <2> QED  BY <1>3 DEF DrawerInv, CountedOrOvertaken
<1>6. RegisterTypeOK' /\ WritersFoundOpen' /\ OneVoids'
  BY <1>1, <1>2 DEF DrawerInv, RegisterTypeOK, WritersFoundOpen, OneVoids
<1>7. ExpensesHaveRows'
  BY <1>1, <1>2 DEF DrawerInv, ExpensesHaveRows
<1>8. ExpensesBalance'
  <2> SUFFICES ASSUME NEW e \in DOMAIN expenses
               PROVE  LET back == {q \in DOMAIN rows' : rows'[q].kind = "in" /\ rows'[q].expense = e}
                      IN  /\ expenses[e] = "voided" <=> back # {}
                          /\ \A p, q \in back : p = q /\ rows'[p].shift = rows'[e].shift
    BY <1>1 DEF ExpensesBalance
  <2>1. {q \in DOMAIN rows' : rows'[q].kind = "in" /\ rows'[q].expense = e}
          = {q \in DOMAIN rows : rows[q].kind = "in" /\ rows[q].expense = e}
    BY <1>2
  <2> QED  BY <1>2, <2>1 DEF DrawerInv, ExpensesBalance, ExpensesHaveRows
<1> QED
  BY <1>4, <1>5, <1>6, <1>7, <1>8 DEF DrawerInv

LEMMA DrawerInit == RegisterInit => DrawerInv
<1> SUFFICES ASSUME RegisterInit PROVE DrawerInv
  OBVIOUS
<1>1. DOMAIN rows = {} /\ DOMAIN expenses = {} /\ DOMAIN rows = 1 .. 0
  BY DEF RegisterInit
<1>2. RegisterTypeOK
  <2>1. /\ rows \in [DOMAIN rows -> Row] /\ expenses \in [DOMAIN expenses -> {"live", "voided"}]
        /\ 0 \in 0 .. MaxRows
    BY <1>1, RowsAssumption DEF RegisterInit
  <2>2. shifts \in [Shifts -> [status : {"none", "open", "closed"}, counted : SUBSET Rows]]
    BY DEF RegisterInit
  <2> QED  BY <1>1, <2>1, <2>2, NoErrandType DEF RegisterInit, RegisterTypeOK
<1>3. SumsAreFresh /\ WritersFoundOpen /\ OneVoids
  BY DEF RegisterInit, SumsAreFresh, WritersFoundOpen, OneVoids, NoErrand
<1>4. ExpensesHaveRows /\ CountedOrOvertaken /\ ExpensesBalance
  BY <1>1 DEF RegisterInit, ExpensesHaveRows, CountedOrOvertaken, ExpensesBalance
<1> QED
  BY <1>2, <1>3, <1>4 DEF DrawerInv

LEMMA DrawerNext ==
    ASSUME DrawerInv, [RegisterNext]_registerVars
    PROVE  DrawerInv'
<1>1. CASE UNCHANGED registerVars
  BY <1>1 DEF registerVars, DrawerInv, RegisterTypeOK, SumsAreFresh, WritersFoundOpen,
     ExpensesHaveRows, OneVoids, CountedOrOvertaken, ExpensesBalance, CashOf, MovementsOf
<1>2. ASSUME NEW s \in Shifts,
             \/ OpenShift(s) \/ RecordExpense(s)
             \/ \E c \in Clerks, job \in {"cash", "move", "close"} : ReadsShift(c, job, s)
      PROVE  DrawerInv'
  BY <1>2, OpenShiftInv, RecordExpenseInv, ReadsShiftInv
<1>3. ASSUME NEW r \in DOMAIN rows, VoidsSale(r)
      PROVE  DrawerInv'
  BY <1>3, VoidsSaleInv
<1>4. ASSUME NEW c \in Clerks,
             \/ TakesCash(c) \/ VoidsExpense(c)
             \/ \E e \in DOMAIN expenses : ReadsToVoid(c, e)
             \/ SumsTenders(c) \/ SumsMovements(c) \/ CloseShift(c) \/ GivesUp(c)
      PROVE  DrawerInv'
  BY <1>4, TakesCashInv, VoidsExpenseInv, ReadsToVoidInv, SumsInv, CloseShiftInv, GivesUpInv
<1> QED
  BY <1>1, <1>2, <1>3, <1>4 DEF RegisterNext

\* The inductive invariant: a request that closes a shift has seen every row of it but
\* those of requests it has overlapped, and an expense is voided under its lock.
THEOREM DrawerInvariance == RegisterSpec => []DrawerInv
<1>1. RegisterInit => DrawerInv
  BY DrawerInit
<1>2. DrawerInv /\ [RegisterNext]_registerVars => DrawerInv'
  BY DrawerNext
<1> QED
  BY <1>1, <1>2, PTL DEF RegisterSpec

\* close_shift counts every row of the shift, however many closes overlap, but those of
\* requests that had found the shift open and were overlapped by a close.
THEOREM ClosedIsCounted == RegisterSpec => []CountedOrOvertaken
<1>1. DrawerInv => CountedOrOvertaken
  BY DEF DrawerInv
<1> QED
  BY <1>1, DrawerInvariance, PTL

\* void_expense puts the money of an expense back once, into the shift it came from,
\* whoever else voids it at the same time.
THEOREM VoidedOnce == RegisterSpec => []ExpensesBalance
<1>1. DrawerInv => ExpensesBalance
  BY DEF DrawerInv
<1> QED
  BY <1>1, DrawerInvariance, PTL

-----------------------------------------------------------------------------
(* QuickItems: the pieces that are out.                                     *)

OutIn(ss, p) == {s \in DOMAIN ss : p \in DOMAIN ss[s].lines \ ss[s].restocked}
OutOfIn(ss, p) == SumOver([s \in OutIn(ss, p) |-> ss[s].lines[p]], OutIn(ss, p))

SalesOf(ss) ==
    /\ ss = [s \in 1 .. MaxSales |-> ss[s]]
    /\ \A s \in 1 .. MaxSales : \A p \in DOMAIN ss[s].lines : ss[s].lines[p] \in Nat

LEMMA OutIsOut == \A p : Out(p) = OutIn(sales, p) /\ OutOf(p) = OutOfIn(sales, p)
BY DEF Out, OutOf, OutIn, OutOfIn

LEMMA OutSound ==
    ASSUME NEW ss, SalesOf(ss), NEW p
    PROVE  /\ IsFiniteSet(OutIn(ss, p)) /\ OutOfIn(ss, p) \in Nat
           /\ \A s \in OutIn(ss, p) : s \in 1 .. MaxSales /\ ss[s].lines[p] \in Nat
<1>1. IsFiniteSet(1 .. MaxSales)
  BY FS_Interval, SalesAssumption
<1>2. OutIn(ss, p) \subseteq 1 .. MaxSales
  BY DEF OutIn, SalesOf
<1>3. IsFiniteSet(OutIn(ss, p))
  BY <1>1, <1>2, FS_Subset
<1>4. \A s \in OutIn(ss, p) : ss[s].lines[p] \in Nat
  BY <1>2 DEF OutIn, SalesOf
<1> DEFINE f == [s \in OutIn(ss, p) |-> ss[s].lines[p]]
<1>5. SumOver(f, OutIn(ss, p)) \in Nat
  BY <1>3, <1>4, SumType
<1> QED
  BY <1>2, <1>3, <1>4, <1>5 DEF OutOfIn

LEMMA NothingOut ==
    ASSUME NEW ss, NEW p, OutIn(ss, p) = {}
    PROVE  OutOfIn(ss, p) = 0
BY SumEmpty DEF OutOfIn

\* As many are out if the same lines are.
LEMMA OutSame ==
    ASSUME NEW ss, NEW tt, NEW p, OutIn(tt, p) = OutIn(ss, p),
           \A s \in OutIn(ss, p) : tt[s].lines[p] = ss[s].lines[p]
    PROVE  OutOfIn(tt, p) = OutOfIn(ss, p)
<1> DEFINE f == [s \in OutIn(ss, p) |-> ss[s].lines[p]]
           g == [s \in OutIn(tt, p) |-> tt[s].lines[p]]
<1>1. f = g
  OBVIOUS
<1> QED
  BY <1>1 DEF OutOfIn

\* One more line is out.
LEMMA OutMore ==
    ASSUME NEW ss, SalesOf(ss), NEW tt, SalesOf(tt), NEW p, NEW s,
           s \notin OutIn(ss, p), OutIn(tt, p) = OutIn(ss, p) \cup {s},
           \A t \in OutIn(ss, p) : tt[t].lines[p] = ss[t].lines[p]
    PROVE  OutOfIn(tt, p) = OutOfIn(ss, p) + tt[s].lines[p] /\ tt[s].lines[p] \in Nat
<1> DEFINE f == [t \in OutIn(ss, p) |-> ss[t].lines[p]]
           g == [t \in OutIn(tt, p) |-> tt[t].lines[p]]
<1>1. /\ \A t \in OutIn(ss, p) : g[t] = f[t] /\ g[t] \in Nat
      /\ g[s] = tt[s].lines[p] /\ g[s] \in Nat /\ IsFiniteSet(OutIn(ss, p))
  BY OutSound
<1>2. SumOver(g, OutIn(ss, p) \cup {s}) = SumOver(g, OutIn(ss, p)) + g[s]
  BY <1>1, SumAdd
<1>3. SumOver(g, OutIn(ss, p)) = SumOver(f, OutIn(ss, p))
  BY <1>1, SumCongruent
<1> QED
  BY <1>1, <1>2, <1>3 DEF OutOfIn

-----------------------------------------------------------------------------
(* QuickItems: the shelf and the requests.                                  *)

LEMMA Shelf ==
    ASSUME PiecesInv
    PROVE  /\ SalesOf(sales) /\ DOMAIN sales = 1 .. MaxSales
           /\ \E n \in Nat : DOMAIN shelf = 1 .. n /\ shelf \in [1 .. n -> Nat]
           /\ \A p \in DOMAIN shelf : /\ shelf[p] \in Nat /\ OutOf(p) \in Nat /\ stocked[p] \in Nat
                                      /\ stocked[p] = shelf[p] + OutOf(p)
<1>1. SalesOf(sales)
  BY DEF PiecesInv, SalesOf, IsSale, Pieces
<1>2. \A p : OutOf(p) \in Nat
  BY <1>1, OutIsOut, OutSound
<1>3. \E n \in Nat : DOMAIN shelf = 1 .. n /\ shelf \in [1 .. n -> Nat]
  BY SeqDef DEF PiecesInv
<1>4. DOMAIN sales = 1 .. MaxSales
  BY DEF PiecesInv
<1> QED
  BY <1>1, <1>2, <1>3, <1>4 DEF PiecesInv, PiecesBalance

LEMMA AtRestDesk == AtRest.do = "rest" /\ AtRest.phase = "read" /\ IsDesk(AtRest)
BY DEF AtRest, IsDesk, Jobs, Pieces

\* Steps of one request that change nothing but the request.
LEMMA DeskStep ==
    ASSUME PiecesInv, NEW d \in Desks, NEW r, IsDesk(r),
           r.phase = "saved" => (desk[d].phase = "saved" /\ desk[d].sale = r.sale) \/ ~LockedSale(r.sale),
           desk' = [desk EXCEPT ![d] = r], UNCHANGED <<shelf, sales, stocked>>
    PROVE  PiecesInv'
<1>1. /\ desk' = [e \in Desks |-> desk'[e]] /\ desk'[d] = r
      /\ \A e \in Desks \ {d} : desk'[e] = desk[e]
  BY DEF PiecesInv
<1>2. ASSUME NEW e \in Desks
      PROVE  IsDesk(desk[e])'
  <2>1. IsDesk(desk'[e])
    BY <1>1 DEF PiecesInv
  <2> QED
    BY <2>1 DEF IsDesk, Pieces, Restocks, Unrestocked
<1>3. OneSaves'
  <2>1. \A e \in Desks \ {d} : r.phase = "saved" /\ desk[e].phase = "saved" => desk[e].sale # r.sale
    BY DEF PiecesInv, OneSaves, LockedSale
  <2> QED
    BY <1>1, <2>1 DEF PiecesInv, OneSaves
<1>4. \A s : IsSale(s)' <=> IsSale(s)
  BY DEF IsSale, Pieces
<1>5. PiecesBalance'
  BY DEF PiecesInv, PiecesBalance, OutOf, Out
<1> QED
  BY <1>1, <1>2, <1>3, <1>4, <1>5 DEF PiecesInv

LEMMA QuickReads ==
    ASSUME PiecesInv, NEW d \in Desks,
           \/ \E basket \in Baskets : RingsUp(d, basket)
           \/ \E p \in DOMAIN shelf : LocksPiece(d, p)
           \/ \E s \in DOMAIN sales, do \in {"pay", "cancel", "note", "delete"} : ReadsSale(d, s, do)
           \/ GivesUpDesk(d)
    PROVE  PiecesInv'
<1> DEFINE q == desk[d]
<1>0. IsDesk(q)
  BY DEF PiecesInv
<1>1. ASSUME NEW basket \in Baskets, RingsUp(d, basket)
      PROVE  PiecesInv'
  <2>1. PICK r : r = [AtRest EXCEPT !.do = "ring", !.moves = basket]
    OBVIOUS
  <2>2. Pieces(basket)
    BY CountAssumption DEF Baskets, Pieces
  <2>3. r = [do |-> "ring", sale |-> 0, copy |-> "none", phase |-> "read", moves |-> basket, held |-> {}]
    BY <2>1 DEF AtRest
  <2>4. IsDesk(r) /\ r.phase = "read"
    BY <2>2, <2>3 DEF IsDesk, Jobs
  <2> QED  BY <1>1, <2>1, <2>4, DeskStep DEF RingsUp
<1>2. ASSUME NEW p \in DOMAIN shelf, LocksPiece(d, p)
      PROVE  PiecesInv'
  <2>1. PICK r : r = [q EXCEPT !.held = q.held \cup {p}]
    OBVIOUS
  <2>2. r = [do |-> q.do, sale |-> q.sale, copy |-> q.copy, phase |-> q.phase,
             moves |-> q.moves, held |-> q.held \cup {p}]
    BY <1>0, <2>1 DEF IsDesk
  <2>3. IsDesk(r) /\ r.phase = q.phase /\ r.sale = q.sale
    BY <1>0, <2>2 DEF IsDesk, Restocks
  <2>4. desk' = [desk EXCEPT ![d] = r] /\ UNCHANGED <<shelf, sales, stocked>>
    BY <1>2, <2>1 DEF LocksPiece
  <2> QED  BY <2>3, <2>4, DeskStep
<1>3. ASSUME NEW s \in DOMAIN sales, NEW do \in {"pay", "cancel", "note", "delete"}, ReadsSale(d, s, do)
      PROVE  PiecesInv'
  <2>1. PICK r : r = [AtRest EXCEPT !.do = do, !.sale = s, !.copy = sales[s].status]
    OBVIOUS
  <2>2. r = [do |-> do, sale |-> s, copy |-> sales[s].status, phase |-> "read", moves |-> <<>>, held |-> {}]
    BY <2>1 DEF AtRest
  <2>3. sales[s].status \in SaleStatus \ {"none", "deleted"}
    BY <1>3, Shelf DEF PiecesInv, IsSale, ReadsSale, Exists
  <2>4. IsDesk(r) /\ r.phase = "read"
    BY <2>2, <2>3 DEF IsDesk, Jobs, Pieces
  <2> QED  BY <1>3, <2>1, <2>4, DeskStep DEF ReadsSale
<1>4. CASE GivesUpDesk(d)
  BY <1>4, AtRestDesk, DeskStep DEF GivesUpDesk
<1> QED
  BY <1>1, <1>2, <1>3, <1>4

LEMMA SavesSaleInv ==
    ASSUME PiecesInv, NEW d \in Desks, SavesSale(d)
    PROVE  PiecesInv'
<1> DEFINE q == desk[d]
           saved == StatusAfter(q.do, q.copy)
           back == IF saved = "cancelled" THEN Unrestocked(q.sale) ELSE {}
           moves == [p \in back |-> sales[q.sale].lines[p]]
<1>1. PICK r :
         /\ r = [q EXCEPT !.copy = saved, !.phase = "saved", !.moves = moves]
         /\ q.do \in {"pay", "cancel", "note"} /\ ~LockedSale(q.sale)
         /\ UNCHANGED <<shelf, sales, stocked>>
  BY DEF SavesSale
<1>2. IsDesk(q) /\ q.sale \in DOMAIN sales /\ IsSale(sales[q.sale])
  BY <1>1, Shelf DEF PiecesInv, IsDesk
<1>3. saved \in SaleStatus \ {"none", "deleted"}
  BY <1>1, <1>2 DEF IsDesk, StatusAfter, SaleStatus
<1>4. Pieces(moves)
  BY <1>2 DEF IsSale, Pieces, Unrestocked
<1>5. desk' = [desk EXCEPT ![d] = r]
  BY <1>1, <1>2 DEF SavesSale, IsDesk, PiecesInv
<1> HIDE DEF saved
<1>6. r = [do |-> q.do, sale |-> q.sale, copy |-> saved, phase |-> "saved", moves |-> moves, held |-> q.held]
  BY <1>1, <1>2 DEF IsDesk
<1>7. Restocks(r)
  <2>1. r.copy = saved /\ r.sale = q.sale /\ r.do = q.do /\ r.moves = moves
    BY <1>6
  <2>2. (IF r.copy = "cancelled" THEN Unrestocked(r.sale) ELSE {}) = back
    BY <2>1
  <2> HIDE DEF back
  <2>3. moves = [p \in back |-> sales[r.sale].lines[p]]
    BY <2>1
  <2> QED  BY <1>1, <2>1, <2>2, <2>3 DEF Restocks
<1> HIDE DEF moves
<1>8. IsDesk(r)
  BY <1>1, <1>2, <1>3, <1>4, <1>6, <1>7 DEF IsDesk
<1> QED
  BY <1>1, <1>5, <1>6, <1>8, DeskStep

-----------------------------------------------------------------------------
(* QuickItems: steps that write sales.                                      *)

RequestsSound ==
    desk = [e \in Desks |-> desk[e]] /\ (\A e \in Desks : IsDesk(desk[e])) /\ OneSaves

\* What stays said of the requests when sale s is written: those that have saved
\* another sale hold that one.
LEMMA DesksStay ==
    ASSUME PiecesInv, NEW d \in Desks, NEW s \in DOMAIN sales, desk' = [desk EXCEPT ![d] = AtRest],
           DOMAIN sales' = DOMAIN sales, DOMAIN shelf' = DOMAIN shelf,
           \A t \in DOMAIN sales : t # s => sales'[t] = sales[t],
           sales'[s].status # "none",
           \A e \in Desks \ {d} : desk[e].phase = "saved" => desk[e].sale # s
    PROVE  RequestsSound'
<1>1. /\ desk' = [e \in Desks |-> desk'[e]] /\ desk'[d] = AtRest
      /\ \A e \in Desks \ {d} : desk'[e] = desk[e]
  BY DEF PiecesInv
<1>2. \A f : Pieces(f)' <=> Pieces(f)
  BY DEF Pieces
<1>3. ASSUME NEW e \in Desks
      PROVE  IsDesk(desk[e])'
  <2>1. PICK x : x = desk'[e]
    OBVIOUS
  <2>2. IsDesk(x)
    BY <1>1, <2>1, AtRestDesk DEF PiecesInv
  <2>3. x.phase = "saved" => x.sale \in DOMAIN sales /\ x.sale # s /\ Restocks(x)
    BY <1>1, <2>1, <2>2, AtRestDesk DEF IsDesk, Restocks
  <2>4. x.phase = "saved" => Restocks(x)'
    <3> SUFFICES ASSUME x.phase = "saved" PROVE Restocks(x)'
      OBVIOUS
    <3>1. sales'[x.sale] = sales[x.sale]
      BY <2>3
    <3>2. Unrestocked(x.sale)' = Unrestocked(x.sale)
      BY <3>1 DEF Unrestocked
    <3> QED  BY <2>3, <3>1, <3>2 DEF Restocks
  <2>5. IsDesk(x)'
    BY <1>2, <2>2, <2>4 DEF IsDesk
  <2> QED  BY <2>1, <2>5 DEF IsDesk, Pieces, Restocks, Unrestocked
<1>4. OneSaves'
  BY <1>1, AtRestDesk DEF PiecesInv, OneSaves
<1> QED
  BY <1>1, <1>3, <1>4 DEF RequestsSound

\* What stays said of the sales.
LEMMA SalesStay ==
    ASSUME PiecesInv, NEW s \in DOMAIN sales, NEW x, sales' = [sales EXCEPT ![s] = x], IsSale(x),
           DOMAIN shelf' = DOMAIN shelf
    PROVE  /\ DOMAIN sales' = DOMAIN sales /\ sales'[s] = x
           /\ \A t \in DOMAIN sales : t # s => sales'[t] = sales[t]
           /\ sales' = [t \in 1 .. MaxSales |-> sales'[t]]
           /\ (\A t \in 1 .. MaxSales : IsSale(sales[t]))'
           /\ SalesOf(sales')
<1>1. /\ DOMAIN sales' = DOMAIN sales /\ sales'[s] = x
      /\ \A t \in DOMAIN sales : t # s => sales'[t] = sales[t]
      /\ sales' = [t \in 1 .. MaxSales |-> sales'[t]] /\ DOMAIN sales = 1 .. MaxSales
  BY DEF PiecesInv
<1>2. \A f : Pieces(f)' <=> Pieces(f)
  BY DEF Pieces
<1>3. \A y : IsSale(y)' <=> IsSale(y)
  BY <1>2 DEF IsSale
<1>4. ASSUME NEW t \in 1 .. MaxSales
      PROVE  IsSale(sales[t])' /\ IsSale(sales'[t])
  <2>1. PICK y : y = sales'[t]
    OBVIOUS
  <2>2. IsSale(y)
    BY <1>1, <2>1 DEF PiecesInv
  <2>3. IsSale(y)'
    BY <1>3, <2>2
  <2> QED  BY <2>1, <2>2, <2>3 DEF IsSale, Pieces
<1>5. SalesOf(sales')
  BY <1>1, <1>4 DEF SalesOf, IsSale, Pieces
<1> QED
  BY <1>1, <1>4, <1>5

\* A shelf of as many pieces.
LEMMA ShelfStays ==
    ASSUME PiecesInv, NEW f, DOMAIN f = DOMAIN shelf, f = [p \in DOMAIN shelf |-> f[p]],
           \A p \in DOMAIN shelf : f[p] \in Nat
    PROVE  f \in Seq(Nat)
<1>1. PICK n \in Nat : DOMAIN shelf = 1 .. n
  BY Shelf
<1>2. f \in [1 .. n -> Nat]
  BY <1>1
<1> QED
  BY <1>2, SeqDef

LEMMA CreatePosOrderInv ==
    ASSUME PiecesInv, NEW d \in Desks, NEW s \in DOMAIN sales, CreatePosOrder(d, s)
    PROVE  PiecesInv'
<1> DEFINE basket == desk[d].moves
           new == [status |-> "placed", lines |-> basket, restocked |-> {}]
<1>1. /\ \A p \in DOMAIN basket : Sellable(p, basket[p])
      /\ sales[s].status = "none" /\ sales' = [sales EXCEPT ![s] = new]
      /\ shelf' = [p \in DOMAIN shelf |-> shelf[p] - IF p \in DOMAIN basket THEN basket[p] ELSE 0]
      /\ desk' = [desk EXCEPT ![d] = AtRest] /\ UNCHANGED stocked
  BY DEF CreatePosOrder
<1>2. IsDesk(desk[d]) /\ Pieces(basket) /\ IsSale(sales[s])
  BY Shelf DEF PiecesInv, IsDesk
<1> HIDE DEF basket
<1>3. /\ new.lines = basket /\ new.restocked = {} /\ new.status = "placed" /\ IsSale(new)
  BY <1>2 DEF IsSale, SaleStatus
<1> HIDE DEF new
<1>4. /\ DOMAIN shelf' = DOMAIN shelf /\ shelf' = [p \in DOMAIN shelf |-> shelf'[p]]
      /\ \A p \in DOMAIN shelf : shelf'[p] = shelf[p] - IF p \in DOMAIN basket THEN basket[p] ELSE 0
  BY <1>1
<1>5. \A p \in DOMAIN shelf : shelf'[p] \in Nat
  BY <1>1, <1>2, <1>4, Shelf DEF Sellable, Pieces
<1>6. /\ DOMAIN sales' = DOMAIN sales /\ sales'[s] = new
      /\ \A t \in DOMAIN sales : t # s => sales'[t] = sales[t]
      /\ sales' = [t \in 1 .. MaxSales |-> sales'[t]] /\ (\A t \in 1 .. MaxSales : IsSale(sales[t]))'
      /\ SalesOf(sales') /\ SalesOf(sales)
  BY <1>1, <1>3, <1>4, SalesStay, Shelf
<1>7. \A e \in Desks \ {d} : desk[e].phase = "saved" => desk[e].sale # s
  BY <1>1 DEF PiecesInv, IsDesk, Restocks
<1>8. RequestsSound'
  <2>1. sales'[s].status # "none"
    BY <1>3, <1>6
  <2>2. desk' = [desk EXCEPT ![d] = AtRest]
    BY <1>1
  <2>3. DOMAIN sales' = DOMAIN sales /\ DOMAIN shelf' = DOMAIN shelf
    BY <1>4, <1>6
  <2>4. \A t \in DOMAIN sales : t # s => sales'[t] = sales[t]
    BY <1>6
  <2> QED  BY <1>7, <2>1, <2>2, <2>3, <2>4, DesksStay
<1>9. ASSUME NEW p \in DOMAIN shelf
      PROVE  shelf'[p] + OutOf(p)' = stocked'[p]
  <2>1. s \notin OutIn(sales, p)
    BY <1>1, <1>2 DEF OutIn, IsSale
  <2>2. OutOf(p)' = OutOfIn(sales', p) /\ OutOf(p) = OutOfIn(sales, p)
    BY DEF OutOf, Out, OutOfIn, OutIn
  <2>3. CASE p \in DOMAIN basket
    <3>1. OutIn(sales', p) = OutIn(sales, p) \cup {s}
      BY <1>3, <1>6, <2>1, <2>3 DEF OutIn
    <3>2. OutOfIn(sales', p) = OutOfIn(sales, p) + new.lines[p] /\ new.lines[p] \in Nat
      <4>1. \A t \in OutIn(sales, p) : sales'[t].lines[p] = sales[t].lines[p]
        BY <1>6, <2>1 DEF OutIn
      <4>2. OutOfIn(sales', p) = OutOfIn(sales, p) + sales'[s].lines[p] /\ sales'[s].lines[p] \in Nat
        BY <1>6, <2>1, <3>1, <4>1, OutMore
      <4> QED  BY <1>6, <4>2
    <3> QED  BY <1>1, <1>3, <1>4, <2>2, <2>3, <3>2, Shelf
  <2>4. CASE p \notin DOMAIN basket
    <3>1. OutIn(sales', p) = OutIn(sales, p)
      BY <1>3, <1>6, <2>1, <2>4 DEF OutIn
    <3>2. OutOfIn(sales', p) = OutOfIn(sales, p)
      <4>1. \A t \in OutIn(sales, p) : sales'[t].lines[p] = sales[t].lines[p]
        BY <1>6, <2>1 DEF OutIn
      <4> QED  BY <3>1, <4>1, OutSame
    <3> QED  BY <1>1, <1>4, <2>2, <2>4, <3>2, Shelf
  <2> QED  BY <2>3, <2>4
<1>10. PiecesBalance'
  <2>1. \A t \in DOMAIN sales' : sales'[t].status = "cancelled"
                                   => DOMAIN sales'[t].lines = sales'[t].restocked
    BY <1>3, <1>6 DEF PiecesInv, PiecesBalance
  <2> QED  BY <1>4, <1>5, <1>9, <2>1 DEF PiecesBalance
<1>11. shelf' \in Seq(Nat)
  BY <1>4, <1>5, ShelfStays
<1> QED
  BY <1>1, <1>4, <1>6, <1>8, <1>10, <1>11 DEF PiecesInv, RequestsSound

LEMMA CommitSaleInv ==
    ASSUME PiecesInv, NEW d \in Desks, CommitSale(d)
    PROVE  PiecesInv'
<1> DEFINE q == desk[d]
           s == q.sale
           moves == q.moves
           old == sales[s]
           new == [old EXCEPT !.status = q.copy, !.restocked = old.restocked \cup DOMAIN moves]
<1>1. /\ q.phase = "saved" /\ UNCHANGED stocked /\ desk' = [desk EXCEPT ![d] = AtRest]
      /\ shelf' = [p \in DOMAIN shelf |-> shelf[p] + IF p \in DOMAIN moves THEN moves[p] ELSE 0]
  BY DEF CommitSale
<1>2. IsDesk(q) /\ Pieces(moves) /\ s \in DOMAIN sales /\ IsSale(old) /\ Restocks(q)
      /\ q.copy \in SaleStatus \ {"none", "deleted"}
  BY <1>1, Shelf DEF PiecesInv, IsDesk, Restocks
<1>3. sales' = [sales EXCEPT ![s] = new]
  BY <1>2 DEF CommitSale, PiecesInv, IsSale
<1>4. /\ DOMAIN moves = IF q.copy = "cancelled" THEN DOMAIN old.lines \ old.restocked ELSE {}
      /\ \A p \in DOMAIN moves : moves[p] = old.lines[p]
  BY <1>2 DEF Restocks, Unrestocked
<1>5. new = [status |-> q.copy, lines |-> old.lines, restocked |-> old.restocked \cup DOMAIN moves]
  <2>1. PICK r : r = new
    OBVIOUS
  <2>2. r = [status |-> q.copy, lines |-> old.lines, restocked |-> old.restocked \cup DOMAIN moves]
    BY <1>2, <2>1 DEF IsSale
  <2> QED  BY <2>1, <2>2
<1>6. IsSale(new)
  BY <1>2, <1>4, <1>5 DEF IsSale
<1>7. /\ DOMAIN shelf' = DOMAIN shelf /\ shelf' = [p \in DOMAIN shelf |-> shelf'[p]]
      /\ \A p \in DOMAIN shelf : shelf'[p] = shelf[p] + IF p \in DOMAIN moves THEN moves[p] ELSE 0
  BY <1>1
<1>8. ASSUME NEW p \in DOMAIN shelf
      PROVE  shelf'[p] \in Nat
  <2> HIDE DEF moves, q, old, s
  <2>1. shelf[p] \in Nat
    BY Shelf
  <2>2. CASE p \in DOMAIN moves
    BY <1>2, <1>7, <2>1, <2>2 DEF Pieces
  <2>3. CASE p \notin DOMAIN moves
    BY <1>7, <2>1, <2>3
  <2> QED  BY <2>2, <2>3
<1> HIDE DEF new
<1>9. /\ DOMAIN sales' = DOMAIN sales /\ sales'[s] = new
      /\ \A t \in DOMAIN sales : t # s => sales'[t] = sales[t]
      /\ sales' = [t \in 1 .. MaxSales |-> sales'[t]] /\ (\A t \in 1 .. MaxSales : IsSale(sales[t]))'
      /\ SalesOf(sales') /\ SalesOf(sales)
  BY <1>2, <1>3, <1>6, <1>7, SalesStay, Shelf
<1>10. \A e \in Desks \ {d} : desk[e].phase = "saved" => desk[e].sale # s
  BY <1>1 DEF PiecesInv, OneSaves
<1>11. new.status # "none"
  BY <1>2, <1>5
<1>12. RequestsSound'
  <2>1. sales'[s].status # "none"
    BY <1>9, <1>11
  <2>2. desk' = [desk EXCEPT ![d] = AtRest]
    BY <1>1
  <2>3. DOMAIN sales' = DOMAIN sales /\ DOMAIN shelf' = DOMAIN shelf
    BY <1>7, <1>9
  <2>4. \A t \in DOMAIN sales : t # s => sales'[t] = sales[t]
    BY <1>9
  <2>5. s \in DOMAIN sales /\ \A e \in Desks \ {d} : desk[e].phase = "saved" => desk[e].sale # s
    BY <1>10, <1>2
  <2> HIDE DEF s
  <2> QED  BY <2>1, <2>2, <2>3, <2>4, <2>5, DesksStay
<1>13. ASSUME NEW p \in DOMAIN shelf
       PROVE  shelf'[p] + OutOf(p)' = stocked'[p]
  <2>1. OutOf(p)' = OutOfIn(sales', p) /\ OutOf(p) = OutOfIn(sales, p)
    BY DEF OutOf, Out, OutOfIn, OutIn
  <2>2. \A t \in DOMAIN sales : sales'[t].lines = sales[t].lines
    BY <1>5, <1>9
  <2>3. CASE p \in DOMAIN moves
    <3>1. s \notin OutIn(sales', p) /\ OutIn(sales, p) = OutIn(sales', p) \cup {s}
      BY <1>2, <1>4, <1>5, <1>9, <2>3 DEF OutIn
    <3>2. \A t \in OutIn(sales', p) : sales[t].lines[p] = sales'[t].lines[p]
      BY <1>9, <2>2 DEF OutIn
    <3>3. OutOfIn(sales, p) = OutOfIn(sales', p) + old.lines[p] /\ old.lines[p] \in Nat
      BY <1>9, <3>1, <3>2, OutMore
    <3>4. OutOfIn(sales', p) \in Nat
      BY <1>9, OutSound
    <3>5. /\ shelf'[p] = shelf[p] + old.lines[p] /\ stocked'[p] = stocked[p]
          /\ stocked[p] = shelf[p] + OutOf(p) /\ shelf[p] \in Nat
      BY <1>1, <1>4, <1>7, <2>3, Shelf
    <3> QED  BY <2>1, <3>3, <3>4, <3>5
  <2>4. CASE p \notin DOMAIN moves
    <3>1. OutIn(sales', p) = OutIn(sales, p)
      BY <1>2, <1>5, <1>9, <2>2, <2>4 DEF OutIn
    <3>2. OutOfIn(sales', p) = OutOfIn(sales, p)
      <4>1. \A t \in OutIn(sales, p) : sales'[t].lines[p] = sales[t].lines[p]
        BY <2>2 DEF OutIn
      <4> QED  BY <3>1, <4>1, OutSame
    <3> QED  BY <1>1, <1>7, <2>1, <2>4, <3>2, Shelf
  <2> QED  BY <2>3, <2>4
<1>14. PiecesBalance'
  <2>1. new.status = "cancelled" => DOMAIN new.lines = new.restocked
    BY <1>2, <1>4, <1>5 DEF IsSale
  <2>2. \A t \in DOMAIN sales' : sales'[t].status = "cancelled"
                                   => DOMAIN sales'[t].lines = sales'[t].restocked
    BY <1>9, <2>1 DEF PiecesInv, PiecesBalance
  <2> QED  BY <1>7, <1>8, <1>13, <2>2 DEF PiecesBalance
<1>15. shelf' \in Seq(Nat)
  BY <1>7, <1>8, ShelfStays
<1> QED
  BY <1>1, <1>7, <1>9, <1>12, <1>14, <1>15 DEF PiecesInv, RequestsSound

LEMMA DeleteAdminOrderInv ==
    ASSUME PiecesInv, NEW d \in Desks, DeleteAdminOrder(d)
    PROVE  PiecesInv'
<1> DEFINE s == desk[d].sale
           old == sales[s]
           new == [Unsold EXCEPT !.status = "deleted"]
<1>1. /\ desk[d].do = "delete" /\ ~LockedSale(s) /\ sales' = [sales EXCEPT ![s] = new]
      /\ stocked' = [p \in DOMAIN stocked |-> stocked[p] - IF s \in Out(p) THEN old.lines[p] ELSE 0]
      /\ desk' = [desk EXCEPT ![d] = AtRest] /\ UNCHANGED shelf
  BY DEF DeleteAdminOrder
<1>2. s \in DOMAIN sales
  BY <1>1 DEF PiecesInv, IsDesk
<1>3. new = [status |-> "deleted", lines |-> <<>>, restocked |-> {}]
  <2>1. PICK x : x = [Unsold EXCEPT !.status = "deleted"]
    OBVIOUS
  <2>2. x = [status |-> "deleted", lines |-> <<>>, restocked |-> {}]
    BY <2>1 DEF Unsold
  <2> QED  BY <2>1, <2>2
<1> HIDE DEF new
<1>4. IsSale(new) /\ DOMAIN new.lines = {} /\ new.status = "deleted"
  BY <1>3 DEF IsSale, SaleStatus, Pieces
<1>5. /\ DOMAIN sales' = DOMAIN sales /\ sales'[s] = new
      /\ \A t \in DOMAIN sales : t # s => sales'[t] = sales[t]
      /\ sales' = [t \in 1 .. MaxSales |-> sales'[t]] /\ (\A t \in 1 .. MaxSales : IsSale(sales[t]))'
      /\ SalesOf(sales') /\ SalesOf(sales)
  BY <1>1, <1>2, <1>4, SalesStay, Shelf
<1>6. \A e \in Desks \ {d} : desk[e].phase = "saved" => desk[e].sale # s
  BY <1>1 DEF LockedSale
<1>7. RequestsSound'
  <2>1. sales'[s].status # "none"
    BY <1>4, <1>5
  <2>2. desk' = [desk EXCEPT ![d] = AtRest]
    BY <1>1
  <2>3. DOMAIN sales' = DOMAIN sales /\ DOMAIN shelf' = DOMAIN shelf
    BY <1>1, <1>5
  <2>4. \A t \in DOMAIN sales : t # s => sales'[t] = sales[t]
    BY <1>5
  <2>5. s \in DOMAIN sales /\ \A e \in Desks \ {d} : desk[e].phase = "saved" => desk[e].sale # s
    BY <1>2, <1>6
  <2> HIDE DEF s
  <2> QED  BY <2>1, <2>2, <2>3, <2>4, <2>5, DesksStay
<1>8. /\ DOMAIN stocked' = DOMAIN shelf /\ stocked' = [p \in DOMAIN shelf |-> stocked'[p]]
      /\ \A p \in DOMAIN shelf : stocked'[p] = stocked[p] - IF s \in Out(p) THEN old.lines[p] ELSE 0
  BY <1>1 DEF PiecesInv
<1>9. ASSUME NEW p \in DOMAIN shelf
      PROVE  stocked'[p] = shelf'[p] + OutOf(p)' /\ stocked'[p] \in Nat
  <2>1. OutOf(p)' = OutOfIn(sales', p) /\ OutOf(p) = OutOfIn(sales, p) /\ Out(p) = OutIn(sales, p)
    BY DEF OutOf, Out, OutOfIn, OutIn
  <2>2. s \notin OutIn(sales', p) /\ OutOfIn(sales', p) \in Nat
    BY <1>4, <1>5, OutSound DEF OutIn
  <2>3. \A t \in OutIn(sales', p) : sales[t].lines[p] = sales'[t].lines[p]
    BY <1>5, <2>2 DEF OutIn
  <2>4. CASE s \in Out(p)
    <3>1. OutIn(sales, p) = OutIn(sales', p) \cup {s}
      BY <1>4, <1>5, <2>1, <2>4 DEF OutIn
    <3>2. OutOfIn(sales, p) = OutOfIn(sales', p) + old.lines[p] /\ old.lines[p] \in Nat
      BY <1>5, <2>2, <2>3, <3>1, OutMore
    <3>3. /\ shelf'[p] = shelf[p] /\ stocked'[p] = stocked[p] - old.lines[p]
          /\ stocked[p] = shelf[p] + OutOf(p) /\ shelf[p] \in Nat
      BY <1>1, <1>8, <2>4, Shelf
    <3> QED  BY <2>1, <2>2, <3>2, <3>3
  <2>5. CASE s \notin Out(p)
    <3>1. OutIn(sales', p) = OutIn(sales, p)
      BY <1>4, <1>5, <2>1, <2>5 DEF OutIn
    <3>2. OutOfIn(sales', p) = OutOfIn(sales, p)
      <4>1. \A t \in OutIn(sales, p) : sales'[t].lines[p] = sales[t].lines[p]
        BY <2>3, <3>1
      <4> QED  BY <3>1, <4>1, OutSame
    <3> QED  BY <1>1, <1>8, <2>1, <2>5, <3>2, Shelf
  <2> QED  BY <2>4, <2>5
<1>10. PiecesBalance'
  <2>1. \A t \in DOMAIN sales' : sales'[t].status = "cancelled"
                                   => DOMAIN sales'[t].lines = sales'[t].restocked
    BY <1>4, <1>5 DEF PiecesInv, PiecesBalance
  <2> QED  BY <1>1, <1>9, <2>1, Shelf DEF PiecesBalance
<1>11. stocked' \in Seq(Nat)
  BY <1>8, <1>9, ShelfStays
<1> QED
  BY <1>1, <1>5, <1>7, <1>8, <1>10, <1>11 DEF PiecesInv, RequestsSound

-----------------------------------------------------------------------------
(* QuickItems: steps that write the shelf.                                  *)

\* What is said of the sales and of the requests asks no more of the shelf than its rows.
LEMMA RequestsStay ==
    ASSUME PiecesInv, UNCHANGED <<sales, desk>>, DOMAIN shelf \subseteq DOMAIN shelf'
    PROVE  (\A s \in 1 .. MaxSales : IsSale(sales[s]))' /\ (\A d \in Desks : IsDesk(desk[d]))' /\ OneSaves'
<1>1. \A f : Pieces(f) => Pieces(f)'
  BY DEF Pieces
<1>2. \A s \in 1 .. MaxSales : IsSale(sales[s])'
  BY <1>1 DEF PiecesInv, IsSale
<1>3. ASSUME NEW d \in Desks
      PROVE  IsDesk(desk[d])'
  <2>1. PICK x : x = desk[d]
    OBVIOUS
  <2>2. IsDesk(x)
    BY <2>1 DEF PiecesInv
  <2>3. x.phase = "saved" => Restocks(x)'
    BY <2>2 DEF IsDesk, Restocks, Unrestocked
  <2>4. IsDesk(x)'
    BY <1>1, <2>2, <2>3 DEF IsDesk
  <2>5. x = desk[d]'
    BY <2>1
  <2> QED  BY <2>4, <2>5 DEF IsDesk, Pieces, Restocks, Unrestocked
<1>4. OneSaves'
  BY DEF PiecesInv, OneSaves
<1> QED
  BY <1>2, <1>3, <1>4

LEMMA CreateQuickItemInv ==
    ASSUME PiecesInv, NEW q \in Counts, CreateQuickItem(q)
    PROVE  PiecesInv'
<1>1. /\ q \in Nat /\ shelf' = Append(shelf, q) /\ stocked' = Append(stocked, q)
      /\ UNCHANGED <<sales, desk>>
  BY CountAssumption DEF CreateQuickItem, Counts
<1>2. PICK n \in Nat : DOMAIN shelf = 1 .. n
  BY Shelf
<1>3. Len(shelf) = n /\ Len(stocked) = n
  BY <1>2, LenProperties DEF PiecesInv
<1>4. /\ shelf' \in Seq(Nat) /\ stocked' \in Seq(Nat) /\ Len(shelf') = n + 1 /\ Len(stocked') = n + 1
      /\ \A p \in 1 .. n : shelf'[p] = shelf[p] /\ stocked'[p] = stocked[p]
      /\ shelf'[n + 1] = q /\ stocked'[n + 1] = q
  BY <1>1, <1>3, AppendProperties DEF PiecesInv
<1>5. DOMAIN shelf' = 1 .. n + 1 /\ DOMAIN stocked' = 1 .. n + 1
  BY <1>4, LenProperties
<1>6. /\ (\A s \in 1 .. MaxSales : IsSale(sales[s]))' /\ (\A d \in Desks : IsDesk(desk[d]))' /\ OneSaves'
  BY <1>1, <1>2, <1>5, RequestsStay
<1>9. \A p : OutOf(p)' = OutOf(p)
  BY <1>1 DEF OutOf, Out
<1>10. ASSUME NEW p \in DOMAIN shelf'
       PROVE  shelf'[p] \in Nat /\ shelf'[p] + OutOf(p)' = stocked'[p]
  <2>1. CASE p \in 1 .. n
    BY <1>2, <1>4, <1>9, <2>1, Shelf
  <2>2. CASE p = n + 1
    <3>1. p \notin DOMAIN shelf
      BY <1>2, <2>2
    <3>2. OutIn(sales, p) = {}
      BY <3>1, Shelf DEF OutIn, PiecesInv, IsSale, Pieces
    <3>3. OutOf(p) = 0
      BY <3>2, NothingOut, OutIsOut
    <3> QED  BY <1>1, <1>4, <1>9, <2>2, <3>3
  <2> QED  BY <1>2, <1>5, <2>1, <2>2
<1>11. PiecesBalance'
  BY <1>1, <1>10 DEF PiecesInv, PiecesBalance
<1> QED
  BY <1>1, <1>4, <1>5, <1>6, <1>11 DEF PiecesInv

LEMMA UpdateQuickItemInv ==
    ASSUME PiecesInv, NEW p \in DOMAIN shelf, NEW q \in Counts, UpdateQuickItem(p, q)
    PROVE  PiecesInv'
<1>1. /\ q \in Nat /\ shelf' = [shelf EXCEPT ![p] = q] /\ stocked' = [stocked EXCEPT ![p] = q + OutOf(p)]
      /\ UNCHANGED <<sales, desk>>
  BY CountAssumption DEF UpdateQuickItem, Counts
<1>2. /\ DOMAIN shelf' = DOMAIN shelf /\ shelf' = [r \in DOMAIN shelf |-> shelf'[r]]
      /\ DOMAIN stocked' = DOMAIN shelf /\ stocked' = [r \in DOMAIN shelf |-> stocked'[r]]
      /\ shelf'[p] = q /\ stocked'[p] = q + OutOf(p)
      /\ \A r \in DOMAIN shelf \ {p} : shelf'[r] = shelf[r] /\ stocked'[r] = stocked[r]
  BY <1>1, Shelf DEF PiecesInv
<1>3. /\ (\A s \in 1 .. MaxSales : IsSale(sales[s]))' /\ (\A d \in Desks : IsDesk(desk[d]))' /\ OneSaves'
  BY <1>1, <1>2, RequestsStay
<1>6. \A r : OutOf(r)' = OutOf(r)
  BY <1>1 DEF OutOf, Out
<1>7. \A r \in DOMAIN shelf : shelf'[r] \in Nat /\ stocked'[r] \in Nat /\ shelf'[r] + OutOf(r)' = stocked'[r]
  BY <1>1, <1>2, <1>6, Shelf
<1>8. shelf' \in Seq(Nat) /\ stocked' \in Seq(Nat)
  BY <1>2, <1>7, ShelfStays
<1>10. PiecesBalance'
  BY <1>1, <1>2, <1>7 DEF PiecesInv, PiecesBalance
<1> QED
  BY <1>1, <1>2, <1>3, <1>8, <1>10 DEF PiecesInv

-----------------------------------------------------------------------------
(* QuickItems: the specification.                                           *)

LEMMA PiecesInit ==
    ASSUME QuickInit
    PROVE  PiecesInv
<1>1. shelf = <<>> /\ stocked = <<>> /\ shelf \in Seq(Nat) /\ DOMAIN shelf = {} /\ DOMAIN stocked = {}
  BY EmptySeq DEF QuickInit
<1>2. IsSale(Unsold) /\ Unsold.status = "none"
  BY DEF Unsold, IsSale, SaleStatus, Pieces
<1>3. \A d \in Desks : desk[d] = AtRest
  BY DEF QuickInit
<1>4. OneSaves
  BY <1>3, AtRestDesk DEF OneSaves
<1>5. PiecesBalance
  BY <1>1, <1>2 DEF QuickInit, PiecesBalance
<1> QED
  BY <1>1, <1>2, <1>3, <1>4, <1>5, AtRestDesk DEF QuickInit, PiecesInv

LEMMA PiecesNext ==
    ASSUME PiecesInv, [QuickNext]_quickVars
    PROVE  PiecesInv'
<1>1. CASE UNCHANGED quickVars
  <2>1. /\ (\A s \in 1 .. MaxSales : IsSale(sales[s]))' /\ (\A d \in Desks : IsDesk(desk[d]))' /\ OneSaves'
    BY <1>1, RequestsStay DEF quickVars
  <2>2. PiecesBalance'
    BY <1>1 DEF quickVars, PiecesInv, PiecesBalance, OutOf, Out
  <2> QED
    BY <1>1, <2>1, <2>2 DEF quickVars, PiecesInv
<1>2. CASE \E q \in Counts : CreateQuickItem(q)
  BY <1>2, CreateQuickItemInv
<1>3. CASE \E p \in DOMAIN shelf, q \in Counts : UpdateQuickItem(p, q)
  BY <1>3, UpdateQuickItemInv
<1>4. ASSUME NEW d \in Desks,
             \/ \E basket \in Baskets : RingsUp(d, basket)
             \/ \E p \in DOMAIN shelf : LocksPiece(d, p)
             \/ \E s \in DOMAIN sales, do \in {"pay", "cancel", "note", "delete"} : ReadsSale(d, s, do)
             \/ GivesUpDesk(d)
      PROVE  PiecesInv'
  BY <1>4, QuickReads
<1>5. ASSUME NEW d \in Desks, NEW s \in DOMAIN sales, CreatePosOrder(d, s)
      PROVE  PiecesInv'
  BY <1>5, CreatePosOrderInv
<1>6. ASSUME NEW d \in Desks, SavesSale(d) \/ CommitSale(d) \/ DeleteAdminOrder(d)
      PROVE  PiecesInv'
  BY <1>6, SavesSaleInv, CommitSaleInv, DeleteAdminOrderInv
<1> QED
  BY <1>1, <1>2, <1>3, <1>4, <1>5, <1>6 DEF QuickNext

\* The counts of the shelf, the sales and the requests at them are sound in every state,
\* and a request that has saved a sale is about to put back exactly what is out.
THEOREM PiecesInvariance == QuickSpec => []PiecesInv
<1>1. QuickInit => PiecesInv
  BY PiecesInit
<1>2. PiecesInv /\ [QuickNext]_quickVars => PiecesInv'
  BY PiecesNext
<1> QED
  BY <1>1, <1>2, PTL DEF QuickSpec

\* Whatever is rung up, cancelled, saved again, revived or deleted, and in whatever order,
\* every piece is on the shelf or with a sale that has not given it back.
THEOREM PiecesAlwaysBalance == QuickSpec => []PiecesBalance
<1>1. PiecesInv => PiecesBalance
  BY DEF PiecesInv
<1> QED
  BY <1>1, PiecesInvariance, PTL

-----------------------------------------------------------------------------
(* The three together.                                                      *)

\* The ledger of a sale, the drawer and the shelf share no row: a step at one leaves what
\* the proofs of the others rest on.
THEOREM CounterInvariance == CounterSpec => []CounterInv
<1>1. CounterInit => CounterInv
  BY InitBooks, DrawerInit, PiecesInit DEF CounterInit, CounterInv
<1>2. CounterInv /\ [CounterNext]_counterVars => CounterInv'
  <2> SUFFICES ASSUME CounterInv, [CounterNext]_counterVars
               PROVE  CounterInv'
    OBVIOUS
  <2>1. [Next]_vars /\ [RegisterNext]_registerVars /\ [QuickNext]_quickVars
    BY DEF CounterNext, DayIsOver, counterVars
  <2> QED
    BY <2>1, NextBooks, DrawerNext, PiecesNext DEF CounterInv
<1> QED
  BY <1>1, <1>2, PTL DEF CounterSpec
=============================================================================
