-------------------------- MODULE AfterSalesProofs --------------------------
(***************************************************************************)
(* Theorems about what follows a paid order: Refunds, for any workers,     *)
(* total and amounts; Returns, for any staff and items; Notifications, for *)
(* any workers and limits; and the three together.                         *)
(***************************************************************************)
EXTENDS MCAfterSales, UnitSumsTheorems

-----------------------------------------------------------------------------
(* Refunds: rows.                                                           *)

Succeeded(f) == {n \in DOMAIN f : f[n].status = "success"}
RefundRow == [amount : 1 .. Total, status : {"initiated", "success", "failed"}]

\* The rows that succeeded are finitely many, with natural amounts.
LEMMA SucceededFinite ==
    ASSUME NEW f, f \in [DOMAIN f -> RefundRow], DOMAIN f \subseteq Ids
    PROVE  /\ IsFiniteSet(Succeeded(f))
           /\ \A n \in Succeeded(f) : Amount(f)[n] \in Nat
           /\ SumOver(Amount(f), Succeeded(f)) \in Nat
<1>1. IsFiniteSet(Ids)
  BY RefundsAssumption, FS_Interval DEF Ids
<1>2. Succeeded(f) \in SUBSET Ids
  BY DEF Succeeded
<1>3. IsFiniteSet(Succeeded(f))
  BY <1>1, <1>2, FS_Subset
<1>4. \A n \in Succeeded(f) : Amount(f)[n] \in Nat
  BY RefundsAssumption DEF Succeeded, Amount, RefundRow
<1> QED
  BY <1>3, <1>4, SumType

\* A row that becomes successful adds its amount to the sum.
LEMMA SuccessAdds ==
    ASSUME NEW f, f \in [DOMAIN f -> RefundRow], DOMAIN f \subseteq Ids,
           NEW n \in Ids, n \notin Succeeded(f), NEW y \in RefundRow, y.status = "success",
           NEW g, g = With(f, n, y)
    PROVE  SumOver(Amount(g), Succeeded(g)) = SumOver(Amount(f), Succeeded(f)) + y.amount
<1>1. /\ DOMAIN g = DOMAIN f \cup {n} /\ g[n] = y /\ \A z \in DOMAIN f : z # n => g[z] = f[z]
      /\ g \in [DOMAIN g -> RefundRow] /\ DOMAIN g \subseteq Ids
  BY DEF With
<1>2. Succeeded(g) = Succeeded(f) \cup {n}
  BY <1>1 DEF Succeeded
<1>3. IsFiniteSet(Succeeded(f)) /\ \A m \in Succeeded(g) : Amount(g)[m] \in Nat
  BY <1>1, SucceededFinite
<1>4. \A m \in Succeeded(f) : Amount(g)[m] = Amount(f)[m]
  BY <1>1 DEF Succeeded, Amount
<1>5. Amount(g)[n] = y.amount
  BY <1>1 DEF Amount
<1>6. SumOver(Amount(g), Succeeded(f) \cup {n}) = SumOver(Amount(g), Succeeded(f)) + Amount(g)[n]
  BY <1>2, <1>3, SumAdd
<1>7. SumOver(Amount(g), Succeeded(f)) = SumOver(Amount(f), Succeeded(f))
  BY <1>4, SumCongruent
<1> QED
  BY <1>2, <1>5, <1>6, <1>7

\* A row that is written with another status adds nothing.
LEMMA OthersAddNothing ==
    ASSUME NEW f, f \in [DOMAIN f -> RefundRow], DOMAIN f \subseteq Ids,
           NEW n \in Ids, NEW y \in RefundRow, y.status # "success",
           NEW g, g = With(f, n, y)
    PROVE  SumOver(Amount(g), Succeeded(g)) <= SumOver(Amount(f), Succeeded(f))
<1>1. DOMAIN g = DOMAIN f \cup {n} /\ g[n] = y /\ \A z \in DOMAIN f : z # n => g[z] = f[z]
  BY DEF With
<1>2. Succeeded(g) \in SUBSET Succeeded(f) /\ \A m \in Succeeded(g) : Amount(g)[m] = Amount(f)[m]
  BY <1>1 DEF Succeeded, Amount
<1>3. SumOver(Amount(g), Succeeded(g)) = SumOver(Amount(f), Succeeded(g))
  BY <1>2, SumCongruent
<1>4. SumOver(Amount(f), Succeeded(g)) <= SumOver(Amount(f), Succeeded(f))
  BY <1>2, SucceededFinite, SumMonotone
<1> QED
  BY <1>3, <1>4

-----------------------------------------------------------------------------
(* Refunds: the gateway.                                                    *)

GatewayOK ==
    /\ DOMAIN gateway \subseteq Ids
    /\ gateway \in [DOMAIN gateway -> [amount : 1 .. Total, state : {"pending", "success", "failed"}]]
    /\ DOMAIN events \subseteq Events /\ events \in [DOMAIN events -> {"new", "processed"}]
    /\ \A e \in DOMAIN events : e.id \in DOMAIN gateway

LEMMA GatewayAccepts ==
    ASSUME GatewayOK, NEW n \in Ids, NEW amount \in 1 .. Total, Accepts(n, amount)
    PROVE  GatewayOK'
<1> DEFINE told == {[id |-> n, says |-> "initiated"]}
<1>1. /\ DOMAIN gateway' = DOMAIN gateway \cup {n}
      /\ gateway' \in [DOMAIN gateway' -> [amount : 1 .. Total, state : {"pending", "success", "failed"}]]
  BY DEF GatewayOK, Accepts, With
<1>2. told \subseteq Events /\ \A e \in told : e.id = n
  BY DEF Events
<1>3. events' = [e \in DOMAIN events \cup told |-> IF e \in DOMAIN events THEN events[e] ELSE "new"]
  BY DEF Accepts, Tell
<1> HIDE DEF told
<1> QED
  BY <1>1, <1>2, <1>3 DEF GatewayOK

LEMMA GatewayConcludes ==
    ASSUME GatewayOK, NEW n \in DOMAIN gateway, NEW state \in {"success", "failed"},
           Concludes(n, state)
    PROVE  GatewayOK'
<1> DEFINE told == {[id |-> n, says |-> state]}
<1>1. /\ DOMAIN gateway' = DOMAIN gateway
      /\ gateway' \in [DOMAIN gateway' -> [amount : 1 .. Total, state : {"pending", "success", "failed"}]]
  BY DEF GatewayOK, Concludes
<1>2. told \subseteq Events /\ \A e \in told : e.id = n
  BY DEF Events, GatewayOK
<1>3. events' = [e \in DOMAIN events \cup told |-> IF e \in DOMAIN events THEN events[e] ELSE "new"]
  BY DEF Concludes, Tell
<1> HIDE DEF told
<1> QED
  BY <1>1, <1>2, <1>3 DEF GatewayOK

\* An event that is worked off.
LEMMA EventProcessed ==
    ASSUME GatewayOK, NEW e, UNCHANGED gateway, events' = [events EXCEPT ![e] = "processed"]
    PROVE  GatewayOK'
BY DEF GatewayOK

-----------------------------------------------------------------------------
(* Refunds: steps of a transaction that has written nothing yet.            *)

LEMMA NoWorkFits == NoWork \in Work /\ WorkFits(NoWork) /\ ~AtPayment(NoWork)
BY RefundsAssumption DEF NoWork, Work, WorkFits, AtPayment, Statuses

\* One transaction goes on, and the rows stay as they are.
LEMMA WorkStep ==
    ASSUME RefundsInv, NEW w \in Workers, NEW q \in Work, work' = [work EXCEPT ![w] = q],
           WorkFits(q), AtPayment(q) => \A v \in Workers \ {w} : ~AtPayment(work[v]),
           UNCHANGED <<order, payment, rows>>, GatewayOK'
    PROVE  RefundsInv'
<1>1. work \in [Workers -> Work]
  BY DEF RefundsInv, RefundsTypeOK
<1>2. /\ work' \in [Workers -> Work] /\ work'[w] = q
      /\ \A v \in Workers \ {w} : work'[v] = work[v]
  BY <1>1
<1>3. RefundsTypeOK'
  BY <1>2 DEF RefundsInv, RefundsTypeOK, GatewayOK
<1>4. AggregatesAgree'
  BY DEF RefundsInv, AggregatesAgree
<1>5. \A v \in Workers : WorkFits(work[v])'
  <2> SUFFICES ASSUME NEW v \in Workers PROVE WorkFits(work[v])'
    OBVIOUS
  <2>1. WorkFits(work'[v])
    BY <1>2 DEF RefundsInv
  <2> QED
    BY <2>1 DEF WorkFits, AtPayment, AppliedAlready
<1>6. \A u, v \in Workers : AtPayment(work'[u]) /\ AtPayment(work'[v]) => u = v
  BY <1>2 DEF RefundsInv
<1> QED
  BY <1>3, <1>4, <1>5, <1>6 DEF RefundsInv, GatewayOK, AtPayment

\* A transaction that has rolled back or has nothing to write.
LEMMA WorkEnds ==
    ASSUME RefundsInv, NEW w \in Workers, Ends(w), UNCHANGED <<order, payment, rows>>, GatewayOK'
    PROVE  RefundsInv'
BY NoWorkFits, WorkStep DEF Ends

\* Nobody but w is at the payment.
LEMMA LockHeld ==
    ASSUME NEW w \in Workers, LocksPayment(w)
    PROVE  \A v \in Workers \ {w} : ~AtPayment(work[v])
BY DEF LocksPayment, AtPayment

LEMMA GatewayFits == RefundsInv => GatewayOK
BY DEF RefundsInv, RefundsTypeOK, GatewayOK

\* What create_refund and a webhook begin with.
LEMMA Begins ==
    ASSUME NEW do \in {"refund", "webhook"}, NEW n \in Ids, NEW amount \in 1 .. Total,
           NEW seen \in 0 .. Total, NEW e \in Events
    PROVE  /\ [NoWork EXCEPT !.doing = do, !.phase = "ask", !.id = n,
                             !.amount = amount, !.seen = seen] \in Work
           /\ [NoWork EXCEPT !.doing = do, !.event = e, !.id = n,
                             !.amount = amount, !.seen = seen] \in Work
<1>1. amount \in 0 .. Total
  BY RefundsAssumption
<1> QED
  BY <1>1, NoWorkFits DEF Work

LEMMA CreateRefundKeeps ==
    ASSUME RefundsInv, NEW w \in Workers, NEW amount \in Amounts, CreateRefund(w, amount)
    PROVE  RefundsInv'
<1>1. PICK n \in Fresh :
        work' = [work EXCEPT ![w] = [NoWork EXCEPT !.doing = "refund", !.phase = "ask", !.id = n,
                                       !.amount = amount, !.seen = payment.refunded]]
  BY DEF CreateRefund
<1> DEFINE q == [NoWork EXCEPT !.doing = "refund", !.phase = "ask", !.id = n,
                               !.amount = amount, !.seen = payment.refunded]
<1>2. n \in Ids /\ n \notin DOMAIN rows
  BY DEF Fresh, Used
<1>3. amount \in 1 .. Total /\ Total \in Nat /\ payment.refunded \in 0 .. Total
  BY RefundsAssumption DEF RefundsInv, RefundsTypeOK
<1>4. amount <= Total - payment.refunded
  BY DEF CreateRefund, Outstanding
<1>5. /\ q.doing = "refund" /\ q.phase = "ask" /\ q.id = n /\ q.amount = amount
      /\ q.seen = payment.refunded
  BY DEF NoWork
<1>6. q \in Work
  <2>1. [id |-> n, says |-> "initiated"] \in Events
    BY <1>2 DEF Events
  <2> QED
    BY <1>2, <1>3, <2>1, Begins
<1> HIDE DEF q
<1>7. WorkFits(q)
  BY <1>2, <1>3, <1>4, <1>5 DEF WorkFits, AppliedAlready
<1>8. \A v \in Workers \ {w} : ~AtPayment(work[v])
  BY LockHeld DEF CreateRefund
<1>9. GatewayOK'
  BY GatewayFits DEF CreateRefund, GatewayOK
<1>10. work' = [work EXCEPT ![w] = q] /\ UNCHANGED <<order, payment, rows>>
  BY <1>1 DEF CreateRefund, q
<1> QED
  BY <1>6, <1>7, <1>8, <1>9, <1>10, WorkStep

LEMMA CallsGatewayKeeps ==
    ASSUME RefundsInv, NEW w \in Workers, CallsGateway(w)
    PROVE  RefundsInv'
<1>1. work[w] \in Work /\ WorkFits(work[w]) /\ work[w].phase = "ask" /\ work[w].doing = "refund"
  BY DEF RefundsInv, RefundsTypeOK, CallsGateway, WorkFits
<1>2. PICK phase \in {"read", "failed"} : work' = [work EXCEPT ![w].phase = phase]
  BY DEF CallsGateway
<1> DEFINE q == [work[w] EXCEPT !.phase = phase]
<1>3. q \in Work /\ WorkFits(q) /\ AtPayment(q) /\ AtPayment(work[w])
  BY <1>1, <1>2 DEF Work, WorkFits, AtPayment
<1>4. \A v \in Workers \ {w} : ~AtPayment(work[v])
  BY <1>3 DEF RefundsInv
<1>5. GatewayOK'
  <2>1. CASE Accepts(work[w].id, work[w].amount)
    <3>1. work[w].id \in Ids /\ work[w].amount \in 1 .. Total
      BY <1>1, RefundsAssumption DEF Work, WorkFits, AtPayment
    <3> QED
      BY <2>1, <3>1, GatewayFits, GatewayAccepts
  <2>2. CASE UNCHANGED <<gateway, events>>
    BY <2>2, GatewayFits DEF GatewayOK
  <2> QED
    BY <2>1, <2>2 DEF CallsGateway
<1>6. work' = [work EXCEPT ![w] = q] /\ UNCHANGED <<order, payment, rows>>
  BY <1>2 DEF CallsGateway
<1> QED
  BY <1>3, <1>4, <1>5, <1>6, WorkStep

LEMMA AcceptsEventKeeps ==
    ASSUME RefundsInv, NEW w \in Workers, NEW e \in Events, AcceptsEvent(w, e)
    PROVE  RefundsInv'
<1> DEFINE q == [NoWork EXCEPT !.doing = "webhook", !.event = e, !.id = e.id,
                   !.amount = gateway[e.id].amount, !.seen = payment.refunded]
<1>1. e.id \in Ids /\ e.id \in DOMAIN gateway /\ gateway[e.id].amount \in 1 .. Total
  BY DEF RefundsInv, RefundsTypeOK, AcceptsEvent, Delivers, Events
<1>2. Total \in Nat /\ payment.refunded \in 0 .. Total
  BY RefundsAssumption DEF RefundsInv, RefundsTypeOK
<1>3. /\ q.doing = "webhook" /\ q.phase = "read" /\ q.id = e.id
      /\ q.amount = gateway[e.id].amount /\ q.seen = payment.refunded
  BY DEF NoWork
<1>4. /\ ~AppliedAlready(e.id) /\ gateway[e.id].amount <= Total - payment.refunded
      /\ work' = [work EXCEPT ![w] = q] /\ UNCHANGED <<order, payment, rows, gateway, events>>
      /\ LocksPayment(w)
  BY DEF AcceptsEvent, Outstanding, Delivers
<1>5. q \in Work
  BY <1>1, <1>2, Begins
<1> HIDE DEF q
<1>6. WorkFits(q)
  BY <1>1, <1>2, <1>3, <1>4 DEF WorkFits
<1>7. GatewayOK'
  BY <1>4, GatewayFits DEF GatewayOK
<1> QED
  BY <1>4, <1>5, <1>6, <1>7, LockHeld, WorkStep

LEMMA ReadsOrderKeeps ==
    ASSUME RefundsInv, NEW w \in Workers, ReadsOrder(w)
    PROVE  RefundsInv'
<1>1. work[w] \in Work /\ WorkFits(work[w]) /\ AtPayment(work[w]) /\ order.status \in Statuses
  BY DEF RefundsInv, RefundsTypeOK, ReadsOrder, AtPayment
<1> DEFINE q == [work[w] EXCEPT !.phase = "write", !.status = order.status]
<1>2. q \in Work /\ AtPayment(q)
  BY <1>1 DEF Work, AtPayment
<1>3. WorkFits(q)
  BY <1>1 DEF Work, WorkFits, AtPayment
<1>4. \A v \in Workers \ {w} : ~AtPayment(work[v])
  BY <1>1 DEF RefundsInv
<1>5. work' = [work EXCEPT ![w] = q] /\ UNCHANGED <<order, payment, rows, gateway, events>>
  BY DEF ReadsOrder
<1>6. GatewayOK'
  BY <1>5, GatewayFits DEF GatewayOK
<1> QED
  BY <1>2, <1>3, <1>4, <1>5, <1>6, WorkStep

LEMMA ReadsToCancelKeeps ==
    ASSUME RefundsInv, NEW w \in Workers, ReadsToCancel(w)
    PROVE  RefundsInv'
<1> DEFINE q == [NoWork EXCEPT !.doing = "cancel", !.phase = "write"]
<1>1. q \in Work /\ ~AtPayment(q) /\ WorkFits(q)
  BY NoWorkFits DEF NoWork, Work, WorkFits, AtPayment
<1>2. work' = [work EXCEPT ![w] = q] /\ UNCHANGED <<order, payment, rows, gateway, events>>
  BY DEF ReadsToCancel
<1>3. GatewayOK'
  BY <1>2, GatewayFits DEF GatewayOK
<1> QED
  BY <1>1, <1>2, <1>3, WorkStep

-----------------------------------------------------------------------------
(* Refunds: steps that write.                                               *)

\* A refund's row is written by whoever is at the payment, or by nobody's refund.
LEMMA RowStep ==
    ASSUME RefundsInv, NEW n \in Ids, NEW y \in RefundRow, y.status # "success",
           rows' = With(rows, n, y), UNCHANGED <<order, payment>>, GatewayOK',
           work' \in [Workers -> Work],
           \A v \in Workers : work'[v] = NoWork \/ work'[v] = work[v]
    PROVE  RefundsInv'
<1>1. DOMAIN rows' = DOMAIN rows \cup {n} /\ rows'[n] = y /\ \A z \in DOMAIN rows : z # n => rows'[z] = rows[z]
  BY DEF With
<1>2. DOMAIN rows' \subseteq Ids /\ rows' \in [DOMAIN rows' -> RefundRow]
      /\ DOMAIN rows \subseteq Ids /\ rows \in [DOMAIN rows -> RefundRow]
  BY DEF RefundsInv, RefundsTypeOK, With, RefundRow
<1>3. RefundsTypeOK'
  BY <1>2 DEF RefundsInv, RefundsTypeOK, GatewayOK, RefundRow
<1>4. SumOver(Amount(rows'), Succeeded(rows')) <= SumOver(Amount(rows), Succeeded(rows))
  BY <1>2, OthersAddNothing
<1>5. /\ SumOver(Amount(rows), Succeeded(rows)) \in Nat /\ SumOver(Amount(rows'), Succeeded(rows')) \in Nat
      /\ payment.refunded \in Int
  BY <1>2, SucceededFinite, RefundsAssumption DEF RefundsInv, RefundsTypeOK
<1>6. SumOver(Amount(rows), Succeeded(rows)) <= payment.refunded
  BY DEF RefundsInv, AggregatesAgree, Succeeded
<1>7. SumOver(Amount(rows'), Succeeded(rows')) <= payment.refunded
  BY <1>4, <1>5, <1>6
<1>8. AggregatesAgree'
  BY <1>7 DEF RefundsInv, AggregatesAgree, Succeeded, Amount
<1>9. \A v \in Workers : WorkFits(work[v])'
  <2> SUFFICES ASSUME NEW v \in Workers PROVE WorkFits(work[v])'
    OBVIOUS
  <2>1. WorkFits(work'[v])
    BY NoWorkFits DEF RefundsInv
  <2>2. \A m : AppliedAlready(m)' => AppliedAlready(m)
    BY <1>1 DEF AppliedAlready
  <2> QED
    BY <2>1, <2>2 DEF WorkFits, AtPayment
<1>10. \A u, v \in Workers : AtPayment(work'[u]) /\ AtPayment(work'[v]) => u = v
  BY NoWorkFits DEF RefundsInv
<1> QED
  BY <1>3, <1>8, <1>9, <1>10 DEF RefundsInv, GatewayOK, AtPayment

LEMMA RecordsFailureKeeps ==
    ASSUME RefundsInv, NEW w \in Workers, RecordsFailure(w)
    PROVE  RefundsInv'
<1>1. work[w] \in Work /\ WorkFits(work[w]) /\ AtPayment(work[w]) /\ work \in [Workers -> Work]
  BY DEF RefundsInv, RefundsTypeOK, RecordsFailure, WorkFits, AtPayment
<1>2. work[w].id \in Ids /\ Unsuccessful(work[w].amount) \in RefundRow
      /\ Unsuccessful(work[w].amount).status # "success"
  BY <1>1, RefundsAssumption DEF WorkFits, Work, Unsuccessful, RefundRow
<1>3. work' \in [Workers -> Work] /\ \A v \in Workers : work'[v] = NoWork \/ work'[v] = work[v]
  BY <1>1, NoWorkFits DEF RecordsFailure, Ends
<1>4. GatewayOK'
  BY GatewayFits DEF GatewayOK, RecordsFailure
<1> QED
  BY <1>2, <1>3, <1>4, RowStep DEF RecordsFailure

LEMMA StoresEventKeeps ==
    ASSUME RefundsInv, NEW w \in Workers, NEW e \in Events, StoresEvent(w, e)
    PROVE  RefundsInv'
<1> DEFINE y == [amount |-> gateway[e.id].amount, status |-> e.says]
<1>1. e.id \in Ids /\ gateway[e.id].amount \in 1 .. Total /\ y \in RefundRow /\ y.status # "success"
  BY DEF RefundsInv, RefundsTypeOK, StoresEvent, Delivers, Events, RefundRow
<1>2. GatewayOK'
  BY GatewayFits, EventProcessed DEF StoresEvent
<1>3. work' \in [Workers -> Work] /\ \A v \in Workers : work'[v] = work[v]
  BY DEF StoresEvent, RefundsInv, RefundsTypeOK
<1> QED
  BY <1>1, <1>2, <1>3, RowStep DEF StoresEvent

\* What the aggregate of an amount says.
LEMMA AggregateOf ==
    ASSUME NEW refunded \in 1 .. Total
    PROVE  /\ Aggregate(refunded) \in {"partially_refunded", "refunded"}
           /\ Aggregate(refunded) = "refunded" <=> refunded = Total
BY RefundsAssumption DEF Aggregate

LEMMA AppliesRefundKeeps ==
    ASSUME RefundsInv, NEW w \in Workers, AppliesRefund(w)
    PROVE  /\ RefundsInv'
           /\ work[w].id \in DOMAIN rows' /\ rows'[work[w].id].status = "success"
           /\ ~AppliedAlready(work[w].id)
           /\ payment'.refunded = payment.refunded + rows'[work[w].id].amount
<1> DEFINE n == work[w].id
           refunded == work[w].seen + work[w].amount
           target == Aggregate(refunded)
           y == [amount |-> work[w].amount, status |-> "success"]
<1>1. work[w] \in Work /\ WorkFits(work[w]) /\ AtPayment(work[w]) /\ work \in [Workers -> Work]
  BY DEF RefundsInv, RefundsTypeOK, AppliesRefund, AtPayment
<1>2. /\ n \in Ids /\ ~AppliedAlready(n) /\ work[w].amount \in 1 .. Total /\ work[w].seen = payment.refunded
      /\ payment.refunded \in 0 .. Total
      /\ work[w].status = "refunded" => order.status \in {"refunded", "cancelled"}
  BY <1>1, RefundsAssumption DEF WorkFits, Work, AppliesRefund, RefundsInv, RefundsTypeOK
<1>3. refunded \in 1 .. Total /\ refunded = payment.refunded + work[w].amount
  BY <1>1, <1>2, RefundsAssumption DEF WorkFits, RefundsInv, RefundsTypeOK
<1>4. target \in {"partially_refunded", "refunded"} /\ (target = "refunded" <=> refunded = Total)
  BY <1>3, AggregateOf
<1>5. /\ order' = [status |-> IF StaysAs(work[w].status, target) THEN order.status ELSE target,
                   payment |-> target]
      /\ payment' = [refunded |-> refunded, status |-> target]
      /\ rows' = With(rows, n, y) /\ Ends(w) /\ UNCHANGED gateway
  BY DEF AppliesRefund
<1> HIDE DEF refunded, target, n
<1>6. y \in RefundRow /\ y.amount = work[w].amount /\ y.status = "success"
  BY <1>2 DEF RefundRow
<1> HIDE DEF y
<1>7. DOMAIN rows' = DOMAIN rows \cup {n} /\ rows'[n] = y /\ \A z \in DOMAIN rows : z # n => rows'[z] = rows[z]
  BY <1>5 DEF With
<1>8. DOMAIN rows' \subseteq Ids /\ rows' \in [DOMAIN rows' -> RefundRow]
      /\ DOMAIN rows \subseteq Ids /\ rows \in [DOMAIN rows -> RefundRow]
  BY <1>2, <1>5, <1>6 DEF RefundsInv, RefundsTypeOK, With, RefundRow
<1>9. n \notin Succeeded(rows)
  BY <1>2 DEF AppliedAlready, Succeeded
<1>10. SumOver(Amount(rows'), Succeeded(rows')) = SumOver(Amount(rows), Succeeded(rows)) + y.amount
  BY <1>2, <1>5, <1>6, <1>8, <1>9, SuccessAdds
<1>11. SumOver(Amount(rows), Succeeded(rows)) \in Nat /\ SumOver(Amount(rows), Succeeded(rows)) <= payment.refunded
  BY <1>8, SucceededFinite DEF RefundsInv, AggregatesAgree, Succeeded
<1>12. SumOver(Amount(rows'), Succeeded(rows')) <= payment'.refunded
  BY <1>2, <1>3, <1>5, <1>6, <1>10, <1>11
<1>13. GatewayOK'
  <2>1. events' = events \/ events' = [events EXCEPT ![work[w].event] = "processed"]
    BY DEF AppliesRefund
  <2> QED
    BY <1>5, <2>1, GatewayFits, EventProcessed DEF GatewayOK
<1>14. work' \in [Workers -> Work] /\ work'[w] = NoWork /\ \A v \in Workers \ {w} : work'[v] = work[v]
  BY <1>1, <1>5, NoWorkFits DEF Ends
<1>15. RefundsTypeOK'
  BY <1>3, <1>4, <1>5, <1>8, <1>13, <1>14, RefundsAssumption
     DEF RefundsInv, RefundsTypeOK, GatewayOK, RefundRow, PaymentState, Statuses
<1>16. order'.status \in {"refunded", "cancelled"} \/ target # "refunded"
  BY <1>2, <1>5 DEF StaysAs
<1>17. AggregatesAgree'
  BY <1>3, <1>4, <1>5, <1>12, <1>16, RefundsAssumption DEF AggregatesAgree, Succeeded, Amount
<1>18. \A v \in Workers : ~AtPayment(work'[v])
  BY <1>1, <1>14, NoWorkFits DEF RefundsInv
<1>19. \A v \in Workers : WorkFits(work[v])'
  BY <1>14, <1>18, NoWorkFits DEF RefundsInv, WorkFits, AtPayment
<1>20. RefundsInv'
  BY <1>13, <1>15, <1>17, <1>18, <1>19 DEF RefundsInv, GatewayOK, AtPayment
<1> QED
  BY <1>2, <1>3, <1>5, <1>6, <1>7, <1>20 DEF n

LEMMA CancelsKeeps ==
    ASSUME RefundsInv, NEW w \in Workers, Cancels(w)
    PROVE  RefundsInv'
<1>1. /\ order' = [order EXCEPT !.status = "cancelled"] /\ Ends(w)
      /\ UNCHANGED <<payment, rows, gateway, events>>
  BY DEF Cancels
<1>2. /\ order \in [status : Statuses, payment : {"paid", "partially_refunded", "refunded"}]
      /\ order'.status = "cancelled" /\ order'.payment = order.payment
      /\ order' \in [status : Statuses, payment : {"paid", "partially_refunded", "refunded"}]
  BY <1>1 DEF RefundsInv, RefundsTypeOK, Statuses
<1>3. work' \in [Workers -> Work] /\ work'[w] = NoWork /\ \A v \in Workers \ {w} : work'[v] = work[v]
  BY <1>1, NoWorkFits DEF Ends, RefundsInv, RefundsTypeOK
<1>4. RefundsTypeOK'
  BY <1>1, <1>2, <1>3 DEF RefundsInv, RefundsTypeOK
<1>5. AggregatesAgree'
  BY <1>1, <1>2 DEF RefundsInv, AggregatesAgree
<1>6. \A v \in Workers : WorkFits(work[v])'
  <2> SUFFICES ASSUME NEW v \in Workers PROVE WorkFits(work[v])'
    OBVIOUS
  <2>1. WorkFits(work'[v])
    BY <1>3, NoWorkFits DEF RefundsInv
  <2> QED
    BY <2>1, <1>1, <1>2 DEF WorkFits, AtPayment, AppliedAlready
<1>7. \A u, v \in Workers : AtPayment(work'[u]) /\ AtPayment(work'[v]) => u = v
  BY <1>3, NoWorkFits DEF RefundsInv
<1> QED
  BY <1>1, <1>4, <1>5, <1>6, <1>7 DEF RefundsInv, AtPayment

\* Only the gateway's side moves.
LEMMA GatewayStep ==
    ASSUME RefundsInv, UNCHANGED <<order, payment, rows, work>>, GatewayOK'
    PROVE  RefundsInv'
<1>1. RefundsTypeOK'
  BY DEF RefundsInv, RefundsTypeOK, GatewayOK
<1>2. AggregatesAgree'
  BY DEF RefundsInv, AggregatesAgree
<1>3. \A v \in Workers : WorkFits(work[v])'
  BY DEF RefundsInv, WorkFits, AtPayment, AppliedAlready
<1> QED
  BY <1>1, <1>2, <1>3 DEF RefundsInv, GatewayOK, AtPayment

-----------------------------------------------------------------------------
(* Refunds: the invariant.                                                  *)

LEMMA InitRefundsInv == Init => RefundsInv
<1> SUFFICES ASSUME Init PROVE RefundsInv
  OBVIOUS
<1>1. /\ DOMAIN rows = {} /\ DOMAIN gateway = {} /\ DOMAIN events = {}
      /\ rows \in [DOMAIN rows -> RefundRow]
      /\ payment = [refunded |-> 0, status |-> "success"]
      /\ work = [w \in Workers |-> NoWork]
  BY DEF Init
<1>2. order.status \in Stages /\ order.payment = "paid"
      /\ order \in [status : Statuses, payment : {"paid", "partially_refunded", "refunded"}]
  BY RefundsAssumption DEF Init
<1>3. RefundsTypeOK
  BY <1>1, <1>2, NoWorkFits, RefundsAssumption DEF Init, RefundsTypeOK, PaymentState
<1>4. Succeeded(rows) = {}
  BY <1>1 DEF Succeeded
<1>5. SumOver(Amount(rows), Succeeded(rows)) = 0
  BY <1>4, SumEmpty
<1>6. AggregatesAgree
  BY <1>1, <1>2, <1>5, RefundsAssumption DEF AggregatesAgree, Succeeded, Amount
<1> QED
  BY <1>1, <1>3, <1>6, NoWorkFits DEF RefundsInv

\* What a step does to the refunded amount.
Counted ==
    payment'.refunded # payment.refunded =>
        \E n \in DOMAIN rows' :
           /\ rows'[n].status = "success" /\ ~AppliedAlready(n)
           /\ payment'.refunded = payment.refunded + rows'[n].amount

LEMMA NextRefundsInv == RefundsInv /\ [Next]_vars => RefundsInv' /\ Counted
<1> SUFFICES ASSUME RefundsInv, [Next]_vars PROVE RefundsInv' /\ Counted
  OBVIOUS
<1>1. CASE UNCHANGED vars
  <2>1. GatewayOK'
    BY <1>1, GatewayFits DEF vars, GatewayOK
  <2> QED
    BY <1>1, <2>1, GatewayStep DEF vars, Counted
<1>2. CASE \E amount \in Amounts : RefundsByItself(amount)
  <2>1. PICK amount \in Amounts, n \in Fresh :
          Accepts(n, amount) /\ UNCHANGED <<order, payment, rows, work>>
    BY <1>2 DEF RefundsByItself
  <2>2. amount \in 1 .. Total /\ n \in Ids
    BY RefundsAssumption DEF Fresh
  <2> QED
    BY <2>1, <2>2, GatewayFits, GatewayAccepts, GatewayStep DEF Counted
<1>3. CASE \E n \in DOMAIN gateway, state \in {"success", "failed"} : Concludes(n, state)
  BY <1>3, GatewayFits, GatewayConcludes, GatewayStep DEF Concludes, Counted
<1>4. ASSUME NEW w \in Workers, NEW amount \in Amounts, CreateRefund(w, amount)
      PROVE  RefundsInv' /\ Counted
  BY <1>4, CreateRefundKeeps DEF CreateRefund, Counted
<1>5. ASSUME NEW w \in Workers, NEW e \in Events, HandleRefundWebhook(w, e)
      PROVE  RefundsInv' /\ Counted
  <2>1. CASE StoresEvent(w, e)
    BY <2>1, StoresEventKeeps DEF StoresEvent, Counted
  <2>2. CASE IgnoresEvent(w, e)
    BY <2>2, GatewayFits, EventProcessed, GatewayStep DEF IgnoresEvent, Counted
  <2>3. CASE AcceptsEvent(w, e)
    BY <2>3, AcceptsEventKeeps DEF AcceptsEvent, Counted
  <2>4. CASE FindsNoPayment(w, e)
    BY <2>4, GatewayFits, EventProcessed, GatewayStep DEF FindsNoPayment, Counted
  <2> QED
    BY <1>5, <2>1, <2>2, <2>3, <2>4 DEF HandleRefundWebhook
<1>6. ASSUME NEW w \in Workers, CallsGateway(w)
      PROVE  RefundsInv' /\ Counted
  BY <1>6, CallsGatewayKeeps DEF CallsGateway, Counted
<1>7. ASSUME NEW w \in Workers, RecordsFailure(w)
      PROVE  RefundsInv' /\ Counted
  BY <1>7, RecordsFailureKeeps DEF RecordsFailure, Counted
<1>8. ASSUME NEW w \in Workers, ReadsOrder(w)
      PROVE  RefundsInv' /\ Counted
  BY <1>8, ReadsOrderKeeps DEF ReadsOrder, Counted
<1>9. ASSUME NEW w \in Workers, AppliesRefund(w)
      PROVE  RefundsInv' /\ Counted
  BY <1>9, AppliesRefundKeeps DEF Counted
<1>10. ASSUME NEW w \in Workers, RaisesTransitionError(w) \/ Dies(w)
       PROVE  RefundsInv' /\ Counted
  <2>1. Ends(w) /\ UNCHANGED <<order, payment, rows, gateway, events>>
    BY <1>10 DEF RaisesTransitionError, Dies
  <2>2. GatewayOK'
    BY <2>1, GatewayFits DEF GatewayOK
  <2> QED
    BY <2>1, <2>2, WorkEnds DEF Counted
<1>11. ASSUME NEW w \in Workers, ReadsToCancel(w)
       PROVE  RefundsInv' /\ Counted
  BY <1>11, ReadsToCancelKeeps DEF ReadsToCancel, Counted
<1>12. ASSUME NEW w \in Workers, Cancels(w)
       PROVE  RefundsInv' /\ Counted
  BY <1>12, CancelsKeeps DEF Cancels, Counted
<1> QED
  BY <1>1, <1>2, <1>3, <1>4, <1>5, <1>6, <1>7, <1>8, <1>9, <1>10, <1>11, <1>12 DEF Next

\* The inductive invariant: whoever is at the payment has read the amount it adds to, and
\* adds a row that did not count before.
THEOREM RefundsInvariance == Spec => []RefundsInv
<1> QED
  BY InitRefundsInv, NextRefundsInv, PTL DEF Spec

\* apply_refund writes amount and statuses of payment and order in one transaction: no
\* overlapping refunds, webhooks, cancellations, failures or crashes part them, nor lose
\* a refund that a row calls successful.
THEOREM AggregatesAgreeAlways == Spec => []AggregatesAgree
<1>1. RefundsInv => AggregatesAgree
  BY DEF RefundsInv
<1> QED
  BY <1>1, RefundsInvariance, PTL

\* create_refund and handle_refund_webhook lock the payment before they look whether a
\* refund was applied: the amount moves only with a row that was not successful before.
THEOREM RefundsCounted == Spec => CountedWithItsRow
<1>1. RefundsInv /\ [Next]_vars => [Counted]_vars
  BY NextRefundsInv
<1> QED
  BY <1>1, RefundsInvariance, PTL DEF Spec, CountedWithItsRow, Counted

-----------------------------------------------------------------------------
(* Returns: the tasks of the staff.                                         *)

\* The types, one by one.
LEMMA ReturnsTypes ==
    ASSUME ReturnsInv
    PROVE  /\ kind \in {"return", "exchange"} /\ tracked \in SUBSET Items
           /\ ret \in Request
           /\ DOMAIN items \in {{}, Items} /\ items \in [DOMAIN items -> Item]
           /\ given \in [Items -> Nat] /\ shelf \in [Items -> Nat]
           /\ task \in [Staff -> Task]
           /\ reached \in SUBSET ReturnStatus
           /\ found \in [Items -> SUBSET Conditions]
           /\ raced \in SUBSET Items
BY DEF ReturnsInv, ReturnsTypeOK

\* A batch holds items, in conditions.
LEMMA BatchType ==
    ASSUME NEW t \in Task
    PROVE  DOMAIN t.batch \subseteq Items /\ \A i \in DOMAIN t.batch : t.batch[i] \in Conditions
BY DEF Task

LEMMA NoTaskFits == NoTask \in Task /\ DOMAIN NoTask.batch = {} /\ NoTask.service = "none"
<1>1. [i \in {} |-> "none"] \in [{} -> Conditions]
  OBVIOUS
<1>2. [i \in {} |-> "none"] \in UNION {[S -> Conditions] : S \in SUBSET Items}
  BY <1>1
<1>3. Blank \in Request
  BY DEF Blank, Request, ReturnStatus
<1> QED
  BY <1>2, <1>3 DEF NoTask, Task

\* What a task relies on stays when nothing it relies on is taken back.
LEMMA TaskStaysFit ==
    ASSUME ReturnsInv, NEW v \in Staff, task'[v] = task[v], kind' = kind, reached \subseteq reached',
           raced \subseteq raced', \A i \in Items : found[i] \subseteq found'[i],
           \A i \in DOMAIN task[v].batch : given'[i] = given[i] \/ i \in raced'
    PROVE  TaskFits(task[v])'
<1>1. TaskFits(task[v]) /\ task[v] \in Task
  BY ReturnsTypes DEF ReturnsInv
<1>2. DOMAIN task[v].batch \subseteq Items
  BY <1>1, BatchType
<1> QED
  BY <1>1, <1>2 DEF TaskFits, RowFits

\* One of the staff finishes.
LEMMA TaskFinished ==
    ASSUME ReturnsInv, NEW w \in Staff, Finishes(w)
    PROVE  /\ task' \in [Staff -> Task] /\ task'[w] = NoTask
           /\ \A v \in Staff \ {w} : task'[v] = task[v]
BY ReturnsTypes, NoTaskFits DEF Finishes

LEMMA FinishedFits ==
    ASSUME ReturnsInv, NEW w \in Staff, Finishes(w), kind' = kind, reached \subseteq reached',
           raced \subseteq raced', \A i \in Items : found[i] \subseteq found'[i],
           \A v \in Staff \ {w} : \A i \in DOMAIN task[v].batch : given'[i] = given[i] \/ i \in raced'
    PROVE  \A v \in Staff : TaskFits(task[v])'
<1> SUFFICES ASSUME NEW v \in Staff PROVE TaskFits(task[v])'
  OBVIOUS
<1>1. CASE v = w
  BY <1>1, TaskFinished, NoTaskFits DEF TaskFits
<1>2. CASE v # w
  BY <1>2, TaskFinished, TaskStaysFit
<1> QED
  BY <1>1, <1>2

\* Whoever does something has read a request that was made.
LEMMA Doer ==
    ASSUME ReturnsInv, NEW w \in Staff, task[w] # NoTask
    PROVE  reached # {} /\ TaskFits(task[w]) /\ task[w] \in Task
BY ReturnsTypes DEF ReturnsInv

LEMMA DoerIs ==
    ASSUME NEW w \in Staff, NEW service \in Services, Doing(w, service)
    PROVE  task[w] # NoTask
BY NoTaskFits DEF Doing, Services

-----------------------------------------------------------------------------
(* Returns: the statuses a service moves a request along.                   *)

LEMMA Ways ==
    /\ Way("approve") = <<"under_review", "approved">>
    /\ Way("reject") = <<"rejected">>
    /\ Way("receive") = <<"items_received">>
    /\ Way("inspect") = <<"inspected">>
    /\ Way("send") = <<IF kind = "return" THEN "refund_initiated" ELSE "exchange_shipped">>
    /\ Way("complete") = <<"completed">>
    /\ Way("reject_inspected") = <<"rejected_after_inspection">>
BY DEF Way

\* A decision to go one status on was right for the status it was made on.
LEMMA OneStep ==
    ASSUME NEW s \in ReturnStatus, NEW to, Leads(s, <<to>>)
    PROVE  to \in TRANSITIONS(kind)[s]
BY DEF Leads

\* What leads to a status.
LEMMA WhatLeads ==
    ASSUME ReturnsInv, NEW s \in ReturnStatus
    PROVE  /\ "items_received" \in TRANSITIONS(kind)[s] => s = "approved"
           /\ "inspected" \in TRANSITIONS(kind)[s] => s = "items_received"
           /\ "rejected_after_inspection" \in TRANSITIONS(kind)[s] => s = "inspected"
           /\ "refund_initiated" \in TRANSITIONS(kind)[s] => s = "inspected"
           /\ "exchange_shipped" \in TRANSITIONS(kind)[s] => s = "inspected"
           /\ "completed" \in TRANSITIONS(kind)[s] => s \in {"refund_initiated", "exchange_shipped"}
<1>1. kind \in {"return", "exchange"}
  BY ReturnsTypes
<1>2. CASE s \in {"refund_initiated", "exchange_shipped", "completed", "rejected", "rejected_after_inspection"}
  BY <1>1, <1>2 DEF TRANSITIONS, ReturnStatus
<1>3. CASE s \in {"submitted", "under_review", "approved", "items_received", "inspected"}
  BY <1>1, <1>3 DEF TRANSITIONS, ReturnStatus
<1> QED
  BY <1>2, <1>3 DEF ReturnStatus

LEMMA ReadsRequestKeeps ==
    ASSUME ReturnsInv, NEW w \in Staff, NEW service \in Services, ReadsRequest(w, service)
    PROVE  ReturnsInv'
<1> DEFINE batch == [i \in IF service = "reintegrate" THEN ToReintegrate ELSE {} |-> items[i].condition]
           copy == IF service = "update" THEN ret ELSE Blank
           t == [service |-> service, copy |-> copy, batch |-> batch]
<1>1. /\ task' = [task EXCEPT ![w] = t]
      /\ UNCHANGED <<kind, tracked, ret, items, given, shelf, reached, found, raced>>
      /\ ret.exists /\ Leads(ret.status, Way(service)) /\ Allows(service)
  BY DEF ReadsRequest
<1>2. ret.status \in reached /\ ret.status \in ReturnStatus
  BY <1>1, ReturnsTypes DEF ReturnsInv, RowFits, Request
<1>3. DOMAIN batch \subseteq Items /\ batch \in [DOMAIN batch -> Conditions]
      /\ \A i \in DOMAIN batch : i \in DOMAIN items /\ ~items[i].reintegrated /\ batch[i] = items[i].condition
  BY ReturnsTypes DEF ToReintegrate, Item
<1> HIDE DEF batch
<1>4. copy \in Request
  BY ReturnsTypes DEF Blank, Request, ReturnStatus
<1>5. t \in Task
  <2>1. batch \in UNION {[S -> Conditions] : S \in SUBSET Items}
    BY <1>3
  <2> QED
    BY <1>4, <2>1 DEF Task
<1>6. task' \in [Staff -> Task] /\ task'[w] = t /\ \A v \in Staff \ {w} : task'[v] = task[v]
  BY <1>1, <1>5, ReturnsTypes
<1>7. t.service = service /\ t.copy = copy /\ t.batch = batch
  OBVIOUS
<1> HIDE DEF t
<1>8. /\ service = "receive" => "approved" \in reached
      /\ service = "inspect" => "items_received" \in reached
      /\ service \in {"send", "reject_inspected"} => "inspected" \in reached
      /\ service = "complete" => reached \cap {"refund_initiated", "exchange_shipped"} # {}
  BY <1>1, <1>2, Ways, OneStep, WhatLeads
<1>9. service = "update" => copy.exists /\ RowFits(copy)
  BY <1>1 DEF ReturnsInv
<1>10. \A i \in DOMAIN batch : given[i] = 0 /\ (batch[i] = "good" => "good" \in found[i])
  <2> SUFFICES ASSUME NEW i \in DOMAIN batch
               PROVE  given[i] = 0 /\ (batch[i] = "good" => "good" \in found[i])
    OBVIOUS
  <2>1. i \in Items /\ i \in DOMAIN items /\ ~items[i].reintegrated /\ batch[i] = items[i].condition
    BY <1>3
  <2>2. given[i] \in Nat /\ ~(given[i] > 0)
    BY <2>1, ReturnsTypes DEF ReturnsInv, GivenBackOnce
  <2>3. items[i].condition = "good" => "good" \in found[i]
    BY <2>1 DEF ReturnsInv
  <2> QED
    BY <2>1, <2>2, <2>3
<1>11. TaskFits(t)
  BY <1>7, <1>8, <1>9, <1>10 DEF TaskFits
<1>12. \A v \in Staff : TaskFits(task[v])'
  <2> SUFFICES ASSUME NEW v \in Staff PROVE TaskFits(task[v])'
    OBVIOUS
  <2>1. CASE v = w
    BY <2>1, <1>1, <1>6, <1>11 DEF TaskFits, RowFits
  <2>2. CASE v # w
    BY <2>2, <1>1, <1>6, TaskStaysFit
  <2> QED
    BY <2>1, <2>2
<1>13. reached # {}
  BY <1>2
<1> QED
  BY <1>1, <1>6, <1>12, <1>13 DEF ReturnsInv, ReturnsTypeOK, WayIsWhole, RowFits, GivenBackOnce

-----------------------------------------------------------------------------
(* Returns: steps that write.                                               *)

\* The rows of the items stay as they are.
LEMMA RequestWritten ==
    ASSUME ReturnsInv, NEW w \in Staff, Finishes(w), ret' \in Request, reached' \in SUBSET ReturnStatus,
           reached \subseteq reached', reached # {}, ret.exists, WayIsWhole', RowFits(ret)',
           UNCHANGED <<kind, tracked, items, given, shelf, found, raced>>,
           ret'.exists
    PROVE  ReturnsInv'
<1>1. \A v \in Staff : TaskFits(task[v])'
  BY FinishedFits
<1>2. ReturnsTypeOK'
  BY TaskFinished DEF ReturnsInv, ReturnsTypeOK
<1> QED
  BY <1>1, <1>2 DEF ReturnsInv, GivenBackOnce

\* The status a service leaves a request in, and those it goes through.
Target(service) ==
    CASE service = "approve" -> "approved"
      [] service = "reject" -> "rejected"
      [] service = "receive" -> "items_received"
      [] service = "inspect" -> "inspected"
      [] service = "send" -> (IF kind = "return" THEN "refund_initiated" ELSE "exchange_shipped")
      [] service = "complete" -> "completed"
      [] service = "reject_inspected" -> "rejected_after_inspection"
Through(service) == {Target(service)} \cup (IF service = "approve" THEN {"under_review"} ELSE {})

LEMMA WayTo ==
    ASSUME NEW service \in
             {"approve", "reject", "receive", "inspect", "send", "complete", "reject_inspected"}
    PROVE  /\ Way(service)[Len(Way(service))] = Target(service)
           /\ {Way(service)[n] : n \in DOMAIN Way(service)} = Through(service)
           /\ Target(service) \in ReturnStatus /\ Through(service) \subseteq ReturnStatus
<1>1. CASE service = "approve"
  <2> DEFINE way == Way(service)
  <2>1. way = <<"under_review", "approved">> /\ Target(service) = "approved"
    BY <1>1, Ways DEF Target
  <2>2. Through(service) = {"approved", "under_review"}
    BY <1>1, <2>1 DEF Through
  <2> HIDE DEF way
  <2>3. way[Len(way)] = "approved" /\ {way[n] : n \in DOMAIN way} = {"approved", "under_review"}
    BY <2>1
  <2> QED
    BY <2>1, <2>2, <2>3 DEF way, ReturnStatus
<1>2. CASE service # "approve"
  <2> DEFINE way == Way(service)
             to == Target(service)
  <2>1. way = <<to>>
    BY <1>2, Ways DEF Target
  <2>2. to \in ReturnStatus
    BY DEF Target, ReturnStatus
  <2>3. Through(service) = {to}
    BY <1>2 DEF Through
  <2> HIDE DEF way, to
  <2>4. way[Len(way)] = to /\ {way[n] : n \in DOMAIN way} = {to}
    BY <2>1
  <2> QED
    BY <2>2, <2>3, <2>4 DEF way, to
<1> QED
  BY <1>1, <1>2

\* Where a service leaves a request is where the statuses lead that it has been in.
LEMMA WayStaysWhole ==
    ASSUME ReturnsInv, NEW w \in Staff, NEW ready \in BOOLEAN,
           NEW service \in {"approve", "reject", "receive", "inspect", "send", "complete", "reject_inspected"},
           MovesAlong(w, service, ready)
    PROVE  WayIsWhole' /\ reached \subseteq reached' /\ reached # {} /\ TaskFits(task[w])
           /\ task[w].service = service
<1>1. /\ task[w].service = service /\ reached # {} /\ TaskFits(task[w])
      /\ reached' = reached \cup Through(service)
  <2>1. Doing(w, service) /\ reached' = reached \cup Through(service)
    BY WayTo DEF MovesAlong
  <2>2. service \in Services
    BY DEF Services
  <2>3. task[w] # NoTask
    BY <2>1, <2>2, DoerIs
  <2> QED
    BY <2>1, <2>3, Doer DEF Doing
<1>2. WayIsWhole
  BY DEF ReturnsInv
<1>3. WayIsWhole'
  BY <1>1, <1>2 DEF WayIsWhole, TaskFits, Through, Target
<1> QED
  BY <1>1, <1>3

LEMMA MovesKeeps ==
    ASSUME ReturnsInv, NEW w \in Staff, Moves(w)
    PROVE  ReturnsInv'
<1>1. PICK service \in {"approve", "reject", "receive", "send", "complete"} :
        MovesAlong(w, service, ret.ready)
  BY DEF Moves
<1>2. ret \in Request /\ ret.ready \in BOOLEAN
  BY ReturnsTypes DEF Request
<1>3. /\ WayIsWhole' /\ reached \subseteq reached' /\ reached # {}
      /\ ret.exists /\ Finishes(w)
      /\ ret' = [ret EXCEPT !.status = Target(service), !.ready = ret.ready]
      /\ reached' = reached \cup Through(service)
      /\ Target(service) \in ReturnStatus /\ Through(service) \subseteq ReturnStatus
  <2>1. service \in {"approve", "reject", "receive", "inspect", "send", "complete", "reject_inspected"}
    OBVIOUS
  <2>2. WayIsWhole' /\ reached \subseteq reached' /\ reached # {}
    BY <1>1, <1>2, <2>1, WayStaysWhole
  <2>3. /\ ret.exists /\ Finishes(w)
        /\ ret' = [ret EXCEPT !.status = Target(service), !.ready = ret.ready]
        /\ reached' = reached \cup Through(service)
        /\ Target(service) \in ReturnStatus /\ Through(service) \subseteq ReturnStatus
    BY <1>1, <2>1, WayTo DEF MovesAlong
  <2> QED
    BY <2>2, <2>3
<1>4. ret' \in Request /\ ret'.exists /\ ret'.ready = ret.ready /\ ret'.status = Target(service)
  BY <1>2, <1>3 DEF Request
<1>5. Target(service) \notin {"inspected", "rejected_after_inspection"}
  BY DEF Target
<1>6. RowFits(ret)'
  BY <1>3, <1>4, <1>5 DEF RowFits, ReturnsInv, Through
<1>7. reached' \in SUBSET ReturnStatus
  BY <1>3, ReturnsTypes
<1> QED
  BY <1>3, <1>4, <1>6, <1>7, RequestWritten DEF Moves

LEMMA RejectsAfterInspectionKeeps ==
    ASSUME ReturnsInv, NEW w \in Staff, RejectsAfterInspection(w)
    PROVE  ReturnsInv'
<1>1. MovesAlong(w, "reject_inspected", FALSE)
  BY DEF RejectsAfterInspection
<1>2. ret \in Request
  BY ReturnsTypes
<1>3. /\ WayIsWhole' /\ reached \subseteq reached' /\ reached # {}
      /\ TaskFits(task[w]) /\ task[w].service = "reject_inspected"
      /\ ret.exists /\ Finishes(w)
      /\ ret' = [ret EXCEPT !.status = Target("reject_inspected"), !.ready = FALSE]
      /\ reached' = reached \cup Through("reject_inspected")
      /\ Through("reject_inspected") \subseteq ReturnStatus
  BY <1>1, WayTo, WayStaysWhole DEF MovesAlong
<1>4. Target("reject_inspected") = "rejected_after_inspection"
  BY DEF Target
<1>5. ret' \in Request /\ ret'.exists /\ ~ret'.ready /\ ret'.status = "rejected_after_inspection"
  BY <1>2, <1>3, <1>4 DEF Request, ReturnStatus
<1>6. RowFits(ret)'
  BY <1>3, <1>4, <1>5 DEF RowFits, TaskFits, Through
<1>7. reached' \in SUBSET ReturnStatus
  BY <1>3, ReturnsTypes
<1> QED
  BY <1>3, <1>5, <1>6, <1>7, RequestWritten DEF RejectsAfterInspection

LEMMA InspectsKeeps ==
    ASSUME ReturnsInv, NEW w \in Staff, Inspects(w)
    PROVE  ReturnsInv'
<1>1. MovesAlong(w, "inspect", kind = "return") /\ UNCHANGED <<kind, tracked, given, shelf, raced>>
  BY DEF Inspects
<1>2. PICK c \in [DOMAIN items -> {"good", "bad"}] :
        /\ items' = [i \in DOMAIN items |-> [items[i] EXCEPT !.condition = c[i]]]
        /\ found' = [i \in Items |-> IF i \in DOMAIN items THEN found[i] \cup {c[i]} ELSE found[i]]
  BY DEF Inspects
<1>3. /\ WayIsWhole' /\ reached \subseteq reached' /\ reached # {}
      /\ ret.exists /\ Finishes(w)
      /\ ret' = [ret EXCEPT !.status = Target("inspect"), !.ready = (kind = "return")]
      /\ reached' = reached \cup Through("inspect")
      /\ Through("inspect") \subseteq ReturnStatus
  BY <1>1, WayTo, WayStaysWhole DEF MovesAlong
<1>4. Target("inspect") = "inspected" /\ ret \in Request
  BY ReturnsTypes DEF Target
<1>5. /\ ret' \in Request /\ ret'.exists /\ ret'.status = "inspected" /\ ret'.ready = (kind = "return")
      /\ "inspected" \in reached'
  BY <1>3, <1>4 DEF Request, ReturnStatus, Through
<1>6. RowFits(ret)'
  BY <1>1, <1>5 DEF RowFits
<1>7. /\ DOMAIN items' = DOMAIN items /\ DOMAIN items \subseteq Items
      /\ \A i \in DOMAIN items : /\ items'[i] \in Item /\ items'[i].condition = c[i]
                                 /\ items'[i].reintegrated = items[i].reintegrated
  BY <1>2, ReturnsTypes DEF Item, Conditions
<1>8. /\ found' \in [Items -> SUBSET Conditions] /\ \A i \in Items : found[i] \subseteq found'[i]
      /\ \A i \in DOMAIN items : c[i] \in found'[i]
  BY <1>2, <1>7, ReturnsTypes DEF Conditions
<1>9. \A v \in Staff : TaskFits(task[v])'
  BY <1>1, <1>3, <1>8, FinishedFits
<1>10. items' \in [DOMAIN items' -> Item]
  BY <1>2, <1>7
<1>11. ReturnsTypeOK'
  BY <1>1, <1>3, <1>5, <1>7, <1>8, <1>10, ReturnsTypes, TaskFinished DEF ReturnsTypeOK
<1>12. GivenBackOnce'
  BY <1>1, <1>7, <1>8 DEF ReturnsInv, GivenBackOnce
<1>13. reached' # {}
  BY <1>3
<1> QED
  BY <1>3, <1>5, <1>6, <1>7, <1>8, <1>9, <1>11, <1>12, <1>13 DEF ReturnsInv

LEMMA ReintegratesKeeps ==
    ASSUME ReturnsInv, NEW w \in Staff, Reintegrates(w)
    PROVE  ReturnsInv'
<1> DEFINE batch == task[w].batch
<1>1. /\ Doing(w, "reintegrate") /\ DOMAIN batch \subseteq DOMAIN items
      /\ items' = [i \in DOMAIN items |->
                     IF i \in DOMAIN batch THEN [items[i] EXCEPT !.reintegrated = TRUE] ELSE items[i]]
      /\ given' = [i \in Items |-> given[i] + (IF i \in DOMAIN batch THEN 1 ELSE 0)]
      /\ shelf' = [i \in Items |->
                     shelf[i] + (IF /\ i \in DOMAIN batch
                                    /\ kind = "return" => batch[i] = "good" THEN 1 ELSE 0)]
      /\ raced' = raced \cup {i \in DOMAIN batch : \E v \in Staff \ {w} : i \in DOMAIN task[v].batch}
      /\ Finishes(w) /\ UNCHANGED <<kind, tracked, ret, reached, found>>
  BY DEF Reintegrates
<1>2. reached # {} /\ TaskFits(task[w]) /\ task[w] \in Task
  BY <1>1, DoerIs, Doer DEF Services
<1>3. /\ DOMAIN items' = DOMAIN items /\ DOMAIN items \in {{}, Items}
      /\ items' \in [DOMAIN items' -> Item]
      /\ \A i \in DOMAIN items : items'[i].condition = items[i].condition
      /\ \A i \in DOMAIN items : items'[i].reintegrated <=> (items[i].reintegrated \/ i \in DOMAIN batch)
  BY <1>1, ReturnsTypes DEF Item
<1>4. DOMAIN batch \subseteq Items
  BY <1>2, BatchType
<1> HIDE DEF batch
<1>5. /\ given' \in [Items -> Nat] /\ shelf' \in [Items -> Nat]
      /\ \A i \in Items : given'[i] = IF i \in DOMAIN batch THEN given[i] + 1 ELSE given[i]
      /\ \A i \in Items : shelf'[i] > 0 =>
            shelf[i] > 0 \/ (i \in DOMAIN batch /\ (kind = "return" => batch[i] = "good"))
  <2>1. \A i \in Items : given[i] \in Nat /\ shelf[i] \in Nat
    BY ReturnsTypes
  <2>2. \A i \in Items : /\ given'[i] = given[i] + (IF i \in DOMAIN batch THEN 1 ELSE 0)
                         /\ given'[i] \in Nat
    BY <1>1, <2>1
  <2>3. \A i \in Items : /\ shelf'[i] = shelf[i] + (IF /\ i \in DOMAIN batch
                                                       /\ kind = "return" => batch[i] = "good"
                                                    THEN 1 ELSE 0)
                         /\ shelf'[i] \in Nat
    BY <1>1, <2>1
  <2>4. given' \in [Items -> Nat] /\ shelf' \in [Items -> Nat]
    BY <1>1, <2>2, <2>3
  <2> QED
    BY <2>1, <2>2, <2>3, <2>4
<1>6. raced \subseteq raced' /\ raced' \in SUBSET Items
  BY <1>1, <1>4, ReturnsTypes
<1>7. \A v \in Staff \ {w} : \A i \in DOMAIN task[v].batch : given'[i] = given[i] \/ i \in raced'
  <2> SUFFICES ASSUME NEW v \in Staff \ {w}, NEW i \in DOMAIN task[v].batch, i \notin raced'
               PROVE  given'[i] = given[i]
    OBVIOUS
  <2>1. task[v] \in Task
    BY ReturnsTypes
  <2>2. i \in Items
    BY <2>1, BatchType
  <2>3. i \notin DOMAIN batch
    BY <1>1
  <2> QED
    BY <1>5, <2>2, <2>3
<1>8. \A v \in Staff : TaskFits(task[v])'
  BY <1>1, <1>6, <1>7, FinishedFits
<1>9. ReturnsTypeOK'
  BY <1>1, <1>3, <1>5, <1>6, ReturnsTypes, TaskFinished DEF ReturnsTypeOK
<1>10. \A i \in DOMAIN batch : /\ given[i] > 0 => i \in raced
                               /\ batch[i] = "good" => "good" \in found[i]
  BY <1>2 DEF TaskFits, batch
<1>11. GivenBackOnce'
  <2> SUFFICES ASSUME NEW i \in Items
               PROVE  /\ i \in DOMAIN items' => (items'[i].reintegrated <=> given'[i] > 0)
                      /\ given'[i] > 1 => i \in raced'
                      /\ kind = "return" /\ shelf'[i] > 0 => "good" \in found[i]
    BY <1>1 DEF GivenBackOnce
  <2>1. /\ i \in DOMAIN items => (items[i].reintegrated <=> given[i] > 0)
        /\ given[i] > 1 => i \in raced
        /\ kind = "return" /\ shelf[i] > 0 => "good" \in found[i]
        /\ given[i] \in Nat
    BY ReturnsTypes DEF ReturnsInv, GivenBackOnce
  <2>2. i \in DOMAIN items' => (items'[i].reintegrated <=> given'[i] > 0)
    BY <1>3, <1>5, <2>1
  <2>3. given'[i] > 1 => i \in raced'
    BY <1>5, <1>6, <1>10, <2>1
  <2>4. kind = "return" /\ shelf'[i] > 0 => "good" \in found[i]
    BY <1>5, <1>10, <2>1
  <2> QED
    BY <2>2, <2>3, <2>4
<1> QED
  BY <1>1, <1>2, <1>3, <1>8, <1>9, <1>11 DEF ReturnsInv, WayIsWhole, RowFits

LEMMA UpdatesKeeps ==
    ASSUME ReturnsInv, NEW w \in Staff, Updates(w)
    PROVE  ReturnsInv'
<1>1. /\ Doing(w, "update") /\ ret' = task[w].copy /\ Finishes(w)
      /\ UNCHANGED <<kind, tracked, items, given, shelf, reached, found, raced>>
  BY DEF Updates
<1>2. reached # {} /\ TaskFits(task[w]) /\ task[w] \in Task
  BY <1>1, DoerIs, Doer DEF Services
<1>3. task[w].copy \in Request /\ task[w].copy.exists /\ RowFits(task[w].copy)
  BY <1>1, <1>2 DEF Task, TaskFits, Doing
<1>4. RowFits(ret)'
  BY <1>1, <1>3 DEF RowFits
<1>5. \A v \in Staff : TaskFits(task[v])'
  BY <1>1, FinishedFits
<1>6. ReturnsTypeOK'
  BY <1>1, <1>3, ReturnsTypes, TaskFinished DEF ReturnsTypeOK
<1> QED
  BY <1>1, <1>2, <1>3, <1>4, <1>5, <1>6 DEF ReturnsInv, WayIsWhole, GivenBackOnce

LEMMA DeletesKeeps ==
    ASSUME ReturnsInv, NEW w \in Staff, Deletes(w)
    PROVE  ReturnsInv'
<1>1. /\ Doing(w, "delete") /\ ret' = [ret EXCEPT !.exists = FALSE] /\ items' = [i \in {} |-> "none"]
      /\ Finishes(w) /\ UNCHANGED <<kind, tracked, given, shelf, reached, found, raced>>
  BY DEF Deletes
<1>2. reached # {} /\ ret \in Request
  BY <1>1, DoerIs, Doer, ReturnsTypes DEF Services
<1>3. /\ ret' \in Request /\ ~ret'.exists /\ ret'.status = ret.status /\ ret'.ready = ret.ready
      /\ DOMAIN items' = {} /\ items' \in [DOMAIN items' -> Item]
  BY <1>1, <1>2 DEF Request
<1>4. RowFits(ret)'
  BY <1>1, <1>3 DEF RowFits, ReturnsInv
<1>5. \A v \in Staff : TaskFits(task[v])'
  BY <1>1, FinishedFits
<1>6. ReturnsTypeOK'
  BY <1>1, <1>3, ReturnsTypes, TaskFinished DEF ReturnsTypeOK
<1>7. GivenBackOnce'
  BY <1>1, <1>3 DEF ReturnsInv, GivenBackOnce
<1> QED
  BY <1>1, <1>2, <1>3, <1>4, <1>5, <1>6, <1>7 DEF ReturnsInv, WayIsWhole

LEMMA CreateRequestKeeps ==
    ASSUME ReturnsInv, CreateRequest
    PROVE  ReturnsInv'
<1>1. /\ reached = {} /\ kind' \in {"return", "exchange"} /\ tracked' \in SUBSET Items
      /\ ret' = [exists |-> TRUE, status |-> "submitted", ready |-> FALSE]
      /\ items' = [i \in Items |-> [condition |-> "none", reintegrated |-> FALSE]]
      /\ reached' = {"submitted"}
      /\ UNCHANGED <<given, shelf, task, found, raced>>
  BY DEF CreateRequest
<1>2. /\ \A w \in Staff : task[w] = NoTask
      /\ \A i \in Items : given[i] = 0 /\ shelf[i] = 0
  BY <1>1 DEF ReturnsInv
<1>3. \A w \in Staff : TaskFits(task[w])'
  BY <1>1, <1>2, NoTaskFits DEF TaskFits
<1>4. ret' \in Request /\ items' \in [DOMAIN items' -> Item] /\ DOMAIN items' = Items
      /\ \A i \in Items : items'[i].condition = "none" /\ ~items'[i].reintegrated
  BY <1>1 DEF Request, ReturnStatus, Item, Conditions
<1>5. ReturnsTypeOK'
  BY <1>1, <1>4, ReturnsTypes DEF ReturnsTypeOK, ReturnStatus
<1>6. GivenBackOnce'
  BY <1>1, <1>2, <1>4 DEF GivenBackOnce
<1>7. WayIsWhole' /\ RowFits(ret)'
  BY <1>1 DEF WayIsWhole, RowFits
<1> QED
  BY <1>1, <1>3, <1>4, <1>5, <1>6, <1>7 DEF ReturnsInv

LEMMA AbandonsKeeps ==
    ASSUME ReturnsInv, NEW w \in Staff, Abandons(w)
    PROVE  ReturnsInv'
<1>1. /\ task[w] # NoTask /\ Finishes(w)
      /\ UNCHANGED <<kind, tracked, ret, items, given, shelf, reached, found, raced>>
  BY DEF Abandons
<1>2. \A v \in Staff : TaskFits(task[v])'
  BY <1>1, FinishedFits
<1>3. ReturnsTypeOK'
  BY <1>1, ReturnsTypes, TaskFinished DEF ReturnsTypeOK
<1> QED
  BY <1>1, <1>2, <1>3, Doer DEF ReturnsInv, WayIsWhole, RowFits, GivenBackOnce

-----------------------------------------------------------------------------
(* Returns: the invariant.                                                  *)

LEMMA InitReturnsInv == ReturnsInit => ReturnsInv
<1> SUFFICES ASSUME ReturnsInit PROVE ReturnsInv
  OBVIOUS
<1>1. /\ kind = "return" /\ tracked = {} /\ ret = Blank /\ items = [i \in {} |-> "none"]
      /\ given = [i \in Items |-> 0] /\ shelf = [i \in Items |-> 0]
      /\ task = [w \in Staff |-> NoTask] /\ reached = {}
      /\ found = [i \in Items |-> {}] /\ raced = {}
  BY DEF ReturnsInit
<1>2. ret \in Request /\ ~ret.exists /\ ~ret.ready /\ ret.status = "submitted"
  BY <1>1 DEF Blank, Request, ReturnStatus
<1>3. DOMAIN items = {} /\ items \in [DOMAIN items -> Item]
  BY <1>1
<1>4. ReturnsTypeOK
  BY <1>1, <1>2, <1>3, NoTaskFits DEF ReturnsTypeOK
<1>5. \A w \in Staff : TaskFits(task[w])
  BY <1>1, NoTaskFits DEF TaskFits
<1>6. WayIsWhole /\ RowFits(ret) /\ GivenBackOnce
  BY <1>1, <1>2, <1>3 DEF WayIsWhole, RowFits, GivenBackOnce
<1> QED
  BY <1>1, <1>2, <1>3, <1>4, <1>5, <1>6 DEF ReturnsInv

LEMMA NextReturnsInv == ReturnsInv /\ [ReturnsNext]_returnsVars => ReturnsInv'
<1> SUFFICES ASSUME ReturnsInv, [ReturnsNext]_returnsVars PROVE ReturnsInv'
  OBVIOUS
<1>1. CASE UNCHANGED returnsVars
  <2>1. UNCHANGED <<kind, tracked, ret, items, given, shelf, task, reached, found, raced>>
    BY <1>1 DEF returnsVars
  <2>2. \A v \in Staff : TaskFits(task[v])'
    BY <2>1, TaskStaysFit
  <2> QED
    BY <2>1, <2>2 DEF ReturnsInv, ReturnsTypeOK, WayIsWhole, RowFits, GivenBackOnce
<1>2. CASE CreateRequest
  BY <1>2, CreateRequestKeeps
<1>3. ASSUME NEW w \in Staff, NEW service \in Services, ReadsRequest(w, service) PROVE ReturnsInv'
  BY <1>3, ReadsRequestKeeps
<1>4. ASSUME NEW w \in Staff, Moves(w) PROVE ReturnsInv'
  BY <1>4, MovesKeeps
<1>5. ASSUME NEW w \in Staff, Inspects(w) PROVE ReturnsInv'
  BY <1>5, InspectsKeeps
<1>6. ASSUME NEW w \in Staff, RejectsAfterInspection(w) PROVE ReturnsInv'
  BY <1>6, RejectsAfterInspectionKeeps
<1>7. ASSUME NEW w \in Staff, Reintegrates(w) PROVE ReturnsInv'
  BY <1>7, ReintegratesKeeps
<1>8. ASSUME NEW w \in Staff, Updates(w) PROVE ReturnsInv'
  BY <1>8, UpdatesKeeps
<1>9. ASSUME NEW w \in Staff, Deletes(w) PROVE ReturnsInv'
  BY <1>9, DeletesKeeps
<1>10. ASSUME NEW w \in Staff, Abandons(w) PROVE ReturnsInv'
  BY <1>10, AbandonsKeeps
<1> QED
  BY <1>1, <1>2, <1>3, <1>4, <1>5, <1>6, <1>7, <1>8, <1>9, <1>10 DEF ReturnsNext

LEMMA ReturnsInvImplies == ReturnsInv => RefundIsEarned /\ GivenBackOnce
BY DEF ReturnsInv, WayIsWhole, RowFits, RefundIsEarned

\* The inductive invariant: what a service decided on was right for a status the request
\* has been in, though it may not be in it any more.
THEOREM ReturnsInvariance == ReturnsSpec => []ReturnsInv
<1> QED
  BY InitReturnsInv, NextReturnsInv, PTL DEF ReturnsSpec

\* However the staff's requests race, no refund is made ready, initiated or completed but
\* for items that were received and inspected: every service asks can_transition_to of
\* the copy its view has read, and no copy is ahead of what has happened.
THEOREM RefundsAreEarned == ReturnsSpec => []RefundIsEarned
<1> QED
  BY ReturnsInvariance, ReturnsInvImplies, PTL

\* stock_reintegrated and what process_return and process_exchange did agree; an item is
\* given back more than once only when two of the staff had read it at the same time.
THEOREM ItemsGivenBackOnce == ReturnsSpec => []GivenBackOnce
<1> QED
  BY ReturnsInvariance, ReturnsInvImplies, PTL

-----------------------------------------------------------------------------
(* Notifications: the worker that moves.                                    *)

LEMMA AsleepType == Asleep \in Mailer /\ Asleep.phase = "read" /\ Asleep.copy = 0 /\ Asleep.do = "none"
BY DEF Asleep, Mailer

\* The record of the mail stays as it is; a worker goes on with a copy of it, or stops.
LEMMA MailerStep ==
    ASSUME MailsInv, NEW w \in Mailers, NEW m \in Mailer, mailer' = [mailer EXCEPT ![w] = m],
           UNCHANGED <<mail, attempts, delivered>>, failures' \subseteq failures, tasks' \in Nat,
           excused' \in BOOLEAN, excused => excused', Saved,
           m.copy <= mail.retry_count, m.phase = "sent" => delivered > 0,
           ~excused' /\ m.phase \in {"asked", "sent", "refused"} =>
              \/ m.phase \in {"refused", "asked"} /\ Sending(w) /\ m.copy = mailer[w].copy
                 /\ mailer[w].phase # "sent"
              \/ m.phase = "asked" /\ m.copy = mail.retry_count /\ mail.status # "sent"
                 /\ \A v \in Mailers \ {w} : ~Sending(v),
           ~excused' => mailer[w].phase # "sent"
    PROVE  MailsInv'
<1>1. mailer \in [Mailers -> Mailer] /\ mail.retry_count \in Nat /\ Tried \in Nat
  BY DEF MailsInv, NotificationsTypeOK
<1>2. /\ mailer' \in [Mailers -> Mailer] /\ mailer'[w] = m
      /\ \A v \in Mailers \ {w} : mailer'[v] = mailer[v]
  BY <1>1
<1>3. Tried' = Tried
  BY DEF Tried
<1>4. NotificationsTypeOK'
  BY <1>2, <1>3 DEF MailsInv, NotificationsTypeOK
<1>5. AttemptsFit'
  BY <1>2, <1>3 DEF MailsInv, AttemptsFit
<1>6. ASSUME ~excused' PROVE NothingToExcuse'
  <2>1. NothingToExcuse
    BY <1>6 DEF MailsInv
  <2>2. \A u, v \in Mailers : Sending(u)' /\ Sending(v)' => u = v
    BY <1>2, <1>6, <2>1 DEF NothingToExcuse, Sending
  <2>3. \A v \in Mailers : Sending(v)' => mailer'[v].copy = Tried /\ mail.status # "sent"
    <3>1. mail.status # "sent" => mail.retry_count = Tried
      BY <1>1, <2>1 DEF NothingToExcuse, MailsInv, AttemptsFit
    <3> QED
      BY <1>2, <1>6, <2>1, <3>1 DEF NothingToExcuse, Sending
  <2>4. delivered > 0 => mail.status = "sent" \/ \E v \in Mailers : mailer'[v].phase = "sent"
    BY <1>2, <1>6, <2>1 DEF NothingToExcuse
  <2> QED
    BY <1>3, <2>1, <2>2, <2>3, <2>4 DEF NothingToExcuse
<1>7. Saved'
  BY DEF Saved
<1> QED
  BY <1>4, <1>5, <1>6, <1>7 DEF MailsInv

\* Whoever has begun anything has a mail to do it with.
LEMMA Working ==
    ASSUME MailsInv, NEW w \in Mailers, mailer[w] # Asleep
    PROVE  Saved
BY DEF MailsInv, NothingYet

LEMMA MailTypes ==
    ASSUME MailsInv
    PROVE  /\ mail \in [status : {"none", "unsaved", "pending", "sent", "failed"}, retry_count : Nat]
           /\ Tried \in Nat /\ attempts \in [1 .. Tried -> {"sent", "failed"}]
           /\ failures \subseteq Nat /\ tasks \in Nat
           /\ mailer \in [Mailers -> Mailer]
           /\ delivered \in 0 .. 2 /\ excused \in BOOLEAN
BY DEF MailsInv, NotificationsTypeOK

\* send_notification begins.
LEMMA AsksKeeps ==
    ASSUME MailsInv, NEW w \in Mailers, NEW do \in {"send", "log"}, Asks(w, do), ~Sending(w),
           UNCHANGED <<mail, attempts, failures, delivered>>, tasks' \in Nat
    PROVE  MailsInv'
<1> DEFINE m == [Asleep EXCEPT !.do = do, !.phase = "asked", !.copy = mail.retry_count]
<1>1. m \in Mailer /\ m.phase = "asked" /\ m.copy = mail.retry_count
  BY MailTypes DEF Asleep, Mailer
<1>2. /\ mailer' = [mailer EXCEPT ![w] = m] /\ Saved /\ mail.status # "sent"
      /\ excused' = (excused \/ \E v \in Mailers \ {w} : Sending(v))
  BY DEF Asks, ToBeSent
<1> HIDE DEF m
<1>3. excused' \in BOOLEAN /\ (excused => excused')
      /\ (~excused' => \A v \in Mailers \ {w} : ~Sending(v))
  BY <1>2
<1>4. m.copy <= mail.retry_count
  BY <1>1, MailTypes
<1>5. mailer[w].phase # "sent"
  BY DEF Sending
<1> QED
  BY <1>1, <1>2, <1>3, <1>4, <1>5, MailerStep

\* A worker stops, or is killed.
LEMMA StopKeeps ==
    ASSUME MailsInv, NEW w \in Mailers, Sleeps(w), Saved, UNCHANGED <<mail, attempts, delivered>>,
           failures' \subseteq failures, tasks' \in Nat, excused' \in BOOLEAN,
           excused => excused', mailer[w].phase = "sent" => excused'
    PROVE  MailsInv'
<1>1. 0 <= mail.retry_count
  BY MailTypes
<1> QED
  BY <1>1, AsleepType, MailerStep DEF Sleeps

\* Only the queue changes.
LEMMA QueueKeeps ==
    ASSUME MailsInv, UNCHANGED <<mail, attempts, failures, mailer, delivered, excused>>, tasks' \in Nat
    PROVE  MailsInv'
BY DEF MailsInv, NotificationsTypeOK, AttemptsFit, NothingToExcuse, NothingYet, Saved, Sending, Tried

LEMMA TakesTaskKeeps ==
    ASSUME MailsInv, NEW w \in Mailers, TakesTask(w)
    PROVE  MailsInv'
<1>1. tasks' \in Nat
  BY MailTypes DEF TakesTask
<1>2. ~Sending(w)
  BY AsleepType DEF TakesTask, Sending
<1>3. CASE Asks(w, "send")
  BY <1>1, <1>2, <1>3, AsksKeeps DEF TakesTask
<1>4. CASE UNCHANGED <<mailer, excused>>
  BY <1>1, <1>4, QueueKeeps DEF TakesTask
<1> QED
  BY <1>3, <1>4 DEF TakesTask

LEMMA ProviderKeeps ==
    ASSUME MailsInv, NEW w \in Mailers, NEW answer \in {"sent", "refused"}, Provider(w, answer)
    PROVE  MailsInv'
<1>1. /\ mailer[w].phase = "asked" /\ mailer' = [mailer EXCEPT ![w].phase = answer]
      /\ UNCHANGED <<mail, attempts, failures, tasks, excused>>
      /\ delivered' = IF answer = "sent" /\ delivered < 2 THEN delivered + 1 ELSE delivered
  BY DEF Provider
<1>2. mailer[w] # Asleep
  BY <1>1, AsleepType
<1>3. mailer \in [Mailers -> Mailer] /\ delivered \in 0 .. 2
  BY MailTypes
<1>4. /\ mailer' \in [Mailers -> Mailer] /\ mailer'[w].phase = answer /\ mailer'[w].copy = mailer[w].copy
      /\ \A v \in Mailers \ {w} : mailer'[v] = mailer[v]
  BY <1>1, <1>3 DEF Mailer
<1>5. /\ delivered' \in 0 .. 2 /\ delivered' >= delivered /\ (answer = "sent" => delivered' > 0)
      /\ answer = "refused" => delivered' = delivered
  BY <1>1, <1>3
<1>6. Tried' = Tried
  BY <1>1 DEF Tried
<1>7. NotificationsTypeOK'
  BY <1>1, <1>4, <1>5, <1>6 DEF MailsInv, NotificationsTypeOK
<1>8. AttemptsFit'
  BY <1>1, <1>3, <1>4, <1>5, <1>6 DEF MailsInv, AttemptsFit
<1>9. ASSUME ~excused PROVE NothingToExcuse'
  <2>1. NothingToExcuse /\ Sending(w)
    BY <1>1, <1>9 DEF MailsInv, Sending
  <2>2. \A v \in Mailers : Sending(v)' <=> Sending(v)
    BY <1>1, <1>4 DEF Sending
  <2>3. mail.status # "sent" /\ \A v \in Mailers : mailer[v].phase # "sent"
    BY <1>1, <2>1 DEF NothingToExcuse, Sending
  <2>4. delivered = 0
    BY <1>3, <2>1, <2>3 DEF NothingToExcuse
  <2>5. delivered' < 2 /\ (delivered' > 0 => answer = "sent")
    BY <1>1, <2>4
  <2> QED
    BY <1>1, <1>4, <1>6, <2>1, <2>2, <2>5 DEF NothingToExcuse
<1>10. Saved'
  BY <1>1, <1>2, Working DEF Saved
<1> QED
  BY <1>1, <1>7, <1>8, <1>9, <1>10 DEF MailsInv

\* What is recorded is the next attempt: nobody has a copy that is ahead of the row.
LEMMA RecordsKeeps ==
    ASSUME MailsInv, NEW w \in Mailers, Records(w)
    PROVE  MailsInv'
<1> DEFINE n == mailer[w].copy + 1
           status == IF mailer[w].phase = "sent" THEN "sent" ELSE "failed"
<1>1. /\ mailer[w].phase \in {"sent", "refused"} /\ n \notin DOMAIN attempts
      /\ attempts' = [i \in DOMAIN attempts \cup {n} |-> IF i = n THEN status ELSE attempts[i]]
      /\ failures' = IF status = "failed" THEN failures \cup {n} ELSE failures
      /\ mail' = [status |-> status,
                  retry_count |-> mailer[w].copy + IF status = "failed" THEN 1 ELSE 0]
      /\ Again(w) /\ Sleeps(w) /\ UNCHANGED <<delivered, excused>>
  BY DEF Records
<1>2. /\ mailer \in [Mailers -> Mailer] /\ mail.retry_count \in Nat /\ Tried \in Nat
      /\ DOMAIN attempts = 1 .. Tried /\ attempts \in [1 .. Tried -> {"sent", "failed"}]
      /\ failures \subseteq Nat /\ tasks \in Nat /\ mailer[w].copy \in Nat
  BY MailTypes DEF Mailer
<1>3. mailer[w].copy <= mail.retry_count /\ mail.retry_count <= Tried
  BY <1>2 DEF MailsInv, AttemptsFit
<1>4. /\ mailer[w].copy = Tried /\ mail.retry_count = Tried /\ n = Tried + 1
      /\ Tried > 0 => attempts[Tried] = "failed"
  BY <1>1, <1>2, <1>3 DEF MailsInv, AttemptsFit
<1>5. status \in {"sent", "failed"} /\ (status = "sent" <=> mailer[w].phase = "sent")
  OBVIOUS
<1> HIDE DEF n, status
<1>6. DOMAIN attempts' = 1 .. Tried + 1
  BY <1>1, <1>2, <1>4
<1>7. Tried' = Tried + 1
  BY <1>2, <1>6, FS_Interval DEF Tried
<1>8. /\ attempts' \in [1 .. Tried' -> {"sent", "failed"}] /\ attempts'[Tried'] = status
      /\ \A i \in 1 .. Tried' - 1 : attempts'[i] = attempts[i]
  BY <1>1, <1>2, <1>4, <1>5, <1>6, <1>7
<1>9. \A i \in 1 .. Tried' - 1 : attempts'[i] = "failed"
  BY <1>2, <1>4, <1>7, <1>8 DEF MailsInv, AttemptsFit
<1>10. /\ mailer' \in [Mailers -> Mailer] /\ mailer'[w] = Asleep
       /\ \A v \in Mailers \ {w} : mailer'[v] = mailer[v]
  BY <1>1, <1>2, AsleepType DEF Sleeps
<1>11. /\ mail'.status = status /\ mail'.status \in {"sent", "failed"}
       /\ mail'.retry_count = IF status = "sent" THEN Tried ELSE Tried + 1
       /\ mail' \in [status : {"none", "unsaved", "pending", "sent", "failed"}, retry_count : Nat]
  BY <1>1, <1>2, <1>4, <1>5
<1>12. failures' \subseteq Nat /\ tasks' \in Nat
  BY <1>1, <1>2, <1>4 DEF Again, Queue
<1>13. NotificationsTypeOK'
  BY <1>1, <1>2, <1>7, <1>8, <1>10, <1>11, <1>12, MailTypes DEF NotificationsTypeOK
<1>14. status = "sent" => delivered > 0
  BY <1>5 DEF MailsInv, AttemptsFit
<1>15. AttemptsFit'
  <2>1. \A v \in Mailers : mailer'[v].copy <= mail'.retry_count
    <3> SUFFICES ASSUME NEW v \in Mailers PROVE mailer'[v].copy <= mail'.retry_count
      OBVIOUS
    <3>1. mailer'[v].copy \in Nat /\ mailer'[v].copy <= Tried
      <4>1. CASE v = w
        BY <1>2, <1>10, <4>1, AsleepType
      <4>2. CASE v # w
        <5>1. mailer[v].copy \in Nat /\ mailer[v].copy <= mail.retry_count
          BY <1>2 DEF MailsInv, AttemptsFit, Mailer
        <5> QED
          BY <1>4, <1>10, <4>2, <5>1
      <4> QED
        BY <4>1, <4>2
    <3> QED
      BY <1>2, <1>11, <3>1
  <2>2. \A v \in Mailers : mailer'[v].phase = "sent" => delivered > 0
    BY <1>10, AsleepType DEF MailsInv, AttemptsFit
  <2>3. mail'.retry_count = IF Tried' > 0 /\ attempts'[Tried'] = "sent" THEN Tried' - 1 ELSE Tried'
    BY <1>2, <1>7, <1>8, <1>11
  <2>4. mail'.status = "sent" => Tried' > 0 /\ attempts'[Tried'] = "sent" /\ delivered > 0
    BY <1>2, <1>7, <1>8, <1>11, <1>14
  <2> QED
    BY <1>1, <1>9, <2>1, <2>2, <2>3, <2>4 DEF AttemptsFit
<1>16. ASSUME ~excused PROVE NothingToExcuse'
  <2>1. NothingToExcuse /\ Sending(w)
    BY <1>1, <1>16 DEF MailsInv, Sending
  <2>2. \A v \in Mailers : ~Sending(v)'
    BY <1>10, <2>1, AsleepType DEF NothingToExcuse, Sending
  <2>3. delivered > 0 => status = "sent"
    BY <2>1, <1>5 DEF NothingToExcuse, Sending
  <2> QED
    BY <1>1, <1>2, <1>7, <1>11, <2>1, <2>2, <2>3 DEF NothingToExcuse
<1>17. Saved'
  BY <1>11 DEF Saved
<1> QED
  BY <1>1, <1>13, <1>15, <1>16, <1>17 DEF MailsInv

\* An attempt was recorded by another worker: there was a reason to send twice.
LEMMA RecordedBeforeKeeps ==
    ASSUME MailsInv, NEW w \in Mailers, RecordedBefore(w)
    PROVE  MailsInv'
<1>1. /\ mailer[w].phase \in {"sent", "refused"} /\ mailer[w].copy + 1 \in DOMAIN attempts
      /\ Sleeps(w) /\ UNCHANGED <<mail, attempts, failures, tasks, delivered, excused>>
  BY DEF RecordedBefore
<1>2. mailer[w] # Asleep /\ Sending(w)
  BY <1>1, AsleepType DEF Sending
<1>3. Tried \in Nat /\ DOMAIN attempts = 1 .. Tried
  BY MailTypes
<1>4. excused
  BY <1>1, <1>2, <1>3 DEF MailsInv, NothingToExcuse
<1> QED
  BY <1>1, <1>2, <1>4, MailTypes, StopKeeps, Working

-----------------------------------------------------------------------------
(* Notifications: sending again.                                            *)

\* A worker reads its row, or its log.
LEMMA ReadsKeeps ==
    ASSUME MailsInv, NEW w \in Mailers, mailer[w] = Asleep, Saved,
           UNCHANGED <<mail, attempts, failures, tasks, delivered, excused>>,
           NEW m \in Mailer, m.phase = "read", m.copy = 0, mailer' = [mailer EXCEPT ![w] = m]
    PROVE  MailsInv'
<1>1. 0 <= mail.retry_count /\ tasks \in Nat /\ excused \in BOOLEAN
  BY MailTypes
<1> QED
  BY <1>1, AsleepType, MailerStep

LEMMA ReadsToResendKeeps ==
    ASSUME MailsInv, NEW w \in Mailers, ReadsToResend(w)
    PROVE  MailsInv'
<1> DEFINE m == [mailer[w] EXCEPT !.do = "resend"]
<1>1. /\ mailer[w] = Asleep /\ mail.status = "failed" /\ mailer' = [mailer EXCEPT ![w] = m]
      /\ UNCHANGED <<mail, attempts, failures, tasks, delivered, excused>>
  BY DEF ReadsToResend, CanRetry
<1>2. m \in Mailer /\ m.phase = "read" /\ m.copy = 0
  BY <1>1 DEF Asleep, Mailer
<1>3. Saved
  BY <1>1 DEF Saved
<1> HIDE DEF m
<1> QED
  BY <1>1, <1>2, <1>3, ReadsKeeps

LEMMA ReadsLogKeeps ==
    ASSUME MailsInv, NEW w \in Mailers, NEW n \in failures, ReadsLog(w, n)
    PROVE  MailsInv'
<1> DEFINE m == [mailer[w] EXCEPT !.do = "log", !.log = n]
<1>1. /\ mailer[w] = Asleep /\ mailer' = [mailer EXCEPT ![w] = m]
      /\ UNCHANGED <<mail, attempts, failures, tasks, delivered, excused>>
  BY DEF ReadsLog
<1>2. n \in Nat
  BY MailTypes
<1>3. m \in Mailer /\ m.phase = "read" /\ m.copy = 0
  <2>1. \A k \in Nat : LET a == [Asleep EXCEPT !.do = "log", !.log = k]
                       IN  a \in Mailer /\ a.phase = "read" /\ a.copy = 0
    BY DEF Asleep, Mailer
  <2> QED
    BY <1>1, <1>2, <2>1
<1>4. Saved
  BY DEF MailsInv, NothingYet
<1> HIDE DEF m
<1> QED
  BY <1>1, <1>3, <1>4, ReadsKeeps

LEMMA ResetsKeeps ==
    ASSUME MailsInv, NEW w \in Mailers, Resets(w)
    PROVE  MailsInv'
<1>1. /\ mailer[w].do \in {"resend", "log"} /\ mailer[w].phase = "read"
      /\ mail' = [mail EXCEPT !.status = "pending"] /\ excused' = (excused \/ mail.status = "sent")
      /\ UNCHANGED <<attempts, delivered>>
  BY DEF Resets
<1>2. /\ mailer \in [Mailers -> Mailer] /\ tasks \in Nat /\ failures \subseteq Nat
      /\ mail \in [status : {"none", "unsaved", "pending", "sent", "failed"}, retry_count : Nat]
      /\ Tried \in Nat /\ excused \in BOOLEAN
  BY MailTypes
<1>3. /\ mailer' \in [Mailers -> Mailer] /\ mailer'[w].phase \in {"read", "reset"}
      /\ mailer'[w].copy <= mail.retry_count
      /\ \A v \in Mailers \ {w} : mailer'[v] = mailer[v]
      /\ tasks' \in Nat /\ failures' \subseteq failures
  <2>1. CASE mailer[w].do = "resend"
    <3>1. Queue /\ Sleeps(w) /\ UNCHANGED failures
      BY <2>1 DEF Resets
    <3>2. 0 <= mail.retry_count
      BY <1>2
    <3> QED
      BY <1>2, <3>1, <3>2, AsleepType DEF Queue, Sleeps
  <2>2. CASE mailer[w].do # "resend"
    <3>1. /\ failures' = failures \ {mailer[w].log} /\ mailer' = [mailer EXCEPT ![w].phase = "reset"]
          /\ UNCHANGED tasks
      BY <2>2 DEF Resets
    <3>2. mailer[w].copy <= mail.retry_count
      BY DEF MailsInv, AttemptsFit
    <3> QED
      BY <1>2, <3>1, <3>2 DEF Mailer
  <2> QED
    BY <2>1, <2>2
<1>4. /\ mail' \in [status : {"none", "unsaved", "pending", "sent", "failed"}, retry_count : Nat]
      /\ mail'.status = "pending" /\ mail'.retry_count = mail.retry_count
  BY <1>1, <1>2
<1>5. Tried' = Tried
  BY <1>1 DEF Tried
<1>6. NotificationsTypeOK'
  BY <1>1, <1>2, <1>3, <1>4, <1>5, MailTypes DEF NotificationsTypeOK
<1>7. AttemptsFit'
  BY <1>1, <1>3, <1>4, <1>5 DEF MailsInv, AttemptsFit
<1>8. ASSUME ~excused' PROVE NothingToExcuse'
  <2>1. NothingToExcuse /\ mail.status # "sent"
    BY <1>1, <1>8 DEF MailsInv
  <2>2. \A v \in Mailers : (Sending(v)' => Sending(v) /\ v # w) /\ (mailer[v].phase = "sent" => v # w)
    BY <1>1, <1>3 DEF Sending
  <2> QED
    BY <1>1, <1>3, <1>4, <1>5, <2>1, <2>2 DEF NothingToExcuse
<1>9. Saved'
  BY <1>4 DEF Saved
<1> QED
  BY <1>6, <1>7, <1>8, <1>9 DEF MailsInv

LEMMA SendsForLogKeeps ==
    ASSUME MailsInv, NEW w \in Mailers, SendsForLog(w)
    PROVE  MailsInv'
<1>1. mailer[w].phase = "reset" /\ UNCHANGED <<mail, attempts, failures, tasks, delivered>>
  BY DEF SendsForLog
<1>2. ~Sending(w) /\ mailer[w] # Asleep /\ tasks \in Nat /\ excused \in BOOLEAN
  BY <1>1, AsleepType, MailTypes DEF Sending
<1>3. CASE Asks(w, "log")
  BY <1>1, <1>2, <1>3, AsksKeeps
<1>4. CASE Sleeps(w) /\ UNCHANGED excused
  BY <1>1, <1>2, <1>4, StopKeeps, Working
<1> QED
  BY <1>3, <1>4 DEF SendsForLog

LEMMA MailerDiesKeeps ==
    ASSUME MailsInv, NEW w \in Mailers, MailerDies(w)
    PROVE  MailsInv'
<1>1. /\ mailer[w] # Asleep /\ Sleeps(w) /\ excused' = (excused \/ mailer[w].phase = "sent")
      /\ UNCHANGED <<mail, attempts, failures, tasks, delivered>>
  BY DEF MailerDies
<1>2. tasks \in Nat /\ excused' \in BOOLEAN
  BY <1>1, MailTypes
<1> QED
  BY <1>1, <1>2, StopKeeps, Working

\* The row is written, and its writing is committed.
LEMMA OutboxKeeps ==
    ASSUME MailsInv, CreateNotification \/ CommitCaller
    PROVE  MailsInv'
<1>1. /\ ~Saved /\ mail' = [mail EXCEPT !.status = mail'.status] /\ mail'.status \in {"unsaved", "pending"}
      /\ tasks' \in {tasks, tasks + 1}
      /\ UNCHANGED <<attempts, failures, mailer, delivered, excused>>
  BY MailTypes DEF CreateNotification, CommitCaller, Saved
<1>2. NothingYet /\ mail.status # "sent"
  BY <1>1 DEF MailsInv, Saved
<1>3. /\ mail' \in [status : {"none", "unsaved", "pending", "sent", "failed"}, retry_count : Nat]
      /\ mail'.retry_count = mail.retry_count /\ tasks' \in Nat
  BY <1>1, MailTypes
<1>4. Tried' = Tried
  BY <1>1 DEF Tried
<1>5. NotificationsTypeOK'
  BY <1>1, <1>3, <1>4 DEF MailsInv, NotificationsTypeOK
<1>6. AttemptsFit'
  BY <1>1, <1>3, <1>4 DEF MailsInv, AttemptsFit
<1>7. NothingYet'
  BY <1>1, <1>2, <1>4 DEF NothingYet
<1>8. mail.retry_count = Tried /\ \A v \in Mailers : ~Sending(v)
  BY <1>2, MailTypes, AsleepType DEF MailsInv, AttemptsFit, NothingYet, Sending
<1>9. NothingToExcuse'
  BY <1>1, <1>3, <1>4, <1>7, <1>8 DEF NothingToExcuse, NothingYet, Sending
<1> QED
  BY <1>5, <1>6, <1>7, <1>9 DEF MailsInv

-----------------------------------------------------------------------------
(* Notifications: the invariant.                                            *)

LEMMA InitMailsInv == NotificationsInit => MailsInv
<1> SUFFICES ASSUME NotificationsInit PROVE MailsInv
  OBVIOUS
<1>1. /\ mail = [status |-> "none", retry_count |-> 0] /\ attempts = <<>> /\ failures = {} /\ tasks = 0
      /\ mailer = [w \in Mailers |-> Asleep] /\ delivered = 0 /\ excused = FALSE
  BY DEF NotificationsInit
<1>2. DOMAIN attempts = {}
  BY <1>1
<1>3. Tried = 0
  BY <1>2, FS_EmptySet DEF Tried
<1>4. attempts \in [1 .. Tried -> {"sent", "failed"}]
  BY <1>1, <1>3
<1>5. NotificationsTypeOK
  <2>1. mail \in [status : {"none", "unsaved", "pending", "sent", "failed"}, retry_count : Nat]
    BY <1>1
  <2>2. mailer \in [Mailers -> Mailer]
    BY <1>1, AsleepType
  <2>3. failures \subseteq Nat /\ tasks \in Nat /\ delivered \in 0 .. 2 /\ Tried \in Nat
    BY <1>1, <1>3
  <2>4. excused \in BOOLEAN
    BY <1>1, Zenon
  <2> QED
    BY <1>4, <2>1, <2>2, <2>3, <2>4 DEF NotificationsTypeOK
<1>6. AttemptsFit /\ NothingYet /\ NothingToExcuse
  BY <1>1, <1>3, AsleepType DEF AttemptsFit, NothingYet, NothingToExcuse, Sending
<1> QED
  BY <1>5, <1>6 DEF MailsInv

LEMMA NextMailsInv == MailsInv /\ [NotificationsNext]_mailVars => MailsInv'
<1> SUFFICES ASSUME MailsInv, [NotificationsNext]_mailVars PROVE MailsInv'
  OBVIOUS
<1>1. CASE UNCHANGED mailVars
  BY <1>1, MailTypes, QueueKeeps DEF mailVars
<1>2. CASE CreateNotification \/ CommitCaller
  BY <1>2, OutboxKeeps
<1>3. CASE RetryPending
  BY <1>3, MailTypes, QueueKeeps DEF RetryPending, Queue
<1>4. ASSUME NEW w \in Mailers, TakesTask(w) PROVE MailsInv'
  BY <1>4, TakesTaskKeeps
<1>5. ASSUME NEW w \in Mailers, NEW answer \in {"sent", "refused"}, Provider(w, answer) PROVE MailsInv'
  BY <1>5, ProviderKeeps
<1>6. ASSUME NEW w \in Mailers, Records(w) \/ RecordedBefore(w) PROVE MailsInv'
  BY <1>6, RecordsKeeps, RecordedBeforeKeeps
<1>7. ASSUME NEW w \in Mailers, ReadsToResend(w) PROVE MailsInv'
  BY <1>7, ReadsToResendKeeps
<1>8. ASSUME NEW w \in Mailers, NEW n \in failures, ReadsLog(w, n) PROVE MailsInv'
  BY <1>8, ReadsLogKeeps
<1>9. ASSUME NEW w \in Mailers, Resets(w) PROVE MailsInv'
  BY <1>9, ResetsKeeps
<1>10. ASSUME NEW w \in Mailers, SendsForLog(w) PROVE MailsInv'
  BY <1>10, SendsForLogKeeps
<1>11. ASSUME NEW w \in Mailers, MailerDies(w) PROVE MailsInv'
  BY <1>11, MailerDiesKeeps
<1> QED
  BY <1>1, <1>2, <1>3, <1>4, <1>5, <1>6, <1>7, <1>8, <1>9, <1>10, <1>11 DEF NotificationsNext

LEMMA MailsInvImplies == MailsInv => MailsAccountedFor
<1> SUFFICES ASSUME MailsInv PROVE MailsAccountedFor
  OBVIOUS
<1> DEFINE bad == {i \in 1 .. Tried : attempts[i] = "failed"}
<1>1. /\ Tried \in Nat /\ DOMAIN attempts = 1 .. Tried /\ delivered \in 0 .. 2
      /\ \A i \in 1 .. Tried : attempts[i] \in {"sent", "failed"}
  BY MailTypes
<1>2. AttemptsFit /\ (~excused => NothingToExcuse)
  BY DEF MailsInv
<1>3. mail.retry_count = Cardinality(bad)
  <2>1. CASE Tried > 0 /\ attempts[Tried] = "sent"
    <3>1. bad = 1 .. Tried - 1 /\ Tried - 1 \in Nat
      BY <1>1, <1>2, <2>1 DEF AttemptsFit
    <3>2. Cardinality(1 .. Tried - 1) = Tried - 1
      BY <3>1, FS_Interval
    <3> QED
      BY <1>2, <2>1, <3>1, <3>2 DEF AttemptsFit
  <2>2. CASE ~(Tried > 0 /\ attempts[Tried] = "sent")
    <3>1. bad = 1 .. Tried
      BY <1>1, <1>2, <2>2 DEF AttemptsFit
    <3>2. Cardinality(1 .. Tried) = Tried
      BY <1>1, FS_Interval
    <3> QED
      BY <1>2, <2>2, <3>1, <3>2 DEF AttemptsFit
  <2> QED
    BY <2>1, <2>2
<1>4. delivered > 1 => excused
  BY <1>1, <1>2 DEF NothingToExcuse
<1> QED
  BY <1>1, <1>2, <1>3, <1>4 DEF MailsAccountedFor, AttemptsFit, Tried

\* The inductive invariant: no worker's copy of the retry count is ahead of the row's, and
\* while nothing excuses a second mail, one worker sends and its copy is the row's.
THEOREM MailsInvariance == NotificationsSpec => []MailsInv
<1> QED
  BY InitMailsInv, NextMailsInv, PTL DEF NotificationsSpec

\* send_notification numbers an attempt after its own copy, and the unique constraint on
\* attempt_no refuses a second one: the record of a mail tells what was sent, and no mail
\* is sent twice unless workers overlap, die between sending and recording, or reset it.
THEOREM MailsAreAccountedFor == NotificationsSpec => []MailsAccountedFor
<1> QED
  BY MailsInvariance, MailsInvImplies, PTL

-----------------------------------------------------------------------------
(* The three together.                                                      *)

\* Refunds, returns and mails go on side by side: they share no row, so a step of one
\* leaves what the others rely on.
THEOREM AfterSalesInvariance == AfterSalesSpec => []AfterSalesInv
<1>1. AfterSalesInit => AfterSalesInv
  BY InitRefundsInv, InitReturnsInv, InitMailsInv DEF AfterSalesInit, AfterSalesInv
<1>2. AfterSalesInv /\ [AfterSalesNext]_<<vars, returnsVars, mailVars>> => AfterSalesInv'
  <2> SUFFICES ASSUME AfterSalesInv, [AfterSalesNext]_<<vars, returnsVars, mailVars>>
               PROVE  AfterSalesInv'
    OBVIOUS
  <2>1. [Next]_vars /\ [ReturnsNext]_returnsVars /\ [NotificationsNext]_mailVars
    BY DEF AfterSalesNext
  <2> QED
    BY <2>1, NextRefundsInv, NextReturnsInv, NextMailsInv DEF AfterSalesInv
<1> QED
  BY <1>1, <1>2, PTL DEF AfterSalesSpec
=============================================================================
