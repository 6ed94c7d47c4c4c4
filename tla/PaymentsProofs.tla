---------------------------- MODULE PaymentsProofs ----------------------------
(***************************************************************************)
(* Theorems about GatewayPayments and Collections, for any requests, lines *)
(* of the order, attempts and codes.                                       *)
(***************************************************************************)
EXTENDS OrderLifecycleProofs, GatewayPayments, Collections, UnitSumsTheorems

-----------------------------------------------------------------------------
(* Attempts to pay through a gateway.                                       *)

LEMMA NoJobTyped ==
    /\ NoJob \in Jobs /\ NoJob.phase = "read" /\ NoJob.want = "created" /\ NoJob.route = "none"
BY DEF NoJob, Jobs, TxnStatuses

LEMMA JobTyped ==
    ASSUME GatewayTypeOK, NEW w \in Requests
    PROVE  /\ job[w] \in Jobs /\ job[w].event \in Events \cup {Nothing} /\ job[w].txn \in Nat
           /\ job[w].seen \in TxnStatuses /\ job[w].want \in TxnStatuses
           /\ job[w].ref \in References \cup {Nothing}
BY DEF GatewayTypeOK, Jobs

\* A job is begun, goes on or ends.
LEMMA JobReplaced ==
    ASSUME GatewayTypeOK, NEW w \in Requests, NEW j \in Jobs, job' = [job EXCEPT ![w] = j]
    PROVE  /\ job' \in [Requests -> Jobs] /\ job'[w] = j
           /\ \A v \in Requests \ {w} : job'[v] = job[v]
BY DEF GatewayTypeOK

\* A step of a payment task that leaves the order and its requests alone.
LEMMA TaskStep ==
    ASSUME GatewayInv, UNCHANGED orderVars, req' = req, ledger' = ledger,
           txns' \in Seq(TxnStatuses), gateway' \in Seq(GatewayStatuses),
           Len(gateway') = Len(txns'), Len(txns) <= Len(txns'), Len(txns') <= MaxAttempts,
           DOMAIN logs' \subseteq Events,
           \A e \in DOMAIN logs' : e \in DOMAIN logs \/ e.attempt \in DOMAIN txns,
           job' \in [Requests -> Jobs],
           \A w \in Requests :
             \/ job'[w] = job[w]
             \/ /\ job'[w].phase = "tender" => job'[w].want = "success" /\ req[w] = Idle
                /\ job'[w].want = "success" => req[w] = Idle,
           Captured => Captured',
           Captured' \/ \A e \in DOMAIN logs' : e.says # "success",
           Captured' \/ \A w \in Requests : job'[w].want # "success"
    PROVE  GatewayInv'
<1>1. GatewayTypeOK'
  <2>1. TypeOK'
    BY DEF GatewayInv, GatewayTypeOK, TypeOK, orderVars, IsRequest
  <2>2. DOMAIN txns = 1 .. Len(txns) /\ DOMAIN txns' = 1 .. Len(txns') /\ Len(txns) \in Nat /\ Len(txns') \in Nat
    BY DEF GatewayInv, GatewayTypeOK
  <2>3. DOMAIN txns \subseteq DOMAIN txns'
    BY <2>2
  <2>4. \A e \in DOMAIN logs' : e.attempt \in DOMAIN txns'
    BY <2>3 DEF GatewayInv, GatewayTypeOK
  <2> QED
    BY <2>1, <2>4 DEF GatewayTypeOK, Events, Attempts, Jobs
<1>2. (\A v, w \in Requests : HasRow(v) /\ HasRow(w) => v = w)'
  BY DEF GatewayInv, HasRow
<1>3. (\A w \in Requests : TendersUnderLock(w))'
  <2>1. ASSUME NEW w \in Requests
        PROVE  /\ job'[w].phase = "tender" =>
                    job'[w].want = "success" /\ (req'[w] # Idle => req'[w].locked /\ ledger' = {})
               /\ job'[w].want = "success" /\ req'[w] # Idle => job'[w].phase = "tender"
    BY DEF GatewayInv, TendersUnderLock
  <2> QED
    BY <2>1 DEF TendersUnderLock, Idle
<1>4. (ledger = {} \/ \E ref \in References \cup {Nothing} : ledger = {ref})'
  BY DEF GatewayInv, References
<1>5. (Captured \/ NothingPaidYet)'
  <2> SUFFICES ASSUME ~Captured' PROVE NothingPaidYet'
    OBVIOUS
  <2>1. NothingPaidYet
    BY DEF GatewayInv
  <2>2. \A w \in Requests : PaysNothing(req[w])'
    BY <2>1 DEF NothingPaidYet, PaysNothing
  <2> QED
    BY <2>1, <2>2 DEF NothingPaidYet, orderVars
<1> QED
  BY <1>1, <1>2, <1>3, <1>4, <1>5 DEF GatewayInv

\* A step of one request about the order, that commits nothing.
LEMMA OrderStep ==
    ASSUME GatewayInv, NEW w \in Requests, NEW q, IsRequest(q), req' = [req EXCEPT ![w] = q],
           UNCHANGED <<orderVars, txns, gateway, logs, ledger>>,
           NEW j \in Jobs, job' = [job EXCEPT ![w] = j],
           Row(q) => \A v \in Requests \ {w} : ~HasRow(v),
           j.phase = "tender" => j.want = "success" /\ (q # Idle => q.locked /\ ledger = {}),
           j.want = "success" /\ q # Idle => j.phase = "tender",
           NothingPaidYet => j.want # "success" /\ PaysNothing(q)
    PROVE  GatewayInv'
<1>1. /\ TypeOK' /\ req'[w] = q /\ \A v \in Requests \ {w} : req'[v] = req[v]
  BY TypeKept DEF GatewayInv, GatewayTypeOK
<1>2. /\ job' \in [Requests -> Jobs] /\ job'[w] = j
      /\ \A v \in Requests \ {w} : job'[v] = job[v]
  BY JobReplaced DEF GatewayInv
<1>3. /\ order' = order /\ txns' = txns /\ gateway' = gateway /\ logs' = logs /\ ledger' = ledger
  BY DEF orderVars
<1>4. GatewayTypeOK'
  BY <1>1, <1>2, <1>3 DEF GatewayInv, GatewayTypeOK, Events, Attempts, Jobs
<1>5. (\A u, v \in Requests : HasRow(u) /\ HasRow(v) => u = v)'
  BY <1>1 DEF GatewayInv, HasRow, Row
<1>6. (\A v \in Requests : TendersUnderLock(v))'
  <2>1. ASSUME NEW v \in Requests
        PROVE  /\ job'[v].phase = "tender" =>
                    job'[v].want = "success" /\ (req'[v] # Idle => req'[v].locked /\ ledger' = {})
               /\ job'[v].want = "success" /\ req'[v] # Idle => job'[v].phase = "tender"
    BY <1>1, <1>2, <1>3 DEF GatewayInv, TendersUnderLock
  <2> QED
    BY <2>1 DEF TendersUnderLock, Idle
<1>7. (ledger = {} \/ \E ref \in References \cup {Nothing} : ledger = {ref})'
  BY <1>3 DEF GatewayInv, References
<1>8. (Captured \/ NothingPaidYet)'
  <2>1. CASE Captured
    BY <1>3, <2>1 DEF Captured
  <2>2. CASE NothingPaidYet
    <3>1. \A v \in Requests : job'[v].want # "success" /\ PaysNothing(req'[v])
      BY <1>1, <1>2, <2>2 DEF NothingPaidYet
    <3>2. (\A v \in Requests : job[v].want # "success" /\ PaysNothing(req[v]))'
      BY <3>1 DEF PaysNothing
    <3> QED
      BY <1>3, <2>2, <3>2 DEF NothingPaidYet
  <2> QED
    BY <2>1, <2>2 DEF GatewayInv
<1> QED
  BY <1>4, <1>5, <1>6, <1>7, <1>8 DEF GatewayInv

-----------------------------------------------------------------------------
(* The gateway, and the beginnings of the routes.                           *)

\* What is open, and how many attempts there are.
LEMMA AttemptsTyped ==
    ASSUME GatewayTypeOK
    PROVE  /\ DOMAIN txns = 1 .. Len(txns) /\ DOMAIN gateway = DOMAIN txns /\ Len(txns) \in Nat
           /\ DOMAIN txns \subseteq Attempts /\ Len(txns) <= MaxAttempts
           /\ \A t \in DOMAIN txns : txns[t] \in TxnStatuses /\ gateway[t] \in GatewayStatuses
BY AttemptsAssumption DEF GatewayTypeOK, Attempts

\* An attempt is added: with it comes no news.
LEMMA AttemptOpened ==
    ASSUME GatewayTypeOK, NEW s \in TxnStatuses, Opened(s)
    PROVE  /\ txns' \in Seq(TxnStatuses) /\ gateway' \in Seq(GatewayStatuses)
           /\ Len(txns') = Len(txns) + 1 /\ Len(gateway') = Len(txns') /\ Len(txns) \in Nat
           /\ Len(txns') <= MaxAttempts
           /\ Captured => Captured'
<1>1. /\ txns \in Seq(TxnStatuses) /\ gateway \in Seq(GatewayStatuses) /\ Len(gateway) = Len(txns)
      /\ (IF s = "failed" THEN "none" ELSE "open") \in GatewayStatuses
  BY DEF GatewayTypeOK, GatewayStatuses
<1>2. /\ txns' = Append(txns, s)
      /\ gateway' = Append(gateway, IF s = "failed" THEN "none" ELSE "open")
  BY DEF Opened
<1>3. \A a \in DOMAIN gateway : a \in DOMAIN gateway' /\ gateway'[a] = gateway[a]
  BY <1>1, <1>2
<1>4. Captured => Captured'
  BY <1>3 DEF Captured
<1>5. Len(txns) + 1 <= MaxAttempts
  BY <1>1, AttemptsAssumption DEF Opened
<1> QED
  BY <1>1, <1>2, <1>4, <1>5

LEMMA InitiatesKeeps ==
    ASSUME GatewayInv, InitiatePayment
    PROVE  GatewayInv'
<1>1. PICK s \in {"created", "pending", "failed"} : Opened(s)
  BY DEF InitiatePayment
<1>2. s \in TxnStatuses /\ GatewayTypeOK
  BY DEF TxnStatuses, GatewayInv
<1>3. /\ txns' \in Seq(TxnStatuses) /\ gateway' \in Seq(GatewayStatuses)
      /\ Len(txns') = Len(txns) + 1 /\ Len(gateway') = Len(txns') /\ Len(txns) \in Nat
      /\ Len(txns') <= MaxAttempts /\ (Captured => Captured')
  BY <1>1, <1>2, AttemptOpened
<1>4. UNCHANGED orderVars /\ req' = req /\ logs' = logs /\ ledger' = ledger /\ job' = job
  BY DEF InitiatePayment
<1>5. job' \in [Requests -> Jobs] /\ DOMAIN logs' \subseteq Events
  BY <1>2, <1>4 DEF GatewayTypeOK
<1>6. /\ Captured' \/ \A e \in DOMAIN logs' : e.says # "success"
      /\ Captured' \/ \A w \in Requests : job'[w].want # "success"
  BY <1>3, <1>4 DEF GatewayInv, NothingPaidYet
<1>7. Len(txns) <= Len(txns')
  BY <1>3
<1> QED
  BY <1>3, <1>4, <1>5, <1>6, <1>7, TaskStep

\* The gateway sends an event about an attempt.
LEMMA GatewayReports ==
    ASSUME GatewayInv, NEW a \in DOMAIN txns, NEW to \in GatewayStatuses,
           NEW says \in {"pending", "failed", "success"},
           gateway[a] # "captured", says = "success" => to = "captured",
           gateway' = [gateway EXCEPT ![a] = to], Sends([attempt : {a}, says : {says}]),
           UNCHANGED <<orderVars, req, txns, ledger, job>>
    PROVE  GatewayInv'
<1>1. /\ DOMAIN txns = 1 .. Len(txns) /\ DOMAIN gateway = DOMAIN txns /\ Len(txns) \in Nat
      /\ gateway \in Seq(GatewayStatuses) /\ txns \in Seq(TxnStatuses) /\ Len(gateway) = Len(txns)
      /\ Len(txns) <= MaxAttempts /\ job \in [Requests -> Jobs] /\ DOMAIN logs \subseteq Events
  BY AttemptsTyped DEF GatewayInv, GatewayTypeOK
<1>2. /\ gateway' \in Seq(GatewayStatuses) /\ Len(gateway') = Len(gateway)
      /\ DOMAIN gateway' = DOMAIN gateway
      /\ gateway'[a] = to /\ \A b \in DOMAIN gateway : b = a \/ gateway'[b] = gateway[b]
  BY <1>1
<1>3. DOMAIN logs' = DOMAIN logs \cup [attempt : {a}, says : {says}]
  BY DEF Sends
<1>4. [attempt : {a}, says : {says}] \subseteq Events
  BY AttemptsTyped DEF Events, GatewayInv
<1>5. /\ Captured => Captured'
      /\ to = "captured" => Captured'
  BY <1>1, <1>2 DEF Captured
<1>6. \A e \in DOMAIN logs' : e \in DOMAIN logs \/ (e.attempt \in DOMAIN txns /\ e.says = says)
  BY <1>3
<1>7. /\ Captured' \/ \A e \in DOMAIN logs' : e.says # "success"
      /\ Captured' \/ \A w \in Requests : job'[w].want # "success"
  BY <1>5, <1>6 DEF GatewayInv, NothingPaidYet
<1>8. /\ UNCHANGED orderVars /\ req' = req /\ ledger' = ledger /\ txns' = txns /\ job' = job
  OBVIOUS
<1>9. /\ Len(txns) <= Len(txns') /\ Len(txns') <= MaxAttempts /\ DOMAIN logs' \subseteq Events /\ Len(gateway') = Len(txns')
  BY <1>1, <1>2, <1>3, <1>4, <1>8
<1> QED
  BY <1>1, <1>2, <1>5, <1>6, <1>7, <1>8, <1>9, TaskStep

LEMMA NewsKeep ==
    ASSUME GatewayInv, NEW a \in DOMAIN txns, Authorises(a) \/ Captures(a) \/ Fails(a)
    PROVE  GatewayInv'
<1>1. {"authorised", "captured", "failed"} \subseteq GatewayStatuses
  BY DEF GatewayStatuses
<1>2. CASE Authorises(a)
  BY <1>1, <1>2, GatewayReports DEF Authorises
<1>3. CASE Captures(a)
  BY <1>1, <1>3, GatewayReports DEF Captures
<1>4. CASE Fails(a)
  BY <1>1, <1>4, GatewayReports DEF Fails
<1> QED
  BY <1>2, <1>3, <1>4

\* Who hears of a success after something was captured may take up the task.
LEMMA ReadsKeeps ==
    ASSUME GatewayInv, NEW w \in Requests,
           NEW route \in {"webhook", "handler", "verify", "reconcile", "retry"},
           NEW event \in Events \cup {Nothing}, NEW t \in DOMAIN txns, NEW want \in TxnStatuses,
           NEW ref \in References \cup {Nothing}, want = "success" => Captured,
           Reads(w, route, event, t, want, ref)
    PROVE  GatewayInv'
<1> DEFINE j == [route |-> route, event |-> event, txn |-> t, seen |-> txns[t],
                 want |-> want, phase |-> "read",
                 ref |-> IF want = "success" THEN ref ELSE Nothing]
<1>1. /\ t \in Nat /\ txns[t] \in TxnStatuses /\ Len(txns) \in Nat /\ Len(txns) <= MaxAttempts
      /\ GatewayTypeOK
  BY AttemptsTyped DEF GatewayInv
<1>2. j \in Jobs /\ j.phase = "read" /\ j.want = want
  BY <1>1 DEF Jobs
<1>3. job' = [job EXCEPT ![w] = j]
  BY DEF Reads
<1> HIDE DEF j
<1>4. /\ job' \in [Requests -> Jobs] /\ job'[w] = j
      /\ \A v \in Requests \ {w} : job'[v] = job[v]
  BY <1>1, <1>2, <1>3, JobReplaced
<1>5. req[w] = Idle
  BY DEF Reads, Free
<1>6. UNCHANGED orderVars /\ req' = req /\ txns' = txns /\ gateway' = gateway /\ logs' = logs /\ ledger' = ledger
  BY DEF Reads
<1>7. /\ txns' \in Seq(TxnStatuses) /\ gateway' \in Seq(GatewayStatuses)
      /\ Len(gateway') = Len(txns') /\ Len(txns) <= Len(txns') /\ Len(txns') <= MaxAttempts
      /\ DOMAIN logs' \subseteq Events
  BY <1>1, <1>6 DEF GatewayTypeOK
<1>8. /\ Captured => Captured'
      /\ Captured' \/ \A e \in DOMAIN logs' : e.says # "success"
      /\ Captured' \/ \A v \in Requests : job'[v].want # "success"
  <2>1. Captured' = Captured
    BY <1>6 DEF Captured
  <2> QED
    BY <1>2, <1>4, <1>6, <2>1 DEF GatewayInv, NothingPaidYet
<1>9. \A v \in Requests :
        \/ job'[v] = job[v]
        \/ /\ job'[v].phase = "tender" => job'[v].want = "success" /\ req[v] = Idle
           /\ job'[v].want = "success" => req[v] = Idle
  BY <1>2, <1>4, <1>5
<1> QED
  BY <1>4, <1>6, <1>7, <1>8, <1>9, TaskStep

LEMMA RoutesKeep ==
    ASSUME GatewayInv, NEW w \in Requests,
           \/ \E e \in Events : Handles(w, e)
           \/ \E t \in DOMAIN txns : VerifyCheckoutPayment(w, t) \/ RetryPayment(w, t)
           \/ \E id \in {"payment", "order"} : ReconcileOrderPayment(w, id)
    PROVE  GatewayInv'
<1>1. /\ DOMAIN txns = 1 .. Len(txns) /\ DOMAIN gateway = DOMAIN txns /\ Len(txns) \in Nat
      /\ \A e \in DOMAIN logs : e.attempt \in DOMAIN txns
      /\ {"created", "pending", "success", "failed", "retry"} \subseteq TxnStatuses
  BY AttemptsTyped DEF GatewayInv, GatewayTypeOK, TxnStatuses
<1>2. \A of \in Nat, id \in {"payment", "order"} : [of |-> of, id |-> id] \in References
  BY DEF References
<1>3. ASSUME NEW e \in Events, e \in DOMAIN logs
      PROVE  /\ Latest \in DOMAIN txns /\ e.attempt \in Nat /\ e.says \in TxnStatuses
             /\ StatusFor(e.says) = "success" => Captured
             /\ StatusFor(e.says) = e.says
  <2>1. e.attempt \in DOMAIN txns
    BY <1>1, <1>3
  <2>2. Latest \in DOMAIN txns /\ e.attempt \in Nat
    BY <1>1, <2>1 DEF Latest
  <2>3. e.says \in TxnStatuses
    BY <1>1 DEF Events
  <2> QED
    BY <1>3, <2>2, <2>3 DEF GatewayInv, NothingPaidYet, StatusFor
<1>4. ASSUME NEW e \in Events, HandleWebhook(w, e)
      PROVE  GatewayInv'
  <2>1. e \in DOMAIN logs
    BY <1>4 DEF HandleWebhook
  <2>2. [of |-> e.attempt, id |-> "payment"] \in References
    BY <1>2, <1>3, <2>1
  <2>3. Reads(w, "webhook", e, Latest, e.says, [of |-> e.attempt, id |-> "payment"])
    BY <1>4 DEF HandleWebhook, StatusFor
  <2> HIDE DEF Latest
  <2> QED
    BY <1>3, <2>1, <2>2, <2>3, ReadsKeeps DEF StatusFor
<1>5. ASSUME NEW e \in Events, HandleCashfreeWebhook(w, e)
      PROVE  GatewayInv'
  <2>1. e \in DOMAIN logs
    BY <1>5 DEF HandleCashfreeWebhook
  <2>2. [of |-> Latest, id |-> "order"] \in References
    <3>1. Latest \in Nat
      BY <1>1 DEF Latest
    <3> QED
      BY <3>1 DEF References
  <2>3. Reads(w, "handler", e, Latest, e.says, [of |-> Latest, id |-> "order"])
    BY <1>5 DEF HandleCashfreeWebhook, StatusFor
  <2> QED
    BY <1>3, <2>1, <2>2, <2>3, ReadsKeeps DEF StatusFor
<1>6. ASSUME NEW t \in DOMAIN txns, VerifyCheckoutPayment(w, t)
      PROVE  GatewayInv'
  <2>1. PICK want \in {"success", "failed"} :
          /\ want = "success" => gateway[t] = "captured"
          /\ Reads(w, "verify", Nothing, t, want, [of |-> t, id |-> "payment"])
    BY <1>6 DEF VerifyCheckoutPayment
  <2>2. [of |-> t, id |-> "payment"] \in References
    <3>1. t \in Nat
      BY <1>1
    <3> QED
      BY <3>1 DEF References
  <2>3. want = "success" => Captured
    BY <1>1, <2>1 DEF Captured
  <2> QED
    BY <1>1, <2>1, <2>2, <2>3, ReadsKeeps
<1>7. ASSUME NEW t \in DOMAIN txns, RetryPayment(w, t)
      PROVE  GatewayInv'
  <2>1. Reads(w, "retry", Nothing, t, "retry", Nothing)
    BY <1>7 DEF RetryPayment
  <2> QED
    BY <1>1, <2>1, ReadsKeeps
<1>8. ASSUME NEW id \in {"payment", "order"}, ReconcileOrderPayment(w, id)
      PROVE  GatewayInv'
  <2> DEFINE want == IF gateway[Latest] = "captured" THEN "success"
                     ELSE IF gateway[Latest] = "failed" THEN "failed" ELSE "pending"
  <2>1. Latest > 0 /\ Reads(w, "reconcile", Nothing, Latest, want, [of |-> Latest, id |-> id])
    BY <1>8 DEF ReconcileOrderPayment
  <2>2. Latest \in DOMAIN txns /\ [of |-> Latest, id |-> id] \in References
    <3>1. Latest \in Nat /\ Latest \in DOMAIN txns
      BY <1>1, <2>1 DEF Latest
    <3> QED
      BY <3>1 DEF References
  <2>3. want \in TxnStatuses /\ (want = "success" => Captured)
    BY <1>1, <2>2 DEF Captured
  <2> HIDE DEF want
  <2> QED
    BY <2>1, <2>2, <2>3, ReadsKeeps
<1> QED
  BY <1>4, <1>5, <1>6, <1>7, <1>8 DEF Handles

-----------------------------------------------------------------------------
(* The tasks go on.                                                         *)

LEMMA WrittenTyped ==
    ASSUME GatewayTypeOK, NEW w \in Requests
    PROVE  Written(w) \in Seq(TxnStatuses) /\ Len(Written(w)) = Len(txns)
<1> DEFINE n == Len(txns)
           to == job[w].want
           at == job[w].txn
<1>1. n \in Nat /\ DOMAIN txns = 1 .. n /\ to \in TxnStatuses /\ \A t \in 1 .. n : txns[t] \in TxnStatuses
  BY AttemptsTyped, JobTyped
<1>2. Written(w) = [t \in 1 .. n |-> IF t = at THEN to ELSE txns[t]]
  <2>1. txns = [t \in 1 .. n |-> txns[t]]
    BY <1>1 DEF GatewayTypeOK
  <2> QED
    BY <1>1, <2>1 DEF Written
<1> HIDE DEF n, to, at
<1>3. /\ [t \in 1 .. n |-> IF t = at THEN to ELSE txns[t]] \in Seq(TxnStatuses)
      /\ Len([t \in 1 .. n |-> IF t = at THEN to ELSE txns[t]]) = n
  BY <1>1
<1> QED
  BY <1>2, <1>3 DEF n

LEMMA LoggedSame ==
    ASSUME NEW w \in Requests
    PROVE  DOMAIN Logged(w) = DOMAIN logs
BY DEF Logged

\* A step of one task: it knows no more than before, and does not begin a tender for
\* anything but a success.
LEMMA TaskGoesOn ==
    ASSUME GatewayInv, NEW w \in Requests, NEW j \in Jobs, job' = [job EXCEPT ![w] = j],
           UNCHANGED <<orderVars, req, gateway, ledger>>,
           txns' = txns \/ txns' = Written(w), DOMAIN logs' = DOMAIN logs,
           j.want = "success" => job[w].want = "success" /\ req[w] = Idle,
           j.phase = "tender" => j.want = "success"
    PROVE  GatewayInv'
<1>1. /\ GatewayTypeOK /\ txns \in Seq(TxnStatuses) /\ Len(txns) \in Nat /\ Len(txns) <= MaxAttempts
      /\ gateway \in Seq(GatewayStatuses) /\ Len(gateway) = Len(txns) /\ DOMAIN logs \subseteq Events
  BY AttemptsTyped DEF GatewayInv, GatewayTypeOK
<1>2. /\ job' \in [Requests -> Jobs] /\ job'[w] = j
      /\ \A v \in Requests \ {w} : job'[v] = job[v]
  BY <1>1, JobReplaced
<1>3. txns' \in Seq(TxnStatuses) /\ Len(txns') = Len(txns)
  BY <1>1, WrittenTyped
<1>4. UNCHANGED orderVars /\ req' = req /\ gateway' = gateway /\ ledger' = ledger
  OBVIOUS
<1>5. /\ gateway' \in Seq(GatewayStatuses)
      /\ Len(gateway') = Len(txns') /\ Len(txns) <= Len(txns') /\ Len(txns') <= MaxAttempts
      /\ DOMAIN logs' \subseteq Events
  BY <1>1, <1>3, <1>4
<1>6. Captured' = Captured
  BY <1>4 DEF Captured
<1>7. /\ Captured => Captured'
      /\ Captured' \/ \A e \in DOMAIN logs' : e.says # "success"
      /\ Captured' \/ \A v \in Requests : job'[v].want # "success"
  BY <1>2, <1>6 DEF GatewayInv, NothingPaidYet
<1>8. \A v \in Requests :
        \/ job'[v] = job[v]
        \/ /\ job'[v].phase = "tender" => job'[v].want = "success" /\ req[v] = Idle
           /\ job'[v].want = "success" => req[v] = Idle
  BY <1>2
<1> QED
  BY <1>2, <1>3, <1>4, <1>5, <1>7, <1>8, TaskStep

LEMMA TasksKeep ==
    ASSUME GatewayInv, NEW w \in Requests,
           \/ Skips(w) \/ Saves(w) \/ Finishes(w) \/ SettlesGatewayPayment(w)
           \/ FindsTender(w) \/ RefusesTender(w)
    PROVE  GatewayInv'
<1>1. /\ job[w] \in Jobs /\ NoJob \in Jobs /\ NoJob.want = "created" /\ NoJob.phase = "read"
      /\ DOMAIN Logged(w) = DOMAIN logs
      /\ job[w].want = "success" /\ req[w] # Idle => job[w].phase = "tender"
  BY JobTyped, NoJobTyped, LoggedSame DEF GatewayInv, TendersUnderLock
<1>2. CASE Ends(w) /\ UNCHANGED <<orderVars, req, gateway, ledger>>
             /\ (txns' = txns \/ txns' = Written(w)) /\ DOMAIN logs' = DOMAIN logs
  <2>1. job' = [job EXCEPT ![w] = NoJob]
    BY <1>2 DEF Ends
  <2> QED
    BY <1>1, <1>2, <2>1, TaskGoesOn
<1>3. CASE Skips(w)
  BY <1>1, <1>2, <1>3 DEF Skips
<1>4. CASE Finishes(w)
  BY <1>1, <1>2, <1>4 DEF Finishes
<1>5. CASE FindsTender(w)
  BY <1>1, <1>2, <1>5 DEF FindsTender
<1>6. CASE RefusesTender(w)
  BY <1>1, <1>2, <1>6 DEF RefusesTender
<1>7. CASE Saves(w)
  <2> DEFINE j == [job[w] EXCEPT !.phase = "saved", !.seen = job[w].want]
  <2>1. job' = [job EXCEPT ![w] = j]
    BY <1>1, <1>7 DEF Saves, GatewayInv, GatewayTypeOK
  <2>2. j \in Jobs /\ j.phase = "saved" /\ j.want = job[w].want
    BY <1>1 DEF Jobs
  <2>3. /\ job[w].phase = "read" /\ UNCHANGED <<orderVars, req, gateway, ledger>>
        /\ txns' = txns \/ txns' = Written(w)
        /\ DOMAIN logs' = DOMAIN logs
    BY <1>7 DEF Saves
  <2> HIDE DEF j
  <2> QED
    BY <1>1, <2>1, <2>2, <2>3, TaskGoesOn
<1>8. CASE SettlesGatewayPayment(w)
  <2> DEFINE j == [job[w] EXCEPT !.phase = "tender"]
  <2>1. job' = [job EXCEPT ![w] = j]
    BY <1>1, <1>8 DEF SettlesGatewayPayment, GatewayInv, GatewayTypeOK
  <2>2. j \in Jobs /\ j.phase = "tender" /\ j.want = job[w].want
    BY <1>1 DEF Jobs
  <2>3. /\ job[w].phase = "saved" /\ job[w].want = "success"
        /\ UNCHANGED <<orderVars, req, gateway, ledger>>
        /\ txns' = txns /\ DOMAIN logs' = DOMAIN logs
    BY <1>8 DEF SettlesGatewayPayment
  <2> HIDE DEF j
  <2> QED
    BY <1>1, <2>1, <2>2, <2>3, TaskGoesOn
<1> QED
  BY <1>3, <1>4, <1>5, <1>6, <1>7, <1>8

LEMMA ReinitiatesKeeps ==
    ASSUME GatewayInv, NEW w \in Requests, Reinitiates(w)
    PROVE  GatewayInv'
<1>1. /\ GatewayTypeOK /\ NoJob \in Jobs /\ NoJob.want = "created" /\ NoJob.phase = "read"
      /\ txns \in Seq(TxnStatuses) /\ Len(txns) \in Nat /\ Len(txns) <= MaxAttempts
      /\ gateway \in Seq(GatewayStatuses) /\ Len(gateway) = Len(txns) /\ DOMAIN logs \subseteq Events
  BY NoJobTyped, AttemptsTyped DEF GatewayInv, GatewayTypeOK
<1>2. /\ job' = [job EXCEPT ![w] = NoJob]
      /\ UNCHANGED orderVars /\ req' = req /\ logs' = logs /\ ledger' = ledger
      /\ \/ UNCHANGED <<txns, gateway>>
         \/ \E s \in {"pending", "failed"} : Opened(s)
  BY DEF Reinitiates, Ends
<1>3. /\ job' \in [Requests -> Jobs] /\ job'[w] = NoJob
      /\ \A v \in Requests \ {w} : job'[v] = job[v]
  BY <1>1, <1>2, JobReplaced
<1>4. /\ txns' \in Seq(TxnStatuses) /\ gateway' \in Seq(GatewayStatuses)
      /\ Len(gateway') = Len(txns') /\ Len(txns) <= Len(txns') /\ Len(txns') <= MaxAttempts
      /\ Captured => Captured'
  <2>1. CASE UNCHANGED <<txns, gateway>>
    BY <1>1, <2>1 DEF Captured
  <2>2. ASSUME NEW s \in {"pending", "failed"}, Opened(s)
        PROVE  /\ txns' \in Seq(TxnStatuses) /\ gateway' \in Seq(GatewayStatuses)
               /\ Len(gateway') = Len(txns') /\ Len(txns) <= Len(txns')
               /\ Len(txns') <= MaxAttempts /\ (Captured => Captured')
    <3>1. s \in TxnStatuses
      BY DEF TxnStatuses
    <3>2. /\ txns' \in Seq(TxnStatuses) /\ gateway' \in Seq(GatewayStatuses)
          /\ Len(txns') = Len(txns) + 1 /\ Len(gateway') = Len(txns') /\ Len(txns) \in Nat
          /\ Len(txns') <= MaxAttempts /\ (Captured => Captured')
      BY <1>1, <2>2, <3>1, AttemptOpened
    <3> QED
      BY <3>2
  <2> QED
    BY <1>2, <2>1, <2>2
<1>5. /\ Captured' \/ \A e \in DOMAIN logs' : e.says # "success"
      /\ Captured' \/ \A v \in Requests : job'[v].want # "success"
  BY <1>1, <1>2, <1>3, <1>4 DEF GatewayInv, NothingPaidYet
<1>6. /\ DOMAIN logs' \subseteq Events
      /\ \A v \in Requests :
           \/ job'[v] = job[v]
           \/ /\ job'[v].phase = "tender" => job'[v].want = "success" /\ req[v] = Idle
              /\ job'[v].want = "success" => req[v] = Idle
  BY <1>1, <1>2, <1>3
<1> QED
  BY <1>2, <1>3, <1>4, <1>5, <1>6, TaskStep

-----------------------------------------------------------------------------
(* The order's requests.                                                    *)

\* A list of statements none of which pays.
NoPay(s) == s \in Seq(Steps) /\ \A i \in DOMAIN s : s[i].do \notin PayStatements

LEMMA NoPayJoined ==
    ASSUME NEW s, NEW t, NoPay(s), NoPay(t)
    PROVE  NoPay(s \o t)
<1>1. s \in Seq(Steps) /\ t \in Seq(Steps)
  BY DEF NoPay
<1>2. s \o t \in Seq(Steps)
  BY <1>1, Joined
<1>3. ASSUME NEW i \in DOMAIN (s \o t)
      PROVE  (s \o t)[i].do \notin PayStatements
  <2>1. \/ i \in DOMAIN s /\ (s \o t)[i] = s[i]
        \/ i - Len(s) \in DOMAIN t /\ (s \o t)[i] = t[i - Len(s)]
    BY <1>1, JoinedElements
  <2> QED
    BY <2>1 DEF NoPay
<1> QED
  BY <1>2, <1>3 DEF NoPay

LEMMA NoPayTail ==
    ASSUME NEW s, NoPay(s), s # <<>>
    PROVE  NoPay(Tail(s)) /\ Head(s).do \notin PayStatements
<1>1. /\ Head(s) = s[1] /\ 1 \in DOMAIN s /\ Tail(s) \in Seq(Steps)
      /\ \A i \in DOMAIN Tail(s) : i + 1 \in DOMAIN s /\ Tail(s)[i] = s[i + 1]
  BY TailOf DEF NoPay
<1> QED
  BY <1>1 DEF NoPay

LEMMA NoPayScripts ==
    /\ NoPay(<<>>) /\ NoPay(Do("end")) /\ NoPay(Do("drop")) /\ NoPay(CancelSteps)
<1>1. /\ [do |-> "end", arg |-> Nothing] \in Steps
      /\ [do |-> "release", arg |-> Nothing] \in Steps
      /\ [do |-> "drop", arg |-> Nothing] \in Steps
      /\ [do |-> "move", arg |-> "cancelled"] \in Steps
  BY DEF Steps, Statuses, Query
<1>2. ASSUME NEW x \in Steps, x.do \notin PayStatements PROVE NoPay(<<x>>)
  <2>1. <<x>> \in Seq(Steps) /\ Len(<<x>>) = 1 /\ <<x>>[1] = x /\ DOMAIN <<x>> = 1 .. 1
    BY Single
  <2> QED
    BY <1>2, <2>1 DEF NoPay
<1>3. /\ NoPay(Do("end")) /\ NoPay(Do("drop")) /\ NoPay(Do("release"))
      /\ NoPay(MoveTo("cancelled"))
  BY <1>1, <1>2 DEF Do, MoveTo, PayStatements
<1>4. NoPay(CancelSteps)
  BY <1>3, NoPayJoined DEF CancelSteps
<1>5. NoPay(<<>>)
  BY DEF NoPay
<1> QED
  BY <1>3, <1>4, <1>5

\* A request of which nothing pays, with the scripts typed.
LEMMA PaysNothingOf ==
    ASSUME NEW r, NoPay(r.script), NoPay(r.handler), "payment" \notin r.wrote
    PROVE  PaysNothing(r)
BY DEF NoPay, PaysNothing

LEMMA NoPayOf ==
    ASSUME TypeOK, NEW w \in Requests, PaysNothing(req[w])
    PROVE  NoPay(req[w].script) /\ NoPay(req[w].handler)
BY TypedRequest DEF NoPay, PaysNothing

LEMMA IdlePaysNothing == PaysNothing(Idle) /\ ~Row(Idle)
BY DEF PaysNothing, Idle, Row

\* A service that is begun without a tender, and that pays nothing.
LEMMA BeginsUnpaid ==
    ASSUME GatewayInv, NEW w \in Requests, NEW steps, NEW handler, NoPay(steps), NoPay(handler),
           Begin(w, steps, handler), job[w].want # "success", UNCHANGED gatewayVars
    PROVE  GatewayInv'
<1>1. TypeOK /\ GatewayTypeOK /\ steps \in Seq(Steps) /\ handler \in Seq(Steps)
  BY DEF GatewayInv, GatewayTypeOK, NoPay
<1>2. PICK q : /\ IsRequest(q) /\ req' = [req EXCEPT ![w] = q]
               /\ q.script = steps \o Do("end") /\ q.handler = handler /\ q.wrote = {}
               /\ BeginLocked(w, steps, handler) => q.locked
               /\ ~BeginLocked(w, steps, handler) => ~q.locked
  BY <1>1, BeginStep DEF Begun
<1>3. UNCHANGED <<orderVars, txns, gateway, logs, ledger>> /\ job' = job
  BY DEF Begin, gatewayVars
<1>4. job[w] \in Jobs /\ job' = [job EXCEPT ![w] = job[w]]
  BY <1>1, <1>3, JobTyped DEF GatewayTypeOK
<1>5. Row(q) => \A v \in Requests \ {w} : ~HasRow(v)
  BY <1>2 DEF Row, BeginLocked
<1>6. PaysNothing(q)
  <2>1. NoPay(q.script) /\ NoPay(q.handler)
    BY <1>2, NoPayScripts, NoPayJoined
  <2> QED
    BY <1>2, <2>1, PaysNothingOf
<1>7. job[w].phase # "tender"
  BY DEF GatewayInv, TendersUnderLock
<1> QED
  BY <1>2, <1>3, <1>4, <1>5, <1>6, <1>7, OrderStep

LEMMA BeginningsKeep ==
    ASSUME GatewayInv, NEW w \in Requests, CancelUnpaid(w) \/ Releases(w)
    PROVE  GatewayInv'
<1>1. CASE CancelUnpaid(w)
  <2>1. Begin(w, CancelSteps, <<>>) /\ job[w].want # "success" /\ UNCHANGED gatewayVars
    BY <1>1, NoJobTyped DEF CancelUnpaid, CancelOrder, Free
  <2> QED
    BY <2>1, BeginsUnpaid, NoPayScripts
<1>2. CASE Releases(w)
  <2>1. /\ Begin(w, Do("drop"), Do("end")) /\ job[w].want # "success" /\ UNCHANGED gatewayVars
    BY <1>2 DEF Releases
  <2> QED
    BY <2>1, BeginsUnpaid, NoPayScripts
<1> QED
  BY <1>1, <1>2

\* record_tender: the order is locked, and the ledger was found empty under the lock.
LEMMA RecordsKeeps ==
    ASSUME GatewayInv, NEW w \in Requests, RecordsTender(w)
    PROVE  GatewayInv'
<1> DEFINE steps == IF order.payment \in {"paid", "refunded", "partially_refunded"} THEN <<>>
                    ELSE IF order.status \in {"draft", "placed"} THEN MarkPaidSteps
                    ELSE Pay("paid")
<1>1. TypeOK /\ GatewayTypeOK
  BY DEF GatewayInv, GatewayTypeOK
<1>2. steps \in Seq(Steps) /\ <<>> \in Seq(Steps)
  BY <1>1, Services DEF IsService, PaymentStatuses
<1>3. /\ BeginLocked(w, steps, <<>>) /\ UNCHANGED gatewayVars /\ ledger = {}
      /\ job[w].phase = "tender"
  BY DEF RecordsTender, SettlePaid, Due
<1> HIDE DEF steps
<1>4. PICK q : /\ IsRequest(q) /\ req' = [req EXCEPT ![w] = q]
               /\ BeginLocked(w, steps, <<>>) => q.locked
  BY <1>1, <1>2, <1>3, BeginStep DEF Begun
<1>5. UNCHANGED <<orderVars, txns, gateway, logs, ledger>> /\ job' = job
  BY <1>3 DEF BeginLocked, gatewayVars
<1>6. job[w] \in Jobs /\ job' = [job EXCEPT ![w] = job[w]]
  BY <1>1, <1>5, JobTyped DEF GatewayTypeOK
<1>7. \A v \in Requests \ {w} : ~HasRow(v)
  BY <1>3 DEF BeginLocked
<1>8. job[w].want = "success"
  BY <1>3 DEF GatewayInv, TendersUnderLock
<1>9. ~NothingPaidYet
  BY <1>8 DEF NothingPaidYet
<1> QED
  BY <1>3, <1>4, <1>5, <1>6, <1>7, <1>8, <1>9, OrderStep

\* A step of a request that has begun: its locks and what it says stay, or it ends.
LEMMA RequestGoesOn ==
    ASSUME GatewayInv, NEW w \in Requests, NEW q, IsRequest(q), req' = [req EXCEPT ![w] = q],
           UNCHANGED <<orderVars, txns, gateway, logs, ledger>>,
           job' = IF req'[w] = Idle THEN [job EXCEPT ![w] = NoJob] ELSE job,
           req[w] # Idle,
           q # Idle => q.locked = req[w].locked,
           q.wrote = {} \/ q.wrote = req[w].wrote \/ \A v \in Requests \ {w} : ~HasRow(v),
           PaysNothing(req[w]) => PaysNothing(q)
    PROVE  GatewayInv'
<1>1. TypeOK /\ GatewayTypeOK /\ job[w] \in Jobs /\ req'[w] = q
  BY JobTyped DEF GatewayInv, GatewayTypeOK, TypeOK
<1>2. Row(q) => \A v \in Requests \ {w} : ~HasRow(v)
  <2>1. CASE q = Idle
    BY <2>1, IdlePaysNothing
  <2>2. CASE q # Idle
    BY <2>2 DEF GatewayInv, HasRow, Row
  <2> QED
    BY <2>1, <2>2
<1>3. NothingPaidYet => job[w].want # "success" /\ PaysNothing(q)
  BY DEF NothingPaidYet
<1>4. /\ job[w].phase = "tender" => job[w].want = "success" /\ req[w].locked /\ ledger = {}
      /\ job[w].want = "success" => job[w].phase = "tender"
  BY DEF GatewayInv, TendersUnderLock
<1>5. CASE q = Idle
  <2>1. job' = [job EXCEPT ![w] = NoJob]
    BY <1>1, <1>5
  <2> QED
    BY <1>1, <1>2, <1>3, <1>5, <2>1, NoJobTyped, OrderStep
<1>6. CASE q # Idle
  <2>1. job' = [job EXCEPT ![w] = job[w]]
    BY <1>1, <1>6 DEF GatewayTypeOK
  <2> QED
    BY <1>1, <1>2, <1>3, <1>4, <1>6, <2>1, OrderStep
<1> QED
  BY <1>5, <1>6

LEMMA GatewayStepKeeps ==
    ASSUME GatewayInv, NEW w \in Requests, GatewayStep(w)
    PROVE  GatewayInv'
<1>1. TypeOK /\ GatewayTypeOK
  BY DEF GatewayInv, GatewayTypeOK
<1>2. /\ job' = IF req'[w] = Idle THEN [job EXCEPT ![w] = NoJob] ELSE job
      /\ txns' = txns /\ gateway' = gateway /\ logs' = logs /\ ledger' = ledger
  BY DEF GatewayStep
<1>3. Busy(w)
  BY DEF GatewayStep, Pays, Touches, Moves, Queries, Settles, Refused
<1>4. req[w] # Idle /\ req[w].script # <<>>
  BY <1>3 DEF Busy, Idle
<1>5. PaysNothing(req[w]) =>
        /\ NoPay(req[w].script) /\ NoPay(req[w].handler) /\ NoPay(Tail(req[w].script))
        /\ Now(w).do \notin PayStatements /\ "payment" \notin req[w].wrote
  BY <1>1, <1>4, NoPayOf, NoPayTail DEF Now, PaysNothing
<1>6. CASE Pays(w) \/ Touches(w) \/ Moves(w) \/ Settles(w)
  <2>1. /\ UNCHANGED orderVars
        /\ Now(w).do \in OnRow => \A v \in Requests \ {w} : ~HasRow(v)
    BY <1>1, <1>6, StatementStep
  <2>2. PICK q : /\ IsRequest(q) /\ req' = [req EXCEPT ![w] = q]
                 /\ q.script = Tail(req[w].script) /\ q.handler = req[w].handler
                 /\ q.locked = req[w].locked
                 /\ IF Now(w).do \in OnRow THEN q.wrote # {} /\ req[w].wrote \subseteq q.wrote
                    ELSE q.wrote = req[w].wrote
                 /\ "payment" \in q.wrote => "payment" \in req[w].wrote \/ Now(w).do \in {"pay", "all"}
    BY <1>1, <1>6, StatementStep
  <2>3. PaysNothing(req[w]) => PaysNothing(q)
    <3> SUFFICES ASSUME PaysNothing(req[w]) PROVE PaysNothing(q)
      OBVIOUS
    <3>1. NoPay(q.script) /\ NoPay(q.handler) /\ "payment" \notin q.wrote
      BY <1>5, <2>2 DEF PayStatements
    <3> QED
      BY <3>1, PaysNothingOf
  <2>4. q.wrote = req[w].wrote \/ \A v \in Requests \ {w} : ~HasRow(v)
    BY <2>1, <2>2
  <2> QED
    BY <1>2, <1>4, <2>1, <2>2, <2>3, <2>4, RequestGoesOn
<1>7. CASE Queries(w)
  <2>1. UNCHANGED orderVars
    BY <1>1, <1>7, QueryStep
  <2>2. PICK q :
          /\ IsRequest(q) /\ req' = [req EXCEPT ![w] = q]
          /\ q.script \in Seq(Steps)
          /\ \E f \in Seq(Steps) :
               /\ \A i \in DOMAIN f : f[i].do \in OnLine /\ f[i].arg \in ActiveLines
               /\ \A k \in ActiveLines : \E i \in DOMAIN f : f[i].arg = k
               /\ q.script = f \o Tail(req[w].script)
          /\ q.handler = req[w].handler /\ q.base = req[w].base
          /\ q.locked = req[w].locked /\ q.copy = req[w].copy /\ q.wrote = req[w].wrote
          /\ q.trail = req[w].trail /\ q.settled = req[w].settled
    BY <1>1, <1>7, QueryStep
  <2>3. PaysNothing(req[w]) => PaysNothing(q)
    <3> SUFFICES ASSUME PaysNothing(req[w]) PROVE PaysNothing(q)
      OBVIOUS
    <3>1. PICK f \in Seq(Steps) :
            /\ \A i \in DOMAIN f : f[i].do \in OnLine
            /\ q.script = f \o Tail(req[w].script)
      BY <2>2
    <3>2. NoPay(f)
      BY <3>1 DEF NoPay, OnLine, PayStatements
    <3>3. NoPay(q.script)
      BY <1>5, <3>1, <3>2, NoPayJoined
    <3>4. NoPay(q.handler) /\ "payment" \notin q.wrote
      BY <1>5, <2>2
    <3> QED
      BY <3>3, <3>4, PaysNothingOf
  <2> QED
    BY <1>2, <1>4, <2>1, <2>2, <2>3, RequestGoesOn
<1>8. CASE Refused(w)
  <2>1. RollsBack(w)
    BY <1>8 DEF Refused
  <2>2. UNCHANGED orderVars
    BY <1>1, <2>1, RollBackStep
  <2>3. PICK q : /\ IsRequest(q) /\ req' = [req EXCEPT ![w] = q]
                 /\ \/ q = Idle
                    \/ /\ q.script = req[w].handler /\ q.handler = <<>>
                       /\ q.locked = req[w].locked /\ q.wrote = {}
    BY <1>1, <2>1, RollBackStep
  <2>4. PaysNothing(req[w]) => PaysNothing(q)
    <3>1. CASE q = Idle
      BY <3>1, IdlePaysNothing
    <3>2. CASE q # Idle
      <4> SUFFICES ASSUME PaysNothing(req[w]) PROVE PaysNothing(q)
        OBVIOUS
      <4>1. NoPay(q.script) /\ NoPay(q.handler) /\ "payment" \notin q.wrote
        BY <1>5, <2>3, <3>2, NoPayScripts
      <4> QED
        BY <4>1, PaysNothingOf
    <3> QED
      BY <3>1, <3>2
  <2>5. q.wrote = {} /\ (q # Idle => q.locked = req[w].locked)
    BY <2>3 DEF Idle
  <2> QED
    BY <1>2, <1>4, <2>2, <2>3, <2>4, <2>5, RequestGoesOn
<1> QED
  BY <1>6, <1>7, <1>8 DEF GatewayStep

LEMMA GatewayDiesKeeps ==
    ASSUME GatewayInv, NEW w \in Requests, GatewayDies(w)
    PROVE  GatewayInv'
<1>1. /\ req' = [req EXCEPT ![w] = Idle] /\ job' = [job EXCEPT ![w] = NoJob]
      /\ UNCHANGED <<orderVars, txns, gateway, logs, ledger>>
  BY DEF GatewayDies, Ends
<1>2. IsRequest(Idle) /\ ~Row(Idle) /\ PaysNothing(Idle)
  BY IdleRequest, IdlePaysNothing
<1> QED
  BY <1>1, <1>2, NoJobTyped, OrderStep

\* COMMIT: a tender is added to the empty ledger, by the one request that holds the row.
LEMMA GatewayCommitsKeeps ==
    ASSUME GatewayInv, NEW w \in Requests, GatewayCommits(w)
    PROVE  GatewayInv'
<1>1. TypeOK /\ GatewayTypeOK /\ Commits(w) /\ job[w] \in Jobs
  BY JobTyped DEF GatewayInv, GatewayTypeOK, GatewayCommits
<1>2. TypeOK' /\ Busy(w)
  BY <1>1, CommitStep
<1>3. PICK q : /\ req'[w] = q /\ \A v \in Requests \ {w} : req'[v] = req[v]
               /\ \/ q = Idle
                  \/ /\ q.script = Tail(req[w].script) /\ q.handler = req[w].handler
                     /\ q.locked = FALSE /\ q.wrote = {}
  BY <1>1, CommitStep
<1>4. req[w] # Idle /\ req[w].script # <<>>
  BY <1>2 DEF Busy, Idle
<1>5. /\ job' = [job EXCEPT ![w] = NoJob] /\ gateway' = gateway
      /\ txns' = txns \/ txns' = Written(w)
      /\ DOMAIN logs' = DOMAIN logs
      /\ ledger' = ledger \/ (job[w].phase = "tender" /\ ledger' = ledger \cup {job[w].ref})
  <2>1. DOMAIN Logged(w) = DOMAIN logs
    BY LoggedSame
  <2> QED
    BY <2>1 DEF GatewayCommits, Ends
<1>6. /\ job' \in [Requests -> Jobs] /\ job'[w] = NoJob
      /\ \A v \in Requests \ {w} : job'[v] = job[v]
  BY <1>1, <1>5, NoJobTyped, JobReplaced
<1>7. job[w].phase = "tender" => req[w].locked /\ ledger = {} /\ job[w].want = "success"
  BY <1>4 DEF GatewayInv, TendersUnderLock
<1>8. GatewayTypeOK'
  <2>1. txns' \in Seq(TxnStatuses) /\ Len(txns') = Len(txns)
    BY <1>1, <1>5, WrittenTyped DEF GatewayTypeOK
  <2>2. DOMAIN txns' = DOMAIN txns
    BY <1>1, <2>1, AttemptsTyped
  <2> QED
    BY <1>1, <1>2, <1>5, <1>6, <2>1, <2>2 DEF GatewayTypeOK, Events, Attempts, Jobs
<1>9. (\A u, v \in Requests : HasRow(u) /\ HasRow(v) => u = v)'
  <2>1. ~Row(q)
    BY <1>3, IdlePaysNothing DEF Row
  <2> QED
    BY <1>3, <2>1 DEF GatewayInv, HasRow, Row
<1>10. (\A v \in Requests : TendersUnderLock(v))'
  <2>1. ASSUME NEW v \in Requests
        PROVE  /\ job'[v].phase = "tender" =>
                    job'[v].want = "success" /\ (req'[v] # Idle => req'[v].locked /\ ledger' = {})
               /\ job'[v].want = "success" /\ req'[v] # Idle => job'[v].phase = "tender"
    <3>1. CASE v = w
      BY <1>6, <3>1, NoJobTyped
    <3>2. CASE v # w
      <4>1. job'[v] = job[v] /\ req'[v] = req[v]
        BY <1>3, <1>6, <3>2
      <4>2. req[v].locked => ledger' = ledger
        BY <1>5, <1>7, <3>2 DEF GatewayInv, HasRow
      <4> QED
        BY <4>1, <4>2 DEF GatewayInv, TendersUnderLock
    <3> QED
      BY <3>1, <3>2
  <2> QED
    BY <2>1 DEF TendersUnderLock, Idle
<1>11. (ledger = {} \/ \E ref \in References \cup {Nothing} : ledger = {ref})'
  <2>1. CASE ledger' = ledger
    BY <2>1 DEF GatewayInv, References
  <2>2. CASE ledger' # ledger
    <3>1. ledger' = {job[w].ref} /\ job[w].ref \in References \cup {Nothing}
      BY <1>1, <1>5, <1>7, <2>2, JobTyped
    <3> QED
      BY <3>1 DEF References
  <2> QED
    BY <2>1, <2>2
<1>12. (Captured \/ NothingPaidYet)'
  <2>1. CASE Captured
    BY <1>5, <2>1 DEF Captured
  <2>2. CASE NothingPaidYet
    <3>1. job[w].phase # "tender" /\ ledger' = {}
      BY <1>5, <1>7, <2>2 DEF NothingPaidYet
    <3>2. PaysNothing(req[w])
      BY <2>2 DEF NothingPaidYet
    <3>3. order.payment' = order.payment
      BY <1>1, <3>2 DEF Commits, Wrote, PaysNothing
    <3>4. PaysNothing(q)
      <4>1. NoPay(req[w].script) /\ NoPay(req[w].handler) /\ NoPay(Tail(req[w].script))
        BY <1>1, <1>4, <3>2, NoPayOf, NoPayTail
      <4>2. CASE q = Idle
        BY <4>2, IdlePaysNothing
      <4>3. CASE q # Idle
        <5>1. NoPay(q.script) /\ NoPay(q.handler) /\ "payment" \notin q.wrote
          BY <1>3, <4>1, <4>3
        <5> QED
          BY <5>1, PaysNothingOf
      <4> QED
        BY <4>2, <4>3
    <3>5. \A v \in Requests : job'[v].want # "success" /\ PaysNothing(req'[v])
      BY <1>3, <1>6, <2>2, <3>4, NoJobTyped DEF NothingPaidYet
    <3>6. (\A v \in Requests : job[v].want # "success" /\ PaysNothing(req[v]))'
      BY <3>5 DEF PaysNothing
    <3> QED
      BY <1>5, <2>2, <3>1, <3>3, <3>6 DEF NothingPaidYet
  <2> QED
    BY <2>1, <2>2 DEF GatewayInv
<1> QED
  BY <1>8, <1>9, <1>10, <1>11, <1>12 DEF GatewayInv

-----------------------------------------------------------------------------
(* The invariant.                                                           *)

LEMMA GatewayInitial == GatewayInit => GatewayInv
<1> SUFFICES ASSUME GatewayInit PROVE GatewayInv
  OBVIOUS
<1>1. /\ Init /\ txns = <<>> /\ gateway = <<>> /\ DOMAIN logs = {} /\ ledger = {}
      /\ job = [w \in Requests |-> NoJob] /\ req = [w \in Requests |-> Idle]
      /\ order.payment = "pending"
  BY DEF GatewayInit, Init
<1>2. TypeOK
  <2>1. \A w \in Requests : IsRequest(req[w])
    BY <1>1, IdleRequest
  <2> QED
    BY <1>1, <2>1 DEF Init, TypeOK, Statuses, PaymentStatuses
<1>3. GatewayTypeOK
  BY <1>1, <1>2, NoJobTyped, AttemptsAssumption DEF GatewayTypeOK
<1>4. \A w \in Requests : ~HasRow(w) /\ TendersUnderLock(w) /\ PaysNothing(req[w])
  BY <1>1, NoJobTyped, IdlePaysNothing DEF HasRow, Row, TendersUnderLock
<1>5. NothingPaidYet
  BY <1>1, <1>4, NoJobTyped DEF NothingPaidYet
<1> QED
  BY <1>1, <1>3, <1>4, <1>5 DEF GatewayInv

LEMMA GatewayStutters ==
    ASSUME GatewayInv, UNCHANGED allVars
    PROVE  GatewayInv'
<1>1. /\ UNCHANGED orderVars /\ req' = req /\ txns' = txns /\ gateway' = gateway /\ logs' = logs
      /\ ledger' = ledger /\ job' = job
  BY DEF allVars, orderVars
<1>2. /\ txns' \in Seq(TxnStatuses) /\ gateway' \in Seq(GatewayStatuses)
      /\ Len(gateway') = Len(txns') /\ Len(txns) <= Len(txns') /\ Len(txns') <= MaxAttempts
      /\ DOMAIN logs' \subseteq Events /\ job' \in [Requests -> Jobs]
  BY <1>1, AttemptsTyped DEF GatewayInv, GatewayTypeOK
<1>3. Captured' = Captured
  BY <1>1 DEF Captured
<1>4. /\ Captured => Captured'
      /\ Captured' \/ \A e \in DOMAIN logs' : e.says # "success"
      /\ Captured' \/ \A v \in Requests : job'[v].want # "success"
  BY <1>1, <1>3 DEF GatewayInv, NothingPaidYet
<1> QED
  BY <1>1, <1>2, <1>4, TaskStep

LEMMA GatewayNextKeeps == GatewayInv /\ [GatewayNext]_allVars => GatewayInv'
<1> SUFFICES ASSUME GatewayInv, [GatewayNext]_allVars PROVE GatewayInv'
  OBVIOUS
<1>1. CASE UNCHANGED allVars
  BY <1>1, GatewayStutters
<1>2. CASE InitiatePayment
  BY <1>2, InitiatesKeeps
<1>3. CASE \E a \in DOMAIN txns : Authorises(a) \/ Captures(a) \/ Fails(a)
  BY <1>3, NewsKeep
<1>4. ASSUME NEW w \in Requests, CancelUnpaid(w) PROVE GatewayInv'
  BY <1>4, BeginningsKeep
<1>5. ASSUME NEW w \in Requests,
             \/ \E e \in Events : Handles(w, e)
             \/ \E t \in DOMAIN txns : VerifyCheckoutPayment(w, t) \/ RetryPayment(w, t)
             \/ \E id \in {"payment", "order"} : ReconcileOrderPayment(w, id)
      PROVE  GatewayInv'
  BY <1>5, RoutesKeep
<1>6. ASSUME NEW w \in Requests, GatewayProceeds(w) PROVE GatewayInv'
  BY <1>6, TasksKeep, RecordsKeeps, BeginningsKeep, ReinitiatesKeeps, GatewayStepKeeps,
     GatewayCommitsKeeps DEF GatewayProceeds
<1>7. ASSUME NEW w \in Requests, GatewayDies(w) PROVE GatewayInv'
  BY <1>7, GatewayDiesKeeps
<1> QED
  BY <1>1, <1>2, <1>3, <1>4, <1>5, <1>6, <1>7 DEF GatewayNext

\* Webhooks in any order and number, returning customers, the reconciler and retries
\* keep the transactions, the ledger and the order as GatewayInv says, whatever fails or
\* is killed between two of their statements.
THEOREM GatewayInvariance == GatewaySpec => []GatewayInv
BY GatewayInitial, GatewayNextKeeps, PTL DEF GatewaySpec

\* The payments of one order are taken into the ledger once, however many of them the
\* gateway captures and by however many routes they are confirmed.
THEOREM PaymentsTakenOnce == GatewaySpec => []TakenOnce
<1>1. GatewayInv => TakenOnce
  <2> SUFFICES ASSUME GatewayInv PROVE TakenOnce
    OBVIOUS
  <2>1. CASE ledger = {}
    BY <2>1, FS_EmptySet DEF TakenOnce
  <2>2. ASSUME NEW ref, ledger = {ref} PROVE TakenOnce
    <3>1. Cardinality({ref}) = 1
      BY FS_Singleton
    <3> QED
      BY <2>2, <3>1 DEF TakenOnce
  <2> QED
    BY <2>1, <2>2 DEF GatewayInv
<1> QED
  BY <1>1, GatewayInvariance, PTL

\* No order is paid, and nothing is in the ledger, unless the gateway has captured a
\* payment, whichever transaction the webhook was applied to.
THEOREM OnlyCapturedIsPaid == GatewaySpec => []PaidIsCaptured
<1>1. GatewayInv => PaidIsCaptured
  BY DEF GatewayInv, PaidIsCaptured, NothingPaidYet, Captured
<1> QED
  BY <1>1, GatewayInvariance, PTL

-----------------------------------------------------------------------------
(* Codes: what is credited.                                                 *)

CreditedIn(cs) == SumOver([c \in DOMAIN cs |-> cs[c].credited], DOMAIN cs)

LEMMA CodesTyped ==
    ASSUME NEW cs \in Seq(Codes)
    PROVE  /\ DOMAIN cs = 1 .. Len(cs) /\ Len(cs) \in Nat /\ IsFiniteSet(DOMAIN cs)
           /\ \A c \in DOMAIN cs :
                /\ cs[c] \in Codes /\ cs[c].amount \in Nat \ {0} /\ cs[c].credited \in Nat
                /\ cs[c].excused \in BOOLEAN
<1>1. DOMAIN cs = 1 .. Len(cs) /\ Len(cs) \in Nat /\ \A c \in DOMAIN cs : cs[c] \in Codes
  OBVIOUS
<1>2. IsFiniteSet(1 .. Len(cs))
  BY <1>1, FS_Interval
<1> QED
  BY <1>1, <1>2 DEF Codes

LEMMA CreditsTyped ==
    ASSUME NEW cs \in Seq(Codes)
    PROVE  CreditedIn(cs) \in Nat
<1> DEFINE f == [c \in DOMAIN cs |-> cs[c].credited]
<1>1. IsFiniteSet(DOMAIN cs) /\ \A c \in DOMAIN cs : f[c] \in Nat
  BY CodesTyped
<1> HIDE DEF f
<1>2. SumOver(f, DOMAIN cs) \in Nat
  BY <1>1, SumType
<1> QED
  BY <1>2 DEF CreditedIn, f

LEMMA CreditsSame ==
    ASSUME NEW cs \in Seq(Codes), NEW ds \in Seq(Codes), Len(ds) = Len(cs),
           \A c \in DOMAIN cs : ds[c].credited = cs[c].credited
    PROVE  CreditedIn(ds) = CreditedIn(cs)
<1> DEFINE f == [c \in DOMAIN cs |-> cs[c].credited]
           g == [c \in DOMAIN ds |-> ds[c].credited]
<1>1. DOMAIN ds = DOMAIN cs
  BY CodesTyped
<1>2. \A c \in DOMAIN cs : f[c] = g[c]
  BY <1>1
<1> HIDE DEF f, g
<1>3. SumOver(f, DOMAIN cs) = SumOver(g, DOMAIN cs)
  BY <1>2, SumCongruent
<1> QED
  BY <1>1, <1>3 DEF CreditedIn, f, g

\* One code is credited.
LEMMA CreditsMore ==
    ASSUME NEW cs \in Seq(Codes), NEW ds \in Seq(Codes), Len(ds) = Len(cs), NEW c \in DOMAIN cs,
           \A d \in DOMAIN cs : d = c \/ ds[d].credited = cs[d].credited
    PROVE  CreditedIn(ds) = CreditedIn(cs) - cs[c].credited + ds[c].credited
<1> DEFINE f == [d \in DOMAIN cs |-> cs[d].credited]
           g == [d \in DOMAIN ds |-> ds[d].credited]
           rest == DOMAIN cs \ {c}
<1>1. /\ DOMAIN ds = DOMAIN cs /\ IsFiniteSet(DOMAIN cs)
      /\ \A d \in DOMAIN cs : cs[d].credited \in Nat /\ ds[d].credited \in Nat
  BY CodesTyped
<1>2. /\ \A d \in DOMAIN cs : f[d] \in Nat /\ g[d] \in Nat /\ (d = c \/ f[d] = g[d])
      /\ f[c] = cs[c].credited /\ g[c] = ds[c].credited
  BY <1>1
<1> HIDE DEF f, g
<1>3. /\ SumOver(f, DOMAIN cs) = SumOver(f, rest) + f[c]
      /\ SumOver(g, DOMAIN cs) = SumOver(g, rest) + g[c]
  <2>1. IsFiniteSet(DOMAIN cs) /\ c \in DOMAIN cs
    BY <1>1
  <2>2. \A d \in DOMAIN cs : f[d] \in Nat
    BY <1>2
  <2>3. \A d \in DOMAIN cs : g[d] \in Nat
    BY <1>2
  <2>4. SumOver(f, DOMAIN cs) = SumOver(f, DOMAIN cs \ {c}) + f[c]
    BY <2>1, <2>2, SumRemove
  <2>5. SumOver(g, DOMAIN cs) = SumOver(g, DOMAIN cs \ {c}) + g[c]
    BY <2>1, <2>3, SumRemove
  <2> QED
    BY <2>4, <2>5
<1>4. IsFiniteSet(rest)
  BY <1>1, FS_RemoveElement
<1>5. SumOver(f, rest) = SumOver(g, rest) /\ SumOver(f, rest) \in Nat
  <2>1. \A d \in rest : f[d] = g[d] /\ f[d] \in Nat
    BY <1>2
  <2> QED
    BY <1>4, <2>1, SumCongruent, SumType
<1> HIDE DEF rest
<1>6. SumOver(g, DOMAIN cs) = SumOver(f, DOMAIN cs) - f[c] + g[c]
  BY <1>2, <1>3, <1>5
<1> QED
  BY <1>1, <1>2, <1>6 DEF CreditedIn, f, g

\* A new code is not credited.
LEMMA CreditsAppended ==
    ASSUME NEW cs \in Seq(Codes), NEW ds \in Seq(Codes), Len(ds) = Len(cs) + 1,
           \A d \in DOMAIN cs : ds[d].credited = cs[d].credited,
           ds[Len(ds)].credited = 0
    PROVE  CreditedIn(ds) = CreditedIn(cs)
<1> DEFINE f == [d \in DOMAIN cs |-> cs[d].credited]
           g == [d \in DOMAIN ds |-> ds[d].credited]
           n == Len(ds)
<1>1. /\ DOMAIN cs = 1 .. Len(cs) /\ DOMAIN ds = 1 .. Len(cs) + 1 /\ Len(cs) \in Nat
      /\ IsFiniteSet(DOMAIN cs) /\ \A d \in DOMAIN cs : cs[d].credited \in Nat
  BY CodesTyped
<1>2. DOMAIN ds = DOMAIN cs \cup {n} /\ n \notin DOMAIN cs
  BY <1>1
<1>3. /\ \A d \in DOMAIN cs : g[d] = f[d] /\ g[d] \in Nat
      /\ g[n] = 0
  BY <1>1, <1>2
<1> HIDE DEF f, g, n
<1>4. SumOver(g, DOMAIN cs \cup {n}) = SumOver(g, DOMAIN cs) + g[n]
  BY <1>1, <1>2, <1>3, SumAdd
<1>5. SumOver(g, DOMAIN cs) = SumOver(f, DOMAIN cs) /\ SumOver(g, DOMAIN cs) \in Nat
  BY <1>1, <1>3, SumCongruent, SumType
<1> QED
  BY <1>2, <1>3, <1>4, <1>5 DEF CreditedIn, f, g

LEMMA TakenIs ==
    ASSUME CollectTypeOK
    PROVE  /\ Taken = byHand + CreditedIn(codes) /\ CreditedIn(codes) \in Nat /\ Taken \in Nat
           /\ StillDue = SaleTotal - Taken /\ StillDue \in Int
<1>1. Taken = byHand + CreditedIn(codes)
  BY DEF Taken, CreditedIn
<1>2. CreditedIn(codes) \in Nat /\ byHand \in Nat
  BY CreditsTyped DEF CollectTypeOK
<1> QED
  BY <1>1, <1>2, SaleTotalAssumption DEF StillDue

-----------------------------------------------------------------------------
(* Codes: steps that move no money.                                         *)

\* One request goes on; no code is added, and nothing is taken.
LEMMA CollectStep ==
    ASSUME CollectInv, CollectTypeOK', Len(codes') = Len(codes), byHand' = byHand,
           NEW w, \A v \in Tills \ {w} : errand'[v] = errand[v],
           \A c \in DOMAIN codes :
             /\ codes'[c].amount = codes[c].amount /\ codes'[c].credited = codes[c].credited
             /\ codes[c].excused => codes'[c].excused
             /\ codes[c].notice # "none" => codes'[c].notice # "none"
             /\ codes[c].shown = "paid" => codes'[c].shown = "paid"
             /\ codes'[c].notice # "none" => codes'[c].shown = "paid",
           \A c \in DOMAIN codes :
             ~codes'[c].excused =>
               /\ codes'[c].txn # "cancelled"
               /\ w \in Tills /\ Settling(w, c) => codes[c].credited = codes[c].amount \/ Settling(w, c)'
               /\ codes'[c].txn = "success" \/ codes'[c].notice = "processed" =>
                    \/ codes[c].txn = "success" \/ codes[c].notice = "processed"
                    \/ codes[c].credited = codes[c].amount
                    \/ \E v \in Tills : errand'[v].phase \in {"settle", "record"} /\ errand'[v].code = c,
           \A v \in Tills \ {w} :
             errand[v].phase = "ask" =>
               /\ codes'[errand[v].code].shown = "none" /\ codes'[errand[v].code].notice = "none"
               /\ w \in Tills => errand'[w].phase # "ask",
           w \in Tills => CounterErrandInv(w)' /\ WebhookErrandInv(w)'
    PROVE  CollectInv'
<1>1. /\ codes \in Seq(Codes) /\ codes' \in Seq(Codes) /\ DOMAIN codes' = DOMAIN codes
      /\ DOMAIN codes = 1 .. Len(codes) /\ Len(codes) \in Nat /\ CollectTypeOK
      /\ \A c \in DOMAIN codes : /\ codes[c].amount \in Nat \ {0} /\ codes[c].credited \in Nat
                                 /\ codes[c].excused \in BOOLEAN /\ codes'[c].excused \in BOOLEAN
  <2>1. codes \in Seq(Codes) /\ codes' \in Seq(Codes) /\ CollectTypeOK
    BY DEF CollectInv, CollectTypeOK
  <2> QED
    BY <2>1, CodesTyped
<1>2. Taken' = Taken /\ StillDue' = StillDue
  <2>1. CreditedIn(codes') = CreditedIn(codes)
    BY <1>1, CreditsSame
  <2> QED
    BY <1>1, <2>1 DEF Taken, StillDue, CreditedIn
<1>3. ASSUME NEW c \in DOMAIN codes, ~codes'[c].excused, Counts(c)
      PROVE  Counts(c)'
  <2>1. CASE codes[c].credited = codes[c].amount
    BY <1>3, <2>1 DEF Counts
  <2>2. ASSUME NEW v \in Tills, Settling(v, c)
        PROVE  Counts(c)'
    <3>1. CASE v = w
      BY <1>3, <2>2, <3>1 DEF Counts
    <3>2. CASE v # w
      BY <1>3, <2>2, <3>2 DEF Counts, Settling
    <3> QED
      BY <3>1, <3>2
  <2> QED
    BY <1>3, <2>1, <2>2 DEF Counts
<1>4. ASSUME NEW c \in DOMAIN codes PROVE CodeInv(c)'
  <2>1. CodeInv(c)
    BY <1>4 DEF CollectInv
  <2>2. /\ codes'[c].notice # "none" => codes'[c].shown = "paid"
        /\ codes'[c].credited > 0 => codes'[c].shown = "paid" /\ codes'[c].credited <= codes'[c].amount
    BY <2>1 DEF CodeInv
  <2>3. ~codes'[c].excused =>
          /\ c = Len(codes') /\ codes'[c].txn # "cancelled"
          /\ IF codes'[c].credited = 0 THEN codes'[c].amount <= StillDue'
             ELSE codes'[c].credited = codes'[c].amount
    BY <1>1, <1>2, <2>1 DEF CodeInv
  <2>4. ~codes'[c].excused /\ (codes'[c].txn = "success" \/ codes'[c].notice = "processed") => Counts(c)'
    <3> SUFFICES ASSUME ~codes'[c].excused, codes'[c].txn = "success" \/ codes'[c].notice = "processed"
                 PROVE  Counts(c)'
      OBVIOUS
    <3>1. CASE codes[c].txn = "success" \/ codes[c].notice = "processed"
      BY <1>3, <2>1, <3>1 DEF CodeInv
    <3>2. CASE codes[c].credited = codes[c].amount
      BY <3>2 DEF Counts
    <3>3. CASE \E v \in Tills : errand'[v].phase \in {"settle", "record"} /\ errand'[v].code = c
      BY <3>3 DEF Counts, Settling
    <3> QED
      BY <3>1, <3>2, <3>3
  <2> QED
    BY <2>2, <2>3, <2>4 DEF CodeInv
<1>5. ASSUME NEW v \in Tills PROVE CounterErrandInv(v)' /\ WebhookErrandInv(v)'
  <2>1. CASE v = w
    BY <2>1
  <2>2. CASE v # w
    <3>1. CounterErrandInv(v) /\ WebhookErrandInv(v) /\ errand'[v] = errand[v]
      BY <2>2 DEF CollectInv
    <3>2. CounterErrandInv(v)'
      BY <1>1, <1>2, <2>2, <3>1 DEF CounterErrandInv
    <3>3. WebhookErrandInv(v)'
      BY <1>1, <1>3, <3>1 DEF WebhookErrandInv
    <3> QED
      BY <3>2, <3>3
  <2> QED
    BY <2>1, <2>2
<1>6. (\A u, v \in Tills :
         errand[u].phase = "ask" /\ errand[v].phase = "ask" /\ errand[u].code = errand[v].code => u = v)'
  BY DEF CollectInv
<1> QED
  BY <1>1, <1>2, <1>4, <1>5, <1>6 DEF CollectInv

LEMMA CollectFacts ==
    ASSUME CollectInv
    PROVE  /\ CollectTypeOK
           /\ codes \in Seq(Codes) /\ DOMAIN codes = 1 .. Len(codes) /\ Len(codes) \in Nat
           /\ \A c \in DOMAIN codes : codes[c] \in Codes
           /\ errand \in [Tills -> Errands]
           /\ byHand \in Nat /\ voided \in BOOLEAN
           /\ Taken \in Nat /\ StillDue \in Nat /\ StillDue = SaleTotal - Taken
<1>1. /\ CollectTypeOK /\ Taken <= SaleTotal
      /\ codes \in Seq(Codes) /\ errand \in [Tills -> Errands] /\ byHand \in Nat /\ voided \in BOOLEAN
  BY DEF CollectInv, CollectTypeOK
<1>2. /\ DOMAIN codes = 1 .. Len(codes) /\ Len(codes) \in Nat
      /\ \A c \in DOMAIN codes : codes[c] \in Codes
  BY <1>1, CodesTyped
<1>3. Taken \in Nat /\ StillDue = SaleTotal - Taken
  BY <1>1, TakenIs
<1> QED
  BY <1>1, <1>2, <1>3, SaleTotalAssumption

LEMMA OneCodeSet ==
    ASSUME NEW cs \in Seq(Codes), NEW c \in DOMAIN cs, NEW x \in Codes
    PROVE  /\ [cs EXCEPT ![c] = x] \in Seq(Codes)
           /\ Len([cs EXCEPT ![c] = x]) = Len(cs)
           /\ [cs EXCEPT ![c] = x][c] = x
           /\ \A d \in DOMAIN cs \ {c} : [cs EXCEPT ![c] = x][d] = cs[d]
OBVIOUS

\* A step of one request that changes no code.
LEMMA ErrandStep ==
    ASSUME CollectInv, UNCHANGED <<codes, byHand, voided>>, NEW w \in Tills, NEW e \in Errands,
           errand' = [errand EXCEPT ![w] = e], e.phase # "ask",
           \A c \in DOMAIN codes :
             ~codes[c].excused /\ Settling(w, c) =>
               codes[c].credited = codes[c].amount \/ (e.phase \in {"settle", "record"} /\ e.code = c),
           CounterErrandInv(w)', WebhookErrandInv(w)'
    PROVE  CollectInv'
<1>1. /\ codes' = codes /\ Len(codes') = Len(codes) /\ byHand' = byHand /\ CollectTypeOK'
      /\ errand'[w] = e /\ \A v \in Tills \ {w} : errand'[v] = errand[v]
  BY CollectFacts DEF CollectTypeOK
<1>2. \A c \in DOMAIN codes :
        /\ codes[c].notice # "none" => codes[c].shown = "paid"
        /\ ~codes[c].excused => codes[c].txn # "cancelled"
  BY DEF CollectInv, CodeInv
<1>3. \A c \in DOMAIN codes :
        ~codes[c].excused /\ Settling(w, c) => codes[c].credited = codes[c].amount \/ Settling(w, c)'
  BY <1>1 DEF Settling
<1>4. \A v \in Tills : errand[v].phase = "ask" =>
        codes[errand[v].code].shown = "none" /\ codes[errand[v].code].notice = "none"
  BY DEF CollectInv, CounterErrandInv
<1> QED
  BY <1>1, <1>2, <1>3, <1>4, CollectStep

\* A step of one request, or of the customer, that changes one code.
LEMMA CodeStep ==
    ASSUME CollectInv, UNCHANGED <<byHand, voided>>, NEW w, NEW c \in DOMAIN codes, NEW x \in Codes,
           codes' = [codes EXCEPT ![c] = x],
           errand' \in [Tills -> Errands], \A v \in Tills \ {w} : errand'[v] = errand[v],
           x.amount = codes[c].amount /\ x.credited = codes[c].credited,
           codes[c].excused => x.excused,
           codes[c].notice # "none" => x.notice # "none",
           codes[c].shown = "paid" => x.shown = "paid",
           x.notice # "none" => x.shown = "paid",
           ~x.excused => x.txn # "cancelled",
           ~x.excused /\ (x.txn = "success" \/ x.notice = "processed") =>
             \/ codes[c].txn = "success" \/ codes[c].notice = "processed"
             \/ codes[c].credited = codes[c].amount
             \/ \E v \in Tills : errand'[v].phase \in {"settle", "record"} /\ errand'[v].code = c,
           \A v \in Tills \ {w} : errand[v].phase = "ask" /\ errand[v].code = c =>
             x.shown = "none" /\ x.notice = "none",
           w \in Tills =>
             /\ errand'[w].phase # "ask"
             /\ CounterErrandInv(w)' /\ WebhookErrandInv(w)'
             /\ \A d \in DOMAIN codes :
                  ~codes'[d].excused /\ Settling(w, d) =>
                    codes[d].credited = codes[d].amount \/ Settling(w, d)'
    PROVE  CollectInv'
<1>1. /\ Len(codes') = Len(codes) /\ byHand' = byHand /\ CollectTypeOK'
      /\ codes'[c] = x /\ \A d \in DOMAIN codes \ {c} : codes'[d] = codes[d]
  <2>1. codes \in Seq(Codes) /\ byHand \in Nat /\ voided \in BOOLEAN
    BY CollectFacts
  <2>2. codes' \in Seq(Codes)
    BY <2>1, OneCodeSet
  <2>3. /\ Len(codes') = Len(codes)
        /\ codes'[c] = x /\ \A d \in DOMAIN codes \ {c} : codes'[d] = codes[d]
    BY <2>1, OneCodeSet
  <2>4. CollectTypeOK'
    BY <2>1, <2>2 DEF CollectTypeOK
  <2> QED
    BY <2>3, <2>4
<1>2. \A d \in DOMAIN codes :
        /\ codes[d].notice # "none" => codes[d].shown = "paid"
        /\ ~codes[d].excused => codes[d].txn # "cancelled"
  BY DEF CollectInv, CodeInv
<1>3. \A d \in DOMAIN codes :
        /\ codes'[d].amount = codes[d].amount /\ codes'[d].credited = codes[d].credited
        /\ codes[d].excused => codes'[d].excused
        /\ codes[d].notice # "none" => codes'[d].notice # "none"
        /\ codes[d].shown = "paid" => codes'[d].shown = "paid"
        /\ codes'[d].notice # "none" => codes'[d].shown = "paid"
  <2> TAKE d \in DOMAIN codes
  <2>1. CASE d = c
    BY <1>1, <2>1
  <2>2. CASE d # c
    BY <1>1, <1>2, <2>2
  <2> QED
    BY <2>1, <2>2
<1>4. \A d \in DOMAIN codes :
        ~codes'[d].excused =>
          /\ codes'[d].txn # "cancelled"
          /\ w \in Tills /\ Settling(w, d) => codes[d].credited = codes[d].amount \/ Settling(w, d)'
          /\ codes'[d].txn = "success" \/ codes'[d].notice = "processed" =>
               \/ codes[d].txn = "success" \/ codes[d].notice = "processed"
               \/ codes[d].credited = codes[d].amount
               \/ \E v \in Tills : errand'[v].phase \in {"settle", "record"} /\ errand'[v].code = d
  <2> TAKE d \in DOMAIN codes
  <2>1. CASE d = c
    BY <1>1, <2>1
  <2>2. CASE d # c
    BY <1>1, <1>2, <2>2
  <2> QED
    BY <2>1, <2>2
<1>5. \A v \in Tills \ {w} :
        errand[v].phase = "ask" =>
          /\ codes'[errand[v].code].shown = "none" /\ codes'[errand[v].code].notice = "none"
          /\ w \in Tills => errand'[w].phase # "ask"
  <2> TAKE v \in Tills \ {w}
  <2>1. errand[v].phase = "ask" =>
          /\ errand[v].code \in DOMAIN codes
          /\ codes[errand[v].code].shown = "none" /\ codes[errand[v].code].notice = "none"
    BY DEF CollectInv, CounterErrandInv
  <2> QED
    BY <1>1, <2>1
<1> QED
  BY <1>1, <1>3, <1>4, <1>5, CollectStep

\* What a step may do to code c and its payment: x is what becomes of it.
CodeGoesOn(c, x) ==
    /\ x \in Codes /\ x.amount = codes[c].amount /\ x.credited = codes[c].credited
    /\ codes[c].excused => x.excused
    /\ codes[c].notice # "none" => x.notice # "none"
    /\ codes[c].shown = "paid" => x.shown = "paid"
    /\ x.notice # "none" => x.shown = "paid"
    /\ ~x.excused => x.txn # "cancelled"

ErrandGoesOn(w) == errand[w].phase # "ask" /\ CounterErrandInv(w) /\ WebhookErrandInv(w)

\* A step that works off no payment, and is no webhook's between its two statements.
LEMMA QuietStep ==
    ASSUME CollectInv, UNCHANGED <<byHand, voided>>, NEW w, NEW c \in DOMAIN codes, NEW x,
           codes' = [codes EXCEPT ![c] = x], CodeGoesOn(c, x),
           x.txn = "success" => codes[c].txn = "success",
           x.notice = "processed" => codes[c].notice = "processed",
           errand' \in [Tills -> Errands], \A v \in Tills \ {w} : errand'[v] = errand[v],
           \A v \in Tills \ {w} : errand[v].phase = "ask" /\ errand[v].code = c =>
             x.shown = "none" /\ x.notice = "none",
           w \in Tills => ErrandGoesOn(w)' /\ errand[w].phase \notin {"settle", "record"}
    PROVE  CollectInv'
<1>1. /\ x \in Codes /\ x.amount = codes[c].amount /\ x.credited = codes[c].credited
      /\ codes[c].excused => x.excused
      /\ codes[c].notice # "none" => x.notice # "none"
      /\ codes[c].shown = "paid" => x.shown = "paid"
      /\ x.notice # "none" => x.shown = "paid"
      /\ ~x.excused => x.txn # "cancelled"
  BY DEF CodeGoesOn
<1>2. w \in Tills =>
        /\ errand'[w].phase # "ask"
        /\ CounterErrandInv(w)' /\ WebhookErrandInv(w)'
        /\ \A d \in DOMAIN codes :
             ~codes'[d].excused /\ Settling(w, d) =>
               codes[d].credited = codes[d].amount \/ Settling(w, d)'
  BY DEF ErrandGoesOn, Settling
<1>3. ~x.excused /\ (x.txn = "success" \/ x.notice = "processed") =>
        \/ codes[c].txn = "success" \/ codes[c].notice = "processed"
        \/ codes[c].credited = codes[c].amount
        \/ \E v \in Tills : errand'[v].phase \in {"settle", "record"} /\ errand'[v].code = c
  OBVIOUS
<1> QED
  BY <1>1, <1>2, <1>3, CodeStep

LEMMA WaitingIs ==
    /\ Waiting \in Errands /\ Waiting.phase = "wait" /\ Waiting.code = 0 /\ Waiting.txn = 0
    /\ Waiting.due = 0 /\ Waiting.other = FALSE
BY DEF Waiting, Errands

\* A request that does one of these is no webhook's.
LEMMA IdleInv ==
    ASSUME NEW w \in Tills, errand[w].phase \in {"wait", "quote"}
    PROVE  CounterErrandInv(w) /\ WebhookErrandInv(w)
BY DEF CounterErrandInv, WebhookErrandInv

LEMMA CancelCollectionStep ==
    ASSUME CollectInv, NEW w \in Tills, NEW c \in DOMAIN codes, CancelCollection(w, c)
    PROVE  CollectInv'
<1>1. PICK shown \in IF codes[c].shown = "open" THEN {"open", "closed"} ELSE {codes[c].shown} :
        codes' = [codes EXCEPT ![c].shown = shown]
  BY DEF CancelCollection
<1>2. PICK x : x = [codes[c] EXCEPT !.shown = shown]
  OBVIOUS
<1>3. PICK e : e = [Waiting EXCEPT !.phase = "cancel", !.code = c, !.copy = codes[c].txn]
  OBVIOUS
<1>4. codes[c] \in Codes /\ c \in Nat /\ codes \in Seq(Codes) /\ errand \in [Tills -> Errands]
  BY CollectFacts
<1>5. /\ x \in Codes /\ x.shown = shown /\ x.txn = codes[c].txn /\ x.notice = codes[c].notice
      /\ x.amount = codes[c].amount /\ x.credited = codes[c].credited /\ x.excused = codes[c].excused
      /\ codes' = [codes EXCEPT ![c] = x]
  BY <1>1, <1>2, <1>4 DEF Codes
<1>6. e \in Errands /\ e.phase = "cancel" /\ e.code = c
  BY <1>3, <1>4, WaitingIs DEF Errands, Codes
<1>7. errand[w] = Waiting /\ codes[c].shown # "none" /\ errand' = [errand EXCEPT ![w] = e]
      /\ UNCHANGED <<byHand, voided>>
  BY <1>3 DEF CancelCollection
<1>8. errand' \in [Tills -> Errands] /\ errand'[w] = e /\ \A v \in Tills \ {w} : errand'[v] = errand[v]
  BY <1>4, <1>6, <1>7
<1>9. ErrandGoesOn(w)' /\ CounterErrandInv(w)' /\ WebhookErrandInv(w)'
  BY <1>1, <1>4, <1>6, <1>8 DEF ErrandGoesOn, CounterErrandInv, WebhookErrandInv
<1>10. CodeInv(c) /\ \A v \in Tills : CounterErrandInv(v)
  BY DEF CollectInv
<1>11. /\ codes[c].shown = "paid" => x.shown = "paid"
       /\ x.notice # "none" => x.shown = "paid"
       /\ ~x.excused => x.txn # "cancelled"
  BY <1>1, <1>5, <1>10 DEF CodeInv
<1>12. \A v \in Tills \ {w} : errand[v].phase = "ask" => errand[v].code # c
  BY <1>7, <1>10 DEF CounterErrandInv
<1>13. CodeGoesOn(c, x) /\ errand[w].phase \notin {"settle", "record"}
  BY <1>5, <1>7, <1>11, WaitingIs DEF CodeGoesOn
<1>14. /\ codes' = [codes EXCEPT ![c] = x]
       /\ x.txn = "success" => codes[c].txn = "success"
       /\ x.notice = "processed" => codes[c].notice = "processed"
       /\ errand' \in [Tills -> Errands] /\ \A v \in Tills \ {w} : errand'[v] = errand[v]
       /\ UNCHANGED <<byHand, voided>> /\ ErrandGoesOn(w)'
       /\ \A v \in Tills \ {w} : errand[v].phase = "ask" /\ errand[v].code = c =>
            x.shown = "none" /\ x.notice = "none"
  BY <1>5, <1>7, <1>8, <1>9, <1>12
<1> QED
  BY <1>13, <1>14, QuietStep

LEMMA SavesCancelledStep ==
    ASSUME CollectInv, NEW w \in Tills, SavesCancelled(w)
    PROVE  CollectInv'
<1>1. PICK c : c = errand[w].code
  OBVIOUS
<1>2. PICK e : e = [Waiting EXCEPT !.phase = "quote"]
  OBVIOUS
<1>3. /\ errand[w].phase = "cancel" /\ errand' = [errand EXCEPT ![w] = e]
      /\ UNCHANGED <<byHand, voided>>
      /\ \/ codes' = [codes EXCEPT ![c].txn = "cancelled", ![c].excused = TRUE]
         \/ UNCHANGED codes
  BY <1>1, <1>2 DEF SavesCancelled
<1>4. codes \in Seq(Codes) /\ errand \in [Tills -> Errands]
  BY CollectFacts
<1>5. \A v \in Tills : CounterErrandInv(v)
  BY DEF CollectInv
<1>6. c \in DOMAIN codes /\ codes[c] \in Codes
  BY <1>1, <1>3, <1>5, CollectFacts DEF CounterErrandInv
<1>7. e \in Errands /\ e.phase = "quote"
  BY <1>2, WaitingIs DEF Errands
<1>8. errand' \in [Tills -> Errands] /\ errand'[w] = e /\ \A v \in Tills \ {w} : errand'[v] = errand[v]
  BY <1>3, <1>4, <1>7
<1>9. ErrandGoesOn(w)' /\ CounterErrandInv(w)' /\ WebhookErrandInv(w)'
  BY <1>7, <1>8 DEF ErrandGoesOn, CounterErrandInv, WebhookErrandInv
<1>10. \A d \in DOMAIN codes : ~Settling(w, d)
  BY <1>3 DEF Settling
<1>11. CASE UNCHANGED codes
  BY <1>3, <1>7, <1>9, <1>10, <1>11, ErrandStep
<1>12. CASE codes' = [codes EXCEPT ![c].txn = "cancelled", ![c].excused = TRUE]
  <2>1. PICK x : x = [codes[c] EXCEPT !.txn = "cancelled", !.excused = TRUE]
    OBVIOUS
  <2>2. /\ x \in Codes /\ x.shown = codes[c].shown /\ x.notice = codes[c].notice /\ x.excused
        /\ x.amount = codes[c].amount /\ x.credited = codes[c].credited
        /\ codes' = [codes EXCEPT ![c] = x]
    BY <1>4, <1>6, <1>12, <2>1 DEF Codes
  <2>3. codes[c].notice # "none" => codes[c].shown = "paid"
    BY <1>6 DEF CollectInv, CodeInv
  <2>4. \A v \in Tills \ {w} : errand[v].phase = "ask" /\ errand[v].code = c =>
          codes[c].shown = "none" /\ codes[c].notice = "none"
    BY <1>5 DEF CounterErrandInv
  <2>5. CodeGoesOn(c, x) /\ x.txn = "cancelled"
    BY <2>1, <2>2, <2>3 DEF CodeGoesOn
  <2>6. /\ codes' = [codes EXCEPT ![c] = x]
        /\ x.txn # "success" /\ (x.notice = "processed" => codes[c].notice = "processed")
        /\ errand' \in [Tills -> Errands] /\ \A v \in Tills \ {w} : errand'[v] = errand[v]
        /\ UNCHANGED <<byHand, voided>> /\ ErrandGoesOn(w)'
        /\ \A v \in Tills \ {w} : errand[v].phase = "ask" /\ errand[v].code = c =>
             x.shown = "none" /\ x.notice = "none"
        /\ errand[w].phase \notin {"settle", "record"}
    BY <1>3, <1>8, <1>9, <2>2, <2>4, <2>5
  <2> QED
    BY <1>6, <2>5, <2>6, QuietStep
<1> QED
  BY <1>3, <1>11, <1>12

LEMMA CreateUpiCollectionStep ==
    ASSUME CollectInv, NEW w \in Tills, CreateUpiCollection(w)
    PROVE  CollectInv'
<1>1. PICK e : e = [Waiting EXCEPT !.phase = "quote"]
  OBVIOUS
<1>2. e \in Errands /\ e.phase = "quote"
  BY <1>1, WaitingIs DEF Errands
<1>3. errand \in [Tills -> Errands]
  BY CollectFacts
<1>4. errand[w] = Waiting /\ errand' = [errand EXCEPT ![w] = e] /\ UNCHANGED <<codes, byHand, voided>>
  BY <1>1, <1>3 DEF CreateUpiCollection, Goes
<1>5. errand'[w].phase = "quote" /\ CounterErrandInv(w)' /\ WebhookErrandInv(w)'
  BY <1>2, <1>3, <1>4 DEF CounterErrandInv, WebhookErrandInv
<1>6. \A d \in DOMAIN codes : ~Settling(w, d)
  BY <1>4, WaitingIs DEF Settling
<1> QED
  BY <1>2, <1>4, <1>5, <1>6, ErrandStep

LEMMA ReadsQuoteStep ==
    ASSUME CollectInv, NEW w \in Tills, ReadsQuote(w)
    PROVE  CollectInv'
<1>1. PICK e : e = [Waiting EXCEPT !.phase = "create", !.due = StillDue]
  OBVIOUS
<1>2. StillDue \in Nat /\ errand \in [Tills -> Errands]
  BY CollectFacts
<1>3. e \in Errands /\ e.phase = "create" /\ e.due = StillDue
  BY <1>1, <1>2, WaitingIs DEF Errands
<1>4. errand[w].phase = "quote" /\ UNCHANGED <<codes, byHand, voided>>
  BY DEF ReadsQuote
<1>5. \A d \in DOMAIN codes : ~Settling(w, d)
  BY <1>4 DEF Settling
<1>6. StillDue' = StillDue
  BY <1>4 DEF StillDue, Taken
<1>7. CASE StillDue = 0
  <2>1. errand' = [errand EXCEPT ![w] = Waiting]
    BY <1>7 DEF ReadsQuote, Rests
  <2>2. CounterErrandInv(w)' /\ WebhookErrandInv(w)'
    BY <1>2, <2>1, WaitingIs DEF CounterErrandInv, WebhookErrandInv
  <2> QED
    BY <1>4, <1>5, <2>1, <2>2, WaitingIs, ErrandStep
<1>8. CASE StillDue # 0
  <2>1. errand' = [errand EXCEPT ![w] = e]
    BY <1>1, <1>8 DEF ReadsQuote, Quoted
  <2>2. errand'[w] = e
    BY <1>2, <2>1
  <2>3. CounterErrandInv(w)' /\ WebhookErrandInv(w)'
    BY <1>2, <1>3, <1>6, <1>8, <2>2 DEF CounterErrandInv, WebhookErrandInv
  <2> QED
    BY <1>3, <1>4, <1>5, <2>1, <2>3, ErrandStep
<1> QED
  BY <1>7, <1>8

LEMMA AsksProviderStep ==
    ASSUME CollectInv, NEW w \in Tills, AsksProvider(w)
    PROVE  CollectInv'
<1>1. PICK c : c = errand[w].code
  OBVIOUS
<1>2. /\ errand[w].phase = "ask" /\ errand' = [errand EXCEPT ![w] = Waiting]
      /\ UNCHANGED <<byHand, voided>>
      /\ \/ codes' = [codes EXCEPT ![c].txn = "pending", ![c].shown = "open"]
         \/ codes' = [codes EXCEPT ![c].txn = "failed"]
  BY <1>1 DEF AsksProvider, Rests
<1>3. codes \in Seq(Codes) /\ errand \in [Tills -> Errands]
  BY CollectFacts
<1>4. c \in DOMAIN codes /\ codes[c].shown = "none" /\ codes[c].notice = "none"
  BY <1>1, <1>2 DEF CollectInv, CounterErrandInv
<1>5. codes[c] \in Codes
  BY <1>4, CollectFacts
<1>6. PICK x : x = IF codes' = [codes EXCEPT ![c].txn = "failed"] THEN [codes[c] EXCEPT !.txn = "failed"]
                   ELSE [codes[c] EXCEPT !.txn = "pending", !.shown = "open"]
  OBVIOUS
<1>7. /\ x \in Codes /\ x.txn \in {"pending", "failed"} /\ x.notice = codes[c].notice
      /\ x.excused = codes[c].excused
      /\ x.amount = codes[c].amount /\ x.credited = codes[c].credited
      /\ codes' = [codes EXCEPT ![c] = x]
  BY <1>2, <1>3, <1>4, <1>5, <1>6 DEF Codes
<1>8. /\ errand' \in [Tills -> Errands] /\ errand'[w].phase = "wait"
      /\ \A v \in Tills \ {w} : errand'[v] = errand[v]
  BY <1>2, <1>3, WaitingIs
<1>9. ErrandGoesOn(w)' /\ CounterErrandInv(w)' /\ WebhookErrandInv(w)'
  BY <1>8 DEF ErrandGoesOn, CounterErrandInv, WebhookErrandInv
<1>10. \A d \in DOMAIN codes : ~Settling(w, d)
  BY <1>2 DEF Settling
<1>11. \A v \in Tills \ {w} : errand[v].phase = "ask" => errand[v].code # c
  BY <1>1, <1>2 DEF CollectInv
<1>12. CodeGoesOn(c, x)
  BY <1>4, <1>7 DEF CodeGoesOn
<1> QED
  BY <1>2, <1>4, <1>7, <1>8, <1>9, <1>11, <1>12, QuietStep

LEMMA PaysCodeStep ==
    ASSUME CollectInv, NEW c \in DOMAIN codes, PaysCode(c) \/ Expires(c)
    PROVE  CollectInv'
<1>1. PICK w : w \notin Tills
  BY NoSetContainsEverything
<1>2. codes \in Seq(Codes) /\ errand \in [Tills -> Errands] /\ codes[c] \in Codes
  BY CollectFacts
<1>3. PICK x : x = IF PaysCode(c) THEN [codes[c] EXCEPT !.shown = "paid", !.notice = "new"]
                   ELSE [codes[c] EXCEPT !.shown = "closed"]
  OBVIOUS
<1>4. codes[c].shown = "open" /\ codes' = [codes EXCEPT ![c] = x] /\ UNCHANGED <<byHand, voided, errand>>
  BY <1>2, <1>3 DEF PaysCode, Expires
<1>5. codes[c].notice = "none" /\ (codes[c].excused \/ codes[c].txn # "cancelled")
  BY <1>4 DEF CollectInv, CodeInv
<1>6. /\ CodeGoesOn(c, x)
      /\ x.txn = "success" => codes[c].txn = "success"
      /\ x.notice = "processed" => codes[c].notice = "processed"
  BY <1>2, <1>3, <1>4, <1>5 DEF CodeGoesOn, Codes
<1>7. \A v \in Tills \ {w} : errand[v].phase = "ask" /\ errand[v].code = c =>
        x.shown = "none" /\ x.notice = "none"
  BY <1>4 DEF CollectInv, CounterErrandInv
<1>8. /\ errand' \in [Tills -> Errands] /\ \A v \in Tills \ {w} : errand'[v] = errand[v]
      /\ w \in Tills => ErrandGoesOn(w)' /\ errand[w].phase \notin {"settle", "record"}
  BY <1>1, <1>2, <1>4
<1>9. UNCHANGED <<byHand, voided>>
  BY <1>4
<1> QED
  BY <1>4, <1>6, <1>7, <1>8, <1>9, QuietStep

-----------------------------------------------------------------------------
(* Codes: the webhook's statements.                                         *)

LEMMA HandlesNoticeStep ==
    ASSUME CollectInv, NEW w \in Tills, NEW c \in DOMAIN codes, HandlesNotice(w, c)
    PROVE  CollectInv'
<1>1. PICK t : t = Len(codes)
  OBVIOUS
<1>2. PICK s : s = [Waiting EXCEPT !.phase = "save", !.code = c, !.txn = t]
  OBVIOUS
<1>3. PICK l : l = [Waiting EXCEPT !.phase = "log", !.code = c]
  OBVIOUS
<1>4. /\ codes \in Seq(Codes) /\ errand \in [Tills -> Errands]
      /\ c \in Nat /\ t \in Nat /\ t \in DOMAIN codes /\ codes[t] \in Codes
  BY <1>1, CollectFacts
<1>5. /\ s \in Errands /\ s.phase = "save" /\ s.code = c /\ s.txn = t
      /\ l \in Errands /\ l.phase = "log" /\ l.code = c
  BY <1>2, <1>3, <1>4, WaitingIs DEF Errands
<1>6. /\ errand[w] = Waiting /\ codes[c].notice \in {"new", "failed"}
      /\ UNCHANGED <<codes, byHand, voided>>
      /\ IF Credits(t, c) THEN errand' = [errand EXCEPT ![w] = s] ELSE errand' = [errand EXCEPT ![w] = l]
  BY <1>1, <1>2, <1>3 DEF HandlesNotice
<1>7. \A d \in DOMAIN codes : ~Settling(w, d)
  BY <1>6, WaitingIs DEF Settling
<1>8. CASE Credits(t, c)
  <2>1. errand'[w] = s /\ errand' = [errand EXCEPT ![w] = s]
    BY <1>4, <1>6, <1>8
  <2>2. CounterErrandInv(w)' /\ WebhookErrandInv(w)'
    BY <1>4, <1>5, <1>6, <1>8, <2>1 DEF CounterErrandInv, WebhookErrandInv, Credits
  <2> QED
    BY <1>5, <1>6, <1>7, <2>1, <2>2, ErrandStep
<1>9. CASE ~Credits(t, c)
  <2>1. errand'[w] = l /\ errand' = [errand EXCEPT ![w] = l]
    BY <1>4, <1>6, <1>9
  <2>2. ~codes[c].excused => Counts(c)
    <3>1. SUFFICES ASSUME ~codes[c].excused PROVE Counts(c)
      OBVIOUS
    <3>2. c = t /\ codes[c].txn # "cancelled" /\ (codes[c].txn = "success" => Counts(c))
      BY <1>1, <3>1 DEF CollectInv, CodeInv
    <3>3. codes[c].txn = "success"
      BY <1>4, <1>9, <3>2 DEF Credits, Codes
    <3> QED
      BY <3>2, <3>3
  <2>3. Counts(c) => Counts(c)'
    <3>1. \A v \in Tills : Settling(v, c) => Settling(v, c)'
      BY <1>4, <1>6, <1>7, <2>1 DEF Settling
    <3> QED
      BY <1>6, <3>1 DEF Counts
  <2>4. CounterErrandInv(w)' /\ WebhookErrandInv(w)'
    BY <1>5, <1>6, <2>1, <2>2, <2>3 DEF CounterErrandInv, WebhookErrandInv
  <2> QED
    BY <1>5, <1>6, <1>7, <2>1, <2>4, ErrandStep
<1> QED
  BY <1>8, <1>9

LEMMA ReadsAppliedStep ==
    ASSUME CollectInv, NEW w \in Tills, ReadsApplied(w)
    PROVE  CollectInv'
<1>1. PICK c : c = errand[w].code
  OBVIOUS
<1>2. PICK a : a = codes[errand[w].txn].amount
  OBVIOUS
<1>3. PICK due : due = IF a < StillDue THEN a ELSE StillDue
  OBVIOUS
<1>4. PICK l : l = [Waiting EXCEPT !.phase = "log", !.code = c]
  OBVIOUS
<1>5. PICK e : e = [errand[w] EXCEPT !.phase = "record", !.txn = 0, !.due = due]
  OBVIOUS
<1>6. errand[w].phase = "settle" /\ UNCHANGED <<codes, byHand, voided>>
  BY DEF ReadsApplied
<1>7. /\ codes \in Seq(Codes) /\ errand \in [Tills -> Errands] /\ errand[w] \in Errands
      /\ StillDue \in Nat /\ StillDue' = StillDue
  BY <1>6, CollectFacts DEF StillDue, Taken
<1>8. WebhookErrandInv(w)
  BY DEF CollectInv
<1>9. c \in DOMAIN codes /\ codes[c].notice # "none" /\ a = codes[c].amount
  BY <1>1, <1>2, <1>6, <1>8 DEF WebhookErrandInv
<1>10. c \in Nat /\ codes[c] \in Codes /\ a \in Nat \ {0} /\ CodeInv(c)
  BY <1>9, CollectFacts DEF CollectInv, Codes
<1>11. due \in Nat /\ due <= a /\ (StillDue # 0 => 0 < due)
  BY <1>3, <1>7, <1>10
<1>12. CASE StillDue = 0
  <2>1. errand' = [errand EXCEPT ![w] = l] /\ errand'[w] = l
    BY <1>1, <1>4, <1>7, <1>12 DEF ReadsApplied, Logs
  <2>2. l \in Errands /\ l.phase = "log" /\ l.code = c
    BY <1>4, <1>10, WaitingIs DEF Errands
  <2>3. ~codes[c].excused => codes[c].credited = codes[c].amount
    BY <1>9, <1>10, <1>12 DEF CodeInv
  <2>4. CounterErrandInv(w)' /\ WebhookErrandInv(w)'
    BY <1>6, <1>9, <2>1, <2>2, <2>3 DEF CounterErrandInv, WebhookErrandInv, Counts
  <2>5. \A d \in DOMAIN codes :
          ~codes[d].excused /\ Settling(w, d) =>
            codes[d].credited = codes[d].amount \/ (l.phase \in {"settle", "record"} /\ l.code = d)
    BY <1>1, <2>3 DEF Settling
  <2> QED
    BY <1>6, <2>1, <2>2, <2>4, <2>5, ErrandStep
<1>13. CASE StillDue # 0
  <2>1. errand' = [errand EXCEPT ![w] = e] /\ errand'[w] = e
    BY <1>2, <1>3, <1>5, <1>7, <1>13 DEF ReadsApplied
  <2>2. e \in Errands /\ e.phase = "record" /\ e.code = c /\ e.due = due
    BY <1>1, <1>5, <1>7, <1>11 DEF Errands
  <2>3. ~codes[c].excused /\ codes[c].credited = 0 => due = a
    BY <1>3, <1>7, <1>9, <1>10, <1>11 DEF CodeInv
  <2>4. CounterErrandInv(w)' /\ WebhookErrandInv(w)'
    BY <1>6, <1>9, <1>11, <1>13, <2>1, <2>2, <2>3 DEF CounterErrandInv, WebhookErrandInv
  <2>5. \A d \in DOMAIN codes :
          ~codes[d].excused /\ Settling(w, d) =>
            codes[d].credited = codes[d].amount \/ (e.phase \in {"settle", "record"} /\ e.code = d)
    BY <1>1, <2>2 DEF Settling
  <2> QED
    BY <1>6, <2>1, <2>2, <2>4, <2>5, ErrandStep
<1> QED
  BY <1>12, <1>13

\* A webhook's step that changes one code and credits nothing.
LEMMA WebhookStep ==
    ASSUME CollectInv, UNCHANGED <<byHand, voided>>, NEW w \in Tills, NEW c \in DOMAIN codes, NEW x,
           codes' = [codes EXCEPT ![c] = x], CodeGoesOn(c, x), x.shown = codes[c].shown,
           x.notice = codes[c].notice \/ codes[c].notice # "none",
           NEW e \in Errands, errand' = [errand EXCEPT ![w] = e], ErrandGoesOn(w)',
           ~x.excused /\ (x.txn = "success" \/ x.notice = "processed") =>
             \/ codes[c].txn = "success" \/ codes[c].notice = "processed"
             \/ codes[c].credited = codes[c].amount
             \/ \E v \in Tills \ {w} : Settling(v, c)
             \/ e.phase \in {"settle", "record"} /\ e.code = c,
           errand[w].phase \in {"settle", "record"} =>
             errand[w].code = c /\ (x.excused \/ codes[c].credited = codes[c].amount)
    PROVE  CollectInv'
<1>1. /\ x \in Codes /\ x.amount = codes[c].amount /\ x.credited = codes[c].credited
      /\ codes[c].excused => x.excused
      /\ codes[c].notice # "none" => x.notice # "none"
      /\ codes[c].shown = "paid" => x.shown = "paid"
      /\ x.notice # "none" => x.shown = "paid"
      /\ ~x.excused => x.txn # "cancelled"
  BY DEF CodeGoesOn
<1>2. codes \in Seq(Codes) /\ errand \in [Tills -> Errands]
  BY CollectFacts
<1>3. /\ errand' \in [Tills -> Errands] /\ \A v \in Tills \ {w} : errand'[v] = errand[v]
      /\ errand'[w] = e
  BY <1>2
<1>4. \A d \in DOMAIN codes :
        ~codes'[d].excused /\ Settling(w, d) =>
          codes[d].credited = codes[d].amount \/ Settling(w, d)'
  <2>1. codes'[c] = x
    BY <1>1, <1>2, OneCodeSet
  <2> QED
    BY <2>1 DEF Settling
<1>5. /\ errand'[w].phase # "ask"
      /\ CounterErrandInv(w)' /\ WebhookErrandInv(w)'
  BY DEF ErrandGoesOn
<1>6. ~x.excused /\ (x.txn = "success" \/ x.notice = "processed") =>
        \/ codes[c].txn = "success" \/ codes[c].notice = "processed"
        \/ codes[c].credited = codes[c].amount
        \/ \E v \in Tills : errand'[v].phase \in {"settle", "record"} /\ errand'[v].code = c
  <2>1. (\E v \in Tills \ {w} : Settling(v, c)) =>
          \E v \in Tills : errand'[v].phase \in {"settle", "record"} /\ errand'[v].code = c
    BY <1>3 DEF Settling
  <2>2. e.phase \in {"settle", "record"} /\ e.code = c =>
          \E v \in Tills : errand'[v].phase \in {"settle", "record"} /\ errand'[v].code = c
    BY <1>3
  <2> QED
    BY <2>1, <2>2
<1>7. \A v \in Tills \ {w} : errand[v].phase = "ask" /\ errand[v].code = c =>
        x.shown = "none" /\ x.notice = "none"
  BY DEF CollectInv, CounterErrandInv
<1>8. w \in Tills =>
        /\ errand'[w].phase # "ask"
        /\ CounterErrandInv(w)' /\ WebhookErrandInv(w)'
        /\ \A d \in DOMAIN codes :
             ~codes'[d].excused /\ Settling(w, d) =>
               codes[d].credited = codes[d].amount \/ Settling(w, d)'
  BY <1>4, <1>5
<1>9. /\ errand' \in [Tills -> Errands] /\ \A v \in Tills \ {w} : errand'[v] = errand[v]
  BY <1>3
<1>10. /\ x \in Codes /\ x.amount = codes[c].amount /\ x.credited = codes[c].credited
  BY <1>1
<1> QED
  BY <1>1, <1>6, <1>7, <1>8, <1>9, <1>10, CodeStep, ZenonT(60)

LEMMA SavesSuccessStep ==
    ASSUME CollectInv, NEW w \in Tills, SavesSuccess(w)
    PROVE  CollectInv'
<1>1. PICK t : t = errand[w].txn
  OBVIOUS
<1>2. PICK e : e = [errand[w] EXCEPT !.phase = "settle"]
  OBVIOUS
<1>3. errand[w].phase = "save" /\ UNCHANGED <<byHand, voided>>
  BY DEF SavesSuccess
<1>4. codes \in Seq(Codes) /\ errand \in [Tills -> Errands] /\ errand[w] \in Errands
  BY CollectFacts
<1>5. /\ t \in DOMAIN codes /\ codes[t].amount = codes[errand[w].code].amount
      /\ errand[w].code \in DOMAIN codes /\ codes[errand[w].code].notice # "none"
  BY <1>1, <1>3 DEF CollectInv, WebhookErrandInv
<1>6. codes[t] \in Codes /\ CodeInv(t)
  BY <1>5, CollectFacts DEF CollectInv
<1>7. PICK x : x = [codes[t] EXCEPT !.txn = "success", !.excused = @ \/ t # errand[w].code]
  OBVIOUS
<1>8. /\ codes' = [codes EXCEPT ![t] = x]
      /\ x \in Codes /\ x.txn = "success" /\ x.amount = codes[t].amount /\ x.credited = codes[t].credited
      /\ x.shown = codes[t].shown /\ x.notice = codes[t].notice
      /\ x.excused = (codes[t].excused \/ t # errand[w].code)
  BY <1>1, <1>4, <1>5, <1>6, <1>7 DEF SavesSuccess, Codes
<1>9. CodeGoesOn(t, x)
  BY <1>6, <1>8 DEF CodeGoesOn, CodeInv
<1>10. /\ e \in Errands /\ e.phase = "settle" /\ e.code = errand[w].code /\ e.txn = t
       /\ errand' = [errand EXCEPT ![w] = e] /\ errand'[w] = e
  BY <1>1, <1>2, <1>4 DEF SavesSuccess, Goes, Errands
<1>11. ErrandGoesOn(w)'
  <2>1. /\ DOMAIN codes' = DOMAIN codes
        /\ \A d \in DOMAIN codes : codes'[d].amount = codes[d].amount /\ codes'[d].notice = codes[d].notice
    BY <1>4, <1>5, <1>8
  <2> QED
    BY <1>5, <1>10, <2>1 DEF ErrandGoesOn, CounterErrandInv, WebhookErrandInv
<1>12. /\ ~x.excused => e.phase \in {"settle", "record"} /\ e.code = t
       /\ errand[w].phase \notin {"settle", "record"}
  BY <1>3, <1>8, <1>10
<1>13. codes' = [codes EXCEPT ![t] = x] /\ x.shown = codes[t].shown /\ x.notice = codes[t].notice
       /\ errand' = [errand EXCEPT ![w] = e] /\ e \in Errands
  BY <1>8, <1>10
<1> QED
  BY <1>3, <1>5, <1>9, <1>11, <1>12, <1>13, WebhookStep

LEMMA LogsNoticeStep ==
    ASSUME CollectInv, NEW w \in Tills, LogsNotice(w)
    PROVE  CollectInv'
<1>1. PICK c : c = errand[w].code
  OBVIOUS
<1>2. /\ errand[w].phase = "log" /\ UNCHANGED <<byHand, voided>>
      /\ errand' = [errand EXCEPT ![w] = Waiting]
  BY DEF LogsNotice, Rests
<1>3. codes \in Seq(Codes) /\ errand \in [Tills -> Errands]
  BY CollectFacts
<1>4. /\ c \in DOMAIN codes /\ codes[c].notice # "none"
      /\ ~codes[c].excused => Counts(c)
  BY <1>1, <1>2 DEF CollectInv, WebhookErrandInv
<1>5. codes[c] \in Codes /\ CodeInv(c)
  BY <1>4, CollectFacts DEF CollectInv
<1>6. PICK x : x = [codes[c] EXCEPT !.notice = "processed"]
  OBVIOUS
<1>7. /\ codes' = [codes EXCEPT ![c] = x]
      /\ x \in Codes /\ x.amount = codes[c].amount /\ x.credited = codes[c].credited
      /\ x.shown = codes[c].shown /\ x.txn = codes[c].txn /\ x.excused = codes[c].excused
      /\ x.notice = "processed"
  BY <1>1, <1>3, <1>5, <1>6 DEF LogsNotice, Codes
<1>8. CodeGoesOn(c, x)
  BY <1>4, <1>5, <1>7 DEF CodeGoesOn, CodeInv
<1>9. errand'[w] = Waiting
  BY <1>2, <1>3
<1>10. ErrandGoesOn(w)'
  BY <1>9, WaitingIs DEF ErrandGoesOn, CounterErrandInv, WebhookErrandInv
<1>11. ~x.excused => codes[c].credited = codes[c].amount \/ \E v \in Tills \ {w} : Settling(v, c)
  BY <1>2, <1>4, <1>7 DEF Counts, Settling
<1>12. codes' = [codes EXCEPT ![c] = x] /\ x.shown = codes[c].shown
  BY <1>7
<1>13. errand[w].phase \notin {"settle", "record"} /\ Waiting \in Errands
  BY <1>2, WaitingIs
<1> QED
  BY <1>2, <1>4, <1>8, <1>10, <1>11, <1>12, <1>13, WebhookStep

LEMMA GoesDownStep ==
    ASSUME CollectInv, NEW w \in Tills, GoesDown(w)
    PROVE  CollectInv'
<1>1. PICK c : c = errand[w].code
  OBVIOUS
<1>2. UNCHANGED <<byHand, voided>> /\ errand' = [errand EXCEPT ![w] = Waiting]
  BY DEF GoesDown, Rests
<1>3. codes \in Seq(Codes) /\ errand \in [Tills -> Errands]
  BY CollectFacts
<1>4. errand'[w] = Waiting
  BY <1>2, <1>3
<1>5. ErrandGoesOn(w)' /\ CounterErrandInv(w)' /\ WebhookErrandInv(w)'
  BY <1>4, WaitingIs DEF ErrandGoesOn, CounterErrandInv, WebhookErrandInv
<1>6. CASE errand[w].phase \in {"settle", "record"}
  <2>1. c \in DOMAIN codes
    BY <1>1, <1>6 DEF CollectInv, WebhookErrandInv
  <2>2. codes[c] \in Codes /\ CodeInv(c)
    BY <2>1, CollectFacts DEF CollectInv
  <2>3. PICK x : x = [codes[c] EXCEPT !.excused = TRUE]
    OBVIOUS
  <2>4. /\ codes' = [codes EXCEPT ![c] = x]
        /\ x \in Codes /\ x.amount = codes[c].amount /\ x.credited = codes[c].credited
        /\ x.shown = codes[c].shown /\ x.notice = codes[c].notice /\ x.excused = TRUE
    BY <1>1, <1>3, <1>6, <2>1, <2>2, <2>3 DEF GoesDown, Codes
  <2>5. CodeGoesOn(c, x)
    BY <2>2, <2>4 DEF CodeGoesOn, CodeInv
  <2>6. codes' = [codes EXCEPT ![c] = x] /\ x.shown = codes[c].shown /\ x.notice = codes[c].notice
        /\ x.excused
    BY <2>4
  <2> QED
    BY <1>1, <1>2, <1>5, <2>1, <2>5, <2>6, WaitingIs, WebhookStep
<1>7. CASE errand[w].phase \notin {"settle", "record"}
  <2>1. UNCHANGED codes
    BY <1>7 DEF GoesDown
  <2>2. \A d \in DOMAIN codes : ~Settling(w, d)
    BY <1>7 DEF Settling
  <2> QED
    BY <1>2, <1>5, <2>1, <2>2, WaitingIs, ErrandStep
<1> QED
  BY <1>6, <1>7

-----------------------------------------------------------------------------
(* Codes: money that comes in.                                              *)

LEMMA OtherMoneyIs ==
    ASSUME NEW k \in [Tills -> Errands]
    PROVE  /\ OtherMoney(k) \in [Tills -> Errands]
           /\ \A v \in Tills :
                /\ OtherMoney(k)[v].phase = k[v].phase /\ OtherMoney(k)[v].code = k[v].code
                /\ OtherMoney(k)[v].txn = k[v].txn /\ OtherMoney(k)[v].due = k[v].due
                /\ OtherMoney(k)[v].phase = "create" => OtherMoney(k)[v].other
<1>1. ASSUME NEW v \in Tills
      PROVE  /\ OtherMoney(k)[v] \in Errands
             /\ OtherMoney(k)[v].phase = k[v].phase /\ OtherMoney(k)[v].code = k[v].code
             /\ OtherMoney(k)[v].txn = k[v].txn /\ OtherMoney(k)[v].due = k[v].due
             /\ OtherMoney(k)[v].phase = "create" => OtherMoney(k)[v].other
  <2>1. PICK e : e = k[v]
    OBVIOUS
  <2>2. PICK b \in BOOLEAN : b = (e.other \/ e.phase = "create")
    OBVIOUS
  <2>3. PICK r : r = [e EXCEPT !.other = b]
    OBVIOUS
  <2>4. e \in Errands
    BY <2>1
  <2>5. r \in Errands /\ r.phase = e.phase /\ r.code = e.code /\ r.txn = e.txn /\ r.due = e.due /\ r.other = b
    BY <2>2, <2>3, <2>4 DEF Errands
  <2>6. OtherMoney(k)[v] = r
    BY <2>1, <2>2, <2>3 DEF OtherMoney
  <2>7. e.phase = "create" => b
    BY <2>2
  <2> QED
    BY <2>1, <2>5, <2>6, <2>7
<1>2. OtherMoney(k) = [v \in Tills |-> OtherMoney(k)[v]]
  BY DEF OtherMoney
<1> QED
  BY <1>1, <1>2

\* Every code but c is excused, and the requests know of the other money: what is left
\* of the invariant is c's own.
LEMMA MoneyStep ==
    ASSUME CollectInv, codes' \in Seq(Codes), byHand' \in Nat, voided' \in BOOLEAN,
           Len(codes') = Len(codes), Taken' <= SaleTotal,
           NEW k \in [Tills -> Errands], errand' = OtherMoney(k), NEW c,
           \A d \in DOMAIN codes :
             /\ codes'[d].amount = codes[d].amount
             /\ codes'[d].shown = codes[d].shown /\ codes'[d].notice = codes[d].notice
             /\ d # c => codes'[d].credited = codes[d].credited /\ codes'[d].excused,
           c \in DOMAIN codes =>
             CodeInv(c)' /\ (codes'[c].excused \/ codes'[c].credited = codes[c].amount)
               /\ codes'[c].credited > 0,
           NEW w, \A v \in Tills \ {w} : k[v] = errand[v],
           w \in Tills => k[w].phase = "log" /\ k[w].code = c /\ c \in DOMAIN codes /\ codes[c].notice # "none"
    PROVE  CollectInv'
<1>1. /\ DOMAIN codes' = DOMAIN codes /\ DOMAIN codes = 1 .. Len(codes) /\ Len(codes) \in Nat
      /\ \A d \in DOMAIN codes : codes[d] \in Codes /\ codes'[d] \in Codes
  BY CollectFacts, CodesTyped
<1>2. /\ errand' \in [Tills -> Errands]
      /\ \A v \in Tills : /\ errand'[v].phase = k[v].phase /\ errand'[v].code = k[v].code
                          /\ errand'[v].txn = k[v].txn /\ errand'[v].due = k[v].due
                          /\ errand'[v].phase = "create" => errand'[v].other
  BY OtherMoneyIs
<1>3. CollectTypeOK'
  BY <1>2 DEF CollectTypeOK
<1>4. ASSUME NEW d \in DOMAIN codes PROVE CodeInv(d)'
  <2>1. CASE d = c
    BY <1>4, <2>1
  <2>2. CASE d # c
    BY <1>4, <2>2 DEF CollectInv, CodeInv
  <2> QED
    BY <2>1, <2>2
<1>5. ASSUME NEW v \in Tills PROVE CounterErrandInv(v)' /\ WebhookErrandInv(v)'
  <2>1. CASE v = w
    <3>1. errand'[v].phase = "log" /\ errand'[v].code = c /\ c \in DOMAIN codes'
          /\ codes'[c].notice # "none" /\ (codes'[c].excused \/ codes'[c].credited = codes'[c].amount)
      BY <1>1, <1>2, <2>1
    <3> QED
      BY <3>1 DEF CounterErrandInv, WebhookErrandInv, Counts
  <2>2. CASE v # w
    <3>1. /\ CounterErrandInv(v) /\ WebhookErrandInv(v)
          /\ errand'[v].phase = errand[v].phase /\ errand'[v].code = errand[v].code
          /\ errand'[v].txn = errand[v].txn /\ errand'[v].due = errand[v].due
          /\ errand'[v].phase = "create" => errand'[v].other
      BY <1>2, <2>2 DEF CollectInv
    <3>2. CounterErrandInv(v)'
      BY <1>1, <3>1 DEF CounterErrandInv
    <3>3. /\ errand[v].phase \in {"save", "settle", "record", "log"} =>
               errand[v].code \in DOMAIN codes /\ codes[errand[v].code].notice # "none"
          /\ errand[v].phase \in {"save", "settle"} =>
               /\ errand[v].txn \in DOMAIN codes
               /\ codes[errand[v].txn].amount = codes[errand[v].code].amount
          /\ errand[v].phase = "record" =>
               0 < errand[v].due /\ errand[v].due <= codes[errand[v].code].amount
      BY <3>1 DEF WebhookErrandInv
    <3>4. PICK d : d = errand[v].code
      OBVIOUS
    <3>5. errand[v].phase \in {"record", "log"} /\ ~codes'[d].excused =>
            codes'[d].credited > 0 /\ codes'[d].credited = codes'[d].amount
      BY <3>3, <3>4
    <3>6. errand[v].phase = "log" /\ ~codes'[d].excused => Counts(d)'
      BY <3>5 DEF Counts
    <3>7. /\ errand'[v].code = d
          /\ errand'[v].phase = errand[v].phase
          /\ errand'[v].txn = errand[v].txn /\ errand'[v].due = errand[v].due
      BY <3>1, <3>4
    <3>8. WebhookErrandInv(v)'
      BY <1>1, <3>3, <3>4, <3>5, <3>6, <3>7 DEF WebhookErrandInv
    <3> QED
      BY <3>2, <3>8
  <2> QED
    BY <2>1, <2>2
<1>6. (\A u, v \in Tills :
         errand[u].phase = "ask" /\ errand[v].phase = "ask" /\ errand[u].code = errand[v].code => u = v)'
  <2>1. \A v \in Tills : errand'[v].phase = "ask" =>
          errand[v].phase = "ask" /\ errand'[v].code = errand[v].code
    BY <1>2
  <2> QED
    BY <2>1 DEF CollectInv
<1> QED
  BY <1>1, <1>3, <1>4, <1>5, <1>6 DEF CollectInv

LEMMA ExcusedButIs ==
    ASSUME NEW cs \in Seq(Codes), NEW C
    PROVE  /\ ExcusedBut(C, cs) \in Seq(Codes) /\ Len(ExcusedBut(C, cs)) = Len(cs)
           /\ DOMAIN ExcusedBut(C, cs) = DOMAIN cs
           /\ \A c \in DOMAIN cs :
                /\ ExcusedBut(C, cs)[c].txn = cs[c].txn /\ ExcusedBut(C, cs)[c].amount = cs[c].amount
                /\ ExcusedBut(C, cs)[c].shown = cs[c].shown /\ ExcusedBut(C, cs)[c].notice = cs[c].notice
                /\ ExcusedBut(C, cs)[c].credited = cs[c].credited
                /\ c \in C => ExcusedBut(C, cs)[c].excused = cs[c].excused
                /\ c \notin C => ExcusedBut(C, cs)[c].excused
<1>1. DOMAIN cs = 1 .. Len(cs) /\ Len(cs) \in Nat /\ \A c \in DOMAIN cs : cs[c] \in Codes
  BY CodesTyped
<1>2. ASSUME NEW c \in DOMAIN cs
      PROVE  /\ ExcusedBut(C, cs)[c] \in Codes
             /\ ExcusedBut(C, cs)[c].txn = cs[c].txn /\ ExcusedBut(C, cs)[c].amount = cs[c].amount
             /\ ExcusedBut(C, cs)[c].shown = cs[c].shown /\ ExcusedBut(C, cs)[c].notice = cs[c].notice
             /\ ExcusedBut(C, cs)[c].credited = cs[c].credited
             /\ c \in C => ExcusedBut(C, cs)[c].excused = cs[c].excused
             /\ c \notin C => ExcusedBut(C, cs)[c].excused
  <2>1. PICK r : r = [cs[c] EXCEPT !.excused = TRUE]
    OBVIOUS
  <2>2. cs[c] \in Codes
    BY <1>1
  <2>3. /\ r \in Codes /\ r.txn = cs[c].txn /\ r.amount = cs[c].amount /\ r.shown = cs[c].shown
        /\ r.notice = cs[c].notice /\ r.credited = cs[c].credited /\ r.excused = TRUE
    BY <2>1, <2>2 DEF Codes
  <2>4. ExcusedBut(C, cs)[c] = IF c \in C THEN cs[c] ELSE r
    BY <2>1 DEF ExcusedBut
  <2>5. CASE c \in C
    BY <2>2, <2>4, <2>5
  <2>6. CASE c \notin C
    BY <2>3, <2>4, <2>6
  <2> QED
    BY <2>5, <2>6
<1>3. ExcusedBut(C, cs) = [c \in 1 .. Len(cs) |-> ExcusedBut(C, cs)[c]]
  BY <1>1 DEF ExcusedBut
<1>4. ExcusedBut(C, cs) \in [1 .. Len(cs) -> Codes]
  BY <1>1, <1>2, <1>3
<1>5. ExcusedBut(C, cs) \in Seq(Codes) /\ Len(ExcusedBut(C, cs)) = Len(cs)
  <2> HIDE DEF ExcusedBut, Codes
  <2> QED
    BY <1>1, <1>4
<1> QED
  BY <1>1, <1>2, <1>4, <1>5

LEMMA TakesByHandStep ==
    ASSUME CollectInv, NEW a \in 1 .. SaleTotal, TakesByHand(a)
    PROVE  CollectInv'
<1>1. PICK w : w \notin Tills
  BY NoSetContainsEverything
<1>2. /\ a <= StillDue /\ byHand' = byHand + a /\ codes' = ExcusedBut({}, codes)
      /\ errand' = OtherMoney(errand) /\ voided' = voided
  BY DEF TakesByHand
<1>3. /\ codes \in Seq(Codes) /\ errand \in [Tills -> Errands] /\ byHand \in Nat /\ voided \in BOOLEAN
      /\ Taken \in Nat /\ StillDue = SaleTotal - Taken /\ CollectTypeOK
  BY CollectFacts
<1>4. /\ codes' \in Seq(Codes) /\ Len(codes') = Len(codes)
      /\ \A d \in DOMAIN codes :
           /\ codes'[d].amount = codes[d].amount /\ codes'[d].credited = codes[d].credited
           /\ codes'[d].shown = codes[d].shown /\ codes'[d].notice = codes[d].notice
           /\ codes'[d].excused
  <2>0. PICK C : C = {}
    OBVIOUS
  <2>1. PICK E : E = ExcusedBut(C, codes)
    OBVIOUS
  <2>2. /\ E \in Seq(Codes) /\ Len(E) = Len(codes)
        /\ \A d \in DOMAIN codes :
             /\ E[d].amount = codes[d].amount /\ E[d].credited = codes[d].credited
             /\ E[d].shown = codes[d].shown /\ E[d].notice = codes[d].notice
             /\ d \in C => E[d].excused = codes[d].excused
             /\ d \notin C => E[d].excused
    <3>1. codes \in Seq(Codes)
      BY <1>3
    <3> QED
      BY <2>1, <3>1, ExcusedButIs
  <2> QED
    BY <1>2, <2>0, <2>1, <2>2
<1>5. a \in Nat /\ byHand' \in Nat /\ voided' \in BOOLEAN
  BY <1>2, <1>3, SaleTotalAssumption
<1>6. Taken' <= SaleTotal
  <2>1. CreditedIn(codes') = CreditedIn(codes) /\ CreditedIn(codes) \in Nat
    BY <1>3, <1>4, CreditsSame, CreditsTyped
  <2>2. Taken = byHand + CreditedIn(codes) /\ Taken' = byHand' + CreditedIn(codes')
    BY DEF Taken, CreditedIn
  <2> QED
    BY <1>2, <1>3, <1>5, <2>1, <2>2, SaleTotalAssumption
<1>7. PICK c : c \notin DOMAIN codes
  BY NoSetContainsEverything
<1>8. \A d \in DOMAIN codes :
        /\ codes'[d].amount = codes[d].amount
        /\ codes'[d].shown = codes[d].shown /\ codes'[d].notice = codes[d].notice
        /\ d # c => codes'[d].credited = codes[d].credited /\ codes'[d].excused
  BY <1>4
<1>9. \A v \in Tills \ {w} : errand[v] = errand[v]
  OBVIOUS
<1> QED
  BY <1>1, <1>2, <1>3, <1>4, <1>5, <1>6, <1>7, <1>8, <1>9, MoneyStep

LEMMA RecordsCreditStep ==
    ASSUME CollectInv, NEW w \in Tills, RecordsCredit(w)
    PROVE  CollectInv'
<1>1. PICK c : c = errand[w].code
  OBVIOUS
<1>2. PICK due : due = errand[w].due
  OBVIOUS
<1>3. errand[w].phase = "record" /\ UNCHANGED <<byHand, voided>>
  BY DEF RecordsCredit
<1>4. /\ codes \in Seq(Codes) /\ errand \in [Tills -> Errands] /\ errand[w] \in Errands
      /\ byHand \in Nat /\ voided \in BOOLEAN
      /\ Taken \in Nat /\ StillDue \in Nat /\ StillDue = SaleTotal - Taken
  BY CollectFacts
<1>5. /\ c \in DOMAIN codes /\ codes[c].notice # "none" /\ 0 < due /\ due <= codes[c].amount
      /\ ~codes[c].excused /\ codes[c].credited = 0 => due = codes[c].amount
  BY <1>1, <1>2, <1>3 DEF CollectInv, WebhookErrandInv
<1>6. codes[c] \in Codes /\ CodeInv(c) /\ due \in Nat
  BY <1>2, <1>4, <1>5, CollectFacts DEF CollectInv, Errands
<1>7. PICK l : l = [Waiting EXCEPT !.phase = "log", !.code = c]
  OBVIOUS
<1>8. l \in Errands /\ l.phase = "log" /\ l.code = c
  <2>1. c \in Nat
    BY <1>1, <1>4 DEF Errands
  <2> QED
    BY <1>7, <2>1, WaitingIs DEF Errands
<1>9. CASE codes[c].credited > 0
  <2>1. UNCHANGED codes /\ errand' = [errand EXCEPT ![w] = l]
    BY <1>1, <1>4, <1>6, <1>7, <1>9 DEF RecordsCredit, Logs, Codes
  <2>2. ~codes[c].excused => codes[c].credited = codes[c].amount
    BY <1>6, <1>9 DEF CodeInv
  <2>3. errand'[w] = l
    BY <1>4, <2>1
  <2>4. CounterErrandInv(w)' /\ WebhookErrandInv(w)'
    BY <1>5, <1>8, <2>1, <2>2, <2>3 DEF CounterErrandInv, WebhookErrandInv, Counts
  <2>5. \A d \in DOMAIN codes :
          ~codes[d].excused /\ Settling(w, d) =>
            codes[d].credited = codes[d].amount \/ (l.phase \in {"settle", "record"} /\ l.code = d)
    BY <1>1, <2>2 DEF Settling
  <2> QED
    BY <1>3, <1>8, <2>1, <2>4, <2>5, ErrandStep
<1>10. CASE codes[c].credited = 0 /\ due > StillDue
  <2>1. PICK x : x = [codes[c] EXCEPT !.notice = "failed"]
    OBVIOUS
  <2>2. /\ codes' = [codes EXCEPT ![c] = x] /\ errand' = [errand EXCEPT ![w] = Waiting]
        /\ x \in Codes /\ x.amount = codes[c].amount /\ x.credited = codes[c].credited
        /\ x.shown = codes[c].shown /\ x.excused = codes[c].excused /\ x.txn = codes[c].txn
        /\ x.notice = "failed"
    <3>1. /\ codes' = [codes EXCEPT ![c].notice = "failed"]
          /\ errand' = [errand EXCEPT ![w] = Waiting]
      BY <1>1, <1>2, <1>4, <1>6, <1>10 DEF RecordsCredit, Rests
    <3>2. codes' = [codes EXCEPT ![c] = x]
      BY <2>1, <3>1
    <3> QED
      BY <1>6, <2>1, <3>1, <3>2 DEF Codes
  <2>3. CodeGoesOn(c, x) /\ x.excused
    BY <1>4, <1>5, <1>6, <1>10, <2>2 DEF CodeGoesOn, CodeInv, Codes
  <2>4. errand'[w] = Waiting
    BY <1>4, <2>2
  <2>5. ErrandGoesOn(w)'
    BY <2>4, WaitingIs DEF ErrandGoesOn, CounterErrandInv, WebhookErrandInv
  <2>6. /\ codes' = [codes EXCEPT ![c] = x] /\ errand' = [errand EXCEPT ![w] = Waiting]
        /\ x.shown = codes[c].shown
    BY <2>2
  <2> QED
    BY <1>1, <1>3, <1>5, <2>3, <2>5, <2>6, WaitingIs, WebhookStep
<1>11. CASE codes[c].credited = 0 /\ due <= StillDue
  <2>1. PICK x : x = [codes[c] EXCEPT !.credited = due]
    OBVIOUS
  <2>2. PICK cs : cs = [codes EXCEPT ![c] = x]
    OBVIOUS
  <2>3. PICK k : k = [errand EXCEPT ![w] = l]
    OBVIOUS
  <2>4. codes' = ExcusedBut({c}, cs) /\ errand' = OtherMoney(k)
    BY <1>1, <1>2, <1>4, <1>6, <1>7, <1>11, <2>1, <2>2, <2>3 DEF RecordsCredit, Codes
  <2>5. /\ x \in Codes /\ x.amount = codes[c].amount /\ x.credited = due /\ x.txn = codes[c].txn
        /\ x.shown = codes[c].shown /\ x.excused = codes[c].excused /\ x.notice = codes[c].notice
    BY <1>6, <2>1 DEF Codes
  <2>6. /\ cs \in Seq(Codes) /\ Len(cs) = Len(codes) /\ DOMAIN cs = DOMAIN codes
        /\ cs[c] = x /\ \A d \in DOMAIN codes \ {c} : cs[d] = codes[d]
    BY <1>4, <1>5, <2>2, <2>5, OneCodeSet
  <2>7. /\ codes' \in Seq(Codes) /\ Len(codes') = Len(codes)
        /\ \A d \in DOMAIN codes :
             /\ codes'[d].amount = cs[d].amount /\ codes'[d].credited = cs[d].credited
             /\ codes'[d].shown = cs[d].shown /\ codes'[d].notice = cs[d].notice
             /\ codes'[d].txn = cs[d].txn
             /\ d \in {c} => codes'[d].excused = cs[d].excused
             /\ d \notin {c} => codes'[d].excused
    <3>0. PICK C : C = {c}
      OBVIOUS
    <3>1. PICK E : E = ExcusedBut(C, cs)
      OBVIOUS
    <3>2. /\ E \in Seq(Codes) /\ Len(E) = Len(cs)
          /\ \A d \in DOMAIN cs :
               /\ E[d].amount = cs[d].amount /\ E[d].credited = cs[d].credited
               /\ E[d].shown = cs[d].shown /\ E[d].notice = cs[d].notice /\ E[d].txn = cs[d].txn
               /\ d \in C => E[d].excused = cs[d].excused
               /\ d \notin C => E[d].excused
      <4>1. cs \in Seq(Codes)
        BY <2>6
      <4> QED
        BY <3>1, <4>1, ExcusedButIs
    <3> QED
      BY <2>4, <2>6, <3>0, <3>1, <3>2
  <2>8. \A d \in DOMAIN codes :
          /\ codes'[d].amount = codes[d].amount
          /\ codes'[d].shown = codes[d].shown /\ codes'[d].notice = codes[d].notice
          /\ d # c => codes'[d].credited = codes[d].credited /\ codes'[d].excused
    <3> TAKE d \in DOMAIN codes
    <3>1. CASE d = c
      BY <2>5, <2>6, <2>7, <3>1
    <3>2. CASE d # c
      BY <2>6, <2>7, <3>2
    <3> QED
      BY <3>1, <3>2
  <2>9. /\ codes'[c].amount = codes[c].amount /\ codes'[c].credited = due /\ codes'[c].txn = codes[c].txn
        /\ codes'[c].shown = codes[c].shown /\ codes'[c].notice = codes[c].notice
        /\ codes'[c].excused = codes[c].excused
    BY <1>5, <2>5, <2>6, <2>7
  <2>10. Taken' <= SaleTotal
    <3>1. CreditedIn(codes') = CreditedIn(codes) - codes[c].credited + codes'[c].credited
      <4>1. \A d \in DOMAIN codes : d = c \/ codes'[d].credited = codes[d].credited
        BY <2>8
      <4> QED
        BY <1>4, <1>5, <2>7, <4>1, CreditsMore
    <3>2. CreditedIn(codes) \in Nat
      BY <1>4, CreditsTyped
    <3>3. Taken = byHand + CreditedIn(codes) /\ Taken' = byHand' + CreditedIn(codes')
      BY DEF Taken, CreditedIn
    <3> QED
      BY <1>3, <1>4, <1>6, <1>11, <2>9, <3>1, <3>2, <3>3, SaleTotalAssumption
  <2>11. codes'[c].excused \/ due = codes[c].amount
    BY <1>5, <1>11, <2>9
  <2>12. CodeInv(c)'
    BY <1>5, <1>6, <2>7, <2>9, <2>11 DEF CodeInv, Counts
  <2>13. k \in [Tills -> Errands] /\ k[w] = l /\ \A v \in Tills \ {w} : k[v] = errand[v]
    BY <1>4, <1>8, <2>3
  <2>14. byHand' \in Nat /\ voided' \in BOOLEAN /\ codes'[c].credited > 0
         /\ (codes'[c].excused \/ codes'[c].credited = codes[c].amount)
         /\ codes' \in Seq(Codes) /\ Len(codes') = Len(codes) /\ errand' = OtherMoney(k)
         /\ k[w].phase = "log" /\ k[w].code = c
    BY <1>3, <1>4, <1>5, <1>6, <1>8, <2>4, <2>7, <2>9, <2>11, <2>13
  <2> QED
    BY <1>5, <2>8, <2>10, <2>12, <2>13, <2>14, MoneyStep
<1> QED
  <2>1. codes[c].credited \in Nat
    BY <1>6 DEF Codes
  <2> QED
    BY <1>4, <1>6, <1>9, <1>10, <1>11, <2>1

LEMMA CreatesTransactionStep ==
    ASSUME CollectInv, NEW w \in Tills, CreatesTransaction(w)
    PROVE  CollectInv'
<1>1. PICK C : C = {}
  OBVIOUS
<1>2. PICK E : E = ExcusedBut(C, codes)
  OBVIOUS
<1>3. PICK x : x = NewCode(errand[w].due, errand[w].other)
  OBVIOUS
<1>4. PICK n : n = Len(codes) + 1
  OBVIOUS
<1>5. PICK e : e = [Waiting EXCEPT !.phase = "ask", !.code = n]
  OBVIOUS
<1>6. /\ errand[w].phase = "create" /\ UNCHANGED <<byHand, voided>>
      /\ codes' = Append(E, x) /\ errand' = [errand EXCEPT ![w] = e]
  BY <1>1, <1>2, <1>3, <1>4, <1>5 DEF CreatesTransaction
<1>7. /\ codes \in Seq(Codes) /\ DOMAIN codes = 1 .. Len(codes) /\ Len(codes) \in Nat
      /\ \A d \in DOMAIN codes : codes[d] \in Codes
      /\ errand \in [Tills -> Errands] /\ errand[w] \in Errands
      /\ byHand \in Nat /\ voided \in BOOLEAN
      /\ Taken \in Nat /\ StillDue \in Nat /\ StillDue = SaleTotal - Taken
  BY CollectFacts
<1>8. errand[w].due \in Nat /\ errand[w].due > 0 /\ (~errand[w].other => errand[w].due <= StillDue)
  BY <1>6, <1>7 DEF CollectInv, CounterErrandInv, Errands
<1>9. /\ x \in Codes /\ x.amount = errand[w].due /\ x.txn = "created" /\ x.shown = "none"
      /\ x.notice = "none" /\ x.credited = 0 /\ (~x.excused => x.amount <= StillDue)
  <2>1. errand[w].other \in BOOLEAN
    BY <1>7 DEF Errands
  <2> QED
    BY <1>3, <1>8, <2>1 DEF NewCode, Codes
<1>10. /\ E \in Seq(Codes) /\ Len(E) = Len(codes)
       /\ \A d \in DOMAIN codes :
            /\ E[d].amount = codes[d].amount /\ E[d].credited = codes[d].credited
            /\ E[d].shown = codes[d].shown /\ E[d].notice = codes[d].notice
            /\ d \notin C => E[d].excused
  <2>1. codes \in Seq(Codes)
    BY <1>7
  <2> QED
    BY <1>2, <2>1, ExcusedButIs
<1>11. /\ codes' \in Seq(Codes) /\ Len(codes') = n /\ DOMAIN codes' = 1 .. n
       /\ codes'[n] = x /\ \A d \in DOMAIN codes : codes'[d] = E[d]
  BY <1>4, <1>6, <1>7, <1>9, <1>10
<1>12. \A d \in DOMAIN codes :
         /\ d \in DOMAIN codes' /\ d # n
         /\ codes'[d].amount = codes[d].amount /\ codes'[d].credited = codes[d].credited
         /\ codes'[d].shown = codes[d].shown /\ codes'[d].notice = codes[d].notice
         /\ codes'[d].excused
  BY <1>1, <1>4, <1>7, <1>10, <1>11
<1>13. Taken' = Taken /\ StillDue' = StillDue
  <2>1. /\ Len(codes') = Len(codes) + 1 /\ codes'[Len(codes')].credited = 0
        /\ \A d \in DOMAIN codes : codes'[d].credited = codes[d].credited
        /\ codes \in Seq(Codes) /\ codes' \in Seq(Codes)
    BY <1>4, <1>7, <1>9, <1>11, <1>12
  <2>2. CreditedIn(codes') = CreditedIn(codes)
    BY <2>1, CreditsAppended
  <2> QED
    BY <1>6, <2>2 DEF Taken, StillDue, CreditedIn
<1>14. e \in Errands /\ e.phase = "ask" /\ e.code = n
  <2>1. n \in Nat
    BY <1>4, <1>7
  <2> QED
    BY <1>5, <2>1, WaitingIs DEF Errands
<1>15. /\ errand' \in [Tills -> Errands] /\ errand'[w] = e
       /\ \A v \in Tills \ {w} : errand'[v] = errand[v]
  BY <1>6, <1>7, <1>14
<1>16. CollectTypeOK'
  BY <1>6, <1>7, <1>11, <1>15 DEF CollectTypeOK
<1>17. Taken' <= SaleTotal
  BY <1>13 DEF CollectInv
<1>18. ASSUME NEW d \in DOMAIN codes' PROVE CodeInv(d)'
  <2>1. CASE d = n
    BY <1>9, <1>11, <1>13, <2>1 DEF CodeInv
  <2>2. CASE d # n
    <3>1. d \in DOMAIN codes
      BY <1>4, <1>7, <1>11, <2>2
    <3>2. CodeInv(d)
      BY <3>1 DEF CollectInv
    <3> QED
      BY <1>12, <3>1, <3>2 DEF CodeInv
  <2> QED
    BY <2>1, <2>2
<1>19. ASSUME NEW v \in Tills PROVE CounterErrandInv(v)' /\ WebhookErrandInv(v)'
  <2>1. CASE v = w
    <3>1. n \in DOMAIN codes' /\ codes'[n] = x /\ errand'[v] = e
      BY <1>4, <1>7, <1>11, <1>15, <2>1
    <3> QED
      BY <1>9, <1>14, <3>1 DEF CounterErrandInv, WebhookErrandInv
  <2>2. CASE v # w
    <3>1. CounterErrandInv(v) /\ WebhookErrandInv(v) /\ errand'[v] = errand[v]
      BY <1>15, <2>2 DEF CollectInv
    <3>2. CounterErrandInv(v)'
      BY <1>12, <1>13, <3>1 DEF CounterErrandInv
    <3>3. WebhookErrandInv(v)'
      BY <1>12, <3>1 DEF WebhookErrandInv
    <3> QED
      BY <3>2, <3>3
  <2> QED
    BY <2>1, <2>2
<1>20. ASSUME NEW u \in Tills, NEW v \in Tills,
              errand'[u].phase = "ask", errand'[v].phase = "ask", errand'[u].code = errand'[v].code
       PROVE  u = v
  <2>1. \A q \in Tills \ {w} : errand'[q].phase = "ask" =>
          errand[q].phase = "ask" /\ errand'[q].code = errand[q].code /\ errand'[q].code # n
    BY <1>12, <1>15 DEF CollectInv, CounterErrandInv
  <2>2. errand'[w].code = n
    BY <1>14, <1>15
  <2>3. CASE u = w \/ v = w
    BY <1>20, <2>1, <2>2, <2>3
  <2>4. CASE u # w /\ v # w
    BY <1>20, <2>1, <2>4 DEF CollectInv
  <2> QED
    BY <2>3, <2>4
<1> QED
  BY <1>16, <1>17, <1>18, <1>19, <1>20 DEF CollectInv

\* Nothing was credited to a sale that may be voided.
LEMMA VoidsWholeSaleStep ==
    ASSUME CollectInv, VoidsWholeSale
    PROVE  CollectInv'
<1>1. /\ Taken = byHand /\ voided' = TRUE /\ byHand' = 0 /\ UNCHANGED <<codes, errand>>
  BY DEF VoidsWholeSale
<1>2. /\ CollectTypeOK /\ byHand \in Nat /\ Taken \in Nat /\ StillDue \in Nat /\ StillDue = SaleTotal - Taken
      /\ codes \in Seq(Codes) /\ \A d \in DOMAIN codes : codes[d].amount \in Nat
  BY CollectFacts DEF Codes
<1>3. CollectTypeOK'
  BY <1>1, <1>2 DEF CollectTypeOK
<1>4. Taken' = 0 /\ StillDue' \in Nat /\ StillDue <= StillDue'
  <2>1. CreditedIn(codes) \in Nat /\ Taken = byHand + CreditedIn(codes)
        /\ Taken' = byHand' + CreditedIn(codes')
    BY <1>2, CreditsTyped DEF Taken, CreditedIn
  <2>2. CreditedIn(codes') = CreditedIn(codes)
    BY <1>1 DEF CreditedIn
  <2>3. StillDue' = SaleTotal - Taken'
    BY DEF StillDue
  <2>4. CreditedIn(codes) = 0
    BY <1>1, <1>2, <2>1
  <2>5. Taken' = 0
    BY <1>1, <2>1, <2>2, <2>4
  <2> QED
    BY <1>2, <2>3, <2>5, SaleTotalAssumption
<1>5. ASSUME NEW d \in DOMAIN codes' PROVE CodeInv(d)'
  <2>1. CodeInv(d) /\ d \in DOMAIN codes
    BY <1>1 DEF CollectInv
  <2>2. Counts(d)' <=> Counts(d)
    BY <1>1 DEF Counts, Settling
  <2>3. codes[d].amount <= StillDue => codes[d].amount <= StillDue'
    BY <1>2, <1>4, <2>1
  <2> QED
    BY <1>1, <2>1, <2>2, <2>3 DEF CodeInv
<1>6. ASSUME NEW v \in Tills PROVE CounterErrandInv(v)' /\ WebhookErrandInv(v)'
  <2>1. CounterErrandInv(v) /\ WebhookErrandInv(v) /\ errand[v].due \in Nat
    BY <1>2 DEF CollectInv, CollectTypeOK, Errands
  <2>2. errand[v].due <= StillDue => errand[v].due <= StillDue'
    BY <1>2, <1>4, <2>1
  <2>3. CounterErrandInv(v)'
    BY <1>1, <2>1, <2>2 DEF CounterErrandInv
  <2>4. WebhookErrandInv(v)'
    BY <1>1, <2>1 DEF WebhookErrandInv, Counts, Settling
  <2> QED
    BY <2>3, <2>4
<1>7. Taken' <= SaleTotal
  BY <1>4, SaleTotalAssumption
<1> QED
  BY <1>1, <1>3, <1>5, <1>6, <1>7 DEF CollectInv

LEMMA CollectInitially == CollectInit => CollectInv
<1> SUFFICES ASSUME CollectInit PROVE CollectInv
  OBVIOUS
<1>1. codes = <<>> /\ byHand = 0 /\ voided = FALSE /\ errand = [w \in Tills |-> Waiting]
  BY DEF CollectInit
<1>2. codes \in Seq(Codes) /\ DOMAIN codes = {}
  BY <1>1
<1>3. CollectTypeOK
  BY <1>1, <1>2, WaitingIs DEF CollectTypeOK
<1>4. Taken <= SaleTotal
  <2>1. SumOver([c \in DOMAIN codes |-> codes[c].credited], {}) = 0
    BY SumEmpty
  <2> QED
    BY <1>1, <1>2, <2>1, SaleTotalAssumption DEF Taken
<1>5. \A w \in Tills : errand[w].phase = "wait"
  BY <1>1, WaitingIs
<1> QED
  BY <1>2, <1>3, <1>4, <1>5 DEF CollectInv, CounterErrandInv, WebhookErrandInv

LEMMA CollectStepInv == CollectInv /\ [CollectNext]_collectVars => CollectInv'
<1> SUFFICES ASSUME CollectInv, [CollectNext]_collectVars
             PROVE  CollectInv'
  OBVIOUS
<1>1. ASSUME NEW a \in 1 .. SaleTotal, TakesByHand(a) PROVE CollectInv'
  BY <1>1, TakesByHandStep
<1>2. ASSUME VoidsWholeSale PROVE CollectInv'
  BY <1>2, VoidsWholeSaleStep
<1>3. ASSUME NEW c \in DOMAIN codes, PaysCode(c) \/ Expires(c) PROVE CollectInv'
  BY <1>3, PaysCodeStep
<1>4. ASSUME NEW w \in Tills, NEW c \in DOMAIN codes, CancelCollection(w, c) \/ HandlesNotice(w, c)
      PROVE  CollectInv'
  BY <1>4, CancelCollectionStep, HandlesNoticeStep
<1>5. ASSUME NEW w \in Tills,
             \/ SavesCancelled(w) \/ CreateUpiCollection(w) \/ ReadsQuote(w)
             \/ CreatesTransaction(w) \/ AsksProvider(w)
      PROVE  CollectInv'
  BY <1>5, SavesCancelledStep, CreateUpiCollectionStep, ReadsQuoteStep, CreatesTransactionStep,
     AsksProviderStep
<1>6. ASSUME NEW w \in Tills,
             \/ SavesSuccess(w) \/ ReadsApplied(w) \/ RecordsCredit(w) \/ LogsNotice(w)
             \/ GoesDown(w)
      PROVE  CollectInv'
  BY <1>6, SavesSuccessStep, ReadsAppliedStep, RecordsCreditStep, LogsNoticeStep, GoesDownStep
<1>7. CASE UNCHANGED collectVars
  BY <1>7 DEF collectVars, CollectInv, CollectTypeOK, CodeInv, CounterErrandInv, WebhookErrandInv,
     Counts, Settling, Taken, StillDue
<1> QED
  BY <1>1, <1>2, <1>3, <1>4, <1>5, <1>6, <1>7 DEF CollectNext

\* The codes of a sale and the payments on them stay consistent at every step of the
\* counter's requests, the customer and the webhooks, whatever is left half way.
THEOREM CollectInvariance == CollectSpec => []CollectInv
<1> QED
  BY CollectInitially, CollectStepInv, PTL DEF CollectSpec

\* For every total and any number of requests and codes: no more than the total is
\* taken, a credit is backed by a payment of its own code, and a payment that was worked
\* off counts in full unless one of the named events came in between.
THEOREM PaidCodesAreCounted == CollectSpec => []PaidCodesCount
<1>1. CollectInv => PaidCodesCount
  BY DEF CollectInv, PaidCodesCount, CodeInv, Counts, Settling
<1> QED
  BY <1>1, CollectInvariance, PTL
=============================================================================
